----------------------- MODULE IngestPipeline_proofs -----------------------
(***************************************************************************)
(* Proofs about IngestPipeline, for any sets of uploads, tenants and files, *)
(* any number of pages, faults and DELETE requests.                        *)
(***************************************************************************)
EXTENDS IngestPipeline, TLAPS

\* The tenant's lock belongs to the thread that is between the look-up of the
\* MD5 and the final row.
LockInv == \A u \in Uploads : pc[u] \in Critical => lock[Tenant(u)] = u

\* From its look-up to its release of the lock, a thread's MD5 is found under
\* no doc_id but its own.
CheckedInv == \A u \in Uploads : pc[u] \in Checked => SameHash(u) \subseteq {Key(u)}

\* A documents row sits at the key of the upload whose file it names.
RowKeyInv == \A k \in Keys : docs[k] # None => Key(docs[k].path) = k

DedupInv == TypeOK /\ LockInv /\ CheckedInv /\ RowKeyInv /\ UniqueHash

\* Every step is one of these: the disjuncts of Next, and stuttering.
LEMMA KeyType ==
  ASSUME TypeOK, NEW u \in Uploads
  PROVE  Key(u) \in Keys /\ Tenant(u) \in Tenants /\ Key(u)[1] = Tenant(u)
         /\ Hash(u) \in Hashes
  BY ConstantsAssumption DEF TypeOK, Key, Tenant, Hash, Keys

\* The requests are never rewritten.
LEMMA RequestsFixed ==
  ASSUME TypeOK, [Next]_vars
  PROVE  /\ req' = req
         /\ \A u \in Uploads : Key(u)' = Key(u) /\ Tenant(u)' = Tenant(u) /\ Hash(u)' = Hash(u)
  <1>1. req' = req
    BY DEF Next, vars, Ingest, DeleteStep, Accept, Start, AcquireLock, FindDuplicate,
           DropDuplicateFile, CompleteTask, Parse, SavePending, CleanOld, SavePage,
           ReadPages, EmbedChunk, FinishEmbedding, SaveFinal, FailTask, Raise,
           ResolveFiles, DeleteDocument, RemoveFiles, DeleteVectors, Crash
  <1> QED BY <1>1 DEF Key, Tenant, Hash

LEMMA TypeInvariance ==
  ASSUME TypeOK, [Next]_vars
  PROVE  TypeOK'
  <1> USE ConstantsAssumption DEF TypeOK, TaskRow
  <1>1. ASSUME NEW u \in Uploads, Accept(u) PROVE TypeOK'
    BY <1>1 DEF Accept, dbVars, delVars, Positions, Critical, Checked, Building
  <1>2. ASSUME NEW u \in Uploads, Start(u) PROVE TypeOK'
    BY <1>2 DEF Start, UpdateTask, dbVars, delVars, Positions
  <1>3. ASSUME NEW u \in Uploads, AcquireLock(u) PROVE TypeOK'
    BY <1>3, KeyType DEF AcquireLock, taskVars, dbVars, delVars, Positions, Critical
  <1>4. ASSUME NEW u \in Uploads, FindDuplicate(u) PROVE TypeOK'
    BY <1>4, KeyType DEF FindDuplicate, ReleaseLock, taskVars, dbVars, delVars, Positions
  <1>5. ASSUME NEW u \in Uploads, DropDuplicateFile(u) PROVE TypeOK'
    BY <1>5 DEF DropDuplicateFile, taskVars, dbVars, delVars, Positions
  <1>6. ASSUME NEW u \in Uploads, CompleteTask(u) PROVE TypeOK'
    BY <1>6 DEF CompleteTask, UpdateTask, dbVars, delVars, Positions
  <1>7. ASSUME NEW u \in Uploads, Parse(u) PROVE TypeOK'
    BY <1>7 DEF Parse, taskVars, dbVars, delVars, Positions, Critical, Checked
  <1>8. ASSUME NEW u \in Uploads, SavePending(u) PROVE TypeOK'
    BY <1>8, KeyType DEF SavePending, SaveDocument, DocRow, taskVars, delVars,
                         Positions, Critical, Checked
  <1>9. ASSUME NEW u \in Uploads, CleanOld(u) PROVE TypeOK'
    BY <1>9, KeyType DEF CleanOld, DeleteRows, RowsOf, Inject, Rows, taskVars, dbVars,
                         delVars, Positions, Critical, Checked, Building
  <1>10. ASSUME NEW u \in Uploads, SavePage(u) PROVE TypeOK'
    BY <1>10 DEF SavePage, FirstOf, taskVars, delVars
  <1>11. ASSUME NEW u \in Uploads, ReadPages(u) PROVE TypeOK'
    BY <1>11 DEF ReadPages, RowsOf, taskVars, dbVars, delVars, Positions, Critical, Checked, Building
  <1>12. ASSUME NEW u \in Uploads, EmbedChunk(u) PROVE TypeOK'
    BY <1>12 DEF EmbedChunk, FirstOf, taskVars, delVars
  <1>13. ASSUME NEW u \in Uploads, FinishEmbedding(u) PROVE TypeOK'
    BY <1>13 DEF FinishEmbedding, taskVars, dbVars, delVars, Positions, Critical, Checked, Building
  <1>14. ASSUME NEW u \in Uploads, SaveFinal(u) PROVE TypeOK'
    BY <1>14, KeyType DEF SaveFinal, SaveDocument, ReleaseLock, DocRow, taskVars, delVars, Positions
  <1>15. ASSUME NEW u \in Uploads, FailTask(u) PROVE TypeOK'
    BY <1>15 DEF FailTask, UpdateTask, dbVars, delVars, Positions
  <1>16. ASSUME NEW u \in Uploads, Raise(u) PROVE TypeOK'
    BY <1>16, KeyType DEF Raise, Inject, taskVars, dbVars, delVars, Positions
  <1>17. ASSUME NEW k \in Keys, ResolveFiles(k) PROVE TypeOK'
    BY <1>17 DEF ResolveFiles, DocRow, taskVars, dbVars, threadVars
  <1>18. CASE DeleteDocument
    <2>1. del' = [del EXCEPT !.at = "rows_gone"] \/ del' = Idle
      BY <1>18 DEF DeleteDocument
    <2>2. /\ del' \in [at : {"idle", "resolved", "rows_gone", "files_gone"},
                      key : Keys \cup {None}, path : Uploads \cup {None}]
          /\ (del'.at # "idle") => (del'.key \in Keys)
      BY <2>1, <1>18 DEF DeleteDocument, Idle
    <2>3. docs' \in [Keys -> DocRow \cup {None}]
      BY <1>18 DEF DeleteDocument, DeleteRows, Inject, dbVars
    <2>4. pages' \subseteq Rows /\ chunks' \subseteq Rows /\ raced' \subseteq Uploads
      BY <1>18 DEF DeleteDocument, DeleteRows, RowsOf, Interrupted, Inject, dbVars
    <2> QED
      BY <2>2, <2>3, <2>4, <1>18 DEF DeleteDocument, Inject, taskVars, threadVars
  <1>19. CASE RemoveFiles
    BY <1>19 DEF RemoveFiles, Inject, taskVars, dbVars, threadVars
  <1>20. CASE DeleteVectors
    BY <1>20 DEF DeleteVectors, Inject, Idle, taskVars, dbVars, threadVars
  <1>21. CASE Crash
    BY <1>21 DEF Crash, Inject, Idle, taskVars, dbVars, delVars, Positions
  <1>22. CASE UNCHANGED vars
    BY <1>22 DEF vars
  <1> QED
    BY <1>1, <1>2, <1>3, <1>4, <1>5, <1>6, <1>7, <1>8, <1>9, <1>10, <1>11, <1>12, <1>13,
       <1>14, <1>15, <1>16, <1>17, <1>18, <1>19, <1>20, <1>21, <1>22
       DEF Next, Ingest, DeleteStep

THEOREM TypeCorrect == Spec => []TypeOK
  <1>1. Init => TypeOK
    BY ConstantsAssumption DEF Init, TypeOK, Idle, Positions, Rows
  <1>2. TypeOK /\ [Next]_vars => TypeOK'
    BY TypeInvariance
  <1> QED BY <1>1, <1>2, PTL DEF Spec

-----------------------------------------------------------------------------
(* Which steps can disturb what.  Everything below argues from these two    *)
(* facts, so that an invariant's proof names only the actions it is about.  *)

\* The steps that write the documents table.
LEMMA DocsSteps ==
  ASSUME [Next]_vars
  PROVE  \/ UNCHANGED docs
         \/ \E u \in Uploads : SavePending(u) \/ CleanOld(u) \/ SaveFinal(u)
         \/ DeleteDocument
  BY DEF Next, vars, Ingest, DeleteStep, Accept, Start, AcquireLock, FindDuplicate,
         DropDuplicateFile, CompleteTask, Parse, SavePage, ReadPages, EmbedChunk,
         FinishEmbedding, FailTask, Raise, ResolveFiles, RemoveFiles, DeleteVectors,
         Crash, dbVars

\* The steps that take or release a lock, and those that let a thread past its
\* look-up; every other step keeps each thread on its side of both lines.
LEMMA LockSteps ==
  ASSUME TypeOK, [Next]_vars
  PROVE  \/ \E u \in Uploads : AcquireLock(u) \/ FindDuplicate(u) \/ Parse(u)
                               \/ SaveFinal(u) \/ Raise(u)
         \/ Crash
         \/ /\ lock' = lock
            /\ \A v \in Uploads : /\ pc'[v] \in Critical => pc[v] \in Critical
                                  /\ pc'[v] \in Checked => pc[v] \in Checked
  <1> DEFINE Quiet == /\ lock' = lock
                      /\ \A v \in Uploads : /\ pc'[v] \in Critical => pc[v] \in Critical
                                            /\ pc'[v] \in Checked => pc[v] \in Checked
  <1> USE DEF TypeOK, Critical, Checked, Building
  <1>1. ASSUME NEW u \in Uploads, \/ Accept(u) \/ Start(u) \/ DropDuplicateFile(u)
                                  \/ CompleteTask(u) \/ FailTask(u)
        PROVE  Quiet
    BY <1>1 DEF Accept, Start, DropDuplicateFile, CompleteTask, FailTask
  <1>2. ASSUME NEW u \in Uploads, \/ SavePending(u) \/ CleanOld(u) \/ SavePage(u)
                                  \/ ReadPages(u) \/ EmbedChunk(u) \/ FinishEmbedding(u)
        PROVE  Quiet
    BY <1>2 DEF SavePending, CleanOld, SavePage, ReadPages, EmbedChunk, FinishEmbedding
  <1>3. ASSUME (\E k \in Keys : ResolveFiles(k)) \/ DeleteStep \/ UNCHANGED vars
        PROVE  Quiet
    BY <1>3 DEF ResolveFiles, DeleteStep, DeleteDocument, RemoveFiles, DeleteVectors,
                vars, threadVars
  <1> QED BY <1>1, <1>2, <1>3 DEF Next, Ingest

-----------------------------------------------------------------------------
(* Deduplication.                                                          *)

LEMMA LockInvariance ==
  ASSUME TypeOK, LockInv, [Next]_vars
  PROVE  LockInv'
  <1> USE RequestsFixed, KeyType DEF LockInv, TypeOK
  <1>1. ASSUME NEW u \in Uploads, AcquireLock(u) PROVE LockInv'
    <2>1. lock[Tenant(u)] = None /\ lock' = [lock EXCEPT ![Tenant(u)] = u]
      BY <1>1 DEF AcquireLock
    <2>2. \A v \in Uploads : v # u => pc'[v] = pc[v]
      BY <1>1 DEF AcquireLock
    <2>3. \A v \in Uploads : pc[v] \in Critical => Tenant(v) # Tenant(u)
      BY <2>1, ConstantsAssumption
    <2>4. lock'[Tenant(u)] = u
      BY <2>1
    <2>5. \A v \in Uploads : (v # u /\ pc'[v] \in Critical) => lock'[Tenant(v)] = v
      BY <2>1, <2>2, <2>3
    <2> QED BY <2>4, <2>5
  <1>2. ASSUME NEW u \in Uploads, FindDuplicate(u) PROVE LockInv'
    BY <1>2 DEF FindDuplicate, ReleaseLock, Critical, Checked, Building
  <1>3. ASSUME NEW u \in Uploads, Parse(u) PROVE LockInv'
    BY <1>3 DEF Parse, Critical
  <1>4. ASSUME NEW u \in Uploads, SaveFinal(u) PROVE LockInv'
    BY <1>4 DEF SaveFinal, ReleaseLock, Critical, Checked, Building
  <1>5. ASSUME NEW u \in Uploads, Raise(u) PROVE LockInv'
    BY <1>5 DEF Raise, Critical, Checked, Building
  <1>6. CASE Crash
    BY <1>6 DEF Crash, Critical, Checked, Building
  <1>7. CASE /\ lock' = lock
             /\ \A v \in Uploads : pc'[v] \in Critical => pc[v] \in Critical
    BY <1>7
  <1> QED BY <1>1, <1>2, <1>3, <1>4, <1>5, <1>6, <1>7, LockSteps

\* Two threads of one tenant are never both inside the critical section.
LEMMA Exclusion ==
  ASSUME TypeOK, LockInv, NEW u \in Uploads, NEW v \in Uploads,
         pc[u] \in Critical, pc[v] \in Critical, Tenant(u) = Tenant(v)
  PROVE  u = v
  BY DEF LockInv

LEMMA RowKeyInvariance ==
  ASSUME TypeOK, RowKeyInv, [Next]_vars
  PROVE  RowKeyInv'
  <1> USE RequestsFixed, KeyType DEF RowKeyInv, TypeOK, DocRow
  <1>1. CASE UNCHANGED docs
    BY <1>1, ConstantsAssumption
  <1>2. ASSUME NEW u \in Uploads, SavePending(u) \/ SaveFinal(u) PROVE RowKeyInv'
    BY <1>2 DEF SavePending, SaveFinal, SaveDocument
  <1>3. ASSUME NEW u \in Uploads, CleanOld(u) PROVE RowKeyInv'
    BY <1>3 DEF CleanOld, DeleteRows, Inject, dbVars
  <1>4. CASE DeleteDocument
    BY <1>4 DEF DeleteDocument, DeleteRows, Inject, dbVars
  <1> QED BY <1>1, <1>2, <1>3, <1>4, DocsSteps

\* Cleaning up and deleting only remove documents rows.
LEMMA RowsDropped ==
  ASSUME TypeOK, (\E u \in Uploads : CleanOld(u)) \/ DeleteDocument, NEW k \in Keys
  PROVE  docs'[k] = None \/ docs'[k] = docs[k]
  BY DEF TypeOK, CleanOld, DeleteDocument, DeleteRows, Inject, dbVars

LEMMA CheckedInvariance ==
  ASSUME TypeOK, LockInv, CheckedInv, [Next]_vars
  PROVE  CheckedInv'
  <1> USE RequestsFixed, KeyType
  <1> SUFFICES ASSUME NEW v \in Uploads, pc'[v] \in Checked, NEW k \in SameHash(v)'
               PROVE  k = Key(v)
    BY DEF CheckedInv
  <1>0. k \in Keys /\ k[1] = Tenant(v) /\ docs'[k] # None /\ Hash(docs'[k].path) = Hash(v)
    BY DEF SameHash, Hash, Tenant
  <1>1. ASSUME docs'[k] = docs[k], pc[v] \in Checked PROVE k = Key(v)
    <2>1. docs[k].path \in Uploads
      BY <1>0, <1>1, ConstantsAssumption DEF TypeOK, DocRow
    <2>2. k \in SameHash(v)
      BY <1>0, <1>1, <2>1 DEF SameHash
    <2> QED BY <1>1, <2>2 DEF CheckedInv
  <1>2. ASSUME NEW u \in Uploads, Parse(u) PROVE k = Key(v)
    <2>1. docs' = docs /\ SameHash(u) = {} /\ \A w \in Uploads : w # u => pc'[w] = pc[w]
      BY <1>2 DEF Parse, dbVars, TypeOK
    <2>2. docs[k].path \in Uploads
      BY <1>0, <2>1, ConstantsAssumption DEF TypeOK, DocRow
    <2>3. k \in SameHash(v)
      BY <1>0, <2>1, <2>2 DEF SameHash
    <2> QED BY <2>1, <2>3, <1>1
  <1>3. ASSUME NEW u \in Uploads, AcquireLock(u) \/ FindDuplicate(u) \/ Raise(u)
        PROVE  k = Key(v)
    BY <1>3, <1>1 DEF AcquireLock, FindDuplicate, Raise, dbVars, TypeOK, Checked, Building
  <1>4. CASE Crash
    BY <1>4, <1>1 DEF Crash, dbVars, Checked, Building, TypeOK
  <1>5. ASSUME NEW u \in Uploads, SavePending(u) \/ SaveFinal(u) PROVE k = Key(v)
    <2>1. /\ pc[u] \in Checked /\ \A w \in Uploads : w # u => pc'[w] = pc[w]
          /\ \A j \in Keys : j # Key(u) => docs'[j] = docs[j]
      BY <1>5 DEF SavePending, SaveFinal, SaveDocument, TypeOK, Checked, Building
    <2>2. pc[v] \in Checked
      BY <2>1
    <2>3. CASE v = u
      BY <2>1, <2>2, <2>3, <1>0, <1>1
    <2>4. CASE v # u
      BY <2>1, <2>2, <2>4, <1>0, <1>1, Exclusion DEF Critical
    <2> QED BY <2>3, <2>4
  <1>6. ASSUME NEW u \in Uploads, CleanOld(u) PROVE k = Key(v)
    BY <1>6, <1>0, <1>1, RowsDropped DEF CleanOld, TypeOK, Checked, Building
  <1>7. CASE DeleteDocument
    <2>1. pc' = pc /\ docs'[k] = docs[k]
      BY <1>7, <1>0, RowsDropped DEF DeleteDocument, threadVars
    <2> QED BY <2>1, <1>1
  <1>8. CASE UNCHANGED docs /\ (pc'[v] \in Checked => pc[v] \in Checked)
    BY <1>8, <1>1
  <1> QED BY <1>2, <1>3, <1>4, <1>5, <1>6, <1>7, <1>8, DocsSteps, LockSteps

LEMMA UniqueHashInvariance ==
  ASSUME TypeOK, CheckedInv, RowKeyInv, UniqueHash, [Next]_vars
  PROVE  UniqueHash'
  <1> USE RequestsFixed, KeyType
  <1> SUFFICES ASSUME NEW j \in Keys, NEW k \in Keys,
                      docs'[j] # None, docs'[k] # None, j[1] = k[1],
                      Hash(docs'[j].path) = Hash(docs'[k].path)
               PROVE  j = k
    BY DEF UniqueHash, Hash
  <1>1. ASSUME docs'[j] = docs[j], docs'[k] = docs[k] PROVE j = k
    <2>1. docs[j].path \in Uploads /\ docs[k].path \in Uploads
      BY <1>1, ConstantsAssumption DEF TypeOK, DocRow
    <2> QED BY <1>1, <2>1 DEF UniqueHash
  <1>2. ASSUME NEW u \in Uploads, SavePending(u) \/ SaveFinal(u) PROVE j = k
    <2>1. /\ pc[u] \in Checked /\ docs'[Key(u)].path = u
          /\ \A i \in Keys : i # Key(u) => docs'[i] = docs[i]
      BY <1>2 DEF SavePending, SaveFinal, SaveDocument, TypeOK, Checked, Building
    <2>2. \A i \in Keys : (/\ i # Key(u) /\ i[1] = Tenant(u) /\ docs'[i] # None
                           /\ Hash(docs'[i].path) = Hash(u)) => i \in SameHash(u)
      <3> SUFFICES ASSUME NEW i \in Keys, i # Key(u), i[1] = Tenant(u), docs'[i] # None,
                          Hash(docs'[i].path) = Hash(u)
                   PROVE  i \in SameHash(u)
        OBVIOUS
      <3>1. docs'[i] = docs[i] /\ docs[i].path \in Uploads
        BY <2>1, ConstantsAssumption DEF TypeOK, DocRow
      <3> QED BY <3>1 DEF SameHash
    <2>3. \A i \in Keys : (/\ i[1] = Tenant(u) /\ docs'[i] # None
                           /\ Hash(docs'[i].path) = Hash(u)) => i = Key(u)
      BY <2>1, <2>2 DEF CheckedInv
    <2>4. CASE j = Key(u)
      BY <2>1, <2>3, <2>4
    <2>5. CASE k = Key(u)
      BY <2>1, <2>3, <2>5
    <2>6. CASE j # Key(u) /\ k # Key(u)
      BY <2>1, <2>6, <1>1
    <2> QED BY <2>4, <2>5, <2>6
  <1>3. ASSUME NEW u \in Uploads, CleanOld(u) PROVE j = k
    BY <1>3, <1>1, RowsDropped
  <1>4. CASE DeleteDocument
    BY <1>4, <1>1, RowsDropped
  <1>5. CASE UNCHANGED docs
    BY <1>5, <1>1
  <1> QED BY <1>2, <1>3, <1>4, <1>5, DocsSteps

\* MD5 deduplication holds for every instance, with every kind of failure.
THEOREM Deduplication == Spec => []UniqueHash
  <1>1. Init => DedupInv
    BY ConstantsAssumption
       DEF Init, DedupInv, TypeOK, LockInv, CheckedInv, RowKeyInv, UniqueHash, Idle,
           Positions, Rows, Critical, Checked, Building
  <1>2. DedupInv /\ [Next]_vars => DedupInv'
    BY TypeInvariance, LockInvariance, CheckedInvariance, RowKeyInvariance,
       UniqueHashInvariance DEF DedupInv
  <1>3. DedupInv => UniqueHash
    BY DEF DedupInv
  <1> QED BY <1>1, <1>2, <1>3, PTL DEF Spec

-----------------------------------------------------------------------------
(* A documents row has its file.                                           *)

\* Threads that are done with the store, those that have written a row, and
\* those that still need their file.
Past     == {"ingested", "raised", "end", "failed", "dead"}
Saved    == {"pending"} \cup Building \cup Past
InFlight == {"queued", "waiting"} \cup Critical

\* A row was written by the upload it names.
OwnerInv == \A k \in Keys : docs[k] # None => pc[docs[k].path] \in Saved

\* The file a DELETE request is about to remove is no longer named by a row and
\* will not be named again, unless the request interrupted its ingestion.
DeletedFileInv ==
  \A u \in Uploads : del.path = u =>
    /\ del.at = "resolved" => Key(u) = del.key /\ pc[u] \in Saved
    /\ del.at = "rows_gone" =>
         \/ u \in raced
         \/ pc[u] \in Past /\ \A k \in Keys : docs[k] # None => docs[k].path # u

StoredInv == \A u \in Uploads : (u \notin raced /\ pc[u] \in InFlight) => u \in stored

FileInv == TypeOK /\ RowKeyInv /\ OwnerInv /\ DeletedFileInv /\ StoredInv /\ RowHasFile

\* No thread ever goes back.
LEMMA ThreadSteps ==
  ASSUME TypeOK, [Next]_vars
  PROVE  \A v \in Uploads : /\ pc[v] \in Saved => pc'[v] \in Saved
                            /\ pc[v] \in Past => pc'[v] \in Past
                            /\ pc'[v] \in InFlight => pc[v] \in InFlight \/ Accept(v)
  <1> DEFINE Onward == \A v \in Uploads :
                         /\ pc[v] \in Saved => pc'[v] \in Saved
                         /\ pc[v] \in Past => pc'[v] \in Past
                         /\ pc'[v] \in InFlight => pc[v] \in InFlight \/ Accept(v)
  <1> USE DEF TypeOK, Saved, Past, InFlight, Critical, Checked, Building
  <1>1. ASSUME NEW u \in Uploads, \/ Accept(u) \/ Start(u) \/ AcquireLock(u)
                                  \/ FindDuplicate(u) \/ DropDuplicateFile(u)
        PROVE  Onward
    <2>1. \A v \in Uploads : v # u => pc'[v] = pc[v]
      BY <1>1 DEF Accept, Start, AcquireLock, FindDuplicate, DropDuplicateFile
    <2>2. CASE Accept(u)
      <3>1. pc[u] = "idle" /\ pc'[u] = "queued"
        BY <2>2 DEF Accept
      <3> QED BY <2>1, <2>2, <3>1
    <2>3. CASE Start(u) \/ AcquireLock(u)
      BY <2>1, <2>3 DEF Start, AcquireLock
    <2>4. CASE FindDuplicate(u) \/ DropDuplicateFile(u)
      BY <2>1, <2>4 DEF FindDuplicate, DropDuplicateFile
    <2> QED BY <1>1, <2>2, <2>3, <2>4
  <1>2. ASSUME NEW u \in Uploads, \/ CompleteTask(u) \/ Parse(u) \/ SavePending(u)
                                  \/ CleanOld(u) \/ SavePage(u) \/ ReadPages(u)
        PROVE  Onward
    BY <1>2 DEF CompleteTask, Parse, SavePending, CleanOld, SavePage, ReadPages
  <1>3. ASSUME NEW u \in Uploads, \/ EmbedChunk(u) \/ FinishEmbedding(u) \/ SaveFinal(u)
                                  \/ FailTask(u) \/ Raise(u)
        PROVE  Onward
    BY <1>3 DEF EmbedChunk, FinishEmbedding, SaveFinal, FailTask, Raise
  <1>4. CASE Crash
    BY <1>4 DEF Crash
  <1>5. ASSUME (\E k \in Keys : ResolveFiles(k)) \/ DeleteStep \/ UNCHANGED vars
        PROVE  Onward
    BY <1>5 DEF ResolveFiles, DeleteStep, DeleteDocument, RemoveFiles, DeleteVectors,
                vars, threadVars
  <1> QED BY <1>1, <1>2, <1>3, <1>4, <1>5 DEF Next, Ingest

\* The steps that move the DELETE request, touch files or the history variable.
LEMMA DeleteSteps ==
  ASSUME [Next]_vars
  PROVE  \/ UNCHANGED <<del, raced, stored>>
         \/ UNCHANGED <<del, raced>> /\ \E u \in Uploads : Accept(u) \/ DropDuplicateFile(u)
         \/ \E k \in Keys : ResolveFiles(k)
         \/ DeleteDocument \/ RemoveFiles
         \/ UNCHANGED <<raced, stored>> /\ del' = Idle /\ (DeleteVectors \/ Crash)
  BY DEF Next, vars, Ingest, DeleteStep, Accept, Start, AcquireLock, FindDuplicate,
         DropDuplicateFile, CompleteTask, Parse, SavePage, ReadPages, EmbedChunk,
         FinishEmbedding, FailTask, Raise, SavePending, CleanOld, SaveFinal,
         DeleteVectors, Crash, delVars

LEMMA OwnerInvariance ==
  ASSUME TypeOK, OwnerInv, [Next]_vars
  PROVE  OwnerInv'
  <1> USE ThreadSteps DEF OwnerInv, TypeOK, DocRow
  <1>1. CASE UNCHANGED docs
    BY <1>1, ConstantsAssumption
  <1>2. ASSUME NEW u \in Uploads, SavePending(u) \/ SaveFinal(u) PROVE OwnerInv'
    <2>1. pc'[u] \in Saved /\ docs'[Key(u)].path = u
          /\ \A k \in Keys : k # Key(u) => docs'[k] = docs[k]
      BY <1>2, KeyType DEF SavePending, SaveFinal, SaveDocument, Saved, Past
    <2> QED BY <2>1, ConstantsAssumption
  <1>3. CASE (\E u \in Uploads : CleanOld(u)) \/ DeleteDocument
    BY <1>3, RowsDropped, ConstantsAssumption
  <1> QED BY <1>1, <1>2, <1>3, DocsSteps

LEMMA StoredInvariance ==
  ASSUME TypeOK, DeletedFileInv, StoredInv, [Next]_vars
  PROVE  StoredInv'
  <1> USE ThreadSteps DEF StoredInv, TypeOK
  <1>1. CASE UNCHANGED <<del, raced, stored>> \/ DeleteVectors \/ Crash
    BY <1>1 DEF DeleteVectors, Crash, Accept, delVars
  <1>2. ASSUME NEW u \in Uploads, Accept(u) PROVE StoredInv'
    BY <1>2 DEF Accept, delVars
  <1>3. ASSUME NEW u \in Uploads, DropDuplicateFile(u) PROVE StoredInv'
    BY <1>3 DEF DropDuplicateFile, delVars, InFlight, Critical, Checked, Building, Accept
  <1>4. CASE (\E k \in Keys : ResolveFiles(k)) \/ DeleteDocument
    BY <1>4 DEF ResolveFiles, DeleteDocument, threadVars
  <1>5. CASE RemoveFiles
    BY <1>5 DEF RemoveFiles, DeletedFileInv, threadVars, InFlight, Past, Critical,
                Checked, Building
  <1> QED BY <1>1, <1>2, <1>3, <1>4, <1>5, DeleteSteps

LEMMA DeletedFileInvariance ==
  ASSUME TypeOK, RowKeyInv, OwnerInv, DeletedFileInv, [Next]_vars
  PROVE  DeletedFileInv'
  <1> USE ThreadSteps, RequestsFixed DEF TypeOK
  <1> SUFFICES ASSUME NEW u \in Uploads, del'.path = u
               PROVE  /\ del'.at = "resolved" => Key(u) = del'.key /\ pc'[u] \in Saved
                      /\ del'.at = "rows_gone" =>
                           \/ u \in raced'
                           \/ pc'[u] \in Past
                              /\ \A k \in Keys : docs'[k] # None => docs'[k].path # u
    BY DEF DeletedFileInv
  <1>1. ASSUME pc[u] \in Past, \A k \in Keys : docs[k] # None => docs[k].path # u
        PROVE  pc'[u] \in Past /\ \A k \in Keys : docs'[k] # None => docs'[k].path # u
    <2>1. ASSUME NEW v \in Uploads, SavePending(v) \/ SaveFinal(v)
          PROVE  \A k \in Keys : docs'[k] # None => docs'[k].path # u
      <3>1. v # u
        BY <1>1, <2>1 DEF SavePending, SaveFinal, Past
      <3> QED BY <3>1, <1>1, <2>1, KeyType DEF SavePending, SaveFinal, SaveDocument
    <2>2. CASE (\E v \in Uploads : CleanOld(v)) \/ DeleteDocument
      BY <1>1, <2>2, RowsDropped
    <2> QED BY <1>1, <2>1, <2>2, DocsSteps
  <1>2. CASE UNCHANGED <<del, raced>>
    BY <1>1, <1>2 DEF DeletedFileInv
  <1>3. ASSUME NEW k \in Keys, ResolveFiles(k)
        PROVE  del'.at = "resolved" /\ Key(u) = del'.key /\ pc'[u] \in Saved
    BY <1>3, ConstantsAssumption DEF ResolveFiles, threadVars, RowKeyInv, OwnerInv
  <1>4. CASE DeleteDocument
    <2>1. CASE del' = Idle
      BY <2>1, ConstantsAssumption DEF Idle
    <2>2. CASE del' # Idle
      <3>1. /\ del.path = u /\ Key(u) = del.key /\ pc[u] \in Saved /\ pc' = pc
            /\ del'.at = "rows_gone"
            /\ raced' = raced \cup Interrupted(del.key) /\ DeleteRows(del.key)
        BY <1>4, <2>2 DEF DeleteDocument, DeletedFileInv, threadVars
      <3>2. CASE pc[u] \in {"pending"} \cup Building
        BY <3>1, <3>2 DEF Interrupted
      <3>3. CASE pc[u] \in Past
        <4>1. \A k \in Keys : docs'[k] # None => docs'[k] = docs[k] /\ k # Key(u)
          BY <3>1 DEF DeleteRows
        <4> QED BY <3>1, <3>3, <4>1 DEF RowKeyInv
      <3> QED BY <3>1, <3>2, <3>3 DEF Saved
    <2> QED BY <2>1, <2>2
  <1>5. CASE RemoveFiles
    BY <1>5 DEF RemoveFiles
  <1>6. CASE del' = Idle
    BY <1>6, ConstantsAssumption DEF Idle
  <1> QED BY <1>2, <1>3, <1>4, <1>5, <1>6, DeleteSteps

LEMMA RowHasFileInvariance ==
  ASSUME FileInv, [Next]_vars
  PROVE  RowHasFile'
  <1> USE DEF FileInv, TypeOK, DocRow
  <1> SUFFICES ASSUME NEW k \in Keys, docs'[k] # None, docs'[k].path \notin raced'
               PROVE  docs'[k].path \in stored'
    BY DEF RowHasFile
  <1>0. raced \subseteq raced'
    BY DeleteSteps DEF ResolveFiles, DeleteDocument, RemoveFiles
  <1>1. docs'[k].path \in stored /\ (docs'[k] = docs[k] \/ pc[docs'[k].path] \in Checked)
    <2>1. CASE docs'[k] = docs[k]
      BY <2>1, <1>0 DEF RowHasFile
    <2>2. ASSUME NEW u \in Uploads, SavePending(u) \/ SaveFinal(u), docs'[k] # docs[k]
          PROVE  docs'[k].path = u /\ pc[u] \in Checked
      BY <2>2, KeyType DEF SavePending, SaveFinal, SaveDocument, Checked, Building
    <2>3. CASE docs'[k] # docs[k]
      BY <2>2, <2>3, <1>0, DocsSteps, RowsDropped DEF StoredInv, InFlight, Critical
    <2> QED BY <2>1, <2>3
  <1>2. ASSUME NEW u \in Uploads, DropDuplicateFile(u) PROVE docs'[k].path \in stored'
    BY <1>1, <1>2 DEF DropDuplicateFile, dbVars, OwnerInv, Saved, Past, Building
  <1>3. CASE RemoveFiles
    <2>1. docs' = docs /\ raced' = raced
      BY <1>3 DEF RemoveFiles, dbVars
    <2>2. docs[k].path \in Uploads
      BY <2>1, ConstantsAssumption
    <2>3. docs[k].path # del.path
      BY <1>3, <2>1, <2>2 DEF RemoveFiles, DeletedFileInv
    <2> QED BY <1>1, <1>3, <2>1, <2>3 DEF RemoveFiles
  <1>4. CASE \E u \in Uploads : Accept(u)
    BY <1>1, <1>4 DEF Accept
  <1>5. CASE UNCHANGED stored
    BY <1>1, <1>5
  <1> QED
    BY <1>2, <1>3, <1>4, <1>5, DeleteSteps
       DEF ResolveFiles, DeleteDocument

\* A documents row has its file, except where a DELETE hit a running ingestion.
THEOREM FilesOutliveRows == Spec => []RowHasFile
  <1>1. Init => FileInv
    BY ConstantsAssumption
       DEF Init, FileInv, TypeOK, RowKeyInv, OwnerInv, DeletedFileInv, StoredInv,
           RowHasFile, Idle, Positions, Rows, InFlight, Critical, Checked, Building
  <1>2. FileInv /\ [Next]_vars => FileInv'
    BY TypeInvariance, RowKeyInvariance, OwnerInvariance, DeletedFileInvariance,
       StoredInvariance, RowHasFileInvariance DEF FileInv
  <1>3. FileInv => RowHasFile
    BY DEF FileInv
  <1> QED BY <1>1, <1>2, <1>3, PTL DEF Spec

-----------------------------------------------------------------------------
(* A verified document is complete.                                        *)

AllRows(u) == {u} \X Pages

\* What a thread that has no warning and was not raced has written so far.
BuildInv ==
  \A u \in Uploads : (u \notin raced /\ ~warn[u]) =>
    /\ pc[u] = "write" => AllRows(u) \subseteq pages \cup todo[u]
    /\ pc[u] = "embed" => /\ AllRows(u) \subseteq pages
                          /\ AllRows(u) \subseteq chunks \cup todo[u]
    /\ pc[u] = "final" => AllRows(u) \subseteq pages \cap chunks

CompleteInv == TypeOK /\ LockInv /\ RowKeyInv /\ BuildInv /\ VerifiedIsComplete

\* Page and chunk rows disappear only in CleanOld and DeleteDocument, and then
\* those of one doc_id, together with its documents row.
LEMMA RowSteps ==
  ASSUME TypeOK, [Next]_vars
  PROVE  \/ /\ pages \subseteq pages' /\ chunks \subseteq chunks'
         \/ \E u \in Uploads : CleanOld(u) /\ DeleteRows(Key(u))
         \/ DeleteDocument /\ DeleteRows(del.key) /\ raced' = raced \cup Interrupted(del.key)
  BY DEF Next, vars, Ingest, DeleteStep, Accept, Start, AcquireLock, FindDuplicate,
         DropDuplicateFile, CompleteTask, Parse, SavePage, ReadPages, EmbedChunk,
         FinishEmbedding, FailTask, Raise, ResolveFiles, RemoveFiles, DeleteVectors,
         SavePending, CleanOld, SaveFinal, DeleteDocument, Crash, dbVars

LEMMA RacedGrows ==
  ASSUME [Next]_vars
  PROVE  raced \subseteq raced'
  BY DeleteSteps DEF ResolveFiles, DeleteDocument, RemoveFiles

\* A thread in the middle of its ingestion keeps its rows unless it is raced.
LEMMA RowsKept ==
  ASSUME TypeOK, LockInv, [Next]_vars, NEW u \in Uploads, pc[u] \in Building,
         u \notin raced'
  PROVE  /\ AllRows(u) \cap pages \subseteq pages'
         /\ AllRows(u) \cap chunks \subseteq chunks'
  <1> USE DEF TypeOK, AllRows
  <1>1. ASSUME NEW k \in Keys, DeleteRows(k), Key(u) # k
        PROVE  /\ AllRows(u) \cap pages \subseteq pages'
               /\ AllRows(u) \cap chunks \subseteq chunks'
    BY <1>1 DEF DeleteRows, RowsOf
  <1>2. ASSUME NEW v \in Uploads, CleanOld(v) PROVE Key(v) # Key(u)
    BY <1>2, Exclusion, KeyType DEF CleanOld, Critical, Checked, Building
  <1>3. ASSUME DeleteDocument, raced' = raced \cup Interrupted(del.key)
        PROVE  Key(u) # del.key
    BY <1>3 DEF Interrupted
  <1> QED BY <1>1, <1>2, <1>3, RowSteps, KeyType DEF DeleteDocument

\* The steps that move a thread inside Building.
LEMMA BuildSteps ==
  ASSUME TypeOK, [Next]_vars, NEW u \in Uploads, pc'[u] \in Building
  PROVE  \/ CleanOld(u) \/ SavePage(u) \/ ReadPages(u) \/ EmbedChunk(u) \/ FinishEmbedding(u)
         \/ pc'[u] = pc[u] /\ todo'[u] = todo[u] /\ warn'[u] = warn[u]
  <1> DEFINE Still == pc'[u] = pc[u] /\ todo'[u] = todo[u] /\ warn'[u] = warn[u]
  <1> USE DEF TypeOK, Building
  <1>1. ASSUME NEW v \in Uploads, \/ Accept(v) \/ Start(v) \/ AcquireLock(v)
                                  \/ FindDuplicate(v) \/ DropDuplicateFile(v)
                                  \/ CompleteTask(v) \/ FailTask(v)
        PROVE  Still
    BY <1>1 DEF Accept, Start, AcquireLock, FindDuplicate, DropDuplicateFile, CompleteTask,
                FailTask
  <1>2. ASSUME NEW v \in Uploads, \/ Parse(v) \/ SavePending(v) \/ SaveFinal(v) \/ Raise(v)
        PROVE  Still
    BY <1>2 DEF Parse, SavePending, SaveFinal, Raise
  <1>3. ASSUME NEW v \in Uploads, v # u, \/ CleanOld(v) \/ SavePage(v) \/ ReadPages(v)
                                         \/ EmbedChunk(v) \/ FinishEmbedding(v)
        PROVE  Still
    BY <1>3 DEF CleanOld, SavePage, ReadPages, EmbedChunk, FinishEmbedding
  <1>4. CASE Crash
    BY <1>4 DEF Crash
  <1>5. ASSUME (\E k \in Keys : ResolveFiles(k)) \/ DeleteStep \/ UNCHANGED vars
        PROVE  Still
    BY <1>5 DEF ResolveFiles, DeleteStep, DeleteDocument, RemoveFiles, DeleteVectors,
                vars, threadVars
  <1> QED BY <1>1, <1>2, <1>3, <1>4, <1>5 DEF Next, Ingest

LEMMA BuildInvariance ==
  ASSUME TypeOK, LockInv, BuildInv, [Next]_vars
  PROVE  BuildInv'
  <1> USE RequestsFixed DEF TypeOK
  <1> SUFFICES ASSUME NEW u \in Uploads, u \notin raced', ~warn'[u], pc'[u] \in Building
               PROVE  /\ pc'[u] = "write" => AllRows(u) \subseteq pages' \cup todo'[u]
                      /\ pc'[u] = "embed" => /\ AllRows(u) \subseteq pages'
                                             /\ AllRows(u) \subseteq chunks' \cup todo'[u]
                      /\ pc'[u] = "final" => AllRows(u) \subseteq pages' \cap chunks'
    BY DEF BuildInv, AllRows, Building
  <1>1. u \notin raced
    BY RacedGrows
  <1>2. CASE CleanOld(u)
    <2>1. PICK failed \in SUBSET Pages :
             /\ todo' = [todo EXCEPT ![u] = {u} \X (Pages \ failed)]
             /\ warn' = [warn EXCEPT ![u] = @ \/ failed # {}]
      BY <1>2 DEF CleanOld
    <2>2. failed = {} /\ pc'[u] = "write"
      BY <1>2, <2>1 DEF CleanOld
    <2> QED BY <2>1, <2>2 DEF AllRows
  <1>3. CASE SavePage(u)
    BY <1>1, <1>3 DEF SavePage, BuildInv
  <1>4. CASE ReadPages(u)
    <2>1. AllRows(u) \subseteq pages /\ pages' = pages /\ chunks' = chunks /\ pc'[u] = "embed"
      BY <1>1, <1>4 DEF ReadPages, BuildInv, dbVars
    <2>2. todo'[u] = RowsOf(pages, Key(u))
      BY <1>4 DEF ReadPages
    <2>3. AllRows(u) \subseteq todo'[u]
      BY <2>1, <2>2 DEF AllRows, RowsOf
    <2> QED BY <2>1, <2>3
  <1>5. CASE EmbedChunk(u)
    <2>1. PICK r \in FirstOf(todo[u]), chunkOk \in BOOLEAN :
             /\ todo' = [todo EXCEPT ![u] = @ \ {r}]
             /\ chunks' = IF chunkOk THEN chunks \cup {r} ELSE chunks
             /\ warn' = [warn EXCEPT ![u] = @ \/ ~chunkOk]
      BY <1>5 DEF EmbedChunk
    <2>2. chunkOk /\ ~warn[u]
      BY <2>1
    <2>3. pc[u] = "embed" /\ pc'[u] = "embed" /\ pages' = pages
      BY <1>5 DEF EmbedChunk
    <2> QED BY <1>1, <2>1, <2>2, <2>3 DEF BuildInv
  <1>6. CASE FinishEmbedding(u)
    BY <1>1, <1>6 DEF FinishEmbedding, BuildInv, dbVars
  <1>7. CASE pc'[u] = pc[u] /\ todo'[u] = todo[u] /\ warn'[u] = warn[u]
    <2>1. AllRows(u) \cap pages \subseteq pages' /\ AllRows(u) \cap chunks \subseteq chunks'
      BY <1>7, RowsKept
    <2> QED BY <1>1, <1>7, <2>1 DEF BuildInv
  <1> QED BY <1>2, <1>3, <1>4, <1>5, <1>6, <1>7, BuildSteps

LEMMA VerifiedInvariance ==
  ASSUME CompleteInv, [Next]_vars
  PROVE  VerifiedIsComplete'
  <1> USE DEF CompleteInv, TypeOK, DocRow
  <1> SUFFICES ASSUME NEW k \in Keys, docs'[k] # None, docs'[k].status = "verified",
                      docs'[k].path \notin raced'
               PROVE  AllRows(docs'[k].path) \subseteq pages' \cap chunks'
    BY DEF VerifiedIsComplete, AllRows
  <1>1. CASE docs'[k] = docs[k]
    <2>1. /\ AllRows(docs[k].path) \subseteq pages \cap chunks
          /\ docs[k].path \in Uploads /\ Key(docs[k].path) = k
      BY <1>1, RacedGrows, ConstantsAssumption DEF VerifiedIsComplete, AllRows, RowKeyInv
    <2>2. ASSUME NEW j \in Keys, DeleteRows(j)
          PROVE  AllRows(docs[k].path) \subseteq pages' \cap chunks'
      <3>1. j # k
        BY <1>1, <2>2 DEF DeleteRows
      <3> QED BY <2>1, <2>2, <3>1 DEF DeleteRows, RowsOf, AllRows
    <2> QED BY <1>1, <2>1, <2>2, RowSteps, KeyType DEF DeleteDocument
  <1>2. ASSUME NEW u \in Uploads, SavePending(u) \/ SaveFinal(u), docs'[k] # docs[k]
        PROVE  AllRows(docs'[k].path) \subseteq pages' \cap chunks'
    <2>1. docs'[k].path = u /\ SaveFinal(u) /\ ~warn[u]
      BY <1>2, KeyType DEF SavePending, SaveFinal, SaveDocument
    <2>2. u \notin raced
      BY <2>1, RacedGrows
    <2> QED BY <2>1, <2>2 DEF SaveFinal, BuildInv
  <1> QED BY <1>1, <1>2, DocsSteps, RowsDropped

\* A document that was not raced by a DELETE is marked verified only when all
\* its pages are in both indexes, whatever fails and whoever else is running.
THEOREM VerifiedComplete == Spec => []VerifiedIsComplete
  <1>1. Init => CompleteInv
    BY ConstantsAssumption
       DEF Init, CompleteInv, TypeOK, LockInv, RowKeyInv, BuildInv, VerifiedIsComplete,
           Idle, Positions, Rows, Critical, Checked, Building
  <1>2. CompleteInv /\ [Next]_vars => CompleteInv'
    BY TypeInvariance, LockInvariance, RowKeyInvariance, BuildInvariance,
       VerifiedInvariance DEF CompleteInv
  <1>3. CompleteInv => VerifiedIsComplete
    BY DEF CompleteInv
  <1> QED BY <1>1, <1>2, <1>3, PTL DEF Spec

-----------------------------------------------------------------------------
(* Rows without a document are of an ingestion that is under way or failed. *)

\* A thread writes only rows of its own document.
TodoInv == \A u \in Uploads : \A r \in todo[u] : r[1] \in Uploads /\ Key(r[1]) = Key(u)

Unfinished == Building \cup {"raised", "failed", "dead"}

OrphanInv == TypeOK /\ TodoInv /\ OrphansAreInterrupted

LEMMA TodoInvariance ==
  ASSUME TypeOK, TodoInv, [Next]_vars
  PROVE  TodoInv'
  <1> USE RequestsFixed DEF TypeOK
  <1> SUFFICES ASSUME NEW u \in Uploads, NEW r \in todo'[u]
               PROVE  r[1] \in Uploads /\ Key(r[1]) = Key(u)
    BY DEF TodoInv
  <1>1. CASE r \in todo[u] BY <1>1 DEF TodoInv
  <1>2. ASSUME NEW v \in Uploads, CleanOld(v), r \notin todo[u] PROVE r[1] = u
    <2>1. PICK failed \in SUBSET Pages : todo' = [todo EXCEPT ![v] = {v} \X (Pages \ failed)]
      BY <1>2 DEF CleanOld
    <2>2. v = u BY <1>2, <2>1
    <2> QED BY <2>1, <2>2
  <1>3. ASSUME NEW v \in Uploads, ReadPages(v), r \notin todo[u]
        PROVE  r \in pages /\ Key(r[1]) = Key(u)
    BY <1>3 DEF ReadPages, RowsOf
  <1>4. ASSUME NEW v \in Uploads, SavePage(v) \/ EmbedChunk(v) \/ Raise(v) PROVE r \in todo[u]
    BY <1>4 DEF SavePage, EmbedChunk, Raise
  <1>5. CASE Crash BY <1>5 DEF Crash
  <1>6. \/ UNCHANGED todo
        \/ \E v \in Uploads : CleanOld(v) \/ ReadPages(v) \/ SavePage(v) \/ EmbedChunk(v) \/ Raise(v)
        \/ Crash
    BY DEF Next, vars, Ingest, DeleteStep, Accept, Start, AcquireLock, FindDuplicate,
           DropDuplicateFile, CompleteTask, Parse, SavePending, FinishEmbedding, SaveFinal,
           FailTask, ResolveFiles, DeleteDocument, RemoveFiles, DeleteVectors, threadVars
  <1> QED BY <1>1, <1>2, <1>3, <1>4, <1>5, <1>6 DEF Rows

\* The rows of a thread's own document appear while it is building.
LEMMA RowsAppear ==
  ASSUME TypeOK, TodoInv, [Next]_vars,
         NEW r \in pages' \cup chunks', r \notin pages \cup chunks
  PROVE  r[1] \in Uploads /\ \E u \in Uploads : Key(u) = Key(r[1]) /\ pc'[u] \in Building
  <1> USE DEF TypeOK, Building
  <1>1. ASSUME NEW u \in Uploads, SavePage(u) \/ EmbedChunk(u)
        PROVE  r \in todo[u] /\ pc'[u] \in Building
    BY <1>1 DEF SavePage, EmbedChunk, FirstOf
  <1>2. \/ pages' \subseteq pages /\ chunks' \subseteq chunks
        \/ \E u \in Uploads : SavePage(u) \/ EmbedChunk(u)
    BY DEF Next, vars, Ingest, DeleteStep, Accept, Start, AcquireLock, FindDuplicate,
           DropDuplicateFile, CompleteTask, Parse, SavePending, CleanOld, ReadPages,
           FinishEmbedding, SaveFinal, FailTask, Raise, ResolveFiles, DeleteDocument, RemoveFiles,
           DeleteVectors, Crash, dbVars, DeleteRows
  <1>3. PICK u \in Uploads : SavePage(u) \/ EmbedChunk(u) BY <1>2
  <1> QED BY <1>1, <1>3 DEF TodoInv

\* An unfinished thread remains one until it saves the final row, and a thread
\* with a pending row becomes one.
LEMMA UnfinishedSteps ==
  ASSUME TypeOK, [Next]_vars, NEW u \in Uploads, pc[u] \in {"pending"} \cup Unfinished
  PROVE  \/ pc'[u] \in Unfinished \/ SaveFinal(u)
         \/ pc[u] = "pending" /\ pc'[u] = "pending"
  <1> DEFINE Onward == pc'[u] \in Unfinished \/ (pc[u] = "pending" /\ pc'[u] = "pending")
  <1> USE DEF TypeOK, Unfinished, Building
  <1>1. ASSUME NEW v \in Uploads, \/ Accept(v) \/ Start(v) \/ AcquireLock(v)
                                  \/ FindDuplicate(v) \/ DropDuplicateFile(v)
                                  \/ CompleteTask(v) \/ FailTask(v) \/ Raise(v)
        PROVE  Onward
    BY <1>1 DEF Accept, Start, AcquireLock, FindDuplicate, DropDuplicateFile, CompleteTask,
                FailTask, Raise
  <1>2. ASSUME NEW v \in Uploads, \/ Parse(v) \/ SavePending(v) \/ CleanOld(v) \/ SavePage(v)
                                  \/ ReadPages(v) \/ EmbedChunk(v) \/ FinishEmbedding(v)
        PROVE  Onward
    BY <1>2 DEF Parse, SavePending, CleanOld, SavePage, ReadPages, EmbedChunk, FinishEmbedding
  <1>3. ASSUME NEW v \in Uploads, v # u, SaveFinal(v) PROVE Onward
    BY <1>3 DEF SaveFinal
  <1>4. CASE Crash BY <1>4 DEF Crash
  <1>5. ASSUME (\E k \in Keys : ResolveFiles(k)) \/ DeleteStep \/ UNCHANGED vars
        PROVE  Onward
    BY <1>5 DEF ResolveFiles, DeleteStep, DeleteDocument, RemoveFiles, DeleteVectors,
                vars, threadVars
  <1> QED BY <1>1, <1>2, <1>3, <1>4, <1>5 DEF Next, Ingest

LEMMA OrphanInvariance ==
  ASSUME OrphanInv, [Next]_vars
  PROVE  OrphansAreInterrupted'
  <1> USE RequestsFixed DEF OrphanInv
  <1> SUFFICES ASSUME NEW r \in pages' \cup chunks', docs'[Key(r[1])'] = None
               PROVE  \E u \in Uploads : Key(u)' = Key(r[1])' /\ pc'[u] \in Unfinished
    BY DEF OrphansAreInterrupted, Unfinished
  <1>1. CASE r \notin pages \cup chunks
    <2>1. PICK u \in Uploads : r[1] \in Uploads /\ Key(u) = Key(r[1]) /\ pc'[u] \in Building
      BY <1>1, RowsAppear
    <2> QED BY <2>1 DEF Unfinished
  <1>2. CASE r \in pages \cup chunks
    <2>1. r[1] \in Uploads /\ Key(r[1])' = Key(r[1]) BY <1>2 DEF TypeOK, Rows
    <2> DEFINE k == Key(r[1])
    <2>2. k \in Keys BY <2>1, KeyType
    <2>3. CASE docs[k] # None
      <3>1. ASSUME NEW j \in Keys, DeleteRows(j) PROVE FALSE
        <4>1. j = k BY <2>1, <2>2, <2>3, <3>1 DEF DeleteRows, TypeOK
        <4> QED BY <1>2, <3>1, <4>1 DEF DeleteRows, RowsOf
      <3>2. docs'[k] # docs[k] BY <2>1, <2>3
      <3>3. CASE \E u \in Uploads : SavePending(u) \/ SaveFinal(u)
        <4>1. PICK u \in Uploads : SavePending(u) \/ SaveFinal(u) BY <3>3
        <4>2. docs'[k].path = u /\ docs'[k] \in DocRow
          BY <2>2, <3>2, <4>1, KeyType DEF SavePending, SaveFinal, SaveDocument, TypeOK, DocRow
        <4> QED BY <2>1, <4>2, ConstantsAssumption
      <3>4. CASE (\E u \in Uploads : CleanOld(u)) \/ DeleteDocument
        BY <2>2, <3>1, <3>2, <3>4, KeyType
        DEF CleanOld, DeleteDocument, Inject, dbVars, TypeOK
      <3> QED BY <3>2, <3>3, <3>4, DocsSteps
    <2>4. CASE docs[k] = None
      <3>1. PICK u \in Uploads : Key(u) = k /\ pc[u] \in Unfinished
        BY <1>2, <2>4 DEF OrphansAreInterrupted, Unfinished
      <3>2. CASE pc'[u] \in Unfinished BY <2>1, <3>1, <3>2
      <3>3. CASE SaveFinal(u)
        <4>1. docs'[k] # None
          <5>1. docs'[k] \in DocRow
            BY <2>2, <3>1, <3>3, KeyType DEF SaveFinal, SaveDocument, TypeOK, DocRow
          <5> QED BY <5>1, ConstantsAssumption
        <4> QED BY <2>1, <4>1
      <3> QED BY <3>1, <3>2, <3>3, UnfinishedSteps
    <2> QED BY <2>3, <2>4
  <1> QED BY <1>1, <1>2

\* Pages and chunks without a document are those of an ingestion that is still
\* running, failed, or died with the process.
THEOREM OrphansExplained == Spec => []OrphansAreInterrupted
  <1>1. Init => OrphanInv
    <2> SUFFICES ASSUME Init PROVE OrphanInv OBVIOUS
    <2>1. TypeOK
      BY ConstantsAssumption DEF Init, TypeOK, Idle, Positions, Rows, Critical, Checked, Building
    <2> QED BY <2>1 DEF Init, OrphanInv, TodoInv, OrphansAreInterrupted
  <1>2. OrphanInv /\ [Next]_vars => OrphanInv'
    BY TypeInvariance, TodoInvariance, OrphanInvariance DEF OrphanInv
  <1>3. OrphanInv => OrphansAreInterrupted BY DEF OrphanInv
  <1> QED BY <1>1, <1>2, <1>3, PTL DEF Spec

-----------------------------------------------------------------------------
(* A duplicate is compared with something settled.                         *)

\* The upload whose file a pending_meta row names has not saved its final row.
PendingInv ==
    \A k \in Keys : docs[k] # None /\ docs[k].status = "pending_meta" =>
        pc[docs[k].path] \in {"pending"} \cup Unfinished

SettledInv == TypeOK /\ LockInv /\ RowKeyInv /\ PendingInv

LEMMA PendingInvariance ==
  ASSUME SettledInv, [Next]_vars
  PROVE  PendingInv'
  <1> USE DEF SettledInv
  <1> SUFFICES ASSUME NEW k \in Keys, docs'[k] # None, docs'[k].status = "pending_meta"
               PROVE  pc'[docs'[k].path] \in {"pending"} \cup Unfinished
    BY DEF PendingInv
  <1>1. ASSUME NEW u \in Uploads, SavePending(u), docs'[k] # docs[k]
        PROVE  pc'[docs'[k].path] \in {"pending"} \cup Unfinished
    <2>1. docs'[k].path = u /\ pc'[u] = "pending"
      BY <1>1, KeyType DEF SavePending, SaveDocument, TypeOK
    <2> QED BY <2>1
  <1>2. ASSUME NEW u \in Uploads, SaveFinal(u), docs'[k] # docs[k] PROVE FALSE
    <2>1. docs'[k].status \in {"degraded", "verified"}
      BY <1>2, KeyType DEF SaveFinal, SaveDocument, TypeOK
    <2> QED BY <2>1
  <1>3. CASE docs'[k] = docs[k]
    <2> DEFINE v == docs[k].path
    <2>1. v \in Uploads /\ Key(v) = k /\ pc[v] \in {"pending"} \cup Unfinished
      BY <1>3, ConstantsAssumption DEF PendingInv, RowKeyInv, TypeOK, DocRow
    <2>2. ~ SaveFinal(v)
      <3>1. SUFFICES ASSUME SaveFinal(v) PROVE FALSE OBVIOUS
      <3>2. docs'[k].status \in {"degraded", "verified"}
        BY <2>1, <3>1 DEF SaveFinal, SaveDocument, TypeOK
      <3> QED BY <3>2
    <2>3. pc'[v] \in {"pending"} \cup Unfinished BY <2>1, <2>2, UnfinishedSteps
    <2> QED BY <1>3, <2>3
  <1> QED BY <1>1, <1>2, <1>3, DocsSteps, RowsDropped

\* A thread that finds its MD5 under the row of a document still pending finds
\* the remains of one that failed: the lock keeps out those that are running.
LEMMA DuplicateStep ==
  ASSUME SettledInv, [Next]_vars, NEW u \in Uploads, pc[u] = "locked", pc'[u] = "duplicate"
  PROVE  \E k \in SameHash(u) :
            \/ docs[k].status # "pending_meta"
            \/ \E v \in Uploads : Key(v) = k /\ pc[v] \in {"raised", "failed", "dead"}
  <1> USE DEF SettledInv, TypeOK
  <1>1. SameHash(u) # {}
    <2>1. FindDuplicate(u)
      BY DEF Next, vars, Ingest, DeleteStep, Accept, Start, AcquireLock, FindDuplicate,
             DropDuplicateFile, CompleteTask, Parse, SavePending, CleanOld, SavePage, ReadPages,
             EmbedChunk, FinishEmbedding, SaveFinal, FailTask, Raise, ResolveFiles,
             DeleteDocument, RemoveFiles, DeleteVectors, Crash, threadVars
    <2> QED BY <2>1 DEF FindDuplicate
  <1>2. PICK k \in SameHash(u) : TRUE BY <1>1
  <1>3. k \in Keys /\ k[1] = Tenant(u) /\ docs[k] # None BY <1>2 DEF SameHash
  <1>4. CASE docs[k].status = "pending_meta"
    <2> DEFINE v == docs[k].path
    <2>1. v \in Uploads /\ Key(v) = k /\ pc[v] \in {"pending"} \cup Unfinished
      BY <1>3, <1>4, ConstantsAssumption DEF PendingInv, RowKeyInv, DocRow
    <2>2. Tenant(v) = Tenant(u) BY <1>3, <2>1, KeyType
    <2>3. pc[v] \notin Critical
      <3>1. v # u BY <2>1 DEF Unfinished, Building
      <3>2. pc[u] \in Critical BY DEF Critical
      <3> QED BY <2>1, <2>2, <3>1, <3>2, Exclusion
    <2>4. pc[v] \in {"raised", "failed", "dead"}
      BY <2>1, <2>3 DEF Unfinished, Critical, Checked, Building
    <2> QED BY <1>2, <2>1, <2>4
  <1> QED BY <1>2, <1>4

\* A pending_meta row is an answer to a later upload only if what it announces
\* was cut short; a document that is being built is never taken for imported.
THEOREM DuplicatesAreSettled == Spec => DuplicateIsSettled
  <1>1. Init => SettledInv
    <2> SUFFICES ASSUME Init PROVE SettledInv OBVIOUS
    <2>1. TypeOK
      BY ConstantsAssumption DEF Init, TypeOK, Idle, Positions, Rows, Critical, Checked, Building
    <2> QED BY <2>1 DEF Init, SettledInv, LockInv, RowKeyInv, PendingInv, Critical, Checked, Building
  <1>2. SettledInv /\ [Next]_vars => SettledInv'
    BY TypeInvariance, LockInvariance, RowKeyInvariance, PendingInvariance DEF SettledInv
  <1> DEFINE Settles == \A u \in Uploads :
         (pc[u] = "locked" /\ pc'[u] = "duplicate")
            => \E k \in SameHash(u) :
                 \/ docs[k].status # "pending_meta"
                 \/ \E v \in Uploads : /\ Key(v) = k
                                        /\ pc[v] \in {"raised", "failed", "dead"}
  <1>3. SettledInv /\ [Next]_vars => [Settles]_vars BY DuplicateStep
  <1> QED BY <1>1, <1>2, <1>3, PTL DEF Spec, DuplicateIsSettled
=============================================================================
