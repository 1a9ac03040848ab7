--------------------------- MODULE IngestPipeline ---------------------------
(***************************************************************************)
(* Document ingestion and deletion (core/api/routes/documents.py,          *)
(* core/ingestion/builder.py, core/db/tenant_db.py, core/db/system_db.py). *)
(*                                                                         *)
(* An accepted upload leaves a file on disk and a row in upload_tasks and  *)
(* is processed by a thread of its own.  The thread takes the tenant's     *)
(* ingestion lock, looks its MD5 up among the tenant's documents, and then *)
(* commits, one transaction after the other: a pending_meta documents row, *)
(* the clean-up of old rows with its doc_id, one doc_pages row per page,   *)
(* the chunk and vector rows, and the final documents row.  A DELETE       *)
(* request runs on the event loop, does not take the lock, and commits its *)
(* own transactions in between.  The process may die between any two.      *)
(***************************************************************************)
EXTENDS Naturals, FiniteSets

CONSTANTS
    Uploads,    \* accepted upload requests; each has one task, thread and file
    Tenants,
    Files,      \* what a client may send: bytes together with a file name
    Hashes,     \* MD5 of the bytes
    DocIds,     \* MD5 of name, size, page count and the first pages' text
    HashOf,     \* _compute_file_hash
    DocIdOf,    \* _generate_doc_id
    NumPages,   \* pages of every document
    Faults,     \* the kinds of failure the environment may inject
    MaxFaults,  \* bound on the number of injected failures
    MaxDeletes, \* bound on the number of DELETE requests
    None

FaultKinds == {"raise",   \* an exception on the ingesting thread
               "crash",   \* the server process dies
               "clean",   \* _build_l2's delete_document returns False
               "delete",  \* the endpoint's delete_document returns False
               "unlink",  \* os.unlink of a deleted document's file fails
               "vector"}  \* delete_doc_vectors returns False

DocRow == [status : {"pending_meta", "verified", "degraded"}, path : Uploads]

ASSUME ConstantsAssumption ==
    /\ HashOf \in [Files -> Hashes]
    /\ DocIdOf \in [Files -> DocIds]
    /\ NumPages \in Nat \ {0}
    /\ Faults \subseteq FaultKinds
    /\ MaxFaults \in Nat
    /\ MaxDeletes \in Nat
    /\ None \notin Uploads
    /\ None \notin Tenants \X DocIds
    /\ None \notin DocRow

VARIABLES
    req,      \* the tenant and the file of each upload
    task,     \* upload_tasks (system database)
    pc,       \* where each upload's thread is
    lock,     \* _ingest_locks: the upload whose thread holds a tenant's lock
    stored,   \* the uploads whose file is in the tenant's documents directory
    docs,     \* documents rows: status and original_path (an upload's file)
    pages,    \* doc_pages rows; AUTOINCREMENT ids are never reused, so a row
              \* is named by the upload that wrote it and its page number
    chunks,   \* doc_chunks rows, one per page row with text
    vectors,  \* l2_chunks rows
    todo,     \* the rows a thread has still to write
    warn,     \* whether a thread has collected a content warning
    del,      \* the DELETE request in progress
    deletes,  \* number of DELETE requests so far
    faults,   \* number of injected failures so far
    raced     \* history: uploads whose rows a DELETE removed during ingestion

taskVars  == <<task>>
dbVars    == <<docs, pages, chunks>>
delVars   == <<del, deletes, raced>>
threadVars == <<pc, todo, warn>>
vars == <<req, task, pc, lock, stored, docs, pages, chunks, vectors, todo,
          warn, del, deletes, faults, raced>>

Pages == 1..NumPages
Rows  == Uploads \X Pages
Keys  == Tenants \X DocIds
TaskRow == [status : {"pending", "processing", "completed", "failed"},
            result : {"none", "already_imported", "indexed"}]

\* Thread positions with the tenant's lock held, those after the MD5 look-up,
\* and those after the old rows of the doc_id have been cleaned up.
Building == {"write", "embed", "final"}
Checked  == {"parsed", "pending"} \cup Building
Critical == {"locked"} \cup Checked
Positions == {"idle", "queued", "waiting", "duplicate", "dropped", "ingested",
              "raised", "end", "failed", "dead"} \cup Critical

Tenant(u)  == req[u].tenant
Hash(u)    == HashOf[req[u].file]
Key(u)     == <<req[u].tenant, DocIdOf[req[u].file]>>
RowsOf(S, k) == {r \in S : Key(r[1]) = k}

\* The documents of upload u's tenant that carry u's MD5.
SameHash(u) == {k \in Keys : /\ k[1] = Tenant(u)
                             /\ docs[k] # None
                             /\ Hash(docs[k].path) = Hash(u)}

Inject(kind) == /\ kind \in Faults
                /\ faults < MaxFaults
                /\ faults' = faults + 1

Idle == [at |-> "idle", key |-> None, path |-> None]

Init ==
    /\ req \in [Uploads -> [tenant : Tenants, file : Files]]
    /\ task = [u \in Uploads |-> None]
    /\ pc = [u \in Uploads |-> "idle"]
    /\ lock = [t \in Tenants |-> None]
    /\ stored = {}
    /\ docs = [k \in Keys |-> None]
    /\ pages = {} /\ chunks = {} /\ vectors = {}
    /\ todo = [u \in Uploads |-> {}]
    /\ warn = [u \in Uploads |-> FALSE]
    /\ del = Idle
    /\ deletes = 0
    /\ faults = 0
    /\ raced = {}

-----------------------------------------------------------------------------
(* The request and the thread's first and last steps.                      *)

\* The tail of upload_document, which has no await and so never runs in the
\* middle of another handler: the file is in place, the task row is created, the
\* thread is started, and cleanup_upload_tasks drops the finished tasks that
\* are old enough.
Accept(u) ==
    /\ pc[u] = "idle"
    /\ del.at = "idle"
    /\ \E old \in SUBSET {v \in Uploads : /\ task[v] # None
                                          /\ task[v].status \in {"completed", "failed"}} :
         task' = [v \in Uploads |->
                    IF v = u THEN [status |-> "pending", result |-> "none"]
                    ELSE IF v \in old THEN None ELSE task[v]]
    /\ stored' = stored \cup {u}
    /\ pc' = [pc EXCEPT ![u] = "queued"]
    /\ UNCHANGED <<req, lock, dbVars, vectors, todo, warn, delVars, faults>>

\* update_upload_task: an UPDATE, which finds no row once the task is purged.
UpdateTask(u, status, result) ==
    task' = IF task[u] = None THEN task
            ELSE [task EXCEPT ![u] = [status |-> status, result |-> result]]

Start(u) ==
    /\ pc[u] = "queued"
    /\ UpdateTask(u, "processing", "none")
    /\ pc' = [pc EXCEPT ![u] = "waiting"]
    /\ UNCHANGED <<req, lock, stored, dbVars, vectors, todo, warn, delVars, faults>>

\* Mutant: the thread does not wait for the tenant's ingestion in progress.
AcquireLockUnguarded(u) ==
    /\ pc[u] = "waiting"
    /\ lock' = [lock EXCEPT ![Tenant(u)] = u]
    /\ pc' = [pc EXCEPT ![u] = "locked"]
    /\ UNCHANGED <<req, taskVars, stored, dbVars, vectors, todo, warn, delVars, faults>>

AcquireLock(u) ==
    /\ pc[u] = "waiting"
    /\ lock[Tenant(u)] = None
    /\ lock' = [lock EXCEPT ![Tenant(u)] = u]
    /\ pc' = [pc EXCEPT ![u] = "locked"]
    /\ UNCHANGED <<req, taskVars, stored, dbVars, vectors, todo, warn, delVars, faults>>

ReleaseLock(u) == lock' = [lock EXCEPT ![Tenant(u)] = None]

\* The MD5 is already among the tenant's documents: nothing is ingested.
FindDuplicate(u) ==
    /\ pc[u] = "locked"
    /\ SameHash(u) # {}
    /\ ReleaseLock(u)
    /\ pc' = [pc EXCEPT ![u] = "duplicate"]
    /\ UNCHANGED <<req, taskVars, stored, dbVars, vectors, todo, warn, delVars, faults>>

\* Mutant: the file removed is the one of the document found.
DropExistingFile(u) ==
    /\ pc[u] = "duplicate"
    /\ stored' = stored \ {docs[k].path : k \in SameHash(u)}
    /\ pc' = [pc EXCEPT ![u] = "dropped"]
    /\ UNCHANGED <<req, taskVars, lock, dbVars, vectors, todo, warn, delVars, faults>>

DropDuplicateFile(u) ==
    /\ pc[u] = "duplicate"
    /\ stored' = stored \ {u}
    /\ pc' = [pc EXCEPT ![u] = "dropped"]
    /\ UNCHANGED <<req, taskVars, lock, dbVars, vectors, todo, warn, delVars, faults>>

\* The last _update_task of _process_document_async_sync.
CompleteTask(u) ==
    /\ pc[u] \in {"dropped", "ingested"}
    /\ UpdateTask(u, "completed",
                  IF pc[u] = "dropped" THEN "already_imported" ELSE "indexed")
    /\ pc' = [pc EXCEPT ![u] = "end"]
    /\ UNCHANGED <<req, lock, stored, dbVars, vectors, todo, warn, delVars, faults>>

-----------------------------------------------------------------------------
(* Ingestion proper, under the tenant's lock.                              *)

\* Parsing and preprocessing write no row; the parser may report losses.
Parse(u) ==
    /\ pc[u] = "locked"
    /\ SameHash(u) = {}
    /\ \E loss \in BOOLEAN : warn' = [warn EXCEPT ![u] = loss]
    /\ pc' = [pc EXCEPT ![u] = "parsed"]
    /\ UNCHANGED <<req, taskVars, lock, stored, dbVars, vectors, todo, delVars, faults>>

\* save_document is an upsert: it takes over a row with the same doc_id.
SaveDocument(u, status) ==
    docs' = [docs EXCEPT ![Key(u)] = [status |-> status, path |-> u]]

SavePending(u) ==
    /\ pc[u] = "parsed"
    /\ SaveDocument(u, "pending_meta")
    /\ pc' = [pc EXCEPT ![u] = "pending"]
    /\ UNCHANGED <<req, taskVars, lock, stored, pages, chunks, vectors, todo, warn,
                   delVars, faults>>

\* Mutant: the chunk rows are forgotten.
DeleteRowsKeepsChunks(k) ==
    /\ docs' = [docs EXCEPT ![k] = None]
    /\ pages' = pages \ RowsOf(pages, k)
    /\ UNCHANGED chunks

\* delete_document's one transaction on the tenant's metadata database.
DeleteRows(k) ==
    /\ docs' = [docs EXCEPT ![k] = None]
    /\ pages' = pages \ RowsOf(pages, k)
    /\ chunks' = chunks \ RowsOf(chunks, k)

\* Mutant: pages whose analysis failed are not reported.
CleanOldUnreported(u) ==
    /\ pc[u] = "pending"
    /\ \/ DeleteRows(Key(u)) /\ UNCHANGED faults
       \/ Inject("clean") /\ UNCHANGED dbVars
    /\ \E failed \in SUBSET Pages :
         todo' = [todo EXCEPT ![u] = {u} \X (Pages \ failed)]
    /\ pc' = [pc EXCEPT ![u] = "write"]
    /\ UNCHANGED <<req, taskVars, lock, stored, vectors, warn, delVars>>

\* _build_l2: clean up old rows, ignoring the outcome, then analyse the pages
\* concurrently.  A page whose analysis raises is left out and reported.
CleanOld(u) ==
    /\ pc[u] = "pending"
    /\ \/ DeleteRows(Key(u)) /\ UNCHANGED faults
       \/ Inject("clean") /\ UNCHANGED dbVars
    /\ \E failed \in SUBSET Pages :
         /\ todo' = [todo EXCEPT ![u] = {u} \X (Pages \ failed)]
         /\ warn' = [warn EXCEPT ![u] = @ \/ failed # {}]
    /\ pc' = [pc EXCEPT ![u] = "write"]
    /\ UNCHANGED <<req, taskVars, lock, stored, vectors, delVars>>

FirstOf(S) == {r \in S : \A s \in S : r[2] <= s[2]}

\* save_page, in page order, one transaction each.
SavePage(u) ==
    /\ pc[u] = "write"
    /\ \E r \in FirstOf(todo[u]) :
         /\ pages' = pages \cup {r}
         /\ todo' = [todo EXCEPT ![u] = @ \ {r}]
    /\ UNCHANGED <<req, taskVars, pc, lock, stored, docs, chunks, vectors, warn, delVars,
                   faults>>

\* _build_embeddings reads the document's page rows back from the database.
\* Without any it returns at once, and reports nothing.
ReadPages(u) ==
    /\ pc[u] = "write"
    /\ todo[u] = {}
    /\ todo' = [todo EXCEPT ![u] = RowsOf(pages, Key(u))]
    /\ pc' = [pc EXCEPT ![u] = "embed"]
    /\ UNCHANGED <<req, taskVars, lock, stored, dbVars, vectors, warn, delVars, faults>>

\* Embedding and storing one page's chunk: both rows; neither (the embedding
\* failed) or the vector only (the chunk insert failed), which are counted as
\* lost; or the chunk only, because store_l2_chunk swallows its own failure.
EmbedChunk(u) ==
    /\ pc[u] = "embed"
    /\ \E r \in FirstOf(todo[u]), chunkOk, vectorOk \in BOOLEAN :
         /\ todo' = [todo EXCEPT ![u] = @ \ {r}]
         /\ chunks' = IF chunkOk THEN chunks \cup {r} ELSE chunks
         /\ vectors' = IF vectorOk THEN vectors \cup {r} ELSE vectors
         /\ warn' = [warn EXCEPT ![u] = @ \/ ~chunkOk]
    /\ UNCHANGED <<req, taskVars, pc, lock, stored, docs, pages, delVars, faults>>

FinishEmbedding(u) ==
    /\ pc[u] = "embed"
    /\ todo[u] = {}
    /\ pc' = [pc EXCEPT ![u] = "final"]
    /\ UNCHANGED <<req, taskVars, lock, stored, dbVars, vectors, todo, warn, delVars, faults>>

\* The final save_document, and the release of the lock on return.
SaveFinal(u) ==
    /\ pc[u] = "final"
    /\ SaveDocument(u, IF warn[u] THEN "degraded" ELSE "verified")
    /\ ReleaseLock(u)
    /\ pc' = [pc EXCEPT ![u] = "ingested"]
    /\ UNCHANGED <<req, taskVars, stored, pages, chunks, vectors, todo, warn, delVars,
                   faults>>

\* Mutant: the exception leaves the lock taken.
RaiseHoldingLock(u) ==
    /\ pc[u] \in Critical \cup {"queued", "dropped", "ingested"}
    /\ Inject("raise")
    /\ pc' = [pc EXCEPT ![u] = "raised"]
    /\ todo' = [todo EXCEPT ![u] = {}]
    /\ UNCHANGED <<req, taskVars, lock, stored, dbVars, vectors, warn, delVars>>

\* An exception: the with statement releases the lock, the handler records it.
Raise(u) ==
    /\ pc[u] \in Critical \cup {"queued", "dropped", "ingested"}
    /\ Inject("raise")
    /\ lock' = IF pc[u] \in Critical THEN [lock EXCEPT ![Tenant(u)] = None] ELSE lock
    /\ pc' = [pc EXCEPT ![u] = "raised"]
    /\ todo' = [todo EXCEPT ![u] = {}]
    /\ UNCHANGED <<req, taskVars, stored, dbVars, vectors, warn, delVars>>

FailTask(u) ==
    /\ pc[u] = "raised"
    /\ UpdateTask(u, "failed", "none")
    /\ pc' = [pc EXCEPT ![u] = "failed"]
    /\ UNCHANGED <<req, lock, stored, dbVars, vectors, todo, warn, delVars, faults>>

-----------------------------------------------------------------------------
(* DELETE /documents/{doc_id}: _hard_delete_documents on the event loop.    *)

\* delete_document reads original_path before it drops the row.
ResolveFiles(k) ==
    /\ del.at = "idle"
    /\ deletes < MaxDeletes
    /\ deletes' = deletes + 1
    /\ del' = [at |-> "resolved", key |-> k,
               path |-> IF docs[k] = None THEN None ELSE docs[k].path]
    /\ UNCHANGED <<req, taskVars, threadVars, lock, stored, dbVars, vectors, faults, raced>>

Interrupted(k) == {u \in Uploads : Key(u) = k /\ pc[u] \in {"pending"} \cup Building}

DeleteDocument ==
    /\ del.at = "resolved"
    /\ \/ /\ DeleteRows(del.key)
          /\ raced' = raced \cup Interrupted(del.key)
          /\ del' = [del EXCEPT !.at = "rows_gone"]
          /\ UNCHANGED faults
       \/ /\ Inject("delete")
          /\ del' = Idle
          /\ UNCHANGED <<dbVars, raced>>
    /\ UNCHANGED <<req, taskVars, threadVars, lock, stored, vectors, deletes>>

RemoveFiles ==
    /\ del.at = "rows_gone"
    /\ \/ stored' = stored \ {del.path} /\ UNCHANGED faults
       \/ Inject("unlink") /\ UNCHANGED stored
    /\ del' = [del EXCEPT !.at = "files_gone"]
    /\ UNCHANGED <<req, taskVars, threadVars, lock, dbVars, vectors, deletes, raced>>

DeleteVectors ==
    /\ del.at = "files_gone"
    /\ \/ vectors' = vectors \ RowsOf(vectors, del.key) /\ UNCHANGED faults
       \/ Inject("vector") /\ UNCHANGED vectors
    /\ del' = Idle
    /\ UNCHANGED <<req, taskVars, threadVars, lock, stored, dbVars, deletes, raced>>

-----------------------------------------------------------------------------
\* The process dies and is started again.  Threads, locks and the request in
\* progress are gone; the databases and the files stay.  Nothing at start-up
\* looks at unfinished tasks.
Crash ==
    /\ Inject("crash")
    /\ pc' = [u \in Uploads |-> IF pc[u] \in {"idle", "end", "failed"} THEN pc[u] ELSE "dead"]
    /\ lock' = [t \in Tenants |-> None]
    /\ todo' = [u \in Uploads |-> {}]
    /\ del' = Idle
    /\ UNCHANGED <<req, taskVars, stored, dbVars, vectors, warn, deletes, raced>>

Ingest(u) == \/ Start(u) \/ AcquireLock(u) \/ FindDuplicate(u)
             \/ DropDuplicateFile(u) \/ CompleteTask(u) \/ Parse(u)
             \/ SavePending(u) \/ CleanOld(u) \/ SavePage(u) \/ ReadPages(u)
             \/ EmbedChunk(u) \/ FinishEmbedding(u) \/ SaveFinal(u)
             \/ FailTask(u)

DeleteStep == DeleteDocument \/ RemoveFiles \/ DeleteVectors

Next == \/ \E u \in Uploads : Accept(u) \/ Ingest(u) \/ Raise(u)
        \/ \E k \in Keys : ResolveFiles(k)
        \/ DeleteStep
        \/ Crash

\* A thread that can run does run, and so does a request handler; uploads,
\* DELETE requests and failures need never come.
Fairness == /\ \A u \in Uploads : WF_vars(Ingest(u))
            /\ WF_vars(DeleteStep)

Spec == Init /\ [][Next]_vars
FairSpec == Spec /\ Fairness

-----------------------------------------------------------------------------
(* Properties.                                                             *)

TypeOK ==
    /\ req \in [Uploads -> [tenant : Tenants, file : Files]]
    /\ task \in [Uploads -> TaskRow \cup {None}]
    /\ pc \in [Uploads -> Positions]
    /\ lock \in [Tenants -> Uploads \cup {None}]
    /\ stored \subseteq Uploads
    /\ docs \in [Keys -> DocRow \cup {None}]
    /\ pages \subseteq Rows /\ chunks \subseteq Rows /\ vectors \subseteq Rows
    /\ todo \in [Uploads -> SUBSET Rows]
    /\ warn \in [Uploads -> BOOLEAN]
    /\ del \in [at : {"idle", "resolved", "rows_gone", "files_gone"},
               key : Keys \cup {None}, path : Uploads \cup {None}]
    /\ (del.at # "idle") => (del.key \in Keys)
    /\ deletes \in Nat /\ faults \in Nat
    /\ raced \subseteq Uploads

\* MD5 deduplication: no tenant ever holds two documents rows with the same
\* file_hash, however its uploads, deletes, failures and restarts interleave.
\* (The look-up and the insert are separate transactions; the same bytes under
\* another name have another doc_id, so the primary key does not help.)
UniqueHash ==
    \A j, k \in Keys :
        (/\ docs[j] # None /\ docs[k] # None
         /\ j[1] = k[1]
         /\ Hash(docs[j].path) = Hash(docs[k].path)) => j = k

\* A document is marked verified only if every page of its file has its page
\* row and its chunk row - unless a DELETE hit it while it was being ingested.
VerifiedIsComplete ==
    \A k \in Keys :
        (/\ docs[k] # None
         /\ docs[k].status = "verified"
         /\ docs[k].path \notin raced)
            => ({docs[k].path} \X Pages) \subseteq (pages \cap chunks)

\* A documents row never outlives the file its original_path names, with the
\* same exception.
RowHasFile ==
    \A k \in Keys :
        (docs[k] # None /\ docs[k].path \notin raced) => docs[k].path \in stored

\* Page and chunk rows without a documents row belong to a document one of
\* whose ingestions is still running or was cut short by an exception or crash.
OrphansAreInterrupted ==
    \A r \in pages \cup chunks :
        \/ docs[Key(r[1])] # None
        \/ \E u \in Uploads : /\ Key(u) = Key(r[1])
                             /\ pc[u] \in Building \cup {"raised", "failed", "dead"}

\* An upload is answered with already_imported only against a document that
\* has been indexed, or whose ingestion an exception or a crash cut short: never
\* against one that another thread is still building.
DuplicateIsSettled ==
    [][\A u \in Uploads :
         (pc[u] = "locked" /\ pc'[u] = "duplicate")
            => \E k \in SameHash(u) :
                 \/ docs[k].status # "pending_meta"
                 \/ \E v \in Uploads : /\ Key(v) = k
                                        /\ pc[v] \in {"raised", "failed", "dead"}]_vars

\* builder.py: "Check if already imported" means imported, not merely announced
\* with a pending_meta row.
DuplicateIsIndexed ==
    [][\A u \in Uploads :
         (pc[u] = "locked" /\ pc'[u] = "duplicate")
            => \E k \in SameHash(u) : docs[k].status # "pending_meta"]_vars

\* Every accepted upload's task reaches completed or failed, unless the process
\* dies while its thread runs.
TaskSettles ==
    \A u \in Uploads :
        (task[u] # None /\ task[u].status = "pending")
            ~> \/ task[u] # None /\ task[u].status \in {"completed", "failed"}
               \/ pc[u] = "dead"

\* The same across a restart.
TaskSettlesAnyhow ==
    \A u \in Uploads :
        (task[u] # None /\ task[u].status = "pending")
            ~> (task[u] # None /\ task[u].status \in {"completed", "failed"})

\* tenant_db.py: deletion "avoids the unrecoverable state of ... DB row present
\* but file gone".
NoRowWithoutFile == \A k \in Keys : docs[k] # None => docs[k].path \in stored

\* builder.py: _build_l2 starts with "Clean up old data", so that when nothing
\* is in progress no vector refers to a page row that no longer exists.
NoStaleVectors ==
    (/\ del.at = "idle"
     /\ \A u \in Uploads : pc[u] \in {"idle", "end"})
        => vectors \subseteq pages

\* docs/api-quickstart.md: wait until GET /documents shows "completed".
QuickstartStatus ==
    \A u \in Uploads :
        (task[u] # None /\ task[u].result = "indexed" /\ docs[Key(u)] # None)
            => docs[Key(u)].status = "completed"
=============================================================================
