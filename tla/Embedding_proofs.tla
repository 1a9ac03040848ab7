--------------------------- MODULE Embedding_proofs ---------------------------
(***************************************************************************)
(* Proofs about Embedding, for any number of chunks, any cap and any batch *)
(* size: what is counted adds up, no chunk has two rows, and a document    *)
(* that ends without a warning has all of its chunks.                      *)
(***************************************************************************)
EXTENDS Embedding, FiniteSetTheorems, TLAPS

\* Every set of chunks is finite.
LEMMA ChunksFinite ==
  ASSUME NEW S \in SUBSET Chunks
  PROVE  IsFiniteSet(S) /\ Cardinality(S) \in Nat
  <1>1. MaxItems \in Nat BY EmbeddingAssumption
  <1>2. IsFiniteSet(Chunks) BY <1>1, FS_Interval DEF Chunks
  <1>3. IsFiniteSet(S) BY <1>2, FS_Subset
  <1> QED BY <1>3, FS_CardinalityType

\* Disjoint sets of chunks: their sizes add.
LEMMA DisjointAdd ==
  ASSUME NEW S \in SUBSET Chunks, NEW T \in SUBSET Chunks, S \cap T = {}
  PROVE  Cardinality(S \cup T) = Cardinality(S) + Cardinality(T)
  <1>1. IsFiniteSet(S) /\ Cardinality(S) \in Nat BY ChunksFinite
  <1>2. IsFiniteSet(T) /\ Cardinality(T) \in Nat BY ChunksFinite
  <1>3. Cardinality(S \cap T) = 0 BY FS_EmptySet
  <1>4. Cardinality(S \cup T) = Cardinality(S) + Cardinality(T) - Cardinality(S \cap T)
    BY <1>1, <1>2, FS_Union
  <1> QED BY <1>1, <1>2, <1>3, <1>4

\* One more chunk.
LEMMA SingletonAdd ==
  ASSUME NEW S \in SUBSET Chunks, NEW c \in Chunks, c \notin S
  PROVE  Cardinality(S \cup {c}) = Cardinality(S) + 1
  <1>1. IsFiniteSet(S) BY ChunksFinite
  <1> QED BY <1>1, FS_AddElement

\* Going on to the next batch deals with this one.
LEMMA NextBatchDeals ==
  ASSUME TypeOK, NextBatch, items' = items,
         at \in {"embed", "vectors", "chunks"}
  PROVE  /\ Dealt' = Dealt \cup Batch
         /\ Dealt \cap Batch = {}
         /\ Dealt \in SUBSET Chunks /\ Batch \in SUBSET Chunks
  <1>1. BatchSize \in Nat \ {0} /\ MaxItems \in Nat BY EmbeddingAssumption
  <1>2. items \subseteq Chunks /\ first \in Nat /\ Chunks \subseteq Nat
    BY <1>1 DEF TypeOK, Chunks
  <1>3. Reached = first BY DEF Reached
  <1>4. Reached' = first + BatchSize BY DEF NextBatch, Reached
  <1>5. Dealt = {i \in items : i < first} BY <1>3 DEF Dealt
  <1>6. Dealt' = {i \in items : i < first + BatchSize} BY <1>4 DEF Dealt
  <1>7. \A i \in items : i \in Nat BY <1>2
  <1>8. \A i \in items : i < first + BatchSize <=> i < first \/ i \in Batch
    BY <1>1, <1>2, <1>7 DEF Batch
  <1>9. \A i \in items : i < first => i \notin Batch BY <1>2, <1>7 DEF Batch
  <1>10. Dealt \subseteq items /\ Batch \subseteq items BY <1>5 DEF Batch
  <1> QED BY <1>2, <1>5, <1>6, <1>8, <1>9, <1>10

\* The same when the batch ends with the chunk written on its own.
LEMMA LastRowDeals ==
  ASSUME TypeOK, Consecutive, NextBatch, items' = items,
         at = "rowChunk", row \in Batch, row + 1 \notin Batch
  PROVE  Dealt' = Dealt \cup {row}
  <1>1. BatchSize \in Nat \ {0} /\ MaxItems \in Nat BY EmbeddingAssumption
  <1>2. PICK k \in 0..MaxItems : items = 1..k BY DEF Consecutive
  <1>3. first \in Nat \ {0} /\ row \in Nat BY DEF TypeOK
  <1>4. Dealt = {i \in items : i < row} BY DEF Dealt, Reached
  <1>5. Dealt' = {i \in items : i < first + BatchSize} BY DEF Dealt, Reached, NextBatch
  <1>6. row \in 1..k /\ first <= row /\ row < first + BatchSize BY <1>2 DEF Batch
  <1>7. row + 1 > k \/ row + 1 >= first + BatchSize BY <1>1, <1>2, <1>3, <1>6 DEF Batch
  <1> QED BY <1>1, <1>2, <1>3, <1>4, <1>5, <1>6, <1>7

\* Before the last chunk of a batch written again, the next one follows.
LEMMA RowDeals ==
  ASSUME TypeOK, Consecutive, items' = items, row' = row + 1, at' = "rowVector",
         at = "rowChunk", row \in Batch
  PROVE  Dealt' = Dealt \cup {row}
  <1>1. MaxItems \in Nat BY EmbeddingAssumption
  <1>2. PICK k \in 0..MaxItems : items = 1..k BY DEF Consecutive
  <1>3. row \in Nat /\ row \in items BY DEF TypeOK, Batch
  <1>4. Dealt = {i \in items : i < row} BY DEF Dealt, Reached
  <1>5. Dealt' = {i \in items : i < row + 1} BY DEF Dealt, Reached
  <1> QED BY <1>1, <1>2, <1>3, <1>4, <1>5

\* Writing a batch again begins with its first chunk, and deals with none yet.
LEMMA FallBackDeals ==
  ASSUME TypeOK, Consecutive, FallBack, items' = items, first' = first,
         at \in {"vectors", "chunks"}, Batch # {}
  PROVE  row' \in Batch' /\ Dealt' = Dealt
  <1>1. BatchSize \in Nat \ {0} /\ MaxItems \in Nat BY EmbeddingAssumption
  <1>2. PICK k \in 0..MaxItems : items = 1..k BY DEF Consecutive
  <1>3. first \in Nat \ {0} BY DEF TypeOK
  <1>4. first \in Batch BY <1>1, <1>2, <1>3 DEF Batch
  <1>5. Batch' = Batch BY DEF Batch
  <1> QED BY <1>4, <1>5 DEF FallBack, Dealt, Reached

\* The buckets are counters, and adding to one of them adds to their sum.
LEMMA FailedAdds ==
  ASSUME fails \in [Buckets -> Nat], NEW b \in Buckets, NEW n \in Nat,
         fails' = [fails EXCEPT ![b] = @ + n]
  PROVE  fails' \in [Buckets -> Nat] /\ Failed' = Failed + n /\ Failed \in Nat
  BY DEF Failed, Buckets, Kinds

\* Inserting chunks without a row gives them one row each.
LEMMA InsertRows ==
  ASSUME chunks \in [Chunks -> Nat], RowsOnce, NEW S \in SUBSET Chunks,
         S \cap Rows = {}, Insert(S)
  PROVE  chunks' \in [Chunks -> Nat] /\ RowsOnce' /\ Rows' = Rows \cup S
  <1>1. \A i \in Chunks : chunks[i] \in Nat OBVIOUS
  <1>2. \A i \in Chunks : chunks'[i] = IF i \in S THEN chunks[i] + 1 ELSE chunks[i]
    BY DEF Insert
  <1>3. \A i \in S : chunks[i] = 0 BY <1>1 DEF Rows
  <1>4. chunks' \in [Chunks -> Nat] BY <1>1 DEF Insert
  <1>5. RowsOnce' BY <1>1, <1>2, <1>3 DEF RowsOnce
  <1>6. Rows' = Rows \cup S BY <1>1, <1>2, <1>3 DEF Rows
  <1> QED BY <1>4, <1>5, <1>6

-----------------------------------------------------------------------------

\* The thread starts with nothing written and nothing counted.
LEMMA InvInit == Init => Inv
  <1> SUFFICES ASSUME Init PROVE Inv OBVIOUS
  <1>1. MaxItems \in Nat BY EmbeddingAssumption
  <1>2. TypeOK
    BY <1>1 DEF Init, TypeOK, Places, Chunks, Buckets, Kinds, MaxAttempts
  <1>3. Consecutive
    <2>1. items = 1..0 /\ 0 \in 0..MaxItems BY <1>1 DEF Init
    <2> QED BY <2>1 DEF Consecutive
  <1>4. InPlace BY DEF Init, InPlace
  <1>5. RowsOnce BY DEF Init, RowsOnce
  <1>6. CountsAddUp
    <2>1. Rows = {} /\ Dealt = {} BY DEF Init, Rows, Dealt
    <2>2. Failed = 0 BY DEF Init, Failed, Buckets, Kinds
    <2>3. Cardinality({}) = 0 BY FS_EmptySet
    <2> QED BY <2>1, <2>2, <2>3 DEF Init, CountsAddUp
  <1> QED BY <1>2, <1>3, <1>4, <1>5, <1>6 DEF Inv

\* Giving a batch up: every chunk of it is counted, in one bucket.
LEMMA InvGiveUp ==
  ASSUME Inv, at = "embed", NEW k \in Kinds, GiveUp(k),
         UNCHANGED <<items, row, dbVars, stored, warning>>
  PROVE  Inv'
  <1> USE DEF Inv
  <1>1. BatchSize \in Nat \ {0} BY EmbeddingAssumption
  <1>2. /\ Dealt' = Dealt \cup Batch /\ Dealt \cap Batch = {}
        /\ Dealt \in SUBSET Chunks /\ Batch \in SUBSET Chunks
    BY NextBatchDeals DEF GiveUp
  <1>3. Cardinality(Batch) \in Nat BY <1>2, ChunksFinite
  <1>4. k \in Buckets BY DEF Buckets
  <1>5. fails' \in [Buckets -> Nat] /\ Failed' = Failed + Cardinality(Batch) /\ Failed \in Nat
    BY <1>3, <1>4, FailedAdds DEF GiveUp, TypeOK
  <1>6. TypeOK'
    BY <1>1, <1>5 DEF GiveUp, NextBatch, dbVars, TypeOK, Places, Kinds, MaxAttempts
  <1>7. Consecutive' /\ InPlace' /\ RowsOnce'
    BY DEF GiveUp, NextBatch, dbVars, Consecutive, InPlace, RowsOnce
  <1>8. CountsAddUp'
    <2>1. at' = "embed" /\ stored' = stored /\ Rows' = Rows
      BY DEF GiveUp, NextBatch, dbVars, Rows
    <2>2. Cardinality(Dealt') = Cardinality(Dealt) + Cardinality(Batch)
      BY <1>2, DisjointAdd
    <2>3. Cardinality(Dealt) \in Nat /\ stored \in Nat
      BY <1>2, ChunksFinite DEF TypeOK
    <2> QED BY <1>2, <1>3, <1>5, <2>1, <2>2, <2>3 DEF CountsAddUp
  <1> QED BY <1>6, <1>7, <1>8

\* Storing a whole batch.
LEMMA InvSaveBatch ==
  ASSUME Inv, SaveBatch
  PROVE  Inv'
  <1> USE DEF Inv
  <1>1. BatchSize \in Nat \ {0} BY EmbeddingAssumption
  <1>2. CASE /\ Insert(Batch)
             /\ stored' = stored + Cardinality(Batch)
             /\ NextBatch
             /\ UNCHANGED row
    <2>1. UNCHANGED <<items, vectors, swallowed, fails, warning>> /\ at = "chunks"
      BY DEF SaveBatch
    <2>2. /\ Dealt' = Dealt \cup Batch /\ Dealt \cap Batch = {}
          /\ Dealt \in SUBSET Chunks /\ Batch \in SUBSET Chunks
      BY <1>2, <2>1, NextBatchDeals
    <2>3. Cardinality(Batch) \in Nat /\ Cardinality(Dealt) \in Nat BY <2>2, ChunksFinite
    <2>4. Rows \subseteq Dealt /\ Rows \in SUBSET Chunks BY <2>1 DEF CountsAddUp, Rows
    <2>5. Batch \cap Rows = {} BY <2>2, <2>4
    <2>6. chunks' \in [Chunks -> Nat] /\ RowsOnce' /\ Rows' = Rows \cup Batch
      BY <1>2, <2>2, <2>5, InsertRows DEF TypeOK
    <2>7. TypeOK'
      BY <1>1, <1>2, <2>1, <2>3, <2>6 DEF NextBatch, TypeOK, Places, Kinds, MaxAttempts
    <2>8. Consecutive' /\ InPlace'
      BY <1>2, <2>1 DEF NextBatch, Consecutive, InPlace
    <2>9. CountsAddUp'
      <3>1. Failed' = Failed /\ Failed \in Nat /\ stored \in Nat
        BY <2>1 DEF Failed, TypeOK, Buckets, Kinds
      <3>2. Cardinality(Dealt') = Cardinality(Dealt) + Cardinality(Batch)
        BY <2>2, DisjointAdd
      <3>3. Cardinality(Rows') = Cardinality(Rows) + Cardinality(Batch)
        BY <2>2, <2>4, <2>5, <2>6, DisjointAdd
      <3>4. stored = Cardinality(Rows) /\ stored + Failed = Cardinality(Dealt)
        BY <2>1 DEF CountsAddUp
      <3>5. Rows' \subseteq Dealt' BY <2>2, <2>4, <2>6
      <3> QED BY <1>2, <2>3, <3>1, <3>2, <3>3, <3>4, <3>5 DEF CountsAddUp
    <2> QED BY <2>6, <2>7, <2>8, <2>9
  <1>3. CASE /\ FallBack
             /\ UNCHANGED <<first, attempt, kind, chunks, stored>>
    <2>1. UNCHANGED <<items, vectors, swallowed, fails, warning>> /\ at = "chunks"
      BY DEF SaveBatch
    <2>2. row' \in Batch' /\ Dealt' = Dealt
      BY <1>3, <2>1, FallBackDeals DEF InPlace
    <2>3. TypeOK'
      BY <1>3, <2>1 DEF FallBack, TypeOK, Places, Kinds, MaxAttempts
    <2>4. Consecutive' /\ InPlace' /\ RowsOnce'
      BY <1>3, <2>1, <2>2 DEF FallBack, Consecutive, InPlace, RowsOnce
    <2>5. CountsAddUp'
      BY <1>3, <2>1, <2>2 DEF CountsAddUp, Rows, Failed
    <2> QED BY <2>3, <2>4, <2>5
  <1> QED BY <1>2, <1>3 DEF SaveBatch

\* Writing one chunk again.
LEMMA InvSaveRow ==
  ASSUME Inv, SaveRow
  PROVE  Inv'
  <1> USE DEF Inv
  <1>1. BatchSize \in Nat \ {0} BY EmbeddingAssumption
  <1>2. UNCHANGED <<items, vectors, swallowed, warning>> /\ at = "rowChunk" /\ row \in Batch
    BY DEF SaveRow, InPlace
  <1>3. row \in Chunks /\ row \in Nat BY <1>2 DEF Batch, TypeOK
  <1>4. Dealt = {i \in items : i < row} BY <1>2 DEF Dealt, Reached
  <1>5. Dealt \in SUBSET Chunks /\ row \notin Dealt
    <2>1. Dealt \subseteq items BY <1>4
    <2>2. ~(row < row) BY <1>3
    <2> QED BY <1>4, <2>1, <2>2 DEF TypeOK
  <1>6. Dealt' = Dealt \cup {row}
    <2>1. CASE row + 1 \in Batch BY <1>2, <2>1, RowDeals DEF SaveRow
    <2>2. CASE row + 1 \notin Batch BY <1>2, <2>2, LastRowDeals DEF SaveRow
    <2> QED BY <2>1, <2>2
  <1>7. Cardinality(Dealt') = Cardinality(Dealt) + 1 /\ Cardinality(Dealt) \in Nat
    BY <1>3, <1>5, <1>6, SingletonAdd, ChunksFinite
  <1>8. /\ Rows \subseteq Dealt /\ stored = Cardinality(Rows)
        /\ stored + Failed = Cardinality(Dealt)
    BY <1>2 DEF CountsAddUp
  <1>9. /\ chunks' \in [Chunks -> Nat] /\ RowsOnce' /\ Rows' \subseteq Dealt'
        /\ stored' \in Nat /\ stored' = Cardinality(Rows')
        /\ fails' \in [Buckets -> Nat] /\ stored' + Failed' = stored + Failed + 1
    <2>1. CASE Insert({row}) /\ stored' = stored + 1 /\ UNCHANGED fails
      <3>1. Rows \in SUBSET Chunks /\ row \notin Rows BY <1>5, <1>8
      <3>2. chunks' \in [Chunks -> Nat] /\ RowsOnce' /\ Rows' = Rows \cup {row}
        BY <1>3, <2>1, <3>1, InsertRows DEF TypeOK
      <3>3. Cardinality(Rows') = Cardinality(Rows) + 1 BY <1>3, <3>1, <3>2, SingletonAdd
      <3>4. Failed' = Failed /\ Failed \in Nat /\ stored \in Nat
        BY <2>1 DEF Failed, TypeOK, Buckets, Kinds
      <3> QED BY <1>6, <1>8, <2>1, <3>2, <3>3, <3>4 DEF TypeOK
    <2>2. CASE /\ fails' = [fails EXCEPT !["store"] = @ + 1]
               /\ UNCHANGED <<chunks, stored>>
      <3>1. "store" \in Buckets BY DEF Buckets
      <3>2. fails' \in [Buckets -> Nat] /\ Failed' = Failed + 1 /\ Failed \in Nat
        BY <2>2, <3>1, FailedAdds DEF TypeOK
      <3>3. Rows' = Rows BY <2>2 DEF Rows
      <3> QED BY <1>6, <1>8, <2>2, <3>2, <3>3 DEF TypeOK, RowsOnce
    <2> QED BY <2>1, <2>2 DEF SaveRow
  <1>10. TypeOK'
    <2>1. CASE row + 1 \in Batch
      BY <1>2, <1>3, <1>9, <2>1 DEF SaveRow, TypeOK, Places
    <2>2. CASE row + 1 \notin Batch
      BY <1>1, <1>2, <1>9, <2>2 DEF SaveRow, NextBatch, TypeOK, Places, Kinds, MaxAttempts
    <2> QED BY <2>1, <2>2
  <1>11. Consecutive' /\ InPlace'
    <2>1. CASE row + 1 \in Batch
      BY <1>2, <2>1 DEF SaveRow, Consecutive, InPlace, Batch
    <2>2. CASE row + 1 \notin Batch
      BY <1>2, <2>2 DEF SaveRow, NextBatch, Consecutive, InPlace
    <2> QED BY <2>1, <2>2
  <1>12. CountsAddUp' BY <1>7, <1>8, <1>9 DEF CountsAddUp
  <1> QED BY <1>9, <1>10, <1>11, <1>12

\* The steps that write no chunk row and deal with no chunk.
LEMMA InvOtherSteps ==
  ASSUME Inv, \/ CutRaises \/ Cut \/ EmbedBatch \/ StoreVectors \/ StoreRowVector
              \/ Report \/ Crash
  PROVE  Inv'
  <1> USE DEF Inv
  <1>1. BatchSize \in Nat \ {0} /\ MaxItems \in Nat /\ MaxChunks \in Nat
    BY EmbeddingAssumption
  <1>2. CASE CutRaises
    BY <1>2 DEF CutRaises, batchVars, dbVars, countVars, TypeOK, Places, Consecutive, InPlace,
                RowsOnce, CountsAddUp, Rows, Failed, Dealt, Reached
  <1>3. CASE Cut
    <2>1. PICK made \in 0..MaxItems : items' = {i \in 1..made : i <= MaxChunks}
      BY <1>3 DEF Cut
    <2>2. items' = 1..(IF made <= MaxChunks THEN made ELSE MaxChunks) BY <1>1, <2>1
    <2>3. Consecutive' BY <1>1, <2>2 DEF Consecutive
    <2>4. TypeOK' BY <1>1, <1>3, <2>1 DEF Cut, batchVars, dbVars, countVars, TypeOK, Places, Chunks
    <2>5. InPlace' /\ RowsOnce' BY <1>3 DEF Cut, dbVars, InPlace, RowsOnce
    <2>6. CountsAddUp'
      <3>1. at = "start" /\ at' = "embed" /\ items = {} /\ stored' = stored
        BY <1>3 DEF Cut, InPlace, countVars
      <3>2. Rows' = Rows /\ Failed' = Failed BY <1>3 DEF Cut, dbVars, countVars, Rows, Failed
      <3>3. Dealt = {} BY <3>1 DEF Dealt
      <3>4. stored = Cardinality(Rows) /\ Rows = {} /\ stored + Failed = 0
        BY <3>1, <3>3, FS_EmptySet DEF CountsAddUp
      <3>5. first' = 1 BY <1>3 DEF Cut, InPlace, batchVars
      <3>6. \A i \in items' : ~(i < 1) BY <1>1, <2>1
      <3>7. Dealt' = {} BY <3>1, <3>5, <3>6 DEF Dealt, Reached
      <3> QED BY <3>1, <3>2, <3>3, <3>4, <3>7 DEF CountsAddUp
    <2> QED BY <2>3, <2>4, <2>5, <2>6
  <1>4. CASE EmbedBatch
    BY <1>4 DEF EmbedBatch, batchVars, dbVars, countVars, TypeOK, Places, Consecutive, InPlace,
                RowsOnce, CountsAddUp, Rows, Failed, Dealt, Reached, Batch
  <1>5. CASE StoreVectors
    <2>1. /\ at = "vectors"
          /\ UNCHANGED <<items, first, attempt, kind, chunks, swallowed, countVars, warning>>
      BY <1>5 DEF StoreVectors
    <2>2. Batch' = Batch /\ Batch \subseteq Chunks BY <2>1 DEF Batch, TypeOK
    <2>3. \/ vectors' = vectors \cup Batch /\ at' = "chunks" /\ UNCHANGED row
          \/ FallBack /\ UNCHANGED vectors
      BY <1>5 DEF StoreVectors
    <2>4. TypeOK' BY <2>1, <2>2, <2>3 DEF FallBack, countVars, TypeOK, Places
    <2>5. Dealt' = Dealt /\ InPlace'
      <3>1. CASE at' = "chunks" BY <2>1, <2>2, <3>1 DEF Dealt, Reached, InPlace
      <3>2. CASE FallBack /\ UNCHANGED vectors
        <4>1. row' \in Batch' /\ Dealt' = Dealt
          BY <2>1, <3>2, FallBackDeals DEF InPlace
        <4> QED BY <3>2, <4>1 DEF FallBack, InPlace
      <3> QED BY <2>3, <3>1, <3>2
    <2>6. Consecutive' /\ RowsOnce' BY <2>1 DEF Consecutive, RowsOnce
    <2>7. CountsAddUp'
      <3>1. Rows' = Rows /\ Failed' = Failed /\ stored' = stored
        BY <2>1 DEF countVars, Rows, Failed
      <3> QED BY <2>1, <2>5, <3>1 DEF CountsAddUp
    <2> QED BY <2>4, <2>5, <2>6, <2>7
  <1>6. CASE StoreRowVector
    <2>1. /\ at = "rowVector" /\ at' = "rowChunk"
          /\ UNCHANGED <<items, batchVars, chunks, countVars, warning>>
          /\ \/ vectors' = vectors \cup {row} /\ UNCHANGED swallowed
             \/ swallowed' = swallowed \cup {row} /\ UNCHANGED vectors
      BY <1>6 DEF StoreRowVector
    <2>2. row \in Chunks BY <2>1 DEF InPlace, Batch, TypeOK
    <2>3. TypeOK' BY <2>1, <2>2 DEF batchVars, countVars, TypeOK, Places
    <2>4. Consecutive' /\ RowsOnce' /\ InPlace'
      BY <2>1 DEF batchVars, Consecutive, RowsOnce, InPlace, Batch
    <2>5. CountsAddUp'
      BY <2>1 DEF batchVars, countVars, CountsAddUp, Rows, Failed, Dealt, Reached
    <2> QED BY <2>3, <2>4, <2>5
  <1>7. CASE Report
    BY <1>7 DEF Report, batchVars, dbVars, countVars, TypeOK, Places, Consecutive, InPlace,
                RowsOnce, CountsAddUp, Rows, Failed, Dealt, Reached
  <1>8. CASE Crash
    BY <1>8 DEF Crash, batchVars, dbVars, countVars, TypeOK, Places, Consecutive, InPlace,
                RowsOnce, CountsAddUp
  <1> QED BY <1>2, <1>3, <1>4, <1>5, <1>6, <1>7, <1>8

\* Every step keeps the inductive invariant.
LEMMA InvStep == Inv /\ [Next]_vars => Inv'
  <1> SUFFICES ASSUME Inv, [Next]_vars PROVE Inv' OBVIOUS
  <1>1. CASE CutRaises \/ Cut \/ EmbedBatch \/ StoreVectors \/ StoreRowVector \/ Report \/ Crash
    BY <1>1, InvOtherSteps
  <1>2. CASE EmbedShort
    <2>1. kind \in Kinds BY DEF Inv, TypeOK
    <2> QED BY <1>2, <2>1, InvGiveUp DEF EmbedShort
  <1>3. CASE EmbedRaises
    <2>1. at = "embed" /\ UNCHANGED <<items, row, dbVars, stored, warning>>
      BY <1>3 DEF EmbedRaises
    <2>2. PICK k \in Kinds : GiveUp(k) \/ (~LastAttempt /\ TryAgain(k))
      BY <1>3 DEF EmbedRaises
    <2>3. CASE GiveUp(k) BY <2>1, <2>3, InvGiveUp
    <2>4. CASE ~LastAttempt /\ TryAgain(k)
      <3>1. attempt' \in 0..(MaxAttempts - 1)
        BY <2>4 DEF LastAttempt, TryAgain, MaxAttempts, Inv, TypeOK
      <3> QED
        BY <2>1, <2>4, <3>1 DEF TryAgain, dbVars, Inv, TypeOK, Consecutive, InPlace, RowsOnce,
                                CountsAddUp, Rows, Failed, Dealt, Reached
    <2> QED BY <2>2, <2>3, <2>4
  <1>4. CASE SaveBatch BY <1>4, InvSaveBatch
  <1>5. CASE SaveRow BY <1>5, InvSaveRow
  <1>6. CASE UNCHANGED vars
    BY <1>6 DEF vars, batchVars, dbVars, countVars, Inv, TypeOK, Consecutive, InPlace,
                RowsOnce, CountsAddUp, Rows, Failed, Dealt, Reached, Batch
  <1> QED BY <1>1, <1>2, <1>3, <1>4, <1>5, <1>6 DEF Next, Work

\* The inductive invariant holds throughout.
LEMMA Invariance == Spec => []Inv
  BY InvInit, InvStep, PTL DEF Spec

\* The counters, rows and positions have their types.
THEOREM TypeCorrect == Spec => []TypeOK
  <1>1. Inv => TypeOK BY DEF Inv
  <1> QED BY <1>1, Invariance, PTL

\* A chunk that is written a second time still has one row.
THEOREM NoChunkTwice == Spec => []RowsOnce
  <1>1. Inv => RowsOnce BY DEF Inv
  <1> QED BY <1>1, Invariance, PTL

\* Every chunk dealt with is stored or counted as lost, once.
THEOREM CountsAreRight == Spec => []CountsAddUp
  <1>1. Inv => CountsAddUp BY DEF Inv
  <1> QED BY <1>1, Invariance, PTL

\* The vector of a chunk is written, or given up, before its row.
VectorFirst ==
    /\ at = "chunks" => Batch \subseteq vectors
    /\ at = "rowChunk" => row \in vectors \cup swallowed

\* A chunk row stands next to its vector, unless store_l2_chunk failed for it.
THEOREM RowsHaveVectors == Spec => []VectorsBehindRows
  <1>1. Init => VectorFirst /\ VectorsBehindRows
    BY DEF Init, VectorFirst, VectorsBehindRows, Rows
  <1>2. Inv /\ VectorFirst /\ VectorsBehindRows /\ [Next]_vars
          => VectorFirst' /\ VectorsBehindRows'
    <2> SUFFICES ASSUME Inv, VectorFirst, VectorsBehindRows, [Next]_vars
                 PROVE  VectorFirst' /\ VectorsBehindRows'
      OBVIOUS
    <2>1. \A i \in Chunks : chunks[i] \in Nat BY DEF Inv, TypeOK
    <2>2. CASE SaveBatch
      <3>1. Batch \subseteq vectors /\ UNCHANGED <<vectors, swallowed>>
            /\ at' \in {"embed", "rowVector"}
        BY <2>2 DEF SaveBatch, VectorFirst, NextBatch, FallBack
      <3>2. Insert(Batch) \/ UNCHANGED chunks BY <2>2 DEF SaveBatch
      <3>3. Rows' \subseteq Rows \cup Batch BY <2>1, <3>2 DEF Insert, Rows
      <3> QED BY <3>1, <3>3 DEF VectorFirst, VectorsBehindRows
    <2>3. CASE SaveRow
      <3>1. row \in vectors \cup swallowed /\ UNCHANGED <<vectors, swallowed>>
            /\ at' \in {"embed", "rowVector"}
        BY <2>3 DEF SaveRow, VectorFirst, NextBatch
      <3>2. Insert({row}) \/ UNCHANGED chunks BY <2>3 DEF SaveRow
      <3>3. Rows' \subseteq Rows \cup {row} BY <2>1, <3>2 DEF Insert, Rows
      <3> QED BY <3>1, <3>3 DEF VectorFirst, VectorsBehindRows
    <2>4. CASE \/ CutRaises \/ Cut \/ EmbedBatch \/ EmbedShort \/ EmbedRaises \/ Report \/ Crash
               \/ UNCHANGED vars
      <3>1. UNCHANGED <<chunks, vectors, swallowed>>
        BY <2>4 DEF CutRaises, Cut, EmbedBatch, EmbedShort, EmbedRaises, Report, Crash, vars, dbVars
      <3>2. at' \notin {"chunks", "rowChunk"} \/ UNCHANGED vars
        BY <2>4 DEF CutRaises, Cut, EmbedBatch, EmbedShort, EmbedRaises, Report, Crash,
                    GiveUp, TryAgain, NextBatch
      <3>3. UNCHANGED vars => VectorFirst'
        BY DEF vars, batchVars, dbVars, VectorFirst, Batch
      <3> QED BY <3>1, <3>2, <3>3 DEF VectorFirst, VectorsBehindRows, Rows
    <2>5. CASE StoreVectors
      <3>1. /\ vectors \subseteq vectors' /\ UNCHANGED <<items, first, chunks, swallowed>>
            /\ \/ at' = "chunks" /\ Batch \subseteq vectors'
               \/ at' = "rowVector"
        BY <2>5 DEF StoreVectors, FallBack
      <3> QED BY <3>1 DEF VectorFirst, VectorsBehindRows, Rows, Batch
    <2>6. CASE StoreRowVector
      <3>1. /\ vectors \cup swallowed \cup {row} \subseteq vectors' \cup swallowed'
            /\ at' = "rowChunk" /\ UNCHANGED <<row, chunks>>
        BY <2>6 DEF StoreRowVector, batchVars
      <3> QED BY <3>1 DEF VectorFirst, VectorsBehindRows, Rows
    <2> QED BY <2>2, <2>3, <2>4, <2>5, <2>6 DEF Next, Work
  <1> QED BY <1>1, <1>2, Invariance, PTL DEF Spec

\* Chunk rows only come to a document.
LEMMA RowsGrow ==
  ASSUME Inv, [Next]_vars
  PROVE  Rows \subseteq Rows'
  <1>1. \A i \in Chunks : chunks[i] \in Nat BY DEF Inv, TypeOK
  <1>2. CASE \E S : Insert(S)
    <2>1. PICK S : Insert(S) BY <1>2
    <2>2. \A i \in Chunks : chunks'[i] \in {chunks[i], chunks[i] + 1} BY <2>1 DEF Insert
    <2> QED BY <1>1, <2>2 DEF Rows
  <1>3. CASE UNCHANGED chunks BY <1>3 DEF Rows
  <1>4. (\E S : Insert(S)) \/ UNCHANGED chunks
    BY DEF Next, Work, Crash, CutRaises, Cut, EmbedBatch, EmbedShort, EmbedRaises, StoreVectors,
           SaveBatch, StoreRowVector, SaveRow, Report, vars, dbVars
  <1> QED BY <1>2, <1>3, <1>4

\* The thread that reports has dealt with every chunk, so a document reported
\* complete is.
LEMMA CompleteMeansAll ==
  ASSUME Inv, Report, warning' = "none"
  PROVE  Rows = items
  <1>1. at = "embed" /\ Batch = {} /\ stored = Cardinality(items) BY DEF Report
  <1>2. stored = Cardinality(Rows) /\ Rows \subseteq items
    BY <1>1 DEF Inv, CountsAddUp, Dealt
  <1>3. IsFiniteSet(items) BY ChunksFinite DEF Inv, TypeOK
  <1> QED BY <1>1, <1>2, <1>3, FS_Subset

\* A document that lost chunks is visibly so: the thread implements the contract
\* build_index relies on.
THEOREM KeepsContract == Spec => ContractKept
  <1>1. Init => Contract!Init
    BY DEF Init, Contract!Init, Rows, Verdict
  <1>2. Inv /\ Inv' /\ [Next]_vars => [Contract!Next]_<<items, Rows, Verdict>>
    <2> SUFFICES ASSUME Inv, Inv', [Next]_vars
                 PROVE  Contract!Next \/ UNCHANGED <<items, Rows, Verdict>>
      OBVIOUS
    <2>1. Rows \subseteq Rows' BY RowsGrow
    <2>2. CASE Cut
      <3>1. at = "start" /\ at' = "embed" /\ UNCHANGED chunks BY <2>2 DEF Cut, dbVars
      <3>2. Rows = {} /\ Rows' = Rows
        BY <3>1 DEF Inv, InPlace, CountsAddUp, Dealt, Rows
      <3> QED BY <3>1, <3>2 DEF Contract!Next, Contract!Cut, Verdict
    <2>3. CASE Report
      <3>1. at = "embed" /\ at' = "done" /\ UNCHANGED <<items, chunks>>
        BY <2>3 DEF Report, dbVars
      <3>2. Rows' = Rows BY <3>1 DEF Rows
      <3>3. warning' = "none" => Rows = items BY <2>3, CompleteMeansAll
      <3> QED BY <3>1, <3>2, <3>3 DEF Contract!Next, Contract!Report, Verdict
    <2>4. CASE CutRaises
      <3>1. at = "start" /\ at' = "done" /\ warning' = "failed" /\ UNCHANGED <<items, chunks>>
        BY <2>4 DEF CutRaises, dbVars
      <3>2. Rows' = Rows BY <3>1 DEF Rows
      <3> QED BY <3>1, <3>2 DEF Contract!Next, Contract!Report, Verdict
    <2>5. CASE SaveBatch \/ SaveRow
      <3>1. at \notin {"done"} /\ at' \notin {"done", "dead"} /\ UNCHANGED items
        BY <2>5 DEF SaveBatch, SaveRow, NextBatch, FallBack
      <3>2. Rows' \subseteq items
        BY <3>1 DEF Inv, CountsAddUp, Dealt
      <3> QED BY <2>1, <3>1, <3>2 DEF Contract!Next, Contract!Write, Verdict
    <2>6. CASE \/ EmbedBatch \/ EmbedShort \/ EmbedRaises \/ StoreVectors \/ StoreRowVector
               \/ Crash \/ UNCHANGED vars
      <3>1. UNCHANGED <<items, chunks, Verdict>>
        BY <2>6 DEF EmbedBatch, EmbedShort, EmbedRaises, StoreVectors, StoreRowVector, Crash,
                    vars, dbVars, GiveUp, TryAgain, NextBatch, FallBack, Verdict
      <3> QED BY <3>1 DEF Rows
    <2> QED BY <2>2, <2>3, <2>4, <2>5, <2>6 DEF Next, Work
  <1> QED BY <1>1, <1>2, Invariance, PTL DEF Spec, ContractKept, Contract!Spec
=============================================================================
