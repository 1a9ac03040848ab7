------------------------------ MODULE Embedding ------------------------------
(***************************************************************************)
(* Embedding and storing a document's chunks: the second half of           *)
(* _build_embeddings (core/ingestion/builder.py), with the writes of       *)
(* core/db/tenant_db.py it makes and the errors embed_batch                *)
(* (core/models/client.py) raises.                                         *)
(*                                                                         *)
(* The chunks, which Chunker.tla makes, are numbered in order.  They are   *)
(* embedded a batch at a time, up to three times.  The vectors and the     *)
(* chunk rows of a batch are written in two transactions; when either      *)
(* fails the batch is written again chunk by chunk.                        *)
(***************************************************************************)
EXTENDS Naturals, FiniteSets

CONSTANTS
    MaxItems,   \* bound on the number of chunks a document is cut into
    MaxChunks,  \* EMBEDDING_CONFIG["max_chunks_per_doc"]
    BatchSize   \* EMBEDDING_CONFIG["batch_size"]

ASSUME EmbeddingAssumption ==
    /\ MaxItems \in Nat
    /\ MaxChunks \in Nat
    /\ BatchSize \in Nat \ {0}

MaxAttempts == 3

\* EmbeddingError.kind: a payload the server refuses, a timeout, anything else.
Kinds == {"rejected", "timeout", "other"}
Buckets == Kinds \cup {"store"}

VARIABLES
    at,         \* where the thread is
    items,      \* the chunks that are kept
    first,      \* the first chunk of the batch
    attempt,    \* attempts made to embed the batch
    kind,       \* batch_fail_kind
    row,        \* the chunk that is written on its own
    vectors,    \* chunks with an l2_chunks row, keyed by page and chunk_idx
    chunks,     \* the number of doc_chunks rows of each chunk
    stored,     \* total_stored
    fails,      \* fail_counts
    warning,    \* what the warning returned says
    swallowed   \* history: chunks for which store_l2_chunk failed

batchVars == <<first, attempt, kind, row>>
dbVars    == <<vectors, chunks, swallowed>>
countVars == <<stored, fails>>
vars == <<at, items, batchVars, dbVars, countVars, warning>>

Chunks == 1..MaxItems
Places == {"start", "embed", "vectors", "chunks", "rowVector", "rowChunk", "done", "dead"}

\* The batch is what is left of the chunks from first on, at most BatchSize.
Batch == {i \in items : first <= i /\ i < first + BatchSize}

Init ==
    /\ at = "start"
    /\ items = {}
    /\ first = 1 /\ attempt = 0 /\ kind = "other" /\ row = 1
    /\ vectors = {}
    /\ chunks = [i \in Chunks |-> 0]
    /\ stored = 0
    /\ fails = [b \in Buckets |-> 0]
    /\ warning = "none"
    /\ swallowed = {}

-----------------------------------------------------------------------------

\* Reading the pages or cutting them raises: the outer handler.
CutRaises ==
    /\ at = "start"
    /\ at' = "done"
    /\ warning' = "failed"
    /\ UNCHANGED <<items, batchVars, dbVars, countVars>>

\* Chunks beyond the cap are dropped, which is only logged.  No chunk at all is
\* no reason to warn either.
Cut ==
    /\ at = "start"
    /\ \E made \in 0..MaxItems : items' = {i \in 1..made : i <= MaxChunks}
    /\ at' = "embed"
    /\ UNCHANGED <<batchVars, dbVars, countVars, warning>>

NextBatch ==
    /\ at' = "embed"
    /\ first' = first + BatchSize
    /\ attempt' = 0
    /\ kind' = "other"

\* embed_batch returns one embedding for each text.
EmbedBatch ==
    /\ at = "embed"
    /\ Batch # {}
    /\ at' = "vectors"
    /\ UNCHANGED <<items, batchVars, dbVars, countVars, warning>>

\* Mutant: a batch that is given up is not counted.
GiveUpUncounted(k) ==
    /\ NextBatch
    /\ UNCHANGED fails

\* The batch is skipped, and counted under its last failure.
GiveUp(k) ==
    /\ NextBatch
    /\ fails' = [fails EXCEPT ![k] = @ + Cardinality(Batch)]

\* It returns another number of embeddings: not an exception, so no retry, and
\* the kind is that of the attempt before.
EmbedShort ==
    /\ at = "embed"
    /\ Batch # {}
    /\ GiveUp(kind)
    /\ UNCHANGED <<items, row, dbVars, stored, warning>>

LastAttempt == attempt + 1 = MaxAttempts

\* Mutant: a failed attempt is not counted.
TryAgainUncounted(k) ==
    /\ kind' = k
    /\ UNCHANGED <<at, first, attempt, fails>>

TryAgain(k) ==
    /\ kind' = k
    /\ attempt' = attempt + 1
    /\ UNCHANGED <<at, first, fails>>

\* It raises: a rejected payload is given up at once, anything else after the
\* third attempt.
EmbedRaises ==
    /\ at = "embed"
    /\ Batch # {}
    /\ \E k \in Kinds :
         \/ /\ k = "rejected" \/ LastAttempt
            /\ GiveUp(k)
         \/ /\ k # "rejected" /\ ~LastAttempt
            /\ TryAgain(k)
    /\ UNCHANGED <<items, row, dbVars, stored, warning>>

-----------------------------------------------------------------------------

\* The batch is written again chunk by chunk.
FallBack ==
    /\ at' = "rowVector"
    /\ row' = first

\* Mutant: store_l2_chunks swallows its failure, as store_l2_chunk does.
StoreVectorsSwallowed ==
    /\ at = "vectors"
    /\ vectors' \in {vectors, vectors \cup Batch}
    /\ at' = "chunks"
    /\ UNCHANGED <<items, batchVars, chunks, swallowed, countVars, warning>>

\* store_l2_chunks: one transaction, INSERT OR REPLACE.
StoreVectors ==
    /\ at = "vectors"
    /\ \/ /\ vectors' = vectors \cup Batch
          /\ at' = "chunks"
          /\ UNCHANGED row
       \/ /\ FallBack
          /\ UNCHANGED vectors
    /\ UNCHANGED <<items, first, attempt, kind, chunks, swallowed, countVars, warning>>

Insert(S) == chunks' = [i \in Chunks |-> IF i \in S THEN chunks[i] + 1 ELSE chunks[i]]

\* save_chunks: one transaction, plain INSERTs into a table whose only key is
\* its row id.
SaveBatch ==
    /\ at = "chunks"
    /\ \/ /\ Insert(Batch)
          /\ stored' = stored + Cardinality(Batch)
          /\ NextBatch
          /\ UNCHANGED row
       \/ /\ FallBack
          /\ UNCHANGED <<first, attempt, kind, chunks, stored>>
    /\ UNCHANGED <<items, vectors, swallowed, fails, warning>>

\* store_l2_chunk, which logs its failure and returns.
StoreRowVector ==
    /\ at = "rowVector"
    /\ \/ /\ vectors' = vectors \cup {row}
          /\ UNCHANGED swallowed
       \/ /\ swallowed' = swallowed \cup {row}
          /\ UNCHANGED vectors
    /\ at' = "rowChunk"
    /\ UNCHANGED <<items, batchVars, chunks, countVars, warning>>

\* save_chunk, and on to the next chunk of the batch or the next batch.
SaveRow ==
    /\ at = "rowChunk"
    /\ \/ /\ Insert({row})
          /\ stored' = stored + 1
          /\ UNCHANGED fails
       \/ /\ fails' = [fails EXCEPT !["store"] = @ + 1]
          /\ UNCHANGED <<chunks, stored>>
    /\ \/ /\ row + 1 \in Batch
          /\ at' = "rowVector"
          /\ row' = row + 1
          /\ UNCHANGED <<first, attempt, kind>>
       \/ /\ row + 1 \notin Batch
          /\ NextBatch
          /\ UNCHANGED row
    /\ UNCHANGED <<items, vectors, swallowed, warning>>

\* Mutant: a document that kept some of its chunks is reported complete.
ReportNothingStored ==
    /\ at = "embed"
    /\ Batch = {}
    /\ at' = "done"
    /\ warning' = IF stored = 0 /\ items # {} THEN "lost" ELSE "none"
    /\ UNCHANGED <<items, batchVars, dbVars, countVars>>

\* The outcome is always reported.
Report ==
    /\ at = "embed"
    /\ Batch = {}
    /\ at' = "done"
    /\ warning' = IF stored = Cardinality(items) THEN "none" ELSE "lost"
    /\ UNCHANGED <<items, batchVars, dbVars, countVars>>

\* The process dies.
Crash ==
    /\ at \notin {"done", "dead"}
    /\ at' = "dead"
    /\ UNCHANGED <<items, batchVars, dbVars, countVars, warning>>

Work == CutRaises \/ Cut \/ EmbedBatch \/ EmbedShort \/ EmbedRaises \/ StoreVectors
        \/ SaveBatch \/ StoreRowVector \/ SaveRow \/ Report

Next == Work \/ Crash

Spec == Init /\ [][Next]_vars

\* The thread runs: every request has a timeout and every write returns.
FairSpec == Spec /\ WF_vars(Work)

-----------------------------------------------------------------------------
(* Properties.                                                             *)

TypeOK ==
    /\ at \in Places
    /\ items \subseteq Chunks
    /\ first \in Nat \ {0} /\ attempt \in 0..(MaxAttempts - 1)
    /\ kind \in Kinds /\ row \in Nat
    /\ vectors \subseteq Chunks /\ swallowed \subseteq Chunks
    /\ chunks \in [Chunks -> Nat]
    /\ stored \in Nat /\ fails \in [Buckets -> Nat]
    /\ warning \in {"none", "lost", "failed"}

Rows == {i \in Chunks : chunks[i] > 0}

\* A chunk whose batch failed half-way and is written a second time has one row
\* in doc_chunks all the same: save_chunks inserts all of a batch or none.
RowsOnce == \A i \in Chunks : chunks[i] <= 1

\* "LOST {lost} ({buckets})": the chunks dealt with so far are the stored ones,
\* each with its row, and those in exactly one bucket.
Reached == IF at \in {"rowVector", "rowChunk"} THEN row ELSE first
Dealt   == {i \in items : i < Reached}
Failed  == fails["rejected"] + fails["timeout"] + fails["other"] + fails["store"]

CountsAddUp ==
    at # "dead" =>
        /\ stored = Cardinality(Rows)
        /\ Rows \subseteq Dealt
        /\ stored + Failed = Cardinality(Dealt)

\* A chunk that can be found by its words can be found by its meaning: its row
\* stands next to its vector, unless store_l2_chunk failed for it.
VectorsBehindRows == Rows \subseteq vectors \cup swallowed

\* The inductive invariant: the chunks are numbered from one without a gap, the
\* thread is inside a batch where it writes one, and what it counts adds up.
InPlace ==
    /\ at = "start" => items = {} /\ first = 1
    /\ at \in {"vectors", "chunks"} => Batch # {}
    /\ at \in {"rowVector", "rowChunk"} => row \in Batch

Consecutive == \E k \in 0..MaxItems : items = 1..k

Inv == TypeOK /\ Consecutive /\ InPlace /\ RowsOnce /\ CountsAddUp

\* Every document is finished with, however often the embedding service fails.
Finishes == <>(at \in {"done", "dead"})

Verdict == IF at # "done" THEN "open"
           ELSE IF warning = "none" THEN "complete" ELSE "warned"

\* "a document that lost chunks must be loudly visible": what build_index
\* relies on.
Contract == INSTANCE EmbeddingContract WITH
    wanted <- items,
    rows <- Rows,
    verdict <- Verdict

ContractKept == Contract!Spec

\* What the comment above the report says of vectors; store_l2_chunk makes it
\* false.
NoVectorLostSilently == (at = "done" /\ warning = "none") => items \subseteq vectors
=============================================================================
