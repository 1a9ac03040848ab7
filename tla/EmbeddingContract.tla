-------------------------- MODULE EmbeddingContract --------------------------
(***************************************************************************)
(* What build_index relies on when it marks a document verified or         *)
(* degraded from the warnings of _build_embeddings: chunk rows only ever   *)
(* come to the document, and a document that ends without a warning has    *)
(* all of its chunks.                                                      *)
(***************************************************************************)
VARIABLES
    wanted,   \* the chunks the document is cut into, once it is
    rows,     \* the chunks with a doc_chunks row
    verdict   \* "open", then "complete" or "warned"

Init ==
    /\ wanted = {}
    /\ rows = {}
    /\ verdict = "open"

\* The document is cut into chunks, any chunks, before one is written.
Cut ==
    /\ verdict = "open"
    /\ rows = {}
    /\ UNCHANGED <<rows, verdict>>

Write ==
    /\ verdict = "open"
    /\ rows \subseteq rows'
    /\ rows' \subseteq wanted
    /\ UNCHANGED <<wanted, verdict>>

Report ==
    /\ verdict = "open"
    /\ \/ rows = wanted /\ verdict' = "complete"
       \/ verdict' = "warned"
    /\ UNCHANGED <<wanted, rows>>

Next == Cut \/ Write \/ Report

Spec == Init /\ [][Next]_<<wanted, rows, verdict>>
=============================================================================
