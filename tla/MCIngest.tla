------------------------------ MODULE MCIngest ------------------------------
(* Small instances of IngestPipeline.  fa and fb are the same bytes under two *)
(* names; fa and fc are different bytes with the same name, size, page count *)
(* and first pages, hence the same doc_id.                                   *)
EXTENDS IngestPipeline, TLC

MCFiles   == {"fa", "fb", "fc"}
MCHashes  == {"h1", "h2"}
MCDocIds  == {"d1", "d2"}
MCHashOf  == [f \in MCFiles |-> IF f = "fc" THEN "h2" ELSE "h1"]
MCDocIdOf == [f \in MCFiles |-> IF f = "fb" THEN "d2" ELSE "d1"]

UploadSymmetry == Permutations(Uploads)

\* One upload sends fa; the other the same file, its copy, or its namesake.  Up
\* to a renaming that leaves out only two files with nothing in common.
MCInit == Init /\ req[CHOOSE u \in Uploads : TRUE].file = "fa"
MCFairSpec == MCInit /\ [][Next]_vars /\ Fairness
=============================================================================
