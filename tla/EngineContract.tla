---------------------------- MODULE EngineContract ----------------------------
(***************************************************************************)
(* What the callers of QueryEngine.query rely on (core/api/routes/query.py *)
(* and QueryService): it reports its stages in order, at least two of them *)
(* before it answers, and it ends at most once, with an answer or an       *)
(* exception.                                                              *)
(***************************************************************************)
EXTENDS Naturals

VARIABLES
    stage,      \* how many of planning, retrieving, generating were reported
    outcome     \* "none" while it runs

Init == stage = 0 /\ outcome = "none"

Report ==
    /\ outcome = "none"
    /\ stage < 3
    /\ stage' = stage + 1
    /\ UNCHANGED outcome

Answer ==
    /\ outcome = "none"
    /\ stage >= 2
    /\ outcome' = "answered"
    /\ UNCHANGED stage

Raise ==
    /\ outcome = "none"
    /\ outcome' = "raised"
    /\ UNCHANGED stage

Next == Report \/ Answer \/ Raise

Spec == Init /\ [][Next]_<<stage, outcome>>
=============================================================================
