---------------------------- MODULE SlidingWindow ----------------------------
(***************************************************************************)
(* What the rate limiter promises, free of its table: a key is admitted    *)
(* exactly if it was admitted fewer than Limit[key] times in the last      *)
(* Window instants.  A key's past may be forgotten only when more than Cap *)
(* keys were admitted within the window, and then the idlest ones are.     *)
(***************************************************************************)
EXTENDS Naturals, FiniteSets

CONSTANTS
    Keys,     \* callers, as the limiter tells them apart
    Limit,    \* admissions per window, for each key
    Window,   \* length of the window
    Cap,      \* number of keys whose past is always remembered
    MaxTime   \* bound on the clock

VARIABLES
    now,      \* the instant of the latest decision
    window,   \* for each key, when it was admitted within the window
    answer    \* the latest decision

swVars == <<now, window, answer>>

Within(S, t) == {s \in S : t - s < Window}

Busy(t) == {k \in Keys : Within(window[k], t) # {}}

Forgettable(F, t) ==
    F # {} => /\ Cardinality(Busy(t) \ F) = Cap
              /\ \A f \in F, b \in Busy(t) \ F :
                    \A s \in window[f] : \E r \in window[b] : s <= r

Init == /\ now = 0
        /\ window = [k \in Keys |-> {}]
        /\ answer = [key |-> CHOOSE k \in Keys : TRUE, ok |-> TRUE]

Decide(k, F, t) ==
    LET kept == [j \in Keys |-> IF j \in F THEN {} ELSE Within(window[j], t)]
        ok   == Cardinality(kept[k]) < Limit[k]
    IN  /\ answer' = [key |-> k, ok |-> ok]
        /\ window' = IF ok THEN [kept EXCEPT ![k] = @ \cup {t}] ELSE kept

Next == \E k \in Keys, t \in (now + 1)..MaxTime :
            /\ now' = t
            /\ \E F \in SUBSET Busy(t) : Forgettable(F, t) /\ Decide(k, F, t)

Spec == Init /\ [][Next]_swVars
=============================================================================
