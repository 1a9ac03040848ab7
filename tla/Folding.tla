------------------------------ MODULE Folding ------------------------------
(***************************************************************************)
(* Folds whose accumulator is a value, which TLC computes once however     *)
(* often the folded operator uses it, and what is made of them.            *)
(***************************************************************************)
EXTENDS SequencesExt

\* F at x, with x evaluated first.
At(x, F(_)) == CHOOSE y \in {F(v) : v \in {x}} : TRUE

\* As a recursive function, which proofs can unfold.
Fold(op(_, _), base, s) ==
    LET after[i \in 0..Len(s)] ==
            IF i = 0 THEN base ELSE At(after[i - 1], LAMBDA a : op(a, s[i]))
    IN  after[Len(s)]

\* The elements of s at the positions in I, in order.
Keep(s, I) ==
    Fold(LAMBDA out, i : IF i \in I THEN Append(out, s[i]) ELSE out, <<>>, [i \in 1..Len(s) |-> i])

\* The elements of S in the order R of pairs, by insertion.
SortedBy(S, R) ==
    Fold(LAMBDA s, x : InsertAt(s, 1 + Cardinality({i \in DOMAIN s : <<s[i], x>> \in R}), x),
         <<>>, SetToSeq(S))
Sorted(S, before(_, _)) == SortedBy(S, {r \in S \X S : before(r[1], r[2])})
=============================================================================
