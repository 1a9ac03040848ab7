------------------------------ MODULE PageText ------------------------------
(***************************************************************************)
(* The text of a page, as the parser, the builder and the chunker see it.  *)
(*                                                                         *)
(* A text is a sequence of lines; a line knows the page of the file and    *)
(* the line of that page it is read from, its kind, and the stretch of     *)
(* characters it holds.  Lines are joined by one newline each.  What the   *)
(* program or a model adds to a page is a line of page 0.                  *)
(***************************************************************************)
EXTENDS Integers, Folding

\* "cid" is a line of unmapped glyph codes, "echo" one of several equal long
\* lines of a page.  The last four are what the clean-up of a transcription
\* tells apart: a run of exact repetition and the stub that remains of one,
\* numbered lines that all say the same, and the line with a colon above them.
Kinds == {"plain", "heading", "row", "separator", "cid", "echo",
          "periods", "stub", "numbered", "lead"}
Line(page, no, kind, len) == [page |-> page, no |-> no, kind |-> kind, from |-> 0, to |-> len]
Added(kind, len) == Line(0, 0, kind, len)

\* The lines of these pages.
LinesOn(P) == [page : P, no : Nat, kind : Kinds, from : Int, to : Int]

LineLen(l) == l.to - l.from
Length(text) == IF text = <<>> THEN 0
                ELSE Fold(LAMBDA n, l : n + LineLen(l) + 1, 0, text) - 1
=============================================================================
