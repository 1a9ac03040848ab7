--------------------------- MODULE MCModelClient ---------------------------
EXTENDS ModelClient, TLC

CONSTANTS c1, c2

\* A call whose caller is told more than the text, against one of the methods
\* that write the shared mirrors.
MCUses == c1 :> {"image", "strict"} @@ c2 :> {"text", "json"}
MCLengths == {12}
=============================================================================
