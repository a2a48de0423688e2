----------------------------- MODULE MCFbWindow -----------------------------
(* A window of 2 by 3 cells on documents that are as large or larger.      *)
EXTENDS FbWindow

D(w, h) == [w |-> w, h |-> h]

LargeDocuments == {D(2, 3), D(3, 5)}

\* One row or column, and a page.
RowsAndPages == {-3, -1, 1, 3}

Areas == {Box(0, 1, 1, 2), Box(1, 2, 3, 4)}
=============================================================================
