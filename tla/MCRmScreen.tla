----------------------------- MODULE MCRmScreen -----------------------------
(* A panel of 2 by 3 cells, its longer side vertical, and logical boxes    *)
(* that touch, overlap and cover each other in landscape.                  *)
EXTENDS RmScreen

B(x0, y0, x1, y1) == [x0 |-> x0, y0 |-> y0, x1 |-> x1, y1 |-> y1]

Below == -99

LandscapeBoxes == {B(0, 0, 1, 1), B(2, 1, 3, 2), B(0, 0, 3, 1)}
=============================================================================
