----------------------------- MODULE MCMainLoop -----------------------------
(* Two callbacks that may cancel, reschedule and restart each other, and a *)
(* clock of two ticks to the millisecond.                                  *)
EXTENDS MainLoop

\* Cancel, as soon as possible, later.
Intervals == {-1, 0, 1}
=============================================================================
