----------------------------- MODULE MCRingBuf -----------------------------
(* The instance of RingBuf for TLC: one input thread and one main thread,  *)
(* as in the program; capacity 2, which may double once, to 4.              *)
EXTENDS RingBuf
=============================================================================
