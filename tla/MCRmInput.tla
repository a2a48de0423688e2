----------------------------- MODULE MCRmInput -----------------------------
(* Two slots, the first of which may pass to another finger within a       *)
(* frame; three places, two of them within the jitter threshold of each    *)
(* other.                                                                  *)
EXTENDS RmInput
=============================================================================
