----------------------------- MODULE MCLlCache -----------------------------
(* Two users of one URL; handles and the users' names are symmetric.       *)
EXTENDS LlCache, TLC

Symmetry == Permutations(Users) \cup Permutations(Objects)
=============================================================================
