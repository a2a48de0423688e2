------------------------------ MODULE MCFetch ------------------------------
(* Three fetches for two objects; the first two are from one host.         *)
EXTENDS Fetch

Hosts == [f \in Fetches |-> IF f = 3 THEN "elsewhere" ELSE "here"]
=============================================================================
