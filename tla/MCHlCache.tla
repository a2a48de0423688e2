----------------------------- MODULE MCHlCache ------------------------------
(* Two users.  MCRequests has every type, two modes of documents and an    *)
(* image that is not welcome; the runs over MCPages are for properties of  *)
(* whole behaviours, which need a smaller graph and no symmetry.           *)
EXTENDS HlCache, TLC

CONSTANTS image, sheet, page, other, no, full

MCTypes == (image :> "image") @@ (sheet :> "sheet") @@ (page :> "page") @@ (other :> "none")

Request(u, q, w) == [url |-> u, quirks |-> q, welcome |-> w]

MCRequests == {Request(image, no, TRUE), Request(image, no, FALSE), Request(page, no, TRUE),
               Request(sheet, no, TRUE), Request(sheet, full, TRUE), Request(other, no, TRUE)}

MCPages == {Request(page, no, TRUE), Request(sheet, no, TRUE)}

Symmetry == Permutations(Handles) \cup Permutations(Contents) \cup Permutations(Objects)
=============================================================================
