--------------------------- MODULE MCItemListing ---------------------------
(* Two seeds of two names, and a create of a third. *)
EXTENDS ItemListing, TLC

CONSTANTS s1, s2, c1, alpha, beta, gamma

Work == s1 :> <<alpha, beta>> @@ s2 :> <<alpha, beta>> @@ c1 :> <<gamma>>

Interchangeable == Permutations({s1, s2})
=============================================================================
