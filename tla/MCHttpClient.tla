---------------------------- MODULE MCHttpClient ----------------------------
(* Instances of HttpClient for TLC. *)
EXTENDS HttpClient, TLC
CONSTANTS get1, get2, post

\* The requests of one method are interchangeable.
Same == Permutations({get1, get2})
=============================================================================
