---------------------------- MODULE MCApiRollout ----------------------------
(* One good version and five that must not take over. *)
EXTENDS ApiRollout, TLC

CONSTANTS o1, o2, n1, n2, r1

Running == [environment |-> "production", secret_key |-> "strong", origins |-> <<"site">>,
            replica |-> TRUE, traced |-> TRUE, raises |-> "none", reaches |-> Dependency]

Candidates ==
  {[Running EXCEPT !.origins = <<"site", "", "site">>, !.replica = FALSE],
   [Running EXCEPT !.secret_key = "change-me"], [Running EXCEPT !.origins = <<"", "">>],
   [Running EXCEPT !.raises = "reader"], [Running EXCEPT !.reaches = {"db"}],
   [Running EXCEPT !.environment = "staging", !.secret_key = "short", !.reaches = {"redis"}]}

Interchangeable == Permutations(Old) \cup Permutations(New)
=============================================================================
