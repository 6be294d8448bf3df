------------------------- MODULE MCRequestPipeline -------------------------
(* Two requests of any of these kinds, at once. *)
EXTENDS RequestPipeline

CONSTANTS given

Good == [signed |-> TRUE, exp |-> "future", aud |-> "other", iss |-> "ours", sub |-> "user"]

Create == [route |-> "/api/v1/items", allowed |-> TRUE, preflight |-> FALSE, guards |-> <<"limit">>,
           token |-> NoToken, valid |-> TRUE, writes |-> TRUE, header |-> NoId, browser |-> TRUE]
\* As docs/guides/security.md:16-17 protects a route; called by another service.
Guarded == [Create EXCEPT !.guards = <<"auth", "limit">>, !.token = Good, !.header = given, !.browser = FALSE]
Get     == [Create EXCEPT !.route = "/api/v1/items/{item_id}", !.guards = <<>>, !.writes = FALSE, !.header = given]

Kinds ==
  {Create, Guarded, Get, [Create EXCEPT !.preflight = TRUE], [Create EXCEPT !.valid = FALSE],
   [Get EXCEPT !.route = "/nowhere"], [Get EXCEPT !.allowed = FALSE], [Get EXCEPT !.route = "/metrics"]}
  \cup {[Guarded EXCEPT !.token = t] :
          t \in {NoToken, [Good EXCEPT !.signed = FALSE], [Good EXCEPT !.exp = "past"],
                 [Good EXCEPT !.exp = "none"], [Good EXCEPT !.iss = "other"], [Good EXCEPT !.sub = "blank"]}}
=============================================================================
