----------------------- MODULE RequestPipelineProofs -----------------------
(***************************************************************************)
(* What an error tells its caller, what is counted and whose id is on an   *)
(* answer and in the log: for any number of requests of any kind at once.  *)
(***************************************************************************)
EXTENDS RequestPipeline, TLAPS

Functions ==
  /\ outer \in [Request -> {"idle", "waiting", "sent"}]
  /\ app \in [Request -> {"idle", "routing", "guards", "handler", "answered", "failed", "ended"}]
  /\ tx = [r \in Request |-> tx[r]]
  /\ offer = [r \in Request |-> offer[r]] /\ answer = [r \in Request |-> answer[r]]
  /\ rid = [r \in Request |-> rid[r]]
  /\ ctx = [r \in Request |-> ctx[r]] /\ inherited = [r \in Request |-> inherited[r]]
  /\ counted = [r \in Request |-> counted[r]] /\ client = [r \in Request |-> client[r]]

\* What the inner task may offer.
Offered(r, a) ==
  /\ a # NoAnswer /\ a.status \in 200..499
  /\ a.code # "internal_error" /\ a.id \in {NoId, rid[r]}

\* The inner task: nothing is offered before its last steps, a refusal ends it,
\* and only a success that was offered is committed.
InnerOf(r) ==
  /\ outer[r] = "idle" <=> app[r] = "idle"
  /\ app[r] \in {"idle", "routing", "guards", "handler"} => outer[r] # "sent" /\ offer[r] = NoAnswer
  /\ app[r] = "answered" => offer[r] # NoAnswer /\ offer[r].status = 200
  /\ app[r] = "failed" /\ offer[r] = NoAnswer => outer[r] = "waiting"
  /\ offer[r] = NoAnswer \/ Offered(r, offer[r])
  /\ offer[r] # NoAnswer /\ offer[r].status # 200 => app[r] = "ended"
  /\ tx[r] = "committed" => app[r] = "ended" /\ offer[r] # NoAnswer /\ offer[r].status = 200

\* The outer task: what is sent is what was offered, or the 500 of an exception,
\* and it is counted once.
OuterOf(r) ==
  /\ outer[r] = "sent" <=> answer[r] # NoAnswer
  /\ outer[r] = "sent" =>
       IF offer[r] = NoAnswer
       THEN /\ app[r] = "ended"
            /\ answer[r].status = 500 /\ answer[r].code = "internal_error"
            /\ answer[r].headerId = NoId /\ answer[r].bodyId = rid[r]
       ELSE /\ answer[r].status = offer[r].status /\ answer[r].code = offer[r].code
            /\ answer[r].headerId = rid[r] /\ answer[r].bodyId = offer[r].id
CountedOf(r) ==
  IF answer[r] = NoAnswer THEN counted[r] = <<>>
  ELSE \E path \in Template \cup {"__unmatched__"} : counted[r] = <<<<path, answer[r].status>>>>

ToldOf(r) == client[r].kind = "ApiError" => answer[r] # NoAnswer /\ answer[r].status >= 400

\* The two contexts of a request have its id while it waits, and the outer one
\* nothing after that.
ContextOf(r) ==
  /\ outer[r] = "waiting" => ctx[r] = rid[r] /\ inherited[r] = rid[r]
  /\ outer[r] = "sent" => ctx[r] = NoId

InvOf(r) == InnerOf(r) /\ OuterOf(r) /\ CountedOf(r) /\ ToldOf(r) /\ ContextOf(r)

LineOK(line) ==
  /\ line.of \in Request /\ outer[line.of] # "idle"
  /\ line.id = IF line.event = "unhandled_exception" THEN NoId ELSE rid[line.of]

IInv == Functions /\ (\A r \in Request : InvOf(r)) /\ (\A line \in log : LineOK(line))

-----------------------------------------------------------------------------
(* The stack and the answers. *)

\* The order that add_middleware makes of main.py's calls.
LEMMA Layers == create_app = <<"ServerError", "RequestContext", "Metrics", "CORS", "Exception">>
BY DEF create_app, Reverse

\* Whatever is answered inside the stack has been counted and given its id ...
LEMMA InsideIsSeen ==
  ASSUME NEW by \in {"CORS", "Exception"}
  PROVE  Passes(by, "Metrics") /\ Passes(by, "RequestContext")
<1>1. \E j \in 4..5 : create_app[j] = by
  BY Layers
<1>2. create_app[2] = "RequestContext" /\ create_app[3] = "Metrics" /\ DOMAIN create_app = 1..5
  BY Layers
<1>3. QED
  BY <1>1, <1>2 DEF Passes

\* ... and nothing that ServerErrorMiddleware answers has.
LEMMA OutsideIsNot == ~Passes("ServerError", "RequestContext")
<1>1. \A j \in DOMAIN create_app : create_app[j] = "ServerError" => j = 1
  BY Layers
<1>2. DOMAIN create_app = 1..5
  BY Layers
<1>3. QED
  BY <1>1, <1>2 DEF Passes

LEMMA Errors ==
  ASSUME NEW exc \in DOMAIN AppError
  PROVE  AppError[exc].status \in 400..499 /\ AppError[exc].code # "internal_error"
BY DEF AppError

\* An exception is answered with an error of the 400s, or left to ServerError.
LEMMA HandledIsError ==
  ASSUME NEW r \in Request, NEW exc
  PROVE  LET a == Handled(r, exc) IN
           a = NoAnswer \/ (Offered(r, a) /\ a.status >= 400)
<1>1. CASE exc \in DOMAIN AppError
  BY <1>1, Errors DEF Handled, handle_app_error, Problem, Offered, NoAnswer
<1>2. CASE exc \notin DOMAIN AppError
  BY <1>2 DEF Handled, handle_validation_error, Problem, external_HTTPException, Offered, NoAnswer
<1>3. QED
  BY <1>1, <1>2

-----------------------------------------------------------------------------
(* Every step keeps the invariant. *)

LEMMA InvInit == Init => IInv
BY DEF Init, IInv, Functions, InvOf, InnerOf, OuterOf, CountedOf, ToldOf, ContextOf, NoAnswer

\* A request of which nothing changes keeps its part.
LEMMA OthersKeep ==
  ASSUME NEW q \in Request, InvOf(q),
         app'[q] = app[q], outer'[q] = outer[q], tx'[q] = tx[q], offer'[q] = offer[q],
         answer'[q] = answer[q], rid'[q] = rid[q], ctx'[q] = ctx[q],
         inherited'[q] = inherited[q], counted'[q] = counted[q], client'[q] = client[q]
  PROVE  InvOf(q)'
BY DEF InvOf, InnerOf, Offered, OuterOf, CountedOf, ToldOf, ContextOf

\* Lines of the log stay right while ids stay and nobody goes back to idle.
LEMMA LinesKeep ==
  ASSUME \A line \in log : LineOK(line), rid' = rid,
         \A q \in Request : outer[q] # "idle" => outer'[q] # "idle"
  PROVE  \A line \in log : LineOK(line)'
BY DEF LineOK

\* An exception: nothing is committed, and what is offered is an error.
LEMMA InvRaise ==
  ASSUME IInv, NEW r \in Request, NEW exc, Raise(r, exc), UNCHANGED log,
         app[r] \in {"routing", "guards", "handler"}
  PROVE  IInv'
<1> USE DEF IInv, Functions, Raise, rollback, Goto
<1>1. outer[r] = "waiting" /\ offer[r] = NoAnswer /\ InvOf(r)
  BY DEF InvOf, InnerOf
<1>2. offer'[r] = NoAnswer \/ (Offered(r, offer'[r]) /\ offer'[r].status >= 400)
  BY HandledIsError
<1>3. Functions'
  OBVIOUS
<1>4. InvOf(r)'
  <2>1. /\ app'[r] = IF offer'[r] = NoAnswer THEN "failed" ELSE "ended"
        /\ tx'[r] = "closed" /\ outer'[r] = "waiting" /\ rid' = rid
    BY <1>1
  <2>2. InnerOf(r)'
    BY <1>2, <2>1 DEF InnerOf, Offered
  <2>3. (OuterOf(r) /\ CountedOf(r) /\ ToldOf(r) /\ ContextOf(r))'
    BY <1>1, <2>1 DEF InvOf, OuterOf, CountedOf, ToldOf, ContextOf
  <2>4. QED
    BY <2>2, <2>3 DEF InvOf
<1>5. \A q \in Request \ {r} : InvOf(q)'
  BY OthersKeep
<1>6. \A line \in log' : LineOK(line)'
  BY LinesKeep
<1>7. QED
  BY <1>3, <1>4, <1>5, <1>6

\* A step of the inner task of one request that leaves what is sent, counted and
\* logged alone.
LEMMA InvInner ==
  ASSUME IInv, NEW r \in Request,
         UNCHANGED <<outer, answer, rid, ctx, inherited, counted, client>>,
         Functions', InnerOf(r)', offer[r] = NoAnswer \/ offer'[r] = offer[r],
         outer[r] = "sent" => offer'[r] = offer[r] /\ (offer[r] = NoAnswer => app'[r] = "ended"),
         \A q \in Request \ {r} : app'[q] = app[q] /\ tx'[q] = tx[q] /\ offer'[q] = offer[q],
         \A line \in log' \ log : LineOK(line)
  PROVE  IInv'
<1>1. (OuterOf(r) /\ CountedOf(r) /\ ToldOf(r) /\ ContextOf(r))'
  BY DEF IInv, InvOf, InnerOf, OuterOf, CountedOf, ToldOf, ContextOf
<1>2. InvOf(r)'
  BY <1>1 DEF InvOf
<1>3. \A q \in Request \ {r} : InvOf(q)'
  BY OthersKeep DEF IInv
<1>4. \A line \in log' : LineOK(line)'
  BY DEF IInv, LineOK
<1>5. QED
  BY <1>2, <1>3, <1>4 DEF IInv

LEMMA InvRoute ==
  ASSUME IInv, NEW r \in Request, Route(r)
  PROVE  IInv'
<1>1. app[r] = "routing" /\ UNCHANGED log
  BY DEF Route, At
<1>2. outer[r] = "waiting" /\ offer[r] = NoAnswer /\ InnerOf(r) /\ Functions
  BY <1>1 DEF IInv, Functions, InvOf, InnerOf
<1>3. CASE Raise(r, "HTTPException")
  BY <1>1, <1>3, InvRaise
<1>4. CASE /\ offer' = [offer EXCEPT ![r] = [status |-> 200, code |-> "ok", id |-> NoId]]
           /\ Goto(r, "ended")
           /\ UNCHANGED <<ask, outer, guards, tx, answer, rid, ctx, inherited, counted, client>>
  <2>1. Functions' /\ offer'[r] = [status |-> 200, code |-> "ok", id |-> NoId] /\ app'[r] = "ended"
    BY <1>2, <1>4 DEF Functions, Goto
  <2>2. InnerOf(r)'
    BY <1>2, <1>4, <2>1 DEF InnerOf, Offered, NoAnswer
  <2>3. \A q \in Request \ {r} : app'[q] = app[q] /\ tx'[q] = tx[q] /\ offer'[q] = offer[q]
    BY <1>2, <1>4 DEF Functions, Goto
  <2>4. QED
    BY <1>1, <1>2, <1>4, <2>1, <2>2, <2>3, InvInner
<1>5. CASE /\ Goto(r, "guards")
           /\ UNCHANGED <<ask, outer, guards, tx, offer, answer, rid, ctx, inherited, counted, client>>
  <2>1. Functions' /\ app'[r] = "guards"
    BY <1>2, <1>5 DEF Functions, Goto
  <2>2. InnerOf(r)'
    BY <1>1, <1>2, <1>5, <2>1 DEF InnerOf, Offered
  <2>3. \A q \in Request \ {r} : app'[q] = app[q] /\ tx'[q] = tx[q] /\ offer'[q] = offer[q]
    BY <1>2, <1>5 DEF Functions, Goto
  <2>4. QED
    BY <1>1, <1>2, <1>5, <2>1, <2>2, <2>3, InvInner
<1>6. QED
  BY <1>3, <1>4, <1>5 DEF Route

\* A guard that lets the request pass, with a line in the log or without.
LEMMA InvPass ==
  ASSUME IInv, NEW r \in Request, At(r, "guards"), Pass(r),
         UNCHANGED log \/ log' = log \cup {Line(r, "rate_limit.cache_unavailable", inherited[r])}
  PROVE  IInv'
<1>1. outer[r] = "waiting" /\ offer[r] = NoAnswer /\ InnerOf(r) /\ inherited[r] = rid[r]
  BY DEF IInv, Functions, InvOf, InnerOf, ContextOf, At
<1>2. Functions' /\ InnerOf(r)'
  BY <1>1 DEF IInv, Functions, Pass, InnerOf, Offered
<1>3. LineOK(Line(r, "rate_limit.cache_unavailable", inherited[r]))
  BY <1>1 DEF LineOK, Line
<1>4. \A line \in log' \ log : LineOK(line)
  BY <1>3
<1>5. QED
  BY <1>1, <1>2, <1>4, InvInner DEF Pass

LEMMA InvGuards ==
  ASSUME IInv, NEW r \in Request, rate_limit(r) \/ get_current_subject(r) \/ Call(r)
  PROVE  IInv'
<1>1. At(r, "guards") /\ app[r] = "guards"
  BY DEF rate_limit, get_current_subject, Call, At
<1>2. CASE rate_limit(r)
  BY <1>1, <1>2, InvPass, InvRaise DEF rate_limit
<1>3. CASE get_current_subject(r)
  BY <1>1, <1>3, InvPass, InvRaise DEF get_current_subject
<1>4. CASE Call(r)
  <2>1. CASE Raise(r, "RequestValidationError")
    BY <1>1, <1>4, <2>1, InvRaise DEF Call
  <2>2. CASE ~Raise(r, "RequestValidationError")
    <3>1. /\ tx' = [tx EXCEPT ![r] = "open"] /\ Goto(r, "handler") /\ UNCHANGED log
          /\ UNCHANGED <<ask, outer, guards, offer, answer, rid, ctx, inherited, counted, client>>
      BY <1>4, <2>2 DEF Call
    <3>2. outer[r] = "waiting" /\ offer[r] = NoAnswer /\ InnerOf(r) /\ Functions
      BY <1>1 DEF IInv, Functions, InvOf, InnerOf
    <3>3. Functions' /\ app'[r] = "handler" /\ tx'[r] = "open"
      BY <3>1, <3>2 DEF Functions, Goto
    <3>4. InnerOf(r)'
      BY <3>1, <3>2, <3>3 DEF InnerOf, Offered
    <3>5. \A q \in Request \ {r} : app'[q] = app[q] /\ tx'[q] = tx[q] /\ offer'[q] = offer[q]
      BY <3>1, <3>2 DEF Functions, Goto
    <3>6. QED
      BY <3>1, <3>2, <3>3, <3>4, <3>5, InvInner
  <2>3. QED
    BY <2>1, <2>2
<1>5. QED
  BY <1>2, <1>3, <1>4

LEMMA InvHandler ==
  ASSUME IInv, NEW r \in Request, Work(r) \/ HandlerReturns(r)
  PROVE  IInv'
<1>1. app[r] = "handler" /\ UNCHANGED log
  BY DEF Work, HandlerReturns, At
<1>2. outer[r] = "waiting" /\ offer[r] = NoAnswer /\ InnerOf(r) /\ Functions
  BY <1>1 DEF IInv, Functions, InvOf, InnerOf
<1>3. CASE Work(r)
  <2>1. Functions' /\ tx'[r] = "dirty"
    BY <1>2, <1>3 DEF Functions, Work
  <2>2. InnerOf(r)'
    BY <1>1, <1>2, <1>3, <2>1 DEF InnerOf, Offered, Work
  <2>3. \A q \in Request \ {r} : app'[q] = app[q] /\ tx'[q] = tx[q] /\ offer'[q] = offer[q]
    BY <1>2, <1>3 DEF Functions, Work
  <2>4. QED
    BY <1>1, <1>2, <1>3, <2>1, <2>2, <2>3, InvInner DEF Work
<1>4. CASE HandlerReturns(r)
  <2>1. /\ Functions' /\ app'[r] = "answered" /\ tx' = tx
        /\ offer'[r] = [status |-> 200, code |-> "ok", id |-> NoId]
    BY <1>2, <1>4 DEF Functions, HandlerReturns, Goto
  <2>2. InnerOf(r)'
    BY <1>1, <1>2, <1>4, <2>1 DEF InnerOf, Offered, HandlerReturns, NoAnswer
  <2>3. \A q \in Request \ {r} : app'[q] = app[q] /\ tx'[q] = tx[q] /\ offer'[q] = offer[q]
    BY <1>2, <1>4 DEF Functions, HandlerReturns, Goto
  <2>4. QED
    BY <1>1, <1>2, <1>4, <2>1, <2>2, <2>3, InvInner DEF HandlerReturns
<1>5. QED
  BY <1>3, <1>4

\* The commit, or its failure, comes after a success was offered.
LEMMA InvCommit ==
  ASSUME IInv, NEW r \in Request, Commit(r) \/ CommitFails(r)
  PROVE  IInv'
<1>1. /\ app[r] = "answered" /\ app'[r] \in {"ended", "failed"}
      /\ UNCHANGED <<outer, offer, answer, rid, ctx, inherited, counted, log, client>>
  BY DEF IInv, Functions, Commit, CommitFails, At, Goto
<1>2. /\ outer[r] # "idle" /\ offer[r] # NoAnswer /\ offer[r].status = 200 /\ Offered(r, offer[r])
  BY <1>1 DEF IInv, Functions, InvOf, InnerOf
<1>3. Functions'
  BY DEF IInv, Functions, Commit, CommitFails, rollback, Goto
<1>4. tx'[r] = "committed" => app'[r] = "ended"
  BY DEF IInv, Functions, Commit, CommitFails, rollback, Goto
<1>5. InnerOf(r)'
  BY <1>1, <1>2, <1>4 DEF InnerOf, Offered
<1>6. \A q \in Request \ {r} : app'[q] = app[q] /\ tx'[q] = tx[q] /\ offer'[q] = offer[q]
  BY DEF IInv, Functions, Commit, CommitFails, rollback, Goto
<1>7. QED
  BY <1>1, <1>2, <1>3, <1>5, <1>6, InvInner

\* A request enters: its id is known to both of its contexts.
LEMMA InvEnter ==
  ASSUME IInv, NEW r \in Request, Enter(r)
  PROVE  IInv'
<1>1. /\ outer[r] = "idle" /\ app[r] = "idle" /\ offer[r] = NoAnswer /\ answer[r] = NoAnswer
      /\ InnerOf(r) /\ CountedOf(r) /\ Functions
  BY DEF IInv, Functions, InvOf, InnerOf, OuterOf, Enter
<1>2. Functions'
  BY <1>1 DEF Functions, Enter, Goto, bind_request_id
<1>3. /\ outer'[r] = "waiting" /\ app'[r] = "routing" /\ ctx'[r] = rid'[r] /\ inherited'[r] = rid'[r]
      /\ client'[r].kind = "waiting"
      /\ UNCHANGED <<tx, offer, answer, counted, log>>
  BY <1>1 DEF Functions, Enter, Goto, bind_request_id
<1>4. InnerOf(r)'
  BY <1>1, <1>3 DEF InnerOf, Offered
<1>5. (OuterOf(r) /\ CountedOf(r) /\ ToldOf(r) /\ ContextOf(r))'
  BY <1>1, <1>3 DEF OuterOf, CountedOf, ToldOf, ContextOf
<1>6. ASSUME NEW q \in Request \ {r}
      PROVE  /\ app'[q] = app[q] /\ outer'[q] = outer[q] /\ rid'[q] = rid[q] /\ ctx'[q] = ctx[q]
             /\ inherited'[q] = inherited[q] /\ client'[q] = client[q]
  BY <1>1 DEF Functions, Enter, Goto, bind_request_id
<1>7. \A q \in Request \ {r} : InvOf(q)'
  BY <1>3, <1>6, OthersKeep DEF IInv
<1>8. \A line \in log' : LineOK(line)'
  BY <1>1, <1>3, <1>6 DEF IInv, LineOK
<1>9. QED
  BY <1>2, <1>4, <1>5, <1>7, <1>8 DEF IInv, InvOf

\* Counting an answer of a layer that the metrics see adds the one sample.
LEMMA Counts ==
  ASSUME NEW r \in Request, NEW status, NEW by \in {"CORS", "Exception", "ServerError"},
         counted = [q \in Request |-> counted[q]], counted[r] = <<>>,
         dispatch_metrics(r, status, by)
  PROVE  /\ counted' = [q \in Request |-> counted'[q]]
         /\ \A q \in Request \ {r} : counted'[q] = counted[q]
         /\ \E path \in Template \cup {"__unmatched__"} : counted'[r] = <<<<path, status>>>>
<1>1. counted' = [counted EXCEPT ![r] = Append(@, <<_route_template(r), status>>)]
  BY InsideIsSeen DEF dispatch_metrics
<1>2. _route_template(r) \in Template \cup {"__unmatched__"}
  BY DEF _route_template
<1>3. counted'[r] = <<<<_route_template(r), status>>>>
  <2>1. counted'[r] = Append(counted[r], <<_route_template(r), status>>)
    BY <1>1
  <2>2. QED
    BY <2>1
<1>4. QED
  BY <1>1, <1>2, <1>3

\* The answer of a layer inside RequestContext is sent with the request's id.
LEMMA InvRelay ==
  ASSUME IInv, NEW r \in Request, Relay(r)
  PROVE  IInv'
<1>1. /\ outer[r] = "waiting" /\ offer[r] # NoAnswer /\ answer[r] = NoAnswer /\ counted[r] = <<>>
      /\ InnerOf(r) /\ ToldOf(r) /\ ContextOf(r) /\ Functions
  BY DEF IInv, Functions, InvOf, InnerOf, OuterOf, CountedOf, Relay
<1>2. By(r) \in {"CORS", "Exception"}
  BY DEF By
<1>3. /\ counted' = [q \in Request |-> counted'[q]]
      /\ \A q \in Request \ {r} : counted'[q] = counted[q]
      /\ \E path \in Template \cup {"__unmatched__"} : counted'[r] = <<<<path, offer[r].status>>>>
  BY <1>1, <1>2, Counts DEF Functions, Relay
<1>4. Sent(r, offer[r], By(r)).headerId = rid[r]
  BY <1>2, InsideIsSeen DEF Sent
<1>5. /\ outer'[r] = "sent" /\ ctx'[r] = NoId /\ answer'[r] = Sent(r, offer[r], By(r))
      /\ UNCHANGED <<app, tx, offer, rid, inherited, client>>
  BY <1>1 DEF Functions, Relay, clear_request_context
<1>6. Functions'
  BY <1>1, <1>3 DEF Functions, Relay, clear_request_context
<1>7. /\ answer'[r].status = offer[r].status /\ answer'[r].code = offer[r].code
      /\ answer'[r].headerId = rid[r] /\ answer'[r].bodyId = offer[r].id /\ answer'[r] # NoAnswer
  BY <1>4, <1>5 DEF Sent, NoAnswer
<1>8. InnerOf(r)'
  BY <1>1, <1>5 DEF InnerOf, Offered
<1>9. (OuterOf(r) /\ CountedOf(r) /\ ContextOf(r))'
  BY <1>1, <1>3, <1>5, <1>7 DEF OuterOf, CountedOf, ContextOf
<1>10. ToldOf(r)'
  BY <1>1, <1>5 DEF ToldOf
<1>11. \A q \in Request \ {r} : outer'[q] = outer[q] /\ ctx'[q] = ctx[q] /\ answer'[q] = answer[q]
  BY <1>1 DEF Functions, Relay, clear_request_context
<1>12. \A q \in Request \ {r} : InvOf(q)'
  BY <1>3, <1>5, <1>11, OthersKeep DEF IInv
<1>13. log' = log \cup {Line(r, "request.handled", rid[r])}
  BY <1>1 DEF Relay, ContextOf
<1>14. LineOK(Line(r, "request.handled", rid[r]))'
  BY <1>5 DEF LineOK, Line
<1>15. \A q \in Request : outer[q] # "idle" => outer'[q] # "idle"
  BY <1>5, <1>11
<1>16. \A line \in log' : LineOK(line)'
  BY <1>5, <1>13, <1>14, <1>15, LinesKeep DEF IInv
<1>17. QED
  BY <1>6, <1>8, <1>9, <1>10, <1>12, <1>16 DEF IInv, InvOf

\* An exception for which nobody is registered, before anything was sent.
LEMMA InvFail ==
  ASSUME IInv, NEW r \in Request, Fail(r)
  PROVE  IInv'
<1>1. /\ outer[r] = "waiting" /\ app[r] = "failed" /\ offer[r] = NoAnswer /\ answer[r] = NoAnswer
      /\ counted[r] = <<>> /\ InnerOf(r) /\ ToldOf(r) /\ ContextOf(r) /\ Functions
  BY DEF IInv, Functions, InvOf, InnerOf, OuterOf, CountedOf, Fail, At
<1>2. /\ counted' = [q \in Request |-> counted'[q]]
      /\ \A q \in Request \ {r} : counted'[q] = counted[q]
      /\ \E path \in Template \cup {"__unmatched__"} : counted'[r] = <<<<path, 500>>>>
  BY <1>1, Counts DEF Functions, Fail
<1>3. /\ outer'[r] = "sent" /\ app'[r] = "ended" /\ ctx'[r] = NoId
      /\ answer'[r] = Sent(r, handle_unexpected(r), "ServerError")
      /\ UNCHANGED <<tx, offer, rid, inherited, client>>
  BY <1>1 DEF Functions, Fail, clear_request_context, Goto
<1>4. Functions'
  <2>1. /\ app' = [app EXCEPT ![r] = "ended"] /\ outer' = [outer EXCEPT ![r] = "sent"]
        /\ ctx' = [ctx EXCEPT ![r] = NoId] /\ UNCHANGED <<tx, offer, rid, inherited, client>>
        /\ answer' = [answer EXCEPT ![r] = Sent(r, handle_unexpected(r), "ServerError")]
    BY DEF Fail, clear_request_context, Goto
  <2>2. /\ outer' \in [Request -> {"idle", "waiting", "sent"}]
        /\ app' \in [Request -> {"idle", "routing", "guards", "handler", "answered", "failed", "ended"}]
    BY <1>1, <2>1 DEF Functions
  <2>3. ctx' = [q \in Request |-> ctx'[q]] /\ answer' = [q \in Request |-> answer'[q]]
    BY <1>1, <2>1 DEF Functions
  <2>4. QED
    BY <1>1, <1>2, <2>1, <2>2, <2>3 DEF Functions
<1>5. /\ answer'[r].status = 500 /\ answer'[r].code = "internal_error"
      /\ answer'[r].headerId = NoId /\ answer'[r].bodyId = rid[r] /\ answer'[r] # NoAnswer
  BY <1>3, OutsideIsNot DEF Sent, handle_unexpected, Problem, NoAnswer
<1>6. InnerOf(r)'
  BY <1>1, <1>3 DEF InnerOf, Offered
<1>7. (OuterOf(r) /\ CountedOf(r) /\ ContextOf(r))'
  BY <1>1, <1>2, <1>3, <1>5 DEF OuterOf, CountedOf, ContextOf
<1>8. ToldOf(r)'
  BY <1>1, <1>3 DEF ToldOf
<1>9. \A q \in Request \ {r} :
        app'[q] = app[q] /\ outer'[q] = outer[q] /\ ctx'[q] = ctx[q] /\ answer'[q] = answer[q]
  BY <1>1 DEF Functions, Fail, clear_request_context, Goto
<1>10. \A q \in Request \ {r} : InvOf(q)'
  BY <1>2, <1>3, <1>9, OthersKeep DEF IInv
<1>11. log' = log \cup {Line(r, "request.failed", rid[r]), Line(r, "unhandled_exception", NoId)}
  BY <1>1, <1>3 DEF Fail, ContextOf
<1>12. LineOK(Line(r, "request.failed", rid[r]))' /\ LineOK(Line(r, "unhandled_exception", NoId))'
  BY <1>3 DEF LineOK, Line
<1>13. \A q \in Request : outer[q] # "idle" => outer'[q] # "idle"
  BY <1>3, <1>9
<1>14. \A line \in log' : LineOK(line)'
  BY <1>3, <1>11, <1>12, <1>13, LinesKeep DEF IInv
<1>15. QED
  BY <1>4, <1>6, <1>7, <1>8, <1>10, <1>14 DEF IInv, InvOf

\* A commit that fails when the answer is sent changes nothing of it.
LEMMA InvFailLate ==
  ASSUME IInv, NEW r \in Request, FailLate(r)
  PROVE  IInv'
<1>1. /\ outer[r] = "sent" /\ app[r] = "failed" /\ ctx[r] = NoId /\ InnerOf(r) /\ Functions
      /\ UNCHANGED <<outer, tx, offer, answer, rid, ctx, inherited, counted, client>>
  BY DEF IInv, InvOf, ContextOf, FailLate, At
<1>2. Functions' /\ app'[r] = "ended" /\ \A q \in Request \ {r} : app'[q] = app[q]
  BY <1>1 DEF Functions, FailLate, Goto
<1>3. InnerOf(r)'
  BY <1>1, <1>2 DEF InnerOf, Offered
<1>4. LineOK(Line(r, "unhandled_exception", ctx[r]))
  BY <1>1 DEF LineOK, Line
<1>5. \A line \in log' \ log : LineOK(line)
  BY <1>4 DEF FailLate
<1>6. QED
  BY <1>1, <1>2, <1>3, <1>5, InvInner

\* apiFetch only reads what was sent.
LEMMA InvClient ==
  ASSUME IInv, NEW r \in Request, apiFetch(r) \/ Hidden(r) \/ abort(r)
  PROVE  IInv'
<1>1. PICK outcome : /\ Settle(r, outcome)
                     /\ outcome.kind = "ApiError" => answer[r] # NoAnswer /\ answer[r].status >= 400
  <2>1. CASE apiFetch(r)
    <3>1. CASE answer[r].status < 400 /\ Settle(r, [kind |-> "result"])
      BY <3>1
    <3>2. CASE answer[r].status >= 400 /\ \E code \in {answer[r].code, "error"} : Settle(r, ApiError(r, code))
      BY <2>1, <3>2 DEF apiFetch, ApiError
    <3>3. QED
      BY <2>1, <3>1, <3>2 DEF apiFetch
  <2>2. CASE Hidden(r)
    BY <2>2 DEF Hidden
  <2>3. CASE abort(r)
    BY <2>3 DEF abort
  <2>4. QED
    BY <2>1, <2>2, <2>3
<1>2. UNCHANGED <<outer, app, tx, offer, answer, rid, ctx, inherited, counted, log>>
  BY <1>1 DEF Settle, server
<1>3. client'[r] = outcome /\ Functions' /\ \A q \in Request \ {r} : client'[q] = client[q]
  BY <1>1, <1>2 DEF IInv, Functions, Settle
<1>4. (InnerOf(r) /\ OuterOf(r) /\ CountedOf(r) /\ ContextOf(r))'
  BY <1>2 DEF IInv, InvOf, InnerOf, Offered, OuterOf, CountedOf, ContextOf
<1>5. ToldOf(r)'
  BY <1>1, <1>2, <1>3 DEF ToldOf
<1>6. \A q \in Request \ {r} : InvOf(q)'
  BY <1>2, <1>3, OthersKeep DEF IInv
<1>7. \A line \in log' : LineOK(line)'
  BY <1>2, LinesKeep DEF IInv
<1>8. QED
  BY <1>3, <1>4, <1>5, <1>6, <1>7 DEF IInv, InvOf

LEMMA InvNext == IInv /\ [Next]_vars => IInv'
<1> SUFFICES ASSUME IInv, [Next]_vars
             PROVE  IInv'
  OBVIOUS
<1>1. CASE UNCHANGED vars
  <2>1. UNCHANGED <<outer, app, tx, offer, answer, rid, ctx, inherited, counted, log, client>>
    BY <1>1 DEF vars, server
  <2>2. Functions'
    BY <2>1 DEF IInv, Functions
  <2>3. (\A q \in Request : InvOf(q)') /\ \A line \in log' : LineOK(line)'
    BY <2>1, OthersKeep, LinesKeep DEF IInv
  <2>4. QED
    BY <2>2, <2>3 DEF IInv
<1>2. ASSUME NEW r \in Request, Enter(r) \/ Relay(r) \/ Fail(r) \/ FailLate(r)
      PROVE  IInv'
  BY <1>2, InvEnter, InvRelay, InvFail, InvFailLate
<1>3. ASSUME NEW r \in Request,
             Route(r) \/ rate_limit(r) \/ get_current_subject(r) \/ Call(r)
      PROVE  IInv'
  BY <1>3, InvRoute, InvGuards
<1>4. ASSUME NEW r \in Request, HandlerRaises(r)
      PROVE  IInv'
  BY <1>4, InvRaise DEF HandlerRaises, At
<1>5. ASSUME NEW r \in Request, Work(r) \/ HandlerReturns(r) \/ Commit(r) \/ CommitFails(r)
      PROVE  IInv'
  BY <1>5, InvHandler, InvCommit
<1>6. ASSUME NEW r \in Request, apiFetch(r) \/ Hidden(r) \/ abort(r)
      PROVE  IInv'
  BY <1>6, InvClient
<1>7. QED
  BY <1>1, <1>2, <1>3, <1>4, <1>5, <1>6 DEF Next, Finished

LEMMA Invariance == Spec => []IInv
BY InvInit, InvNext, PTL DEF Spec

-----------------------------------------------------------------------------
(* What the invariant says to callers and operators. *)

\* An error that apiFetch reports means that the transaction was not committed:
\* an error is answered either by ServerErrorMiddleware, after the session was
\* rolled back, or by a handler inside the stack, after the inner task ended.
THEOREM ErrorsWriteNothing == Spec => []ApiErrorMeansNothingWritten
<1>1. IInv => ApiErrorMeansNothingWritten
  <2> SUFFICES ASSUME IInv, NEW r \in Request, client[r].kind = "ApiError"
               PROVE  tx[r] # "committed"
    BY DEF ApiErrorMeansNothingWritten
  <2>1. answer[r] # NoAnswer /\ answer[r].status >= 400
    BY DEF IInv, InvOf, ToldOf
  <2>2. offer[r] = NoAnswer \/ offer[r].status = answer[r].status
    BY <2>1 DEF IInv, InvOf, OuterOf
  <2>3. QED
    BY <2>1, <2>2 DEF IInv, InvOf, InnerOf
<1>2. QED
  BY <1>1, Invariance, PTL

\* Every request whose answer is sent is counted once, under that answer's
\* status and a template of the router's.
THEOREM AnswersAreCounted == Spec => []CountedAsAnswered
<1>1. IInv => CountedAsAnswered
  BY DEF IInv, InvOf, CountedOf, CountedAsAnswered
<1>2. QED
  BY <1>1, Invariance, PTL

\* Nothing that a request's client or its operator reads has another request's
\* id, and all of it has its own, but for what becomes of an unexpected exception.
THEOREM IdsAreOwn == Spec => []OwnIdOnly
<1>1. IInv => OwnIdOnly
  <2> SUFFICES ASSUME IInv PROVE OwnIdOnly
    OBVIOUS
  <2>1. ASSUME NEW r \in Request, answer[r] # NoAnswer
        PROVE  TellsOwnId(r)
    <3>1. InnerOf(r) /\ OuterOf(r) /\ outer[r] = "sent"
      BY <2>1 DEF IInv, InvOf, OuterOf
    <3>2. CASE offer[r] = NoAnswer
      BY <3>1, <3>2 DEF OuterOf, TellsOwnId
    <3>3. CASE offer[r] # NoAnswer
      <4>1. offer[r].id \in {NoId, rid[r]} /\ offer[r].code # "internal_error"
        BY <3>1, <3>3 DEF InnerOf, Offered
      <4>2. /\ answer[r].headerId = rid[r] /\ answer[r].bodyId = offer[r].id
            /\ answer[r].code = offer[r].code
        BY <3>1, <3>3 DEF OuterOf
      <4>3. QED
        BY <4>1, <4>2 DEF TellsOwnId
    <3>4. QED
      BY <3>2, <3>3
  <2>2. ASSUME NEW line \in log PROVE HasOwnId(line)
    BY DEF IInv, LineOK, HasOwnId
  <2>3. QED
    BY <2>1, <2>2 DEF OwnIdOnly
<1>2. QED
  BY <1>1, Invariance, PTL

-----------------------------------------------------------------------------
(* Types. *)

Ids == Id \cup {NoId} \cup {Fresh(r) : r \in Request}

Transaction == {"none", "open", "dirty", "committed", "closed"}

\* An answer has one of the codes there are, and its ids are ids.
Parts ==
  /\ ask \in [Request -> Ask] /\ tx \in [Request -> Transaction]
  /\ \A r \in Request :
       /\ rid[r] \in Ids
       /\ offer[r] = NoAnswer \/ offer[r].code \in Codes
       /\ answer[r] \in Answers \cup {NoAnswer}

LEMMA PartsInit == Init => Parts
BY DEF Init, Parts, Transaction, Ids

\* An exception is answered under one of the codes there are.
LEMMA PartsRaise == ASSUME IInv, Parts, NEW r \in Request, NEW exc, Raise(r, exc) PROVE Parts'
<1>1. \A e \in DOMAIN AppError : AppError[e].code \in Codes
  BY DEF AppError, Codes
<1>2. Handled(r, exc) = NoAnswer \/ Handled(r, exc).code \in Codes
  <2>1. CASE exc \in DOMAIN AppError
    BY <1>1, <2>1 DEF Handled, handle_app_error, Problem
  <2>2. CASE exc \notin DOMAIN AppError
    BY <2>2 DEF Handled, handle_validation_error, Problem, external_HTTPException, Codes
  <2>3. QED
    BY <2>1, <2>2
<1>3. /\ offer' = [offer EXCEPT ![r] = Handled(r, exc)] /\ tx' = [tx EXCEPT ![r] = "closed"]
      /\ UNCHANGED <<ask, answer, rid>>
  BY DEF Raise, rollback
<1>4. \A q \in Request : offer'[q] = NoAnswer \/ offer'[q].code \in Codes
  BY <1>2, <1>3 DEF IInv, Functions, Parts
<1>5. QED
  BY <1>3, <1>4 DEF Parts, Transaction

\* The other steps of the inner task.
LEMMA PartsInner ==
  ASSUME IInv, Parts, NEW r \in Request,
         \/ Route(r) \/ rate_limit(r) \/ get_current_subject(r) \/ Call(r) \/ Work(r)
         \/ HandlerRaises(r) \/ HandlerReturns(r) \/ Commit(r) \/ CommitFails(r)
  PROVE  Parts'
<1>1. CASE \E exc : Raise(r, exc)
  BY <1>1, PartsRaise
<1>2. CASE UNCHANGED <<ask, tx, offer, answer, rid>>
  BY <1>2 DEF Parts
<1>3. CASE /\ offer' = [offer EXCEPT ![r] = [status |-> 200, code |-> "ok", id |-> NoId]]
           /\ UNCHANGED <<ask, tx, answer, rid>>
  BY <1>3 DEF IInv, Functions, Parts, Codes
<1>4. ASSUME NEW to \in Transaction, tx' = [tx EXCEPT ![r] = to], UNCHANGED <<ask, offer, answer, rid>>
      PROVE  Parts'
  BY <1>4 DEF Parts
<1>5. CASE Route(r)
  BY <1>1, <1>2, <1>3, <1>5 DEF Route
<1>6. CASE rate_limit(r) \/ get_current_subject(r)
  BY <1>1, <1>2, <1>6 DEF rate_limit, get_current_subject, Pass
<1>7. CASE Call(r) \/ Work(r)
  BY <1>1, <1>4, <1>7 DEF Call, Work, Transaction
<1>8. CASE HandlerRaises(r) \/ HandlerReturns(r)
  BY <1>1, <1>3, <1>8 DEF HandlerRaises, HandlerReturns
<1>9. CASE Commit(r) \/ CommitFails(r)
  BY <1>4, <1>9 DEF Commit, CommitFails, rollback, Transaction
<1>10. QED
  BY <1>5, <1>6, <1>7, <1>8, <1>9

\* What is sent has the status and the code of what was made, and the ids of the
\* request.
LEMMA SentTyped ==
  ASSUME NEW r \in Request, rid[r] \in Ids, NEW a, NEW by,
         a.status \in 200..599, a.code \in Codes, a.id \in Ids
  PROVE  Sent(r, a, by) \in Answers
<1>1. NoId \in Ids
  BY DEF Ids
<1>2. (by = "CORS" \/ Passes(by, "CORS")) \in BOOLEAN
  BY Zenon DEF Passes
<1>3. QED
  BY <1>1, <1>2 DEF Sent, Answers, Ids

LEMMA PartsOuter ==
  ASSUME IInv, Parts, NEW r \in Request, Enter(r) \/ Relay(r) \/ Fail(r) \/ FailLate(r)
  PROVE  Parts'
<1>1. CASE Enter(r)
  <2>1. ask[r].header \in Id \cup {NoId}
    BY ConstantsAssumption DEF Parts, Asks
  <2>2. PICK id \in Ids : rid' = [rid EXCEPT ![r] = id]
    <3>1. Fresh(r) \in Ids /\ ask[r].header \in Ids
      BY <2>1 DEF Ids
    <3>2. rid' = [rid EXCEPT ![r] = IF ask[r].header # NoId THEN ask[r].header ELSE Fresh(r)]
      BY <1>1 DEF Enter
    <3>3. QED
      BY <3>1, <3>2
  <2>3. \A q \in Request : rid'[q] \in Ids
    BY <2>2 DEF IInv, Functions, Parts
  <2>4. QED
    BY <1>1, <2>3 DEF Enter, Parts
<1>2. CASE Relay(r)
  <2>1. offer[r].status \in 200..599 /\ offer[r].code \in Codes /\ offer[r].id \in Ids
    BY <1>2 DEF Relay, IInv, InvOf, InnerOf, Offered, Parts, Ids
  <2>2. Sent(r, offer[r], By(r)) \in Answers
    BY <2>1, SentTyped DEF Parts
  <2>3. \A q \in Request : answer'[q] \in Answers \cup {NoAnswer}
    BY <1>2, <2>2 DEF Relay, IInv, Functions, Parts
  <2>4. QED
    BY <1>2, <2>3 DEF Relay, Parts
<1>3. CASE Fail(r)
  <2>1. Sent(r, handle_unexpected(r), "ServerError") \in Answers
    BY SentTyped DEF handle_unexpected, Problem, Parts, Codes
  <2>2. \A q \in Request : answer'[q] \in Answers \cup {NoAnswer}
    BY <1>3, <2>1 DEF Fail, IInv, Functions, Parts
  <2>3. QED
    BY <1>3, <2>2 DEF Fail, Parts
<1>4. CASE FailLate(r)
  BY <1>4 DEF FailLate, Parts
<1>5. QED
  BY <1>1, <1>2, <1>3, <1>4

LEMMA PartsStep == IInv /\ Parts /\ [Next]_vars => Parts'
<1> SUFFICES ASSUME IInv, Parts, [Next]_vars PROVE Parts'
  OBVIOUS
<1>1. CASE UNCHANGED server
  BY <1>1 DEF server, Parts
<1>2. ASSUME NEW r \in Request, apiFetch(r) \/ Hidden(r) \/ abort(r) PROVE UNCHANGED server
  BY <1>2 DEF apiFetch, Hidden, abort, Settle
<1>3. QED
  BY <1>1, <1>2, PartsInner, PartsOuter DEF Next, Finished, vars

\* Type correctness, and that the labels of http_requests_total come from a fixed
\* set, whatever is asked for (metrics.py:23-35).
THEOREM TypeCorrect == Spec => []TypeOK
<1>1. ASSUME IInv, Parts PROVE TypeOK
  <2>1. ASSUME NEW r \in Request, NEW i \in DOMAIN counted[r]
        PROVE  counted[r][i] \in (Template \cup {"__unmatched__"}) \X (200..599)
    <3>1. answer[r] # NoAnswer
      BY <1>1, <2>1 DEF IInv, InvOf, CountedOf
    <3>2. answer[r].status \in 200..599
      BY <1>1, <3>1 DEF Parts, Answers
    <3>3. PICK path \in Template \cup {"__unmatched__"} : counted[r] = <<<<path, answer[r].status>>>>
      BY <1>1, <3>1 DEF IInv, InvOf, CountedOf
    <3>4. counted[r][i] = <<path, answer[r].status>>
      BY <2>1, <3>3
    <3>5. QED
      BY <3>2, <3>4
  <2>2. QED
    BY <1>1, <2>1 DEF IInv, Functions, Parts, Transaction, TypeOK
<1>2. QED
  BY <1>1, PartsInit, PartsStep, Invariance, PTL DEF Spec
=============================================================================
