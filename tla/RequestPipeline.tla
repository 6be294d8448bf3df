-------------------------- MODULE RequestPipeline --------------------------
(***************************************************************************)
(* A request on its way through the API: the middleware stack of           *)
(* app/main.py, the guards of its route (app/api/v1/deps.py), the session  *)
(* around its handler (app/db/session.py), the exception handlers of       *)
(* app/api/errors.py, and apiFetch (src/apps/web/lib/api-client.ts), which *)
(* waits for the answer.                                                   *)
(*                                                                         *)
(* BaseHTTPMiddleware runs what it encloses in a task of its own.  So a    *)
(* request is two tasks: the outer one hands an answer on as soon as it is *)
(* offered; the inner one, the handler and its session, goes on to commit. *)
(* An exception for which nobody is registered reaches Starlette's own     *)
(* ServerErrorMiddleware, outside of everything that add_middleware adds.  *)
(*                                                                         *)
(* Not covered: the process is never killed here, and an answer is never   *)
(* lost on its way (ApiRollout and ItemStore have kills).                  *)
(***************************************************************************)
EXTENDS Integers, Sequences, SequencesExt

CONSTANTS
  Request, Id,
  NoId,         \* no X-Request-ID
  Template,     \* paths of the routes that FastAPI's router knows
  Ask,          \* what a request may be, see Asks
  CheckAudience, CheckIssuer   \* JWT_AUDIENCE and JWT_ISSUER are set

Token == [signed : BOOLEAN, exp : {"none", "past", "future"},
          aud : {"none", "ours", "other"}, iss : {"none", "ours", "other"},
          sub : {"none", "blank", "user"}]
NoToken == [signed |-> FALSE]

\* guards: what the route lists in dependencies, in its order; allowed: the path
\* has a route for the method.
Asks == [route : Template \cup {"/metrics", "/nowhere"}, allowed : BOOLEAN, preflight : BOOLEAN,
         guards : Seq({"auth", "limit"}), token : Token \cup {NoToken},
         valid : BOOLEAN, writes : BOOLEAN,
         header : Id \cup {NoId}, browser : BOOLEAN]

ASSUME ConstantsAssumption == NoId \notin Id /\ Ask \subseteq Asks

VARIABLES
  ask, outer, app,  \* the request and the places of its two tasks
  guards,           \* what is left of its guards
  tx,               \* its session: none, open, dirty, committed, closed
  offer, answer,    \* what the inner task answers; what is sent
  rid,              \* request.state.request_id
  ctx, inherited,   \* structlog's context of the outer and the inner task
  counted,          \* http_requests_total: what the request added to it
  log,
  client            \* how apiFetch ended

server == <<ask, outer, app, guards, tx, offer, answer, rid, ctx, inherited, counted, log>>
vars == <<server, client>>

NoAnswer == [status |-> 0]
Fresh(r) == <<"uuid4", r>>

Init ==
  /\ ask \in [Request -> Ask]
  /\ outer = [r \in Request |-> "idle"] /\ app = [r \in Request |-> "idle"]
  /\ guards = [r \in Request |-> ask[r].guards]
  /\ tx = [r \in Request |-> "none"]
  /\ offer = [r \in Request |-> NoAnswer] /\ answer = [r \in Request |-> NoAnswer]
  /\ rid = [r \in Request |-> NoId]
  /\ ctx = [r \in Request |-> NoId] /\ inherited = [r \in Request |-> NoId]
  /\ counted = [r \in Request |-> <<>>]
  /\ log = {}
  /\ client = [r \in Request |-> [kind |-> "idle"]]

-----------------------------------------------------------------------------
(* Answers.  A definition whose comment starts with "Slip:" is no part of  *)
(* the specification: it is the definition after it with one plausible     *)
(* mistake in it, there to show that a property notices.                   *)

\* Slip: the order that the comment in main.py gives, outermost first.
asCommented ==
  <<"ServerError", "CORS", "Metrics", "RequestContext", "Exception">>

\* add_middleware puts each one around those added before; Starlette's own are
\* the first and the last.
create_app == Reverse(<<"Exception", "CORS", "Metrics", "RequestContext", "ServerError">>)

\* What layer l does to an answer happens when the answer was made inside it.
Passes(by, l) ==
  \E i, j \in DOMAIN create_app : create_app[i] = l /\ create_app[j] = by /\ i < j

AppError ==
  [NotFoundError    |-> [status |-> 404, code |-> "not_found"],
   ConflictError    |-> [status |-> 409, code |-> "conflict"],
   ValidationError  |-> [status |-> 422, code |-> "validation_error"],
   UnauthorizedError |-> [status |-> 401, code |-> "unauthorized"],
   ForbiddenError   |-> [status |-> 403, code |-> "forbidden"],
   RateLimitedError |-> [status |-> 429, code |-> "rate_limited"]]

\* FastAPI's own handler answers a path that nobody has, or a method that the
\* path has no route for: no problem document.
external_HTTPException(r) ==
  [status |-> IF ask[r].route = "/nowhere" THEN 404 ELSE 405, code |-> "error", id |-> NoId]

Problem(r, status, code) == [status |-> status, code |-> code, id |-> rid[r]]

handle_app_error(r, exc) == Problem(r, AppError[exc].status, AppError[exc].code)
handle_validation_error(r) == Problem(r, 422, "validation_error")
handle_unexpected(r) == Problem(r, 500, "internal_error")

\* Who answers an exception inside the stack; others go on to ServerError.
Handled(r, exc) ==
  IF exc \in DOMAIN AppError THEN handle_app_error(r, exc)
  ELSE IF exc = "RequestValidationError" THEN handle_validation_error(r)
  ELSE IF exc = "HTTPException" THEN external_HTTPException(r)
  ELSE NoAnswer

\* An answer made at layer by, once the layers around it have had it.
Sent(r, a, by) ==
  [status |-> a.status, code |-> a.code, bodyId |-> a.id,
   headerId |-> IF Passes(by, "RequestContext") THEN rid[r] ELSE NoId,
   cors |-> by = "CORS" \/ Passes(by, "CORS")]

\* Slip: the raw URL in the label.
rawPath(r) == ask[r].route

_route_template(r) ==
  IF ask[r].route \in Template /\ ~ask[r].preflight THEN ask[r].route ELSE "__unmatched__"

\* The finally of MetricsMiddleware.dispatch, for an answer of layer by or for
\* an exception that passes every layer.
dispatch_metrics(r, status, by) ==
  counted' = IF Passes(by, "Metrics") \/ by = "ServerError"
             THEN [counted EXCEPT ![r] = Append(@, <<_route_template(r), status>>)]
             ELSE counted

-----------------------------------------------------------------------------
(* The log *)

\* Slip: a variable of the module for the current request.
bindForAll(r, id) == ctx' = [q \in Request |-> id]

bind_request_id(r, id) == ctx' = [ctx EXCEPT ![r] = id]

clear_request_context(r) == ctx' = [ctx EXCEPT ![r] = NoId]

Line(r, event, id) == [of |-> r, event |-> event, id |-> id]

-----------------------------------------------------------------------------
(* The inner task *)

At(r, place) == app[r] = place
Goto(r, place) == app' = [app EXCEPT ![r] = place]

\* Slip: the session commits in a finally.
commitsInFinally(r) ==
  tx' = [tx EXCEPT ![r] = IF @ = "dirty" THEN "committed" ELSE "closed"]

\* get_session sees an exception: rollback, raise.
rollback(r) == tx' = [tx EXCEPT ![r] = "closed"]

\* An exception leaves the handler or a dependency.
Raise(r, exc) ==
  /\ rollback(r)
  /\ offer' = [offer EXCEPT ![r] = Handled(r, exc)]
  /\ Goto(r, IF Handled(r, exc) = NoAnswer THEN "failed" ELSE "ended")
  /\ UNCHANGED <<ask, outer, guards, answer, rid, ctx, inherited, counted, client>>

\* CORS answers a preflight, the router a path nobody has and a method that is not
\* allowed; "/metrics" is a route of Starlette's, without guards or a session.
Route(r) ==
  /\ At(r, "routing")
  /\ UNCHANGED log
  /\ \/ /\ ask[r].preflight \/ (ask[r].route = "/metrics" /\ ask[r].allowed)
        /\ offer' = [offer EXCEPT ![r] = [status |-> 200, code |-> "ok", id |-> NoId]]
        /\ Goto(r, "ended")
        /\ UNCHANGED <<ask, outer, guards, tx, answer, rid, ctx, inherited, counted, client>>
     \/ /\ ~ask[r].preflight /\ (ask[r].route = "/nowhere" \/ ~ask[r].allowed)
        /\ Raise(r, "HTTPException")
     \/ /\ ~ask[r].preflight /\ ask[r].route \in Template /\ ask[r].allowed
        /\ Goto(r, "guards")
        /\ UNCHANGED <<ask, outer, guards, tx, offer, answer, rid, ctx, inherited, counted, client>>

Pass(r) ==
  /\ guards' = [guards EXCEPT ![r] = Tail(@)]
  /\ UNCHANGED <<ask, outer, app, tx, offer, answer, rid, ctx, inherited, counted, client>>

\* The counter is below the limit, above it, or cannot be reached (fails open).
rate_limit(r) ==
  /\ At(r, "guards") /\ guards[r] # <<>> /\ Head(guards[r]) = "limit"
  /\ \/ Pass(r) /\ UNCHANGED log
     \/ Pass(r) /\ log' = log \cup {Line(r, "rate_limit.cache_unavailable", inherited[r])}
     \/ Raise(r, "RateLimitedError") /\ UNCHANGED log

\* jwt.decode does not raise.
decode_access_token(t) ==
  /\ t.signed /\ t.exp = "future"
  /\ CheckAudience => t.aud = "ours"
  /\ CheckIssuer => t.iss = "ours"

Authentic(t) == t # NoToken /\ decode_access_token(t) /\ t.sub = "user"

get_current_subject(r) ==
  /\ At(r, "guards") /\ guards[r] # <<>> /\ Head(guards[r]) = "auth"
  /\ UNCHANGED log
  /\ IF Authentic(ask[r].token) THEN Pass(r) ELSE Raise(r, "UnauthorizedError")

\* The session is opened; FastAPI reports fields that are not valid, or calls
\* the handler.
Call(r) ==
  /\ At(r, "guards") /\ guards[r] = <<>>
  /\ UNCHANGED log
  /\ IF ask[r].valid
     THEN /\ tx' = [tx EXCEPT ![r] = "open"]
          /\ Goto(r, "handler")
          /\ UNCHANGED <<ask, outer, guards, offer, answer, rid, ctx, inherited, counted, client>>
     ELSE Raise(r, "RequestValidationError")

\* What a service or the libraries under it may raise.
FromHandler == (DOMAIN AppError \ {"RateLimitedError", "UnauthorizedError"}) \cup {"Exception"}

\* The handler's statements, before the first of which or after the last of
\* which it may raise.
Work(r) ==
  /\ At(r, "handler") /\ tx[r] = "open" /\ ask[r].writes
  /\ tx' = [tx EXCEPT ![r] = "dirty"]
  /\ UNCHANGED <<ask, outer, app, guards, offer, answer, rid, ctx, inherited, counted, log, client>>

HandlerRaises(r) ==
  /\ At(r, "handler")
  /\ \E exc \in FromHandler : Raise(r, exc)
  /\ UNCHANGED log

HandlerReturns(r) ==
  /\ At(r, "handler") /\ (ask[r].writes => tx[r] = "dirty")
  /\ offer' = [offer EXCEPT ![r] = [status |-> 200, code |-> "ok", id |-> NoId]]
  /\ Goto(r, "answered")
  /\ UNCHANGED <<ask, outer, guards, tx, answer, rid, ctx, inherited, counted, log, client>>

\* get_session goes on after its yield.
Commit(r) ==
  /\ At(r, "answered")
  /\ tx' = [tx EXCEPT ![r] = IF @ = "dirty" THEN "committed" ELSE "closed"]
  /\ Goto(r, "ended")
  /\ UNCHANGED <<ask, outer, guards, offer, answer, rid, ctx, inherited, counted, log, client>>

CommitFails(r) ==
  /\ At(r, "answered")
  /\ rollback(r)
  /\ Goto(r, "failed")
  /\ UNCHANGED <<ask, outer, guards, offer, answer, rid, ctx, inherited, counted, log, client>>

-----------------------------------------------------------------------------
(* The outer task *)

\* RequestContextMiddleware.dispatch up to call_next.
Enter(r) ==
  /\ outer[r] = "idle"
  /\ LET id == IF ask[r].header # NoId THEN ask[r].header ELSE Fresh(r) IN
       /\ rid' = [rid EXCEPT ![r] = id]
       /\ bind_request_id(r, id)
  /\ inherited' = [inherited EXCEPT ![r] = ctx'[r]]
  /\ outer' = [outer EXCEPT ![r] = "waiting"]
  /\ Goto(r, "routing")
  /\ client' = [client EXCEPT ![r] = [kind |-> "waiting"]]
  /\ UNCHANGED <<ask, guards, tx, offer, answer, counted, log>>

By(r) == IF ask[r].preflight THEN "CORS" ELSE "Exception"

\* call_next returns: the answer is counted, logged and sent.
Relay(r) ==
  /\ outer[r] = "waiting" /\ offer[r] # NoAnswer
  /\ dispatch_metrics(r, offer[r].status, By(r))
  /\ log' = log \cup {Line(r, "request.handled", ctx[r])}
  /\ clear_request_context(r)
  /\ answer' = [answer EXCEPT ![r] = Sent(r, offer[r], By(r))]
  /\ outer' = [outer EXCEPT ![r] = "sent"]
  /\ UNCHANGED <<ask, app, guards, tx, offer, rid, inherited, client>>

\* call_next raises: request.failed is logged, and ServerErrorMiddleware calls
\* handle_unexpected when the context is cleared.
Fail(r) ==
  /\ outer[r] = "waiting" /\ At(r, "failed") /\ offer[r] = NoAnswer
  /\ dispatch_metrics(r, 500, "ServerError")
  /\ clear_request_context(r)
  /\ log' = log \cup {Line(r, "request.failed", ctx[r]), Line(r, "unhandled_exception", ctx'[r])}
  /\ answer' = [answer EXCEPT ![r] = Sent(r, handle_unexpected(r), "ServerError")]
  /\ outer' = [outer EXCEPT ![r] = "sent"]
  /\ Goto(r, "ended")
  /\ UNCHANGED <<ask, guards, tx, offer, rid, inherited, client>>

\* A commit fails when its answer is sent: handle_unexpected logs it, and what
\* it answers is not sent.
FailLate(r) ==
  /\ outer[r] = "sent" /\ At(r, "failed")
  /\ log' = log \cup {Line(r, "unhandled_exception", ctx[r])}
  /\ Goto(r, "ended")
  /\ UNCHANGED <<ask, outer, guards, tx, offer, answer, rid, ctx, inherited, counted, client>>

-----------------------------------------------------------------------------
(* apiFetch *)

Settle(r, outcome) == client' = [client EXCEPT ![r] = outcome] /\ UNCHANGED server

ApiError(r, code) ==
  [kind |-> "ApiError", status |-> answer[r].status, code |-> code, requestId |-> answer[r].headerId]

\* The answer arrives in time.  A body that is no JSON, or that the timer cuts
\* off, has the code "error" when the answer is one.
apiFetch(r) ==
  /\ client[r].kind = "waiting" /\ answer[r] # NoAnswer
  /\ answer[r].cors \/ ~ask[r].browser
  /\ \/ answer[r].status < 400 /\ Settle(r, [kind |-> "result"])
     \/ /\ answer[r].status >= 400
        /\ \E code \in {answer[r].code, "error"} : Settle(r, ApiError(r, code))

\* A browser does not show an answer without CORS headers to the script.
Hidden(r) ==
  /\ client[r].kind = "waiting" /\ answer[r] # NoAnswer
  /\ ~answer[r].cors /\ ask[r].browser
  /\ Settle(r, [kind |-> "TypeError"])

\* The timer fires, before or after the server has answered.
abort(r) == client[r].kind = "waiting" /\ Settle(r, [kind |-> "AbortError"])

-----------------------------------------------------------------------------
Settled(r) == client[r].kind \notin {"idle", "waiting"} /\ outer[r] = "sent" /\ At(r, "ended")
Finished == (\A r \in Request : Settled(r)) /\ UNCHANGED vars

Next ==
  \/ \E r \in Request :
       \/ Enter(r) \/ Relay(r) \/ Fail(r) \/ FailLate(r)
       \/ Route(r) \/ rate_limit(r) \/ get_current_subject(r) \/ Call(r)
       \/ Work(r) \/ HandlerRaises(r) \/ HandlerReturns(r) \/ Commit(r) \/ CommitFails(r)
       \/ apiFetch(r) \/ Hidden(r) \/ abort(r)
  \/ Finished

Spec == Init /\ [][Next]_vars

-----------------------------------------------------------------------------
\* The codes of problem documents, and "ok" for a result.
Codes == {"ok", "error", "internal_error", "validation_error", "not_found", "conflict",
          "unauthorized", "forbidden", "rate_limited"}

Answers == [status : 200..599, code : Codes, bodyId : Id \cup {NoId} \cup {Fresh(r) : r \in Request},
            headerId : Id \cup {NoId} \cup {Fresh(r) : r \in Request}, cors : BOOLEAN]

\* The labels of http_requests_total come from a fixed set, whatever is asked for.
TypeOK ==
  /\ ask \in [Request -> Ask]
  /\ outer \in [Request -> {"idle", "waiting", "sent"}]
  /\ app \in [Request -> {"idle", "routing", "guards", "handler", "answered", "failed", "ended"}]
  /\ tx \in [Request -> {"none", "open", "dirty", "committed", "closed"}]
  /\ \A r \in Request :
       /\ answer[r] \in Answers \cup {NoAnswer}
       /\ \A i \in DOMAIN counted[r] : counted[r][i] \in (Template \cup {"__unmatched__"}) \X (200..599)

\* A caller that apiFetch gives an ApiError may try again: whatever the status,
\* nothing of the request was written, and nothing will be.  (An AbortError or a
\* TypeError tells nothing, and a result is no promise that the commit succeeds.)
ApiErrorMeansNothingWritten ==
  \A r \in Request : client[r].kind = "ApiError" => tx[r] # "committed"

\* Each request adds one to http_requests_total, under the status that its client
\* is sent: the answers of CORS, of the router and of ServerErrorMiddleware, which
\* is outside of the counting, are counted too ("never invisible", metrics.py:53).
CountedAsAnswered ==
  \A r \in Request :
    IF answer[r] = NoAnswer THEN counted[r] = <<>>
    ELSE \E path \in Template \cup {"__unmatched__"} : counted[r] = <<<<path, answer[r].status>>>>

TellsOwnId(r) ==
  /\ {answer[r].headerId, answer[r].bodyId} \subseteq {NoId, rid[r]}
  /\ rid[r] \in {answer[r].headerId, answer[r].bodyId}
  /\ answer[r].code # "internal_error" => answer[r].headerId = rid[r]

HasOwnId(line) ==
  /\ line.id \in {NoId, rid[line.of]}
  /\ line.event # "unhandled_exception" => line.id = rid[line.of]

\* With any requests at once, no answer and no line of the log has the id of
\* another request; every answer tells its own, in the header or, for an
\* unexpected exception, at least in the body; and every line has its request's,
\* but for unhandled_exception.  The docs promise the id without these two
\* exceptions ("Every line carries `request_id`", docs/guides/observability.md:7):
\* the code clears the context, and is past the middleware that sets the header,
\* when it answers an unexpected exception.  In these two places the property
\* allows the own id or none: it would hold, too, if the code kept the promise.
OwnIdOnly ==
  /\ \A r \in Request : answer[r] # NoAnswer => TellsOwnId(r)
  /\ \A line \in log : HasOwnId(line)
=============================================================================
