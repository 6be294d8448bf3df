----------------------------- MODULE HttpClient -----------------------------
(***************************************************************************)
(* The outbound HTTP client: app/core/http_client.py.  Concurrent requests *)
(* of one process share one circuit breaker; a step of a request is what   *)
(* it does between two awaits.  Time passes in ticks while requests are on *)
(* the wire or sleep before a retry.                                       *)
(*                                                                         *)
(* sends, begun and opened are history variables.                     *)
(***************************************************************************)
EXTENDS Integers

CONSTANTS
  Request,       \* calls of HttpClient.request
  Idempotent,    \* those whose method is in _IDEMPOTENT
  Threshold, Cooldown,      \* of the breaker
  Retries, Backoff,         \* of the client; Backoff in ticks
  MaxTime        \* bound: the last tick

ASSUME ConstantsAssumption ==
  /\ Idempotent \subseteq Request
  /\ Threshold \in Nat \ {0} /\ Cooldown \in Nat
  /\ Retries \in Nat /\ Backoff \in Nat
  /\ MaxTime \in Nat

VARIABLES
  now,
  failures, openUntil,      \* _failures, _open_until
  pc,            \* idle, sent, sleeping; or how the request ended
  attempt, wakeAt,
  sends,         \* how often each request went on the wire
  begun,         \* when each request passed the breaker
  opened         \* when a failure last opened the breaker or extended its cooldown

breaker == <<failures, openUntil, opened>>
vars == <<now, breaker, pc, attempt, wakeAt, sends, begun>>

Active == {"sent", "sleeping"}
Ended  == {"rejected", "returned", "failed", "cancelled"}

Init ==
  /\ now = 0 /\ failures = 0 /\ openUntil = 0
  /\ pc = [r \in Request |-> "idle"]
  /\ attempt = [r \in Request |-> 0]
  /\ wakeAt = [r \in Request |-> 0]
  /\ sends = [r \in Request |-> 0]
  /\ begun = [r \in Request |-> 0]
  /\ opened = -Cooldown

Goto(r, loc) == pc' = [pc EXCEPT ![r] = loc]

-----------------------------------------------------------------------------
(* CircuitBreaker.  A definition whose comment starts with "Slip:" is no   *)
(* part of the specification: it is the definition after it with one       *)
(* plausible mistake in it, there to show that a property notices.         *)

\* Slip: the breaker opens its door a tick early.
allowEarly == now >= openUntil - 1

allow == now >= openUntil

record_success ==
  /\ failures' = 0
  /\ openUntil' = 0
  /\ UNCHANGED opened

record_failure ==
  /\ failures' = failures + 1
  /\ openUntil' = IF failures' >= Threshold THEN now + Cooldown ELSE openUntil
  /\ opened' = IF failures' >= Threshold THEN now ELSE opened

-----------------------------------------------------------------------------
(* HttpClient.request *)

Send(r) == sends' = [sends EXCEPT ![r] = @ + 1] /\ Goto(r, "sent")

\* The breaker is asked once, before the first attempt.
Begin(r) ==
  /\ pc[r] = "idle"
  /\ \/ allow /\ Send(r) /\ begun' = [begun EXCEPT ![r] = now]
     \/ ~allow /\ Goto(r, "rejected") /\ UNCHANGED <<sends, begun>>
  /\ UNCHANGED <<now, breaker, attempt, wakeAt>>

\* An answer below 500.
Answer(r) ==
  /\ pc[r] = "sent"
  /\ record_success
  /\ Goto(r, "returned")
  /\ UNCHANGED <<now, attempt, wakeAt, sends, begun>>

\* Slip: the method is not looked at.
retriesAnyway(r) == attempt[r] < Retries

\* Slip: one retry too many.
retriesOnceMore(r) == r \in Idempotent /\ attempt[r] <= Retries

mayRetry(r) == r \in Idempotent /\ attempt[r] < Retries

\* A TransportError or an answer of 500 and above: sleep and retry, or end by
\* raising the one and returning the other.
Failure(r) ==
  /\ pc[r] = "sent"
  /\ record_failure
  /\ \/ /\ mayRetry(r)
        /\ wakeAt' = [wakeAt EXCEPT ![r] = now + Backoff * 2^attempt[r]]
        /\ Goto(r, "sleeping")
     \/ ~mayRetry(r) /\ Goto(r, "failed") /\ UNCHANGED wakeAt
  /\ UNCHANGED <<now, attempt, sends, begun>>

Retry(r) ==
  /\ pc[r] = "sleeping" /\ now >= wakeAt[r]
  /\ attempt' = [attempt EXCEPT ![r] = @ + 1]
  /\ Send(r)
  /\ UNCHANGED <<now, breaker, wakeAt, begun>>

\* The task is cancelled in an await, or httpx raises what is no
\* TransportError: nothing is recorded.
Cancel(r) ==
  /\ pc[r] \in Active
  /\ Goto(r, "cancelled")
  /\ UNCHANGED <<now, breaker, attempt, wakeAt, sends, begun>>

Tick ==
  /\ now < MaxTime
  /\ now' = now + 1
  /\ UNCHANGED <<breaker, pc, attempt, wakeAt, sends, begun>>

Next ==
  \/ \E r \in Request : Begin(r) \/ Answer(r) \/ Failure(r) \/ Retry(r) \/ Cancel(r)
  \/ Tick

Spec == Init /\ [][Next]_vars

-----------------------------------------------------------------------------
TypeOK ==
  /\ now \in Nat /\ failures \in Nat /\ openUntil \in Nat /\ opened \in Int
  /\ pc \in [Request -> {"idle"} \cup Active \cup Ended]
  /\ attempt \in [Request -> 0..Retries]
  /\ wakeAt \in [Request -> Nat]
  /\ sends \in [Request -> Nat]
  /\ begun \in [Request -> Nat]

Open == now < openUntil

\* A request that is not idempotent goes on the wire at most once, and the
\* others at most once more than there are retries ("a retried POST could
\* double-charge", http_client.py:20), failing answers and raises alike.
SentAtMost ==
  \A r \in Request : sends[r] <= IF r \in Idempotent THEN Retries + 1 ELSE 1

\* While the breaker is open, whatever is still on the wire or about to be
\* retried passed the breaker before it opened: no request begins in the
\* cooldown, however the requests in flight extend it.
OnlyOldRequestsWhileOpen ==
  Open => \A r \in Request : pc[r] \in Active => begun[r] <= openUntil - Cooldown

\* The docstring's word on the breaker (http_client.py:29), "stays open for
\* ``cooldown``": no request begins within a cooldown of the failure that opened it.
StaysOpenForCooldown ==
  \A r \in Request : sends[r] > 0 => ~(opened < begun[r] /\ begun[r] < opened + Cooldown)
=============================================================================
