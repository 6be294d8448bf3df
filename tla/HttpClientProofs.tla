-------------------------- MODULE HttpClientProofs --------------------------
(***************************************************************************)
(* The breaker's and the client's safety, for any set of requests and any  *)
(* threshold, cooldown and number of retries.                              *)
(***************************************************************************)
EXTENDS HttpClient, FiniteSetTheorems, TLAPS

\* What each request has done so far matches where it stands.
Counted ==
  \A r \in Request :
    /\ attempt[r] \in Nat
    /\ pc[r] = "idle" => attempt[r] = 0 /\ sends[r] = 0
    /\ pc[r] \in Active => sends[r] = attempt[r] + 1
    /\ pc[r] = "sleeping" => mayRetry(r)
    /\ attempt[r] <= IF r \in Idempotent THEN Retries ELSE 0
    /\ sends[r] \in Nat

\* The clock and the count are numbers; no request began in the future.
Clock ==
  /\ now \in Nat /\ failures \in Nat /\ openUntil \in Nat /\ opened \in Int
  /\ begun \in [Request -> Nat]
  /\ \A r \in Request : begun[r] <= now

Functions ==
  /\ pc \in [Request -> {"idle"} \cup Active \cup Ended]
  /\ attempt \in [Request -> Nat]
  /\ sends \in [Request -> Nat]

IInv == Functions /\ Clock /\ Counted /\ SentAtMost /\ OnlyOldRequestsWhileOpen

\* At the start nothing was sent and the breaker is closed.
LEMMA InvInit == Init => IInv
BY ConstantsAssumption
   DEF Init, IInv, Functions, Clock, Counted, SentAtMost, OnlyOldRequestsWhileOpen, Open, Active, Ended

\* A request that begins does so while the breaker is closed.
LEMMA InvBegin == ASSUME IInv, NEW r \in Request, Begin(r) PROVE IInv'
<1> USE ConstantsAssumption
        DEF IInv, Functions, Clock, Begin, Send, Goto, allow, breaker, Active, Ended, Open
<1>1. Functions' /\ Clock'
  OBVIOUS
<1>2. Counted' /\ SentAtMost'
  BY DEF Counted, SentAtMost, mayRetry
<1>3. OnlyOldRequestsWhileOpen'
  BY DEF OnlyOldRequestsWhileOpen
<1>4. QED
  BY <1>1, <1>2, <1>3

\* A success closes the breaker.
LEMMA InvAnswer == ASSUME IInv, NEW r \in Request, Answer(r) PROVE IInv'
<1> USE ConstantsAssumption
        DEF IInv, Functions, Clock, Answer, record_success, Goto, Active, Ended, Open
<1>1. Functions' /\ Clock'
  OBVIOUS
<1>2. Counted' /\ SentAtMost'
  BY DEF Counted, SentAtMost, mayRetry
<1>3. ~Open'
  OBVIOUS
<1>4. QED
  BY <1>1, <1>2, <1>3 DEF OnlyOldRequestsWhileOpen

\* A failure opens the breaker for a whole cooldown, or leaves it closed.
LEMMA InvFailure == ASSUME IInv, NEW r \in Request, Failure(r) PROVE IInv'
<1> USE ConstantsAssumption DEF IInv, Functions, Clock, Failure, record_failure, Goto, Active, Ended
<1>1. Functions' /\ Clock'
  OBVIOUS
<1>2. Counted' /\ SentAtMost'
  BY DEF Counted, SentAtMost, mayRetry
<1>3. \/ failures' >= Threshold /\ openUntil' = now + Cooldown
      \/ failures' < Threshold /\ openUntil' = openUntil
  OBVIOUS
<1>4. OnlyOldRequestsWhileOpen'
  BY <1>1, <1>3 DEF OnlyOldRequestsWhileOpen, Open
<1>5. QED
  BY <1>1, <1>2, <1>4

\* A retry is one more attempt and one more send.
LEMMA InvRetry == ASSUME IInv, NEW r \in Request, Retry(r) PROVE IInv'
<1> USE ConstantsAssumption
        DEF IInv, Functions, Clock, Retry, Send, Goto, breaker, Active, Ended, Open
<1>1. Functions' /\ Clock'
  OBVIOUS
<1>2. Counted' /\ SentAtMost'
  BY DEF Counted, SentAtMost, mayRetry
<1>3. OnlyOldRequestsWhileOpen'
  BY DEF OnlyOldRequestsWhileOpen
<1>4. QED
  BY <1>1, <1>2, <1>3

\* A cancelled request leaves the breaker alone.
LEMMA InvCancel == ASSUME IInv, NEW r \in Request, Cancel(r) PROVE IInv'
<1> USE ConstantsAssumption DEF IInv, Functions, Clock, Cancel, Goto, breaker, Active, Ended, Open
<1>1. Functions' /\ Clock'
  OBVIOUS
<1>2. Counted' /\ SentAtMost'
  BY DEF Counted, SentAtMost, mayRetry
<1>3. OnlyOldRequestsWhileOpen'
  BY DEF OnlyOldRequestsWhileOpen
<1>4. QED
  BY <1>1, <1>2, <1>3

\* Time only closes the breaker.
LEMMA InvTick == ASSUME IInv, Tick \/ UNCHANGED vars PROVE IInv'
<1> USE ConstantsAssumption DEF IInv, Functions, Clock, Tick, vars, breaker, Open
<1>1. Functions' /\ Clock'
  OBVIOUS
<1>2. Counted' /\ SentAtMost'
  BY DEF Counted, SentAtMost, mayRetry
<1>3. OnlyOldRequestsWhileOpen'
  BY DEF OnlyOldRequestsWhileOpen
<1>4. QED
  BY <1>1, <1>2, <1>3

\* The inductive invariant holds in every reachable state.
LEMMA InvAlways == Spec => []IInv
<1>1. IInv /\ [Next]_vars => IInv'
  BY InvBegin, InvAnswer, InvFailure, InvRetry, InvCancel, InvTick DEF Next
<1>2. QED
  BY InvInit, <1>1, PTL DEF Spec

\* A POST goes on the wire at most once and any other request at most once
\* more than there are retries, in every interleaving (http_client.py:20).
THEOREM SendsBounded == Spec => []SentAtMost
<1>1. IInv => SentAtMost
  BY DEF IInv
<1>2. QED
  BY InvAlways, <1>1, PTL

\* No request begins in a cooldown, however often the requests in flight
\* extend it: what is active then is older than the cooldown.
THEOREM CooldownAdmitsNothing == Spec => []OnlyOldRequestsWhileOpen
<1>1. IInv => OnlyOldRequestsWhileOpen
  BY DEF IInv
<1>2. QED
  BY InvAlways, <1>1, PTL

-----------------------------------------------------------------------------
(* Types.  That a delay is a number needs a power of two to be one: it is  *)
(* how many subsets a set of so many elements has.                         *)

LEMMA PowerOfTwo == \A n \in Nat : 2^n \in Nat
<1> SUFFICES ASSUME NEW n \in Nat PROVE 2^n \in Nat
  OBVIOUS
<1>1. IsFiniteSet(1..n) /\ Cardinality(1..n) = n
  BY FS_Interval
<1>2. IsFiniteSet(SUBSET (1..n)) /\ Cardinality(SUBSET (1..n)) = 2^n
  BY <1>1, FS_SUBSET
<1>3. QED
  BY <1>2, FS_CardinalityType

\* The delay before a retry: _backoff * (2**attempt).
LEMMA Delay == \A n \in Nat : Backoff * 2^n \in Nat
<1>1. \A m, n \in Nat : m * n \in Nat
  OBVIOUS
<1>2. QED
  BY <1>1, PowerOfTwo, ConstantsAssumption

WakeTyped == wakeAt \in [Request -> Nat]

LEMMA WakeStep == IInv /\ WakeTyped /\ [Next]_vars => WakeTyped'
<1> SUFFICES ASSUME IInv, WakeTyped, [Next]_vars PROVE WakeTyped'
  OBVIOUS
<1>1. CASE wakeAt' = wakeAt
  BY <1>1 DEF WakeTyped
<1>2. CASE \E r \in Request : Failure(r)
  <2>1. PICK r \in Request : Failure(r)
    BY <1>2
  <2>2. wakeAt' = wakeAt \/ wakeAt' = [wakeAt EXCEPT ![r] = now + Backoff * 2^attempt[r]]
    BY <2>1 DEF Failure
  <2>3. now \in Nat /\ Backoff * 2^attempt[r] \in Nat
    BY Delay DEF IInv, Clock, Functions
  <2>4. now + Backoff * 2^attempt[r] \in Nat
    BY <2>3
  <2>5. QED
    BY <2>2, <2>4 DEF WakeTyped
<1>3. QED
  BY <1>1, <1>2 DEF Next, Begin, Answer, Retry, Cancel, Tick, vars

\* Every attempt is one of those that Retries allows, and every time is a number
\* (http_client.py).
THEOREM TypeCorrect == Spec => []TypeOK
<1>1. Init => WakeTyped
  BY DEF Init, WakeTyped
<1>2. IInv /\ WakeTyped => TypeOK
  <2> SUFFICES ASSUME IInv, WakeTyped PROVE TypeOK
    OBVIOUS
  <2>1. ASSUME NEW r \in Request PROVE attempt[r] \in 0..Retries
    <3>1. attempt[r] \in Nat /\ attempt[r] <= IF r \in Idempotent THEN Retries ELSE 0
      BY DEF IInv, Counted
    <3>2. QED
      BY <3>1, ConstantsAssumption
  <2>2. attempt \in [Request -> 0..Retries]
    BY <2>1 DEF IInv, Functions
  <2>3. QED
    BY <2>2 DEF IInv, Functions, Clock, WakeTyped, TypeOK
<1>3. QED
  BY <1>1, <1>2, WakeStep, InvAlways, PTL DEF Spec
=============================================================================
