------------------------- MODULE RateLimiterProofs -------------------------
(***************************************************************************)
(* What the limiter promises a client, for any number of requests, limit   *)
(* and window, with any number of lost, late and cancelled calls.          *)
(***************************************************************************)
EXTENDS RateLimiter, FiniteSetTheorems, TLAPS

\* A live counter expires within a window from now.
CounterExpires == count > 0 => now < expireAt /\ expireAt <= now + Window

\* Who was counted, and that a request that was not has no number.
CountedOnce ==
  \A r \in Request :
    /\ countedBy[r] = 0 <=> number[r] = 0
    /\ pc[r] = "idle" \/ r \in queued => countedBy[r] = 0
    /\ pc[r] = "waiting" /\ r \notin queued => countedBy[r] > 0
    /\ pc[r] = "rejected" => number[r] > Limit
    /\ r \in queued => pc[r] \in {"waiting", "failedOpen", "gone"}
    /\ countedBy[r] = counter => number[r] <= count \/ count = 0

\* The numbers a counter has given out have no gap, and the live one has
\* given out all up to its count.
NoGap ==
  /\ \A r \in Request : \A n \in 1..number[r] : \E q \in Request :
       countedBy[q] = countedBy[r] /\ number[q] = n
  /\ \A n \in 1..count : \E q \in Request : countedBy[q] = counter /\ number[q] = n

\* The counter that refused a request expires within a window of the refusal.
RefusedBriefly ==
  \A r \in Request :
    pc[r] = "rejected" /\ count > 0 /\ countedBy[r] = counter => expireAt <= at[r] + Window

IInv ==
  /\ TypeOK /\ CounterExpires /\ CountedOnce /\ NoGap /\ RefusedBriefly

\* At the start there is no counter and nobody was counted.
LEMMA InvInit == Init => IInv
BY ConstantsAssumption
   DEF Init, IInv, TypeOK, Ended, CounterExpires, CountedOnce, NoGap, RefusedBriefly

\* A request that arrives was not counted yet.
LEMMA InvArrive == ASSUME IInv, NEW r \in Request, Arrive(r) PROVE IInv'
<1> USE ConstantsAssumption DEF IInv, Arrive, history, Ended
<1>1. TypeOK'
  BY DEF TypeOK
<1>2. CounterExpires'
  BY DEF CounterExpires
<1>3. CountedOnce'
  BY DEF CountedOnce, TypeOK
<1>4. NoGap'
  BY DEF NoGap
<1>5. RefusedBriefly'
  BY DEF RefusedBriefly, TypeOK
<1>6. QED
  BY <1>1, <1>2, <1>3, <1>4, <1>5

\* Redis gives the next number of the live counter, or the first of a new one.
LEMMA InvEval == ASSUME IInv, NEW r \in Request, Eval(r) PROVE IInv'
<1> USE ConstantsAssumption DEF IInv, Eval, expireOnce, Ended
<1>1. TypeOK'
  BY DEF TypeOK
<1>2. CounterExpires'
  BY DEF CounterExpires, TypeOK
<1>3. /\ countedBy[r] = 0 /\ number[r] = 0 /\ pc[r] # "rejected"
      /\ count \in Nat /\ counter \in Nat
      /\ countedBy \in [Request -> 0..counter] /\ number \in [Request -> Nat]
  BY DEF CountedOnce, TypeOK
<1>4. /\ countedBy'[r] = counter' /\ number'[r] = count + 1
      /\ \A q \in Request \ {r} : countedBy'[q] = countedBy[q] /\ number'[q] = number[q] /\ at'[q] = at[q]
  BY DEF TypeOK
<1>5. CASE count = 0
  <2>1. counter' = counter + 1 /\ count' = 1
    BY <1>5
  <2>2. CountedOnce'
    BY <1>3, <1>4, <2>1 DEF CountedOnce, TypeOK
  <2>3. NoGap'
    BY <1>3, <1>4, <2>1 DEF NoGap
  <2>4. RefusedBriefly'
    BY <1>3, <1>4, <2>1 DEF RefusedBriefly
  <2>5. QED
    BY <1>1, <1>2, <2>2, <2>3, <2>4
<1>6. CASE count > 0
  <2>1. counter' = counter /\ count' = count + 1 /\ expireAt' = expireAt
    BY <1>3, <1>6
  <2>2. counter > 0
    <3>1. PICK q \in Request : countedBy[q] = counter /\ number[q] = 1
      BY <1>3, <1>6 DEF NoGap
    <3>2. countedBy[q] # 0
      BY <3>1 DEF CountedOnce
    <3>3. QED
      BY <1>3, <3>1, <3>2
  <2>3. CountedOnce'
    BY <1>3, <1>4, <2>1, <2>2, <1>6 DEF CountedOnce, TypeOK
  <2>4. NoGap'
    <3>1. \A n \in 1..count' : \E q \in Request : countedBy'[q] = counter' /\ number'[q] = n
      <4>1. SUFFICES ASSUME NEW n \in 1..count'
                     PROVE \E q \in Request : countedBy'[q] = counter' /\ number'[q] = n
        OBVIOUS
      <4>2. CASE n = count + 1
        BY <1>4, <4>2
      <4>3. CASE n \in 1..count
        <5>1. PICK q \in Request : countedBy[q] = counter /\ number[q] = n
          BY <4>3 DEF NoGap
        <5>2. q # r
          BY <5>1, <1>3, <2>2
        <5>3. QED
          BY <5>1, <5>2, <1>4, <2>1
      <4>4. QED
        BY <4>2, <4>3, <2>1, <1>3
    <3>2. SUFFICES ASSUME NEW p \in Request, NEW n \in 1..number'[p]
                   PROVE \E q \in Request : countedBy'[q] = countedBy'[p] /\ number'[q] = n
      BY <3>1 DEF NoGap
    <3>3. CASE p = r
      BY <3>1, <3>3, <1>4, <2>1
    <3>4. CASE p # r
      <4>1. PICK q \in Request : countedBy[q] = countedBy[p] /\ number[q] = n
        BY <3>4, <1>4 DEF NoGap
      <4>2. q # r
        BY <4>1, <1>3
      <4>3. QED
        BY <4>1, <4>2, <3>4, <1>4
    <3>5. QED
      BY <3>3, <3>4
  <2>5. RefusedBriefly'
    BY <1>3, <1>4, <1>6, <2>1 DEF RefusedBriefly
  <2>6. QED
    BY <1>1, <1>2, <2>3, <2>4, <2>5
<1>7. QED
  BY <1>3, <1>5, <1>6

\* A refusal is dated within the life of the counter it goes by, or later.
LEMMA InvDecide == ASSUME IInv, NEW r \in Request, Decide(r) PROVE IInv'
<1> USE ConstantsAssumption DEF IInv, Decide, exceeded, redis, Ended
<1>1. TypeOK'
  BY DEF TypeOK
<1>2. CounterExpires'
  BY DEF CounterExpires
<1>3. CountedOnce'
  BY DEF CountedOnce, TypeOK
<1>4. NoGap'
  BY DEF NoGap
<1>5. RefusedBriefly'
  BY DEF RefusedBriefly, CounterExpires, TypeOK
<1>6. QED
  BY <1>1, <1>2, <1>3, <1>4, <1>5

\* Who loses the reply, or is killed, is refused by nobody.
LEMMA InvFault == ASSUME IInv, NEW r \in Request, CacheError(r) \/ Kill(r) PROVE IInv'
<1> USE ConstantsAssumption DEF IInv, CacheError, Kill, failOpen, history, Ended
<1>1. TypeOK'
  BY DEF TypeOK
<1>2. CounterExpires'
  BY DEF CounterExpires
<1>3. CountedOnce'
  BY DEF CountedOnce, TypeOK
<1>4. NoGap'
  BY DEF NoGap
<1>5. RefusedBriefly'
  BY DEF RefusedBriefly, TypeOK
<1>6. QED
  BY <1>1, <1>2, <1>3, <1>4, <1>5

\* Time brings the expiry nearer, and ends the counter then.
LEMMA InvTick == ASSUME IInv, Tick \/ UNCHANGED vars PROVE IInv'
<1> USE ConstantsAssumption DEF IInv, Tick, vars, redis, history, Ended
<1>1. TypeOK'
  BY DEF TypeOK
<1>2. CounterExpires'
  BY DEF CounterExpires, TypeOK
<1>3. CountedOnce'
  BY DEF CountedOnce, TypeOK
<1>4. NoGap'
  BY DEF NoGap
<1>5. RefusedBriefly'
  BY DEF RefusedBriefly, TypeOK
<1>6. QED
  BY <1>1, <1>2, <1>3, <1>4, <1>5

\* The inductive invariant holds in every reachable state.
LEMMA InvAlways == Spec => []IInv
<1>1. IInv /\ [Next]_vars => IInv'
  BY InvArrive, InvEval, InvDecide, InvFault, InvTick DEF Next
<1>2. QED
  BY InvInit, <1>1, PTL DEF Spec

\* Type correctness.
THEOREM TypeCorrect == Spec => []TypeOK
<1>1. IInv => TypeOK
  BY DEF IInv
<1>2. QED
  BY InvAlways, <1>1, PTL

\* A client that waits as long as Retry-After says does not meet the counter
\* that refused it, whoever else keeps trying.
THEOREM RetryAfterIsHonest == Spec => []RetryAfterSuffices
<1>1. IInv => RetryAfterSuffices
  BY ConstantsAssumption DEF IInv, RetryAfterSuffices, RefusedBriefly, CounterExpires, TypeOK
<1>2. QED
  BY InvAlways, <1>1, PTL

\* Nobody is refused before Limit others were counted and not refused.
THEOREM NobodyRefusedEarly == Spec => []RefusedOnlyBeyondLimit
<1>1. ASSUME IInv, NEW r \in Request, pc[r] = "rejected", NEW n \in 1..Limit
      PROVE \E q \in Request : countedBy[q] = countedBy[r] /\ number[q] = n /\ pc[q] # "rejected"
  <2>1. number[r] > Limit /\ number[r] \in Nat
    BY <1>1 DEF IInv, CountedOnce, TypeOK
  <2>2. PICK q \in Request : countedBy[q] = countedBy[r] /\ number[q] = n
    BY <1>1, <2>1, ConstantsAssumption DEF IInv, NoGap
  <2>3. pc[q] # "rejected"
    BY <1>1, <2>2, ConstantsAssumption DEF IInv, CountedOnce
  <2>4. QED
    BY <2>2, <2>3
<1>2. IInv => RefusedOnlyBeyondLimit
  BY <1>1 DEF RefusedOnlyBeyondLimit
<1>3. QED
  BY InvAlways, <1>2, PTL

-----------------------------------------------------------------------------
(* How far apart the counters are. *)

\* Whoever a counter counted, as long as it was not refused: at[r] is then the
\* moment it was counted.
Kept(r) == countedBy[r] > 0 /\ pc[r] # "rejected"

\* A counter ends a window after it began, and the next begins no sooner: what
\* is two counters apart is a window apart.
Apart ==
  /\ count = 0 => expireAt <= now
  /\ \A r \in Request : Kept(r) =>
       /\ countedBy[r] < counter => at[r] + Window <= expireAt
       /\ countedBy[r] < counter - 1 => at[r] + 2 * Window <= expireAt
       /\ \A q \in Request : countedBy[q] > countedBy[r] + 1 => at[r] + Window <= at[q]

\* A counter gives no number out twice, and who was admitted has one that is
\* within the limit.
Numbered ==
  /\ \A q, r \in Request :
       countedBy[r] > 0 /\ countedBy[q] = countedBy[r] /\ number[q] = number[r] => q = r
  /\ \A r \in Request : pc[r] = "admitted" => countedBy[r] > 0 /\ number[r] \in 1..Limit

SpanInv == Apart /\ Numbered

LEMMA SpanInit == Init => SpanInv
BY ConstantsAssumption DEF Init, SpanInv, Apart, Numbered, Kept

\* Redis counts a request.
LEMMA SpanEval == ASSUME IInv, SpanInv, NEW r \in Request, Eval(r) PROVE SpanInv'
<1> USE ConstantsAssumption DEF IInv, SpanInv
<1>1. /\ countedBy[r] = 0 /\ number[r] = 0 /\ pc[r] \notin {"rejected", "admitted"}
      /\ now \in Nat /\ count \in Nat /\ counter \in Nat /\ expireAt \in Nat
      /\ \A q \in Request : countedBy[q] \in 0..counter /\ at[q] \in 0..now /\ number[q] \in Nat
  BY DEF CountedOnce, TypeOK, Eval
<1>2. /\ countedBy'[r] = counter' /\ number'[r] = count + 1 /\ at'[r] = now
      /\ \A q \in Request \ {r} : countedBy'[q] = countedBy[q] /\ number'[q] = number[q] /\ at'[q] = at[q]
      /\ now' = now /\ pc' = pc /\ count' = count + 1
  BY DEF TypeOK, Eval
<1>3. \A q \in Request : Kept(q)' => q = r \/ (Kept(q) /\ q # r)
  BY <1>2 DEF Kept
<1>4. CASE count = 0
  <2>1. counter' = counter + 1 /\ expireAt' = now + Window /\ count' = 1 /\ expireAt <= now
    BY <1>4, <1>1 DEF Eval, expireOnce, Apart
  <2>2. Apart'
    BY <1>1, <1>2, <1>3, <2>1 DEF Apart
  <2>3. Numbered'
    BY <1>1, <1>2, <2>1 DEF Numbered
  <2>4. QED
    BY <2>2, <2>3
<1>5. CASE count > 0
  <2>1. /\ counter' = counter /\ expireAt' = expireAt /\ count' > 0
        /\ now < expireAt /\ expireAt <= now + Window
    BY <1>5, <1>1 DEF Eval, expireOnce, CounterExpires
  <2>2. Apart'
    BY <1>1, <1>2, <1>3, <2>1 DEF Apart
  <2>3. \A q \in Request : countedBy[q] = counter => number[q] <= count
    BY <1>5, <1>1 DEF CountedOnce
  <2>4. Numbered'
    BY <1>1, <1>2, <2>1, <2>3 DEF Numbered
  <2>5. QED
    BY <2>2, <2>4
<1>6. QED
  BY <1>1, <1>4, <1>5

\* The reply is read: who is refused is dated anew, and later.
LEMMA SpanDecide == ASSUME IInv, SpanInv, NEW r \in Request, Decide(r) PROVE SpanInv'
<1> USE ConstantsAssumption DEF IInv, SpanInv, Decide, redis
<1>1. /\ now \in Nat /\ \A q \in Request : at[q] \in 0..now /\ number[q] \in Nat
      /\ countedBy[r] > 0 /\ number[r] # 0
  BY DEF CountedOnce, TypeOK
<1>2. /\ \A q \in Request : at[q] <= at'[q] /\ (Kept(q)' => Kept(q) /\ at'[q] = at[q])
      /\ now' = now /\ count' = count /\ expireAt' = expireAt /\ counter' = counter
      /\ countedBy' = countedBy /\ number' = number
  BY <1>1 DEF Kept, TypeOK
<1>3. Apart'
  BY <1>1, <1>2 DEF Apart, TypeOK
<1>4. \A q \in Request : pc'[q] = "admitted" => pc[q] = "admitted" \/ (q = r /\ ~exceeded(r))
  BY DEF TypeOK
<1>5. Numbered'
  BY <1>1, <1>2, <1>4 DEF Numbered, exceeded
<1>6. QED
  BY <1>3, <1>5

\* The steps that count nobody and decide nothing.
LEMMA SpanQuiet ==
  ASSUME IInv, SpanInv,
         \/ \E r \in Request : Arrive(r) \/ CacheError(r) \/ Kill(r)
         \/ Tick \/ UNCHANGED vars
  PROVE  SpanInv'
<1> USE ConstantsAssumption DEF IInv, SpanInv
<1>1. /\ UNCHANGED history /\ expireAt' = expireAt
      /\ \A q \in Request : pc'[q] = "rejected" <=> pc[q] = "rejected"
      /\ \A q \in Request : pc'[q] = "admitted" => pc[q] = "admitted"
  BY DEF Arrive, CacheError, Kill, failOpen, Tick, vars, redis, TypeOK
<1>2. count' = 0 => expireAt' <= now'
  BY DEF Arrive, CacheError, Kill, Tick, vars, redis, TypeOK, Apart, CounterExpires
<1>3. Apart'
  BY <1>1, <1>2 DEF Apart, Kept, history
<1>4. Numbered'
  BY <1>1 DEF Numbered, history
<1>5. QED
  BY <1>3, <1>4

LEMMA SpanAlways == Spec => [](IInv /\ SpanInv)
<1>1. IInv /\ SpanInv /\ [Next]_vars => SpanInv'
  BY SpanEval, SpanDecide, SpanQuiet DEF Next
<1>2. QED
  BY SpanInit, InvAlways, <1>1, PTL DEF Spec

\* No two that were admitted within a window are two counters apart, so that two
\* counters have counted all of them, and each of the two gave out Limit numbers
\* that admit: in any window no more than twice the limit get through,
\* however late the replies are read (deps.py:107-116).
THEOREM WindowAdmitsTwiceLimit == Spec => []AtMostTwiceLimit
<1>1. ASSUME IInv, SpanInv, NEW t \in 0..now
      PROVE  Cardinality(Admitted(t, t + Window - 1)) <= 2 * Limit
  <2> DEFINE A == Admitted(t, t + Window - 1)
  <2> USE <1>1, ConstantsAssumption DEF IInv, SpanInv
  <2>1. /\ now \in Nat /\ t \in Nat /\ counter \in Nat
        /\ \A r \in Request : countedBy[r] \in 0..counter /\ number[r] \in Nat /\ at[r] \in Nat
    BY DEF TypeOK
  <2>2. \A r \in A : /\ r \in Request /\ Kept(r) /\ number[r] \in 1..Limit
                    /\ countedBy[r] \in 1..counter /\ at[r] \in t..(t + Window - 1)
    <3>1. SUFFICES ASSUME NEW r \in Request, pc[r] = "admitted", at[r] \in t..(t + Window - 1)
                   PROVE  Kept(r) /\ number[r] \in 1..Limit /\ countedBy[r] \in 1..counter
      BY DEF Admitted
    <3>2. countedBy[r] > 0 /\ number[r] \in 1..Limit
      BY <3>1 DEF Numbered
    <3>3. QED
      BY <2>1, <3>1, <3>2 DEF Kept
  <2> HIDE DEF A
  <2>3. \A q, r \in A : countedBy[q] <= countedBy[r] + 1
    <3>1. SUFFICES ASSUME NEW q \in A, NEW r \in A, countedBy[q] > countedBy[r] + 1 PROVE FALSE
      BY <2>1, <2>2
    <3>2. at[r] + Window <= at[q]
      BY <2>2, <3>1 DEF Apart
    <3>3. QED
      BY <2>1, <2>2, <3>2
  <2>4. PICK low \in Nat : \A r \in A : countedBy[r] \in {low, low + 1}
    <3>1. CASE \E q, r \in A : countedBy[q] = countedBy[r] + 1
      <4>1. PICK q, r \in A : countedBy[q] = countedBy[r] + 1
        BY <3>1
      <4>2. \A p \in A : countedBy[p] \in {countedBy[r], countedBy[r] + 1}
        BY <2>1, <2>2, <2>3, <4>1
      <4>3. QED
        BY <2>1, <2>2, <4>1, <4>2
    <3>2. CASE ~\E q, r \in A : countedBy[q] = countedBy[r] + 1
      <4>1. \A q, r \in A : countedBy[q] = countedBy[r]
        BY <2>1, <2>2, <2>3, <3>2
      <4>2. QED
        BY <2>1, <2>2, <4>1
    <3>3. QED
      BY <3>1, <3>2
  <2> DEFINE place == [r \in A |-> IF countedBy[r] = low THEN number[r] ELSE Limit + number[r]]
             T == 1..(2 * Limit)
  <2>5. \A r \in A : place[r] \in T
    BY <2>1, <2>2
  <2>6. place \in [A -> T]
    BY <2>5
  <2>7. ASSUME NEW q \in A, NEW r \in A, place[q] = place[r] PROVE q = r
    BY <2>1, <2>2, <2>4, <2>7 DEF Numbered
  <2>8. place \in Injection(A, T)
    BY <2>6, <2>7 DEF Injection, IsInjective
  <2>9. IsFiniteSet(T) /\ Cardinality(T) = 2 * Limit
    BY FS_Interval
  <2>10. QED
    BY <2>8, <2>9, FS_Injection DEF A
<1>2. IInv /\ SpanInv => AtMostTwiceLimit
  BY <1>1 DEF AtMostTwiceLimit
<1>3. QED
  BY SpanAlways, <1>2, PTL
=============================================================================
