---------------------------- MODULE RateLimiter ----------------------------
(***************************************************************************)
(* rate_limit (app/api/v1/deps.py) over RedisCache.incr                    *)
(* (app/cache/redis.py): the requests of one client to one route, served   *)
(* by any number of API processes that share one counter in Redis.  The    *)
(* script that counts is one step of Redis; what a request does before and *)
(* after it are steps of their own.  Time passes in ticks.                 *)
(***************************************************************************)
EXTENDS Integers, FiniteSets

CONSTANTS
  Request,
  Limit, Window,   \* of the route; Window in ticks
  MaxTime,         \* bound: the last tick
  MaxFaults        \* bound: Redis errors and killed processes

ASSUME ConstantsAssumption ==
  /\ Limit \in Nat /\ Window \in Nat \ {0}
  /\ MaxTime \in Nat /\ MaxFaults \in Nat

VARIABLES
  now, faults,
  count, expireAt,   \* the counter in Redis; count = 0: there is none
  queued,            \* requests whose EVAL Redis has yet to run
  pc,                \* idle, waiting; or what became of the request
  (* History: *)
  counter,           \* how many counters there were
  countedBy,         \* which of them counted each request, 0 if none did
  number,            \* the count Redis found for it
  at                 \* when; for a rejected request, when it was rejected

redis == <<count, expireAt, queued>>
history == <<counter, countedBy, number, at>>
vars == <<now, faults, redis, pc, history>>

Ended == {"admitted", "rejected", "failedOpen", "gone"}

Init ==
  /\ now = 0 /\ faults = 0
  /\ count = 0 /\ expireAt = 0 /\ queued = {}
  /\ pc = [r \in Request |-> "idle"]
  /\ counter = 0
  /\ countedBy = [r \in Request |-> 0]
  /\ number = [r \in Request |-> 0]
  /\ at = [r \in Request |-> 0]

-----------------------------------------------------------------------------
(* A definition whose comment starts with "Slip:" is no part of the        *)
(* specification: it is the definition after it with one plausible mistake *)
(* in it, there to show that a property notices.                           *)

\* cache.incr is called.
Arrive(r) ==
  /\ pc[r] = "idle"
  /\ pc' = [pc EXCEPT ![r] = "waiting"]
  /\ queued' = queued \cup {r}
  /\ UNCHANGED <<now, faults, count, expireAt, history>>

\* Slip: EXPIRE at every request, so that the window slides.
expireAlways == expireAt' = now + Window

\* Slip: no EXPIRE: the counter is for ever.
expireNever == UNCHANGED expireAt

expireOnce == expireAt' = IF count' = 1 THEN now + Window ELSE expireAt

\* Redis runs _INCR_EXPIRE_LUA, for a request that may have given up by now.
Eval(r) ==
  /\ r \in queued
  /\ queued' = queued \ {r}
  /\ count' = count + 1
  /\ expireOnce
  /\ counter' = IF count = 0 THEN counter + 1 ELSE counter
  /\ countedBy' = [countedBy EXCEPT ![r] = counter']
  /\ number' = [number EXCEPT ![r] = count']
  /\ at' = [at EXCEPT ![r] = now]
  /\ UNCHANGED <<now, faults, pc>>

\* Slip: >= for >.
exceededAtLimit(r) == number[r] >= Limit

\* Slip: one more than there should be.
exceededLater(r) == number[r] > Limit + 1

exceeded(r) == number[r] > Limit

\* The reply arrives: the request goes on to its handler, or is answered 429
\* with Retry-After: Window.
Decide(r) ==
  /\ pc[r] = "waiting" /\ r \notin queued
  /\ \/ /\ exceeded(r)
        /\ pc' = [pc EXCEPT ![r] = "rejected"]
        /\ at' = [at EXCEPT ![r] = now]
     \/ ~exceeded(r) /\ pc' = [pc EXCEPT ![r] = "admitted"] /\ UNCHANGED at
  /\ UNCHANGED <<now, faults, redis, counter, countedBy, number>>

failOpen(r) == pc' = [pc EXCEPT ![r] = "failedOpen"]

\* The connection fails, times out, or none is free in the pool; the command
\* or its reply may be lost with it, or Redis may run it later.
CacheError(r) ==
  /\ pc[r] = "waiting" /\ faults < MaxFaults
  /\ faults' = faults + 1
  /\ failOpen(r)
  /\ queued' \in {queued, queued \ {r}}
  /\ UNCHANGED <<now, count, expireAt, history>>

\* The process is killed, or the task is cancelled, while it waits for Redis.
Kill(r) ==
  /\ pc[r] = "waiting" /\ faults < MaxFaults
  /\ faults' = faults + 1
  /\ pc' = [pc EXCEPT ![r] = "gone"]
  /\ queued' \in {queued, queued \ {r}}
  /\ UNCHANGED <<now, count, expireAt, history>>

\* Redis drops the counter when its time has come.
Tick ==
  /\ now < MaxTime
  /\ now' = now + 1
  /\ count' = IF now' = expireAt THEN 0 ELSE count
  /\ UNCHANGED <<faults, expireAt, queued, pc, history>>

Next ==
  \/ \E r \in Request : Arrive(r) \/ Eval(r) \/ Decide(r) \/ CacheError(r) \/ Kill(r)
  \/ Tick

Spec == Init /\ [][Next]_vars

-----------------------------------------------------------------------------
TypeOK ==
  /\ now \in Nat /\ faults \in 0..MaxFaults
  /\ count \in Nat /\ expireAt \in Nat /\ (count > 0 => now < expireAt)
  /\ queued \subseteq Request
  /\ pc \in [Request -> {"idle", "waiting"} \cup Ended]
  /\ counter \in Nat
  /\ countedBy \in [Request -> 0..counter]
  /\ number \in [Request -> Nat]
  /\ at \in [Request -> 0..now]

\* A client that waits as long as Retry-After says (deps.py:115), counted from
\* the moment it was refused, does not meet the counter that refused it, even
\* when others go on trying: "repeated increments don't slide the window"
\* (redis.py:94-95), and no counter is left without its expiry.
RetryAfterSuffices ==
  \A r \in Request :
    pc[r] = "rejected" /\ now >= at[r] + Window => count = 0 \/ countedBy[r] # counter

\* Whoever is refused comes after Limit others that the same counter counted and
\* that were not refused themselves, whether they were let through, cancelled
\* or lost their reply.
RefusedOnlyBeyondLimit ==
  \A r \in Request : pc[r] = "rejected" =>
    \A n \in 1..Limit : \E q \in Request :
      countedBy[q] = countedBy[r] /\ number[q] = n /\ pc[q] # "rejected"

Admitted(first, last) ==
  {r \in Request : pc[r] = "admitted" /\ at[r] \in first..last}

\* What the counters let through in any span of one window is at most twice
\* the limit, in whatever order the replies arrive: a burst at the end of one
\* counter and one at the start of the next.
AtMostTwiceLimit ==
  \A t \in 0..now : Cardinality(Admitted(t, t + Window - 1)) <= 2 * Limit
=============================================================================
