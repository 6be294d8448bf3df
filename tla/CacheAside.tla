----------------------------- MODULE CacheAside -----------------------------
(***************************************************************************)
(* get_or_set (app/cache/aside.py) for one key: tasks of several processes *)
(* that share one cache, with one asyncio.Lock per process.  A GET is a    *)
(* step of the cache, and the task sees a miss in its next step.           *)
(*                                                                         *)
(* A process's lock is the line of tasks that want it, in the order they   *)
(* asked for it; the first has it.  filled is a history variable: a task   *)
(* of the process has stored the value, and nothing has evicted it since.  *)
(***************************************************************************)
EXTENDS Sequences, SequencesExt

CONSTANTS
  Process, Task,
  Home,        \* the process each task runs in
  MaxFaults,   \* bound: errors of the cache or the factory, cancellations
  MaxEvictions \* bound: expiries and deletions of the key

ASSUME ConstantsAssumption ==
  /\ Home \in [Task -> Process]
  /\ MaxFaults \in Nat /\ MaxEvictions \in Nat

VARIABLES cached, sending, line, pc, faults, evictions, filled

vars == <<cached, sending, line, pc, faults, evictions, filled>>

Holds(t) == line[Home[t]] # <<>> /\ Head(line[Home[t]]) = t
Inside   == {"making", "storing"}      \* async with lock
Ended    == {"returned", "raised"}

Init ==
  /\ cached = FALSE /\ sending = {}
  /\ line = [p \in Process |-> <<>>]
  /\ pc = [t \in Task |-> "idle"]
  /\ faults = 0 /\ evictions = 0
  /\ filled = [p \in Process |-> FALSE]

Goto(t, loc) == pc' = [pc EXCEPT ![t] = loc]

-----------------------------------------------------------------------------
(* A definition whose comment starts with "Slip:" is no part of the        *)
(* specification: it is the definition after it with one plausible mistake *)
(* in it, there to show that a property notices.                           *)

\* Slip: the lock is not released when the task fails.
KeepLock(t) == UNCHANGED line

\* The lock is released, or the task no longer waits for it.
Leave(t) == line' = [line EXCEPT ![Home[t]] = RemoveFirst(@, t)]

\* The cache is looked up before the lock is asked for.
FirstGet(t) ==
  /\ pc[t] = "idle"
  /\ Goto(t, IF cached THEN "returned" ELSE "missed")
  /\ UNCHANGED <<cached, sending, line, faults, evictions, filled>>

Acquire(t) ==
  /\ pc[t] = "missed"
  /\ line' = [line EXCEPT ![Home[t]] = Append(@, t)]
  /\ Goto(t, "waiting")
  /\ UNCHANGED <<cached, sending, faults, evictions, filled>>

\* Slip: no second look at the cache.
SecondGetSkipped(t) ==
  /\ pc[t] = "waiting" /\ Holds(t)
  /\ Goto(t, "making")
  /\ UNCHANGED <<cached, sending, line, faults, evictions, filled>>

\* With the lock in hand the cache is looked up again.
SecondGet(t) ==
  /\ pc[t] = "waiting" /\ Holds(t)
  /\ \/ cached /\ Goto(t, "returned") /\ Leave(t)
     \/ ~cached /\ Goto(t, "making") /\ UNCHANGED line
  /\ UNCHANGED <<cached, sending, faults, evictions, filled>>

\* Slip: the value is stored after the lock is released.
StoreOutside(t) ==
  /\ pc[t] = "making"
  /\ sending' = sending \cup {t}
  /\ Goto(t, "storing")
  /\ Leave(t)
  /\ UNCHANGED <<cached, faults, evictions, filled>>

\* The factory returns; the value is on its way to the cache.
Make(t) ==
  /\ pc[t] = "making"
  /\ sending' = sending \cup {t}
  /\ Goto(t, "storing")
  /\ UNCHANGED <<cached, line, faults, evictions, filled>>

\* The cache runs SET, for a task that may have given up by now.
Set(t) ==
  /\ t \in sending
  /\ sending' = sending \ {t}
  /\ cached' = TRUE
  /\ filled' = [filled EXCEPT ![Home[t]] = @ \/ pc[t] = "storing"]
  /\ UNCHANGED <<line, pc, faults, evictions>>

Return(t) ==
  /\ pc[t] = "storing" /\ t \notin sending
  /\ Goto(t, "returned")
  /\ Leave(t)
  /\ UNCHANGED <<cached, sending, faults, evictions, filled>>

\* The cache raises, at the first look already, or the factory does, or the task
\* is cancelled; a SET on its way may be lost or run later.
Raise(t) ==
  /\ pc[t] \notin Ended /\ faults < MaxFaults
  /\ faults' = faults + 1
  /\ Goto(t, "raised")
  /\ Leave(t)
  /\ sending' \in {sending, sending \ {t}}
  /\ UNCHANGED <<cached, evictions, filled>>

Evict ==
  /\ cached /\ evictions < MaxEvictions
  /\ evictions' = evictions + 1
  /\ cached' = FALSE
  /\ filled' = [p \in Process |-> FALSE]
  /\ UNCHANGED <<sending, line, pc, faults>>

Run(t) ==
  FirstGet(t) \/ Acquire(t) \/ SecondGet(t) \/ Make(t) \/ Set(t) \/ Return(t)

Next ==
  \/ \E t \in Task : Run(t) \/ Raise(t)
  \/ Evict

\* The event loop runs whoever can run, factories return, and a command to the
\* cache is answered or raises after socket_timeout (redis.py:119).
Spec == Init /\ [][Next]_vars /\ \A t \in Task : WF_vars(Run(t))

-----------------------------------------------------------------------------
\* Who stands in a line is one of that process's tasks, once, and waiting or
\* inside; whoever is inside has the lock.
TypeOK ==
  /\ cached \in BOOLEAN /\ sending \subseteq Task
  /\ pc \in [Task -> {"idle", "missed", "waiting"} \cup Inside \cup Ended]
  /\ faults \in 0..MaxFaults /\ evictions \in 0..MaxEvictions
  /\ filled \in [Process -> BOOLEAN]
  /\ line \in [Process -> Seq(Task)]
  /\ \A p \in Process :
       /\ IsInjective(line[p])
       /\ ToSet(line[p]) = {t \in Task : Home[t] = p /\ pc[t] \in {"waiting"} \cup Inside}
  /\ \A t \in Task : pc[t] \in Inside => Holds(t)

\* "A stampede of concurrent misses computes the value once per process"
\* (aside.py:10-11): the factory runs only if no task of its process is at it or
\* has stored the value since it was last evicted, however the others fail.
ComputesOncePerProcess ==
  [][\A t \in Task : pc[t] # "making" /\ pc'[t] = "making" =>
       /\ ~filled[Home[t]]
       /\ \A u \in Task : Home[u] = Home[t] => pc[u] \notin Inside]_vars

\* Nobody waits for ever: whatever fails, the lock goes on to the next.
EveryCallEnds == \A t \in Task : pc[t] = "missed" ~> pc[t] \in Ended
=============================================================================
