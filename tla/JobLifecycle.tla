---------------------------- MODULE JobLifecycle ----------------------------
(***************************************************************************)
(* What the job queue promises of each job, with no list, worker or Redis  *)
(* in sight: a job leaves the queue only for a reason.  The docstring of   *)
(* app/workers/worker.py:3-11 is the prose version; Lose is the one step   *)
(* it does not own up to.                                                  *)
(***************************************************************************)
EXTENDS Naturals

CONSTANTS
  Job,
  Droppable,     \* jobs some worker has no handler for
  MaxAttempts

VARIABLES
  phase,         \* none, live, done, dead, dropped or lost
  tries,         \* how often the handler raised
  handled        \* jobs the handler has returned from

vars == <<phase, tries, handled>>

Init ==
  /\ phase = [j \in Job |-> "none"]
  /\ tries = [j \in Job |-> 0]
  /\ handled = {}

Leave(j, from, to) == phase[j] = from /\ phase' = [phase EXCEPT ![j] = to]

Accept(j) == Leave(j, "none", "live") /\ UNCHANGED <<tries, handled>>

Succeed(j) ==
  phase[j] = "live" /\ handled' = handled \cup {j} /\ UNCHANGED <<phase, tries>>

Fail(j) ==
  /\ phase[j] = "live" /\ tries' = [tries EXCEPT ![j] = @ + 1]
  /\ UNCHANGED <<phase, handled>>

\* Acknowledged only after the handler succeeded, at least once.
Retire(j) == j \in handled /\ Leave(j, "live", "done") /\ UNCHANGED <<tries, handled>>

\* Dead-lettered only after MaxAttempts failures.
Bury(j) ==
  tries[j] >= MaxAttempts /\ Leave(j, "live", "dead") /\ UNCHANGED <<tries, handled>>

Discard(j) ==
  j \in Droppable /\ Leave(j, "live", "dropped") /\ UNCHANGED <<tries, handled>>

\* Lost between LREM and RPUSH: never a job that has not failed yet.
Lose(j) == tries[j] > 0 /\ Leave(j, "live", "lost") /\ UNCHANGED <<tries, handled>>

Next ==
  \E j \in Job : \/ Accept(j) \/ Succeed(j) \/ Fail(j)
                 \/ Retire(j) \/ Bury(j) \/ Discard(j) \/ Lose(j)

Spec == Init /\ [][Next]_vars
=============================================================================
