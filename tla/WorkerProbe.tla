---------------------------- MODULE WorkerProbe ----------------------------
(***************************************************************************)
(* The worker's clock: how long a turn of the loop of _run                 *)
(* (app/workers/worker.py) takes, the heartbeat file it touches, the probe *)
(* of infra/k8s/base/worker-deployment.yaml that looks at the file's age,  *)
(* and SIGTERM with its grace period.  Time passes in ticks.               *)
(*                                                                         *)
(* Whatever a place of the loop waits for takes at most left more ticks;   *)
(* a place is left at any time before.  turn and interrupted are history   *)
(* variables.                                                              *)
(***************************************************************************)
EXTENDS Integers

CONSTANTS
  Reply,         \* the longest a Redis command takes to be answered or to raise
  Block,         \* block_seconds
  MaxBackoff,    \* the 30 of min(backoff * 2, 30)
  MaxHandler,    \* the longest a handler takes that does not hang
  MaxRecover,    \* the longest recover_orphans takes
  InitialDelay, Period, FailureThreshold,   \* of the probe; the last is Kubernetes' 3
  Stale,         \* the 30 of the probe's command
  Grace          \* terminationGracePeriodSeconds

ASSUME ConstantsAssumption ==
  /\ Reply \in Nat /\ Block \in Nat /\ MaxBackoff \in Nat \ {0}
  /\ MaxHandler \in Nat /\ MaxRecover \in Nat
  /\ InitialDelay \in Nat /\ Period \in Nat \ {0} /\ FailureThreshold \in Nat \ {0}
  /\ Stale \in Nat /\ Grace \in Nat

\* What the manifest chooses among them.
ASSUME ProbeAssumption == InitialDelay < Stale /\ Period < Stale

VARIABLES
  pc,           \* down, recover, top, llen, fetch, handle, record, backoff, wedged
  left, backoff,
  stop, grace,  \* the event; how long until SIGKILL
  age,          \* of the heartbeat file, which outlives the container (emptyDir)
  next, strikes,  \* ticks to the next probe; how many have failed in a row
  turn,         \* ticks since the loop's last turn, or the container's start
  touched,      \* the loop has had a turn in this container
  interrupted   \* a handler that had not hung was killed

process == <<pc, left, backoff>>
signal  == <<stop, grace>>
kubelet == <<next, strikes>>
history == <<turn, touched, interrupted>>
vars == <<process, signal, age, kubelet, history>>

InLoop == {"llen", "fetch", "handle", "record"}

\* A missing file is as good as an old one: getmtime raises and the probe fails.
Init ==
  /\ pc = "down" /\ left = 0 /\ backoff = 1
  /\ stop = FALSE /\ grace = 0
  /\ age = Stale
  /\ next = 0 /\ strikes = 0
  /\ turn = 0 /\ touched = FALSE /\ interrupted = FALSE

Enter(loc, time) == pc' = loc /\ left' = time

-----------------------------------------------------------------------------
(* The container *)

\* A definition whose comment starts with "Slip:" is no part of the
\* specification: it is the definition after it with one plausible mistake in
\* it, there to show that a property notices.

\* Slip: the probe asks the metrics port, which a thread of its own serves.
metricsPortDead == pc = "down"

\* The probe's command exits with 1.
stale == age >= Stale

\* The container starts; the first probe comes after the delay.  A file that is
\* stale may as well have become so just now.
Start ==
  /\ pc = "down"
  /\ Enter("recover", MaxRecover) /\ backoff' = 1
  /\ stop' = FALSE /\ grace' = 0
  /\ next' \in InitialDelay..(InitialDelay + Period) /\ strikes' = 0
  /\ turn' = 0 /\ touched' = FALSE
  /\ age' = IF stale THEN Stale ELSE age
  /\ UNCHANGED interrupted

\* SIGTERM, and SIGKILL after the grace period.
Sigterm == stop' = TRUE /\ grace' = Grace

\* A rolling update, a scale-down or an eviction.
Terminate ==
  /\ pc # "down" /\ ~stop
  /\ Sigterm
  /\ UNCHANGED <<process, age, kubelet, history>>

Sigkill ==
  /\ pc # "down" /\ stop /\ grace = 0
  /\ Enter("down", 0)
  /\ interrupted' = (interrupted \/ pc \in {"handle", "record"})
  /\ UNCHANGED <<backoff, signal, age, kubelet, turn, touched>>

\* A probe; the last of FailureThreshold failures in a row ends the container.
Probe ==
  /\ pc # "down" /\ ~stop /\ next = 0
  /\ \/ ~stale /\ strikes' = 0 /\ next' = Period /\ UNCHANGED signal
     \/ /\ stale
        /\ strikes' = strikes + 1
        /\ next' = Period
        /\ IF strikes' = FailureThreshold THEN Sigterm ELSE UNCHANGED signal
  /\ UNCHANGED <<process, age, history>>

-----------------------------------------------------------------------------
(* _run *)

\* recover_orphans is done, or raises, which ends the process.
Recovered ==
  /\ pc = "recover"
  /\ Enter("top", 0) \/ Enter("down", 0)
  /\ UNCHANGED <<backoff, signal, age, kubelet, history>>

\* Slip: the file is touched only when Redis answers.
touchUnlessFailing == age' = IF backoff = 1 THEN 0 ELSE age

_heartbeat == age' = 0

\* Slip: while True.
TurnAnyway ==
  /\ pc = "top"
  /\ _heartbeat /\ Enter("llen", Reply)
  /\ turn' = 0 /\ touched' = TRUE
  /\ UNCHANGED <<backoff, signal, kubelet, interrupted>>

\* The while test, and the heartbeat.
Turn ==
  /\ pc = "top"
  /\ \/ stop /\ Enter("down", 0) /\ UNCHANGED <<age, turn, touched>>
     \/ ~stop /\ _heartbeat /\ Enter("llen", Reply) /\ turn' = 0 /\ touched' = TRUE
  /\ UNCHANGED <<backoff, signal, kubelet, interrupted>>

\* LLEN, BLMOVE, the handler, LREM and RPUSH, in turn.
Advance ==
  /\ \/ pc = "llen"   /\ Enter("fetch", Block + Reply)  /\ UNCHANGED backoff
     \/ pc = "fetch"  /\ Enter("handle", MaxHandler)    /\ UNCHANGED backoff
     \/ pc = "handle" /\ Enter("record", 2 * Reply)     /\ UNCHANGED backoff
     \/ pc \in {"fetch", "record"} /\ Enter("top", 0)   /\ backoff' = 1
  /\ UNCHANGED <<signal, age, kubelet, history>>

\* Slip: no min.
doubled == 2 * backoff

nextBackoff == IF 2 * backoff < MaxBackoff THEN 2 * backoff ELSE MaxBackoff

\* ConnectionError or TimeoutError.
Error ==
  /\ pc \in {"llen", "fetch", "record"}
  /\ Enter("backoff", backoff)
  /\ backoff' = nextBackoff
  /\ UNCHANGED <<signal, age, kubelet, history>>

\* The timer, or stop.
BackoffEnd ==
  /\ pc = "backoff" /\ (left = 0 \/ stop)
  /\ Enter("top", 0)
  /\ UNCHANGED <<backoff, signal, age, kubelet, history>>

\* A handler that blocks the event loop, or never returns.
Wedge ==
  /\ pc = "handle"
  /\ Enter("wedged", 0)
  /\ UNCHANGED <<backoff, signal, age, kubelet, history>>

-----------------------------------------------------------------------------
\* Nothing is late: not the loop, the probe, nor SIGKILL.
Tick ==
  /\ pc # "down" /\ (left > 0 \/ pc = "wedged")
  /\ IF stop THEN grace > 0 ELSE next > 0
  /\ left' = IF pc = "wedged" THEN 0 ELSE left - 1
  /\ age' = age + 1 /\ turn' = turn + 1
  /\ IF stop THEN grace' = grace - 1 /\ UNCHANGED next ELSE next' = next - 1 /\ UNCHANGED grace
  /\ UNCHANGED <<pc, backoff, stop, strikes, touched, interrupted>>

TickDown ==
  /\ pc = "down" /\ ~stale
  /\ age' = age + 1
  /\ UNCHANGED <<process, signal, kubelet, history>>

Next ==
  \/ Start \/ Terminate \/ Sigkill \/ Probe
  \/ Recovered \/ Turn \/ Advance \/ Error \/ BackoffEnd \/ Wedge
  \/ Tick \/ TickDown

Spec == Init /\ [][Next]_vars

-----------------------------------------------------------------------------
\* Types, and: once the loop has had a turn, the file is as old as the turn.
TypeOK ==
  /\ pc \in {"down", "recover", "top", "backoff", "wedged"} \cup InLoop
  /\ left \in Nat /\ backoff \in 1..MaxBackoff
  /\ stop \in BOOLEAN /\ grace \in 0..Grace
  /\ age \in Nat /\ turn \in Nat
  /\ next \in 0..(InitialDelay + Period) /\ strikes \in 0..FailureThreshold
  /\ touched \in BOOLEAN /\ interrupted \in BOOLEAN
  /\ pc # "down" /\ touched => age = turn
  /\ pc \in InLoop \cup {"wedged"} => touched

\* The longest a turn takes after which the probe cannot strike out.
TurnLimit == (FailureThreshold - 1) * Period + (IF touched THEN Stale ELSE InitialDelay)

\* "A deadlocked consume loop stops touching the heartbeat file"
\* (worker-deployment.yaml:47), and no other does: whatever Redis and the
\* handlers do, the probe ends only a container whose loop has had no turn for
\* as long as the failed probes and the age they allow add up to.
OnlySlowTurnsAreStopped ==
  [][strikes < FailureThreshold /\ strikes' = FailureThreshold => turn >= TurnLimit]_vars

\* "So this probe fails and the pod is restarted" (worker-deployment.yaml:47-48):
\* a loop that hangs is killed by then, whenever it began to hang and even if
\* the probe has just passed or SIGTERM has just come.
WedgedIsReplaced == pc = "wedged" => turn <= Stale + FailureThreshold * Period + Grace

\* "Allow in-flight jobs to finish on rolling deploys"
\* (worker-deployment.yaml:81): SIGTERM, from the probe or a deployment, comes
\* at any point of a turn, also just before BLMOVE brings another job, and
\* the turn ends before SIGKILL.
NoJobInterrupted == ~interrupted
=============================================================================
