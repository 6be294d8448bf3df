------------------------------ MODULE JobQueue ------------------------------
(***************************************************************************)
(* The background job queue: app/workers/queue.py (producer) and           *)
(* app/workers/worker.py (consumer), over three kinds of Redis list.       *)
(*                                                                         *)
(* A step is what one process does between two awaits: one Redis command,  *)
(* one return of a handler, one signal.  A command is applied atomically   *)
(* by Redis; its reply may be lost (ConnectionError or TimeoutError after  *)
(* the command was applied) and the command may never arrive.  A process   *)
(* may be killed between any two steps.                                    *)
(*                                                                         *)
(* The variables caller, succeeded, failures, dropped and abandoned are    *)
(* history variables: no step reads them, the properties do.               *)
(***************************************************************************)
EXTENDS Integers, Sequences, FiniteSets, SequencesExt

CONSTANTS
  Job,           \* the jobs a service may enqueue (the uuid of each)
  Worker,        \* worker processes (one per container)
  Host,          \* values of the environment variable HOSTNAME
  InitHost,      \* HOSTNAME of each worker's first container
  Registered,    \* the jobs whose type has a handler in a worker's HANDLERS
  MaxAttempts,   \* MAX_ATTEMPTS
  NoMessage,     \* "this worker has no job in hand"
  MaxErrors,     \* bound: Redis commands that raise in the client
  MaxSignals     \* bound: SIGTERMs and SIGKILLs

ASSUME ConstantsAssumption ==
  /\ InitHost \in [Worker -> Host]
  /\ Registered \in [Worker -> SUBSET Job]
  /\ MaxAttempts \in Nat \ {0}
  /\ MaxErrors \in Nat
  /\ MaxSignals \in Nat
  /\ NoMessage \notin [id : Job, attempts : Nat]

\* The platform gives every container a HOSTNAME of its own.
ASSUME HostNamesAssumption ==
  \A v, w \in Worker : InitHost[v] = InitHost[w] => v = w

Message == [id : Job, attempts : Nat]

VARIABLES
  queue,        \* jobs:default
  processing,   \* jobs:processing:<host>, one list per host name
  dead,         \* jobs:dead
  host,         \* HOSTNAME of the container each worker runs in
  fresh,        \* host names no container has had yet
  pc,           \* where each worker is (see Location)
  held,         \* the message handle_job is working on
  stop,         \* the asyncio.Event set by SIGTERM and SIGINT
  lateMoves,    \* BLMOVEs Redis still holds whose client has given up
  errors, signals,
  caller,       \* what enqueue told its caller
  succeeded,    \* jobs some handler returned from
  failures,     \* how often each job's handler raised
  dropped,      \* jobs removed for want of a handler
  abandoned     \* jobs whose worker stopped between LREM and RPUSH

redis    == <<queue, processing, dead>>
pods     == <<host, fresh>>
faults   == <<errors, signals>>
outcomes == <<succeeded, failures, dropped, abandoned>>
vars == <<redis, pods, pc, held, stop, lateMoves, faults, caller, outcomes>>

\* down: no process.  recover: in recover_orphans.  top: at the while test.
\* fetch: in BLMOVE.  run: in the handler.  ack, drop, unlist: about to LREM.
\* requeue: about to RPUSH.  backoff: in wait_for(stop.wait()).
Location == {"down", "recover", "top", "fetch", "run", "ack", "drop",
             "unlist", "requeue", "backoff"}

Init ==
  /\ queue = <<>> /\ dead = <<>>
  /\ processing = [h \in Host |-> <<>>]
  /\ host = InitHost
  /\ fresh = Host \ {InitHost[w] : w \in Worker}
  /\ pc = [w \in Worker |-> "down"]
  /\ held = [w \in Worker |-> NoMessage]
  /\ stop = [w \in Worker |-> FALSE]
  /\ lateMoves = [h \in Host |-> 0]
  /\ errors = 0 /\ signals = 0
  /\ caller = [j \in Job |-> "idle"]
  /\ succeeded = {} /\ dropped = {} /\ abandoned = {}
  /\ failures = [j \in Job |-> 0]

-----------------------------------------------------------------------------
(* How a command ends for the worker that sent it.                         *)
(* A definition whose comment starts with "Slip:" is no part of the        *)
(* specification: it is the definition after it with one plausible mistake *)
(* in it, there to show that a property notices.                           *)

Goto(w, loc) == pc' = [pc EXCEPT ![w] = loc]

Replied(w, loc) == Goto(w, loc) /\ UNCHANGED errors

Raised == errors < MaxErrors /\ errors' = errors + 1

\* ConnectionError or TimeoutError inside the loop: the loop backs off and has
\* forgotten which message it was working on.
GaveUp(w) == Raised /\ Goto(w, "backoff")

\* Slip: the raw message outlives the call.
KeepsHold(w) == UNCHANGED held

LetGo(w) == held' = [held EXCEPT ![w] = NoMessage]

\* The name of a worker's processing list is that of its host.
pkey(w) == host[w]

\* Slip: attempts is updated first, so LREM looks for a message that is not there.
LremUpdated(w) ==
  processing' = [processing EXCEPT
                   ![pkey(w)] = RemoveFirst(@, [held[w] EXCEPT !.attempts = @ + 1])]

\* LREM pkey 1 raw
Lrem(w) ==
  processing' = [processing EXCEPT ![pkey(w)] = RemoveFirst(@, held[w])]

\* The jobs lost when worker w forgets what it holds: the message is in no list.
Loses(w) == IF pc[w] = "requeue" THEN {held[w].id} ELSE {}

-----------------------------------------------------------------------------
(* The producer. *)

\* enqueue: the caller gets an id, or an error although the job may be queued.
Enqueue(j) ==
  /\ caller[j] = "idle"
  /\ \/ /\ queue' = Append(queue, [id |-> j, attempts |-> 0])
        /\ \/ caller' = [caller EXCEPT ![j] = "accepted"] /\ UNCHANGED errors
           \/ caller' = [caller EXCEPT ![j] = "failed"] /\ Raised
     \/ /\ caller' = [caller EXCEPT ![j] = "failed"] /\ Raised
        /\ UNCHANGED queue
  /\ UNCHANGED <<processing, dead, pods, pc, held, stop, lateMoves, signals,
                 outcomes>>

-----------------------------------------------------------------------------
(* Starting a worker and recovering what an earlier process left. *)

\* The container restarts in its pod and keeps its HOSTNAME.
Restart(w) ==
  /\ pc[w] = "down"
  /\ Goto(w, "recover")
  /\ stop' = [stop EXCEPT ![w] = FALSE]
  /\ UNCHANGED <<redis, pods, held, lateMoves, faults, caller, outcomes>>

\* The pod is replaced: the new container has a HOSTNAME nobody had.
Replace(w) ==
  /\ pc[w] = "down"
  /\ \E h \in fresh : /\ host' = [host EXCEPT ![w] = h]
                      /\ fresh' = fresh \ {h}
  /\ Goto(w, "recover")
  /\ stop' = [stop EXCEPT ![w] = FALSE]
  /\ UNCHANGED <<redis, held, lateMoves, faults, caller, outcomes>>

\* One LMOVE of recover_orphans.  An error is not caught there: it ends the
\* process.
RecoverMove(w) ==
  /\ pc[w] = "recover"
  /\ processing[pkey(w)] # <<>>
  /\ queue' = Append(queue, Head(processing[pkey(w)]))
  /\ processing' = [processing EXCEPT ![pkey(w)] = Tail(@)]
  /\ Replied(w, "recover") \/ (Raised /\ Goto(w, "down"))
  /\ UNCHANGED <<dead, pods, held, stop, lateMoves, signals, caller, outcomes>>

\* Slip: the loop starts although the processing list is not empty.
RecoverSkipped(w) ==
  /\ pc[w] = "recover"
  /\ Replied(w, "top") \/ (Raised /\ Goto(w, "down"))
  /\ UNCHANGED <<redis, pods, held, stop, lateMoves, signals, caller, outcomes>>

\* LMOVE returned None, so the loop starts; or the command did not arrive.
RecoverEnd(w) ==
  /\ pc[w] = "recover"
  /\ \/ processing[pkey(w)] = <<>> /\ Replied(w, "top")
     \/ Raised /\ Goto(w, "down")
  /\ UNCHANGED <<redis, pods, held, stop, lateMoves, signals, caller, outcomes>>

-----------------------------------------------------------------------------
(* The loop. *)

\* Slip: while True.
PollAnyway(w) ==
  /\ pc[w] = "top"
  /\ Goto(w, "fetch")
  /\ UNCHANGED <<redis, pods, held, stop, lateMoves, faults, caller, outcomes>>

\* `while not stop.is_set()`, then the heartbeat and LLEN; the error of LLEN
\* is that of NoAnswer.
Poll(w) ==
  /\ pc[w] = "top" /\ ~stop[w]
  /\ Goto(w, "fetch")
  /\ UNCHANGED <<redis, pods, held, stop, lateMoves, faults, caller, outcomes>>

Exit(w) ==
  /\ pc[w] = "top" /\ stop[w]
  /\ Goto(w, "down")
  /\ UNCHANGED <<redis, pods, held, stop, lateMoves, faults, caller, outcomes>>

\* Slip: BLPOP instead of BLMOVE.
FetchByPop(w) ==
  /\ pc[w] = "fetch" /\ queue # <<>>
  /\ queue' = Tail(queue)
  /\ held' = [held EXCEPT ![w] = Head(queue)]
  /\ Goto(w, IF Head(queue).id \in Registered[w] THEN "run" ELSE "drop")
  /\ UNCHANGED <<processing, dead, pods, stop, lateMoves, faults, caller, outcomes>>

\* BLMOVE queue LEFT -> pkey RIGHT, and the first half of handle_job: choose
\* the handler.  A message that does not parse and one of an unknown type
\* take the same path.
Fetch(w) ==
  /\ pc[w] = "fetch" /\ queue # <<>>
  /\ queue' = Tail(queue)
  /\ processing' = [processing EXCEPT ![pkey(w)] = Append(@, Head(queue))]
  /\ held' = [held EXCEPT ![w] = Head(queue)]
  /\ Goto(w, IF Head(queue).id \in Registered[w] THEN "run" ELSE "drop")
  /\ UNCHANGED <<dead, pods, stop, lateMoves, faults, caller, outcomes>>

\* BLMOVE timed out on an empty queue.
FetchTimeout(w) ==
  /\ pc[w] = "fetch" /\ queue = <<>>
  /\ Goto(w, "top")
  /\ UNCHANGED <<redis, pods, held, stop, lateMoves, faults, caller, outcomes>>

\* The connection breaks while Redis has the BLMOVE: the server may serve it
\* all the same, until its timeout.
FetchBroken(w) ==
  /\ pc[w] = "fetch"
  /\ GaveUp(w)
  /\ lateMoves' = [lateMoves EXCEPT ![pkey(w)] = @ + 1]
  /\ UNCHANGED <<redis, pods, held, stop, signals, caller, outcomes>>

LateMove(h) ==
  /\ lateMoves[h] > 0 /\ queue # <<>>
  /\ queue' = Tail(queue)
  /\ processing' = [processing EXCEPT ![h] = Append(@, Head(queue))]
  /\ lateMoves' = [lateMoves EXCEPT ![h] = @ - 1]
  /\ UNCHANGED <<dead, pods, pc, held, stop, faults, caller, outcomes>>

LateTimeout(h) ==
  /\ lateMoves[h] > 0
  /\ lateMoves' = [lateMoves EXCEPT ![h] = @ - 1]
  /\ UNCHANGED <<redis, pods, pc, held, stop, faults, caller, outcomes>>

-----------------------------------------------------------------------------
(* The rest of handle_job. *)

HandlerReturns(w) ==
  /\ pc[w] = "run"
  /\ succeeded' = succeeded \cup {held[w].id}
  /\ Goto(w, "ack")
  /\ UNCHANGED <<redis, pods, held, stop, lateMoves, faults, caller, failures,
                 dropped, abandoned>>

\* Slip: a job whose handler raises is acknowledged.
RaisesAcks(w) ==
  /\ pc[w] = "run"
  /\ failures' = [failures EXCEPT ![held[w].id] = @ + 1]
  /\ Goto(w, "ack")
  /\ UNCHANGED <<redis, pods, held, stop, lateMoves, faults, caller, succeeded,
                 dropped, abandoned>>

HandlerRaises(w) ==
  /\ pc[w] = "run"
  /\ failures' = [failures EXCEPT ![held[w].id] = @ + 1]
  /\ Goto(w, "unlist")
  /\ UNCHANGED <<redis, pods, held, stop, lateMoves, faults, caller, succeeded,
                 dropped, abandoned>>

\* The LREM that acknowledges a job.
Ack(w) ==
  /\ pc[w] = "ack"
  /\ Lrem(w) /\ LetGo(w)
  /\ Replied(w, "top") \/ GaveUp(w)
  /\ UNCHANGED <<queue, dead, pods, stop, lateMoves, signals, caller, outcomes>>

\* Slip: a message without a handler goes back to the queue for another worker.
PutBack(w) ==
  /\ pc[w] = "drop"
  /\ Lrem(w) /\ LetGo(w)
  /\ queue' = Append(queue, held[w])
  /\ Replied(w, "top")
  /\ UNCHANGED <<dead, pods, stop, lateMoves, signals, caller, outcomes>>

\* The LREM that drops a message nobody here can handle.
Drop(w) ==
  /\ pc[w] = "drop"
  /\ Lrem(w) /\ LetGo(w)
  /\ Replied(w, "top") \/ GaveUp(w)
  /\ dropped' = dropped \cup {held[w].id}
  /\ UNCHANGED <<queue, dead, pods, stop, lateMoves, signals, caller, succeeded,
                 failures, abandoned>>

\* The LREM before a retry or a dead letter.
Unlist(w) ==
  /\ pc[w] = "unlist"
  /\ Lrem(w)
  /\ \/ Replied(w, "requeue") /\ UNCHANGED <<held, abandoned>>
     \/ /\ GaveUp(w) /\ LetGo(w)
        /\ abandoned' = abandoned \cup {held[w].id}
  /\ UNCHANGED <<queue, dead, pods, stop, lateMoves, signals, caller, succeeded,
                 failures, dropped>>

\* Slip: > for >=.
RequeueOnceTooOften(w) ==
  LET next == [held[w] EXCEPT !.attempts = @ + 1] IN
  /\ pc[w] = "requeue"
  /\ IF next.attempts > MaxAttempts
       THEN dead' = Append(dead, next) /\ UNCHANGED queue
       ELSE queue' = Append(queue, next) /\ UNCHANGED dead
  /\ LetGo(w)
  /\ Replied(w, "top") \/ GaveUp(w)
  /\ UNCHANGED <<processing, pods, stop, lateMoves, signals, caller, outcomes>>

\* The RPUSH to jobs:dead or back to jobs:default.
Requeue(w) ==
  LET next == [held[w] EXCEPT !.attempts = @ + 1] IN
  /\ pc[w] = "requeue"
  /\ IF next.attempts >= MaxAttempts
       THEN dead' = Append(dead, next) /\ UNCHANGED queue
       ELSE queue' = Append(queue, next) /\ UNCHANGED dead
  /\ LetGo(w)
  /\ Replied(w, "top") \/ GaveUp(w)
  /\ UNCHANGED <<processing, pods, stop, lateMoves, signals, caller, outcomes>>

\* A command of the loop that never reaches Redis.
NoAnswer(w) ==
  /\ pc[w] \in {"fetch", "ack", "drop", "unlist", "requeue"}
     \/ (pc[w] = "top" /\ ~stop[w])
  /\ GaveUp(w) /\ LetGo(w)
  /\ abandoned' = abandoned \cup Loses(w)
  /\ UNCHANGED <<redis, pods, stop, lateMoves, signals, caller, succeeded,
                 failures, dropped>>

\* The back-off timer fires, or stop wakes the wait early.
BackoffEnd(w) ==
  /\ pc[w] = "backoff"
  /\ Goto(w, "top")
  /\ UNCHANGED <<redis, pods, held, stop, lateMoves, faults, caller, outcomes>>

-----------------------------------------------------------------------------
(* Signals. *)

\* SIGTERM or SIGINT: the handler sets the event, nothing else.
Terminate(w) ==
  /\ pc[w] # "down" /\ ~stop[w]
  /\ signals < MaxSignals /\ signals' = signals + 1
  /\ stop' = [stop EXCEPT ![w] = TRUE]
  /\ UNCHANGED <<redis, pods, pc, held, lateMoves, errors, caller, outcomes>>

\* SIGKILL, an exception the loop does not catch, a lost node.
Kill(w) ==
  /\ pc[w] # "down"
  /\ signals < MaxSignals /\ signals' = signals + 1
  /\ Goto(w, "down") /\ LetGo(w)
  /\ abandoned' = abandoned \cup Loses(w)
  /\ UNCHANGED <<redis, pods, stop, lateMoves, errors, caller, succeeded,
                 failures, dropped>>

-----------------------------------------------------------------------------
Start(w)   == Restart(w) \/ Replace(w)
Recover(w) == RecoverMove(w) \/ RecoverEnd(w)
Handle(w)  == \/ HandlerReturns(w) \/ HandlerRaises(w)
              \/ Ack(w) \/ Drop(w) \/ Unlist(w) \/ Requeue(w)
Work(w)    == \/ Recover(w) \/ Poll(w) \/ Exit(w) \/ Fetch(w) \/ FetchTimeout(w)
              \/ Handle(w) \/ BackoffEnd(w)
Fault(w)   == FetchBroken(w) \/ NoAnswer(w) \/ Terminate(w) \/ Kill(w)

Next ==
  \/ \E j \in Job : Enqueue(j)
  \/ \E w \in Worker : Start(w) \/ Work(w) \/ Fault(w)
  \/ \E h \in Host : LateMove(h) \/ LateTimeout(h)

Spec == Init /\ [][Next]_vars

\* A process that runs takes its next step and its handlers return; the
\* platform starts a container that is down; Redis answers a blocked BLMOVE
\* within its timeout.  Nothing obliges a fault, an enqueue, or a LateMove.
Fairness ==
  /\ \A w \in Worker : WF_vars(Start(w)) /\ WF_vars(Work(w))
  /\ \A h \in Host : WF_vars(LateTimeout(h))

FairSpec == Spec /\ Fairness
=============================================================================
