------------------------- MODULE JobQueueProperties -------------------------
(***************************************************************************)
(* What the job queue of JobQueue must never do, and what it must do in    *)
(* the end.                                                                *)
(***************************************************************************)
EXTENDS JobQueue

\* Where a worker has a message in hand.
Holding == {"run", "ack", "drop", "unlist", "requeue"}

ListsOK ==
  /\ queue \in Seq(Message)
  /\ processing \in [Host -> Seq(Message)]
  /\ dead \in Seq(Message)

PlacesOK ==
  /\ pc \in [Worker -> Location]
  /\ held \in [Worker -> Message \cup {NoMessage}]
  /\ \A w \in Worker : pc[w] \in Holding <=> held[w] # NoMessage

PodsOK ==
  /\ host \in [Worker -> Host]
  /\ fresh \subseteq Host
  /\ stop \in [Worker -> BOOLEAN]
  /\ lateMoves \in [Host -> Nat]
  /\ errors \in Nat /\ signals \in Nat

HistoryOK ==
  /\ caller \in [Job -> {"idle", "accepted", "failed"}]
  /\ succeeded \subseteq Job /\ dropped \subseteq Job /\ abandoned \subseteq Job
  /\ failures \in [Job -> Nat]

\* The types, and: a worker has a message in hand exactly inside handle_job.
TypeOK == ListsOK /\ PlacesOK /\ PodsOK /\ HistoryOK

-----------------------------------------------------------------------------
(* Where a job is. *)

In(j, messages) == \E m \in messages : m.id = j

Listed == UNION {ToSet(processing[h]) : h \in Host}

Dead(j)    == In(j, ToSet(dead))
InHands(j) == {w \in Worker : pc[w] = "requeue" /\ held[w].id = j}
Live(j)    == In(j, ToSet(queue) \cup Listed) \/ InHands(j) # {}
Executing(w, j) == pc[w] = "run" /\ held[w].id = j

\* Every copy of a job: a position in a list, or a worker about to RPUSH it.
Copies(j) ==
  {<<"queue", i>> : i \in {n \in DOMAIN queue : queue[n].id = j}}
  \cup {<<"dead", i>> : i \in {n \in DOMAIN dead : dead[n].id = j}}
  \cup (UNION {{<<h, i>> : i \in {n \in DOMAIN processing[h] : processing[h][n].id = j}}
              : h \in Host})
  \cup {<<w, 0>> : w \in InHands(j)}

-----------------------------------------------------------------------------
(* Safety *)

\* However workers crash, retry and recover: no job is ever in two places (a
\* requeue never leaves the old message behind, recovery never copies); while its
\* handler may run or its outcome is not yet recorded, it is in the processing
\* list of the worker that holds it, so that a kill of that worker leaves
\* something to recover (worker.py:4-7); and two workers never run its handler
\* at the same time (a worker recovers only its own jobs, worker.py:71-73).
ExclusiveExecution ==
  /\ \A j \in Job : Cardinality(Copies(j)) <= 1
  /\ \A w \in Worker : pc[w] \in {"run", "ack", "drop", "unlist"} =>
                         held[w] \in ToSet(processing[pkey(w)])
  /\ \A j \in Job : \A v, w \in Worker : Executing(v, j) /\ Executing(w, j) => v = w

\* An accepted job never vanishes: it is in a list, in the hands of a worker,
\* was handled, was dropped for want of a handler, or is one of the jobs whose
\* worker stopped between the LREM and the RPUSH of handle_job, which is the
\* only gap through which a job can fall.
Accounted(j) == Live(j) \/ Dead(j) \/ j \in succeeded \cup dropped \cup abandoned
NoOtherLoss == \A j \in Job : caller[j] = "accepted" => Accounted(j)

\* A message never claims more attempts than its handler failed: crashes and
\* Redis errors cost a job none of its MAX_ATTEMPTS, a live message has one
\* left, and only a job that failed that often is in the dead-letter list.
AttemptsBacked ==
  /\ \A m \in ToSet(queue) \cup Listed :
       m.attempts <= failures[m.id] /\ m.attempts < MaxAttempts
  /\ \A w \in Worker : pc[w] \in {"unlist", "requeue"} =>
       held[w].attempts + 1 <= failures[held[w].id]
  /\ \A m \in ToSet(dead) :
       m.attempts = MaxAttempts /\ m.attempts <= failures[m.id]

\* While Redis answers every command, a worker that waits for its next job has
\* left nothing behind in its processing list, and nor has a worker that
\* stopped on SIGTERM: a graceful stop strands no job.
NothingLeftBehind ==
  errors = 0 => \A w \in Worker :
    \/ pc[w] \in {"top", "fetch", "requeue"}
    \/ pc[w] = "down" /\ stop[w] /\ signals = 1
    => processing[pkey(w)] = <<>>

\* The docstring's word on crashes (worker.py:5): "a crash or SIGKILL can't
\* lose it".
CrashLosesNoJob ==
  \A j \in Job : caller[j] = "accepted" =>
     Live(j) \/ Dead(j) \/ j \in succeeded \cup dropped

-----------------------------------------------------------------------------
(* Liveness *)

\* In a processing list, and no worker knows.
Stuck(j) ==
  /\ In(j, Listed)
  /\ \A w \in Worker : held[w] = NoMessage \/ held[w].id # j

\* Every pod has kept its name and every command was answered.
OnlyCrashes == errors = 0 /\ \A w \in Worker : host[w] = InitHost[w]

\* Whatever is killed and restarted, there comes a time from which every accepted
\* job is acknowledged, dropped or dead-lettered, or lost in the one gap.
EveryJobSettles ==
  <>[](\A j \in Job : caller[j] = "accepted" => ~Live(j) \/ ~OnlyCrashes)

\* Even when Redis fails commands and pods are replaced, the queue is worked
\* off: from some point on every job has left it for good, or waits in a
\* processing list for a restart.
ComesToRest == <>[](\A j \in Job : ~Live(j) \/ Stuck(j))

\* SIGTERM ends the process: the loop leaves after the job in hand, and also
\* out of the back-off.
StopsOnTerm == \A w \in Worker : stop[w] ~> pc[w] = "down"

-----------------------------------------------------------------------------
(* The implementation of JobLifecycle. *)

Droppable == {j \in Job : \E w \in Worker : j \notin Registered[w]}

\* The phase of a job, read off the lists.  A job that is nowhere must have
\* been handled.
Phase(j) == IF Live(j) THEN "live"
            ELSE IF Dead(j) THEN "dead"
            ELSE IF j \in abandoned THEN "lost"
            ELSE IF j \in dropped THEN "dropped"
            ELSE IF j \in succeeded THEN "done"
            ELSE "none"

Lifecycle == INSTANCE JobLifecycle
  WITH phase <- [j \in Job |-> Phase(j)], tries <- failures, handled <- succeeded

\* Every step of the queue, crashes and lost replies included, is a step of
\* the life of one job or none.
ImplementsLifecycle == Lifecycle!Spec
=============================================================================
