----------------------------- MODULE ApiRollout -----------------------------
(***************************************************************************)
(* A rolling update of the API: the life of a process (app/core/lifespan.py *)
(* with what it opens and closes), its settings (app/core/config.py), its  *)
(* readiness (app/api/v1/routes/health.py) and the Deployment that acts on *)
(* it (src/infra/k8s/base/api-deployment.yaml).                            *)
(*                                                                         *)
(* uvicorn, which runs the lifespan, stops listening at SIGTERM and waits  *)
(* for its requests before it resumes the lifespan after the yield; it is  *)
(* given no time-out of its own (src/infra/docker/api.Dockerfile:51).      *)
(* Whoever routes requests learns of a pod's deletion within Lag ticks.    *)
(* Not covered: crashes of a process or a node, autoscaling, /healthz,     *)
(* which answers whatever the dependencies do.                             *)
(***************************************************************************)
EXTENDS Integers, FiniteSets, Sequences, SequencesExt

CONSTANTS
  Old, New,        \* the pods of the version that runs and of the next one
  OldVersion, NewVersions,
  Request,
  Replicas, MaxSurge, MaxUnavailable, PreStop, Grace,   \* of the Deployment
  Lag,             \* bound: ticks until a deletion is known everywhere
  MaxOutages, MaxFaults   \* bounds: outages of a dependency, failing closes

Dependency == {"db", "redis"}
Version == [environment : {"development", "staging", "production"},
            secret_key : {"change-me", "short", "strong"},
            origins : Seq({"", "site", "*"}),    \* CORS_ORIGINS between its commas
            replica : BOOLEAN, traced : BOOLEAN, \* DATABASE_READ_URL, OTEL_..._ENDPOINT
            raises : {"none", "tracer", "engine", "reader", "cache"},   \* step of lifespan, if any
            reaches : SUBSET Dependency]

ASSUME ConstantsAssumption ==
  /\ Old \cap New = {} /\ {"new", "refused", "answered", "lost"} \cap (Old \cup New) = {}
  /\ IsFiniteSet(Old) /\ IsFiniteSet(New)
  /\ Cardinality(Old) = Replicas /\ Cardinality(New) = Replicas
  /\ {OldVersion} \cup NewVersions \subseteq Version
  /\ Replicas \in Nat /\ MaxSurge \in Nat /\ MaxUnavailable \in 0..Replicas
  /\ Lag < PreStop /\ PreStop < Grace /\ {Lag, PreStop, Grace} \subseteq Nat
  /\ MaxOutages \in Nat /\ MaxFaults \in Nat

VARIABLES
  next,        \* the version that is rolled out
  outage, outages, faults,
  pc,          \* of a process: absent, booting, refused, serving, draining, closing, exited
  open,        \* what it has open
  failed,      \* a close has raised
  ready,       \* the kubelet's last word
  age,         \* ticks since the pod was deleted, -1 before
  endpoints,   \* where requests are routed to
  req          \* new, refused, answered, lost, or the pod that works on it

process == <<pc, open, failed>>
vars == <<next, outage, outages, faults, process, ready, age, endpoints, req>>

Pod == Old \cup New
version(p) == IF p \in Old THEN OldVersion ELSE next

-----------------------------------------------------------------------------
(* Settings *)

\* Blank parts are dropped.
_split_cors_origins(v) == SelectSeq(v.origins, LAMBDA o : o # "")

\* No ValueError at boot.
_enforce_production_safety(v) ==
  v.environment = "production" =>
    /\ v.secret_key = "strong"
    /\ LET cors == ToSet(_split_cors_origins(v)) IN cors # {} /\ "*" \notin cors

\* The process boots, and reaches what its handlers and /readyz need.
Sound(v) == _enforce_production_safety(v) /\ v.raises = "none" /\ v.reaches = Dependency

\* The version that runs is one that works.
ASSUME RunningAssumption == Sound(OldVersion)

-----------------------------------------------------------------------------
(* The lifespan.  A definition whose comment starts with "Slip:" is no     *)
(* part of the specification: it is the definition after it with one       *)
(* plausible mistake in it, there to show that a property notices.         *)

init_engine(v) == {"engine"} \cup IF v.replica THEN {"reader"} ELSE {}
create_cache == {"cache"}
create_http_client == {"http"}
setup_tracing(v) == IF v.traced THEN {"tracer"} ELSE {}

startup(v) == setup_tracing(v) \cup init_engine(v) \cup create_cache \cup create_http_client

\* What the steps before the one that raises have made, as a URL without an async
\* driver does at init_engine.
Place == [tracer |-> 1, engine |-> 2, reader |-> 3, cache |-> 4, http |-> 5, none |-> 6]
made(v) == {x \in startup(v) : Place[x] < Place[v.raises]}

\* get_client makes the queue's client for the first enqueue.
get_client(p) == open[p] \cup {"queue"}

\* get_session, get_read_session: a missing engine is made anew.
get_session(p) == IF "engine" \in open[p] THEN open[p] ELSE open[p] \cup init_engine(version(p))

Alive(p) == pc[p] \notin {"absent", "exited"}
Deleted(p) == age[p] >= 0
At(p) == {r \in Request : req[r] = p}
Goto(p, place) == pc' = [pc EXCEPT ![p] = place]

Init ==
  /\ next \in NewVersions
  /\ outage = {} /\ outages = 0 /\ faults = 0
  /\ pc = [p \in Pod |-> IF p \in Old THEN "serving" ELSE "absent"]
  /\ open = [p \in Pod |-> IF p \in Old THEN startup(OldVersion) ELSE {}]
  /\ failed = [p \in Pod |-> FALSE]
  /\ ready = [p \in Pod |-> p \in Old]
  /\ age = [p \in Pod |-> -1]
  /\ endpoints = Old
  /\ req = [r \in Request |-> "new"]

\* lifespan up to its yield: no step of it waits.  A step that raises ends the
\* process outside of the try (lifespan.py:42): what was made is not closed.
Startup(p) ==
  /\ pc[p] = "booting"
  /\ \/ /\ _enforce_production_safety(version(p))
        /\ Goto(p, IF version(p).raises = "none" THEN "serving" ELSE "refused")
        /\ open' = [open EXCEPT ![p] = made(version(p))]
     \/ /\ ~_enforce_production_safety(version(p))
        /\ Goto(p, "refused") /\ UNCHANGED open
  /\ UNCHANGED <<next, outage, outages, faults, failed, ready, age, endpoints, req>>

\* uvicorn has seen the last request end.
drained(p) == At(p) = {}

Resume(p) ==
  /\ pc[p] = "draining" /\ drained(p)
  /\ Goto(p, "closing")
  /\ UNCHANGED <<next, outage, outages, faults, open, failed, ready, age, endpoints, req>>

dispose_engine == <<"engine", "reader">>

\* Slip: the producer's client is forgotten.
forgets == <<>>

aclose == <<"queue">>

ClosingOrder == <<"cache", "http">> \o aclose \o dispose_engine

\* What is still to be closed, by its place in the order.
Closes(p) == {i \in DOMAIN ClosingOrder : ClosingOrder[i] \in open[p]}

Close(p) ==
  /\ pc[p] = "closing"
  /\ \E i \in Closes(p) :
       /\ \A j \in Closes(p) : i <= j
       /\ open' = [open EXCEPT ![p] = @ \ {ClosingOrder[i]}]
  /\ UNCHANGED <<next, outage, outages, faults, pc, failed, ready, age, endpoints, req>>

\* A close raises: the lifespan, and with it the process, ends there.
CloseRaises(p) ==
  /\ pc[p] = "closing" /\ Closes(p) # {} /\ faults < MaxFaults
  /\ faults' = faults + 1
  /\ failed' = [failed EXCEPT ![p] = TRUE]
  /\ Goto(p, "exited")
  /\ open' = [open EXCEPT ![p] = @ \ {"tracer"}]
  /\ UNCHANGED <<next, outage, outages, ready, age, endpoints, req>>

\* The tracer is shut down by its exit handler.
Exit(p) ==
  /\ pc[p] = "closing" /\ Closes(p) = {}
  /\ Goto(p, "exited")
  /\ open' = [open EXCEPT ![p] = @ \ {"tracer"}]
  /\ UNCHANGED <<next, outage, outages, faults, failed, ready, age, endpoints, req>>

-----------------------------------------------------------------------------
(* Requests and dependencies *)

reach(p, d) == d \in version(p).reaches \ outage

Send(r, p) ==
  /\ req[r] = "new" /\ p \in endpoints
  /\ req' = [req EXCEPT ![r] = IF pc[p] = "serving" THEN p ELSE "refused"]
  /\ UNCHANGED <<next, outage, outages, faults, process, ready, age, endpoints>>

\* A handler takes a session, and may enqueue a job.
Work(r) ==
  /\ req[r] \in Pod
  /\ open' = [open EXCEPT ![req[r]] = get_session(req[r]) \cup @]
       \/ open' = [open EXCEPT ![req[r]] = get_client(req[r]) \cup @]
  /\ UNCHANGED <<next, outage, outages, faults, pc, failed, ready, age, endpoints, req>>

\* It returns or raises: the client is answered either way.
Finish(r) ==
  /\ req[r] \in Pod
  /\ req' = [req EXCEPT ![r] = "answered"]
  /\ UNCHANGED <<next, outage, outages, faults, process, ready, age, endpoints>>

Outage ==
  /\ outage = {} /\ outages < MaxOutages
  /\ outage' \in {{d} : d \in Dependency}
  /\ outages' = outages + 1
  /\ UNCHANGED <<next, faults, process, ready, age, endpoints, req>>

OutageEnds ==
  /\ outage # {} /\ outage' = {}
  /\ UNCHANGED <<next, outages, faults, process, ready, age, endpoints, req>>

-----------------------------------------------------------------------------
(* The Deployment *)

\* Slip: 200 with "not_ready" in the body.
readyzAlways200(p) == TRUE

\* /readyz answers 200: SELECT 1 and a SET went through.
readyz(p) == reach(p, "db") /\ reach(p, "redis")

\* One success makes a pod ready; failures, when there are enough in a row,
\* make it unready.
Probe(p) ==
  /\ pc[p] = "serving"
  /\ ready' = [ready EXCEPT ![p] = readyz(p)]
  /\ ready' # ready
  /\ UNCHANGED <<next, outage, outages, faults, process, age, endpoints, req>>

Route ==
  /\ endpoints' = {p \in Pod : ready[p] /\ ~Deleted(p)}
  /\ endpoints' # endpoints
  /\ UNCHANGED <<next, outage, outages, faults, process, ready, age, req>>

Existing == {p \in Pod : pc[p] # "absent" /\ ~Deleted(p)}
Available == {p \in Existing : ready[p]}

Create(p) ==
  /\ p \in New /\ pc[p] = "absent"
  /\ Cardinality(Existing) < Replicas + MaxSurge
  /\ Goto(p, "booting")
  /\ UNCHANGED <<next, outage, outages, faults, open, failed, ready, age, endpoints, req>>

\* maxUnavailable: the pods left without p and without the new ones that are
\* not available are enough; a pod that is not available goes for nothing.
mayDelete(p) ==
  LET minAvailable == Replicas - MaxUnavailable
      unproven == (Existing \cap New) \ Available
  IN /\ Cardinality(Existing) - Cardinality(unproven) > minAvailable
     /\ ready[p] => Cardinality(Available) > minAvailable

Delete(p) ==
  /\ p \in Old /\ p \in Existing /\ mayDelete(p)
  /\ age' = [age EXCEPT ![p] = 0]
  /\ UNCHANGED <<next, outage, outages, faults, process, ready, endpoints, req>>

\* Slip: no preStop.
termDueAtOnce(p) == Deleted(p)

\* sleep 5
termDue(p) == age[p] >= PreStop

Sigterm(p) ==
  /\ termDue(p) /\ pc[p] = "serving"
  /\ Goto(p, "draining")
  /\ UNCHANGED <<next, outage, outages, faults, open, failed, ready, age, endpoints, req>>

\* SIGKILL at the end of terminationGracePeriodSeconds.
Sigkill(p) ==
  /\ age[p] = Grace /\ Alive(p)
  /\ Goto(p, "exited")
  /\ open' = [open EXCEPT ![p] = {}]
  /\ req' = [r \in Request |-> IF req[r] = p THEN "lost" ELSE req[r]]
  /\ UNCHANGED <<next, outage, outages, faults, failed, ready, age, endpoints>>

Dying == {p \in Pod : Deleted(p) /\ Alive(p)}

Tick ==
  /\ Dying # {}
  /\ \A p \in Dying : age[p] < Grace /\ (age[p] >= PreStop => pc[p] # "serving")
  /\ \A p \in endpoints : age[p] < Lag
  /\ age' = [p \in Pod |-> IF p \in Dying THEN age[p] + 1 ELSE age[p]]
  /\ UNCHANGED <<next, outage, outages, faults, process, ready, endpoints, req>>

Next ==
  \/ \E p \in Pod :
       \/ Startup(p) \/ Resume(p) \/ Close(p) \/ CloseRaises(p) \/ Exit(p)
       \/ Probe(p) \/ Create(p) \/ Delete(p) \/ Sigterm(p) \/ Sigkill(p)
  \/ \E r \in Request : (\E p \in Pod : Send(r, p)) \/ Work(r) \/ Finish(r)
  \/ Outage \/ OutageEnds \/ Route \/ Tick

Spec == Init /\ [][Next]_vars

-----------------------------------------------------------------------------
\* A rollout refuses nobody: when a pod stops listening, every router knows that
\* it goes ("avoiding dropped requests", api-deployment.yaml:79).
NeverRefused == \A r \in Request : req[r] # "refused"

\* Whatever is rolled out, with a dependency that goes and comes at any moment,
\* there are as many pods as the Deployment asks for that serve and whose own
\* settings let them reach what they need: a version that cannot is not promoted
\* ("let a bad rollout get promoted", health.py:33).
CapacityKept ==
  Cardinality({p \in Pod : pc[p] = "serving" /\ ~Deleted(p) /\ Sound(version(p))}) >= Replicas - MaxUnavailable

\* A process closes nothing that a request may need, opens nothing anew once it
\* closes, and ends with nothing open, other than after a close that raised or a
\* start that did, when no connection was made yet ("so no connections leak and in-flight work can drain", lifespan.py:4-5).
CleanShutdown ==
  \A p \in Pod :
    /\ At(p) # {} => pc[p] \in {"serving", "draining"} /\ init_engine(version(p)) \cup {"cache", "http"} \subseteq open[p]
    /\ pc[p] = "exited" => open[p] = {} \/ failed[p]
=============================================================================
