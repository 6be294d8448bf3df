-------------------------- MODULE ApiRolloutProofs --------------------------
(***************************************************************************)
(* A rolling update, for any number of pods, requests, outages and failing *)
(* closes, any version to roll out and any times that the Deployment may   *)
(* have: nobody is refused, enough pods serve, and processes end cleanly.  *)
(***************************************************************************)
EXTENDS ApiRollout, SequenceTheorems, FiniteSetTheorems, TLAPS

Phase    == {"absent", "booting", "refused", "serving", "draining", "closing", "exited"}
Resource == {"cache", "http", "queue", "engine", "reader", "tracer"}
Outcome  == {"new", "refused", "answered", "lost"}

Typed ==
  /\ next \in NewVersions
  /\ pc \in [Pod -> Phase] /\ open \in [Pod -> SUBSET Resource]
  /\ failed \in [Pod -> BOOLEAN] /\ ready \in [Pod -> BOOLEAN]
  /\ age \in [Pod -> Int]
  /\ endpoints \subseteq Pod
  /\ req \in [Request -> Pod \cup Outcome]

\* An old pod serves until it is deleted, a new one is not deleted.
Kept(p) ==
  /\ p \in Old /\ ~Deleted(p) => pc[p] = "serving"
  /\ p \in New => age[p] = -1

\* A new pod serves if its settings let it boot, and was ready only if they let
\* it reach its dependencies.
Proven(p) ==
  /\ p \in New /\ pc[p] = "serving" => _enforce_production_safety(next) /\ next.raises = "none"
  /\ ready[p] /\ ~Deleted(p) => pc[p] = "serving" /\ (p \in New => Sound(next))

\* Who is routed to listens, and was not deleted long ago.
Routed(p) == p \in endpoints => pc[p] = "serving" /\ age[p] <= Lag

\* A process has what requests need as long as it has requests, and loses it all
\* before it ends.
Opened(p) ==
  /\ pc[p] \in {"serving", "draining"} => init_engine(version(p)) \cup {"cache", "http"} \subseteq open[p]
  /\ At(p) # {} => pc[p] \in {"serving", "draining"}
  /\ pc[p] = "exited" => open[p] = {} \/ failed[p]

PodInv(p) == Kept(p) /\ Proven(p) /\ Routed(p) /\ Opened(p)

IInv == Typed /\ NeverRefused /\ \A p \in Pod : PodInv(p)

-----------------------------------------------------------------------------
(* The definitions that the steps use. *)

LEMMA Sorts ==
  /\ \A p \in Pod : p \notin Outcome
  /\ \A p \in Pod : p \in Old <=> p \notin New
  /\ Lag \in Nat /\ PreStop \in Nat /\ Grace \in Nat /\ Lag < PreStop /\ PreStop < Grace
  /\ Old \subseteq Pod /\ New \subseteq Pod
BY ConstantsAssumption DEF Pod, Outcome

LEMMA Opens ==
  ASSUME NEW v
  PROVE  /\ init_engine(v) \subseteq Resource /\ init_engine(v) \subseteq {"engine", "reader"}
         /\ startup(v) \subseteq Resource /\ made(v) \subseteq Resource
         /\ init_engine(v) \cup {"cache", "http"} \subseteq startup(v)
         /\ v.raises = "none" => made(v) = startup(v)
<1>1. init_engine(v) \subseteq {"engine", "reader"}
  BY DEF init_engine
<1>2. /\ startup(v) \subseteq {"tracer", "engine", "reader", "cache", "http"}
      /\ init_engine(v) \cup {"cache", "http"} \subseteq startup(v)
  BY <1>1 DEF startup, setup_tracing, create_cache, create_http_client
<1>3. \A x \in {"tracer", "engine", "reader", "cache", "http"} : Place[x] < Place["none"]
  BY DEF Place
<1>4. QED
  BY <1>1, <1>2, <1>3 DEF made, Resource

\* The lifespan closes everything but the tracer.
LEMMA Order ==
  /\ \A i \in DOMAIN ClosingOrder : ClosingOrder[i] \in Resource
  /\ \A x \in Resource \ {"tracer"} : \E i \in DOMAIN ClosingOrder : ClosingOrder[i] = x
<1> DEFINE a == <<"cache", "http">>
           b == <<"queue">>
           c == <<"engine", "reader">>
           d == a \o b
           o == d \o c
<1>1. a \in Seq(Resource) /\ b \in Seq(Resource) /\ c \in Seq(Resource)
  BY DEF Resource
<1>2. /\ Len(a) = 2 /\ a[1] = "cache" /\ a[2] = "http"
      /\ Len(b) = 1 /\ b[1] = "queue"
      /\ Len(c) = 2 /\ c[1] = "engine" /\ c[2] = "reader"
  OBVIOUS
<1> HIDE DEF a, b, c
<1>3. d \in Seq(Resource) /\ Len(d) = 3 /\ d[1] = "cache" /\ d[2] = "http" /\ d[3] = "queue"
  <2>1. d \in Seq(Resource) /\ Len(d) = Len(a) + Len(b)
    BY <1>1, ConcatProperties
  <2>2. \A i \in 1 .. Len(a) + Len(b) : d[i] = IF i <= Len(a) THEN a[i] ELSE b[i - Len(a)]
    BY <1>1, ConcatProperties
  <2> HIDE DEF d
  <2>3. QED
    BY <1>2, <2>1, <2>2
<1> HIDE DEF d
<1>4. /\ o \in Seq(Resource) /\ Len(o) = 5
      /\ o[1] = "cache" /\ o[2] = "http" /\ o[3] = "queue" /\ o[4] = "engine" /\ o[5] = "reader"
  <2>1. o \in Seq(Resource) /\ Len(o) = Len(d) + Len(c)
    BY <1>1, <1>3, ConcatProperties
  <2>2. \A i \in 1 .. Len(d) + Len(c) : o[i] = IF i <= Len(d) THEN d[i] ELSE c[i - Len(d)]
    BY <1>1, <1>3, ConcatProperties
  <2>3. Len(d) = 3 /\ Len(c) = 2
    BY <1>2, <1>3
  <2> HIDE DEF o
  <2>4. QED
    BY <1>2, <1>3, <2>1, <2>2, <2>3
<1>5. ClosingOrder = o
  BY DEF ClosingOrder, aclose, dispose_engine, a, b, c, d
<1> HIDE DEF o
<1>6. DOMAIN ClosingOrder = 1..5
  BY <1>4, <1>5
<1>7. QED
  BY <1>4, <1>5, <1>6 DEF Resource

-----------------------------------------------------------------------------
(* Every step keeps the invariant. *)

LEMMA InvInit == Init => IInv
<1> SUFFICES ASSUME Init PROVE IInv
  OBVIOUS
<1>1. Typed
  BY Opens, Sorts DEF Init, Typed, Phase, Outcome
<1>2. NeverRefused
  BY DEF Init, NeverRefused
<1>3. ASSUME NEW p \in Pod PROVE PodInv(p)
  <2>1. At(p) = {}
    BY Sorts DEF Init, At, Outcome
  <2>2. Kept(p)
    BY Sorts DEF Init, Kept, Deleted
  <2>3. Proven(p)
    <3>1. (ready[p] <=> p \in Old) /\ (pc[p] = "serving" <=> p \in Old)
      BY DEF Init
    <3>2. QED
      BY <3>1, Sorts DEF Proven
  <2> Routed(p)
    <3>1. age[p] = -1 /\ endpoints = Old /\ (p \in Old => pc[p] = "serving")
      BY DEF Init
    <3>2. QED
      BY <3>1, Sorts DEF Routed
  <2>4. Opened(p)
    BY <2>1, Sorts, Opens DEF Init, Opened, version
  <2>5. QED
    BY <2>2, <2>3, <2>4 DEF PodInv
<1>4. QED
  BY <1>1, <1>2, <1>3 DEF IInv

\* A pod of which nothing changes keeps its part.
LEMMA OthersKeep ==
  ASSUME NEW p \in Pod, PodInv(p), next' = next, endpoints' = endpoints,
         pc'[p] = pc[p], open'[p] = open[p], failed'[p] = failed[p], ready'[p] = ready[p],
         age'[p] = age[p], At(p)' \subseteq At(p)
  PROVE  PodInv(p)'
BY DEF PodInv, Kept, Proven, Routed, Opened, Deleted, version

\* What the lifespan does: it starts, goes on after its yield, and closes.
LEMMA InvLifespan ==
  ASSUME IInv, NEW p \in Pod,
         Startup(p) \/ Resume(p) \/ Close(p) \/ CloseRaises(p) \/ Exit(p)
  PROVE  IInv'
<1> USE DEF IInv, Goto
<1>1. /\ UNCHANGED <<next, ready, age, endpoints, req>>
      /\ \A q \in Pod \ {p} : pc'[q] = pc[q] /\ open'[q] = open[q] /\ failed'[q] = failed[q]
  BY DEF Startup, Resume, Close, CloseRaises, Exit, Typed
<1>2. \A q \in Pod : At(q)' = At(q)
  BY <1>1 DEF At
<1>3. pc[p] \in {"booting", "draining", "closing"}
  BY DEF Startup, Resume, Close, CloseRaises, Exit
<1>4. ~(p \in Old /\ ~Deleted(p)) /\ p \notin endpoints /\ ~(ready[p] /\ ~Deleted(p))
  BY <1>3 DEF PodInv, Kept, Routed, Proven
<1>5. Typed' /\ Opened(p)' /\ (p \in New /\ pc'[p] = "serving" => _enforce_production_safety(next) /\ next.raises = "none")
  <2>1. CASE Startup(p)
    <3> DEFINE v == version(p)
               boots == _enforce_production_safety(v) /\ v.raises = "none"
    <3>1. /\ pc' = [pc EXCEPT ![p] = IF boots THEN "serving" ELSE "refused"]
          /\ \/ open' = open /\ ~boots
             \/ open' = [open EXCEPT ![p] = made(v)]
          /\ failed' = failed /\ pc[p] = "booting"
      BY <2>1 DEF Startup
    <3>2. At(p) = {}
      BY <3>1 DEF PodInv, Opened
    <3>3. Typed'
      BY <1>1, <3>1, Opens DEF Typed, Phase
    <3>4. Opened(p)'
      BY <1>1, <1>2, <3>1, <3>2, Opens DEF Typed, Opened, version
    <3>5. QED
      BY <3>1, <3>3, <3>4, Sorts DEF Typed, version
  <2>2. CASE Resume(p)
    <3>1. pc' = [pc EXCEPT ![p] = "closing"] /\ UNCHANGED <<open, failed>> /\ At(p) = {}
      BY <2>2 DEF Resume, drained
    <3>2. QED
      BY <1>1, <1>2, <3>1 DEF Typed, Phase, Opened, version
  <2>3. CASE Close(p)
    <3>1. PICK i \in Closes(p) : open' = [open EXCEPT ![p] = @ \ {ClosingOrder[i]}]
      BY <2>3 DEF Close
    <3>2. UNCHANGED <<pc, failed>> /\ pc[p] = "closing"
      BY <2>3 DEF Close
    <3>3. At(p) = {}
      BY <3>2 DEF PodInv, Opened
    <3>4. QED
      BY <1>1, <1>2, <3>1, <3>2, <3>3 DEF Typed, Opened
  <2>4. CASE CloseRaises(p)
    <3>1. /\ pc' = [pc EXCEPT ![p] = "exited"] /\ failed' = [failed EXCEPT ![p] = TRUE]
          /\ open' = [open EXCEPT ![p] = @ \ {"tracer"}] /\ pc[p] = "closing"
      BY <2>4 DEF CloseRaises
    <3>2. At(p) = {}
      BY <3>1 DEF PodInv, Opened
    <3>3. QED
      BY <1>1, <1>2, <3>1, <3>2 DEF Typed, Phase, Opened
  <2>5. CASE Exit(p)
    <3>1. /\ pc' = [pc EXCEPT ![p] = "exited"] /\ failed' = failed /\ pc[p] = "closing"
          /\ open' = [open EXCEPT ![p] = @ \ {"tracer"}] /\ Closes(p) = {}
      BY <2>5 DEF Exit
    <3>2. At(p) = {}
      BY <3>1 DEF PodInv, Opened
    <3>3. open[p] \subseteq {"tracer"}
      BY <3>1, Order DEF Closes, Typed
    <3>4. open'[p] = {}
      BY <3>1, <3>3 DEF Typed
    <3>5. QED
      BY <1>1, <1>2, <3>1, <3>2, <3>4 DEF Typed, Phase, Opened
  <2>6. QED
    BY <2>1, <2>2, <2>3, <2>4, <2>5
<1>6. PodInv(p)'
  BY <1>1, <1>3, <1>4, <1>5 DEF PodInv, Kept, Proven, Routed, Deleted
<1>7. \A q \in Pod \ {p} : PodInv(q)'
  BY <1>1, <1>2, OthersKeep
<1>8. QED
  BY <1>1, <1>5, <1>6, <1>7 DEF NeverRefused

\* What the kubelet finds of a process: a version that does not reach what it
\* needs is never ready.
LEMMA InvProbe ==
  ASSUME IInv, NEW p \in Pod, Probe(p)
  PROVE  IInv'
<1> USE DEF IInv
<1>1. /\ pc[p] = "serving" /\ ready' = [ready EXCEPT ![p] = readyz(p)]
      /\ UNCHANGED <<next, pc, open, failed, age, endpoints, req>>
  BY DEF Probe, process
<1>2. Typed'
  BY <1>1 DEF Typed, readyz, reach
<1>3. \A q \in Pod : At(q)' = At(q)
  BY <1>1 DEF At
<1>4. ASSUME ready'[p], p \in New PROVE Sound(next)
  <2>1. readyz(p) /\ version(p) = next
    BY <1>1, <1>4, Sorts DEF Typed, version
  <2>2. next.reaches \in SUBSET Dependency
    BY ConstantsAssumption DEF Typed, Version
  <2>3. next.reaches = Dependency
    BY <2>1, <2>2 DEF readyz, reach, Dependency
  <2>4. _enforce_production_safety(next) /\ next.raises = "none"
    BY <1>1, <1>4 DEF PodInv, Proven
  <2>5. QED
    BY <2>3, <2>4 DEF Sound
<1>5. PodInv(p)'
  BY <1>1, <1>3, <1>4 DEF PodInv, Kept, Proven, Routed, Opened, Deleted, version
<1>6. \A q \in Pod \ {p} : PodInv(q)'
  BY <1>1, <1>3, OthersKeep DEF Typed
<1>7. QED
  BY <1>1, <1>2, <1>5, <1>6 DEF NeverRefused

\* What the Deployment does to one pod.
LEMMA InvDeployment ==
  ASSUME IInv, NEW p \in Pod, Create(p) \/ Delete(p) \/ Sigterm(p) \/ Sigkill(p)
  PROVE  IInv'
<1> USE DEF IInv, Goto
<1>1. CASE Create(p)
  <2>1. /\ p \in New /\ pc[p] = "absent" /\ pc' = [pc EXCEPT ![p] = "booting"]
        /\ UNCHANGED <<next, open, failed, ready, age, endpoints, req>>
    BY <1>1 DEF Create
  <2>2. Typed' /\ \A q \in Pod : At(q)' = At(q)
    BY <2>1 DEF Typed, Phase, At
  <2>3. PodInv(p)'
    BY <2>1, <2>2, Sorts DEF Typed, PodInv, Kept, Proven, Routed, Opened, Deleted, version
  <2>4. \A q \in Pod \ {p} : PodInv(q)'
    BY <2>1, <2>2, OthersKeep DEF Typed
  <2>5. QED
    BY <2>1, <2>2, <2>3, <2>4 DEF NeverRefused
<1>2. CASE Delete(p)
  <2>1. /\ p \in Old /\ age' = [age EXCEPT ![p] = 0]
        /\ UNCHANGED <<next, pc, open, failed, ready, endpoints, req>>
    BY <1>2 DEF Delete, process
  <2>2. Typed' /\ \A q \in Pod : At(q)' = At(q)
    BY <2>1 DEF Typed, At
  <2>3. PodInv(p)'
    BY <2>1, <2>2, Sorts DEF Typed, PodInv, Kept, Proven, Routed, Opened, Deleted, version
  <2>4. \A q \in Pod \ {p} : PodInv(q)'
    BY <2>1, <2>2, OthersKeep DEF Typed
  <2>5. QED
    BY <2>1, <2>2, <2>3, <2>4 DEF NeverRefused
<1>3. CASE Sigterm(p)
  <2>1. /\ age[p] >= PreStop /\ pc[p] = "serving" /\ pc' = [pc EXCEPT ![p] = "draining"]
        /\ UNCHANGED <<next, open, failed, ready, age, endpoints, req>>
    BY <1>3 DEF Sigterm, termDue
  <2>2. Typed' /\ \A q \in Pod : At(q)' = At(q)
    BY <2>1 DEF Typed, Phase, At
  <2>3. Deleted(p) /\ p \notin endpoints
    BY <2>1, Sorts DEF Typed, PodInv, Routed, Deleted
  <2>4. PodInv(p)'
    BY <2>1, <2>2, <2>3, Sorts DEF Typed, PodInv, Kept, Proven, Routed, Opened, Deleted, version
  <2>5. \A q \in Pod \ {p} : PodInv(q)'
    BY <2>1, <2>2, OthersKeep DEF Typed
  <2>6. QED
    BY <2>1, <2>2, <2>4, <2>5 DEF NeverRefused
<1>4. CASE Sigkill(p)
  <2>1. /\ age[p] = Grace /\ pc' = [pc EXCEPT ![p] = "exited"]
        /\ open' = [open EXCEPT ![p] = {}]
        /\ req' = [r \in Request |-> IF req[r] = p THEN "lost" ELSE req[r]]
        /\ UNCHANGED <<next, failed, ready, age, endpoints>>
    BY <1>4 DEF Sigkill
  <2>2. Typed'
    BY <2>1 DEF Typed, Phase, Outcome
  <2>3. /\ At(p)' = {} /\ \A q \in Pod : At(q)' \subseteq At(q)
    BY <2>1, Sorts DEF At, Outcome
  <2>4. Deleted(p) /\ p \notin endpoints
    BY <2>1, Sorts DEF Typed, PodInv, Routed, Deleted
  <2>5. PodInv(p)'
    BY <2>1, <2>3, <2>4, Sorts DEF Typed, PodInv, Kept, Proven, Routed, Opened, Deleted
  <2>6. \A q \in Pod \ {p} : PodInv(q)'
    BY <2>1, <2>3, OthersKeep DEF Typed
  <2>7. NeverRefused'
    BY <2>1 DEF NeverRefused
  <2>8. QED
    BY <2>2, <2>5, <2>6, <2>7
<1>5. QED
  BY <1>1, <1>2, <1>3, <1>4

\* A request goes to a process that listens, and is done with before that ends.
LEMMA InvRequest ==
  ASSUME IInv, NEW r \in Request, (\E p \in Pod : Send(r, p)) \/ Work(r) \/ Finish(r)
  PROVE  IInv'
<1> USE DEF IInv
<1>1. ASSUME NEW p \in Pod, Send(r, p) PROVE IInv'
  <2>1. p \in endpoints /\ UNCHANGED <<next, pc, open, failed, ready, age, endpoints>>
    BY <1>1 DEF Send, process
  <2>2. pc[p] = "serving"
    BY <2>1 DEF PodInv, Routed
  <2>3. req' = [req EXCEPT ![r] = p]
    BY <1>1, <2>2 DEF Send
  <2>4. Typed' /\ NeverRefused'
    BY <2>1, <2>3, Sorts DEF Typed, NeverRefused, Outcome
  <2>5. \A q \in Pod \ {p} : At(q)' \subseteq At(q)
    BY <2>3 DEF Typed, At
  <2>6. \A q \in Pod \ {p} : PodInv(q)'
    BY <2>1, <2>5, OthersKeep
  <2>7. PodInv(p)'
    BY <2>1, <2>2 DEF PodInv, Kept, Proven, Routed, Opened, Deleted, version
  <2>8. QED
    BY <2>4, <2>6, <2>7
<1>2. CASE Work(r)
  <2>1. PICK p \in Pod : req[r] = p
    BY <1>2 DEF Work
  <2>2. UNCHANGED <<next, pc, failed, ready, age, endpoints, req>>
    BY <1>2 DEF Work
  <2>3. PICK more \in SUBSET Resource : open' = [open EXCEPT ![p] = more \cup @]
    <3>1. get_client(p) \in SUBSET Resource /\ get_session(p) \in SUBSET Resource
      BY Opens DEF Typed, get_client, get_session, Resource
    <3>2. QED
      BY <1>2, <2>1, <3>1 DEF Work
  <2>4. At(p) # {} /\ \A q \in Pod : At(q)' = At(q)
    BY <2>1, <2>2 DEF At
  <2>5. Typed'
    BY <2>2, <2>3 DEF Typed
  <2>6. open[p] \subseteq open'[p] /\ \A q \in Pod \ {p} : open'[q] = open[q]
    BY <2>2, <2>3 DEF Typed
  <2>7. pc[p] \in {"serving", "draining"}
    BY <2>2, <2>4 DEF PodInv, Opened
  <2>8. PodInv(p)'
    BY <2>2, <2>4, <2>6, <2>7 DEF PodInv, Kept, Proven, Routed, Opened, Deleted, version
  <2>9. \A q \in Pod \ {p} : PodInv(q)'
    BY <2>2, <2>4, <2>6, OthersKeep
  <2>10. QED
    BY <2>2, <2>5, <2>8, <2>9 DEF NeverRefused
<1>3. CASE Finish(r)
  <2>1. /\ req' = [req EXCEPT ![r] = "answered"]
        /\ UNCHANGED <<next, pc, open, failed, ready, age, endpoints>>
    BY <1>3 DEF Finish, process
  <2>2. Typed' /\ NeverRefused'
    BY <2>1 DEF Typed, NeverRefused, Outcome
  <2>3. \A q \in Pod : At(q)' \subseteq At(q)
    BY <2>1, Sorts DEF Typed, At, Outcome
  <2>4. \A q \in Pod : PodInv(q)'
    BY <2>1, <2>3, OthersKeep
  <2>5. QED
    BY <2>2, <2>4
<1>4. QED
  BY <1>1, <1>2, <1>3

\* What happens to all pods at once.
LEMMA InvCluster ==
  ASSUME IInv, Outage \/ OutageEnds \/ Route \/ Tick \/ UNCHANGED vars
  PROVE  IInv'
<1> USE DEF IInv
<1>1. UNCHANGED <<next, pc, open, failed, ready, req>>
  BY DEF Outage, OutageEnds, Route, Tick, vars, process
<1>2. NeverRefused' /\ \A q \in Pod : At(q)' = At(q)
  BY <1>1 DEF NeverRefused, At
<1>3. CASE age' = age /\ endpoints' = endpoints
  <2>1. Typed'
    BY <1>1, <1>3 DEF Typed
  <2>2. \A q \in Pod : PodInv(q)'
    BY <1>1, <1>2, <1>3, OthersKeep
  <2>3. QED
    BY <1>2, <2>1, <2>2
<1>4. CASE Route
  <2>1. endpoints' = {p \in Pod : ready[p] /\ ~Deleted(p)} /\ age' = age
    BY <1>4 DEF Route
  <2>2. Typed'
    BY <1>1, <2>1 DEF Typed
  <2>3. ASSUME NEW q \in Pod PROVE PodInv(q)'
    <3>1. Routed(q)'
      BY <1>1, <2>1, Sorts DEF Typed, PodInv, Proven, Routed, Deleted
    <3>2. QED
      BY <1>1, <1>2, <2>1, <3>1 DEF PodInv, Kept, Proven, Opened, Deleted, version
  <2>4. QED
    BY <1>2, <2>2, <2>3
<1>5. CASE Tick
  <2>1. /\ age' = [p \in Pod |-> IF p \in Dying THEN age[p] + 1 ELSE age[p]]
        /\ endpoints' = endpoints /\ \A p \in endpoints : age[p] < Lag
    BY <1>5 DEF Tick
  <2>2. Typed'
    BY <1>1, <2>1 DEF Typed
  <2>3. ASSUME NEW q \in Pod PROVE PodInv(q)'
    <3>1. (Deleted(q)' <=> Deleted(q)) /\ (age[q] = -1 => age'[q] = -1)
      BY <2>1 DEF Typed, Dying, Deleted
    <3>2. Routed(q)'
      BY <1>1, <2>1, Sorts DEF Typed, PodInv, Routed
    <3>3. Kept(q)' /\ Proven(q)'
      BY <1>1, <3>1 DEF PodInv, Kept, Proven
    <3>4. Opened(q)'
      BY <1>1, <1>2 DEF PodInv, Opened, version
    <3>5. QED
      BY <3>2, <3>3, <3>4 DEF PodInv
  <2>4. QED
    BY <1>2, <2>2, <2>3
<1>6. QED
  BY <1>3, <1>4, <1>5 DEF Outage, OutageEnds, vars, process

LEMMA InvNext == IInv /\ [Next]_vars => IInv'
BY InvLifespan, InvProbe, InvDeployment, InvRequest, InvCluster DEF Next

LEMMA InvAlways == Spec => []IInv
<1>1. QED
  BY InvInit, InvNext, PTL DEF Spec

\* A rollout refuses nobody, however many pods there are and however the times of
\* the Deployment are chosen, as long as a deletion is known everywhere before
\* preStop is over (lifespan.py, api-deployment.yaml).
THEOREM NobodyIsRefused == Spec => []NeverRefused
<1>1. IInv => NeverRefused
  BY DEF IInv
<1>2. QED
  BY <1>1, InvAlways, PTL

\* A process keeps what its requests need until it has answered them, and ends
\* with nothing open, other than after a close that raised (lifespan.py).
THEOREM ProcessesEndCleanly == Spec => []CleanShutdown
<1>1. IInv => CleanShutdown
  BY DEF IInv, PodInv, Opened, CleanShutdown
<1>2. QED
  BY <1>1, InvAlways, PTL

-----------------------------------------------------------------------------
(* Capacity.  Only a deletion takes a pod out of those that serve, and the *)
(* Deployment deletes one only when enough others are left: old ones, and  *)
(* new ones that were ready, which a version that cannot serve never is.   *)

Good == {p \in Pod : pc[p] = "serving" /\ ~Deleted(p) /\ Sound(version(p))}

\* The pods that mayDelete counts.
Counted == Existing \ ((Existing \cap New) \ Available)

LEMMA Finite == IsFiniteSet(Pod) /\ IsFiniteSet(Good) /\ IsFiniteSet(Existing)
<1>1. IsFiniteSet(Pod)
  BY ConstantsAssumption, FS_Union DEF Pod
<1>2. Good \subseteq Pod /\ Existing \subseteq Pod
  BY DEF Good, Existing
<1>3. QED
  BY <1>1, <1>2, FS_Subset

LEMMA CountedAreGood == IInv => Counted \subseteq Good
<1> SUFFICES ASSUME IInv, NEW q \in Counted PROVE q \in Good
  OBVIOUS
<1>1. q \in Pod /\ ~Deleted(q) /\ (q \in New => ready[q])
  BY DEF Counted, Existing, Available
<1>2. PodInv(q)
  BY <1>1 DEF IInv
<1>3. CASE q \in Old
  BY <1>1, <1>2, <1>3, RunningAssumption DEF PodInv, Kept, Good, version
<1>4. CASE q \in New
  BY <1>1, <1>2, <1>4, Sorts DEF PodInv, Proven, Good, version
<1>5. QED
  BY <1>1, <1>3, <1>4 DEF Pod

\* Every step but a deletion only adds to the pods that serve.
LEMMA GoodGrows ==
  ASSUME IInv, [Next]_vars, \A p \in Pod : ~Delete(p)
  PROVE  Good \subseteq Good'
<1> SUFFICES ASSUME NEW q \in Good PROVE pc'[q] = "serving" /\ ~Deleted(q)' /\ next' = next
  BY DEF Good, version
<1>1. q \in Pod /\ pc[q] = "serving" /\ ~Deleted(q) /\ pc \in [Pod -> Phase] /\ age \in [Pod -> Int]
  BY DEF Good, IInv, Typed
<1>2. CASE \E p \in Pod : Startup(p) \/ Resume(p) \/ Close(p) \/ CloseRaises(p) \/ Exit(p)
  <2>1. PICK p \in Pod : Startup(p) \/ Resume(p) \/ Close(p) \/ CloseRaises(p) \/ Exit(p)
    BY <1>2
  <2>2. q # p
    BY <1>1, <2>1 DEF Startup, Resume, Close, CloseRaises, Exit
  <2>3. QED
    BY <1>1, <2>1, <2>2 DEF Startup, Resume, Close, CloseRaises, Exit, Goto, Deleted
<1>3. CASE \E p \in Pod : Probe(p) \/ Create(p) \/ Sigterm(p) \/ Sigkill(p)
  <2>1. PICK p \in Pod : Probe(p) \/ Create(p) \/ Sigterm(p) \/ Sigkill(p)
    BY <1>3
  <2>2. CASE Probe(p)
    BY <1>1, <2>2 DEF Probe, process, Deleted
  <2>3. CASE Create(p)
    BY <1>1, <2>3 DEF Create, Goto, Deleted
  <2>4. CASE Sigterm(p) \/ Sigkill(p)
    <3>1. q # p
      BY <1>1, <2>4, Sorts DEF Sigterm, Sigkill, termDue, Deleted
    <3>2. QED
      BY <1>1, <2>4, <3>1 DEF Sigterm, Sigkill, Goto, Deleted
  <2>5. QED
    BY <2>1, <2>2, <2>3, <2>4
<1>4. CASE \E r \in Request : (\E p \in Pod : Send(r, p)) \/ Work(r) \/ Finish(r)
  BY <1>1, <1>4 DEF Send, Work, Finish, process, Deleted
<1>5. CASE Outage \/ OutageEnds \/ Route \/ UNCHANGED vars
  BY <1>1, <1>5 DEF Outage, OutageEnds, Route, vars, process, Deleted
<1>6. CASE Tick
  BY <1>1, <1>6 DEF Tick, Dying, process, Deleted
<1>7. QED
  BY <1>2, <1>3, <1>4, <1>5, <1>6 DEF Next

\* A deletion leaves enough of them.
LEMMA DeleteSpares ==
  ASSUME IInv, NEW p \in Pod, Delete(p)
  PROVE  CapacityKept'
<1>1. /\ p \in Old /\ p \in Existing /\ mayDelete(p)
      /\ age' = [age EXCEPT ![p] = 0] /\ UNCHANGED <<next, pc>>
  BY DEF Delete, process
<1> DEFINE unproven == (Existing \cap New) \ Available
<1>2. Existing \cap unproven = unproven /\ Counted = Existing \ unproven /\ IsFiniteSet(unproven)
  BY Finite, FS_Subset DEF Counted
<1>3. IsFiniteSet(Counted) /\ Cardinality(Counted) = Cardinality(Existing) - Cardinality(unproven)
  <2> HIDE DEF unproven
  <2>1. /\ IsFiniteSet(Existing \ unproven)
        /\ Cardinality(Existing \ unproven) = Cardinality(Existing) - Cardinality(Existing \cap unproven)
    BY Finite, FS_Difference
  <2>2. QED
    BY <1>2, <2>1
<1>4. p \in Counted
  BY <1>1, <1>2, Sorts
<1>5. /\ IsFiniteSet(Counted \ {p}) /\ Cardinality(Counted \ {p}) = Cardinality(Counted) - 1
  BY <1>3, <1>4, FS_RemoveElement
<1>6. Counted \ {p} \subseteq Good'
  <2> SUFFICES ASSUME NEW q \in Counted, q # p PROVE q \in Good'
    OBVIOUS
  <2>1. q \in Good
    BY CountedAreGood
  <2>2. QED
    BY <1>1, <2>1 DEF IInv, Typed, Good, Deleted, version
<1>7. IsFiniteSet(Good')
  <2>1. Good' \subseteq Pod
    BY DEF Good
  <2>2. QED
    BY <2>1, Finite, FS_Subset
<1>8. Cardinality(Counted \ {p}) <= Cardinality(Good')
  BY <1>6, <1>7, FS_Subset
<1>9. Cardinality(Existing) - Cardinality(unproven) > Replicas - MaxUnavailable
  BY <1>1 DEF mayDelete
<1>10. /\ Cardinality(Existing) \in Nat /\ Cardinality(unproven) \in Nat
       /\ Cardinality(Good') \in Nat /\ Replicas - MaxUnavailable \in Int
  BY <1>2, <1>7, Finite, FS_CardinalityType, ConstantsAssumption
<1>11. Cardinality(Good') >= Replicas - MaxUnavailable
  BY <1>3, <1>5, <1>8, <1>9, <1>10
<1>12. QED
  BY <1>11 DEF CapacityKept, Good

LEMMA CapacityStep == IInv /\ CapacityKept /\ [Next]_vars => CapacityKept'
<1> SUFFICES ASSUME IInv, CapacityKept, [Next]_vars PROVE CapacityKept'
  OBVIOUS
<1>1. CASE \E p \in Pod : Delete(p)
  BY <1>1, DeleteSpares
<1>2. CASE \A p \in Pod : ~Delete(p)
  <2>1. Good \subseteq Good' /\ IsFiniteSet(Good')
    <3>1. Good' \subseteq Pod
      BY DEF Good
    <3>2. QED
      BY <1>2, <3>1, GoodGrows, Finite, FS_Subset
  <2>2. /\ Cardinality(Good) <= Cardinality(Good')
        /\ Cardinality(Good) \in Nat /\ Cardinality(Good') \in Nat
    BY <2>1, Finite, FS_Subset, FS_CardinalityType
  <2>3. Cardinality(Good) >= Replicas - MaxUnavailable /\ Replicas - MaxUnavailable \in Int
    BY ConstantsAssumption DEF CapacityKept, Good
  <2>4. Cardinality(Good') >= Replicas - MaxUnavailable
    BY <2>2, <2>3
  <2>5. QED
    BY <2>4 DEF CapacityKept, Good
<1>3. QED
  BY <1>1, <1>2

LEMMA CapacityInit == Init => CapacityKept
<1> SUFFICES ASSUME Init PROVE CapacityKept
  OBVIOUS
<1>1. Old \subseteq Good
  BY Sorts, RunningAssumption DEF Init, Good, Deleted, version
<1>2. /\ Cardinality(Old) <= Cardinality(Good)
      /\ Cardinality(Old) \in Nat /\ Cardinality(Good) \in Nat
  BY <1>1, Finite, ConstantsAssumption, FS_Subset, FS_CardinalityType
<1>3. Cardinality(Good) >= Replicas - MaxUnavailable
  BY <1>2, ConstantsAssumption
<1>4. QED
  BY <1>3 DEF CapacityKept, Good

\* Whatever version is rolled out, with whatever outages, there are as many pods
\* as the Deployment asks for that serve and whose settings let them reach what
\* they need, if the version that runs is one that does (health.py, config.py,
\* api-deployment.yaml).
THEOREM CapacityIsKept == Spec => []CapacityKept
<1>1. QED
  BY CapacityInit, CapacityStep, InvAlways, PTL DEF Spec
=============================================================================
