--------------------------- MODULE JobQueueProofs ---------------------------
(***************************************************************************)
(* Theorems about JobQueue for every set of jobs, workers and hosts, every *)
(* MaxAttempts and every number of faults: what the commands do to a list, *)
(* the types, attempts, losses, the places a job can be in, and from these *)
(* that no two workers run a job at the same time, that a worker leaves    *)
(* nothing behind while Redis answers, and that the queue implements       *)
(* JobLifecycle.                                                           *)
(***************************************************************************)
EXTENDS JobQueueProperties, SequenceTheorems, WellFoundedInduction,
        FiniteSetTheorems, TLAPS

-----------------------------------------------------------------------------
(* What the commands on a Redis list do to the set of its elements: LMOVE  *)
(* and BLMOVE take the head and append it, RPUSH appends, LREM removes the *)
(* first occurrence.                                                       *)

\* The elements of a list, by position.
LEMMA ToSetIndexed ==
  ASSUME NEW S, NEW s \in Seq(S)
  PROVE  /\ ToSet(s) \subseteq S
         /\ \A x : x \in ToSet(s) <=> \E i \in 1..Len(s) : s[i] = x
<1>1. DOMAIN s = 1..Len(s) /\ \A i \in 1..Len(s) : s[i] \in S
  BY LenProperties, ElementOfSeq
<1> QED BY <1>1, Zenon DEF ToSet

\* The empty list has no elements.
LEMMA ToSetEmpty == ToSet(<<>>) = {}
BY DEF ToSet

\* RPUSH adds one element.
LEMMA ToSetAppend ==
  ASSUME NEW S, NEW s \in Seq(S), NEW e \in S
  PROVE  /\ Append(s, e) \in Seq(S)
         /\ ToSet(Append(s, e)) = ToSet(s) \cup {e}
<1> DEFINE t == Append(s, e)
<1>1. /\ t \in Seq(S) /\ Len(t) = Len(s) + 1 /\ Len(s) \in Nat
      /\ \A i \in 1..Len(s) : t[i] = s[i]
      /\ t[Len(s) + 1] = e
  BY AppendProperties, LenProperties
<1> HIDE DEF t
<1>2. ASSUME NEW x \in ToSet(t) PROVE x \in ToSet(s) \cup {e}
  <2>1. PICK i \in 1..Len(t) : t[i] = x
    BY <1>1, <1>2, ToSetIndexed
  <2>2. CASE i = Len(s) + 1
    BY <1>1, <2>1, <2>2
  <2>3. CASE i # Len(s) + 1
    <3>1. i \in 1..Len(s) /\ s[i] = x
      BY <1>1, <2>1, <2>3
    <3> QED BY <3>1, ToSetIndexed
  <2> QED BY <2>2, <2>3
<1>3. ASSUME NEW x \in ToSet(s) \cup {e} PROVE x \in ToSet(t)
  <2>1. CASE x = e
    <3>1. Len(s) + 1 \in 1..Len(t) /\ t[Len(s) + 1] = x
      BY <1>1, <2>1
    <3> QED BY <1>1, <3>1, ToSetIndexed
  <2>2. CASE x \in ToSet(s)
    <3>1. PICK i \in 1..Len(s) : s[i] = x
      BY <2>2, ToSetIndexed
    <3>2. i \in 1..Len(t) /\ t[i] = x
      BY <1>1, <3>1
    <3> QED BY <1>1, <3>2, ToSetIndexed
  <2> QED BY <1>3, <2>1, <2>2
<1>4. ToSet(t) = ToSet(s) \cup {e}
  BY <1>2, <1>3
<1> QED BY <1>1, <1>4 DEF t

\* LMOVE and BLMOVE split off the head.
LEMMA ToSetHeadTail ==
  ASSUME NEW S, NEW s \in Seq(S), s # <<>>
  PROVE  /\ Head(s) \in S /\ Tail(s) \in Seq(S)
         /\ ToSet(s) = {Head(s)} \cup ToSet(Tail(s))
<1> DEFINE t == Tail(s)
<1>1. /\ Head(s) \in S /\ t \in Seq(S) /\ Len(t) = Len(s) - 1
      /\ \A i \in 1..Len(t) : t[i] = s[i + 1]
      /\ Len(s) \in Nat \ {0} /\ Head(s) = s[1]
  BY HeadTailProperties, EmptySeq, LenProperties
<1> HIDE DEF t
<1>2. ASSUME NEW x \in ToSet(s) PROVE x \in {Head(s)} \cup ToSet(t)
  <2>1. PICK i \in 1..Len(s) : s[i] = x
    BY <1>2, ToSetIndexed
  <2>2. CASE i = 1
    BY <1>1, <2>1, <2>2
  <2>3. CASE i # 1
    <3>1. i - 1 \in 1..Len(t) /\ t[i - 1] = x
      BY <1>1, <2>1, <2>3
    <3> QED BY <1>1, <3>1, ToSetIndexed
  <2> QED BY <2>2, <2>3
<1>3. ASSUME NEW x \in {Head(s)} \cup ToSet(t) PROVE x \in ToSet(s)
  <2>1. CASE x = Head(s)
    <3>1. 1 \in 1..Len(s) /\ s[1] = x
      BY <1>1, <2>1
    <3> QED BY <3>1, ToSetIndexed
  <2>2. CASE x \in ToSet(t)
    <3>1. PICK i \in 1..Len(t) : t[i] = x
      BY <1>1, <2>2, ToSetIndexed
    <3>2. i + 1 \in 1..Len(s) /\ s[i + 1] = x
      BY <1>1, <3>1
    <3> QED BY <3>2, ToSetIndexed
  <2> QED BY <1>3, <2>1, <2>2
<1>4. ToSet(s) = {Head(s)} \cup ToSet(t)
  BY <1>2, <1>3
<1> QED BY <1>1, <1>4 DEF t


\* LREM looks the first occurrence up: its position is one of the list's.
LEMMA FirstOccurrence ==
  ASSUME NEW S, NEW s \in Seq(S), NEW e \in ToSet(s)
  PROVE  \E k \in 1..Len(s) : s[k] = e /\ RemoveFirst(s, e) = RemoveAt(s, k)
<1> DEFINE I == {i \in 1..Len(s) : s[i] = e}
           k == Min(I)
<1>1. Len(s) \in Nat
  BY LenProperties
<1>2. PICK i \in 1..Len(s) : s[i] = e
  BY ToSetIndexed
<1>3. I \in SUBSET Nat /\ i \in I
  BY <1>1, <1>2
<1>4. \E x \in I : \A y \in I : x <= y
  <2> DEFINE R == {p \in Nat \X Nat : p[1] < p[2]}
  <2>1. IsWellFoundedOn(R, Nat)
    BY NatLessThanWellFounded DEF OpToRel
  <2>2. \E x \in I : \A y \in I : <<y, x>> \notin R
    BY <1>3, <2>1, WFMin
  <2>3. PICK x \in I : \A y \in I : <<y, x>> \notin R
    BY <2>2
  <2>4. ASSUME NEW y \in I PROVE x <= y
    <3>1. x \in Nat /\ y \in Nat /\ <<y, x>> \in Nat \X Nat
      BY <1>3
    <3>2. ~(y < x)
      BY <2>3, <3>1
    <3> QED BY <3>1, <3>2
  <2> QED BY <2>4
<1>5. k \in I
  BY <1>4 DEF Min
<1>6. SelectInSeq(s, LAMBDA v : v = e) = k
  BY <1>3 DEF SelectInSeq
<1>7. RemoveFirst(s, e) = RemoveAt(s, k)
  BY <1>2, <1>6 DEF RemoveFirst
<1> QED BY <1>5, <1>7

\* Removing a position shifts the ones after it.
LEMMA RemoveAtElements ==
  ASSUME NEW S, NEW s \in Seq(S), NEW k \in 1..Len(s)
  PROVE  LET t == RemoveAt(s, k) IN
         /\ t \in Seq(S) /\ Len(t) = Len(s) - 1
         /\ \A i \in 1..Len(t) : t[i] = IF i < k THEN s[i] ELSE s[i + 1]
<1> DEFINE a == SubSeq(s, 1, k - 1)
           b == SubSeq(s, k + 1, Len(s))
           t == RemoveAt(s, k)
<1>1. Len(s) \in Nat /\ \A i \in 1..Len(s) : s[i] \in S
  BY LenProperties, ElementOfSeq
<1>2. /\ a \in Seq(S) /\ Len(a) = k - 1
      /\ \A i \in 1..(k - 1) : a[i] = s[i]
  <2>1. /\ a \in Seq(S)
        /\ Len(a) = IF 1 <= k - 1 THEN (k - 1) - 1 + 1 ELSE 0
        /\ \A i \in 1 .. (k - 1) - 1 + 1 : a[i] = s[1 + i - 1]
    BY <1>1, SubSeqProperties
  <2> QED BY <1>1, <2>1
<1>3. /\ b \in Seq(S) /\ Len(b) = Len(s) - k
      /\ \A i \in 1..(Len(s) - k) : b[i] = s[k + i]
  <2>1. /\ b \in Seq(S)
        /\ Len(b) = IF k + 1 <= Len(s) THEN Len(s) - (k + 1) + 1 ELSE 0
        /\ \A i \in 1 .. Len(s) - (k + 1) + 1 : b[i] = s[(k + 1) + i - 1]
    BY <1>1, SubSeqProperties
  <2> QED BY <1>1, <2>1
<1>4. t = a \o b
  BY DEF RemoveAt
<1> HIDE DEF a, b, t
<1>5. /\ t \in Seq(S) /\ Len(t) = Len(s) - 1
      /\ \A i \in 1..Len(t) : t[i] = IF i < k THEN s[i] ELSE s[i + 1]
  <2>1. /\ t \in Seq(S) /\ Len(t) = Len(a) + Len(b)
        /\ \A i \in 1..Len(a) + Len(b) :
             t[i] = IF i <= Len(a) THEN a[i] ELSE b[i - Len(a)]
    BY <1>2, <1>3, <1>4, ConcatProperties
  <2>2. Len(t) = Len(s) - 1
    BY <1>1, <1>2, <1>3, <2>1
  <2>3. ASSUME NEW i \in 1..Len(t), i < k PROVE t[i] = s[i]
    BY <1>1, <1>2, <1>3, <2>1, <2>2, <2>3
  <2>4. ASSUME NEW i \in 1..Len(t), ~(i < k) PROVE t[i] = s[i + 1]
    <3>1. i - (k - 1) \in 1..(Len(s) - k) /\ k + (i - (k - 1)) = i + 1
      BY <1>1, <2>2, <2>4
    <3>2. t[i] = b[i - (k - 1)]
      BY <1>1, <1>2, <1>3, <2>1, <2>2, <2>4
    <3> QED BY <1>3, <3>1, <3>2
  <2> QED BY <2>1, <2>2, <2>3, <2>4
<1> QED BY <1>5 DEF t

\* Removing a position keeps every other position's element.
LEMMA ToSetRemoveAt ==
  ASSUME NEW S, NEW s \in Seq(S), NEW k \in 1..Len(s)
  PROVE  /\ RemoveAt(s, k) \in Seq(S)
         /\ ToSet(RemoveAt(s, k)) \subseteq ToSet(s)
         /\ \A x \in ToSet(s) : x # s[k] => x \in ToSet(RemoveAt(s, k))
<1> DEFINE t == RemoveAt(s, k)
<1>1. Len(s) \in Nat
  BY LenProperties
<1>2. /\ t \in Seq(S) /\ Len(t) = Len(s) - 1
      /\ \A i \in 1..Len(t) : t[i] = IF i < k THEN s[i] ELSE s[i + 1]
  BY RemoveAtElements
<1> HIDE DEF t
<1>3. ASSUME NEW x \in ToSet(t) PROVE x \in ToSet(s)
  <2>1. PICK i \in 1..Len(t) : t[i] = x
    BY <1>2, <1>3, ToSetIndexed
  <2>2. \E n \in 1..Len(s) : s[n] = x
    BY <1>1, <1>2, <2>1
  <2> QED BY <2>2, ToSetIndexed
<1>4. ASSUME NEW x \in ToSet(s), x # s[k] PROVE x \in ToSet(t)
  <2>1. PICK i \in 1..Len(s) : s[i] = x
    BY <1>4, ToSetIndexed
  <2>2. CASE i < k
    <3>1. i \in 1..Len(t) /\ t[i] = x
      BY <1>1, <1>2, <2>1, <2>2
    <3> QED BY <1>2, <3>1, ToSetIndexed
  <2>3. CASE ~(i < k)
    <3>1. i - 1 \in 1..Len(t) /\ ~(i - 1 < k) /\ (i - 1) + 1 = i
      BY <1>1, <1>2, <1>4, <2>1, <2>3
    <3>2. t[i - 1] = x
      BY <1>2, <2>1, <3>1
    <3> QED BY <1>2, <3>1, <3>2, ToSetIndexed
  <2> QED BY <1>1, <2>2, <2>3
<1> QED BY <1>2, <1>3, <1>4 DEF t

\* LREM removes no element but the one it is given.
LEMMA ToSetRemoveFirst ==
  ASSUME NEW S, NEW s \in Seq(S), NEW e
  PROVE  /\ RemoveFirst(s, e) \in Seq(S)
         /\ ToSet(RemoveFirst(s, e)) \subseteq ToSet(s)
         /\ \A x \in ToSet(s) : x # e => x \in ToSet(RemoveFirst(s, e))
<1>1. CASE e \in ToSet(s)
  <2>1. PICK k \in 1..Len(s) : s[k] = e /\ RemoveFirst(s, e) = RemoveAt(s, k)
    BY <1>1, FirstOccurrence
  <2> QED BY <2>1, ToSetRemoveAt
<1>2. CASE e \notin ToSet(s)
  <2>1. RemoveFirst(s, e) = s
    BY <1>2, ToSetIndexed DEF RemoveFirst
  <2> QED BY <2>1
<1> QED BY <1>1, <1>2

-----------------------------------------------------------------------------
(* What one command does to the types. *)

\* RPUSH to the queue.
LEMMA PushOK ==
  ASSUME NEW s \in Seq(Message), NEW j \in Job, NEW n \in Nat
  PROVE  Append(s, [id |-> j, attempts |-> n]) \in Seq(Message)
<1>1. [id |-> j, attempts |-> n] \in Message
  BY DEF Message
<1> QED BY <1>1, ToSetAppend

\* LREM on the list of a worker's host.
LEMMA LremOK ==
  ASSUME ListsOK, PodsOK, NEW w \in Worker, Lrem(w)
  PROVE  processing' \in [Host -> Seq(Message)]
<1>1. pkey(w) \in Host /\ processing[pkey(w)] \in Seq(Message)
  BY DEF pkey, PodsOK, ListsOK
<1>2. RemoveFirst(processing[pkey(w)], held[w]) \in Seq(Message)
  BY <1>1, ToSetRemoveFirst
<1> QED BY <1>2 DEF Lrem, ListsOK

\* LMOVE between a processing list and the queue.
LEMMA TakeHead ==
  ASSUME NEW from \in Seq(Message), from # <<>>, NEW to \in Seq(Message)
  PROVE  /\ Head(from) \in Message /\ Tail(from) \in Seq(Message)
         /\ Append(to, Head(from)) \in Seq(Message)
<1>1. Head(from) \in Message /\ Tail(from) \in Seq(Message)
  BY ToSetHeadTail
<1> QED BY <1>1, ToSetAppend

\* A worker goes somewhere and keeps its hands as they are.
LEMMA MoveOn ==
  ASSUME PlacesOK, NEW w \in Worker, NEW loc \in Location, Goto(w, loc),
         UNCHANGED held, pc[w] \in Holding <=> loc \in Holding
  PROVE  PlacesOK'
BY DEF PlacesOK, Goto

\* A worker goes somewhere with empty hands.
LEMMA MoveAway ==
  ASSUME PlacesOK, NEW w \in Worker, NEW loc \in Location \ Holding, Goto(w, loc),
         LetGo(w)
  PROVE  PlacesOK'
BY DEF PlacesOK, Goto, LetGo

\* The locations, by whether a message is in hand.
LEMMA Locations ==
  /\ Holding \subseteq Location
  /\ {"down", "recover", "top", "fetch", "backoff"} \subseteq Location \ Holding
BY DEF Location, Holding

\* A command that raises is counted.
LEMMA RaisedOK ==
  ASSUME PodsOK, Raised \/ UNCHANGED errors
  PROVE  errors' \in Nat
BY DEF PodsOK, Raised

-----------------------------------------------------------------------------
(* Type correctness. *)

\* The initial state has the types.
LEMMA TypeInit == Init => TypeOK
<1> SUFFICES ASSUME Init PROVE TypeOK
  OBVIOUS
<1>1. <<>> \in Seq(Message)
  BY EmptySeq
<1>2. ListsOK
  BY <1>1 DEF Init, ListsOK
<1>3. PlacesOK
  BY DEF Init, PlacesOK, Location, Holding
<1>4. PodsOK
  BY ConstantsAssumption DEF Init, PodsOK
<1>5. HistoryOK
  BY DEF Init, HistoryOK
<1> QED BY <1>2, <1>3, <1>4, <1>5 DEF TypeOK

\* The producer keeps the types.
LEMMA TypeEnqueue ==
  ASSUME TypeOK, NEW j \in Job, Enqueue(j)
  PROVE  TypeOK'
<1>1. /\ queue' = Append(queue, [id |-> j, attempts |-> 0]) \/ UNCHANGED queue
      /\ \/ caller' = [caller EXCEPT ![j] = "accepted"]
         \/ caller' = [caller EXCEPT ![j] = "failed"]
      /\ Raised \/ UNCHANGED errors
      /\ UNCHANGED <<processing, dead, host, fresh, pc, held, stop, lateMoves,
                     signals, succeeded, failures, dropped, abandoned>>
  BY DEF Enqueue, pods, outcomes
<1>2. ListsOK'
  BY <1>1, PushOK DEF TypeOK, ListsOK
<1>3. PlacesOK'
  BY <1>1 DEF TypeOK, PlacesOK
<1>4. PodsOK'
  BY <1>1, RaisedOK DEF TypeOK, PodsOK
<1>5. HistoryOK'
  BY <1>1 DEF TypeOK, HistoryOK
<1> QED BY <1>2, <1>3, <1>4, <1>5 DEF TypeOK

\* Starting and recovering keep the types.
LEMMA TypeStartRecover ==
  ASSUME TypeOK, NEW w \in Worker, Start(w) \/ Recover(w)
  PROVE  TypeOK'
<1>1. CASE Start(w)
  <2>1. /\ pc[w] = "down" /\ Goto(w, "recover")
        /\ UNCHANGED <<queue, processing, dead, held, lateMoves, errors, signals,
                       caller, succeeded, failures, dropped, abandoned>>
        /\ stop' = [stop EXCEPT ![w] = FALSE]
        /\ \/ UNCHANGED <<host, fresh>>
           \/ \E h \in fresh : host' = [host EXCEPT ![w] = h] /\ fresh' = fresh \ {h}
    BY <1>1 DEF Start, Restart, Replace, redis, pods, faults, outcomes
  <2>2. ListsOK' /\ HistoryOK'
    BY <2>1 DEF TypeOK, ListsOK, HistoryOK
  <2>3. PlacesOK'
    BY <2>1, MoveOn, Locations DEF TypeOK
  <2>4. PodsOK'
    BY <2>1 DEF TypeOK, PodsOK
  <2> QED BY <2>2, <2>3, <2>4 DEF TypeOK
<1>2. CASE Recover(w)
  <2>1. /\ pc[w] = "recover"
        /\ Goto(w, "recover") \/ Goto(w, "top") \/ Goto(w, "down")
        /\ Raised \/ UNCHANGED errors
        /\ UNCHANGED <<dead, host, fresh, held, stop, lateMoves, signals, caller,
                       succeeded, failures, dropped, abandoned>>
    BY <1>2 DEF Recover, RecoverMove, RecoverEnd, Replied, redis, pods, outcomes
  <2>2. ListsOK'
    <3>1. CASE RecoverMove(w)
      <4>1. pkey(w) \in Host
        BY DEF TypeOK, PodsOK, pkey
      <4>2. /\ processing[pkey(w)] # <<>>
            /\ queue' = Append(queue, Head(processing[pkey(w)]))
            /\ processing' = [processing EXCEPT ![pkey(w)] = Tail(@)]
        BY <3>1 DEF RecoverMove
      <4> QED BY <2>1, <4>1, <4>2, TakeHead DEF TypeOK, ListsOK
    <3>2. CASE RecoverEnd(w)
      BY <3>2 DEF RecoverEnd, redis, TypeOK, ListsOK
    <3> QED BY <1>2, <3>1, <3>2 DEF Recover
  <2>3. PlacesOK'
    BY <2>1, MoveOn, Locations DEF TypeOK
  <2>4. PodsOK'
    BY <2>1, RaisedOK DEF TypeOK, PodsOK
  <2>5. HistoryOK'
    BY <2>1 DEF TypeOK, HistoryOK
  <2> QED BY <2>2, <2>3, <2>4, <2>5 DEF TypeOK
<1> QED BY <1>1, <1>2

\* The loop keeps the types.
LEMMA TypeLoop ==
  ASSUME TypeOK, NEW w \in Worker,
         Poll(w) \/ Exit(w) \/ Fetch(w) \/ FetchTimeout(w) \/ BackoffEnd(w)
  PROVE  TypeOK'
<1>1. CASE Fetch(w)
  <2>1. /\ pc[w] = "fetch" /\ queue # <<>>
        /\ queue' = Tail(queue)
        /\ processing' = [processing EXCEPT ![pkey(w)] = Append(@, Head(queue))]
        /\ held' = [held EXCEPT ![w] = Head(queue)]
        /\ Goto(w, IF Head(queue).id \in Registered[w] THEN "run" ELSE "drop")
        /\ UNCHANGED <<dead, host, fresh, stop, lateMoves, errors, signals, caller,
                       succeeded, failures, dropped, abandoned>>
    BY <1>1 DEF Fetch, pods, faults, outcomes
  <2>2. pkey(w) \in Host /\ processing[pkey(w)] \in Seq(Message)
    BY DEF TypeOK, PodsOK, ListsOK, pkey
  <2>3. /\ Head(queue) \in Message /\ Tail(queue) \in Seq(Message)
        /\ Append(processing[pkey(w)], Head(queue)) \in Seq(Message)
    BY <2>1, <2>2, TakeHead DEF TypeOK, ListsOK
  <2>4. ListsOK'
    BY <2>1, <2>2, <2>3 DEF TypeOK, ListsOK
  <2>5. PlacesOK'
    <3>1. Head(queue) # NoMessage
      BY <2>3, ConstantsAssumption DEF Message
    <3>2. \E loc \in {"run", "drop"} : Goto(w, loc)
      BY <2>1
    <3> QED BY <2>1, <2>3, <3>1, <3>2 DEF TypeOK, PlacesOK, Goto, Location, Holding
  <2>6. PodsOK' /\ HistoryOK'
    BY <2>1 DEF TypeOK, PodsOK, HistoryOK
  <2> QED BY <2>4, <2>5, <2>6 DEF TypeOK
<1>2. CASE Poll(w) \/ Exit(w) \/ FetchTimeout(w) \/ BackoffEnd(w)
  <2>1. /\ pc[w] \in {"top", "fetch", "backoff"}
        /\ Goto(w, "fetch") \/ Goto(w, "down") \/ Goto(w, "top")
        /\ UNCHANGED <<queue, processing, dead, host, fresh, held, stop, lateMoves,
                       errors, signals, caller, succeeded, failures, dropped, abandoned>>
    BY <1>2 DEF Poll, Exit, FetchTimeout, BackoffEnd, redis, pods, faults, outcomes
  <2>2. PlacesOK'
    BY <2>1, MoveOn, Locations DEF TypeOK
  <2>3. ListsOK' /\ PodsOK' /\ HistoryOK'
    BY <2>1 DEF TypeOK, ListsOK, PodsOK, HistoryOK
  <2> QED BY <2>2, <2>3 DEF TypeOK
<1> QED BY <1>1, <1>2

\* A message in hand is a message.
LEMMA HeldOK ==
  ASSUME PlacesOK, NEW w \in Worker, pc[w] \in Holding
  PROVE  held[w] \in Message /\ held[w].id \in Job /\ held[w].attempts \in Nat
<1>1. held[w] \in Message
  BY DEF PlacesOK
<1> QED BY <1>1 DEF Message

\* handle_job keeps the types.
LEMMA TypeHandle ==
  ASSUME TypeOK, NEW w \in Worker, Handle(w)
  PROVE  TypeOK'
<1>1. CASE HandlerReturns(w) \/ HandlerRaises(w)
  <2>1. /\ pc[w] = "run"
        /\ Goto(w, "ack") \/ Goto(w, "unlist")
        /\ succeeded' = succeeded \cup {held[w].id} \/ UNCHANGED succeeded
        /\ failures' = [failures EXCEPT ![held[w].id] = @ + 1] \/ UNCHANGED failures
        /\ UNCHANGED <<queue, processing, dead, host, fresh, held, stop, lateMoves,
                       errors, signals, caller, dropped, abandoned>>
    BY <1>1 DEF HandlerReturns, HandlerRaises, redis, pods, faults
  <2>2. held[w].id \in Job
    BY <2>1, HeldOK DEF TypeOK, Holding
  <2>3. PlacesOK'
    BY <2>1, MoveOn, Locations DEF TypeOK, Holding
  <2>4. ListsOK' /\ PodsOK'
    BY <2>1 DEF TypeOK, ListsOK, PodsOK
  <2>5. HistoryOK'
    BY <2>1, <2>2 DEF TypeOK, HistoryOK
  <2> QED BY <2>3, <2>4, <2>5 DEF TypeOK
<1>2. CASE Ack(w) \/ Drop(w) \/ Unlist(w)
  <2>1. /\ pc[w] \in {"ack", "drop", "unlist"}
        /\ Lrem(w)
        /\ \/ LetGo(w) /\ (Goto(w, "top") \/ Goto(w, "backoff"))
           \/ pc[w] = "unlist" /\ UNCHANGED held /\ Goto(w, "requeue")
        /\ Raised \/ UNCHANGED errors
        /\ dropped' = dropped \cup {held[w].id} \/ UNCHANGED dropped
        /\ abandoned' = abandoned \cup {held[w].id} \/ UNCHANGED abandoned
        /\ UNCHANGED <<queue, dead, host, fresh, stop, lateMoves, signals, caller,
                       succeeded, failures>>
    BY <1>2 DEF Ack, Drop, Unlist, Replied, GaveUp, pods, outcomes
  <2>2. held[w].id \in Job
    BY <2>1, HeldOK DEF TypeOK, Holding
  <2>3. ListsOK'
    BY <2>1, LremOK DEF TypeOK, ListsOK
  <2>4. PlacesOK'
    BY <2>1, MoveOn, MoveAway, Locations DEF TypeOK, Holding
  <2>5. PodsOK'
    BY <2>1, RaisedOK DEF TypeOK, PodsOK
  <2>6. HistoryOK'
    BY <2>1, <2>2 DEF TypeOK, HistoryOK
  <2> QED BY <2>3, <2>4, <2>5, <2>6 DEF TypeOK
<1>3. CASE Requeue(w)
  <2> DEFINE next == [held[w] EXCEPT !.attempts = @ + 1]
  <2>1. /\ pc[w] = "requeue" /\ LetGo(w)
        /\ \/ dead' = Append(dead, next) /\ UNCHANGED queue
           \/ queue' = Append(queue, next) /\ UNCHANGED dead
        /\ Goto(w, "top") \/ Goto(w, "backoff")
        /\ Raised \/ UNCHANGED errors
        /\ UNCHANGED <<processing, host, fresh, stop, lateMoves, signals, caller,
                       succeeded, failures, dropped, abandoned>>
    BY <1>3 DEF Requeue, Replied, GaveUp, pods, outcomes
  <2>2. next \in Message
    BY <2>1, HeldOK DEF TypeOK, Holding, Message
  <2> HIDE DEF next
  <2>3. ListsOK'
    <3>1. Append(queue, next) \in Seq(Message) /\ Append(dead, next) \in Seq(Message)
      BY <2>2, ToSetAppend DEF TypeOK, ListsOK
    <3> QED BY <2>1, <3>1 DEF TypeOK, ListsOK
  <2>4. PlacesOK'
    BY <2>1, MoveAway, Locations DEF TypeOK
  <2>5. PodsOK' /\ HistoryOK'
    BY <2>1, RaisedOK DEF TypeOK, PodsOK, HistoryOK
  <2> QED BY <2>3, <2>4, <2>5 DEF TypeOK
<1> QED BY <1>1, <1>2, <1>3 DEF Handle

\* Faults keep the types.
LEMMA TypeFault ==
  ASSUME TypeOK, NEW w \in Worker, Fault(w)
  PROVE  TypeOK'
<1>1. CASE FetchBroken(w)
  <2>1. /\ pc[w] = "fetch" /\ Goto(w, "backoff") /\ Raised
        /\ lateMoves' = [lateMoves EXCEPT ![pkey(w)] = @ + 1]
        /\ UNCHANGED <<queue, processing, dead, host, fresh, held, stop, signals,
                       caller, succeeded, failures, dropped, abandoned>>
    BY <1>1 DEF FetchBroken, GaveUp, redis, pods, outcomes
  <2>2. PlacesOK'
    BY <2>1, MoveOn, Locations DEF TypeOK
  <2>3. pkey(w) \in Host
    BY DEF TypeOK, PodsOK, pkey
  <2>4. PodsOK'
    BY <2>1, <2>3, RaisedOK DEF TypeOK, PodsOK
  <2>5. ListsOK' /\ HistoryOK'
    BY <2>1 DEF TypeOK, ListsOK, HistoryOK
  <2> QED BY <2>2, <2>4, <2>5 DEF TypeOK
<1>2. CASE NoAnswer(w) \/ Kill(w)
  <2>1. /\ Goto(w, "backoff") \/ Goto(w, "down")
        /\ LetGo(w)
        /\ Raised \/ UNCHANGED errors
        /\ signals' = signals + 1 \/ UNCHANGED signals
        /\ abandoned' = abandoned \cup Loses(w)
        /\ UNCHANGED <<queue, processing, dead, host, fresh, stop, lateMoves, caller,
                       succeeded, failures, dropped>>
    BY <1>2 DEF NoAnswer, Kill, GaveUp, redis, pods
  <2>2. Loses(w) \subseteq Job
    BY HeldOK DEF TypeOK, Loses, Holding
  <2>3. PlacesOK'
    BY <2>1, MoveAway, Locations DEF TypeOK
  <2>4. ListsOK' /\ PodsOK' /\ HistoryOK'
    BY <2>1, <2>2, RaisedOK DEF TypeOK, ListsOK, PodsOK, HistoryOK
  <2> QED BY <2>3, <2>4 DEF TypeOK
<1>3. CASE Terminate(w)
  BY <1>3 DEF Terminate, TypeOK, ListsOK, PlacesOK, PodsOK, HistoryOK, redis, pods,
     outcomes
<1> QED BY <1>1, <1>2, <1>3 DEF Fault

\* A BLMOVE Redis serves late keeps the types.
LEMMA TypeLate ==
  ASSUME TypeOK, NEW h \in Host, LateMove(h) \/ LateTimeout(h)
  PROVE  TypeOK'
<1>1. /\ lateMoves[h] > 0
      /\ lateMoves' = [lateMoves EXCEPT ![h] = @ - 1]
      /\ UNCHANGED <<dead, host, fresh, pc, held, stop, errors, signals, caller,
                     succeeded, failures, dropped, abandoned>>
  BY DEF LateMove, LateTimeout, redis, pods, faults, outcomes
<1>2. ListsOK'
  <2>1. CASE LateMove(h)
    <3>1. /\ queue # <<>> /\ queue' = Tail(queue)
          /\ processing' = [processing EXCEPT ![h] = Append(@, Head(queue))]
      BY <2>1 DEF LateMove
    <3> QED BY <1>1, <3>1, TakeHead DEF TypeOK, ListsOK
  <2>2. CASE LateTimeout(h)
    BY <2>2 DEF LateTimeout, redis, TypeOK, ListsOK
  <2> QED BY <2>1, <2>2
<1>3. PlacesOK' /\ PodsOK' /\ HistoryOK'
  BY <1>1 DEF TypeOK, PlacesOK, PodsOK, HistoryOK
<1> QED BY <1>2, <1>3 DEF TypeOK

\* Every step keeps the types.
LEMMA TypeStep == TypeOK /\ [Next]_vars => TypeOK'
<1> SUFFICES ASSUME TypeOK, [Next]_vars PROVE TypeOK'
  OBVIOUS
<1>1. ASSUME NEW j \in Job, Enqueue(j) PROVE TypeOK'
  BY <1>1, TypeEnqueue
<1>2. ASSUME NEW w \in Worker, Start(w) \/ Work(w) \/ Fault(w) PROVE TypeOK'
  BY <1>2, TypeStartRecover, TypeLoop, TypeHandle, TypeFault DEF Work
<1>3. ASSUME NEW h \in Host, LateMove(h) \/ LateTimeout(h) PROVE TypeOK'
  BY <1>3, TypeLate
<1>4. CASE UNCHANGED vars
  BY <1>4 DEF vars, redis, pods, faults, outcomes, TypeOK, ListsOK, PlacesOK, PodsOK,
     HistoryOK
<1> QED BY <1>1, <1>2, <1>3, <1>4 DEF Next

\* Type correctness, and that a worker has a message in hand exactly while it
\* is inside handle_job (worker.py:86-123).
THEOREM TypeCorrect == Spec => []TypeOK
<1>1. Init => TypeOK
  BY TypeInit
<1>2. TypeOK /\ [Next]_vars => TypeOK'
  BY TypeStep
<1> QED BY <1>1, <1>2, PTL DEF Spec

-----------------------------------------------------------------------------
(* Attempts are backed by failures, and the only gap through which an      *)
(* accepted job falls is the one between LREM and RPUSH. Neither theorem   *)
(* supposes that workers have hosts of their own.                          *)
(* What one command does to the messages in the lists comes first.         *)

\* BLMOVE, in time or late.
LEMMA FetchMessages ==
  ASSUME ListsOK, NEW h \in Host, queue # <<>>, queue' = Tail(queue),
         processing' = [processing EXCEPT ![h] = Append(@, Head(queue))]
  PROVE  /\ Head(queue) \in Message
         /\ ToSet(queue) = {Head(queue)} \cup ToSet(queue')
         /\ Listed' = Listed \cup {Head(queue)}
<1>1. /\ Head(queue) \in Message
      /\ ToSet(queue) = {Head(queue)} \cup ToSet(queue')
  BY ToSetHeadTail DEF ListsOK
<1>2. ToSet(Append(processing[h], Head(queue))) = ToSet(processing[h]) \cup {Head(queue)}
  BY <1>1, ToSetAppend DEF ListsOK
<1>3. /\ processing'[h] = Append(processing[h], Head(queue))
      /\ \A g \in Host \ {h} : processing'[g] = processing[g]
  BY DEF ListsOK
<1>4. ASSUME NEW m PROVE m \in Listed' <=> m \in Listed \cup {Head(queue)}
  BY <1>2, <1>3 DEF Listed
<1> QED BY <1>1, <1>4

\* LMOVE back to the queue.
LEMMA RecoverMessages ==
  ASSUME ListsOK, NEW h \in Host, processing[h] # <<>>,
         queue' = Append(queue, Head(processing[h])),
         processing' = [processing EXCEPT ![h] = Tail(@)]
  PROVE  /\ Head(processing[h]) \in Listed
         /\ ToSet(queue') = ToSet(queue) \cup {Head(processing[h])}
         /\ Listed' \subseteq Listed
         /\ Listed \subseteq Listed' \cup {Head(processing[h])}
<1> DEFINE m == Head(processing[h])
<1>1. /\ m \in Message
      /\ ToSet(processing[h]) = {m} \cup ToSet(Tail(processing[h]))
  BY ToSetHeadTail DEF ListsOK
<1>2. ToSet(queue') = ToSet(queue) \cup {m}
  BY <1>1, ToSetAppend DEF ListsOK
<1>3. /\ processing'[h] = Tail(processing[h])
      /\ \A g \in Host \ {h} : processing'[g] = processing[g]
  BY DEF ListsOK
<1>4. ASSUME NEW x \in Listed' PROVE x \in Listed
  BY <1>1, <1>3 DEF Listed
<1>5. ASSUME NEW x \in Listed PROVE x \in Listed' \cup {m}
  BY <1>1, <1>3 DEF Listed
<1>6. m \in Listed
  BY <1>1 DEF Listed
<1> QED BY <1>2, <1>4, <1>5, <1>6

\* LREM.
LEMMA LremMessages ==
  ASSUME ListsOK, PodsOK, NEW w \in Worker, Lrem(w)
  PROVE  Listed' \subseteq Listed /\ Listed \ {held[w]} \subseteq Listed'
<1> DEFINE h == pkey(w)
           s == processing[h]
<1>1. h \in Host /\ s \in Seq(Message)
  BY DEF pkey, PodsOK, ListsOK
<1>2. /\ ToSet(RemoveFirst(s, held[w])) \subseteq ToSet(s)
      /\ \A x \in ToSet(s) : x # held[w] => x \in ToSet(RemoveFirst(s, held[w]))
  BY <1>1, ToSetRemoveFirst
<1>3. /\ processing'[h] = RemoveFirst(s, held[w])
      /\ \A g \in Host \ {h} : processing'[g] = processing[g]
  BY <1>1 DEF Lrem, ListsOK
<1> HIDE DEF h, s
<1>4. s = processing[h]
  BY DEF s
<1>5. ASSUME NEW x \in Listed' PROVE x \in Listed
  BY <1>1, <1>2, <1>3, <1>4 DEF Listed
<1>6. ASSUME NEW x \in Listed \ {held[w]} PROVE x \in Listed'
  BY <1>1, <1>2, <1>3, <1>4 DEF Listed
<1> QED BY <1>5, <1>6

-----------------------------------------------------------------------------
(* Attempts. *)

\* A message whose handler failed at least as often as it says, with an
\* attempt left.
Backed(m) == m.attempts <= failures[m.id] /\ m.attempts < MaxAttempts

\* AttemptsBacked is not inductive: a Requeue pushes what a worker holds, so
\* the messages in hand must be backed too.
AttemptsInv ==
  /\ \A m \in ToSet(queue) \cup Listed : Backed(m)
  /\ \A w \in Worker : pc[w] \in Holding => Backed(held[w])
  /\ \A w \in Worker : pc[w] \in {"unlist", "requeue"} =>
       held[w].attempts + 1 <= failures[held[w].id]
  /\ \A m \in ToSet(dead) :
       m.attempts = MaxAttempts /\ m.attempts <= failures[m.id]

\* At the start there is no message.
LEMMA AttemptsInit == Init => AttemptsInv
<1> SUFFICES ASSUME Init PROVE AttemptsInv
  OBVIOUS
<1>1. ToSet(queue) = {} /\ ToSet(dead) = {} /\ Listed = {}
  BY ToSetEmpty DEF Init, Listed
<1>2. \A w \in Worker : pc[w] = "down"
  BY DEF Init
<1> QED BY <1>1, <1>2 DEF AttemptsInv, Holding

\* A step that fails no handler and pushes nothing but backed messages.
LEMMA AttemptsKept ==
  ASSUME AttemptsInv, UNCHANGED <<dead, failures>>,
         \A m \in ToSet(queue') \cup Listed' :
            m \in ToSet(queue) \cup Listed \/ Backed(m),
         \A w \in Worker : pc'[w] \in Holding =>
            \/ /\ held'[w] = held[w] /\ pc[w] \in Holding
               /\ pc'[w] \in {"unlist", "requeue"} => pc[w] \in {"unlist", "requeue"}
            \/ pc'[w] \in {"run", "drop"} /\ held'[w] \in ToSet(queue)
  PROVE  AttemptsInv'
<1>1. \A m : Backed(m)' <=> Backed(m)
  BY DEF Backed
<1>2. \A m \in ToSet(queue') \cup Listed' : Backed(m)
  BY DEF AttemptsInv
<1>3. \A w \in Worker : pc'[w] \in Holding => Backed(held'[w])
  BY DEF AttemptsInv
<1>4. \A w \in Worker : pc'[w] \in {"unlist", "requeue"} =>
        held'[w].attempts + 1 <= failures[held'[w].id]
  BY DEF AttemptsInv, Holding
<1>5. \A m \in ToSet(dead') : m.attempts = MaxAttempts /\ m.attempts <= failures'[m.id]
  BY DEF AttemptsInv
<1> QED BY <1>1, <1>2, <1>3, <1>4, <1>5 DEF AttemptsInv

\* A worker that goes somewhere without a message leaves the others as they are.
LEMMA OthersKeep ==
  ASSUME PlacesOK, NEW w \in Worker, NEW loc, Goto(w, loc)
  PROVE  pc'[w] = loc /\ \A v \in Worker \ {w} : pc'[v] = pc[v]
BY DEF PlacesOK, Goto

\* A worker that lets go leaves what the others hold.
LEMMA OthersHold ==
  ASSUME PlacesOK, NEW w \in Worker, LetGo(w)
  PROVE  held'[w] = NoMessage /\ \A v \in Worker \ {w} : held'[v] = held[v]
BY DEF PlacesOK, LetGo

\* A new message claims no attempt.
LEMMA AttemptsEnqueue ==
  ASSUME TypeOK, AttemptsInv, NEW j \in Job, Enqueue(j)
  PROVE  AttemptsInv'
<1> DEFINE m == [id |-> j, attempts |-> 0]
<1>1. /\ queue' = Append(queue, m) \/ queue' = queue
      /\ UNCHANGED <<processing, dead, pc, held, failures>>
  BY DEF Enqueue, outcomes
<1>2. m \in Message /\ m.id = j /\ m.attempts = 0
  BY DEF Message
<1>3. Backed(m)
  BY <1>2, ConstantsAssumption DEF Backed, TypeOK, HistoryOK
<1> HIDE DEF m
<1>4. ToSet(queue') \subseteq ToSet(queue) \cup {m}
  <2>1. ToSet(Append(queue, m)) = ToSet(queue) \cup {m}
    BY <1>2, ToSetAppend DEF TypeOK, ListsOK
  <2> QED BY <1>1, <2>1
<1>5. Listed' = Listed
  BY <1>1 DEF Listed
<1>6. \A w \in Worker : pc'[w] = pc[w] /\ held'[w] = held[w]
  BY <1>1
<1> QED BY <1>1, <1>3, <1>4, <1>5, <1>6, AttemptsKept

\* A message that is fetched keeps the attempts it claims.
LEMMA AttemptsFetch ==
  ASSUME TypeOK, AttemptsInv, NEW w \in Worker, Fetch(w)
  PROVE  AttemptsInv'
<1>1. /\ queue # <<>> /\ queue' = Tail(queue)
      /\ processing' = [processing EXCEPT ![pkey(w)] = Append(@, Head(queue))]
      /\ held' = [held EXCEPT ![w] = Head(queue)]
      /\ Goto(w, IF Head(queue).id \in Registered[w] THEN "run" ELSE "drop")
      /\ UNCHANGED <<dead, failures>>
  BY DEF Fetch, outcomes
<1>2. pkey(w) \in Host
  BY DEF TypeOK, PodsOK, pkey
<1>3. /\ ToSet(queue) = {Head(queue)} \cup ToSet(queue')
      /\ Listed' = Listed \cup {Head(queue)}
  BY <1>1, <1>2, FetchMessages DEF TypeOK
<1>4. /\ pc'[w] \in {"run", "drop"} /\ held'[w] = Head(queue)
      /\ \A v \in Worker \ {w} : pc'[v] = pc[v] /\ held'[v] = held[v]
  BY <1>1, OthersKeep DEF TypeOK, PlacesOK
<1> QED BY <1>1, <1>3, <1>4, AttemptsKept

\* LMOVE and a late BLMOVE keep the attempts a message claims.
LEMMA AttemptsMoves ==
  ASSUME TypeOK, AttemptsInv,
         (\E w \in Worker : RecoverMove(w)) \/ (\E h \in Host : LateMove(h))
  PROVE  AttemptsInv'
<1>1. CASE \E h \in Host : LateMove(h)
  <2>1. PICK h \in Host : LateMove(h)
    BY <1>1
  <2>2. /\ queue # <<>> /\ queue' = Tail(queue)
        /\ processing' = [processing EXCEPT ![h] = Append(@, Head(queue))]
        /\ UNCHANGED <<dead, pc, held, failures>>
    BY <2>1 DEF LateMove, outcomes
  <2>3. ToSet(queue') \cup Listed' \subseteq ToSet(queue) \cup Listed
    BY <2>2, FetchMessages DEF TypeOK
  <2>4. \A v \in Worker : pc'[v] = pc[v] /\ held'[v] = held[v]
    BY <2>2
  <2> QED BY <2>2, <2>3, <2>4, AttemptsKept
<1>2. CASE \E w \in Worker : RecoverMove(w)
  <2>1. PICK w \in Worker : RecoverMove(w)
    BY <1>2
  <2>2. /\ processing[pkey(w)] # <<>>
        /\ queue' = Append(queue, Head(processing[pkey(w)]))
        /\ processing' = [processing EXCEPT ![pkey(w)] = Tail(@)]
        /\ \E loc \in {"recover", "down"} : Goto(w, loc)
        /\ UNCHANGED <<dead, held, failures>>
    BY <2>1 DEF RecoverMove, Replied, outcomes
  <2>3. pkey(w) \in Host
    BY DEF TypeOK, PodsOK, pkey
  <2>4. ToSet(queue') \cup Listed' \subseteq ToSet(queue) \cup Listed
    BY <2>2, <2>3, RecoverMessages DEF TypeOK
  <2>5. /\ pc'[w] \notin Holding
        /\ \A v \in Worker \ {w} : pc'[v] = pc[v] /\ held'[v] = held[v]
    BY <2>2, OthersKeep DEF TypeOK, Holding
  <2> QED BY <2>2, <2>4, <2>5, AttemptsKept
<1> QED BY <1>1, <1>2

\* The LREMs of handle_job add no message.
LEMMA AttemptsLrem ==
  ASSUME TypeOK, AttemptsInv, NEW w \in Worker, Ack(w) \/ Drop(w) \/ Unlist(w)
  PROVE  AttemptsInv'
<1>1. /\ Lrem(w)
      /\ \/ LetGo(w) /\ (Goto(w, "top") \/ Goto(w, "backoff"))
         \/ pc[w] = "unlist" /\ UNCHANGED held /\ Goto(w, "requeue")
      /\ UNCHANGED <<queue, dead, failures>>
  BY DEF Ack, Drop, Unlist, Replied, GaveUp, outcomes
<1>2. ToSet(queue') \cup Listed' \subseteq ToSet(queue) \cup Listed
  BY <1>1, LremMessages DEF TypeOK
<1>3. ASSUME NEW v \in Worker, pc'[v] \in Holding
      PROVE  /\ held'[v] = held[v] /\ pc[v] \in Holding
             /\ pc'[v] \in {"unlist", "requeue"} => pc[v] \in {"unlist", "requeue"}
  <2>1. CASE LetGo(w) /\ (Goto(w, "top") \/ Goto(w, "backoff"))
    BY <1>3, <2>1, OthersKeep, OthersHold DEF TypeOK, Holding
  <2>2. CASE pc[w] = "unlist" /\ UNCHANGED held /\ Goto(w, "requeue")
    BY <1>3, <2>2, OthersKeep DEF TypeOK, Holding
  <2> QED BY <1>1, <2>1, <2>2
<1> QED BY <1>1, <1>2, <1>3, AttemptsKept

\* The RPUSH adds the attempt that failed, which was counted before.
LEMMA AttemptsRequeue ==
  ASSUME TypeOK, AttemptsInv, NEW w \in Worker, Requeue(w)
  PROVE  AttemptsInv'
<1> DEFINE next == [held[w] EXCEPT !.attempts = @ + 1]
<1>1. /\ pc[w] = "requeue" /\ LetGo(w)
      /\ IF next.attempts >= MaxAttempts
           THEN dead' = Append(dead, next) /\ UNCHANGED queue
           ELSE queue' = Append(queue, next) /\ UNCHANGED dead
      /\ Goto(w, "top") \/ Goto(w, "backoff")
      /\ UNCHANGED <<processing, failures>>
  BY DEF Requeue, Replied, GaveUp, outcomes
<1>2. held[w] \in Message /\ held[w].id \in Job /\ held[w].attempts \in Nat
  BY <1>1, HeldOK DEF TypeOK, Holding
<1>3. /\ next \in Message /\ next.id = held[w].id
      /\ next.attempts = held[w].attempts + 1
  BY <1>2 DEF Message
<1>4. /\ next.attempts <= failures[next.id] /\ next.attempts <= MaxAttempts
      /\ next.attempts \in Nat
  BY <1>1, <1>2, <1>3, ConstantsAssumption DEF AttemptsInv, Backed, Holding
<1>5. \A s \in Seq(Message) : ToSet(Append(s, next)) = ToSet(s) \cup {next}
  BY <1>3, ToSetAppend
<1> HIDE DEF next
<1>6. Listed' = Listed
  BY <1>1 DEF Listed
<1>7. /\ pc'[w] \notin Holding
      /\ \A v \in Worker \ {w} : pc'[v] = pc[v] /\ held'[v] = held[v]
  BY <1>1, OthersKeep, OthersHold DEF TypeOK, Holding
<1>8. \A m : Backed(m)' <=> Backed(m)
  BY <1>1 DEF Backed
<1>9. \A m \in ToSet(queue') \cup Listed' : Backed(m)
  <2>1. CASE next.attempts >= MaxAttempts
    BY <1>1, <1>6, <2>1 DEF AttemptsInv
  <2>2. CASE ~(next.attempts >= MaxAttempts)
    <3>1. ToSet(queue') = ToSet(queue) \cup {next}
      BY <1>1, <1>5, <2>2 DEF TypeOK, ListsOK
    <3>2. Backed(next)
      BY <1>4, <2>2, ConstantsAssumption DEF Backed
    <3> QED BY <1>6, <3>1, <3>2 DEF AttemptsInv
  <2> QED BY <2>1, <2>2
<1>10. \A m \in ToSet(dead') : m.attempts = MaxAttempts /\ m.attempts <= failures[m.id]
  <2>1. CASE next.attempts >= MaxAttempts
    <3>1. ToSet(dead') = ToSet(dead) \cup {next}
      BY <1>1, <1>5, <2>1 DEF TypeOK, ListsOK
    <3>2. next.attempts = MaxAttempts
      BY <1>4, <2>1, ConstantsAssumption
    <3> QED BY <1>4, <3>1, <3>2 DEF AttemptsInv
  <2>2. CASE ~(next.attempts >= MaxAttempts)
    BY <1>1, <2>2 DEF AttemptsInv
  <2> QED BY <2>1, <2>2
<1>11. \A v \in Worker : pc'[v] \in Holding => Backed(held'[v])
  BY <1>7 DEF AttemptsInv
<1>12. \A v \in Worker : pc'[v] \in {"unlist", "requeue"} =>
         held'[v].attempts + 1 <= failures[held'[v].id]
  BY <1>7 DEF AttemptsInv, Holding
<1> QED BY <1>1, <1>8, <1>9, <1>10, <1>11, <1>12 DEF AttemptsInv

\* A handler that raises counts a failure before its message claims it.
LEMMA AttemptsRaise ==
  ASSUME TypeOK, AttemptsInv, NEW w \in Worker, HandlerRaises(w)
  PROVE  AttemptsInv'
<1> DEFINE j == held[w].id
<1>1. /\ pc[w] = "run" /\ Goto(w, "unlist")
      /\ failures' = [failures EXCEPT ![j] = @ + 1]
      /\ UNCHANGED <<queue, processing, dead, held>>
  BY DEF HandlerRaises, redis
<1>2. held[w].id \in Job /\ held[w].attempts \in Nat /\ Backed(held[w])
  BY <1>1, HeldOK DEF TypeOK, Holding, AttemptsInv
<1>3. \A i \in Job : /\ failures[i] \in Nat /\ failures'[i] \in Nat
                     /\ failures[i] <= failures'[i]
  BY <1>1, <1>2 DEF TypeOK, HistoryOK
<1>4. failures'[j] = failures[j] + 1
  BY <1>1, <1>2 DEF TypeOK, HistoryOK
<1>5. \A m \in Message : Backed(m) => Backed(m)'
  BY <1>3 DEF Backed, Message
<1>6. /\ ToSet(queue) \subseteq Message /\ ToSet(dead) \subseteq Message
      /\ Listed \subseteq Message
  BY ToSetIndexed DEF TypeOK, ListsOK, Listed
<1>7. \A m \in ToSet(queue') \cup Listed' : Backed(m)'
  BY <1>1, <1>5, <1>6 DEF AttemptsInv, Listed
<1>8. pc'[w] = "unlist" /\ \A v \in Worker \ {w} : pc'[v] = pc[v]
  BY <1>1, OthersKeep DEF TypeOK
<1>9. \A v \in Worker : pc'[v] \in Holding => pc[v] \in Holding
  BY <1>1, <1>8 DEF Holding
<1>10. ASSUME NEW v \in Worker, pc'[v] \in Holding PROVE Backed(held[v])'
  <2>1. held[v] \in Message /\ Backed(held[v])
    BY <1>9, <1>10, HeldOK DEF AttemptsInv, TypeOK
  <2>2. held'[v] = held[v]
    BY <1>1
  <2> QED BY <1>5, <2>1, <2>2 DEF Backed
<1>11. ASSUME NEW v \in Worker, pc'[v] \in {"unlist", "requeue"}
       PROVE  held'[v].attempts + 1 <= failures'[held'[v].id]
  <2>1. CASE v = w
    BY <1>1, <1>2, <1>3, <1>4, <2>1 DEF Backed
  <2>2. CASE v # w
    <3>1. pc[v] \in {"unlist", "requeue"}
      BY <1>8, <1>11, <2>2
    <3>2. held[v].id \in Job /\ held[v].attempts \in Nat
      BY <3>1, HeldOK DEF TypeOK, Holding
    <3>3. held[v].attempts + 1 <= failures[held[v].id]
      BY <3>1 DEF AttemptsInv
    <3> QED BY <1>1, <1>3, <3>2, <3>3
  <2> QED BY <2>1, <2>2
<1>12. \A m \in ToSet(dead') : m.attempts = MaxAttempts /\ m.attempts <= failures'[m.id]
  <2>1. \A m \in ToSet(dead) : m.attempts \in Nat /\ m.id \in Job
    BY <1>6 DEF Message
  <2> QED BY <1>1, <1>3, <2>1 DEF AttemptsInv
<1> QED BY <1>7, <1>10, <1>11, <1>12 DEF AttemptsInv

\* The steps that touch no list.
LEMMA AttemptsRest ==
  ASSUME TypeOK, AttemptsInv, UNCHANGED <<redis, failures>>,
         \E w \in Worker :
            \/ \E loc \in Location \ Holding : Goto(w, loc) /\ (LetGo(w) \/ UNCHANGED held)
            \/ pc[w] = "run" /\ Goto(w, "ack") /\ UNCHANGED held
  PROVE  AttemptsInv'
<1>1. PICK w \in Worker :
            \/ \E loc \in Location \ Holding : Goto(w, loc) /\ (LetGo(w) \/ UNCHANGED held)
            \/ pc[w] = "run" /\ Goto(w, "ack") /\ UNCHANGED held
  OBVIOUS
<1>2. queue' = queue /\ Listed' = Listed /\ UNCHANGED <<dead, failures>>
  BY DEF redis, Listed
<1>3. \A v \in Worker : pc'[v] \in Holding =>
         /\ held'[v] = held[v] /\ pc[v] \in Holding
         /\ pc'[v] \in {"unlist", "requeue"} => pc[v] \in {"unlist", "requeue"}
  <2>1. CASE \E loc \in Location \ Holding : Goto(w, loc) /\ (LetGo(w) \/ UNCHANGED held)
    BY <2>1, OthersKeep, OthersHold DEF TypeOK
  <2>2. CASE pc[w] = "run" /\ Goto(w, "ack") /\ UNCHANGED held
    BY <2>2, OthersKeep DEF TypeOK, Holding
  <2> QED BY <1>1, <2>1, <2>2
<1> QED BY <1>2, <1>3, AttemptsKept

\* A step of Next that is in no other lemma is one of AttemptsRest, or leaves
\* every worker where it is.
LEMMA AttemptsStep == TypeOK /\ AttemptsInv /\ [Next]_vars => AttemptsInv'
<1> SUFFICES ASSUME TypeOK, AttemptsInv, [Next]_vars PROVE AttemptsInv'
  OBVIOUS
<1>1. ASSUME NEW w \in Worker, Start(w) PROVE AttemptsInv'
  <2>1. Goto(w, "recover") /\ UNCHANGED <<redis, held, failures>>
    BY <1>1 DEF Start, Restart, Replace, outcomes
  <2> QED BY <2>1, AttemptsRest, Locations
<1>2. ASSUME NEW w \in Worker,
             RecoverEnd(w) \/ Poll(w) \/ Exit(w) \/ FetchTimeout(w) \/ BackoffEnd(w)
             \/ FetchBroken(w)
      PROVE  AttemptsInv'
  <2>1. /\ \E loc \in {"top", "down", "fetch", "backoff"} : Goto(w, loc)
        /\ UNCHANGED <<redis, held, failures>>
    BY <1>2 DEF RecoverEnd, Poll, Exit, FetchTimeout, BackoffEnd, FetchBroken, GaveUp,
       Replied, outcomes
  <2> QED BY <2>1, AttemptsRest, Locations
<1>3. ASSUME NEW w \in Worker, NoAnswer(w) \/ Kill(w) PROVE AttemptsInv'
  <2>1. /\ \E loc \in {"down", "backoff"} : Goto(w, loc)
        /\ LetGo(w) /\ UNCHANGED <<redis, failures>>
    BY <1>3 DEF NoAnswer, Kill, GaveUp
  <2> QED BY <2>1, AttemptsRest, Locations
<1>4. ASSUME NEW w \in Worker, HandlerReturns(w) PROVE AttemptsInv'
  <2>1. pc[w] = "run" /\ Goto(w, "ack") /\ UNCHANGED <<redis, held, failures>>
    BY <1>4 DEF HandlerReturns
  <2> QED BY <2>1, AttemptsRest
<1>5. ASSUME UNCHANGED <<redis, pc, held, failures>> PROVE AttemptsInv'
  <2>1. queue' = queue /\ Listed' = Listed /\ UNCHANGED <<dead, failures>>
    BY <1>5 DEF redis, Listed
  <2>2. \A v \in Worker : pc'[v] = pc[v] /\ held'[v] = held[v]
    BY <1>5
  <2> QED BY <2>1, <2>2, AttemptsKept
<1>6. ASSUME NEW w \in Worker, Terminate(w) PROVE AttemptsInv'
  BY <1>5, <1>6 DEF Terminate, outcomes
<1>7. ASSUME NEW h \in Host, LateTimeout(h) PROVE AttemptsInv'
  BY <1>5, <1>7 DEF LateTimeout, outcomes
<1>8. CASE UNCHANGED vars
  BY <1>5, <1>8 DEF vars, outcomes
<1>9. ASSUME NEW w \in Worker, Start(w) \/ Work(w) \/ Fault(w) PROVE AttemptsInv'
  BY <1>1, <1>2, <1>3, <1>4, <1>6, <1>9, AttemptsFetch, AttemptsMoves, AttemptsLrem,
     AttemptsRequeue, AttemptsRaise DEF Work, Fault, Recover, Handle
<1>10. ASSUME NEW h \in Host, LateMove(h) \/ LateTimeout(h) PROVE AttemptsInv'
  BY <1>7, <1>10, AttemptsMoves
<1> QED BY <1>8, <1>9, <1>10, AttemptsEnqueue DEF Next

\* Crashes and Redis errors cost a job none of its attempts, and only a job
\* whose handler failed MaxAttempts times is dead-lettered
\* (worker.py:107-119), whatever the workers, their hosts and the faults.
THEOREM AttemptsBackedAlways == Spec => []AttemptsBacked
<1>1. Init => AttemptsInv
  BY AttemptsInit
<1>2. TypeOK /\ AttemptsInv /\ [Next]_vars => AttemptsInv'
  BY AttemptsStep
<1>3. AttemptsInv => AttemptsBacked
  BY DEF AttemptsInv, AttemptsBacked, Backed
<1> QED BY <1>1, <1>2, <1>3, TypeCorrect, PTL DEF Spec

-----------------------------------------------------------------------------
(* Conservation. *)

\* NoOtherLoss is not inductive: Ack removes a message, so a worker about to
\* acknowledge must have succeeded.
ConservationInv ==
  /\ NoOtherLoss
  /\ \A w \in Worker : pc[w] = "ack" => held[w].id \in succeeded

\* A step loses no job if it accounts for those (X) whose message it removes
\* from a list or takes from a worker's hands.
LEMMA AccountedKept ==
  ASSUME NEW X,
         \A m \in ToSet(queue) \cup Listed :
            m \in ToSet(queue') \cup Listed' \/ m.id \in X,
         \A w \in Worker : pc[w] = "requeue" =>
            (pc'[w] = "requeue" /\ held'[w] = held[w]) \/ held[w].id \in X,
         ToSet(dead) \subseteq ToSet(dead'),
         succeeded \subseteq succeeded', dropped \subseteq dropped',
         abandoned \subseteq abandoned',
         \A j \in X : Accounted(j)'
  PROVE  \A j : Accounted(j) => Accounted(j)'
<1> SUFFICES ASSUME NEW j, Accounted(j), j \notin X PROVE Accounted(j)'
  OBVIOUS
<1>1. CASE In(j, ToSet(queue) \cup Listed)
  <2>1. In(j, ToSet(queue') \cup Listed')
    BY <1>1 DEF In
  <2> QED BY <2>1 DEF Accounted, Live
<1>2. CASE InHands(j) # {}
  <2>1. PICK w \in Worker : pc[w] = "requeue" /\ held[w].id = j
    BY <1>2 DEF InHands
  <2>2. pc'[w] = "requeue" /\ held'[w].id = j
    BY <2>1
  <2>3. InHands(j)' # {}
    BY <2>2 DEF InHands
  <2> QED BY <2>3 DEF Accounted, Live
<1>3. CASE Dead(j)
  <2>1. Dead(j)'
    BY <1>3 DEF Dead, In
  <2> QED BY <2>1 DEF Accounted
<1>4. CASE j \in succeeded \cup dropped \cup abandoned
  BY <1>4 DEF Accounted
<1> QED BY <1>1, <1>2, <1>3, <1>4 DEF Accounted, Live

\* Moves between lists take nothing away.
LEMMA AccountedMoves ==
  ASSUME TypeOK,
         (\E w \in Worker : Fetch(w) \/ RecoverMove(w)) \/ (\E h \in Host : LateMove(h))
  PROVE  \A j : Accounted(j) => Accounted(j)'
<1>1. UNCHANGED <<dead, succeeded, dropped, abandoned>>
  BY DEF Fetch, RecoverMove, LateMove, outcomes
<1>2. /\ ToSet(queue) \cup Listed \subseteq ToSet(queue') \cup Listed'
      /\ \A v \in Worker : pc[v] = "requeue" => pc'[v] = "requeue" /\ held'[v] = held[v]
  <2>1. CASE \E h \in Host : LateMove(h)
    <3>1. PICK h \in Host : LateMove(h)
      BY <2>1
    <3>2. /\ queue # <<>> /\ queue' = Tail(queue)
          /\ processing' = [processing EXCEPT ![h] = Append(@, Head(queue))]
          /\ UNCHANGED <<pc, held>>
      BY <3>1 DEF LateMove
    <3> QED BY <3>2, FetchMessages DEF TypeOK
  <2>2. CASE \E w \in Worker : Fetch(w)
    <3>1. PICK w \in Worker : Fetch(w)
      BY <2>2
    <3>2. /\ pc[w] = "fetch" /\ queue # <<>> /\ queue' = Tail(queue)
          /\ processing' = [processing EXCEPT ![pkey(w)] = Append(@, Head(queue))]
          /\ held' = [held EXCEPT ![w] = Head(queue)]
          /\ Goto(w, IF Head(queue).id \in Registered[w] THEN "run" ELSE "drop")
      BY <3>1 DEF Fetch
    <3>3. pkey(w) \in Host
      BY DEF TypeOK, PodsOK, pkey
    <3>4. \A v \in Worker \ {w} : pc'[v] = pc[v] /\ held'[v] = held[v]
      BY <3>2, OthersKeep DEF TypeOK, PlacesOK
    <3>5. ToSet(queue) \cup Listed \subseteq ToSet(queue') \cup Listed'
      BY <3>2, <3>3, FetchMessages DEF TypeOK
    <3> QED BY <3>2, <3>4, <3>5
  <2>3. CASE \E w \in Worker : RecoverMove(w)
    <3>1. PICK w \in Worker : RecoverMove(w)
      BY <2>3
    <3>2. /\ pc[w] = "recover" /\ processing[pkey(w)] # <<>>
          /\ queue' = Append(queue, Head(processing[pkey(w)]))
          /\ processing' = [processing EXCEPT ![pkey(w)] = Tail(@)]
          /\ \E loc \in {"recover", "down"} : Goto(w, loc)
          /\ UNCHANGED held
      BY <3>1 DEF RecoverMove, Replied
    <3>3. pkey(w) \in Host
      BY DEF TypeOK, PodsOK, pkey
    <3>4. \A v \in Worker \ {w} : pc'[v] = pc[v]
      BY <3>2, OthersKeep DEF TypeOK
    <3>5. ToSet(queue) \cup Listed \subseteq ToSet(queue') \cup Listed'
      BY <3>2, <3>3, RecoverMessages DEF TypeOK
    <3> QED BY <3>2, <3>4, <3>5
  <2> QED BY <2>1, <2>2, <2>3
<1> DEFINE X == {}
<1>3. \A j \in X : Accounted(j)'
  OBVIOUS
<1> HIDE DEF X
<1> QED BY <1>1, <1>2, <1>3, AccountedKept

\* LREM takes the message in hand out of the list, and the worker accounts for
\* it: it was handled, is dropped, is in hand still, or is given up.
LEMMA AccountedLrem ==
  ASSUME TypeOK, ConservationInv, NEW w \in Worker, Ack(w) \/ Drop(w) \/ Unlist(w)
  PROVE  \A j : Accounted(j) => Accounted(j)'
<1> DEFINE X == {held[w].id}
<1>1. /\ Lrem(w) /\ pc[w] # "requeue"
      /\ UNCHANGED <<queue, dead, succeeded>>
      /\ dropped \subseteq dropped' /\ abandoned \subseteq abandoned'
  BY DEF Ack, Drop, Unlist, outcomes
<1>2. \A m \in ToSet(queue) \cup Listed : m \in ToSet(queue') \cup Listed' \/ m.id \in X
  BY <1>1, LremMessages DEF TypeOK
<1>3. \A v \in Worker : pc[v] = "requeue" => pc'[v] = "requeue" /\ held'[v] = held[v]
  <2>1. /\ LetGo(w) \/ UNCHANGED held
        /\ \E loc \in {"top", "backoff", "requeue"} : Goto(w, loc)
    BY DEF Ack, Drop, Unlist, Replied, GaveUp
  <2> QED BY <1>1, <2>1, OthersKeep, OthersHold DEF TypeOK
<1>4. ASSUME NEW j, j = held[w].id PROVE Accounted(j)'
  <2>1. CASE Ack(w)
    <3>1. j \in succeeded'
      BY <1>4, <2>1 DEF Ack, outcomes, ConservationInv
    <3> QED BY <3>1 DEF Accounted
  <2>2. CASE Drop(w)
    <3>1. j \in dropped'
      BY <1>4, <2>2 DEF Drop
    <3> QED BY <3>1 DEF Accounted
  <2>3. CASE Unlist(w)
    <3>1. CASE j \in abandoned'
      BY <3>1 DEF Accounted
    <3>2. CASE j \notin abandoned'
      <4>1. Goto(w, "requeue") /\ UNCHANGED held
        BY <1>4, <2>3, <3>2 DEF Unlist, Replied
      <4>2. pc'[w] = "requeue" /\ held'[w] = held[w]
        BY <4>1, OthersKeep DEF TypeOK
      <4>3. InHands(j)' # {}
        BY <1>4, <4>2 DEF InHands
      <4> QED BY <4>3 DEF Accounted, Live
    <3> QED BY <3>1, <3>2
  <2> QED BY <2>1, <2>2, <2>3
<1>5. \A j \in X : Accounted(j)'
  BY <1>4
<1> HIDE DEF X
<1> QED BY <1>1, <1>2, <1>3, <1>5, AccountedKept

\* RPUSH puts the message in hand into a list.
LEMMA AccountedRequeue ==
  ASSUME TypeOK, NEW w \in Worker, Requeue(w)
  PROVE  \A j : Accounted(j) => Accounted(j)'
<1> DEFINE X == {held[w].id}
           next == [held[w] EXCEPT !.attempts = @ + 1]
<1>1. /\ pc[w] = "requeue" /\ LetGo(w)
      /\ \/ dead' = Append(dead, next) /\ UNCHANGED queue
         \/ queue' = Append(queue, next) /\ UNCHANGED dead
      /\ \E loc \in {"top", "backoff"} : Goto(w, loc)
      /\ UNCHANGED <<processing, succeeded, dropped, abandoned>>
  BY DEF Requeue, Replied, GaveUp, outcomes
<1>2. next \in Message /\ next.id = held[w].id
  BY <1>1, HeldOK DEF TypeOK, Holding, Message
<1>3. \A s \in Seq(Message) : ToSet(Append(s, next)) = ToSet(s) \cup {next}
  BY <1>2, ToSetAppend
<1> HIDE DEF next
<1>4. Listed' = Listed
  BY <1>1 DEF Listed
<1>5. /\ ToSet(queue) \subseteq ToSet(queue') /\ ToSet(dead) \subseteq ToSet(dead')
      /\ next \in ToSet(queue') \cup ToSet(dead')
  BY <1>1, <1>3 DEF TypeOK, ListsOK
<1>6. \A v \in Worker : pc[v] = "requeue" =>
         (pc'[v] = "requeue" /\ held'[v] = held[v]) \/ held[v].id \in X
  BY <1>1, OthersKeep, OthersHold DEF TypeOK
<1>7. ASSUME NEW j, j = held[w].id PROVE Accounted(j)'
  <2>1. CASE next \in ToSet(queue')
    <3>1. In(j, ToSet(queue') \cup Listed')
      BY <1>2, <1>7, <2>1 DEF In
    <3> QED BY <3>1 DEF Accounted, Live
  <2>2. CASE next \in ToSet(dead')
    <3>1. Dead(j)'
      BY <1>2, <1>7, <2>2 DEF Dead, In
    <3> QED BY <3>1 DEF Accounted
  <2> QED BY <1>5, <2>1, <2>2
<1>8. \A j \in X : Accounted(j)'
  BY <1>7
<1> HIDE DEF X
<1> QED BY <1>1, <1>4, <1>5, <1>6, <1>8, AccountedKept

\* A worker that stops or gives up abandons what is in no list.
LEMMA AccountedGivenUp ==
  ASSUME TypeOK, NEW w \in Worker, NoAnswer(w) \/ Kill(w)
  PROVE  \A j : Accounted(j) => Accounted(j)'
<1> DEFINE X == Loses(w)
<1>1. /\ LetGo(w) /\ \E loc \in {"down", "backoff"} : Goto(w, loc)
      /\ abandoned' = abandoned \cup X
      /\ UNCHANGED <<redis, succeeded, dropped>>
  BY DEF NoAnswer, Kill, GaveUp
<1>2. queue' = queue /\ Listed' = Listed /\ dead' = dead
  BY <1>1 DEF redis, Listed
<1>3. \A v \in Worker : pc[v] = "requeue" =>
         (pc'[v] = "requeue" /\ held'[v] = held[v]) \/ held[v].id \in X
  BY <1>1, OthersKeep, OthersHold DEF TypeOK, Loses
<1>4. \A j \in X : Accounted(j)'
  BY <1>1 DEF Accounted
<1> HIDE DEF X
<1> QED BY <1>1, <1>2, <1>3, <1>4, AccountedKept

\* The steps that leave lists and hands alone.
LEMMA AccountedRest ==
  ASSUME UNCHANGED <<redis, dropped, abandoned>>, succeeded \subseteq succeeded',
         \A w \in Worker : pc[w] = "requeue" => pc'[w] = "requeue" /\ held'[w] = held[w]
  PROVE  \A j : Accounted(j) => Accounted(j)'
<1> DEFINE X == {}
<1>1. queue' = queue /\ Listed' = Listed /\ dead' = dead
  BY DEF redis, Listed
<1>2. \A j \in X : Accounted(j)'
  OBVIOUS
<1> HIDE DEF X
<1> QED BY <1>1, <1>2, AccountedKept

\* A job that enqueue accepts is in the queue, and no other is disturbed.
LEMMA AccountedEnqueue ==
  ASSUME TypeOK, NEW j \in Job, Enqueue(j)
  PROVE  /\ \A i : Accounted(i) => Accounted(i)'
         /\ \A i \in Job : caller'[i] = "accepted" => caller[i] = "accepted" \/ Accounted(i)'
<1> DEFINE m == [id |-> j, attempts |-> 0]
           X == {}
<1>1. /\ \/ queue' = Append(queue, m)
         \/ queue' = queue /\ caller' = [caller EXCEPT ![j] = "failed"]
      /\ \E r \in {"accepted", "failed"} : caller' = [caller EXCEPT ![j] = r]
      /\ UNCHANGED <<processing, dead, pc, held, succeeded, dropped, abandoned>>
  BY DEF Enqueue, outcomes
<1>2. m \in Message /\ m.id = j
  BY DEF Message
<1>3. ToSet(Append(queue, m)) = ToSet(queue) \cup {m}
  BY <1>2, ToSetAppend DEF TypeOK, ListsOK
<1> HIDE DEF m
<1>4. Listed' = Listed /\ ToSet(queue) \subseteq ToSet(queue')
  BY <1>1, <1>3 DEF Listed
<1>5. \A i \in X : Accounted(i)'
  OBVIOUS
<1> HIDE DEF X
<1>6. \A i : Accounted(i) => Accounted(i)'
  BY <1>1, <1>4, <1>5, AccountedKept
<1>7. ASSUME NEW i \in Job, caller'[i] = "accepted", caller[i] # "accepted"
      PROVE  Accounted(i)'
  <2>1. i = j /\ queue' = Append(queue, m)
    BY <1>1, <1>7 DEF TypeOK, HistoryOK
  <2>2. In(i, ToSet(queue') \cup Listed')
    BY <1>2, <1>3, <2>1 DEF In
  <2> QED BY <2>2 DEF Accounted, Live
<1> QED BY <1>6, <1>7

\* Only a handler that returned sends a worker to acknowledge.
LEMMA AckedStep ==
  ASSUME TypeOK, [Next]_vars,
         \A w \in Worker : pc[w] = "ack" => held[w].id \in succeeded
  PROVE  \A w \in Worker : pc'[w] = "ack" => held'[w].id \in succeeded'
<1> SUFFICES ASSUME NEW v \in Worker, pc'[v] = "ack" PROVE held'[v].id \in succeeded'
  OBVIOUS
<1>1. CASE pc[v] = "ack" /\ held'[v] = held[v] /\ succeeded \subseteq succeeded'
  BY <1>1
<1>2. ASSUME NEW w \in Worker, HandlerReturns(w) PROVE held'[v].id \in succeeded'
  <2>1. /\ succeeded' = succeeded \cup {held[w].id} /\ UNCHANGED held
        /\ Goto(w, "ack")
    BY <1>2 DEF HandlerReturns
  <2>2. v = w \/ pc[v] = "ack"
    BY <2>1, OthersKeep DEF TypeOK
  <2> QED BY <2>1, <2>2
<1>3. ASSUME NEW w \in Worker,
             Start(w) \/ Recover(w) \/ Poll(w) \/ Exit(w) \/ Fetch(w) \/ FetchTimeout(w)
             \/ HandlerRaises(w) \/ Ack(w) \/ Drop(w) \/ Unlist(w) \/ Requeue(w)
             \/ BackoffEnd(w) \/ FetchBroken(w) \/ NoAnswer(w) \/ Kill(w)
      PROVE  held'[v].id \in succeeded'
  <2>1. /\ \E loc \in Location \ {"ack"} : Goto(w, loc)
        /\ UNCHANGED succeeded
        /\ LetGo(w) \/ UNCHANGED held \/ \E m : held' = [held EXCEPT ![w] = m]
    <3>1. CASE Start(w) \/ Recover(w) \/ Poll(w) \/ Exit(w) \/ FetchTimeout(w) \/ BackoffEnd(w)
      BY <3>1 DEF Start, Restart, Replace, Recover, RecoverMove, RecoverEnd, Poll, Exit,
         FetchTimeout, BackoffEnd, Replied, outcomes, Location
    <3>2. CASE Fetch(w)
      <4>1. /\ Goto(w, "run") \/ Goto(w, "drop")
            /\ held' = [held EXCEPT ![w] = Head(queue)] /\ UNCHANGED succeeded
        BY <3>2 DEF Fetch, outcomes
      <4> QED BY <4>1 DEF Location
    <3>3. CASE HandlerRaises(w) \/ Ack(w) \/ Drop(w) \/ Unlist(w) \/ Requeue(w)
      BY <3>3 DEF HandlerRaises, Ack, Drop, Unlist, Requeue, Replied, GaveUp, outcomes,
         Location
    <3>4. CASE FetchBroken(w) \/ NoAnswer(w) \/ Kill(w)
      BY <3>4 DEF FetchBroken, NoAnswer, Kill, GaveUp, outcomes, Location
    <3> QED BY <1>3, <3>1, <3>2, <3>3, <3>4
  <2>2. v # w /\ pc[v] = "ack"
    BY <2>1, OthersKeep DEF TypeOK
  <2>3. held'[v] = held[v]
    BY <2>1, <2>2 DEF LetGo, TypeOK, PlacesOK
  <2> QED BY <1>1, <2>1, <2>2, <2>3
<1>4. ASSUME UNCHANGED <<pc, held, succeeded>> PROVE held'[v].id \in succeeded'
  BY <1>1, <1>4
<1>5. ASSUME NEW w \in Worker, Terminate(w) PROVE held'[v].id \in succeeded'
  BY <1>4, <1>5 DEF Terminate, outcomes
<1>6. ASSUME NEW h \in Host, LateMove(h) \/ LateTimeout(h)
      PROVE  held'[v].id \in succeeded'
  BY <1>4, <1>6 DEF LateMove, LateTimeout, outcomes
<1>7. ASSUME NEW j \in Job, Enqueue(j) PROVE held'[v].id \in succeeded'
  BY <1>4, <1>7 DEF Enqueue, outcomes
<1>8. CASE UNCHANGED vars
  BY <1>4, <1>8 DEF vars, outcomes
<1> QED BY <1>2, <1>3, <1>5, <1>6, <1>7, <1>8 DEF Next, Work, Fault, Handle

\* Every step keeps the accounts: no job is lost but through the gap.
LEMMA ConservationStep == TypeOK /\ ConservationInv /\ [Next]_vars => ConservationInv'
<1> SUFFICES ASSUME TypeOK, ConservationInv, [Next]_vars PROVE ConservationInv'
  OBVIOUS
<1>1. ASSUME \A j : Accounted(j) => Accounted(j)', UNCHANGED caller PROVE NoOtherLoss'
  BY <1>1 DEF ConservationInv, NoOtherLoss
<1>2. ASSUME NEW w \in Worker, Start(w) \/ Work(w) \/ Fault(w) PROVE NoOtherLoss'
  <2>1. UNCHANGED caller
    BY <1>2 DEF Start, Restart, Replace, Work, Recover, RecoverMove, RecoverEnd, Poll, Exit,
       Fetch, FetchTimeout, BackoffEnd, Handle, HandlerReturns, HandlerRaises, Ack, Drop,
       Unlist, Requeue, Fault, FetchBroken, NoAnswer, Terminate, Kill
  <2>2. ASSUME Fetch(w) \/ RecoverMove(w) PROVE \A j : Accounted(j) => Accounted(j)'
    BY <2>2, AccountedMoves
  <2>3. ASSUME Ack(w) \/ Drop(w) \/ Unlist(w) PROVE \A j : Accounted(j) => Accounted(j)'
    BY <2>3, AccountedLrem
  <2>4. ASSUME Requeue(w) PROVE \A j : Accounted(j) => Accounted(j)'
    BY <2>4, AccountedRequeue
  <2>5. ASSUME NoAnswer(w) \/ Kill(w) PROVE \A j : Accounted(j) => Accounted(j)'
    BY <2>5, AccountedGivenUp
  <2>6. ASSUME Start(w) \/ RecoverEnd(w) \/ Poll(w) \/ Exit(w) \/ FetchTimeout(w)
               \/ BackoffEnd(w) \/ HandlerReturns(w) \/ HandlerRaises(w) \/ FetchBroken(w)
               \/ Terminate(w)
        PROVE  \A j : Accounted(j) => Accounted(j)'
    <3>1. /\ UNCHANGED <<redis, dropped, abandoned, held>>
          /\ succeeded \subseteq succeeded'
          /\ \/ UNCHANGED pc
             \/ pc[w] # "requeue" /\ \E loc \in Location : Goto(w, loc)
      <4>1. CASE Start(w) \/ RecoverEnd(w) \/ Poll(w) \/ Exit(w) \/ FetchTimeout(w)
                 \/ BackoffEnd(w)
        BY <4>1 DEF Start, Restart, Replace, RecoverEnd, Poll, Exit, FetchTimeout,
           BackoffEnd, Replied, outcomes, Location
      <4>2. CASE HandlerReturns(w) \/ HandlerRaises(w) \/ FetchBroken(w) \/ Terminate(w)
        BY <4>2 DEF HandlerReturns, HandlerRaises, FetchBroken, Terminate, GaveUp,
           outcomes, Location
      <4> QED BY <2>6, <4>1, <4>2
    <3>2. \A v \in Worker : pc[v] = "requeue" => pc'[v] = "requeue" /\ held'[v] = held[v]
      BY <3>1, OthersKeep DEF TypeOK
    <3> QED BY <3>1, <3>2, AccountedRest
  <2>7. \A j : Accounted(j) => Accounted(j)'
    BY <1>2, <2>2, <2>3, <2>4, <2>5, <2>6 DEF Work, Fault, Handle, Recover
  <2> QED BY <1>1, <2>1, <2>7
<1>3. ASSUME NEW h \in Host, LateMove(h) \/ LateTimeout(h) PROVE NoOtherLoss'
  <2>1. CASE LateMove(h)
    <3>1. \A j : Accounted(j) => Accounted(j)'
      BY <2>1, AccountedMoves
    <3> QED BY <1>1, <2>1, <3>1 DEF LateMove
  <2>2. CASE LateTimeout(h)
    <3>1. UNCHANGED <<redis, pc, held, caller, succeeded, dropped, abandoned>>
      BY <2>2 DEF LateTimeout, outcomes
    <3> QED BY <1>1, <3>1, AccountedRest
  <2> QED BY <1>3, <2>1, <2>2
<1>4. ASSUME NEW j \in Job, Enqueue(j) PROVE NoOtherLoss'
  <2>1. /\ \A i : Accounted(i) => Accounted(i)'
        /\ \A i \in Job : caller'[i] = "accepted" => caller[i] = "accepted" \/ Accounted(i)'
    BY <1>4, AccountedEnqueue
  <2> QED BY <2>1 DEF ConservationInv, NoOtherLoss
<1>5. ASSUME UNCHANGED vars PROVE NoOtherLoss'
  <2>1. UNCHANGED <<redis, pc, held, caller, succeeded, dropped, abandoned>>
    BY <1>5 DEF vars, outcomes
  <2>2. \A j : Accounted(j) => Accounted(j)'
    BY <2>1, AccountedRest
  <2> QED BY <1>1, <2>1, <2>2
<1>6. NoOtherLoss'
  BY <1>2, <1>3, <1>4, <1>5 DEF Next
<1>7. \A w \in Worker : pc'[w] = "ack" => held'[w].id \in succeeded'
  BY AckedStep DEF ConservationInv
<1> QED BY <1>6, <1>7 DEF ConservationInv

\* An accepted job is always queued, in flight, in hand, dead-lettered,
\* handled, dropped, or one whose worker stopped between LREM and RPUSH
\* (worker.py:110-116): nothing else loses a job.
THEOREM NothingElseIsLost == Spec => []NoOtherLoss
<1>1. Init => ConservationInv
  <2>1. Init => \A j \in Job : caller[j] # "accepted"
    BY DEF Init
  <2>2. Init => \A w \in Worker : pc[w] # "ack"
    BY DEF Init
  <2> QED BY <2>1, <2>2 DEF ConservationInv, NoOtherLoss
<1>2. TypeOK /\ ConservationInv /\ [Next]_vars => ConservationInv'
  BY ConservationStep
<1>3. ConservationInv => NoOtherLoss
  BY DEF ConservationInv
<1> QED BY <1>1, <1>2, <1>3, TypeCorrect, PTL DEF Spec

-----------------------------------------------------------------------------
(* The places a job can be in. *)

QueueAt   == <<"queue", 0>>
DeadAt    == <<"dead", 0>>
ListAt(h) == <<"list", h>>
HandAt(w) == <<"hand", w>>

Queued(j)   == In(j, ToSet(queue))
ListedAt(j) == {h \in Host : In(j, ToSet(processing[h]))}

Places(j) ==
  {p \in {QueueAt} : Queued(j)} \cup {p \in {DeadAt} : Dead(j)}
  \cup {ListAt(h) : h \in ListedAt(j)} \cup {HandAt(w) : w \in InHands(j)}

\* No two messages of a list are of the same job.
Once(s) == \A i, k \in 1..Len(s) : s[i].id = s[k].id => i = k

ListsOnce == Once(queue) /\ Once(dead) /\ \A h \in Host : Once(processing[h])
OnePlace  == \A j \in Job : \A p, q \in Places(j) : p = q

\* A job nobody has enqueued is nowhere, and one that was dropped or abandoned
\* does not come back.
Untouched(j) == j \notin succeeded \cup dropped \cup abandoned
GoneOrNew ==
  /\ \A j \in Job : caller[j] = "idle" => Places(j) = {} /\ Untouched(j)
  /\ \A j \in dropped \cup abandoned : Places(j) = {}

\* No two workers have the same host, nor will they.
OwnHosts ==
  /\ \A v, w \in Worker : host[v] = host[w] => v = w
  /\ \A w \in Worker : host[w] \notin fresh

\* Where a worker has a message in hand that its processing list still has.
AtWork == {"run", "ack", "drop", "unlist"}
HeldListed == \A w \in Worker : pc[w] \in AtWork => held[w] \in ToSet(processing[pkey(w)])

\* Only a message without a handler is about to be dropped.
DropsUnknown == \A w \in Worker : pc[w] = "drop" => held[w].id \notin Registered[w]

\* ExclusiveExecution is not inductive: that a job is in one place needs that a
\* new job is in none, and that an LREM finds the message it is given, which
\* needs that no other worker empties this worker's list.
PlacesInv == ListsOnce /\ OnePlace /\ GoneOrNew /\ OwnHosts /\ HeldListed /\ DropsUnknown

\* While Redis answers every command, a worker at work has nothing but its
\* message in its list, and a worker that was told to stop and not killed
\* leaves it empty.
LeftAt(w) ==
  /\ stop[w] => signals >= 1
  /\ errors = 0 =>
       /\ pc[w] # "backoff"
       /\ pc[w] \in AtWork => processing[pkey(w)] = <<held[w]>>
       /\ \/ pc[w] \in {"top", "fetch", "requeue"}
          \/ pc[w] = "down" /\ stop[w] /\ signals = 1
          => processing[pkey(w)] = <<>>

\* Nor does a late BLMOVE add to a list then.
LeftInv ==
  /\ \A w \in Worker : LeftAt(w)
  /\ errors = 0 => \A h \in Host : lateMoves[h] = 0

-----------------------------------------------------------------------------
(* What the commands do to the jobs of a list. *)

\* A list has a message of a job iff some position has.
LEMMA InIndexed ==
  ASSUME NEW s \in Seq(Message), NEW j
  PROVE  In(j, ToSet(s)) <=> \E i \in 1..Len(s) : s[i].id = j
BY ToSetIndexed DEF In

\* RPUSH of a job the list has not.
LEMMA OnceAppend ==
  ASSUME NEW s \in Seq(Message), NEW m \in Message
  PROVE  /\ Once(s) /\ ~In(m.id, ToSet(s)) => Once(Append(s, m))
         /\ \A j : In(j, ToSet(Append(s, m))) <=> In(j, ToSet(s)) \/ j = m.id
<1>1. \A j : In(j, ToSet(Append(s, m))) <=> In(j, ToSet(s)) \/ j = m.id
  BY ToSetAppend DEF In
<1>2. ASSUME Once(s), ~In(m.id, ToSet(s)) PROVE Once(Append(s, m))
  <2> DEFINE t == Append(s, m)
  <2>1. /\ Len(t) = Len(s) + 1 /\ Len(s) \in Nat
        /\ \A i \in 1..Len(s) : t[i] = s[i]
        /\ t[Len(s) + 1] = m
    BY AppendProperties, LenProperties
  <2> HIDE DEF t
  <2>2. \A i \in 1..Len(s) : t[i].id # m.id
    BY <1>2, <2>1, InIndexed
  <2>3. ASSUME NEW i \in 1..Len(t), NEW k \in 1..Len(t), t[i].id = t[k].id PROVE i = k
    <3>1. CASE i = Len(s) + 1 \/ k = Len(s) + 1
      BY <2>1, <2>2, <2>3, <3>1
    <3>2. CASE i \in 1..Len(s) /\ k \in 1..Len(s)
      BY <1>2, <2>1, <2>3, <3>2 DEF Once
    <3> QED BY <2>1, <3>1, <3>2
  <2> QED BY <2>3 DEF Once, t
<1> QED BY <1>1, <1>2

\* LMOVE takes the only message of its job.
LEMMA OnceTail ==
  ASSUME NEW s \in Seq(Message), s # <<>>, Once(s)
  PROVE  /\ Head(s) \in Message /\ In(Head(s).id, ToSet(s))
         /\ Once(Tail(s)) /\ ~In(Head(s).id, ToSet(Tail(s)))
         /\ \A j : j # Head(s).id => (In(j, ToSet(Tail(s))) <=> In(j, ToSet(s)))
<1> DEFINE t == Tail(s)
<1>1. /\ Head(s) \in Message /\ t \in Seq(Message) /\ Len(t) = Len(s) - 1
      /\ \A i \in 1..Len(t) : t[i] = s[i + 1]
      /\ Len(s) \in Nat \ {0} /\ Head(s) = s[1]
  BY HeadTailProperties, EmptySeq, LenProperties
<1>2. ToSet(s) = {Head(s)} \cup ToSet(t)
  BY ToSetHeadTail
<1> HIDE DEF t
<1>3. Once(t)
  BY <1>1 DEF Once
<1>4. ~In(Head(s).id, ToSet(t))
  <2> SUFFICES ASSUME NEW i \in 1..Len(t), t[i].id = Head(s).id PROVE FALSE
    BY <1>1, InIndexed
  <2>1. s[i + 1].id = s[1].id /\ i + 1 \in 1..Len(s) /\ 1 \in 1..Len(s) /\ i + 1 # 1
    BY <1>1
  <2> QED BY <2>1 DEF Once
<1>5. /\ In(Head(s).id, ToSet(s))
      /\ \A j : j # Head(s).id => (In(j, ToSet(t)) <=> In(j, ToSet(s)))
  BY <1>2 DEF In
<1> QED BY <1>1, <1>3, <1>4, <1>5 DEF t

\* LREM takes the only message of its job.
LEMMA OnceRemove ==
  ASSUME NEW s \in Seq(Message), Once(s), NEW m \in ToSet(s)
  PROVE  LET t == RemoveFirst(s, m) IN
         /\ In(m.id, ToSet(s)) /\ Once(t) /\ ~In(m.id, ToSet(t))
         /\ \A j : j # m.id => (In(j, ToSet(t)) <=> In(j, ToSet(s)))
<1> DEFINE t == RemoveFirst(s, m)
<1>1. PICK k \in 1..Len(s) : s[k] = m /\ t = RemoveAt(s, k)
  BY FirstOccurrence
<1>2. /\ t \in Seq(Message) /\ Len(t) = Len(s) - 1 /\ Len(s) \in Nat
      /\ \A i \in 1..Len(t) : t[i] = IF i < k THEN s[i] ELSE s[i + 1]
  BY <1>1, RemoveAtElements, LenProperties
<1>3. /\ ToSet(t) \subseteq ToSet(s)
      /\ \A x \in ToSet(s) : x # m => x \in ToSet(t)
  BY ToSetRemoveFirst
<1> HIDE DEF t
<1> DEFINE old(i) == IF i < k THEN i ELSE i + 1
<1>4. \A i \in 1..Len(t) : old(i) \in 1..Len(s) /\ old(i) # k /\ t[i] = s[old(i)]
  BY <1>2
<1>5. \A i, l \in 1..Len(t) : old(i) = old(l) => i = l
  BY <1>2
<1> HIDE DEF old
<1>6. Once(t)
  BY <1>4, <1>5 DEF Once
<1>7. ~In(m.id, ToSet(t))
  <2> SUFFICES ASSUME NEW i \in 1..Len(t), t[i].id = m.id PROVE FALSE
    BY <1>2, InIndexed
  <2> QED BY <1>1, <1>4 DEF Once
<1>8. /\ In(m.id, ToSet(s))
      /\ \A j : j # m.id => (In(j, ToSet(t)) <=> In(j, ToSet(s)))
  BY <1>3 DEF In
<1> QED BY <1>6, <1>7, <1>8 DEF t

-----------------------------------------------------------------------------
(* What the commands do to the places of the jobs. *)

\* Every place of a job is in the queue, in a list, among the dead or in hands.
LEMMA PlacesMembers ==
  ASSUME NEW j
  PROVE  /\ QueueAt \in Places(j) <=> Queued(j)
         /\ DeadAt \in Places(j) <=> Dead(j)
         /\ \A h : ListAt(h) \in Places(j) <=> h \in ListedAt(j)
         /\ \A w : HandAt(w) \in Places(j) <=> w \in InHands(j)
<1>1. /\ QueueAt # DeadAt
      /\ \A h : QueueAt # ListAt(h) /\ DeadAt # ListAt(h)
      /\ \A w : QueueAt # HandAt(w) /\ DeadAt # HandAt(w)
      /\ \A h, w : ListAt(h) # HandAt(w)
      /\ \A g, h : ListAt(g) = ListAt(h) => g = h
      /\ \A v, w : HandAt(v) = HandAt(w) => v = w
  BY DEF QueueAt, DeadAt, ListAt, HandAt
<1> QED BY <1>1, Zenon DEF Places

\* Two places are of different kinds, or of different hosts or workers.
LEMMA PlacesDiffer ==
  /\ QueueAt # DeadAt
  /\ \A h : QueueAt # ListAt(h) /\ DeadAt # ListAt(h)
  /\ \A w : QueueAt # HandAt(w) /\ DeadAt # HandAt(w)
  /\ \A h, w : ListAt(h) # HandAt(w)
  /\ \A g, h : ListAt(g) = ListAt(h) => g = h
BY DEF QueueAt, DeadAt, ListAt, HandAt

\* A job is nowhere but in the place it is in.
LEMMA OnlyPlace ==
  ASSUME OnePlace, NEW j \in Job, NEW p \in Places(j)
  PROVE  Places(j) = {p}
BY DEF OnePlace

\* A job whose lists and hands are as before is where it was.
LEMMA SamePlaces ==
  ASSUME NEW j, Queued(j)' <=> Queued(j), Dead(j)' <=> Dead(j),
         ListedAt(j)' = ListedAt(j), InHands(j)' = InHands(j)
  PROVE  Places(j)' = Places(j)
BY DEF Places

\* One job goes from some places to others.
Moves(j, from, to) ==
  /\ j \in Job /\ Places(j) = from /\ Places(j)' = to
  /\ \A i \in Job \ {j} : Places(i)' = Places(i)

\* A worker that neither had nor gets a job between LREM and RPUSH.
LEMMA SameHands ==
  ASSUME NEW w \in Worker, pc[w] # "requeue", pc'[w] # "requeue",
         \A v \in Worker \ {w} : pc'[v] = pc[v] /\ held'[v] = held[v]
  PROVE  \A i : InHands(i)' = InHands(i)
<1> SUFFICES ASSUME NEW i, NEW v PROVE v \in InHands(i)' <=> v \in InHands(i)
  OBVIOUS
<1> QED BY DEF InHands

\* BLMOVE, in time or late: from the queue to a list.
LEMMA FetchPlaces ==
  ASSUME ListsOK, ListsOnce, OnePlace, NEW h \in Host, queue # <<>>,
         NEW m, m = Head(queue), queue' = Tail(queue),
         processing' = [processing EXCEPT ![h] = Append(@, m)],
         UNCHANGED dead, \A i : InHands(i)' = InHands(i)
  PROVE  ListsOnce' /\ Moves(m.id, {QueueAt}, {ListAt(h)})
<1> DEFINE j == m.id
           s == processing[h]
<1>1. /\ m \in Message /\ In(j, ToSet(queue))
      /\ Once(Tail(queue)) /\ ~In(j, ToSet(Tail(queue)))
      /\ \A i : i # j => (In(i, ToSet(Tail(queue))) <=> In(i, ToSet(queue)))
  BY OnceTail DEF ListsOK, ListsOnce
<1>2. j \in Job
  BY <1>1 DEF Message
<1>3. Queued(j) /\ Places(j) = {QueueAt}
  BY <1>1, <1>2, OnlyPlace, PlacesMembers DEF Queued
<1>4. ~Dead(j) /\ ListedAt(j) = {} /\ InHands(j) = {}
  BY <1>3, PlacesMembers, PlacesDiffer
<1>5. s \in Seq(Message) /\ Once(s) /\ ~In(j, ToSet(s))
  BY <1>4 DEF ListsOK, ListsOnce, ListedAt
<1>6. /\ Once(Append(s, m))
      /\ \A i : In(i, ToSet(Append(s, m))) <=> In(i, ToSet(s)) \/ i = j
  BY <1>1, <1>5, OnceAppend
<1>7. /\ processing'[h] = Append(s, m)
      /\ \A g \in Host \ {h} : processing'[g] = processing[g]
  BY DEF ListsOK
<1> HIDE DEF s
<1>8. ListsOnce'
  BY <1>1, <1>6, <1>7 DEF ListsOnce
<1>9. ~Queued(j)' /\ ~Dead(j)' /\ ListedAt(j)' = {h} /\ InHands(j)' = {}
  BY <1>1, <1>4, <1>6, <1>7 DEF Queued, Dead, ListedAt
<1>10. Places(j)' = {ListAt(h)}
  BY <1>9 DEF Places
<1>11. ASSUME NEW i \in Job \ {j} PROVE Places(i)' = Places(i)
  <2>1. (Queued(i)' <=> Queued(i)) /\ (Dead(i)' <=> Dead(i))
    BY <1>1, <1>11 DEF Queued, Dead
  <2>2. ListedAt(i)' = ListedAt(i)
    BY <1>6, <1>7, <1>11 DEF ListedAt, s
  <2> QED BY <2>1, <2>2, SamePlaces
<1> QED BY <1>2, <1>3, <1>8, <1>10, <1>11 DEF Moves

\* LMOVE: from a list to the queue.
LEMMA RecoverPlaces ==
  ASSUME ListsOK, ListsOnce, OnePlace, NEW h \in Host, processing[h] # <<>>,
         NEW m, m = Head(processing[h]), queue' = Append(queue, m),
         processing' = [processing EXCEPT ![h] = Tail(@)],
         UNCHANGED dead, \A i : InHands(i)' = InHands(i)
  PROVE  ListsOnce' /\ Moves(m.id, {ListAt(h)}, {QueueAt})
<1> DEFINE s == processing[h]
           j == m.id
<1>1. /\ m \in Message /\ In(j, ToSet(s))
      /\ Once(Tail(s)) /\ ~In(j, ToSet(Tail(s)))
      /\ \A i : i # j => (In(i, ToSet(Tail(s))) <=> In(i, ToSet(s)))
  BY OnceTail DEF ListsOK, ListsOnce
<1>2. j \in Job
  BY <1>1 DEF Message
<1>3. h \in ListedAt(j) /\ Places(j) = {ListAt(h)}
  BY <1>1, <1>2, OnlyPlace, PlacesMembers DEF ListedAt
<1>4. ~Queued(j) /\ ~Dead(j) /\ ListedAt(j) = {h} /\ InHands(j) = {}
  BY <1>3, PlacesMembers, PlacesDiffer
<1>5. queue \in Seq(Message) /\ Once(queue) /\ ~In(j, ToSet(queue))
  BY <1>4 DEF ListsOK, ListsOnce, Queued
<1>6. /\ Once(Append(queue, m))
      /\ \A i : In(i, ToSet(Append(queue, m))) <=> In(i, ToSet(queue)) \/ i = j
  BY <1>1, <1>5, OnceAppend
<1>7. /\ processing'[h] = Tail(s)
      /\ \A g \in Host \ {h} : processing'[g] = processing[g]
  BY DEF ListsOK
<1>8. queue' = Append(queue, m)
  OBVIOUS
<1>9. ListsOnce'
  BY <1>1, <1>6, <1>7, <1>8 DEF ListsOnce
<1>10. Queued(j)' /\ ~Dead(j)' /\ ListedAt(j)' = {} /\ InHands(j)' = {}
  BY <1>1, <1>4, <1>6, <1>7, <1>8 DEF Queued, Dead, ListedAt
<1>11. Places(j)' = {QueueAt}
  BY <1>10 DEF Places
<1>12. ASSUME NEW i \in Job \ {j} PROVE Places(i)' = Places(i)
  <2>1. (Queued(i)' <=> Queued(i)) /\ (Dead(i)' <=> Dead(i))
    BY <1>6, <1>8, <1>12 DEF Queued, Dead
  <2>2. ListedAt(i)' = ListedAt(i)
    BY <1>1, <1>7, <1>12 DEF ListedAt
  <2> QED BY <2>1, <2>2, SamePlaces
<1> QED BY <1>2, <1>3, <1>9, <1>11, <1>12 DEF Moves

\* LREM: from a list to the hands of the worker, or to nowhere.
LEMMA LremPlaces ==
  ASSUME ListsOK, ListsOnce, OnePlace, NEW h \in Host, NEW m \in ToSet(processing[h]),
         processing' = [processing EXCEPT ![h] = RemoveFirst(@, m)],
         UNCHANGED <<queue, dead>>, NEW hands, InHands(m.id)' = hands,
         \A i : i # m.id => InHands(i)' = InHands(i)
  PROVE  ListsOnce' /\ Moves(m.id, {ListAt(h)}, {HandAt(v) : v \in hands})
<1> DEFINE s == processing[h]
           j == m.id
<1>1. s \in Seq(Message) /\ Once(s)
  BY DEF ListsOK, ListsOnce
<1>2. /\ In(j, ToSet(s)) /\ Once(RemoveFirst(s, m)) /\ ~In(j, ToSet(RemoveFirst(s, m)))
      /\ \A i : i # j => (In(i, ToSet(RemoveFirst(s, m))) <=> In(i, ToSet(s)))
  BY <1>1, OnceRemove
<1>3. j \in Job
  <2>1. m \in Message
    BY <1>1, ToSetIndexed
  <2> QED BY <2>1 DEF Message
<1>4. h \in ListedAt(j) /\ Places(j) = {ListAt(h)}
  BY <1>2, <1>3, OnlyPlace, PlacesMembers DEF ListedAt
<1>5. ~Queued(j) /\ ~Dead(j) /\ ListedAt(j) = {h}
  BY <1>4, PlacesMembers, PlacesDiffer
<1>6. /\ processing'[h] = RemoveFirst(s, m)
      /\ \A g \in Host \ {h} : processing'[g] = processing[g]
  BY DEF ListsOK
<1>7. ListsOnce'
  BY <1>2, <1>6 DEF ListsOnce
<1>8. ~Queued(j)' /\ ~Dead(j)' /\ ListedAt(j)' = {}
  BY <1>2, <1>5, <1>6 DEF Queued, Dead, ListedAt
<1>9. Places(j)' = {HandAt(v) : v \in hands}
  BY <1>8 DEF Places
<1>10. ASSUME NEW i \in Job \ {j} PROVE Places(i)' = Places(i)
  <2>1. (Queued(i)' <=> Queued(i)) /\ (Dead(i)' <=> Dead(i))
    BY DEF Queued, Dead
  <2>2. ListedAt(i)' = ListedAt(i)
    BY <1>2, <1>6, <1>10 DEF ListedAt
  <2> QED BY <1>10, <2>1, <2>2, SamePlaces
<1> QED BY <1>3, <1>4, <1>7, <1>9, <1>10 DEF Moves

\* RPUSH to the queue of a job that is in no list.
LEMMA PushPlaces ==
  ASSUME ListsOK, ListsOnce, NEW m \in Message, NEW from, Places(m.id) = from,
         QueueAt \notin from, DeadAt \notin from, \A h : ListAt(h) \notin from,
         UNCHANGED processing,
         InHands(m.id)' = {}, \A i : i # m.id => InHands(i)' = InHands(i)
  PROVE  /\ queue' = Append(queue, m) /\ UNCHANGED dead =>
              ListsOnce' /\ Moves(m.id, from, {QueueAt})
         /\ dead' = Append(dead, m) /\ UNCHANGED queue =>
              ListsOnce' /\ Moves(m.id, from, {DeadAt})
<1> DEFINE j == m.id
<1>1. j \in Job
  BY DEF Message
<1>2. ~Queued(j) /\ ~Dead(j) /\ ListedAt(j) = {}
  BY PlacesMembers
<1>3. \A i : ListedAt(i)' = ListedAt(i)
  BY DEF ListedAt
<1>4. ASSUME NEW s \in Seq(Message), Once(s), ~In(j, ToSet(s))
      PROVE  /\ Once(Append(s, m))
             /\ \A i : In(i, ToSet(Append(s, m))) <=> In(i, ToSet(s)) \/ i = j
  BY <1>4, OnceAppend
<1>5. ASSUME queue' = Append(queue, m), UNCHANGED dead
      PROVE  ListsOnce' /\ Moves(j, from, {QueueAt})
  <2>1. /\ Once(queue')
        /\ \A i : Queued(i)' <=> Queued(i) \/ i = j
    BY <1>2, <1>4, <1>5 DEF Queued, ListsOK, ListsOnce
  <2>2. \A i : Dead(i)' <=> Dead(i)
    BY <1>5 DEF Dead
  <2>3. ListsOnce'
    BY <1>5, <2>1 DEF ListsOnce
  <2>4. Places(j)' = {QueueAt}
    BY <1>2, <1>3, <2>1, <2>2 DEF Places
  <2>5. \A i \in Job \ {j} : Places(i)' = Places(i)
    BY <1>3, <2>1, <2>2, SamePlaces
  <2> QED BY <1>1, <2>3, <2>4, <2>5 DEF Moves
<1>6. ASSUME dead' = Append(dead, m), UNCHANGED queue
      PROVE  ListsOnce' /\ Moves(j, from, {DeadAt})
  <2>1. /\ Once(dead')
        /\ \A i : Dead(i)' <=> Dead(i) \/ i = j
    BY <1>2, <1>4, <1>6 DEF Dead, ListsOK, ListsOnce
  <2>2. \A i : Queued(i)' <=> Queued(i)
    BY <1>6 DEF Queued
  <2>3. ListsOnce'
    BY <1>6, <2>1 DEF ListsOnce
  <2>4. Places(j)' = {DeadAt}
    BY <1>2, <1>3, <2>1, <2>2 DEF Places
  <2>5. \A i \in Job \ {j} : Places(i)' = Places(i)
    BY <1>3, <2>1, <2>2, SamePlaces
  <2> QED BY <1>1, <2>3, <2>4, <2>5 DEF Moves
<1> QED BY <1>5, <1>6

\* A worker that stops between LREM and RPUSH: from its hands to nowhere.
LEMMA LosePlaces ==
  ASSUME ListsOnce, UNCHANGED redis, NEW j \in Job, NEW w, Places(j) = {HandAt(w)},
         InHands(j)' = {}, \A i : i # j => InHands(i)' = InHands(i)
  PROVE  ListsOnce' /\ Moves(j, {HandAt(w)}, {})
<1>1. /\ ListsOnce'
      /\ \A i : /\ Queued(i)' <=> Queued(i)
                /\ Dead(i)' <=> Dead(i)
                /\ ListedAt(i)' = ListedAt(i)
  BY DEF redis, ListsOnce, Queued, Dead, ListedAt
<1>2. ~Queued(j) /\ ~Dead(j) /\ ListedAt(j) = {}
  BY PlacesMembers, PlacesDiffer
<1>3. Places(j)' = {}
  BY <1>1, <1>2 DEF Places
<1> QED BY <1>1, <1>3, SamePlaces DEF Moves

\* The other steps move no job.
LEMMA RestPlaces ==
  ASSUME ListsOnce, UNCHANGED redis, \A i : InHands(i)' = InHands(i)
  PROVE  ListsOnce' /\ \A i : Places(i)' = Places(i)
<1>1. /\ ListsOnce'
      /\ \A i : /\ Queued(i)' <=> Queued(i)
                /\ Dead(i)' <=> Dead(i)
                /\ ListedAt(i)' = ListedAt(i)
  BY DEF redis, ListsOnce, Queued, Dead, ListedAt
<1> QED BY <1>1, SamePlaces

-----------------------------------------------------------------------------
(* The hands of a worker before and after the gap of handle_job. *)

\* A worker enters the gap with the job it worked on.
LEMMA HandsTake ==
  ASSUME NEW w \in Worker, NEW j, held[w].id = j, InHands(j) = {},
         pc[w] # "requeue", pc'[w] = "requeue", held'[w] = held[w],
         \A v \in Worker \ {w} : pc'[v] = pc[v] /\ held'[v] = held[v]
  PROVE  InHands(j)' = {w} /\ \A i : i # j => InHands(i)' = InHands(i)
<1>1. ASSUME NEW i, NEW v
      PROVE  v \in InHands(i)' <=> v \in InHands(i) \/ (v = w /\ i = j)
  BY DEF InHands
<1>2. \A v : v \in InHands(j)' <=> v = w
  BY <1>1
<1>3. ASSUME NEW i, i # j PROVE InHands(i)' = InHands(i)
  <2>1. \A v : v \in InHands(i)' <=> v \in InHands(i)
    BY <1>1, <1>3
  <2> QED BY <2>1
<1>4. InHands(j)' = {w}
  BY <1>2
<1> QED BY <1>3, <1>4

\* A worker leaves the gap, with its job or without.
LEMMA HandsGive ==
  ASSUME OnePlace, NEW w \in Worker, NEW j \in Job, held[w].id = j,
         pc[w] = "requeue", pc'[w] # "requeue",
         \A v \in Worker \ {w} : pc'[v] = pc[v] /\ held'[v] = held[v]
  PROVE  /\ Places(j) = {HandAt(w)}
         /\ InHands(j)' = {} /\ \A i : i # j => InHands(i)' = InHands(i)
<1>1. w \in InHands(j)
  BY DEF InHands
<1>2. Places(j) = {HandAt(w)}
  BY <1>1, OnlyPlace, PlacesMembers
<1>3. \A v \in InHands(j) : v = w
  <2> SUFFICES ASSUME NEW v \in InHands(j) PROVE v = w
    OBVIOUS
  <2>1. HandAt(v) = HandAt(w)
    BY <1>2, PlacesMembers
  <2> QED BY <2>1 DEF HandAt
<1>4. ASSUME NEW i, NEW v
      PROVE  v \in InHands(i)' <=> v \in InHands(i) /\ v # w
  BY DEF InHands
<1>5. \A v : v \notin InHands(j)'
  BY <1>3, <1>4
<1>6. ASSUME NEW i, i # j PROVE InHands(i)' = InHands(i)
  <2>1. w \notin InHands(i)
    BY <1>6 DEF InHands
  <2>2. \A v : v \in InHands(i)' <=> v \in InHands(i)
    BY <1>4, <2>1
  <2> QED BY <2>2
<1>7. InHands(j)' = {}
  BY <1>5
<1> QED BY <1>2, <1>6, <1>7

-----------------------------------------------------------------------------
(* What each step does to the places of the jobs. *)

\* BLMOVE in time.
LEMMA PlacesFetch ==
  ASSUME TypeOK, PlacesInv, NEW w \in Worker, Fetch(w)
  PROVE  ListsOnce' /\ \E j : Moves(j, {QueueAt}, {ListAt(pkey(w))})
<1>1. /\ pc[w] = "fetch" /\ queue # <<>> /\ queue' = Tail(queue)
      /\ processing' = [processing EXCEPT ![pkey(w)] = Append(@, Head(queue))]
      /\ held' = [held EXCEPT ![w] = Head(queue)]
      /\ \E loc \in {"run", "drop"} : Goto(w, loc)
      /\ UNCHANGED dead
  BY DEF Fetch
<1>2. \A i : InHands(i)' = InHands(i)
  <2>1. pc'[w] # "requeue" /\ \A v \in Worker \ {w} : pc'[v] = pc[v] /\ held'[v] = held[v]
    BY <1>1, OthersKeep DEF TypeOK, PlacesOK
  <2> QED BY <1>1, <2>1, SameHands
<1>3. PICK m : m = Head(queue)
  OBVIOUS
<1>4. PICK h \in Host : h = pkey(w)
  BY DEF TypeOK, PodsOK, pkey
<1>5. ListsOnce' /\ Moves(m.id, {QueueAt}, {ListAt(h)})
  BY <1>1, <1>2, <1>3, <1>4, FetchPlaces DEF TypeOK, PlacesInv
<1> QED BY <1>4, <1>5

\* BLMOVE late.
LEMMA PlacesLate ==
  ASSUME TypeOK, PlacesInv, NEW h \in Host, LateMove(h)
  PROVE  ListsOnce' /\ \E j : Moves(j, {QueueAt}, {ListAt(h)})
<1>1. /\ queue # <<>> /\ queue' = Tail(queue)
      /\ processing' = [processing EXCEPT ![h] = Append(@, Head(queue))]
      /\ UNCHANGED <<dead, pc, held>>
  BY DEF LateMove
<1>2. \A i : InHands(i)' = InHands(i)
  BY <1>1 DEF InHands
<1>3. PICK m : m = Head(queue)
  OBVIOUS
<1> QED BY <1>1, <1>2, <1>3, FetchPlaces DEF TypeOK, PlacesInv

\* LMOVE of recover_orphans.
LEMMA PlacesRecover ==
  ASSUME TypeOK, PlacesInv, NEW w \in Worker, RecoverMove(w)
  PROVE  ListsOnce' /\ \E j : Moves(j, {ListAt(pkey(w))}, {QueueAt})
<1>1. /\ pc[w] = "recover" /\ processing[pkey(w)] # <<>>
      /\ queue' = Append(queue, Head(processing[pkey(w)]))
      /\ processing' = [processing EXCEPT ![pkey(w)] = Tail(@)]
      /\ \E loc \in {"recover", "down"} : Goto(w, loc)
      /\ UNCHANGED <<dead, held>>
  BY DEF RecoverMove, Replied
<1>2. \A i : InHands(i)' = InHands(i)
  <2>1. pc'[w] # "requeue" /\ \A v \in Worker \ {w} : pc'[v] = pc[v] /\ held'[v] = held[v]
    BY <1>1, OthersKeep DEF TypeOK
  <2> QED BY <1>1, <2>1, SameHands
<1>3. PICK h \in Host : h = pkey(w)
  BY DEF TypeOK, PodsOK, pkey
<1>4. PICK m : m = Head(processing[h])
  OBVIOUS
<1>5. ListsOnce' /\ Moves(m.id, {ListAt(h)}, {QueueAt})
  BY <1>1, <1>2, <1>3, <1>4, RecoverPlaces DEF TypeOK, PlacesInv
<1> QED BY <1>3, <1>5

\* LREM: the job leaves the list; it stays in hand only if handle_job goes on
\* to the RPUSH.
LEMMA PlacesLrem ==
  ASSUME TypeOK, PlacesInv, NEW w \in Worker, Ack(w) \/ Drop(w) \/ Unlist(w),
         NEW j, j = held[w].id
  PROVE  /\ ListsOnce'
         /\ Moves(j, {ListAt(pkey(w))}, IF pc'[w] = "requeue" THEN {HandAt(w)} ELSE {})
         /\ pc'[w] = "requeue" => pc[w] = "unlist" /\ held'[w] = held[w]
         /\ pc'[w] \notin AtWork
         /\ \A v \in Worker \ {w} : pc'[v] = pc[v] /\ held'[v] = held[v]
<1>1. /\ pc[w] \in {"ack", "drop", "unlist"} /\ Lrem(w)
      /\ \/ LetGo(w) /\ \E loc \in {"top", "backoff"} : Goto(w, loc)
         \/ pc[w] = "unlist" /\ UNCHANGED held /\ Goto(w, "requeue")
      /\ UNCHANGED <<queue, dead>>
  BY DEF Ack, Drop, Unlist, Replied, GaveUp
<1>2. PICK h \in Host : h = pkey(w)
  BY DEF TypeOK, PodsOK, pkey
<1>3. PICK m : m = held[w]
  OBVIOUS
<1>4. /\ m \in ToSet(processing[h])
      /\ processing' = [processing EXCEPT ![h] = RemoveFirst(@, m)]
  BY <1>1, <1>2, <1>3 DEF PlacesInv, HeldListed, AtWork, Lrem
<1>5. m.id = j
  BY <1>3
<1>6. CASE LetGo(w) /\ \E loc \in {"top", "backoff"} : Goto(w, loc)
  <2>1. /\ pc'[w] \notin AtWork \cup {"requeue"}
        /\ \A v \in Worker \ {w} : pc'[v] = pc[v] /\ held'[v] = held[v]
    BY <1>6, OthersKeep, OthersHold DEF TypeOK, AtWork
  <2>2. \A i : InHands(i)' = InHands(i)
    BY <1>1, <2>1, SameHands
  <2>3. InHands(j) = {}
    <3>1. h \in ListedAt(j) /\ j \in Job
      BY <1>1, <1>2, <1>3, <1>4, <1>5, HeldOK DEF ListedAt, In, TypeOK, Holding
    <3>2. Places(j) = {ListAt(h)}
      BY <3>1, OnlyPlace, PlacesMembers DEF PlacesInv
    <3> QED BY <3>2, PlacesMembers, PlacesDiffer
  <2>4. ListsOnce' /\ Moves(j, {ListAt(h)}, {HandAt(v) : v \in {}})
    BY <1>1, <1>4, <1>5, <2>2, <2>3, LremPlaces DEF TypeOK, PlacesInv
  <2>5. {HandAt(v) : v \in {}} = {}
    OBVIOUS
  <2> QED BY <1>2, <2>1, <2>4, <2>5
<1>7. CASE pc[w] = "unlist" /\ UNCHANGED held /\ Goto(w, "requeue")
  <2>1. /\ pc'[w] = "requeue" /\ pc'[w] \notin AtWork /\ held'[w] = held[w]
        /\ \A v \in Worker \ {w} : pc'[v] = pc[v] /\ held'[v] = held[v]
    BY <1>7, OthersKeep DEF TypeOK, AtWork
  <2>2. InHands(j) = {}
    <3>1. h \in ListedAt(j) /\ j \in Job
      BY <1>1, <1>2, <1>3, <1>4, <1>5, HeldOK DEF ListedAt, In, TypeOK, Holding
    <3>2. Places(j) = {ListAt(h)}
      BY <3>1, OnlyPlace, PlacesMembers DEF PlacesInv
    <3> QED BY <3>2, PlacesMembers, PlacesDiffer
  <2>3. InHands(j)' = {w} /\ \A i : i # j => InHands(i)' = InHands(i)
    BY <1>3, <1>5, <1>7, <2>1, <2>2, HandsTake
  <2>4. ListsOnce' /\ Moves(j, {ListAt(h)}, {HandAt(v) : v \in {w}})
    BY <1>1, <1>4, <1>5, <2>3, LremPlaces DEF TypeOK, PlacesInv
  <2>5. {HandAt(v) : v \in {w}} = {HandAt(w)}
    OBVIOUS
  <2> QED BY <1>2, <1>7, <2>1, <2>4, <2>5
<1> QED BY <1>1, <1>6, <1>7

\* RPUSH of handle_job: from the hands to the queue, or to the dead when this
\* was the last attempt.
LEMMA PlacesRequeue ==
  ASSUME TypeOK, PlacesInv, NEW w \in Worker, Requeue(w), NEW j, j = held[w].id
  PROVE  /\ ListsOnce'
         /\ \/ Moves(j, {HandAt(w)}, {QueueAt})
            \/ held[w].attempts + 1 >= MaxAttempts /\ Moves(j, {HandAt(w)}, {DeadAt})
<1>1. PICK n : n = [held[w] EXCEPT !.attempts = @ + 1]
  OBVIOUS
<1>2. /\ pc[w] = "requeue" /\ LetGo(w)
      /\ IF n.attempts >= MaxAttempts
           THEN dead' = Append(dead, n) /\ UNCHANGED queue
           ELSE queue' = Append(queue, n) /\ UNCHANGED dead
      /\ \E loc \in {"top", "backoff"} : Goto(w, loc)
      /\ UNCHANGED processing
  BY <1>1 DEF Requeue, Replied, GaveUp
<1>3. /\ n \in Message /\ n.id = j /\ j \in Job
      /\ n.attempts = held[w].attempts + 1
  <2>1. held[w] \in Message /\ held[w].id \in Job /\ held[w].attempts \in Nat
    BY <1>2, HeldOK DEF TypeOK, Holding
  <2> QED BY <1>1, <2>1 DEF Message
<1>4. /\ pc'[w] # "requeue"
      /\ \A v \in Worker \ {w} : pc'[v] = pc[v] /\ held'[v] = held[v]
  BY <1>2, OthersKeep, OthersHold DEF TypeOK
<1>5. /\ Places(j) = {HandAt(w)}
      /\ InHands(j)' = {} /\ \A i : i # j => InHands(i)' = InHands(i)
  BY <1>2, <1>3, <1>4, HandsGive DEF PlacesInv
<1>6. /\ QueueAt \notin {HandAt(w)} /\ DeadAt \notin {HandAt(w)}
      /\ \A h : ListAt(h) \notin {HandAt(w)}
  BY PlacesDiffer
<1>7. CASE n.attempts >= MaxAttempts
  <2>1. dead' = Append(dead, n) /\ UNCHANGED queue
    BY <1>2, <1>7
  <2>2. ListsOnce' /\ Moves(n.id, {HandAt(w)}, {DeadAt})
    BY <1>2, <1>3, <1>5, <1>6, <2>1, PushPlaces DEF TypeOK, PlacesInv
  <2> QED BY <1>3, <1>7, <2>2
<1>8. CASE ~(n.attempts >= MaxAttempts)
  <2>1. queue' = Append(queue, n) /\ UNCHANGED dead
    BY <1>2, <1>8
  <2>2. ListsOnce' /\ Moves(n.id, {HandAt(w)}, {QueueAt})
    BY <1>2, <1>3, <1>5, <1>6, <2>1, PushPlaces DEF TypeOK, PlacesInv
  <2> QED BY <1>3, <2>2
<1> QED BY <1>7, <1>8

\* A worker that is killed or gives up: a job in the gap is nowhere any more,
\* every other job stays where it is.
LEMMA PlacesGivenUp ==
  ASSUME TypeOK, PlacesInv, NEW w \in Worker, NoAnswer(w) \/ Kill(w),
         NEW j, j = held[w].id
  PROVE  /\ ListsOnce'
         /\ IF pc[w] = "requeue" THEN Moves(j, {HandAt(w)}, {})
            ELSE \A i : Places(i)' = Places(i)
<1>1. /\ LetGo(w) /\ \E loc \in {"down", "backoff"} : Goto(w, loc)
      /\ UNCHANGED redis
  BY DEF NoAnswer, Kill, GaveUp
<1>2. /\ pc'[w] # "requeue"
      /\ \A v \in Worker \ {w} : pc'[v] = pc[v] /\ held'[v] = held[v]
  BY <1>1, OthersKeep, OthersHold DEF TypeOK
<1>3. CASE pc[w] = "requeue"
  <2>1. j \in Job
    BY <1>3, HeldOK DEF TypeOK, Holding
  <2>2. /\ Places(j) = {HandAt(w)}
        /\ InHands(j)' = {} /\ \A i : i # j => InHands(i)' = InHands(i)
    BY <1>2, <1>3, <2>1, HandsGive DEF PlacesInv
  <2>3. ListsOnce' /\ Moves(j, {HandAt(w)}, {})
    BY <1>1, <2>1, <2>2, LosePlaces DEF PlacesInv
  <2> QED BY <1>3, <2>3
<1>4. CASE pc[w] # "requeue"
  <2>1. \A i : InHands(i)' = InHands(i)
    BY <1>2, <1>4, SameHands
  <2> QED BY <1>1, <1>4, <2>1, RestPlaces DEF PlacesInv
<1> QED BY <1>3, <1>4

\* enqueue: a new job is queued, or nothing is.
LEMMA PlacesEnqueue ==
  ASSUME TypeOK, PlacesInv, NEW j \in Job, Enqueue(j)
  PROVE  /\ ListsOnce'
         /\ (\A i : Places(i)' = Places(i)) \/ Moves(j, {}, {QueueAt})
<1>1. PICK m : m = [id |-> j, attempts |-> 0]
  OBVIOUS
<1>2. /\ queue' = Append(queue, m) \/ UNCHANGED queue
      /\ caller[j] = "idle"
      /\ UNCHANGED <<processing, dead, pc, held>>
  BY <1>1 DEF Enqueue
<1>3. m \in Message /\ m.id = j
  BY <1>1 DEF Message
<1>4. \A i : InHands(i)' = InHands(i)
  BY <1>2 DEF InHands
<1>5. Places(j) = {} /\ InHands(j) = {}
  <2>1. Places(j) = {}
    BY <1>2 DEF PlacesInv, GoneOrNew
  <2> QED BY <2>1, PlacesMembers DEF InHands
<1>6. CASE queue' = Append(queue, m)
  <2>1. ListsOnce' /\ Moves(m.id, {}, {QueueAt})
    BY <1>2, <1>3, <1>4, <1>5, <1>6, PushPlaces DEF TypeOK, PlacesInv
  <2> QED BY <1>3, <2>1
<1>7. CASE UNCHANGED queue
  BY <1>2, <1>4, <1>7, RestPlaces DEF PlacesInv, redis
<1> QED BY <1>2, <1>6, <1>7

\* The steps of a worker that move nothing: it goes on with what it holds.
Still(w) ==
  \/ Start(w) \/ RecoverEnd(w) \/ Poll(w) \/ Exit(w) \/ FetchTimeout(w) \/ BackoffEnd(w)
  \/ HandlerReturns(w) \/ HandlerRaises(w) \/ FetchBroken(w) \/ Terminate(w)

\* Where such a step takes the worker.
LEMMA StillSteps ==
  ASSUME TypeOK, NEW w \in Worker, Still(w)
  PROVE  /\ UNCHANGED <<redis, held, caller, dropped, abandoned>>
         /\ \A v \in Worker \ {w} : pc'[v] = pc[v]
         /\ pc'[w] = pc[w] \/ (pc[w] # "requeue" /\ pc'[w] \notin {"requeue", "run", "drop"})
         /\ pc'[w] \in AtWork => pc[w] \in AtWork
<1>1. /\ UNCHANGED <<redis, held, caller, dropped, abandoned>>
      /\ \/ UNCHANGED pc
         \/ /\ pc[w] # "requeue"
            /\ \E loc \in Location \ {"requeue", "run", "drop"} :
                 Goto(w, loc) /\ (loc \in AtWork => pc[w] \in AtWork)
  <2>1. CASE Start(w) \/ RecoverEnd(w) \/ Poll(w) \/ Exit(w) \/ FetchTimeout(w)
             \/ BackoffEnd(w)
    BY <2>1 DEF Start, Restart, Replace, RecoverEnd, Poll, Exit, FetchTimeout,
       BackoffEnd, Replied, outcomes, Location, AtWork
  <2>2. CASE HandlerReturns(w) \/ HandlerRaises(w) \/ FetchBroken(w) \/ Terminate(w)
    BY <2>2 DEF HandlerReturns, HandlerRaises, FetchBroken, Terminate, GaveUp,
       outcomes, Location, AtWork
  <2> QED BY <2>1, <2>2 DEF Still
<1> QED BY <1>1, OthersKeep DEF TypeOK

\* Such a step leaves every job where it is.
LEMMA PlacesStill ==
  ASSUME TypeOK, PlacesInv, NEW w \in Worker, Still(w)
  PROVE  ListsOnce' /\ \A i : Places(i)' = Places(i)
<1>1. /\ UNCHANGED <<redis, held>>
      /\ \A v \in Worker \ {w} : pc'[v] = pc[v] /\ held'[v] = held[v]
      /\ (pc[w] # "requeue" /\ pc'[w] # "requeue") \/ pc'[w] = pc[w]
  BY StillSteps
<1>2. \A i : InHands(i)' = InHands(i)
  <2>1. \A v \in Worker : pc'[v] = "requeue" <=> pc[v] = "requeue"
    BY <1>1
  <2> QED BY <1>1, <2>1 DEF InHands
<1> QED BY <1>1, <1>2, RestPlaces DEF PlacesInv

-----------------------------------------------------------------------------
(* Every step keeps every job in one place. *)

\* At the start there is no job.
LEMMA PlacesInit == Init => PlacesInv
<1> SUFFICES ASSUME Init PROVE PlacesInv
  OBVIOUS
<1>1. ToSet(queue) = {} /\ ToSet(dead) = {} /\ \A h \in Host : ToSet(processing[h]) = {}
  BY ToSetEmpty DEF Init
<1>2. \A j : Places(j) = {}
  BY <1>1 DEF Init, Places, Queued, Dead, ListedAt, InHands, In
<1>3. ListsOnce
  <2>1. Once(<<>>)
    BY DEF Once
  <2> QED BY <2>1 DEF Init, ListsOnce
<1>4. OwnHosts
  BY ConstantsAssumption, HostNamesAssumption DEF Init, OwnHosts
<1>5. HeldListed /\ DropsUnknown
  BY DEF Init, HeldListed, DropsUnknown, AtWork
<1>6. OnePlace /\ GoneOrNew
  BY <1>2 DEF Init, OnePlace, GoneOrNew, Untouched
<1> QED BY <1>3, <1>4, <1>5, <1>6 DEF PlacesInv

\* A host name is given to one container only.
LEMMA OwnHostsStep == TypeOK /\ OwnHosts /\ [Next]_vars => OwnHosts'
<1> SUFFICES ASSUME TypeOK, OwnHosts, [Next]_vars PROVE OwnHosts'
  OBVIOUS
<1>1. CASE UNCHANGED pods
  BY <1>1 DEF pods, OwnHosts
<1>2. ASSUME NEW w \in Worker, Replace(w) PROVE OwnHosts'
  BY <1>2 DEF Replace, OwnHosts, TypeOK, PodsOK
<1>3. ASSUME NEW w \in Worker, Start(w) \/ Work(w) \/ Fault(w), ~Replace(w)
      PROVE  UNCHANGED pods
  BY <1>3 DEF Start, Restart, Work, Recover, RecoverMove, RecoverEnd, Poll, Exit,
     Fetch, FetchTimeout, BackoffEnd, Handle, HandlerReturns, HandlerRaises, Ack, Drop,
     Unlist, Requeue, Fault, FetchBroken, NoAnswer, Terminate, Kill
<1>4. ASSUME NEW h \in Host, LateMove(h) \/ LateTimeout(h) PROVE UNCHANGED pods
  BY <1>4 DEF LateMove, LateTimeout
<1>5. ASSUME NEW j \in Job, Enqueue(j) PROVE UNCHANGED pods
  BY <1>5 DEF Enqueue
<1>6. UNCHANGED vars => UNCHANGED pods
  BY DEF vars
<1> QED BY <1>1, <1>2, <1>3, <1>4, <1>5, <1>6 DEF Next

\* What a worker holds stays in its list, if the list changes only by its own
\* commands or grows.
LEMMA HeldKept ==
  ASSUME HeldListed, DropsUnknown,
         \A v \in Worker : pc'[v] \in AtWork =>
            \/ /\ pc[v] \in AtWork /\ held'[v] = held[v] /\ host'[v] = host[v]
               /\ pc'[v] = "drop" => pc[v] = "drop"
               /\ ToSet(processing[host[v]]) \subseteq ToSet(processing'[host[v]])
            \/ /\ held'[v] \in ToSet(processing'[host'[v]])
               /\ pc'[v] = "drop" => held'[v].id \notin Registered[v]
  PROVE  HeldListed' /\ DropsUnknown'
<1>1. ASSUME NEW v \in Worker, pc'[v] \in AtWork
      PROVE  /\ held'[v] \in ToSet(processing'[host'[v]])
             /\ pc'[v] = "drop" => held'[v].id \notin Registered[v]
  BY <1>1 DEF HeldListed, DropsUnknown, pkey
<1> QED BY <1>1 DEF HeldListed, DropsUnknown, pkey, AtWork

\* The commands on the lists leave what other workers hold where it is.
LEMMA HeldMoves ==
  ASSUME TypeOK, PlacesInv, NEW w \in Worker,
         Fetch(w) \/ RecoverMove(w) \/ Ack(w) \/ Drop(w) \/ Unlist(w)
  PROVE  HeldListed' /\ DropsUnknown'
<1>1. pkey(w) \in Host
  BY DEF TypeOK, PodsOK, pkey
<1>2. /\ UNCHANGED host
      /\ \A g \in Host \ {pkey(w)} : processing'[g] = processing[g]
  BY <1>1 DEF Fetch, RecoverMove, Ack, Drop, Unlist, Lrem, pods, TypeOK, ListsOK
<1>3. \A v \in Worker \ {w} : /\ host[v] \in Host \ {pkey(w)}
                             /\ processing'[host[v]] = processing[host[v]]
  BY <1>2 DEF PlacesInv, OwnHosts, TypeOK, PodsOK, pkey
<1>4. CASE Fetch(w)
  <2>1. /\ queue # <<>>
        /\ processing' = [processing EXCEPT ![pkey(w)] = Append(@, Head(queue))]
        /\ held' = [held EXCEPT ![w] = Head(queue)]
        /\ Goto(w, IF Head(queue).id \in Registered[w] THEN "run" ELSE "drop")
    BY <1>4 DEF Fetch
  <2>2. /\ held'[w] = Head(queue)
        /\ pc'[w] = IF Head(queue).id \in Registered[w] THEN "run" ELSE "drop"
        /\ \A v \in Worker \ {w} : pc'[v] = pc[v] /\ held'[v] = held[v]
    BY <2>1, OthersKeep DEF TypeOK, PlacesOK
  <2>3. held'[w] \in ToSet(processing'[host'[w]])
    <3>1. processing'[pkey(w)] = Append(processing[pkey(w)], Head(queue))
      BY <1>1, <2>1 DEF TypeOK, ListsOK
    <3>2. Head(queue) \in ToSet(Append(processing[pkey(w)], Head(queue)))
      BY <1>1, <2>1, TakeHead, ToSetAppend DEF TypeOK, ListsOK
    <3> QED BY <1>2, <2>2, <3>1, <3>2 DEF pkey
  <2> QED BY <1>2, <1>3, <2>2, <2>3, HeldKept DEF PlacesInv
<1>5. CASE RecoverMove(w)
  <2>1. (\E loc \in {"recover", "down"} : Goto(w, loc)) /\ UNCHANGED held
    BY <1>5 DEF RecoverMove, Replied
  <2>2. pc'[w] \notin AtWork /\ \A v \in Worker \ {w} : pc'[v] = pc[v] /\ held'[v] = held[v]
    BY <2>1, OthersKeep DEF TypeOK, AtWork
  <2> QED BY <1>2, <1>3, <2>2, HeldKept DEF PlacesInv
<1>6. CASE Ack(w) \/ Drop(w) \/ Unlist(w)
  <2>1. PICK j : j = held[w].id
    OBVIOUS
  <2>2. pc'[w] \notin AtWork /\ \A v \in Worker \ {w} : pc'[v] = pc[v] /\ held'[v] = held[v]
    BY <1>6, <2>1, PlacesLrem
  <2> QED BY <1>2, <1>3, <2>2, HeldKept DEF PlacesInv
<1> QED BY <1>4, <1>5, <1>6

\* The other steps of a worker do too.
LEMMA HeldRest ==
  ASSUME TypeOK, PlacesInv, NEW w \in Worker,
         Still(w) \/ Requeue(w) \/ NoAnswer(w) \/ Kill(w)
  PROVE  HeldListed' /\ DropsUnknown'
<1>1. UNCHANGED processing
  BY StillSteps DEF redis, Requeue, NoAnswer, Kill
<1>2. \A v \in Worker \ {w} : host'[v] = host[v]
  BY DEF Still, Start, Restart, Replace, RecoverEnd, Poll, Exit, FetchTimeout, BackoffEnd,
     HandlerReturns, HandlerRaises, FetchBroken, Terminate, Requeue, NoAnswer, Kill,
     pods, TypeOK, PodsOK
<1>3. CASE Still(w)
  <2>1. pc'[w] \in AtWork => host'[w] = host[w]
    <3>1. CASE Start(w)
      <4>1. Goto(w, "recover")
        BY <3>1 DEF Start, Restart, Replace
      <4> QED BY <4>1, OthersKeep DEF TypeOK, AtWork
    <3>2. CASE ~Start(w)
      BY <1>3, <3>2 DEF Still, RecoverEnd, Poll, Exit, FetchTimeout, BackoffEnd,
         HandlerReturns, HandlerRaises, FetchBroken, Terminate, pods
    <3> QED BY <3>1, <3>2
  <2>2. /\ UNCHANGED held
        /\ pc'[w] \in AtWork => pc[w] \in AtWork /\ (pc'[w] = "drop" => pc[w] = "drop")
        /\ \A v \in Worker \ {w} : pc'[v] = pc[v]
    BY <1>3, StillSteps
  <2> QED BY <1>1, <1>2, <2>1, <2>2, HeldKept DEF PlacesInv
<1>4. CASE Requeue(w) \/ NoAnswer(w) \/ Kill(w)
  <2>1. LetGo(w) /\ \E loc \in {"top", "down", "backoff"} : Goto(w, loc)
    BY <1>4 DEF Requeue, NoAnswer, Kill, Replied, GaveUp
  <2>2. pc'[w] \notin AtWork /\ \A v \in Worker \ {w} : pc'[v] = pc[v] /\ held'[v] = held[v]
    BY <2>1, OthersKeep, OthersHold DEF TypeOK, AtWork
  <2> QED BY <1>1, <1>2, <2>2, HeldKept DEF PlacesInv
<1> QED BY <1>3, <1>4

\* So do a late BLMOVE and the producer.
LEMMA HeldElse ==
  ASSUME TypeOK, PlacesInv,
         \/ \E h \in Host : LateMove(h) \/ LateTimeout(h)
         \/ \E j \in Job : Enqueue(j)
         \/ UNCHANGED vars
  PROVE  HeldListed' /\ DropsUnknown'
<1>1. UNCHANGED <<pc, held, host>>
  BY DEF LateMove, LateTimeout, Enqueue, vars, pods
<1>2. CASE \E h \in Host : LateMove(h)
  <2>1. PICK h \in Host : LateMove(h)
    BY <1>2
  <2>2. /\ queue # <<>>
        /\ processing' = [processing EXCEPT ![h] = Append(@, Head(queue))]
    BY <2>1 DEF LateMove
  <2>3. ToSet(processing[h]) \subseteq ToSet(Append(processing[h], Head(queue)))
    BY <2>2, TakeHead, ToSetAppend DEF TypeOK, ListsOK
  <2>4. \A g \in Host : ToSet(processing[g]) \subseteq ToSet(processing'[g])
    BY <2>2, <2>3 DEF TypeOK, ListsOK
  <2> QED BY <1>1, <2>4, HeldKept DEF PlacesInv, TypeOK, PodsOK
<1>3. CASE UNCHANGED processing
  BY <1>1, <1>3, HeldKept DEF PlacesInv
<1> QED BY <1>2, <1>3 DEF LateTimeout, Enqueue, vars, redis

\* No job is anywhere else than before, or one job has gone from the place it
\* was in to one other at most.
Shifted ==
  \/ \A i \in Job : Places(i)' = Places(i)
  \/ \E j, p, to : Moves(j, {p}, to) /\ \A q, r \in to : q = r

\* A step that shifts one job at most, and accounts only for jobs that were
\* somewhere as handled, dropped or abandoned.
LEMMA ShiftKept ==
  ASSUME HistoryOK, HistoryOK', OnePlace, GoneOrNew, Shifted, UNCHANGED caller,
         \A i \in Job : Untouched(i) /\ Places(i) = {} => Untouched(i)',
         \A i \in dropped' \cup abandoned' : i \in dropped \cup abandoned \/ Places(i)' = {}
  PROVE  OnePlace' /\ GoneOrNew'
<1>1. dropped \cup abandoned \subseteq Job /\ dropped' \cup abandoned' \subseteq Job
  BY DEF HistoryOK
<1>2. CASE \A i \in Job : Places(i)' = Places(i)
  BY <1>1, <1>2 DEF OnePlace, GoneOrNew
<1>3. CASE \E j, p, to : Moves(j, {p}, to) /\ \A q, r \in to : q = r
  <2>1. PICK j, p, to : Moves(j, {p}, to) /\ \A q, r \in to : q = r
    BY <1>3
  <2>2. /\ j \in Job /\ Places(j) # {} /\ Places(j)' = to
        /\ \A i \in Job \ {j} : Places(i)' = Places(i)
    BY <2>1 DEF Moves
  <2>3. OnePlace'
    BY <2>1, <2>2 DEF OnePlace
  <2>4. caller[j] # "idle" /\ j \notin dropped \cup abandoned
    BY <2>2 DEF GoneOrNew
  <2>5. ASSUME NEW i \in Job, caller'[i] = "idle" PROVE Places(i)' = {} /\ Untouched(i)'
    BY <2>2, <2>4, <2>5 DEF GoneOrNew
  <2>6. ASSUME NEW i \in dropped' \cup abandoned' PROVE Places(i)' = {}
    BY <1>1, <2>2, <2>4, <2>6 DEF GoneOrNew
  <2> QED BY <2>3, <2>5, <2>6 DEF GoneOrNew
<1> QED BY <1>2, <1>3 DEF Shifted

\* A job that goes from one place to one other or to none.
LEMMA MoveShifts ==
  ASSUME NEW j, NEW p, NEW to, Moves(j, {p}, to), to = {} \/ \E q : to = {q}
  PROVE  Shifted
<1>1. Moves(j, {p}, to) /\ \A q, r \in to : q = r
  OBVIOUS
<1> QED BY <1>1, Zenon DEF Shifted

\* So does a step that leaves lists and hands alone.
LEMMA RestShifts ==
  ASSUME ListsOnce, UNCHANGED <<redis, pc, held>>
  PROVE  ListsOnce' /\ Shifted
<1>1. \A i : InHands(i)' = InHands(i)
  BY DEF InHands
<1> QED BY <1>1, RestPlaces DEF Shifted

\* Every step but the producer's shifts one job at most.
LEMMA WorkerShifts ==
  ASSUME TypeOK, PlacesInv, NEW w \in Worker, Start(w) \/ Work(w) \/ Fault(w)
  PROVE  ListsOnce' /\ Shifted
<1>1. PICK j : j = held[w].id
  OBVIOUS
<1>2. CASE Fetch(w)
  BY <1>2, PlacesFetch, MoveShifts
<1>3. CASE RecoverMove(w)
  BY <1>3, PlacesRecover, MoveShifts
<1>4. CASE Ack(w) \/ Drop(w) \/ Unlist(w)
  <2>1. ListsOnce' /\ \E to : Moves(j, {ListAt(pkey(w))}, to) /\ (to = {} \/ to = {HandAt(w)})
    BY <1>1, <1>4, PlacesLrem
  <2> QED BY <2>1, MoveShifts
<1>5. CASE Requeue(w)
  BY <1>1, <1>5, PlacesRequeue, MoveShifts
<1>6. CASE NoAnswer(w) \/ Kill(w)
  <2>1. ListsOnce' /\ (Moves(j, {HandAt(w)}, {}) \/ \A i : Places(i)' = Places(i))
    BY <1>1, <1>6, PlacesGivenUp
  <2> QED BY <2>1, MoveShifts DEF Shifted
<1>7. CASE Still(w)
  BY <1>7, PlacesStill DEF Shifted
<1> QED BY <1>2, <1>3, <1>4, <1>5, <1>6, <1>7 DEF Work, Recover, Handle, Fault, Still

\* What a worker's step records of a job: that it was handled, which it holds;
\* that it is dropped or abandoned, which is nowhere any more.
LEMMA WorkerRecords ==
  ASSUME TypeOK, PlacesInv, NEW w \in Worker, Start(w) \/ Work(w) \/ Fault(w)
  PROVE  /\ UNCHANGED caller
         /\ \A i \in Job : Untouched(i) /\ Places(i) = {} => Untouched(i)'
         /\ \A i \in dropped' \cup abandoned' : i \in dropped \cup abandoned \/ Places(i)' = {}
<1>1. PICK j : j = held[w].id
  OBVIOUS
<1>2. UNCHANGED caller
  BY DEF Start, Restart, Replace, Work, Recover, RecoverMove, RecoverEnd, Poll, Exit,
     Fetch, FetchTimeout, BackoffEnd, Handle, HandlerReturns, HandlerRaises, Ack, Drop,
     Unlist, Requeue, Fault, FetchBroken, NoAnswer, Terminate, Kill
<1>3. CASE HandlerReturns(w)
  <2>1. /\ pc[w] = "run" /\ succeeded' = succeeded \cup {j}
        /\ UNCHANGED <<dropped, abandoned>>
    BY <1>1, <1>3 DEF HandlerReturns
  <2>2. pkey(w) \in ListedAt(j)
    BY <1>1, <2>1 DEF PlacesInv, HeldListed, AtWork, ListedAt, In, TypeOK, PodsOK, pkey
  <2>3. Places(j) # {}
    BY <2>2, PlacesMembers
  <2> QED BY <1>2, <2>1, <2>3 DEF Untouched
<1>4. CASE Drop(w) \/ Unlist(w)
  <2>1. /\ UNCHANGED succeeded
        /\ \/ UNCHANGED <<dropped, abandoned>>
           \/ /\ dropped' \cup abandoned' \subseteq dropped \cup abandoned \cup {j}
              /\ \E loc \in {"top", "backoff"} : Goto(w, loc)
    BY <1>1, <1>4 DEF Drop, Unlist, Replied, GaveUp, outcomes
  <2>2. Moves(j, {ListAt(pkey(w))}, IF pc'[w] = "requeue" THEN {HandAt(w)} ELSE {})
    BY <1>1, <1>4, PlacesLrem
  <2>3. (\E loc \in {"top", "backoff"} : Goto(w, loc)) => Places(j)' = {}
    BY <2>2, OthersKeep DEF Moves, TypeOK
  <2>4. Places(j) # {}
    BY <2>2 DEF Moves
  <2> QED BY <1>2, <2>1, <2>3, <2>4 DEF Untouched
<1>5. CASE NoAnswer(w) \/ Kill(w)
  <2>1. /\ UNCHANGED <<succeeded, dropped>>
        /\ abandoned' = abandoned \cup (IF pc[w] = "requeue" THEN {j} ELSE {})
    BY <1>1, <1>5 DEF NoAnswer, Kill, Loses
  <2>2. pc[w] = "requeue" => Places(j) # {} /\ Places(j)' = {}
    BY <1>1, <1>5, PlacesGivenUp DEF Moves
  <2> QED BY <1>2, <2>1, <2>2 DEF Untouched
<1>6. CASE UNCHANGED <<succeeded, dropped, abandoned>>
  BY <1>2, <1>6 DEF Untouched
<1>7. CASE ~(HandlerReturns(w) \/ Drop(w) \/ Unlist(w) \/ NoAnswer(w) \/ Kill(w))
  <2>1. UNCHANGED <<succeeded, dropped, abandoned>>
    BY <1>7 DEF Start, Restart, Replace, Work, Recover, RecoverMove, RecoverEnd, Poll,
       Exit, Fetch, FetchTimeout, BackoffEnd, Handle, HandlerRaises, Ack, Requeue, Fault,
       FetchBroken, Terminate, outcomes
  <2> QED BY <1>6, <2>1
<1> QED BY <1>3, <1>4, <1>5, <1>7

\* Every step keeps every job in one place.
LEMMA PlacesStep == TypeOK /\ PlacesInv /\ [Next]_vars => PlacesInv'
<1> SUFFICES ASSUME TypeOK, PlacesInv, [Next]_vars PROVE PlacesInv'
  OBVIOUS
<1>1. OwnHosts' /\ TypeOK'
  BY OwnHostsStep, TypeStep DEF PlacesInv
<1>2. ASSUME NEW w \in Worker, Start(w) \/ Work(w) \/ Fault(w) PROVE PlacesInv'
  <2>1. ListsOnce' /\ OnePlace' /\ GoneOrNew'
    BY <1>1, <1>2, WorkerShifts, WorkerRecords, ShiftKept DEF PlacesInv, TypeOK
  <2>2. HeldListed' /\ DropsUnknown'
    BY <1>2, HeldMoves, HeldRest DEF Work, Recover, Handle, Fault, Still
  <2> QED BY <1>1, <2>1, <2>2 DEF PlacesInv
<1>3. ASSUME NEW h \in Host, LateMove(h) \/ LateTimeout(h) PROVE PlacesInv'
  <2>1. UNCHANGED <<caller, succeeded, dropped, abandoned>>
    BY <1>3 DEF LateMove, LateTimeout, outcomes
  <2>2. ListsOnce' /\ Shifted
    <3>1. CASE LateMove(h)
      BY <3>1, PlacesLate, MoveShifts
    <3>2. CASE LateTimeout(h)
      <4>1. UNCHANGED <<redis, pc, held>>
        BY <3>2 DEF LateTimeout
      <4> QED BY <4>1, RestShifts DEF PlacesInv
    <3> QED BY <1>3, <3>1, <3>2
  <2>3. OnePlace' /\ GoneOrNew'
    BY <1>1, <2>1, <2>2, ShiftKept DEF PlacesInv, TypeOK, Untouched
  <2> QED BY <1>1, <1>3, <2>2, <2>3, HeldElse DEF PlacesInv
<1>4. ASSUME NEW j \in Job, Enqueue(j) PROVE PlacesInv'
  <2>1. /\ caller[j] = "idle" /\ caller'[j] # "idle"
        /\ \A i \in Job \ {j} : caller'[i] = caller[i]
        /\ UNCHANGED <<succeeded, dropped, abandoned>>
    BY <1>4 DEF Enqueue, outcomes, TypeOK, HistoryOK
  <2>2. /\ ListsOnce'
        /\ (\A i : Places(i)' = Places(i)) \/ Moves(j, {}, {QueueAt})
    BY <1>4, PlacesEnqueue
  <2>3. j \notin dropped \cup abandoned
    BY <2>1 DEF PlacesInv, GoneOrNew, Untouched
  <2>4. \A i \in Job \ {j} : Places(i)' = Places(i)
    BY <2>2 DEF Moves
  <2>5. \A p, q \in Places(j)' : p = q
    BY <2>2 DEF Moves, PlacesInv, OnePlace
  <2>6. OnePlace'
    BY <2>4, <2>5 DEF PlacesInv, OnePlace
  <2>7. dropped \cup abandoned \subseteq Job
    BY DEF TypeOK, HistoryOK
  <2>8. GoneOrNew'
    BY <2>1, <2>3, <2>4, <2>7 DEF PlacesInv, GoneOrNew, Untouched
  <2> QED BY <1>1, <1>4, <2>2, <2>6, <2>8, HeldElse DEF PlacesInv
<1>5. CASE UNCHANGED vars
  <2>1. UNCHANGED <<redis, pc, held, caller, succeeded, dropped, abandoned>>
    BY <1>5 DEF vars, outcomes
  <2>2. ListsOnce' /\ Shifted
    BY <2>1, RestShifts DEF PlacesInv
  <2>3. OnePlace' /\ GoneOrNew'
    BY <1>1, <2>1, <2>2, ShiftKept DEF PlacesInv, TypeOK, Untouched
  <2> QED BY <1>1, <1>5, <2>2, <2>3, HeldElse DEF PlacesInv
<1> QED BY <1>2, <1>3, <1>4, <1>5 DEF Next

-----------------------------------------------------------------------------
(* No two workers run a job at the same time. *)

\* A set without two elements has one at most.
LEMMA OneAtMost ==
  ASSUME NEW S, \A a, b \in S : a = b
  PROVE  Cardinality(S) <= 1
<1>1. CASE S = {}
  BY <1>1, FS_EmptySet
<1>2. CASE S # {}
  <2>1. PICK a : S = {a}
    BY <1>2
  <2> QED BY <2>1, FS_Singleton
<1> QED BY <1>1, <1>2

\* A job in one place is in one list position, or in the hands of one worker.
LEMMA OneCopy ==
  ASSUME TypeOK, PlacesInv, NEW j \in Job, NEW a \in Copies(j), NEW b \in Copies(j)
  PROVE  a = b
<1> DEFINE At(c, p) ==
      \/ p = QueueAt /\ \E n \in 1..Len(queue) : queue[n].id = j /\ c = <<"queue", n>>
      \/ p = DeadAt /\ \E n \in 1..Len(dead) : dead[n].id = j /\ c = <<"dead", n>>
      \/ \E h \in Host : p = ListAt(h) /\ \E n \in 1..Len(processing[h]) :
            processing[h][n].id = j /\ c = <<h, n>>
      \/ \E w \in InHands(j) : p = HandAt(w) /\ c = <<w, 0>>
<1>1. ASSUME NEW c \in Copies(j) PROVE \E p \in Places(j) : At(c, p)
  <2>1. /\ DOMAIN queue = 1..Len(queue) /\ DOMAIN dead = 1..Len(dead)
        /\ \A h \in Host : DOMAIN processing[h] = 1..Len(processing[h])
    BY LenProperties DEF TypeOK, ListsOK
  <2>2. CASE \E n \in 1..Len(queue) : queue[n].id = j /\ c = <<"queue", n>>
    <3>1. QueueAt \in Places(j)
      BY <2>2, InIndexed, PlacesMembers DEF Queued, TypeOK, ListsOK
    <3> QED BY <2>2, <3>1
  <2>3. CASE \E n \in 1..Len(dead) : dead[n].id = j /\ c = <<"dead", n>>
    <3>1. DeadAt \in Places(j)
      BY <2>3, InIndexed, PlacesMembers DEF Dead, TypeOK, ListsOK
    <3> QED BY <2>3, <3>1
  <2>4. CASE \E h \in Host : \E n \in 1..Len(processing[h]) :
               processing[h][n].id = j /\ c = <<h, n>>
    <3>1. PICK h \in Host : \E n \in 1..Len(processing[h]) :
                 processing[h][n].id = j /\ c = <<h, n>>
      BY <2>4
    <3>2. ListAt(h) \in Places(j)
      BY <3>1, InIndexed, PlacesMembers DEF ListedAt, TypeOK, ListsOK
    <3> QED BY <3>1, <3>2
  <2>5. CASE \E w \in InHands(j) : c = <<w, 0>>
    BY <2>5, PlacesMembers
  <2>6. \/ c \in {<<"queue", i>> : i \in {n \in DOMAIN queue : queue[n].id = j}}
        \/ c \in {<<"dead", i>> : i \in {n \in DOMAIN dead : dead[n].id = j}}
        \/ \E x \in {{<<h, i>> : i \in {n \in DOMAIN processing[h] : processing[h][n].id = j}}
                     : h \in Host} : c \in x
        \/ c \in {<<w, 0>> : w \in InHands(j)}
    BY <1>1 DEF Copies
  <2>7. \/ \E n \in 1..Len(queue) : queue[n].id = j /\ c = <<"queue", n>>
        \/ \E n \in 1..Len(dead) : dead[n].id = j /\ c = <<"dead", n>>
        \/ \E h \in Host : \E n \in 1..Len(processing[h]) :
               processing[h][n].id = j /\ c = <<h, n>>
        \/ \E w \in InHands(j) : c = <<w, 0>>
    BY <2>1, <2>6
  <2> HIDE DEF At
  <2> QED BY <2>2, <2>3, <2>4, <2>5, <2>7
<1>2. PICK p \in Places(j) : At(a, p) /\ At(b, p)
  <2>1. PICK p \in Places(j) : At(a, p)
    BY <1>1
  <2>2. PICK q \in Places(j) : At(b, q)
    BY <1>1
  <2>3. p = q
    BY DEF PlacesInv, OnePlace
  <2> QED BY <2>1, <2>2, <2>3
<1>3. /\ \A n, m \in 1..Len(queue) : queue[n].id = queue[m].id => n = m
      /\ \A n, m \in 1..Len(dead) : dead[n].id = dead[m].id => n = m
      /\ \A h \in Host : \A n, m \in 1..Len(processing[h]) :
            processing[h][n].id = processing[h][m].id => n = m
  BY DEF PlacesInv, ListsOnce, Once
<1>4. CASE p = QueueAt
  BY <1>2, <1>3, <1>4, PlacesDiffer
<1>5. CASE p = DeadAt
  BY <1>2, <1>3, <1>5, PlacesDiffer
<1>6. CASE \E h \in Host : p = ListAt(h)
  <2>1. PICK h \in Host : p = ListAt(h)
    BY <1>6
  <2>2. ASSUME NEW c, At(c, p)
        PROVE  \E n \in 1..Len(processing[h]) : processing[h][n].id = j /\ c = <<h, n>>
    BY <2>1, <2>2, PlacesDiffer
  <2>3. PICK n \in 1..Len(processing[h]) : processing[h][n].id = j /\ a = <<h, n>>
    BY <1>2, <2>2
  <2>4. PICK m \in 1..Len(processing[h]) : processing[h][m].id = j /\ b = <<h, m>>
    BY <1>2, <2>2
  <2> QED BY <1>3, <2>3, <2>4
<1>7. CASE \E w \in InHands(j) : p = HandAt(w)
  <2>1. PICK w \in InHands(j) : p = HandAt(w)
    BY <1>7
  <2>2. \A v : HandAt(v) = HandAt(w) => v = w
    BY DEF HandAt
  <2>3. ASSUME NEW c, At(c, p) PROVE c = <<w, 0>>
    BY <2>1, <2>2, <2>3, PlacesDiffer
  <2> QED BY <1>2, <2>3
<1>8. \/ p = QueueAt \/ p = DeadAt
      \/ (\E h \in Host : p = ListAt(h)) \/ \E w \in InHands(j) : p = HandAt(w)
  BY <1>2
<1> HIDE DEF At
<1> QED BY <1>4, <1>5, <1>6, <1>7, <1>8

\* What a running worker holds is in its own list, so two of them hold
\* different jobs.
LEMMA PlacesExclude == TypeOK /\ PlacesInv => ExclusiveExecution
<1> SUFFICES ASSUME TypeOK, PlacesInv PROVE ExclusiveExecution
  OBVIOUS
<1>1. ASSUME NEW j \in Job PROVE Cardinality(Copies(j)) <= 1
  BY OneCopy, OneAtMost
<1>2. \A w \in Worker : pc[w] \in {"run", "ack", "drop", "unlist"} =>
                       held[w] \in ToSet(processing[pkey(w)])
  BY DEF PlacesInv, HeldListed, AtWork
<1>3. ASSUME NEW j \in Job, NEW v \in Worker, NEW w \in Worker,
             Executing(v, j), Executing(w, j)
      PROVE  v = w
  <2>1. host[v] \in Host /\ host[w] \in Host
    BY DEF TypeOK, PodsOK
  <2>2. host[v] \in ListedAt(j) /\ host[w] \in ListedAt(j)
    BY <1>2, <1>3, <2>1 DEF Executing, ListedAt, In, pkey
  <2>3. ListAt(host[v]) = ListAt(host[w])
    BY <2>2, PlacesMembers DEF PlacesInv, OnePlace
  <2> QED BY <2>3, PlacesDiffer DEF PlacesInv, OwnHosts
<1> QED BY <1>1, <1>2, <1>3 DEF ExclusiveExecution

\* However workers crash, retry and recover, and however late Redis serves a
\* BLMOVE: no job is in two places, what a worker works on is still in its own
\* processing list, and no two workers run the handler of a job at the same
\* time (worker.py:4-7, 71-73).
THEOREM JobsRunExclusively == Spec => []ExclusiveExecution
<1>1. Init => PlacesInv
  BY PlacesInit
<1>2. TypeOK /\ PlacesInv /\ [Next]_vars => PlacesInv'
  BY PlacesStep
<1>3. TypeOK /\ PlacesInv => ExclusiveExecution
  BY PlacesExclude
<1> QED BY <1>1, <1>2, <1>3, TypeCorrect, PTL DEF Spec

-----------------------------------------------------------------------------
(* A worker leaves nothing behind while Redis answers. *)

\* BLMOVE to an empty list.
LEMMA AppendToNone ==
  ASSUME NEW m
  PROVE  Append(<<>>, m) = <<m>>
OBVIOUS

\* LREM of the only message of a list.
LEMMA RemoveOnly ==
  ASSUME NEW m \in Message
  PROVE  RemoveFirst(<<m>>, m) = <<>>
<1> DEFINE s == <<m>>
<1>1. s \in Seq(Message) /\ Len(s) = 1 /\ s[1] = m
  OBVIOUS
<1> HIDE DEF s
<1>2. m \in ToSet(s)
  BY <1>1, ToSetIndexed
<1>3. PICK k \in 1..Len(s) : s[k] = m /\ RemoveFirst(s, m) = RemoveAt(s, k)
  BY <1>1, <1>2, FirstOccurrence
<1>4. RemoveAt(s, k) \in Seq(Message) /\ Len(RemoveAt(s, k)) = Len(s) - 1
  <2> DEFINE t == RemoveAt(s, k)
  <2>1. t \in Seq(Message) /\ Len(t) = Len(s) - 1
    BY <1>1, RemoveAtElements
  <2> QED BY <2>1 DEF t
<1>5. RemoveAt(s, k) = <<>>
  BY <1>1, <1>4, EmptySeq
<1> QED BY <1>3, <1>5 DEF s

\* A command that raises is counted for good.
LEMMA ErrorsCounted ==
  ASSUME PodsOK
  PROVE  Raised => errors' # 0
BY DEF PodsOK, Raised

\* A step of another worker is of no concern, as long as it only counts.
LEMMA LeftOthers ==
  ASSUME PodsOK, NEW v \in Worker, LeftAt(v), pc'[v] = pc[v], held'[v] = held[v],
         stop'[v] = stop[v], host'[v] = host[v],
         processing'[host[v]] = processing[host[v]],
         UNCHANGED signals \/ signals' = signals + 1, errors' = 0 => errors = 0
  PROVE  LeftAt(v)'
<1>1. signals \in Nat /\ stop[v] \in BOOLEAN
  BY DEF PodsOK
<1>2. stop'[v] => signals' >= 1
  BY <1>1 DEF LeftAt
<1>3. ASSUME errors' = 0 PROVE pc'[v] # "backoff"
  BY <1>3 DEF LeftAt
<1>4. ASSUME errors' = 0, pc'[v] \in AtWork PROVE processing'[host'[v]] = <<held'[v]>>
  BY <1>4 DEF LeftAt, pkey
<1>5. ASSUME errors' = 0, pc'[v] \in {"top", "fetch", "requeue"}
      PROVE  processing'[host'[v]] = <<>>
  BY <1>5 DEF LeftAt, pkey
<1>6. ASSUME errors' = 0, pc'[v] = "down", stop'[v], signals' = 1
      PROVE  processing'[host'[v]] = <<>>
  BY <1>1, <1>6 DEF LeftAt, pkey
<1> QED BY <1>2, <1>3, <1>4, <1>5, <1>6 DEF LeftAt, pkey

\* What a worker's step is to the other workers.
LEMMA OthersLeft ==
  ASSUME TypeOK, PlacesInv, NEW w \in Worker, Start(w) \/ Work(w) \/ Fault(w),
         NEW v \in Worker \ {w}
  PROVE  /\ pc'[v] = pc[v] /\ held'[v] = held[v] /\ stop'[v] = stop[v]
         /\ host'[v] = host[v] /\ processing'[host[v]] = processing[host[v]]
<1>1. pc'[v] = pc[v]
  <2>1. UNCHANGED pc \/ \E loc : Goto(w, loc)
    BY DEF Start, Restart, Replace, Work, Recover, RecoverMove, RecoverEnd, Poll, Exit,
       Fetch, FetchTimeout, BackoffEnd, Handle, HandlerReturns, HandlerRaises, Ack, Drop,
       Unlist, Requeue, Fault, FetchBroken, NoAnswer, Terminate, Kill, Replied, GaveUp
  <2> QED BY <2>1, OthersKeep DEF TypeOK
<1>2. held'[v] = held[v]
  <2>1. UNCHANGED held \/ LetGo(w) \/ \E m : held' = [held EXCEPT ![w] = m]
    BY DEF Start, Restart, Replace, Work, Recover, RecoverMove, RecoverEnd, Poll, Exit,
       Fetch, FetchTimeout, BackoffEnd, Handle, HandlerReturns, HandlerRaises, Ack, Drop,
       Unlist, Requeue, Fault, FetchBroken, NoAnswer, Terminate, Kill
  <2> QED BY <2>1 DEF LetGo, TypeOK, PlacesOK
<1>3. stop'[v] = stop[v]
  <2>1. UNCHANGED stop \/ \E x : stop' = [stop EXCEPT ![w] = x]
    BY DEF Start, Restart, Replace, Work, Recover, RecoverMove, RecoverEnd, Poll, Exit,
       Fetch, FetchTimeout, BackoffEnd, Handle, HandlerReturns, HandlerRaises, Ack, Drop,
       Unlist, Requeue, Fault, FetchBroken, NoAnswer, Terminate, Kill
  <2> QED BY <2>1 DEF TypeOK, PodsOK
<1>4. host'[v] = host[v]
  <2>1. UNCHANGED host \/ \E x : host' = [host EXCEPT ![w] = x]
    BY DEF Start, Restart, Replace, Work, Recover, RecoverMove, RecoverEnd, Poll, Exit,
       Fetch, FetchTimeout, BackoffEnd, Handle, HandlerReturns, HandlerRaises, Ack, Drop,
       Unlist, Requeue, Fault, FetchBroken, NoAnswer, Terminate, Kill, pods
  <2> QED BY <2>1 DEF TypeOK, PodsOK
<1>5. processing'[host[v]] = processing[host[v]]
  <2>1. UNCHANGED processing \/ \E x : processing' = [processing EXCEPT ![pkey(w)] = x]
    BY DEF Start, Restart, Replace, Work, Recover, RecoverMove, RecoverEnd, Poll, Exit,
       Fetch, FetchTimeout, BackoffEnd, Handle, HandlerReturns, HandlerRaises, Ack, Drop,
       Unlist, Requeue, Fault, FetchBroken, NoAnswer, Terminate, Kill, redis, Lrem
  <2>2. host[v] \in Host /\ host[v] # pkey(w)
    BY DEF PlacesInv, OwnHosts, TypeOK, PodsOK, pkey
  <2> QED BY <2>1, <2>2 DEF TypeOK, ListsOK
<1> QED BY <1>1, <1>2, <1>3, <1>4, <1>5

\* A worker that keeps its host and its signals, and goes somewhere while every
\* command is answered.
LEMMA LeftSelf ==
  ASSUME TypeOK, NEW w \in Worker, LeftAt(w), UNCHANGED <<signals, stop, host>>,
         errors' = 0 => errors = 0,
         errors' = 0 =>
           /\ pc'[w] # "backoff"
           /\ pc'[w] \in AtWork => processing'[host[w]] = <<held'[w]>>
           /\ pc'[w] \in {"top", "fetch", "requeue", "down"} =>
                  processing'[host[w]] = <<>>
  PROVE  LeftAt(w)'
BY DEF LeftAt, pkey

\* The loop's own commands.
LEMMA LeftLoop ==
  ASSUME TypeOK, NEW w \in Worker, LeftAt(w),
         Recover(w) \/ Poll(w) \/ Exit(w) \/ Fetch(w) \/ FetchTimeout(w) \/ BackoffEnd(w)
  PROVE  LeftAt(w)'
<1>1. pkey(w) = host[w] /\ host[w] \in Host
  BY DEF pkey, TypeOK, PodsOK
<1>2. CASE Recover(w)
  <2>1. /\ UNCHANGED <<signals, stop, host>>
        /\ Raised \/ UNCHANGED errors
        /\ \/ Raised
           \/ Goto(w, "recover")
           \/ Goto(w, "top") /\ UNCHANGED processing /\ processing[host[w]] = <<>>
    BY <1>1, <1>2 DEF Recover, RecoverMove, RecoverEnd, Replied, pods, redis
  <2>2. errors' = 0 => UNCHANGED errors /\ ~Raised
    BY <2>1, ErrorsCounted DEF TypeOK
  <2> QED BY <2>1, <2>2, LeftSelf, OthersKeep DEF TypeOK, AtWork
<1>3. CASE Poll(w) \/ Exit(w) \/ FetchTimeout(w)
  <2>1. /\ UNCHANGED <<signals, stop, host, errors, processing>>
        /\ pc[w] \in {"top", "fetch"}
        /\ \E loc \in {"top", "fetch", "down"} : Goto(w, loc)
    BY <1>3 DEF Poll, Exit, FetchTimeout, redis, pods, faults
  <2>2. errors = 0 => processing[host[w]] = <<>>
    BY <1>1, <2>1 DEF LeftAt
  <2> QED BY <2>1, <2>2, LeftSelf, OthersKeep DEF TypeOK, AtWork
<1>4. CASE Fetch(w)
  <2>1. /\ UNCHANGED <<signals, stop, host, errors>>
        /\ pc[w] = "fetch" /\ held' = [held EXCEPT ![w] = Head(queue)]
        /\ processing' = [processing EXCEPT ![pkey(w)] = Append(@, Head(queue))]
        /\ \E loc \in {"run", "drop"} : Goto(w, loc)
    BY <1>4 DEF Fetch, pods, faults
  <2>2. errors = 0 => processing[host[w]] = <<>>
    BY <1>1, <2>1 DEF LeftAt
  <2>3. /\ held'[w] = Head(queue)
        /\ processing'[host[w]] = Append(processing[host[w]], Head(queue))
    BY <1>1, <2>1 DEF TypeOK, PlacesOK, ListsOK
  <2>4. pc'[w] \in {"run", "drop"}
    BY <2>1, OthersKeep DEF TypeOK
  <2>5. errors = 0 => processing'[host[w]] = <<held'[w]>>
    BY <2>2, <2>3, AppendToNone
  <2> QED BY <2>1, <2>4, <2>5, LeftSelf
<1>5. CASE BackoffEnd(w)
  <2>1. errors' # 0 /\ UNCHANGED <<signals, stop, host>>
    BY <1>5 DEF BackoffEnd, faults, pods, LeftAt
  <2> QED BY <2>1, LeftSelf
<1> QED BY <1>2, <1>3, <1>4, <1>5

\* handle_job.
LEMMA LeftHandle ==
  ASSUME TypeOK, NEW w \in Worker, LeftAt(w), Handle(w)
  PROVE  LeftAt(w)'
<1>1. pkey(w) = host[w] /\ host[w] \in Host
  BY DEF pkey, TypeOK, PodsOK
<1>2. CASE HandlerReturns(w) \/ HandlerRaises(w)
  <2>1. /\ UNCHANGED <<signals, stop, host, errors, processing, held>>
        /\ pc[w] = "run" /\ \E loc \in {"ack", "unlist"} : Goto(w, loc)
    BY <1>2 DEF HandlerReturns, HandlerRaises, redis, pods, faults
  <2>2. errors = 0 => processing'[host[w]] = <<held'[w]>>
    BY <1>1, <2>1 DEF LeftAt, AtWork
  <2> QED BY <2>1, <2>2, LeftSelf, OthersKeep DEF TypeOK, AtWork
<1>3. CASE Ack(w) \/ Drop(w) \/ Unlist(w)
  <2>1. /\ UNCHANGED <<signals, stop, host>> /\ Lrem(w)
        /\ pc[w] \in {"ack", "drop", "unlist"}
        /\ \/ Raised
           \/ UNCHANGED errors /\ \E loc \in {"top", "requeue"} : Goto(w, loc)
    BY <1>3 DEF Ack, Drop, Unlist, Replied, GaveUp, pods
  <2>2. errors' = 0 => errors = 0 /\ ~Raised
    BY <2>1, ErrorsCounted DEF TypeOK
  <2>3. held[w] \in Message
    BY <2>1, HeldOK DEF TypeOK, Holding
  <2>4. errors = 0 => processing[host[w]] = <<held[w]>>
    BY <1>1, <2>1 DEF LeftAt, AtWork
  <2>5. processing'[host[w]] = RemoveFirst(processing[host[w]], held[w])
    BY <1>1, <2>1 DEF Lrem, TypeOK, ListsOK
  <2>6. errors = 0 => processing'[host[w]] = <<>>
    BY <2>3, <2>4, <2>5, RemoveOnly
  <2>7. errors' = 0 => pc'[w] \in {"top", "requeue"}
    BY <2>1, <2>2, OthersKeep DEF TypeOK
  <2> QED BY <2>1, <2>2, <2>6, <2>7, LeftSelf DEF AtWork
<1>4. CASE Requeue(w)
  <2>1. /\ UNCHANGED <<signals, stop, host, processing>>
        /\ pc[w] = "requeue"
        /\ Raised \/ (UNCHANGED errors /\ Goto(w, "top"))
    BY <1>4 DEF Requeue, Replied, GaveUp, pods
  <2>2. errors' = 0 => errors = 0 /\ ~Raised
    BY <2>1, ErrorsCounted DEF TypeOK
  <2>3. errors = 0 => processing[host[w]] = <<>>
    BY <1>1, <2>1 DEF LeftAt
  <2> QED BY <2>1, <2>2, <2>3, LeftSelf, OthersKeep DEF TypeOK, AtWork
<1> QED BY <1>2, <1>3, <1>4 DEF Handle

\* Starts, faults and signals.
LEMMA LeftFault ==
  ASSUME TypeOK, NEW w \in Worker, LeftAt(w), Start(w) \/ Fault(w)
  PROVE  LeftAt(w)'
<1>1. signals \in Nat /\ stop[w] \in BOOLEAN
  BY DEF TypeOK, PodsOK
<1>2. CASE Start(w)
  <2>1. Goto(w, "recover") /\ stop' = [stop EXCEPT ![w] = FALSE] /\ UNCHANGED errors
    BY <1>2 DEF Start, Restart, Replace, faults
  <2>2. pc'[w] = "recover" /\ ~stop'[w]
    BY <2>1, OthersKeep DEF TypeOK, PodsOK
  <2> QED BY <2>2 DEF LeftAt, AtWork
<1>3. CASE FetchBroken(w) \/ NoAnswer(w)
  <2>1. Raised /\ UNCHANGED <<signals, stop, host>>
    BY <1>3 DEF FetchBroken, NoAnswer, GaveUp, pods
  <2> QED BY <2>1, ErrorsCounted, LeftSelf DEF TypeOK
<1>4. CASE Terminate(w)
  <2>1. /\ pc[w] # "down" /\ signals' = signals + 1
        /\ UNCHANGED <<redis, pods, pc, held, errors>>
    BY <1>4 DEF Terminate
  <2> QED BY <1>1, <2>1 DEF LeftAt, redis, pods, pkey
<1>5. CASE Kill(w)
  <2>1. /\ signals' = signals + 1 /\ Goto(w, "down")
        /\ UNCHANGED <<stop, errors>>
    BY <1>5 DEF Kill
  <2>2. pc'[w] = "down"
    BY <2>1, OthersKeep DEF TypeOK
  <2> QED BY <1>1, <2>1, <2>2 DEF LeftAt, AtWork
<1> QED BY <1>2, <1>3, <1>4, <1>5 DEF Fault

\* Every step keeps LeftInv.
LEMMA LeftStep == TypeOK /\ PlacesInv /\ LeftInv /\ [Next]_vars => LeftInv'
<1> SUFFICES ASSUME TypeOK, PlacesInv, LeftInv, [Next]_vars PROVE LeftInv'
  OBVIOUS
<1>1. errors \in Nat /\ \A h \in Host : lateMoves[h] \in Nat
  BY DEF TypeOK, PodsOK
<1>2. ASSUME NEW w \in Worker, Start(w) \/ Work(w) \/ Fault(w) PROVE LeftInv'
  <2>1. /\ Raised \/ UNCHANGED errors
        /\ UNCHANGED signals \/ signals' = signals + 1
        /\ UNCHANGED lateMoves \/ (Raised /\ UNCHANGED signals)
    BY <1>2 DEF Start, Restart, Replace, Work, Recover, RecoverMove, RecoverEnd, Poll, Exit,
       Fetch, FetchTimeout, BackoffEnd, Handle, HandlerReturns, HandlerRaises, Ack, Drop,
       Unlist, Requeue, Fault, FetchBroken, NoAnswer, Terminate, Kill, Replied, GaveUp,
       faults
  <2>2. errors' = 0 => errors = 0 /\ UNCHANGED lateMoves
    BY <2>1, ErrorsCounted DEF TypeOK
  <2>3. ASSUME NEW v \in Worker PROVE LeftAt(v)'
    <3>1. LeftAt(v)
      BY DEF LeftInv
    <3>2. CASE v = w
      BY <1>2, <3>1, <3>2, LeftLoop, LeftHandle, LeftFault DEF Work
    <3>3. CASE v # w
      BY <1>2, <2>1, <2>2, <3>1, <3>3, OthersLeft, LeftOthers DEF TypeOK
    <3> QED BY <3>2, <3>3
  <2> QED BY <2>2, <2>3 DEF LeftInv
<1>3. ASSUME UNCHANGED <<pc, held, stop, host, signals, errors>>,
             errors = 0 => UNCHANGED <<processing, lateMoves>>
      PROVE  LeftInv'
  <2>1. \A v \in Worker : LeftAt(v)'
    BY <1>3 DEF LeftInv, LeftAt, pkey
  <2> QED BY <1>3, <2>1 DEF LeftInv
<1>4. ASSUME NEW h \in Host, LateMove(h) \/ LateTimeout(h) PROVE LeftInv'
  <2>1. errors # 0
    BY <1>1, <1>4 DEF LateMove, LateTimeout, LeftInv
  <2>2. UNCHANGED <<pc, held, stop, host, signals, errors>>
    BY <1>4 DEF LateMove, LateTimeout, faults, pods
  <2> QED BY <1>3, <2>1, <2>2
<1>5. ASSUME NEW j \in Job, Enqueue(j) PROVE LeftInv'
  <2>1. /\ UNCHANGED <<pc, held, stop, host, signals, processing, lateMoves>>
        /\ Raised \/ UNCHANGED errors
    BY <1>5 DEF Enqueue, pods
  <2>2. errors' = 0 => errors = 0
    BY <2>1, ErrorsCounted DEF TypeOK
  <2>3. \A v \in Worker : LeftAt(v)'
    BY <2>1, <2>2 DEF LeftInv, LeftAt, pkey
  <2> QED BY <2>1, <2>2, <2>3 DEF LeftInv
<1>6. CASE UNCHANGED vars
  <2>1. UNCHANGED <<pc, held, stop, host, signals, errors, processing, lateMoves>>
    BY <1>6 DEF vars, redis, pods, faults
  <2> QED BY <1>3, <2>1
<1> QED BY <1>2, <1>4, <1>5, <1>6 DEF Next

\* While Redis answers every command, a worker that waits for its next job, or
\* is between LREM and RPUSH, has nothing in its processing list, and nor has a
\* worker that SIGTERM stopped: a graceful stop strands no job
\* (worker.py:86-123, 137-174).
THEOREM GracefulStopStrandsNothing == Spec => []NothingLeftBehind
<1>1. Init => PlacesInv /\ LeftInv
  <2>1. Init => LeftInv
    BY DEF Init, LeftInv, LeftAt, AtWork
  <2> QED BY <2>1, PlacesInit
<1>2. TypeOK /\ PlacesInv /\ LeftInv /\ [Next]_vars => PlacesInv' /\ LeftInv'
  BY PlacesStep, LeftStep
<1>3. LeftInv => NothingLeftBehind
  BY DEF LeftInv, LeftAt, NothingLeftBehind
<1> QED BY <1>1, <1>2, <1>3, TypeCorrect, PTL DEF Spec

-----------------------------------------------------------------------------
(* The queue implements JobLifecycle. *)

\* The phase of a job that is nowhere.
Gone(j) == IF j \in abandoned THEN "lost"
           ELSE IF j \in dropped THEN "dropped"
           ELSE IF j \in succeeded THEN "done"
           ELSE "none"

\* A job's phase, read off its places.
LEMMA PhaseByPlaces ==
  \A j : /\ (\E p \in Places(j) : p # DeadAt) => Phase(j) = "live"
         /\ Places(j) = {DeadAt} => Phase(j) = "dead"
         /\ Places(j) = {} => Phase(j) = Gone(j)
<1> SUFFICES ASSUME NEW j
             PROVE  /\ (\E p \in Places(j) : p # DeadAt) => Phase(j) = "live"
                    /\ Places(j) = {DeadAt} => Phase(j) = "dead"
                    /\ Places(j) = {} => Phase(j) = Gone(j)
  OBVIOUS
<1>1. Live(j) <=> Queued(j) \/ ListedAt(j) # {} \/ InHands(j) # {}
  <2>1. In(j, ToSet(queue) \cup Listed) <=> Queued(j) \/ In(j, Listed)
    BY DEF In, Queued
  <2>2. In(j, Listed) <=> ListedAt(j) # {}
    BY DEF In, Listed, ListedAt
  <2> QED BY <2>1, <2>2 DEF Live
<1>2. (\E p \in Places(j) : p # DeadAt) => Live(j)
  BY <1>1 DEF Places
<1>3. Places(j) = {DeadAt} => Dead(j) /\ ~Live(j)
  BY <1>1, PlacesMembers, PlacesDiffer
<1>4. Places(j) = {} => ~Dead(j) /\ ~Live(j)
  BY <1>1, PlacesMembers
<1> QED BY <1>2, <1>3, <1>4 DEF Phase, Gone

\* The same after a step.
LEMMA PhaseByPlacesNext ==
  \A j : /\ (\E p \in Places(j)' : p # DeadAt) => Phase(j)' = "live"
         /\ Places(j)' = {DeadAt} => Phase(j)' = "dead"
         /\ Places(j)' = {} => Phase(j)' = Gone(j)'
<1>1. (\A j : /\ (\E p \in Places(j) : p # DeadAt) => Phase(j) = "live"
              /\ Places(j) = {DeadAt} => Phase(j) = "dead"
              /\ Places(j) = {} => Phase(j) = Gone(j))'
  BY PhaseByPlaces, PTL
<1>2. DeadAt' = DeadAt
  BY DEF DeadAt
<1> QED BY <1>1, <1>2

\* The history of a job: whether it was handled, dropped or abandoned.
SameHistory(i) ==
  /\ i \in abandoned' <=> i \in abandoned
  /\ i \in dropped' <=> i \in dropped
  /\ i \in succeeded' <=> i \in succeeded

\* A job that stays where it is, with its history, keeps its phase.
LEMMA PhaseKept ==
  ASSUME NEW i, Places(i)' = Places(i), SameHistory(i)
  PROVE  Phase(i)' = Phase(i)
<1>1. Gone(i)' = Gone(i)
  BY DEF Gone, SameHistory
<1>2. \/ \E p \in Places(i) : p # DeadAt
      \/ Places(i) = {DeadAt}
      \/ Places(i) = {}
  OBVIOUS
<1> QED BY <1>1, <1>2, PhaseByPlaces, PhaseByPlacesNext

\* So does a job that goes from a place to another, none of them the dead.
LEMMA PhaseShuttles ==
  ASSUME NEW j, NEW p, NEW q, Moves(j, {p}, {q}), p # DeadAt, q # DeadAt,
         \A i \in Job : SameHistory(i)
  PROVE  \A i \in Job : Phase(i)' = Phase(i)
<1>1. Phase(j)' = Phase(j)
  BY PhaseByPlaces, PhaseByPlacesNext DEF Moves
<1> QED BY <1>1, PhaseKept DEF Moves

\* A step that keeps every phase, and neither fails nor handles a job, is none
\* of JobLifecycle's.
LEMMA LifeStutters ==
  ASSUME \A i \in Job : Phase(i)' = Phase(i), UNCHANGED <<failures, succeeded>>
  PROVE  UNCHANGED Lifecycle!vars
BY DEF Lifecycle!vars

\* A job that goes from a place to another, or comes or goes, and the phases.
LEMMA LifeLeaves ==
  ASSUME NEW j, NEW from, NEW to, Moves(j, from, to), NEW a, NEW b,
         Phase(j) = a, Phase(j)' = b, \A i \in Job \ {j} : SameHistory(i)
  PROVE  j \in Job /\ Lifecycle!Leave(j, a, b)
<1>1. j \in Job /\ \A i \in Job \ {j} : Phase(i)' = Phase(i)
  BY PhaseKept DEF Moves
<1> QED BY <1>1 DEF Lifecycle!Leave

\* enqueue: Accept.
LEMMA LifeEnqueue ==
  ASSUME TypeOK, PlacesInv, NEW j \in Job, Enqueue(j)
  PROVE  [Lifecycle!Next]_(Lifecycle!vars)
<1>1. caller[j] = "idle" /\ UNCHANGED <<failures, succeeded, dropped, abandoned>>
  BY DEF Enqueue, outcomes
<1>2. \A i : SameHistory(i)
  BY <1>1 DEF SameHistory
<1>3. CASE \A i : Places(i)' = Places(i)
  BY <1>1, <1>2, <1>3, PhaseKept, LifeStutters
<1>4. CASE Moves(j, {}, {QueueAt})
  <2>1. Phase(j) = "none"
    <3>1. Places(j) = {} /\ Gone(j) = "none"
      BY <1>1 DEF PlacesInv, GoneOrNew, Untouched, Gone
    <3> QED BY <3>1, PhaseByPlaces
  <2>2. Phase(j)' = "live"
    <3>1. QueueAt \in Places(j)' /\ QueueAt # DeadAt
      BY <1>4, PlacesDiffer DEF Moves
    <3> QED BY <3>1, PhaseByPlacesNext
  <2>3. Lifecycle!Leave(j, "none", "live")
    BY <1>2, <1>4, <2>1, <2>2, LifeLeaves
  <2>4. Lifecycle!Accept(j)
    BY <1>1, <2>3 DEF Lifecycle!Accept
  <2> QED BY <2>4 DEF Lifecycle!Next
<1> QED BY <1>3, <1>4, PlacesEnqueue

\* A job moved between the queue and the lists stays live.
LEMMA LifeMoves ==
  ASSUME TypeOK, PlacesInv,
         \/ \E w \in Worker : Fetch(w) \/ RecoverMove(w)
         \/ \E h \in Host : LateMove(h)
  PROVE  UNCHANGED Lifecycle!vars
<1>1. UNCHANGED <<failures, succeeded, dropped, abandoned>>
  BY DEF Fetch, RecoverMove, LateMove, outcomes
<1>2. \A i \in Job : SameHistory(i)
  BY <1>1 DEF SameHistory
<1>3. \E j, h : Moves(j, {QueueAt}, {ListAt(h)}) \/ Moves(j, {ListAt(h)}, {QueueAt})
  <2>1. ASSUME NEW w \in Worker, Fetch(w)
        PROVE  \E j, h : Moves(j, {QueueAt}, {ListAt(h)})
    BY <2>1, PlacesFetch
  <2>2. ASSUME NEW w \in Worker, RecoverMove(w)
        PROVE  \E j, h : Moves(j, {ListAt(h)}, {QueueAt})
    BY <2>2, PlacesRecover
  <2>3. ASSUME NEW h \in Host, LateMove(h)
        PROVE  \E j, g : Moves(j, {QueueAt}, {ListAt(g)})
    BY <2>3, PlacesLate
  <2> QED BY <2>1, <2>2, <2>3
<1>4. \A i \in Job : Phase(i)' = Phase(i)
  BY <1>2, <1>3, PhaseShuttles, PlacesDiffer
<1> QED BY <1>1, <1>4, LifeStutters

\* A worker's message is of a live job while it is at work.
LEMMA WorkIsLive ==
  ASSUME TypeOK, PlacesInv, NEW w \in Worker, pc[w] \in AtWork
  PROVE  held[w].id \in Job /\ ListAt(host[w]) \in Places(held[w].id)
<1>1. held[w].id \in Job
  BY HeldOK DEF TypeOK, AtWork, Holding
<1>2. host[w] \in ListedAt(held[w].id)
  BY DEF PlacesInv, HeldListed, ListedAt, In, TypeOK, PodsOK, pkey
<1> QED BY <1>1, <1>2, PlacesMembers

\* A handler returns or raises: Succeed or Fail of a live job.
LEMMA LifeHandler ==
  ASSUME TypeOK, PlacesInv, NEW w \in Worker, HandlerReturns(w) \/ HandlerRaises(w)
  PROVE  Lifecycle!Next
<1>1. PICK j : j = held[w].id
  OBVIOUS
<1>2. pc[w] = "run" /\ UNCHANGED <<dropped, abandoned>>
  BY DEF HandlerReturns, HandlerRaises
<1>3. j \in Job /\ ListAt(host[w]) \in Places(j)
  BY <1>1, <1>2, WorkIsLive DEF AtWork
<1>4. \A i : Places(i)' = Places(i)
  BY PlacesStill DEF Still
<1>5. Phase(j) = "live" /\ Phase(j)' = "live"
  BY <1>3, <1>4, PhaseByPlaces, PhaseByPlacesNext, PlacesDiffer
<1>6. CASE HandlerReturns(w)
  <2>1. succeeded' = succeeded \cup {j} /\ UNCHANGED failures
    BY <1>1, <1>6 DEF HandlerReturns
  <2>2. \A i \in Job : Phase(i)' = Phase(i)
    BY <1>2, <1>4, <1>5, <2>1, PhaseKept DEF SameHistory
  <2>3. Lifecycle!Succeed(j)
    BY <1>3, <1>5, <2>1, <2>2 DEF Lifecycle!Succeed
  <2> QED BY <1>3, <2>3 DEF Lifecycle!Next
<1>7. CASE HandlerRaises(w)
  <2>1. failures' = [failures EXCEPT ![j] = @ + 1] /\ UNCHANGED succeeded
    BY <1>1, <1>7 DEF HandlerRaises
  <2>2. \A i \in Job : Phase(i)' = Phase(i)
    BY <1>2, <1>4, <1>5, <2>1, PhaseKept DEF SameHistory
  <2>3. Lifecycle!Fail(j)
    BY <1>3, <1>5, <2>1, <2>2 DEF Lifecycle!Fail
  <2> QED BY <1>3, <2>3 DEF Lifecycle!Next
<1> QED BY <1>6, <1>7

\* Where a job that an LREM takes from its list ends up.
LEMMA LremPhase ==
  ASSUME TypeOK, PlacesInv, NEW w \in Worker, Ack(w) \/ Drop(w) \/ Unlist(w),
         NEW j, j = held[w].id
  PROVE  /\ Phase(j) = "live" /\ j \notin dropped \cup abandoned
         /\ pc'[w] = "requeue" => Phase(j)' = "live"
         /\ pc'[w] # "requeue" => Phase(j)' = Gone(j)'
<1>1. Moves(j, {ListAt(pkey(w))}, IF pc'[w] = "requeue" THEN {HandAt(w)} ELSE {})
  BY PlacesLrem
<1>2. ListAt(pkey(w)) # DeadAt /\ HandAt(w) # DeadAt
  BY PlacesDiffer
<1>3. Places(j) # {} /\ Phase(j) = "live"
  BY <1>1, <1>2, PhaseByPlaces DEF Moves
<1>4. j \notin dropped \cup abandoned
  BY <1>3 DEF PlacesInv, GoneOrNew
<1>5. pc'[w] = "requeue" => Phase(j)' = "live"
  BY <1>1, <1>2, PhaseByPlacesNext DEF Moves
<1>6. pc'[w] # "requeue" => Phase(j)' = Gone(j)'
  BY <1>1, PhaseByPlacesNext DEF Moves
<1> QED BY <1>3, <1>4, <1>5, <1>6

\* An acknowledged job was handled: Retire.  A dropped one has no handler:
\* Discard.  One that is not pushed back has failed: Lose.
LEMMA LifeLrem ==
  ASSUME TypeOK, PlacesInv, AttemptsInv, ConservationInv,
         NEW w \in Worker, Ack(w) \/ Drop(w) \/ Unlist(w)
  PROVE  [Lifecycle!Next]_(Lifecycle!vars)
<1>1. PICK j : j = held[w].id
  OBVIOUS
<1>2. PICK to : Moves(j, {ListAt(pkey(w))}, to)
  BY <1>1, PlacesLrem
<1>3. /\ Phase(j) = "live" /\ j \notin dropped \cup abandoned
      /\ pc'[w] = "requeue" => Phase(j)' = "live"
      /\ pc'[w] # "requeue" => Phase(j)' = Gone(j)'
  BY <1>1, LremPhase
<1>4. UNCHANGED <<failures, succeeded>>
  BY DEF Ack, Drop, Unlist, outcomes
<1>5. CASE Ack(w)
  <2>1. /\ pc[w] = "ack" /\ \E loc \in {"top", "backoff"} : Goto(w, loc)
        /\ UNCHANGED <<dropped, abandoned>>
    BY <1>5 DEF Ack, Replied, GaveUp, outcomes
  <2>2. j \in succeeded
    BY <1>1, <2>1 DEF ConservationInv
  <2>3. pc'[w] # "requeue"
    BY <2>1, OthersKeep DEF TypeOK
  <2>4. Phase(j)' = "done"
    BY <1>3, <1>4, <2>1, <2>2, <2>3 DEF Gone
  <2>5. \A i : SameHistory(i)
    BY <1>4, <2>1 DEF SameHistory
  <2>6. j \in Job /\ Lifecycle!Leave(j, "live", "done")
    BY <1>2, <1>3, <2>4, <2>5, LifeLeaves
  <2> QED BY <1>4, <2>2, <2>6 DEF Lifecycle!Retire, Lifecycle!Next
<1>6. CASE Drop(w)
  <2>1. /\ pc[w] = "drop" /\ \E loc \in {"top", "backoff"} : Goto(w, loc)
        /\ dropped' = dropped \cup {j} /\ UNCHANGED abandoned
    BY <1>1, <1>6 DEF Drop, Replied, GaveUp
  <2>2. pc'[w] # "requeue"
    BY <2>1, OthersKeep DEF TypeOK
  <2>3. Phase(j)' = "dropped"
    BY <1>3, <2>1, <2>2 DEF Gone
  <2>4. \A i \in Job \ {j} : SameHistory(i)
    BY <1>4, <2>1 DEF SameHistory
  <2>5. j \in Job /\ Lifecycle!Leave(j, "live", "dropped")
    BY <1>2, <1>3, <2>3, <2>4, LifeLeaves
  <2>6. j \in Droppable
    BY <1>1, <2>1, <2>5 DEF PlacesInv, DropsUnknown, Droppable
  <2> QED BY <1>4, <2>5, <2>6 DEF Lifecycle!Discard, Lifecycle!Next
<1>7. CASE Unlist(w)
  <2>1. /\ pc[w] = "unlist" /\ UNCHANGED dropped
        /\ \/ Goto(w, "requeue") /\ UNCHANGED abandoned
           \/ Goto(w, "backoff") /\ abandoned' = abandoned \cup {j}
    BY <1>1, <1>7 DEF Unlist, Replied, GaveUp
  <2>2. \A i \in Job \ {j} : SameHistory(i)
    BY <1>4, <2>1 DEF SameHistory
  <2>3. CASE Goto(w, "requeue") /\ UNCHANGED abandoned
    <3>1. Phase(j)' = Phase(j)
      BY <1>3, <2>3, OthersKeep DEF TypeOK
    <3>2. \A i \in Job : Phase(i)' = Phase(i)
      BY <1>2, <2>2, <3>1, PhaseKept DEF Moves
    <3> QED BY <1>4, <3>2, LifeStutters
  <2>4. CASE Goto(w, "backoff") /\ abandoned' = abandoned \cup {j}
    <3>1. pc'[w] # "requeue"
      BY <2>4, OthersKeep DEF TypeOK
    <3>2. Phase(j)' = "lost"
      BY <1>3, <2>4, <3>1 DEF Gone
    <3>3. j \in Job /\ Lifecycle!Leave(j, "live", "lost")
      BY <1>2, <1>3, <2>2, <3>2, LifeLeaves
    <3>4. failures[j] > 0
      <4>1. held[w].attempts \in Nat /\ held[w].attempts + 1 <= failures[j]
        BY <1>1, <2>1, HeldOK DEF AttemptsInv, TypeOK, Holding
      <4>2. failures[j] \in Nat
        BY <3>3 DEF TypeOK, HistoryOK
      <4> QED BY <4>1, <4>2
    <3> QED BY <1>4, <3>3, <3>4 DEF Lifecycle!Lose, Lifecycle!Next
  <2> QED BY <2>1, <2>3, <2>4
<1> QED BY <1>5, <1>6, <1>7

\* A job is pushed back to the queue, or buried after its last attempt: Bury.
LEMMA LifeRequeue ==
  ASSUME TypeOK, PlacesInv, AttemptsInv, NEW w \in Worker, Requeue(w)
  PROVE  [Lifecycle!Next]_(Lifecycle!vars)
<1>1. PICK j : j = held[w].id
  OBVIOUS
<1>2. pc[w] = "requeue" /\ UNCHANGED <<failures, succeeded, dropped, abandoned>>
  BY DEF Requeue, outcomes
<1>3. \A i \in Job : SameHistory(i)
  BY <1>2 DEF SameHistory
<1>4. CASE Moves(j, {HandAt(w)}, {QueueAt})
  <2>1. \A i \in Job : Phase(i)' = Phase(i)
    BY <1>3, <1>4, PhaseShuttles, PlacesDiffer
  <2> QED BY <1>2, <2>1, LifeStutters
<1>5. CASE held[w].attempts + 1 >= MaxAttempts /\ Moves(j, {HandAt(w)}, {DeadAt})
  <2>1. Phase(j) = "live"
    BY <1>5, PhaseByPlaces, PlacesDiffer DEF Moves
  <2>2. Phase(j)' = "dead"
    BY <1>5, PhaseByPlacesNext DEF Moves
  <2>3. j \in Job /\ Lifecycle!Leave(j, "live", "dead")
    BY <1>3, <1>5, <2>1, <2>2, LifeLeaves
  <2>4. failures[j] >= MaxAttempts
    <3>1. held[w].attempts \in Nat /\ held[w].attempts + 1 <= failures[j]
      BY <1>1, <1>2, HeldOK DEF AttemptsInv, TypeOK, Holding
    <3>2. failures[j] \in Nat
      BY <2>3 DEF TypeOK, HistoryOK
    <3> QED BY <1>5, <3>1, <3>2, ConstantsAssumption
  <2> QED BY <1>2, <2>3, <2>4 DEF Lifecycle!Bury, Lifecycle!Next
<1> QED BY <1>1, <1>4, <1>5, PlacesRequeue

\* A worker that is killed or gives up in the gap loses its job: Lose.
LEMMA LifeGivenUp ==
  ASSUME TypeOK, PlacesInv, AttemptsInv, NEW w \in Worker, NoAnswer(w) \/ Kill(w)
  PROVE  [Lifecycle!Next]_(Lifecycle!vars)
<1>1. PICK j : j = held[w].id
  OBVIOUS
<1>2. /\ UNCHANGED <<failures, succeeded, dropped>>
      /\ abandoned' = abandoned \cup (IF pc[w] = "requeue" THEN {j} ELSE {})
  BY <1>1 DEF NoAnswer, Kill, Loses
<1>3. CASE pc[w] = "requeue"
  <2>1. Moves(j, {HandAt(w)}, {})
    BY <1>1, <1>3, PlacesGivenUp
  <2>2. Phase(j) = "live"
    BY <2>1, PhaseByPlaces, PlacesDiffer DEF Moves
  <2>3. Phase(j)' = "lost"
    <3>1. Phase(j)' = Gone(j)'
      BY <2>1, PhaseByPlacesNext DEF Moves
    <3> QED BY <1>2, <1>3, <3>1 DEF Gone
  <2>4. \A i \in Job \ {j} : SameHistory(i)
    BY <1>2, <1>3 DEF SameHistory
  <2>5. j \in Job /\ Lifecycle!Leave(j, "live", "lost")
    BY <2>1, <2>2, <2>3, <2>4, LifeLeaves
  <2>6. failures[j] > 0
    <3>1. held[w].attempts \in Nat /\ held[w].attempts + 1 <= failures[j]
      BY <1>1, <1>3, HeldOK DEF AttemptsInv, TypeOK, Holding
    <3>2. failures[j] \in Nat
      BY <2>5 DEF TypeOK, HistoryOK
    <3> QED BY <3>1, <3>2
  <2> QED BY <1>2, <2>5, <2>6 DEF Lifecycle!Lose, Lifecycle!Next
<1>4. CASE pc[w] # "requeue"
  <2>1. \A i : Places(i)' = Places(i)
    BY <1>1, <1>4, PlacesGivenUp
  <2>2. \A i : SameHistory(i)
    BY <1>2, <1>4 DEF SameHistory
  <2> QED BY <1>2, <2>1, <2>2, PhaseKept, LifeStutters
<1> QED BY <1>3, <1>4

\* The steps that move nothing and end no handler are none of a job's life.
LEMMA LifeStill ==
  ASSUME TypeOK, PlacesInv,
         \/ \E w \in Worker : Still(w) /\ ~HandlerReturns(w) /\ ~HandlerRaises(w)
         \/ \E h \in Host : LateTimeout(h)
         \/ UNCHANGED vars
  PROVE  UNCHANGED Lifecycle!vars
<1>1. UNCHANGED <<failures, succeeded, dropped, abandoned>>
  BY DEF Still, Start, Restart, Replace, RecoverEnd, Poll, Exit, FetchTimeout, BackoffEnd,
     FetchBroken, Terminate, LateTimeout, vars, outcomes
<1>2. \A i : Places(i)' = Places(i)
  <2>1. CASE \E w \in Worker : Still(w)
    BY <2>1, PlacesStill
  <2>2. CASE UNCHANGED <<redis, pc, held>>
    <3>1. \A i : InHands(i)' = InHands(i)
      BY <2>2 DEF InHands
    <3> QED BY <2>2, <3>1, RestPlaces DEF PlacesInv
  <2> QED BY <2>1, <2>2 DEF LateTimeout, vars
<1>3. \A i : SameHistory(i)
  BY <1>1 DEF SameHistory
<1> QED BY <1>1, <1>2, <1>3, PhaseKept, LifeStutters

\* Every step of the queue is a step of the life of one job, or of none.
LEMMA LifeStep ==
  TypeOK /\ PlacesInv /\ AttemptsInv /\ ConservationInv /\ [Next]_vars
    => [Lifecycle!Next]_(Lifecycle!vars)
<1> SUFFICES ASSUME TypeOK, PlacesInv, AttemptsInv, ConservationInv, [Next]_vars
             PROVE  [Lifecycle!Next]_(Lifecycle!vars)
  OBVIOUS
<1>1. ASSUME NEW w \in Worker, Start(w) \/ Work(w) \/ Fault(w)
      PROVE  [Lifecycle!Next]_(Lifecycle!vars)
  <2>1. CASE Fetch(w) \/ RecoverMove(w)
    BY <2>1, LifeMoves
  <2>2. CASE HandlerReturns(w) \/ HandlerRaises(w)
    BY <2>2, LifeHandler
  <2>3. CASE Ack(w) \/ Drop(w) \/ Unlist(w)
    BY <2>3, LifeLrem
  <2>4. CASE Requeue(w)
    BY <2>4, LifeRequeue
  <2>5. CASE NoAnswer(w) \/ Kill(w)
    BY <2>5, LifeGivenUp
  <2>6. CASE Still(w) /\ ~HandlerReturns(w) /\ ~HandlerRaises(w)
    BY <2>6, LifeStill
  <2> QED BY <1>1, <2>1, <2>2, <2>3, <2>4, <2>5, <2>6 DEF Work, Recover, Handle, Fault, Still
<1>2. ASSUME NEW h \in Host, LateMove(h) \/ LateTimeout(h)
      PROVE  [Lifecycle!Next]_(Lifecycle!vars)
  BY <1>2, LifeMoves, LifeStill
<1>3. ASSUME NEW j \in Job, Enqueue(j) PROVE [Lifecycle!Next]_(Lifecycle!vars)
  BY <1>3, LifeEnqueue
<1>4. CASE UNCHANGED vars
  BY <1>4, LifeStill
<1> QED BY <1>1, <1>2, <1>3, <1>4 DEF Next

\* Nothing has happened to any job at the start.
LEMMA LifeInit == Init => Lifecycle!Init
<1> SUFFICES ASSUME Init PROVE Lifecycle!Init
  OBVIOUS
<1>1. PlacesInv
  BY PlacesInit
<1>2. \A j \in Job : Places(j) = {} /\ Gone(j) = "none"
  BY <1>1 DEF Init, PlacesInv, GoneOrNew, Gone
<1>3. \A j \in Job : Phase(j) = "none"
  BY <1>2, PhaseByPlaces
<1> QED BY <1>3 DEF Init, Lifecycle!Init

\* The queue implements JobLifecycle: whatever crashes, is lost or comes late, a
\* job is acknowledged only after its handler succeeded, dead-lettered only
\* after MAX_ATTEMPTS failures, dropped only if some worker has no handler for
\* it, and lost only after it failed (worker.py:3-11, 86-123).
THEOREM QueueImplementsLifecycle == Spec => ImplementsLifecycle
<1>1. Init => PlacesInv /\ AttemptsInv /\ ConservationInv
  <2>1. Init => ConservationInv
    BY DEF Init, ConservationInv, NoOtherLoss
  <2> QED BY <2>1, PlacesInit, AttemptsInit
<1>2. /\ TypeOK /\ PlacesInv /\ AttemptsInv /\ ConservationInv /\ [Next]_vars
      => PlacesInv' /\ AttemptsInv' /\ ConservationInv'
  BY PlacesStep, AttemptsStep, ConservationStep
<1>3. Init => Lifecycle!Init
  BY LifeInit
<1>4. /\ TypeOK /\ PlacesInv /\ AttemptsInv /\ ConservationInv /\ [Next]_vars
      => [Lifecycle!Next]_(Lifecycle!vars)
  BY LifeStep
<1> QED BY <1>1, <1>2, <1>3, <1>4, TypeCorrect, PTL DEF Spec, ImplementsLifecycle, Lifecycle!Spec
=============================================================================
