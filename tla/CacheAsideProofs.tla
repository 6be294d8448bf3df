-------------------------- MODULE CacheAsideProofs --------------------------
(***************************************************************************)
(* get_or_set, for any number of processes, tasks, faults and evictions:   *)
(* whoever is inside the lock has it, everyone else who wants it stands in *)
(* line once, and the factory runs once per process.                       *)
(***************************************************************************)
EXTENDS CacheAside, SequenceTheorems, WellFoundedInduction, TLAPS

-----------------------------------------------------------------------------
(* Joining a line and leaving it. *)

\* The elements of a sequence, by position.
LEMMA ToSetIndexed ==
  ASSUME NEW S, NEW s \in Seq(S)
  PROVE  /\ ToSet(s) \subseteq S
         /\ \A x : x \in ToSet(s) <=> \E i \in 1..Len(s) : s[i] = x
<1>1. DOMAIN s = 1..Len(s) /\ \A i \in 1..Len(s) : s[i] \in S
  BY LenProperties, ElementOfSeq
<1> QED BY <1>1, Zenon DEF ToSet

\* The first occurrence is looked up: its position is one of the sequence's.
LEMMA FirstOccurrence ==
  ASSUME NEW S, NEW s \in Seq(S), NEW e \in ToSet(s)
  PROVE  \E k \in 1..Len(s) : s[k] = e /\ RemoveFirst(s, e) = RemoveAt(s, k)
<1> DEFINE I == {i \in 1..Len(s) : s[i] = e}
           k == Min(I)
<1>1. Len(s) \in Nat
  BY LenProperties
<1>2. PICK i \in 1..Len(s) : s[i] = e
  BY ToSetIndexed
<1>3. I \in SUBSET Nat /\ i \in I
  BY <1>1, <1>2
<1>4. \E x \in I : \A y \in I : x <= y
  <2> DEFINE R == {p \in Nat \X Nat : p[1] < p[2]}
  <2>1. IsWellFoundedOn(R, Nat)
    BY NatLessThanWellFounded DEF OpToRel
  <2>2. \E x \in I : \A y \in I : <<y, x>> \notin R
    BY <1>3, <2>1, WFMin
  <2>3. PICK x \in I : \A y \in I : <<y, x>> \notin R
    BY <2>2
  <2>4. ASSUME NEW y \in I PROVE x <= y
    <3>1. x \in Nat /\ y \in Nat /\ <<y, x>> \in Nat \X Nat
      BY <1>3
    <3>2. ~(y < x)
      BY <2>3, <3>1
    <3> QED BY <3>1, <3>2
  <2> QED BY <2>4
<1>5. k \in I
  BY <1>4 DEF Min
<1>6. SelectInSeq(s, LAMBDA v : v = e) = k
  BY <1>3 DEF SelectInSeq
<1>7. RemoveFirst(s, e) = RemoveAt(s, k)
  BY <1>2, <1>6 DEF RemoveFirst
<1> QED BY <1>5, <1>7

\* Removing a position shifts the ones after it.
LEMMA RemoveAtElements ==
  ASSUME NEW S, NEW s \in Seq(S), NEW k \in 1..Len(s)
  PROVE  LET t == RemoveAt(s, k) IN
         /\ t \in Seq(S) /\ Len(t) = Len(s) - 1
         /\ \A i \in 1..Len(t) : t[i] = IF i < k THEN s[i] ELSE s[i + 1]
<1> DEFINE a == SubSeq(s, 1, k - 1)
           b == SubSeq(s, k + 1, Len(s))
           t == RemoveAt(s, k)
<1>1. Len(s) \in Nat /\ \A i \in 1..Len(s) : s[i] \in S
  BY LenProperties, ElementOfSeq
<1>2. /\ a \in Seq(S) /\ Len(a) = k - 1
      /\ \A i \in 1..(k - 1) : a[i] = s[i]
  <2>1. /\ a \in Seq(S)
        /\ Len(a) = IF 1 <= k - 1 THEN (k - 1) - 1 + 1 ELSE 0
        /\ \A i \in 1 .. (k - 1) - 1 + 1 : a[i] = s[1 + i - 1]
    BY <1>1, SubSeqProperties
  <2> QED BY <1>1, <2>1
<1>3. /\ b \in Seq(S) /\ Len(b) = Len(s) - k
      /\ \A i \in 1..(Len(s) - k) : b[i] = s[k + i]
  <2>1. /\ b \in Seq(S)
        /\ Len(b) = IF k + 1 <= Len(s) THEN Len(s) - (k + 1) + 1 ELSE 0
        /\ \A i \in 1 .. Len(s) - (k + 1) + 1 : b[i] = s[(k + 1) + i - 1]
    BY <1>1, SubSeqProperties
  <2> QED BY <1>1, <2>1
<1>4. t = a \o b
  BY DEF RemoveAt
<1> HIDE DEF a, b, t
<1>5. /\ t \in Seq(S) /\ Len(t) = Len(s) - 1
      /\ \A i \in 1..Len(t) : t[i] = IF i < k THEN s[i] ELSE s[i + 1]
  <2>1. /\ t \in Seq(S) /\ Len(t) = Len(a) + Len(b)
        /\ \A i \in 1..Len(a) + Len(b) :
             t[i] = IF i <= Len(a) THEN a[i] ELSE b[i - Len(a)]
    BY <1>2, <1>3, <1>4, ConcatProperties
  <2>2. Len(t) = Len(s) - 1
    BY <1>1, <1>2, <1>3, <2>1
  <2>3. ASSUME NEW i \in 1..Len(t), i < k PROVE t[i] = s[i]
    BY <1>1, <1>2, <1>3, <2>1, <2>2, <2>3
  <2>4. ASSUME NEW i \in 1..Len(t), ~(i < k) PROVE t[i] = s[i + 1]
    <3>1. i - (k - 1) \in 1..(Len(s) - k) /\ k + (i - (k - 1)) = i + 1
      BY <1>1, <2>2, <2>4
    <3>2. t[i] = b[i - (k - 1)]
      BY <1>1, <1>2, <1>3, <2>1, <2>2, <2>4
    <3> QED BY <1>3, <3>1, <3>2
  <2> QED BY <2>1, <2>2, <2>3, <2>4
<1> QED BY <1>5 DEF t

\* Who joins stands last.
LEMMA Joins ==
  ASSUME NEW S, NEW s \in Seq(S), NEW e \in S, IsInjective(s), e \notin ToSet(s)
  PROVE  LET t == Append(s, e) IN
         /\ t \in Seq(S) /\ IsInjective(t) /\ ToSet(t) = ToSet(s) \cup {e}
         /\ s # <<>> => t # <<>> /\ Head(t) = Head(s)
<1> DEFINE t == Append(s, e)
<1>1. /\ t \in Seq(S) /\ Len(t) = Len(s) + 1 /\ Len(s) \in Nat
      /\ \A i \in 1..Len(s) : t[i] = s[i]
      /\ t[Len(s) + 1] = e
  BY AppendProperties, LenProperties
<1>2. /\ DOMAIN s = 1..Len(s) /\ DOMAIN t = 1..Len(t)
      /\ s # <<>> => Len(s) # 0
  BY <1>1, LenProperties, EmptySeq
<1> HIDE DEF t
<1>3. \A i \in 1..Len(s) : s[i] # e
  BY ToSetIndexed
<1>4. IsInjective(t)
  <2> SUFFICES ASSUME NEW i \in 1..Len(t), NEW k \in 1..Len(t), t[i] = t[k] PROVE i = k
    BY <1>2 DEF IsInjective
  <2>1. CASE i = Len(s) + 1 \/ k = Len(s) + 1
    BY <1>1, <1>3, <2>1
  <2>2. CASE i \in 1..Len(s) /\ k \in 1..Len(s)
    BY <1>1, <1>2, <2>2 DEF IsInjective
  <2> QED BY <1>1, <2>1, <2>2
<1>5. ASSUME NEW x PROVE x \in ToSet(t) <=> x \in ToSet(s) \cup {e}
  <2>1. x \in ToSet(t) <=> \E i \in 1..Len(t) : t[i] = x
    BY <1>1, ToSetIndexed
  <2>2. x \in ToSet(s) <=> \E i \in 1..Len(s) : s[i] = x
    BY ToSetIndexed
  <2>3. (\E i \in 1..Len(t) : t[i] = x) <=> (\E i \in 1..Len(s) : s[i] = x) \/ x = e
    BY <1>1
  <2> QED BY <2>1, <2>2, <2>3
<1>6. s # <<>> => t # <<>> /\ Head(t) = Head(s)
  BY <1>1, <1>2
<1> QED BY <1>1, <1>4, <1>5, <1>6 DEF t

\* Who leaves stands there no longer, and the first stays the first.
LEMMA Leaves ==
  ASSUME NEW S, NEW s \in Seq(S), NEW e, IsInjective(s)
  PROVE  LET t == RemoveFirst(s, e) IN
         /\ t \in Seq(S) /\ IsInjective(t) /\ ToSet(t) = ToSet(s) \ {e}
         /\ s # <<>> /\ Head(s) # e => t # <<>> /\ Head(t) = Head(s)
<1>1. CASE e \notin ToSet(s)
  <2>1. RemoveFirst(s, e) = s
    BY <1>1, ToSetIndexed DEF RemoveFirst
  <2> QED BY <1>1, <2>1
<1>2. CASE e \in ToSet(s)
  <2> DEFINE t == RemoveFirst(s, e)
  <2>1. PICK k \in 1..Len(s) : s[k] = e /\ t = RemoveAt(s, k)
    BY <1>2, FirstOccurrence
  <2> HIDE DEF t
  <2>2. /\ t \in Seq(S) /\ Len(t) = Len(s) - 1 /\ Len(s) \in Nat
        /\ \A i \in 1..Len(t) : t[i] = IF i < k THEN s[i] ELSE s[i + 1]
    <3> DEFINE u == RemoveAt(s, k)
    <3>1. /\ u \in Seq(S) /\ Len(u) = Len(s) - 1
          /\ \A i \in 1..Len(u) : u[i] = IF i < k THEN s[i] ELSE s[i + 1]
      BY RemoveAtElements
    <3>2. Len(s) \in Nat
      BY LenProperties
    <3> HIDE DEF u
    <3> QED BY <2>1, <3>1, <3>2 DEF u
  <2>3. /\ DOMAIN s = 1..Len(s) /\ DOMAIN t = 1..Len(t)
        /\ \A i, l \in 1..Len(s) : s[i] = s[l] => i = l
    BY <2>2, LenProperties DEF IsInjective
  <2> DEFINE old(i) == IF i < k THEN i ELSE i + 1
  <2>4. \A i \in 1..Len(t) : old(i) \in 1..Len(s) /\ old(i) # k /\ t[i] = s[old(i)]
    BY <2>2
  <2>5. \A i, l \in 1..Len(t) : old(i) = old(l) => i = l
    BY <2>2
  <2>6. \A l \in 1..Len(s) : l # k => \E i \in 1..Len(t) : old(i) = l
    <3> SUFFICES ASSUME NEW l \in 1..Len(s), l # k PROVE \E i \in 1..Len(t) : old(i) = l
      OBVIOUS
    <3>1. CASE l < k
      <4>1. l \in 1..Len(t) /\ old(l) = l
        BY <2>2, <3>1
      <4> QED BY <4>1
    <3>2. CASE ~(l < k)
      <4>1. l - 1 \in 1..Len(t) /\ old(l - 1) = l
        BY <2>2, <3>2
      <4> QED BY <4>1
    <3> QED BY <3>1, <3>2
  <2>7. s # <<>> /\ Head(s) # e => t # <<>> /\ Head(t) = Head(s)
    <3> SUFFICES ASSUME s # <<>>, Head(s) # e PROVE t # <<>> /\ Head(t) = Head(s)
      OBVIOUS
    <3>1. Head(s) = s[1] /\ Len(s) \in Nat \ {0} /\ k # 1
      BY <2>1, LenProperties, EmptySeq
    <3>2. 1 \in 1..Len(t) /\ t[1] = s[1]
      BY <2>2, <3>1
    <3> QED BY <2>2, <3>1, <3>2
  <2> HIDE DEF old
  <2>8. IsInjective(t)
    BY <2>3, <2>4, <2>5 DEF IsInjective
  <2>9. ASSUME NEW x PROVE x \in ToSet(t) <=> x \in ToSet(s) \ {e}
    <3>1. (x \in ToSet(t) <=> \E i \in 1..Len(t) : t[i] = x)
          /\ (x \in ToSet(s) <=> \E i \in 1..Len(s) : s[i] = x)
      BY <2>2, ToSetIndexed
    <3>2. ASSUME NEW i \in 1..Len(t) PROVE t[i] # e /\ \E l \in 1..Len(s) : s[l] = t[i]
      BY <2>1, <2>3, <2>4
    <3>3. ASSUME NEW l \in 1..Len(s), s[l] # e PROVE \E i \in 1..Len(t) : t[i] = s[l]
      BY <2>1, <2>4, <2>6, <3>3
    <3> QED BY <3>1, <3>2, <3>3
  <2> QED BY <2>2, <2>7, <2>8, <2>9 DEF t
<1> QED BY <1>1, <1>2

-----------------------------------------------------------------------------
(* Types *)

\* The line of one process.
LineOK(p) ==
  /\ IsInjective(line[p])
  /\ ToSet(line[p]) = {t \in Task : Home[t] = p /\ pc[t] \in {"waiting"} \cup Inside}

Sorts ==
  /\ cached \in BOOLEAN /\ sending \subseteq Task
  /\ pc \in [Task -> {"idle", "missed", "waiting"} \cup Inside \cup Ended]
  /\ faults \in 0..MaxFaults /\ evictions \in 0..MaxEvictions
  /\ filled \in [Process -> BOOLEAN]
  /\ line \in [Process -> Seq(Task)]

LEMMA Parts ==
  TypeOK <=> /\ Sorts
             /\ \A p \in Process : LineOK(p)
             /\ \A t \in Task : pc[t] \in Inside => Holds(t)
BY DEF TypeOK, Sorts, LineOK

LEMMA PartsNext ==
  ASSUME Sorts', \A p \in Process : LineOK(p)', \A t \in Task : pc'[t] \in Inside => Holds(t)'
  PROVE  TypeOK'
BY DEF TypeOK, Sorts, LineOK

LEMMA TypeInit == Init => TypeOK
<1> SUFFICES ASSUME Init PROVE TypeOK
  OBVIOUS
<1>1. Sorts
  <2>1. /\ cached = FALSE /\ sending = {} /\ faults = 0 /\ evictions = 0
        /\ pc = [t \in Task |-> "idle"] /\ filled = [p \in Process |-> FALSE]
        /\ line = [p \in Process |-> <<>>]
    BY DEF Init
  <2>2. cached \in BOOLEAN /\ filled \in [Process -> BOOLEAN]
    BY <2>1
  <2>3. /\ sending \subseteq Task /\ faults \in 0..MaxFaults /\ evictions \in 0..MaxEvictions
        /\ line \in [Process -> Seq(Task)]
    BY <2>1, ConstantsAssumption
  <2>4. pc \in [Task -> {"idle", "missed", "waiting"} \cup Inside \cup Ended]
    BY <2>1
  <2>5. QED
    BY <2>2, <2>3, <2>4 DEF Sorts
<1>2. ASSUME NEW p \in Process PROVE LineOK(p)
  BY DEF Init, LineOK, IsInjective, ToSet, Inside
<1>3. \A t \in Task : pc[t] \notin Inside
  BY DEF Init, Inside
<1>4. QED
  BY <1>1, <1>2, <1>3, Parts

\* A task that changes its place between those that stand in line, or between
\* those that do not, changes no line.
LEMMA LinesStay ==
  ASSUME TypeOK, NEW t \in Task, Sorts', line' = line,
         \A u \in Task \ {t} : pc'[u] = pc[u],
         pc[t] \in {"waiting"} \cup Inside <=> pc'[t] \in {"waiting"} \cup Inside,
         pc'[t] \in Inside => Holds(t)
  PROVE  TypeOK'
<1>1. \A p \in Process : LineOK(p)'
  BY Parts DEF LineOK
<1>2. \A u \in Task : pc'[u] \in Inside => Holds(u)'
  BY Parts DEF Holds
<1>3. QED
  BY <1>1, <1>2, PartsNext

\* A task that goes leaves its line as it should be.
LEMMA LinesShrink ==
  ASSUME TypeOK, NEW t \in Task, Leave(t), NEW where \in Ended, Goto(t, where)
  PROVE  /\ pc' \in [Task -> {"idle", "missed", "waiting"} \cup Inside \cup Ended]
         /\ line' \in [Process -> Seq(Task)]
         /\ \A p \in Process : LineOK(p)'
         /\ \A u \in Task : pc'[u] \in Inside => Holds(u)'
<1> DEFINE h == Home[t]
<1>1. h \in Process /\ \A u \in Task : Home[u] \in Process
  BY ConstantsAssumption
<1>2. /\ pc' = [pc EXCEPT ![t] = where]
      /\ line' = [line EXCEPT ![h] = RemoveFirst(line[h], t)]
      /\ where \notin {"waiting"} \cup Inside
  BY DEF Goto, Leave, Ended, Inside
<1>3. Sorts /\ LineOK(h) /\ line[h] \in Seq(Task)
  BY <1>1, Parts DEF Sorts
<1>4. /\ RemoveFirst(line[h], t) \in Seq(Task) /\ IsInjective(RemoveFirst(line[h], t))
      /\ ToSet(RemoveFirst(line[h], t)) = ToSet(line[h]) \ {t}
      /\ line[h] # <<>> /\ Head(line[h]) # t =>
           RemoveFirst(line[h], t) # <<>> /\ Head(RemoveFirst(line[h], t)) = Head(line[h])
  BY <1>3, Leaves DEF LineOK
<1>5. /\ line'[h] = RemoveFirst(line[h], t)
      /\ \A p \in Process \ {h} : line'[p] = line[p]
      /\ pc'[t] = where /\ \A u \in Task \ {t} : pc'[u] = pc[u]
  BY <1>1, <1>2, <1>3 DEF Sorts
<1>6. /\ pc' \in [Task -> {"idle", "missed", "waiting"} \cup Inside \cup Ended]
      /\ line' \in [Process -> Seq(Task)]
  BY <1>1, <1>2, <1>3, <1>4 DEF Sorts
<1> HIDE DEF h
<1>7. LineOK(h)'
  BY <1>2, <1>3, <1>4, <1>5 DEF LineOK
<1>8. ASSUME NEW p \in Process \ {h} PROVE LineOK(p)'
  <2>1. LineOK(p) /\ line'[p] = line[p]
    BY <1>5, Parts
  <2>2. \A u \in Task : Home[u] = p => pc'[u] = pc[u]
    BY <1>5 DEF h
  <2>3. QED
    BY <2>1, <2>2 DEF LineOK
<1>9. ASSUME NEW u \in Task, pc'[u] \in Inside PROVE Holds(u)'
  <2>1. u # t /\ pc[u] \in Inside
    BY <1>2, <1>5, <1>9
  <2>2. line[Home[u]] # <<>> /\ Head(line[Home[u]]) = u
    BY <2>1, Parts DEF Holds
  <2>3. line'[Home[u]] # <<>> /\ Head(line'[Home[u]]) = u
    BY <1>1, <1>4, <1>5, <2>1, <2>2
  <2>4. QED
    BY <2>3 DEF Holds
<1>10. QED
  BY <1>6, <1>7, <1>8, <1>9

LEMMA TypeAcquire ==
  ASSUME TypeOK, NEW t \in Task, Acquire(t)
  PROVE  TypeOK'
<1> DEFINE h == Home[t]
<1>1. h \in Process /\ \A u \in Task : Home[u] \in Process
  BY ConstantsAssumption
<1>2. /\ pc[t] = "missed" /\ pc' = [pc EXCEPT ![t] = "waiting"]
      /\ line' = [line EXCEPT ![h] = Append(line[h], t)]
      /\ UNCHANGED <<cached, sending, faults, evictions, filled>>
  BY DEF Acquire, Goto
<1>3. Sorts /\ LineOK(h) /\ line[h] \in Seq(Task)
  BY <1>1, Parts DEF Sorts
<1>4. t \notin ToSet(line[h])
  BY <1>2, <1>3 DEF LineOK, Inside
<1>5. /\ Append(line[h], t) \in Seq(Task) /\ IsInjective(Append(line[h], t))
      /\ ToSet(Append(line[h], t)) = ToSet(line[h]) \cup {t}
      /\ line[h] # <<>> => Append(line[h], t) # <<>> /\ Head(Append(line[h], t)) = Head(line[h])
  BY <1>3, <1>4, Joins DEF LineOK
<1>6. /\ line'[h] = Append(line[h], t)
      /\ \A p \in Process \ {h} : line'[p] = line[p]
      /\ pc'[t] = "waiting" /\ \A u \in Task \ {t} : pc'[u] = pc[u]
  BY <1>1, <1>2, <1>3 DEF Sorts
<1>7. Sorts'
  BY <1>1, <1>2, <1>3, <1>5 DEF Sorts
<1>8. LineOK(h)'
  BY <1>3, <1>5, <1>6 DEF LineOK, h
<1> HIDE DEF h
<1>9. ASSUME NEW p \in Process \ {h} PROVE LineOK(p)'
  <2>1. LineOK(p) /\ line'[p] = line[p]
    BY <1>6, Parts
  <2>2. \A u \in Task : Home[u] = p => pc'[u] = pc[u]
    BY <1>6 DEF h
  <2>3. QED
    BY <2>1, <2>2 DEF LineOK
<1>10. ASSUME NEW u \in Task, pc'[u] \in Inside PROVE Holds(u)'
  <2>1. u # t /\ pc[u] \in Inside
    BY <1>6, <1>10 DEF Inside
  <2>2. line[Home[u]] # <<>> /\ Head(line[Home[u]]) = u
    BY <2>1, Parts DEF Holds
  <2>3. line'[Home[u]] # <<>> /\ Head(line'[Home[u]]) = u
    BY <1>1, <1>5, <1>6, <2>2
  <2>4. QED
    BY <2>3 DEF Holds
<1>11. QED
  BY <1>7, <1>8, <1>9, <1>10, PartsNext

LEMMA TypeRun ==
  ASSUME TypeOK, NEW t \in Task, Run(t)
  PROVE  TypeOK'
<1> USE DEF Goto
<1>1. Sorts
  BY Parts
<1>2. CASE FirstGet(t)
  <2>1. /\ pc[t] = "idle" /\ line' = line
        /\ UNCHANGED <<cached, sending, faults, evictions, filled>>
        /\ \A u \in Task \ {t} : pc'[u] = pc[u]
    BY <1>1, <1>2 DEF FirstGet, Sorts
  <2>2. pc'[t] \in {"returned", "missed"} /\ Sorts'
    BY <1>1, <1>2, <2>1 DEF FirstGet, Sorts, Ended
  <2>3. QED
    BY <2>1, <2>2, LinesStay DEF Inside
<1>3. CASE Acquire(t)
  BY <1>3, TypeAcquire
<1>4. CASE SecondGet(t) /\ line' = line /\ pc' = [pc EXCEPT ![t] = "making"]
  <2>1. /\ pc[t] = "waiting" /\ Holds(t)
        /\ UNCHANGED <<cached, sending, faults, evictions, filled>>
    BY <1>4 DEF SecondGet
  <2>2. Sorts' /\ pc'[t] = "making" /\ \A u \in Task \ {t} : pc'[u] = pc[u]
    BY <1>1, <1>4, <2>1 DEF Sorts, Inside
  <2>3. QED
    BY <1>4, <2>1, <2>2, LinesStay DEF Inside
<1>5. CASE (SecondGet(t) \/ Return(t)) /\ Leave(t) /\ Goto(t, "returned")
  <2>1. UNCHANGED <<cached, sending, faults, evictions, filled>>
    BY <1>5 DEF SecondGet, Return
  <2>2. "returned" \in Ended
    BY DEF Ended
  <2>3. /\ pc' \in [Task -> {"idle", "missed", "waiting"} \cup Inside \cup Ended]
        /\ line' \in [Process -> Seq(Task)]
        /\ \A p \in Process : LineOK(p)'
        /\ \A u \in Task : pc'[u] \in Inside => Holds(u)'
    BY <1>5, <2>2, LinesShrink
  <2>4. Sorts'
    BY <1>1, <2>1, <2>3 DEF Sorts
  <2>5. QED
    BY <2>3, <2>4, PartsNext
<1>6. CASE Make(t)
  <2>1. /\ pc[t] = "making" /\ line' = line /\ pc' = [pc EXCEPT ![t] = "storing"]
        /\ sending' = sending \cup {t} /\ UNCHANGED <<cached, faults, evictions, filled>>
    BY <1>6 DEF Make
  <2>2. Sorts' /\ pc'[t] = "storing" /\ \A u \in Task \ {t} : pc'[u] = pc[u]
    BY <1>1, <2>1 DEF Sorts, Inside
  <2>3. Holds(t)
    BY <2>1, Parts DEF Inside
  <2>4. QED
    BY <2>1, <2>2, <2>3, LinesStay DEF Inside
<1>7. CASE Set(t)
  <2>1. /\ line' = line /\ pc' = pc /\ sending' = sending \ {t} /\ cached' = TRUE
        /\ UNCHANGED <<faults, evictions>>
        /\ filled' = [filled EXCEPT ![Home[t]] = @ \/ pc[t] = "storing"]
    BY <1>7 DEF Set
  <2>2. filled' \in [Process -> BOOLEAN]
    BY <1>1, <2>1, ConstantsAssumption, Zenon DEF Sorts
  <2>3. Sorts'
    BY <1>1, <2>1, <2>2 DEF Sorts
  <2>4. pc[t] \in Inside => Holds(t)
    BY Parts
  <2>5. QED
    BY <2>1, <2>3, <2>4, LinesStay
<1>8. QED
  BY <1>2, <1>3, <1>4, <1>5, <1>6, <1>7 DEF Run, SecondGet, Return

LEMMA TypeRaise ==
  ASSUME TypeOK, NEW t \in Task, Raise(t)
  PROVE  TypeOK'
<1>1. /\ faults < MaxFaults /\ faults' = faults + 1 /\ Goto(t, "raised") /\ Leave(t)
      /\ sending' \in {sending, sending \ {t}} /\ UNCHANGED <<cached, evictions, filled>>
  BY DEF Raise
<1>2. "raised" \in Ended
  BY DEF Ended
<1>3. /\ pc' \in [Task -> {"idle", "missed", "waiting"} \cup Inside \cup Ended]
      /\ line' \in [Process -> Seq(Task)]
      /\ \A p \in Process : LineOK(p)'
      /\ \A u \in Task : pc'[u] \in Inside => Holds(u)'
  BY <1>1, <1>2, LinesShrink
<1>4. Sorts'
  BY <1>1, <1>3, Parts, ConstantsAssumption DEF Sorts
<1>5. QED
  BY <1>3, <1>4, PartsNext

LEMMA TypeStep == TypeOK /\ [Next]_vars => TypeOK'
<1> SUFFICES ASSUME TypeOK, [Next]_vars PROVE TypeOK'
  OBVIOUS
<1>1. CASE Evict
  <2>1. /\ evictions < MaxEvictions /\ evictions' = evictions + 1 /\ cached' = FALSE
        /\ filled' = [p \in Process |-> FALSE] /\ UNCHANGED <<sending, line, pc, faults>>
    BY <1>1 DEF Evict
  <2>2. Sorts'
    <3>1. Sorts
      BY Parts
    <3>2. cached' \in BOOLEAN /\ filled' \in [Process -> BOOLEAN]
      BY <2>1
    <3>3. evictions' \in 0..MaxEvictions
      BY <2>1, <3>1, ConstantsAssumption DEF Sorts
    <3>4. QED
      BY <2>1, <3>1, <3>2, <3>3 DEF Sorts
  <2>3. /\ \A p \in Process : LineOK(p)'
        /\ \A t \in Task : pc'[t] \in Inside => Holds(t)'
    BY <2>1, Parts DEF LineOK, Holds
  <2>4. QED
    BY <2>2, <2>3, PartsNext
<1>2. CASE UNCHANGED vars
  BY <1>2 DEF TypeOK, Holds, vars
<1>3. QED
  BY <1>1, <1>2, TypeRun, TypeRaise DEF Next

\* The lines that get_or_set's lock keeps: who is inside has the lock, and who
\* waits for it or is inside stands in its process's line, once (aside.py:28-34).
THEOREM TypeCorrect == Spec => []TypeOK
<1>1. QED
  BY TypeInit, TypeStep, PTL DEF Spec

-----------------------------------------------------------------------------
(* The factory *)

\* What a process has stored and nothing has evicted is in the cache.
Stored == \A p \in Process : filled[p] => cached

LEMMA StoredInit == Init => Stored
BY DEF Init, Stored

LEMMA StoredStep == TypeOK /\ Stored /\ [Next]_vars => Stored'
<1> SUFFICES ASSUME TypeOK, Stored, [Next]_vars PROVE Stored'
  OBVIOUS
<1>1. CASE Evict
  BY <1>1 DEF Evict, Stored
<1>2. CASE \E t \in Task : Set(t)
  BY <1>2 DEF Set, Stored
<1>3. CASE UNCHANGED <<cached, filled>>
  BY <1>3 DEF Stored
<1>4. QED
  BY <1>1, <1>2, <1>3
     DEF Next, Run, FirstGet, Acquire, SecondGet, Make, Return, Raise, vars

\* A stampede computes the value once per process: whoever begins to compute it
\* has the lock to itself and found nothing in the cache (aside.py:28-32).
THEOREM ComputedOnce == Spec => ComputesOncePerProcess
<1> DEFINE Once == \A t \in Task : pc[t] # "making" /\ pc'[t] = "making" =>
                     /\ ~filled[Home[t]]
                     /\ \A u \in Task : Home[u] = Home[t] => pc[u] \notin Inside
<1>1. TypeOK /\ Stored /\ [Next]_vars => [Once]_vars
  <2> SUFFICES ASSUME TypeOK, Stored, Next,
                      NEW t \in Task, pc[t] # "making", pc'[t] = "making"
               PROVE  /\ ~filled[Home[t]]
                      /\ \A u \in Task : Home[u] = Home[t] => pc[u] \notin Inside
    OBVIOUS
  <2>1. SecondGet(t) /\ ~cached
    <3>1. pc \in [Task -> {"idle", "missed", "waiting"} \cup Inside \cup Ended]
      BY DEF TypeOK
    <3>2. PICK u \in Task : Run(u) \/ Raise(u)
      BY DEF Next, Evict
    <3>3. u = t
      BY <3>1, <3>2 DEF Run, FirstGet, Acquire, SecondGet, Make, Set, Return, Raise, Goto
    <3>4. QED
      BY <3>1, <3>2, <3>3 DEF Run, FirstGet, Acquire, SecondGet, Make, Set, Return, Raise, Goto
  <2>2. ~filled[Home[t]]
    BY <2>1, ConstantsAssumption DEF Stored
  <2>3. ASSUME NEW u \in Task, Home[u] = Home[t], pc[u] \in Inside PROVE FALSE
    <3>1. Holds(u) /\ Holds(t) /\ pc[t] = "waiting"
      BY <2>1, <2>3 DEF TypeOK, SecondGet
    <3>2. u = t
      BY <2>3, <3>1 DEF Holds
    <3>3. QED
      BY <2>3, <3>1, <3>2 DEF Inside
  <2>4. QED
    BY <2>2, <2>3
<1>2. Spec => [](TypeOK /\ Stored)
  BY TypeInit, TypeStep, StoredInit, StoredStep, PTL DEF Spec
<1>3. QED
  BY <1>1, <1>2, PTL DEF Spec, ComputesOncePerProcess
=============================================================================
