----------------------------- MODULE ItemProofs -----------------------------
(***************************************************************************)
(* The proofs about the items, in two parts that share nothing but the     *)
(* library.  The first is about ItemStore: the items stay unique, for any  *)
(* number of rows, names and concurrent creates, patches and deletes, with *)
(* any number of failures.  The second is about ItemListing: seeds are all *)
(* or nothing and lists complete, for any number of writers and clients.   *)
(***************************************************************************)
EXTENDS ItemStoreProperties, ItemListing, SequenceTheorems, FiniteSetTheorems, TLAPS

-----------------------------------------------------------------------------
(* ItemStore *)

Holds(r) == pending[r] # Nothing          \* a row of the table is r's
Wants(r) == Holds(r) /\ pending[r] # NoRow  \* and is to be pending[r]

Typed ==
  /\ table \in [Id -> Row \cup {NoRow}]
  /\ pc \in [Request -> {"idle", "checked", "loaded", "locked", "written", "answered", "done"}]
  /\ loaded \in [Request -> Row \cup {NoRow}]
  /\ pending \in [Request -> Row \cup {NoRow, Nothing}]
  /\ answer \in [Request -> Int]
  /\ committed \subseteq Request

\* A row and a name are in the hands of one request, and no other row has the name.
OneHolder ==
  /\ \A q, r \in Request : q # r /\ Holds(q) /\ Holds(r) => id(q) # id(r)
  /\ \A q, r \in Request : q # r /\ Wants(q) /\ Wants(r) => pending[q].name # pending[r].name
  /\ \A r \in Request : Wants(r) => ~Taken(id(r), pending[r].name)

\* What each place in a request implies of its row.
Places ==
  \A r \in Request :
    /\ Holds(r) => pc[r] \in {"locked", "written", "answered"}
    /\ Holds(r) /\ kind(r) # "create" => table[id(r)] # NoRow
    /\ pc[r] \in {"loaded", "locked"} => kind(r) = "patch" /\ loaded[r] \in Row
    /\ pc[r] = "locked" => pending[r] = table[id(r)] /\ pending[r] \in Row
    /\ pc[r] = "checked" => kind(r) \in {"create", "get"}
    /\ kind(r) = "create" /\ pc[r] # "done" => table[id(r)] = NoRow
    /\ kind(r) = "delete" /\ pc[r] \in {"written", "answered"} => pending[r] = NoRow
    /\ pc[r] = "answered" => answer[r] = Success(r)
    /\ pending[r] = NoRow => kind(r) = "delete"

\* A request that was committed was answered with success; a row that was
\* deleted is gone, with whoever made it.
Ends ==
  \A r \in committed :
    /\ pc[r] = "done" /\ answer[r] \in {200, 201, 204}
    /\ kind(r) = "delete" =>
         /\ table[id(r)] = NoRow
         /\ \A q \in Request : kind(q) = "create" /\ id(q) = id(r) => pc[q] = "done"

\* A row there was at the start is gone only by a delete that was committed.
DeletedBy(i) == \E q \in committed : kind(q) = "delete" /\ id(q) = i
Gone == \A i \in Id : InitTable[i] # NoRow /\ table[i] = NoRow => DeletedBy(i)

IInv == Typed /\ UniqueNames /\ OneHolder /\ Places /\ Ends /\ Gone

\* At the start the names are unique and nobody holds a row.
LEMMA InvInit == Init => IInv
<1> SUFFICES ASSUME Init PROVE IInv
  OBVIOUS
<1>1. Typed
  BY ConstantsAssumption DEF Init, Typed
<1>2. UniqueNames
  BY ConstantsAssumption DEF Init, UniqueNames
<1>3. OneHolder /\ Ends
  BY DEF Init, OneHolder, Ends, Holds, Wants
<1>4. Places
  BY OpAssumption, ConstantsAssumption DEF Init, Places, Holds, kind, id
<1>5. Gone
  BY DEF Init, Gone
<1>6. QED
  BY <1>1, <1>2, <1>3, <1>4, <1>5 DEF IInv

\* A step that changes no row, and in which r at most lets go of its own.
LEMMA InvQuiet ==
  ASSUME IInv, NEW r \in Request,
         table' = table, committed' = committed,
         pending' = [pending EXCEPT ![r] = Nothing] \/ pending' = pending,
         Typed', NEW loc, pc' = [pc EXCEPT ![r] = loc], pc[r] # "done",
         loc \in {"loaded", "locked"} => kind(r) = "patch" /\ loaded'[r] \in Row,
         loc = "locked" => pending'[r] = table[id(r)] /\ pending'[r] \in Row,
         loc = "checked" => kind(r) \in {"create", "get"},
         loc \in {"loaded", "checked", "done"} => ~Holds(r)',
         loc # "idle",
         kind(r) = "delete" /\ loc \in {"written", "answered"} => pending'[r] = NoRow,
         loc = "answered" => answer'[r] = Success(r),
         \A q \in Request \ {r} : loaded'[q] = loaded[q] /\ answer'[q] = answer[q]
  PROVE  IInv'
<1> USE DEF IInv, Holds, Wants
<1>1. UniqueNames'
  BY DEF UniqueNames
<1>2. \A q \in Request : /\ Holds(q)' => Holds(q) /\ pending'[q] = pending[q]
                         /\ q # r => pending'[q] = pending[q] /\ pc'[q] = pc[q]
  BY DEF Typed
<1>3. OneHolder'
  BY <1>2 DEF OneHolder, Taken
<1>4. pc'[r] = loc
  BY DEF Typed
<1>5. Places'
  BY <1>2, <1>4, ConstantsAssumption DEF Places, Typed, Success
<1>6. \A q \in committed : q # r
  BY DEF Ends
<1>7. Ends'
  BY <1>2, <1>4, <1>6 DEF Ends, Typed
<1>8. Gone'
  BY DEF Gone, DeletedBy
<1>9. QED
  BY <1>1, <1>3, <1>5, <1>7, <1>8

\* A request takes the row it is about: nobody else has it, and nobody else
\* has or wants the name it is to get.
LEMMA InvTake ==
  ASSUME IInv, NEW r \in Request, NEW row \in Row \cup {NoRow}, NEW loc,
         UNCHANGED <<table, loaded, answer, committed>>,
         pending' = [pending EXCEPT ![r] = row],
         pc' = [pc EXCEPT ![r] = loc], loc \in {"locked", "written"},
         pc[r] # "done",
         \A q \in Request \ {r} : Holds(q) => id(q) # id(r),
         kind(r) # "create" => table[id(r)] # NoRow,
         kind(r) = "delete" <=> row = NoRow,
         loc = "locked" => kind(r) = "patch" /\ loaded[r] \in Row /\ row = table[id(r)] /\ row \in Row,
         row # NoRow => /\ ~Taken(id(r), row.name)
                        /\ \A q \in Request \ {r} : Wants(q) => pending[q].name # row.name
  PROVE  IInv'
<1> USE DEF IInv, Holds, Wants
<1>1. Typed'
  BY DEF Typed
<1>2. UniqueNames'
  BY DEF UniqueNames
<1>3. /\ pending'[r] = row /\ pc'[r] = loc
      /\ \A q \in Request \ {r} : pending'[q] = pending[q] /\ pc'[q] = pc[q]
  BY DEF Typed
<1>4. row # Nothing
  BY ConstantsAssumption
<1>5. OneHolder'
  BY <1>3 DEF OneHolder, Taken
<1>6. Places'
  BY <1>3, <1>4 DEF Places, Typed, Success
<1>7. Ends'
  BY <1>3 DEF Ends
<1>8. Gone'
  BY DEF Gone, DeletedBy
<1>9. QED
  BY <1>1, <1>2, <1>5, <1>6, <1>7, <1>8

\* A request commits: the row becomes what it wants it to be.
LEMMA InvCommit == ASSUME IInv, NEW r \in Request, Commit(r) PROVE IInv'
<1> USE DEF IInv, Holds, Wants, Commit, Goto
<1>0. Op[r].id \in Id /\ \A q \in Request : id(q) \in Id
  BY OpAssumption DEF id
<1>1. Typed'
  BY <1>0 DEF Typed, id
<1>2. /\ pending'[r] = Nothing /\ pc'[r] = "done" /\ pc[r] = "answered"
      /\ \A q \in Request \ {r} : pending'[q] = pending[q] /\ pc'[q] = pc[q]
  BY DEF Typed
<1>3. /\ \A j \in Id : j # id(r) => table'[j] = table[j]
      /\ Holds(r) => table'[id(r)] = pending[r]
      /\ ~Holds(r) => table' = table
  BY <1>0 DEF Typed
<1>4. UniqueNames'
  BY <1>0, <1>3 DEF UniqueNames, OneHolder, Taken
<1>5. OneHolder'
  BY <1>0, <1>2, <1>3 DEF OneHolder, Taken
<1>6. \A q \in Request : kind(q) = "create" /\ pc'[q] # "done" => table'[id(q)] = NoRow
  <2>1. SUFFICES ASSUME NEW q \in Request, kind(q) = "create", pc'[q] # "done",
                        id(q) = id(r), Holds(r)
                 PROVE FALSE
    BY <1>0, <1>2, <1>3 DEF Places
  <2>2. q # r /\ table[id(r)] = NoRow
    BY <1>2, <2>1 DEF Places
  <2>3. kind(r) = "create"
    BY <2>1, <2>2 DEF Places
  <2>4. QED
    BY <2>1, <2>2, <2>3, OpAssumption DEF kind, id
<1>7. Places'
  <2>1. ASSUME NEW q \in Request \ {r}, Holds(q) PROVE table'[id(q)] = table[id(q)]
    BY <1>0, <1>3, <2>1 DEF OneHolder
  <2>2. \A q \in Request \ {r} : pc[q] = "locked" => Holds(q)
    BY ConstantsAssumption DEF Places
  <2>3. QED
    BY <1>2, <1>6, <2>1, <2>2, ConstantsAssumption DEF Places, Success
<1>8. \A q \in committed : q # r
  BY <1>2 DEF Ends
<1>9. ASSUME NEW q \in committed, kind(q) = "delete" PROVE table'[id(q)] = NoRow
  <2>1. table[id(q)] = NoRow
    BY <1>9 DEF Ends
  <2>2. CASE id(q) = id(r) /\ Holds(r)
    <3>1. kind(r) = "create"
      BY <2>1, <2>2 DEF Places
    <3>2. pc[r] = "done"
      BY <1>9, <2>2, <3>1 DEF Ends
    <3>3. QED
      BY <3>2, <1>2
  <2>3. CASE ~(id(q) = id(r) /\ Holds(r))
    BY <1>0, <1>3, <2>1, <2>3 DEF Typed
  <2>4. QED
    BY <2>2, <2>3
<1>10. answer[r] \in {200, 201, 204}
  BY <1>2 DEF Places, Success
<1>11. kind(r) = "delete" => Holds(r) /\ pending[r] = NoRow /\ table[id(r)] # NoRow
  BY <1>2, ConstantsAssumption DEF Places
<1>12. kind(r) = "delete" =>
         \A q \in Request : kind(q) = "create" /\ id(q) = id(r) => pc'[q] = "done"
  BY <1>2, <1>11 DEF Places
<1>13. Ends'
  BY <1>2, <1>3, <1>8, <1>9, <1>10, <1>11, <1>12 DEF Ends
<1>14. Gone'
  <2>1. ASSUME NEW i \in Id, InitTable[i] # NoRow, table'[i] = NoRow PROVE DeletedBy(i)'
    <3>1. CASE i = id(r) /\ Holds(r)
      BY <1>3, <2>1, <3>1 DEF Places, DeletedBy
    <3>2. CASE ~(i = id(r) /\ Holds(r))
      BY <1>3, <2>1, <3>2 DEF Gone, DeletedBy
    <3>3. QED
      BY <3>1, <3>2
  <2>2. QED
    BY <2>1 DEF Gone
<1>15. QED
  BY <1>1, <1>4, <1>5, <1>7, <1>13, <1>14

\* A transaction that ends without a commit gives back what it held.
LEMMA InvClose ==
  ASSUME IInv, NEW r \in Request, NEW status \in Int, pc[r] # "done", Close(r, status)
  PROVE  IInv'
<1>1. Typed' /\ ~Holds(r)' /\ \A q \in Request \ {r} : answer'[q] = answer[q]
  BY DEF IInv, Typed, Close, Goto, Holds
<1>2. QED
  BY <1>1, InvQuiet DEF Close, Goto

\* The steps that read, answer, fail or give up.
LEMMA InvOtherSteps ==
  ASSUME IInv, NEW r \in Request,
         \/ Check(r) \/ Load(r) \/ FlushNothing(r) \/ Deadlock(r)
         \/ Ask(r) \/ Get(r) \/ Answer(r) \/ Fail(r) \/ CommitFails(r)
  PROVE  IInv'
<1> DEFINE Closes == pc[r] # "done" /\ \E status \in Int : Close(r, status)
           Moves(loc) == UNCHANGED <<table, committed, pending>> /\ Goto(r, loc)
<1>0. /\ Holds(r) => pc[r] \in {"locked", "written", "answered"}
      /\ id(r) \in Id
  BY OpAssumption DEF IInv, Places, id
<1>1. CASE Closes
  BY <1>1, InvClose
<1>2. CASE kind(r) = "create" /\ pc[r] = "idle" /\ Moves("checked") /\ UNCHANGED <<loaded, answer>>
  <2>1. Typed' /\ ~Holds(r)'
    BY <1>0, <1>2 DEF IInv, Typed, Holds, Goto
  <2>2. QED
    BY <1>2, <2>1, InvQuiet DEF Goto
<1>3. CASE Load(r) /\ table[id(r)] # NoRow
  <2>1. Typed' /\ ~Holds(r)' /\ loaded'[r] \in Row
    BY <1>0, <1>3 DEF IInv, Typed, Holds, Goto, Load, Close
  <2>2. QED
    BY <1>3, <2>1, InvQuiet DEF Goto, Load, Close, IInv, Typed
<1>4. CASE FlushNothing(r) /\ table[id(r)] # NoRow
  <2>1. pending' = [pending EXCEPT ![r] = Nothing] /\ pc' = [pc EXCEPT ![r] = "written"]
    BY <1>4 DEF FlushNothing, Written, Goto
  <2>2. Typed' /\ UNCHANGED <<table, committed, loaded, answer>> /\ kind(r) = "patch" /\ pc[r] = "loaded"
    BY <1>4, <2>1 DEF FlushNothing, Written, IInv, Typed
  <2>3. QED
    BY <2>1, <2>2, InvQuiet
<1>5. CASE Ask(r)
  <2>1. Typed' /\ ~Holds(r)'
    BY <1>0, <1>5 DEF IInv, Typed, Holds, Goto, Ask
  <2>2. QED
    BY <1>5, <2>1, InvQuiet DEF Goto, Ask
<1>6. CASE Answer(r)
  <2>1. Typed' /\ answer'[r] = Success(r)
    BY <1>6 DEF IInv, Typed, Answer, Goto, Success
  <2>2. pending'[r] = NoRow \/ kind(r) # "delete"
    BY <1>6 DEF IInv, Places, Answer
  <2>3. \A q \in Request \ {r} : answer'[q] = answer[q]
    BY <1>6 DEF IInv, Typed, Answer
  <2>4. QED
    BY <1>6, <2>1, <2>2, <2>3, InvQuiet DEF Answer, Goto
<1>7. CASE CommitFails(r)
  <2>1. Typed' /\ ~Holds(r)'
    BY <1>7 DEF IInv, Typed, CommitFails, Goto, Holds
  <2>2. QED
    BY <1>7, <2>1, InvQuiet DEF CommitFails, Goto
<1>8. CASE Check(r)
  BY <1>1, <1>2, <1>8 DEF Check
<1>9. CASE Load(r) \/ FlushNothing(r)
  BY <1>1, <1>3, <1>4, <1>9 DEF Load, FlushNothing
<1>10. CASE Deadlock(r)
  BY <1>1, <1>10 DEF Deadlock, Waits
<1>11. CASE Get(r) \/ Fail(r)
  BY <1>1, <1>11 DEF Get, Fail
<1>12. QED
  BY <1>5, <1>6, <1>7, <1>8, <1>9, <1>10, <1>11

\* A create writes a row of its own under a name that nobody has or wants.
LEMMA InvInsert == ASSUME IInv, NEW r \in Request, Insert(r) PROVE IInv'
<1>1. CASE Close(r, 409)
  BY <1>1, InvClose DEF Insert
<1>2. CASE Written(r, sent(r)) /\ ~Taken(id(r), sent(r).name)
  <2>1. /\ kind(r) = "create" /\ pc[r] = "checked" /\ sent(r) \in Row
        /\ NameHolders(r, sent(r).name) = {}
    BY OpAssumption DEF Insert, kind, sent
  <2>2. \A q \in Request \ {r} : Holds(q) => id(q) # id(r)
    <3>1. \A q \in Request \ {r} : kind(q) = "create" => id(q) # id(r)
      BY <2>1, OpAssumption DEF kind, id
    <3>2. table[id(r)] = NoRow
      BY <2>1 DEF IInv, Places
    <3>3. QED
      BY <3>1, <3>2 DEF IInv, Places
  <2>3. sent(r) # NoRow
    BY <2>1, ConstantsAssumption
  <2>4. \A q \in Request \ {r} : Wants(q) => pending[q].name # sent(r).name
    BY <2>1 DEF NameHolders, Names, Holds, Wants
  <2>5. QED
    BY <1>2, <2>1, <2>2, <2>3, <2>4, InvTake DEF Written, Goto
<1>3. QED
  BY <1>1, <1>2 DEF Insert

\* A delete takes a row that nobody has.
LEMMA InvDelete == ASSUME IInv, NEW r \in Request, Delete(r) PROVE IInv'
<1>1. CASE Close(r, 404)
  BY <1>1, InvClose DEF Delete
<1>2. CASE Written(r, NoRow) /\ table[id(r)] # NoRow
  <2>1. kind(r) = "delete" /\ pc[r] = "idle" /\ \A q \in Request \ {r} : Holds(q) => id(q) # id(r)
    BY DEF Delete, RowHolders, Holds
  <2>2. QED
    BY <1>2, <2>1, InvTake DEF Written, Goto
<1>3. QED
  BY <1>1, <1>2 DEF Delete

\* A patch locks the row as it is, under the name that is the row's alone.
LEMMA InvLock == ASSUME IInv, NEW r \in Request, Lock(r) PROVE IInv'
<1>1. CASE Close(r, 500)
  BY <1>1, InvClose DEF Lock
<1>2. CASE ~Close(r, 500)
  <2> DEFINE row == table[id(r)]
  <2>1. /\ pc[r] = "loaded" /\ kind(r) = "patch" /\ row # NoRow
        /\ \A q \in Request \ {r} : Holds(q) => id(q) # id(r)
        /\ pending' = [pending EXCEPT ![r] = row] /\ pc' = [pc EXCEPT ![r] = "locked"]
        /\ UNCHANGED <<table, loaded, answer, committed>>
    BY <1>2 DEF Lock, RowHolders, Holds, Goto
  <2>2. id(r) \in Id /\ row \in Row /\ loaded[r] \in Row
    BY <2>1, OpAssumption DEF IInv, Typed, Places, id
  <2>3. ~Taken(id(r), row.name)
    BY <2>1, <2>2 DEF IInv, UniqueNames, Taken
  <2>4. \A q \in Request \ {r} : Wants(q) => pending[q].name # row.name
    BY <2>1, <2>2 DEF IInv, OneHolder, Taken, Wants
  <2>5. QED
    BY <2>1, <2>2, <2>3, <2>4, InvTake
<1>3. QED
  BY <1>1, <1>2

\* A patch that has its row writes it, under a name of its own.
LEMMA InvUpdate == ASSUME IInv, NEW r \in Request, Update(r) PROVE IInv'
<1>1. CASE Close(r, uncaught)
  BY <1>1, InvClose DEF Update, uncaught
<1>2. CASE ~Close(r, uncaught)
  <2> DEFINE row == [f \in DOMAIN pending[r] |-> IF f \in Changed(r) THEN New(r)[f] ELSE pending[r][f]]
  <2>1. /\ pc[r] = "locked" /\ Written(r, row)
        /\ \/ "name" \notin Changed(r)
           \/ NameHolders(r, row.name) = {} /\ ~Taken(id(r), row.name)
    BY <1>2 DEF Update
  <2>2. /\ kind(r) = "patch" /\ loaded[r] \in Row /\ pending[r] = table[id(r)]
        /\ pending[r] \in Row /\ id(r) \in Id /\ Wants(r) /\ table[id(r)] # NoRow
    BY <2>1, OpAssumption, ConstantsAssumption DEF IInv, Places, Wants, Holds, id
  <2>3. row \in Row
    <3>1. DOMAIN pending[r] = {"name", "text"} /\ DOMAIN loaded[r] = {"name", "text"}
      BY <2>2 DEF Row
    <3>2. /\ "name" \in Changed(r) => New(r)["name"] \in Name
          /\ "text" \in Changed(r) => New(r)["text"] \in Text
      BY <2>2, <3>1, OpAssumption DEF Changed, New, kind, sent
    <3>3. pending[r]["name"] \in Name /\ pending[r]["text"] \in Text
      BY <2>2 DEF Row
    <3>4. row["name"] \in Name /\ row["text"] \in Text
      BY <3>1, <3>2, <3>3
    <3>5. QED
      BY <3>1, <3>4 DEF Row
  <2>4. "name" \notin Changed(r) => row.name = pending[r].name
    BY <2>2 DEF Row
  <2>5. /\ \A q \in Request \ {r} : Holds(q) => id(q) # id(r)
        /\ ~Taken(id(r), row.name)
        /\ \A q \in Request \ {r} : Wants(q) => pending[q].name # row.name
    <3>1. CASE "name" \notin Changed(r)
      BY <2>2, <2>4, <3>1 DEF IInv, OneHolder, Wants
    <3>2. CASE "name" \in Changed(r)
      <4>1. NameHolders(r, row.name) = {} /\ ~Taken(id(r), row.name)
        BY <2>1, <3>2
      <4> HIDE DEF row
      <4>2. \A q \in Request \ {r} : Wants(q) => pending[q].name # row.name
        BY <4>1 DEF NameHolders, Names, Holds, Wants
      <4>3. \A q \in Request \ {r} : Holds(q) => id(q) # id(r)
        BY <2>2 DEF IInv, OneHolder, Wants
      <4>4. QED
        BY <4>1, <4>2, <4>3
    <3>3. QED
      BY <3>1, <3>2
  <2> HIDE DEF row
  <2>6. row # NoRow /\ kind(r) # "delete"
    BY <2>2, <2>3, ConstantsAssumption
  <2>7. QED
    BY <2>1, <2>2, <2>3, <2>5, <2>6, InvTake DEF Written, Goto
<1>3. QED
  BY <1>1, <1>2

\* Every step keeps the invariant, so every behaviour does.
LEMMA InvStep == IInv /\ [Next]_vars => IInv'
<1> SUFFICES ASSUME IInv, [Next]_vars PROVE IInv'
  OBVIOUS
<1>1. ASSUME NEW r \in Request, Serve(r) \/ Fail(r) \/ CommitFails(r) PROVE IInv'
  BY <1>1, InvOtherSteps, InvInsert, InvLock, InvUpdate, InvDelete, InvCommit DEF Serve
<1>2. CASE UNCHANGED vars
  BY <1>2 DEF vars, IInv, Typed, UniqueNames, OneHolder, Places, Ends, Gone, DeletedBy,
              Holds, Wants, Taken, Success
<1>3. QED
  BY <1>1, <1>2 DEF Next

LEMMA InvAlways == Spec => []IInv
  BY InvInit, InvStep, PTL DEF Spec

\* Two rows never have one name, whatever creates, patches and deletes run at
\* once and fail.
THEOREM NamesStayUnique == Spec => []UniqueNames
<1>1. IInv => UniqueNames
  BY DEF IInv
<1>2. QED
  BY <1>1, InvAlways, PTL

\* Only a commit commits.
LEMMA CommittedBy ==
  ASSUME NEW r \in Request, Serve(r) \/ Fail(r) \/ CommitFails(r), ~Commit(r)
  PROVE  committed' = committed
<1>1. CASE Check(r) \/ Insert(r) \/ Delete(r)
  BY <1>1 DEF Check, Insert, Delete, Close, Written
<1>2. CASE Load(r) \/ FlushNothing(r) \/ Lock(r)
  BY <1>2 DEF Load, FlushNothing, Lock, Close, Written
<1>3. CASE Update(r)
  BY <1>3 DEF Update, Close, Written
<1>4. CASE Deadlock(r) \/ Get(r) \/ Fail(r)
  BY <1>4 DEF Deadlock, Get, Fail, Close
<1>5. CASE Ask(r) \/ Answer(r) \/ CommitFails(r)
  BY <1>5 DEF Ask, Answer, CommitFails
<1>6. QED
  BY <1>1, <1>2, <1>3, <1>4, <1>5 DEF Serve

\* A request that was answered with a refusal or an error has changed nothing.
THEOREM RefusalsChangeNothing == Spec => []RefusedChangesNothing
<1>1. IInv => RefusedChangesNothing
  BY DEF IInv, Ends, RefusedChangesNothing
<1>2. QED
  BY <1>1, InvAlways, PTL

-----------------------------------------------------------------------------
(* Answers. *)

Statuses == {0, 200, 201, 204, 404, 409, 500}

Answered == answer \in [Request -> Statuses] /\ faults \in 0..MaxFaults

\* A step answers nobody but its own request.
LEMMA AnswerStep ==
  ASSUME NEW S, answer \in [Request -> S], NEW r \in Request, Serve(r) \/ Fail(r) \/ CommitFails(r)
  PROVE  /\ answer' = [answer EXCEPT ![r] = answer'[r]]
         /\ answer'[r] \in Statuses \cup {answer[r]}
<1>1. CASE Check(r) \/ Insert(r)
  BY <1>1 DEF Check, Insert, Close, Written, Statuses
<1>2. CASE Load(r) \/ FlushNothing(r) \/ Lock(r) \/ Delete(r)
  BY <1>2 DEF Load, FlushNothing, Lock, Delete, Close, Written, Statuses
<1>3. CASE Update(r)
  BY <1>3 DEF Update, uncaught, Close, Written, Statuses
<1>4. CASE Deadlock(r) \/ Get(r) \/ Fail(r)
  BY <1>4 DEF Deadlock, Get, Fail, Close, Statuses
<1>5. CASE Answer(r)
  BY <1>5 DEF Answer, Success, Statuses
<1>6. CASE Ask(r) \/ Commit(r) \/ CommitFails(r)
  BY <1>6 DEF Ask, Commit, CommitFails
<1>7. QED
  BY <1>1, <1>2, <1>3, <1>4, <1>5, <1>6 DEF Serve

\* Only a failure counts as one.
LEMMA FaultsStep ==
  ASSUME faults \in 0..MaxFaults, NEW r \in Request, Serve(r) \/ Fail(r) \/ CommitFails(r)
  PROVE  faults' \in 0..MaxFaults
<1>1. CASE Check(r) \/ Insert(r) \/ Delete(r)
  BY <1>1 DEF Check, Insert, Delete, Written
<1>2. CASE Load(r) \/ FlushNothing(r) \/ Lock(r)
  BY <1>2 DEF Load, FlushNothing, Lock, Written
<1>3. CASE Update(r)
  BY <1>3 DEF Update, Written
<1>4. CASE Deadlock(r) \/ Get(r) \/ Ask(r) \/ Answer(r) \/ Commit(r)
  BY <1>4 DEF Deadlock, Get, Ask, Answer, Commit
<1>5. CASE Fail(r) \/ CommitFails(r)
  BY <1>5, ConstantsAssumption DEF Fail, CommitFails
<1>6. QED
  BY <1>1, <1>2, <1>3, <1>4, <1>5 DEF Serve

\* Type correctness, and that a row is in the hands of one transaction.
THEOREM TypeCorrect == Spec => []TypeOK
<1>1. Init => Answered
  BY ConstantsAssumption DEF Init, Answered, Statuses
<1>2. Answered /\ [Next]_vars => Answered'
  <2> SUFFICES ASSUME Answered, [Next]_vars PROVE Answered'
    OBVIOUS
  <2>1. ASSUME NEW r \in Request, Serve(r) \/ Fail(r) \/ CommitFails(r) PROVE Answered'
    <3>1. /\ answer' = [answer EXCEPT ![r] = answer'[r]]
          /\ answer'[r] \in Statuses \cup {answer[r]}
      BY <2>1, AnswerStep DEF Answered
    <3>2. answer' \in [Request -> Statuses]
      BY <3>1 DEF Answered
    <3>3. faults' \in 0..MaxFaults
      BY <2>1, FaultsStep DEF Answered
    <3>4. QED
      BY <3>2, <3>3 DEF Answered
  <2>2. QED
    BY <2>1 DEF Next, vars, Answered
<1>3. IInv /\ Answered => TypeOK
  BY DEF IInv, Typed, Answered, Statuses, TypeOK, OneHolder, Places, Holds, RowHolders
<1>4. QED
  BY <1>1, <1>2, <1>3, InvAlways, PTL DEF Spec

\* One of the deletes of a row is committed; from then on the others are told
\* 404 or 500, and nobody is told 404 before (services/item.py:50-53).
THEOREM DeletedOnce == Spec => OneDeleteWins
<1> DEFINE deleted(r) == \E q \in committed \ {r} : kind(q) = "delete" /\ id(q) = id(r)
           Fair(r) == /\ Commits(r) => ~deleted(r)
                      /\ answer'[r] # answer[r] =>
                           /\ deleted(r) => answer'[r] \in {404, 500}
                           /\ answer'[r] = 404 /\ InitTable[id(r)] # NoRow => deleted(r)
<1>1. ASSUME IInv, [Next]_vars, NEW r \in Request, kind(r) = "delete" PROVE Fair(r)
  <2>1. pc[r] \in {"written", "answered"} => ~deleted(r)
    BY <1>1, ConstantsAssumption DEF IInv, Places, Ends, Holds
  <2>2. CASE committed' = committed /\ answer'[r] = answer[r]
    BY <2>2 DEF Commits
  <2>3. ASSUME NEW q \in Request \ {r}, Serve(q) \/ Fail(q) \/ CommitFails(q) PROVE Fair(r)
    <3>1. answer'[r] = answer[r]
      BY <1>1, <2>3, AnswerStep DEF IInv, Typed
    <3>2. r \notin committed' \ committed
      BY <2>3, CommittedBy DEF Commit
    <3>3. QED
      BY <3>1, <3>2 DEF Commits
  <2>4. CASE Commit(r)
    BY <2>1, <2>4 DEF Commit, Commits
  <2>5. CASE Answer(r)
    BY <1>1, <2>1, <2>5 DEF Answer, Success, Commits, IInv, Typed
  <2>6. CASE Delete(r)
    <3>1. committed' = committed /\ pc[r] = "idle"
      BY <2>6 DEF Delete, Close, Written
    <3>2. CASE table[id(r)] # NoRow
      BY <2>6, <3>1, <3>2 DEF Delete, Close, Written, Commits
    <3>3. CASE table[id(r)] = NoRow
      <4>1. answer'[r] = 404
        BY <1>1, <2>6, <3>3 DEF Delete, Close, IInv, Typed
      <4>2. InitTable[id(r)] # NoRow => DeletedBy(id(r))
        BY <1>1, <3>3, OpAssumption DEF IInv, Gone, id
      <4>3. r \notin committed
        BY <1>1, <3>1 DEF IInv, Ends
      <4>4. QED
        BY <3>1, <4>1, <4>2, <4>3 DEF DeletedBy, Commits
    <3>4. QED
      BY <3>2, <3>3
  <2>7. CASE Fail(r)
    BY <1>1, <2>7 DEF Fail, Close, Commits, IInv, Typed
  <2>8. CASE CommitFails(r)
    BY <2>2, <2>8 DEF CommitFails
  <2>9. ~(Check(r) \/ Insert(r) \/ Load(r) \/ FlushNothing(r) \/ Lock(r) \/ Update(r)
          \/ Deadlock(r) \/ Ask(r) \/ Get(r))
    BY <1>1 DEF Check, Insert, Load, FlushNothing, Lock, Update, Deadlock, Waits, Ask, Get, IInv, Places
  <2>10. CASE UNCHANGED vars
    BY <2>2, <2>10 DEF vars
  <2>11. QED
    BY <1>1, <2>3, <2>4, <2>5, <2>6, <2>7, <2>8, <2>9, <2>10 DEF Next, Serve
<1>2. IInv /\ [Next]_vars => \A r \in Request : kind(r) = "delete" => Fair(r)
  BY <1>1
<1>3. QED
  BY <1>2, InvAlways, PTL DEF Spec, OneDeleteWins

-----------------------------------------------------------------------------
(* Patches. *)

\* The fields a patch did not send are in its row as they are in the table: the
\* row was read again under its lock, and nobody else has it meanwhile.
Untouched(r, row) ==
  row \in Row /\ \A f \in {"name", "text"} \ DOMAIN sent(r) : row[f] = table[id(r)][f]

Patched == \A r \in Request : kind(r) = "patch" /\ Holds(r) => Untouched(r, pending[r])

\* No other row is in the hands of a request when it commits.
LEMMA CommitTable ==
  ASSUME IInv, NEW r \in Request, Commit(r)
  PROVE  /\ table'[id(r)] = IF Holds(r) THEN pending[r] ELSE table[id(r)]
         /\ \A q \in Request \ {r} : Holds(q) => table'[id(q)] = table[id(q)]
<1>1. id(r) \in Id /\ \A q \in Request : id(q) \in Id
  BY OpAssumption DEF id
<1>2. QED
  BY <1>1 DEF Commit, IInv, Typed, OneHolder, Holds

\* What a step that does not commit does to the rows that are written.
LEMMA PatchedQuiet ==
  ASSUME IInv, Patched, NEW r \in Request, Serve(r) \/ Fail(r) \/ CommitFails(r), ~Commit(r)
  PROVE  Patched'
<1> DEFINE Others == \A q \in Request \ {r} : pending'[q] = pending[q]
           Keeps  == Others /\ (kind(r) = "patch" /\ pending'[r] # Nothing => Untouched(r, pending'[r]))
<1>0. /\ pending = [q \in Request |-> pending[q]]
      /\ kind(r) = "patch" /\ pending[r] # Nothing => Untouched(r, pending[r])
  BY DEF IInv, Typed, Patched, Holds
<1>1. table' = table /\ Keeps
  <2>1. CASE Check(r) \/ Load(r) \/ FlushNothing(r) \/ Deadlock(r) \/ Get(r) \/ Fail(r)
    BY <1>0, <2>1 DEF Check, Load, FlushNothing, Deadlock, Get, Fail, Close, Written
  <2>2. CASE Ask(r) \/ Answer(r) \/ CommitFails(r)
    BY <1>0, <2>2 DEF Ask, Answer, CommitFails
  <2>3. CASE Insert(r) \/ Delete(r)
    BY <1>0, <2>3 DEF Insert, Delete, Close, Written
  <2>4. CASE Lock(r)
    <3>1. id(r) \in Id /\ (table[id(r)] # NoRow => table[id(r)] \in Row)
      BY OpAssumption DEF id, IInv, Typed
    <3>2. QED
      BY <1>0, <2>4, <3>1 DEF Lock, Close, Untouched
  <2>5. CASE Update(r)
    <3> DEFINE row == [f \in DOMAIN pending[r] |-> IF f \in Changed(r) THEN New(r)[f] ELSE pending[r][f]]
    <3>1. CASE Close(r, uncaught)
      BY <1>0, <2>5, <3>1 DEF Close, Update
    <3>2. CASE Written(r, row)
      <4>1. /\ kind(r) = "patch" /\ loaded[r] \in Row /\ pending[r] \in Row
            /\ pending[r] = table[id(r)]
        BY <2>5 DEF Update, IInv, Places
      <4>2. row \in Row
        <5>1. DOMAIN pending[r] = {"name", "text"} /\ DOMAIN loaded[r] = {"name", "text"}
          BY <4>1 DEF Row
        <5>2. /\ "name" \in Changed(r) => New(r)["name"] \in Name
              /\ "text" \in Changed(r) => New(r)["text"] \in Text
          BY <4>1, <5>1, OpAssumption DEF Changed, New, kind, sent
        <5>3. pending[r]["name"] \in Name /\ pending[r]["text"] \in Text
          BY <4>1 DEF Row
        <5>4. row["name"] \in Name /\ row["text"] \in Text
          BY <5>1, <5>2, <5>3
        <5>5. QED
          BY <5>1, <5>4 DEF Row
      <4>3. \A f \in {"name", "text"} \ DOMAIN sent(r) : row[f] = pending[r][f]
        BY <4>1 DEF Row, Changed
      <4>4. Untouched(r, row)
        BY <4>1, <4>2, <4>3 DEF Untouched
      <4> HIDE DEF row
      <4>5. QED
        BY <1>0, <3>2, <4>4 DEF Written
    <3>3. QED
      BY <2>5, <3>1, <3>2 DEF Update
  <2>6. QED
    BY <2>1, <2>2, <2>3, <2>4, <2>5 DEF Serve
<1>2. QED
  BY <1>1 DEF Patched, Holds, Untouched

LEMMA PatchedStep == IInv /\ Patched /\ [Next]_vars => Patched'
<1> SUFFICES ASSUME IInv, Patched, [Next]_vars PROVE Patched'
  OBVIOUS
<1>1. ASSUME NEW r \in Request, Commit(r) PROVE Patched'
  <2>1. /\ pending'[r] = Nothing
        /\ \A q \in Request \ {r} : pending'[q] = pending[q]
    BY <1>1 DEF Commit, IInv, Typed
  <2>2. \A q \in Request \ {r} : Holds(q) => table'[id(q)] = table[id(q)]
    BY <1>1, CommitTable
  <2>3. QED
    BY <2>1, <2>2 DEF Patched, Holds, Untouched
<1>2. CASE UNCHANGED vars
  BY <1>2 DEF vars, Patched, Holds, Untouched
<1>3. QED
  BY <1>1, <1>2, PatchedQuiet DEF Next

\* Whatever else patches, renames or deletes the row between a patch's read and
\* its commit, the fields it does not name stay as they were committed last, and
\* a row that was deleted stays deleted (services/item.py:44-48).
THEOREM PatchesKeepTheRest == Spec => OmittedFieldsUntouched
<1> DEFINE Kept(r) == \/ table'[id(r)] = table[id(r)]
                      \/ /\ table[id(r)] # NoRow
                         /\ \A f \in {"name", "text"} \ DOMAIN sent(r) :
                              table'[id(r)][f] = table[id(r)][f]
<1>1. Init => Patched
  BY DEF Init, Patched, Holds
<1>2. ASSUME IInv, Patched, [Next]_vars, NEW r \in Request, Commits(r), kind(r) = "patch"
      PROVE  Kept(r)
  <2>1. CASE Commit(r)
    BY <1>2, <2>1, CommitTable DEF Patched, Untouched, IInv, Places
  <2>2. CASE ~Commit(r)
    <3>1. PICK q \in Request : Serve(q) \/ Fail(q) \/ CommitFails(q)
      BY <1>2 DEF Next, vars, Commits
    <3>2. q = r \/ ~Commit(q)
      BY <1>2 DEF Commit, Commits
    <3>3. committed' = committed
      BY <2>2, <3>1, <3>2, CommittedBy
    <3>4. QED
      BY <1>2, <3>3 DEF Commits
  <2>3. QED
    BY <2>1, <2>2
<1>3. IInv /\ Patched /\ [Next]_vars =>
        (\A r \in Request : Commits(r) /\ kind(r) = "patch" => Kept(r))
  BY <1>2
<1>4. QED
  BY <1>1, <1>3, PatchedStep, InvAlways, PTL DEF Spec, OmittedFieldsUntouched

-----------------------------------------------------------------------------
(* ItemListing *)

ListedRow == [name : SeedName, born : Nat, by : Writer]
Entry == [ins : SUBSET ListedRow, del : SUBSET ListedRow]

\* The table after the first k commits of l.
RowsOf(l, k) == (UNION {l[i].ins : i \in 1..k}) \ (UNION {l[i].del : i \in 1..k})

Inserted == UNION {log[i].ins : i \in DOMAIN log}
UniqueIn(rs) == \A x, y \in rs : x.name = y.name => x = y

ListTyped ==
  /\ log \in Seq(Entry) /\ applied \in 0..Len(log)
  /\ clock \in Nat
  /\ place \in [Writer -> {"idle", "open", "failed", "done"}]
  /\ todo \in [Writer -> Seq(SeedName)]
  /\ added \in [Writer -> SeedName \cup {NoName}]
  /\ rows \in [Writer -> SUBSET ListedRow]
  /\ born \in [Writer -> Nat]
  /\ page \in [Reader -> {"idle", "counting", "done"}]
  /\ offset \in [Reader -> Nat]
  /\ seen \in [Reader -> SUBSET ListedRow]
  /\ from \in [Reader -> Nat] /\ upto \in [Reader -> Nat]
  /\ \A w \in Writer : IsFiniteSet(rows[w])

\* Of the commits: the table was finite with unique names after each of them, and
\* no row is of a time to come.
LogOK ==
  /\ \A k \in 0..Len(log) : IsFiniteSet(RowsOf(log, k)) /\ UniqueIn(RowsOf(log, k))
  /\ \A x \in Inserted : x.born <= clock
  /\ \A w \in Writer : born[w] <= clock

Unlisted(w) == \A x \in Inserted : ~(x.by = w /\ x.born = born[w])
Listed(w) == ToSet(Seed[w]) \subseteq NamesOf(Inserted)

\* Of an open transaction: what it has inserted is its own and nobody else's
\* name, and each of its names is still to come, inserted, or was there.
OpenOK(w) ==
  /\ UniqueIn(rows[w])
  /\ \A x \in rows[w] : x.by = w /\ x.born = born[w]
  /\ NamesOf(rows[w]) \cap NamesOf(Committed) = {}
  /\ ToSet(todo[w]) \cap NamesOf(rows[w]) = {}
  /\ added[w] \notin ToSet(todo[w]) \cup NamesOf(rows[w])
  /\ IsInjective(todo[w])
  /\ ToSet(Seed[w]) \subseteq ToSet(todo[w]) \cup {added[w]} \cup NamesOf(rows[w]) \cup NamesOf(Inserted)

WriterOK(w) ==
  /\ place[w] # "open" => added[w] = NoName
  /\ place[w] = "idle" => todo[w] = Seed[w] /\ rows[w] = {}
  /\ place[w] = "open" => OpenOK(w)
  /\ place[w] \in {"open", "failed"} => Unlisted(w)
  /\ place[w] = "done" => Listed(w)

Apart(v, w) ==
  place[v] = "open" /\ place[w] = "open" => NamesOf(rows[v]) \cap NamesOf(rows[w]) = {}

WritersOK ==
  /\ \A w \in Writer : WriterOK(w)
  /\ \A v, w \in Writer : v # w => Apart(v, w)

\* How many rows of rs come before x; whether another one shares its time.
Rank(rs, x) == Cardinality({y \in rs : y.born > x.born})
Shares(rs, x) == \E y \in rs \ {x} : y.born = x.born

\* Why nobody misses x, in a list that began after f commits and is at the k-th.
Excused(l, s, f, k, x) ==
  \/ x \in s
  \/ \E i \in (f + 1)..k : l[i].del # {}
  \/ Shares(RowsOf(l, k), x)

\* The row is still to come: at least o rows come before it.
Ahead(l, s, f, k, o) ==
  \A x \in RowsOf(l, f) : Excused(l, s, f, k, x) \/ Rank(RowsOf(l, k), x) >= o

ReaderOK(r) ==
  /\ from[r] <= get_read_session /\ upto[r] <= get_read_session
  /\ page[r] = "idle" /\ offset[r] > 0 =>
       Ahead(log, seen[r], from[r], get_read_session, offset[r])
  /\ page[r] = "counting" =>
       Ahead(log, seen[r], from[r], get_read_session, offset[r] + Limit)
  /\ page[r] = "done" =>
       \A x \in RowsOf(log, from[r]) : Excused(log, seen[r], from[r], upto[r], x)

ListInv ==
  /\ ListTyped /\ LogOK /\ WritersOK
  /\ \A r \in Reader : ReaderOK(r)

-----------------------------------------------------------------------------
\* What a commit adds to a log: the earlier tables stay what they were, and
\* unless it deletes, no row goes.
LEMMA RowsAppend ==
  ASSUME NEW l, NEW n \in Nat, NEW m, NEW e,
         \A i \in 1..n : m[i] = l[i], m[n + 1] = e
  PROVE  /\ \A k \in 0..n : RowsOf(m, k) = RowsOf(l, k)
         /\ RowsOf(m, n + 1) \subseteq RowsOf(l, n) \cup e.ins
<1>1. \A k \in 0..n : RowsOf(m, k) = RowsOf(l, k)
  <2> TAKE k \in 0..n
  <2>1. \A i \in 1..k : m[i] = l[i]
    OBVIOUS
  <2>2. UNION {m[i].ins : i \in 1..k} = UNION {l[i].ins : i \in 1..k}
    BY <2>1
  <2>3. UNION {m[i].del : i \in 1..k} = UNION {l[i].del : i \in 1..k}
    BY <2>1
  <2>4. QED
    BY <2>2, <2>3 DEF RowsOf
<1>2. RowsOf(m, n + 1) \subseteq RowsOf(l, n) \cup e.ins
  <2> SUFFICES ASSUME NEW x \in RowsOf(m, n + 1), x \notin e.ins
               PROVE  x \in RowsOf(l, n)
    OBVIOUS
  <2>1. PICK i \in 1..n + 1 : x \in m[i].ins
    BY DEF RowsOf
  <2>2. i \in 1..n /\ x \in l[i].ins
    BY <2>1
  <2>3. \A j \in 1..n : x \notin l[j].del
    BY DEF RowsOf
  <2>4. QED
    BY <2>2, <2>3 DEF RowsOf
<1>3. QED
  BY <1>1, <1>2

\* The rows of an earlier table are in a later one when nothing was deleted
\* between the two.
LEMMA RowsStay ==
  ASSUME NEW l, NEW j \in Nat, NEW k \in Nat, j <= k,
         \A i \in (j + 1)..k : l[i].del = {}
  PROVE  RowsOf(l, j) \subseteq RowsOf(l, k)
<1> SUFFICES ASSUME NEW x \in RowsOf(l, j)
             PROVE  x \in RowsOf(l, k)
  OBVIOUS
<1>1. PICK i \in 1..j : x \in l[i].ins
  BY DEF RowsOf
<1>2. i \in 1..k
  BY <1>1
<1>3. ASSUME NEW n \in 1..k PROVE x \notin l[n].del
  <2>1. CASE n <= j
    BY <2>1 DEF RowsOf
  <2>2. CASE n > j
    <3>1. l[n].del = {}
      BY <2>2
    <3>2. QED
      BY <3>1
  <2>3. QED
    BY <2>1, <2>2
<1>4. QED
  BY <1>1, <1>2, <1>3 DEF RowsOf

\* What was in the table was inserted.
LEMMA RowsInserted ==
  ASSUME ListTyped
  PROVE  /\ \A k \in 0..Len(log) : RowsOf(log, k) \subseteq Inserted
         /\ Inserted \subseteq ListedRow
         /\ Committed = RowsOf(log, Len(log))
         /\ Len(log) \in Nat
<1>1. log \in Seq(Entry) /\ Len(log) \in Nat /\ DOMAIN log = 1..Len(log)
  BY LenProperties DEF ListTyped
<1>2. Inserted \subseteq ListedRow
  <2>1. \A i \in DOMAIN log : log[i] \in Entry
    BY <1>1, ElementOfSeq
  <2>2. \A i \in DOMAIN log : log[i].ins \subseteq ListedRow
    BY <2>1 DEF Entry
  <2>3. QED
    BY <2>2 DEF Inserted
<1>3. \A k \in 0..Len(log) : RowsOf(log, k) \subseteq Inserted
  BY <1>1 DEF Inserted, RowsOf
<1>4. QED
  BY <1>1, <1>2, <1>3 DEF Committed, RowsAt, RowsOf

-----------------------------------------------------------------------------
\* With more rows, no fewer of them come before x.
LEMMA RankGrows ==
  ASSUME NEW ss, IsFiniteSet(ss), NEW rs, rs \subseteq ss, NEW x
  PROVE  Rank(rs, x) \in Nat /\ Rank(ss, x) \in Nat /\ Rank(rs, x) <= Rank(ss, x)
<1> DEFINE big == {y \in ss : y.born > x.born}
           small == {y \in rs : y.born > x.born}
<1>1. IsFiniteSet(big)
  BY FS_Subset
<1>2. small \subseteq big
  OBVIOUS
<1> HIDE DEF big, small
<1>3. IsFiniteSet(small) /\ Cardinality(small) <= Cardinality(big)
  BY <1>1, <1>2, FS_Subset
<1>4. Cardinality(small) \in Nat /\ Cardinality(big) \in Nat
  BY <1>1, <1>3, FS_CardinalityType
<1>5. QED
  BY <1>3, <1>4 DEF Rank, big, small

\* A set that x is not in, and that has whatever comes before x, is as large as
\* the rank of x at least; one that only has what comes before x, at most.
LEMMA RankBetween ==
  ASSUME NEW rs, IsFiniteSet(rs), NEW x
  PROVE  /\ \A s \in SUBSET rs : (\A y \in s : y.born > x.born) => Cardinality(s) <= Rank(rs, x)
         /\ \A s \in SUBSET rs : x \in s /\ x.born \in Nat /\ (\A y \in rs \ s : ~(y.born > x.born))
              => Rank(rs, x) < Cardinality(s)
<1> DEFINE before == {y \in rs : y.born > x.born}
<1>1. IsFiniteSet(before) /\ before \subseteq rs
  BY FS_Subset
<1>2. Rank(rs, x) = Cardinality(before)
  BY DEF Rank
<1>3. ASSUME NEW s \in SUBSET rs, \A y \in s : y.born > x.born
      PROVE  Cardinality(s) <= Rank(rs, x)
  <2>1. s \subseteq before
    BY <1>3
  <2> HIDE DEF before
  <2>2. QED
    BY <1>1, <1>2, <2>1, FS_Subset
<1>4. ASSUME NEW s \in SUBSET rs, x \in s, x.born \in Nat, \A y \in rs \ s : ~(y.born > x.born)
      PROVE  Rank(rs, x) < Cardinality(s)
  <2>1. before \subseteq s \ {x}
    BY <1>4
  <2> HIDE DEF before
  <2>2. IsFiniteSet(s) /\ Cardinality(s) \in Nat
    BY FS_Subset, FS_CardinalityType
  <2> DEFINE others == s \ {x}
  <2>3. IsFiniteSet(others) /\ Cardinality(others) = Cardinality(s) - 1
    BY <1>4, <2>2, FS_RemoveElement
  <2> HIDE DEF others
  <2>4. before \subseteq others
    BY <2>1 DEF others
  <2>5. Cardinality(before) <= Cardinality(others) /\ Cardinality(before) \in Nat
    BY <1>1, <2>3, <2>4, FS_Subset, FS_CardinalityType
  <2>6. QED
    BY <1>2, <2>2, <2>3, <2>5
<1>5. QED
  BY <1>3, <1>4

\* A row that a page leaves out, of those no earlier page had, comes after the
\* whole page.
LEMMA PageThenAhead ==
  ASSUME NEW rs \in SUBSET ListedRow, IsFiniteSet(rs), NEW o \in Nat, NEW p \in list(rs, o),
         NEW x \in rs, ~Shares(rs, x), Rank(rs, x) >= o, x \notin p
  PROVE  Rank(rs, x) >= o + Limit
<1> DEFINE n == Cardinality(rs)
           skipped == Least(o, n)
           length == Least(Limit, n - skipped)
<1>1. n \in Nat /\ Limit \in Nat
  BY FS_CardinalityType, ListAssumption
<1>2. /\ skipped \in Nat /\ skipped <= o /\ skipped <= n
      /\ length \in Nat /\ length <= n - skipped
      /\ skipped # o => skipped = n
      /\ length # Limit => length = n - skipped
  BY <1>1 DEF Least
<1>3. PICK b \in SUBSET (rs \ p) :
        /\ Cardinality(b) = skipped
        /\ \A z \in b, y \in rs \ b : z.born >= y.born
        /\ \A z \in p, y \in rs \ (b \cup p) : z.born >= y.born
  BY DEF list
<1>4. p \in SUBSET rs /\ Cardinality(p) = length
  BY DEF list
<1> HIDE DEF n, skipped, length
<1>5. \A y \in rs : y.born \in Nat
  BY DEF ListedRow
<1>6. x \notin b
  <2> SUFFICES ASSUME x \in b PROVE FALSE
    OBVIOUS
  <2>1. \A y \in rs \ b : ~(y.born > x.born)
    BY <1>3, <1>5
  <2>2. Rank(rs, x) < Cardinality(b)
    BY <1>5, <2>1, RankBetween
  <2>3. Rank(rs, x) \in Nat
    BY RankGrows
  <2>4. QED
    BY <1>2, <1>3, <2>2, <2>3
<1> DEFINE read == b \cup p
<1>7. \A y \in read : y.born > x.born
  <2>1. \A y \in read : y.born >= x.born /\ y # x /\ y \in rs
    BY <1>3, <1>4, <1>6
  <2>2. QED
    BY <1>5, <2>1 DEF Shares
<1>8. Cardinality(read) = skipped + length
  <2>1. IsFiniteSet(b) /\ IsFiniteSet(p)
    BY <1>3, <1>4, FS_Subset
  <2>2. b \cap p = {}
    BY <1>3
  <2>3. Cardinality(b \cup p) = Cardinality(b) + Cardinality(p) - Cardinality(b \cap p)
    BY <2>1, FS_Union
  <2>4. Cardinality(b \cap p) = 0
    BY <2>2, FS_EmptySet
  <2>5. QED
    BY <1>2, <1>3, <1>4, <2>3, <2>4
<1>9. read \in SUBSET rs /\ x \notin read
  BY <1>4, <1>6
<1> HIDE DEF read
<1>10. Cardinality(read) <= Rank(rs, x) /\ Rank(rs, x) \in Nat
  BY <1>7, <1>9, RankBetween, RankGrows
<1>11. Cardinality(read) < n
  <2>1. Cardinality(read) <= n /\ (Cardinality(read) = n => read = rs)
    BY <1>9, FS_Subset DEF n
  <2>2. QED
    BY <1>1, <1>2, <1>8, <1>9, <2>1
<1>12. QED
  BY <1>1, <1>2, <1>8, <1>10, <1>11

-----------------------------------------------------------------------------
\* The log at most grows, and so does the part of it that a list is read from.
Grows ==
  /\ Len(log) <= Len(log')
  /\ \A i \in 1..Len(log) : log'[i] = log[i]
  /\ \A k \in 0..Len(log) : RowsOf(log', k) = RowsOf(log, k)
  /\ get_read_session <= get_read_session'

\* What a list is read from has been committed.
LEMMA ReadsCommitted ==
  ASSUME ListTyped
  PROVE  get_read_session \in 0..Len(log) /\ Len(log) \in Nat
<1>1. Len(log) \in Nat
  BY LenProperties DEF ListTyped
<1>2. QED
  BY <1>1, ListAssumption DEF ListTyped, get_read_session

\* A commit that inserts what is new of name, and finite, or that deletes.
LEMMA LogAppends ==
  ASSUME ListTyped, LogOK, NEW e \in Entry, log' = Append(log, e),
         UNCHANGED <<applied, clock, born>>,
         IsFiniteSet(e.ins), UniqueIn(Committed \cup e.ins),
         \A x \in e.ins : x.born <= clock
  PROVE  /\ LogOK' /\ Grows
         /\ log' \in Seq(Entry) /\ applied' \in 0..Len(log')
         /\ Inserted' = Inserted \cup e.ins
         /\ Committed' \subseteq Committed \cup e.ins
<1> DEFINE n == Len(log)
<1>1. log \in Seq(Entry) /\ n \in Nat /\ DOMAIN log = 1..n /\ applied \in 0..n
  BY LenProperties DEF ListTyped
<1>2. /\ log' \in Seq(Entry) /\ Len(log') = n + 1
      /\ \A i \in 1..n : log'[i] = log[i]
      /\ log'[n + 1] = e
      /\ \A k \in 0..n : RowsOf(log', k) = RowsOf(log, k)
      /\ RowsOf(log', Len(log')) \subseteq RowsOf(log, n) \cup e.ins
  <2>1. /\ log' \in Seq(Entry) /\ Len(log') = n + 1
        /\ \A i \in 1..n : log'[i] = log[i]
        /\ log'[n + 1] = e
    BY <1>1, AppendProperties
  <2> HIDE DEF n
  <2>2. QED
    BY <1>1, <2>1, RowsAppend
<1>3. DOMAIN log' = 1..(n + 1)
  BY <1>2, LenProperties
<1>4. Committed = RowsOf(log, n) /\ Committed' = RowsOf(log', Len(log'))
  BY DEF Committed, RowsAt, RowsOf
<1> HIDE DEF n
<1>5. Inserted' = Inserted \cup e.ins
  <2>1. Inserted = UNION {log[i].ins : i \in 1..n}
    BY <1>1 DEF Inserted
  <2>2. Inserted' = UNION {log'[i].ins : i \in 1..(n + 1)}
    BY <1>3 DEF Inserted
  <2>3. 1..(n + 1) = (1..n) \cup {n + 1}
    BY <1>1
  <2>4. Inserted' \subseteq Inserted \cup e.ins
    <3>1. ASSUME NEW i \in 1..(n + 1) PROVE log'[i].ins \subseteq Inserted \cup e.ins
      <4>1. CASE i = n + 1
        BY <1>2, <4>1
      <4>2. CASE i \in 1..n
        BY <1>2, <2>1, <4>2
      <4>3. QED
        BY <2>3, <4>1, <4>2
    <3>2. QED
      BY <2>2, <3>1
  <2>5. e.ins \subseteq Inserted'
    BY <1>2, <2>2, <2>3
  <2>6. Inserted \subseteq Inserted'
    <3>1. ASSUME NEW i \in 1..n PROVE log[i].ins \subseteq Inserted'
      <4>1. log'[i].ins = log[i].ins /\ i \in 1..(n + 1)
        BY <1>2, <2>3
      <4>2. QED
        BY <2>2, <4>1
    <3>2. QED
      BY <2>1, <3>1
  <2>7. QED
    BY <2>4, <2>5, <2>6
<1>6. LogOK'
  <2>1. ASSUME NEW k \in 0..(n + 1)
        PROVE  IsFiniteSet(RowsOf(log', k)) /\ UniqueIn(RowsOf(log', k))
    <3>1. CASE k \in 0..n
      BY <1>2, <3>1 DEF LogOK, n
    <3>2. CASE k = n + 1
      <4>1. RowsOf(log', k) \subseteq Committed \cup e.ins
        BY <1>2, <1>4, <3>2
      <4>2. IsFiniteSet(Committed)
        BY <1>1, <1>4 DEF LogOK, n
      <4> HIDE DEF Committed
      <4>3. IsFiniteSet(Committed \cup e.ins)
        BY <4>2, FS_Union
      <4>4. IsFiniteSet(RowsOf(log', k))
        BY <4>1, <4>3, FS_Subset
      <4>5. UniqueIn(RowsOf(log', k))
        BY <4>1 DEF UniqueIn
      <4>6. QED
        BY <4>4, <4>5
    <3>3. QED
      BY <1>1, <3>1, <3>2
  <2>2. QED
    BY <1>2, <1>5, <2>1 DEF LogOK
<1>7. Grows
  <2>1. get_read_session <= get_read_session'
    BY <1>1, <1>2 DEF get_read_session, n
  <2>2. QED
    BY <1>1, <1>2, <2>1 DEF Grows, n
<1>8. QED
  BY <1>1, <1>2, <1>4, <1>5, <1>6, <1>7

\* A step that commits nothing.
LEMMA LogSame ==
  ASSUME ListTyped, LogOK, log' = log, UNCHANGED applied \/ applied' = applied + 1,
         clock' \in Nat, clock <= clock', \A w \in Writer : born'[w] <= clock'
  PROVE  LogOK' /\ Grows /\ Inserted' = Inserted /\ Committed' = Committed
<1>1. Inserted' = Inserted /\ Committed' = Committed
  BY DEF Inserted, Committed, RowsAt
<1>2. \A x \in Inserted : x.born \in Nat
  BY RowsInserted DEF ListedRow
<1>3. clock \in Nat
  BY DEF ListTyped
<1>4. LogOK'
  <2>1. \A x \in Inserted' : x.born <= clock'
    BY <1>1, <1>2, <1>3 DEF LogOK
  <2>3. \A k \in 0..Len(log') : IsFiniteSet(RowsOf(log', k)) /\ UniqueIn(RowsOf(log', k))
    BY DEF LogOK
  <2>4. QED
    BY <2>1, <2>3 DEF LogOK
<1>5. Grows
  <2>1. Len(log) \in Nat /\ applied \in Nat
    BY LenProperties DEF ListTyped
  <2>2. QED
    BY <2>1 DEF Grows, get_read_session, RowsOf
<1>6. QED
  BY <1>1, <1>4, <1>5

\* What is still to come stays so, or is excused, while the table moves on.
LEMMA AheadLater ==
  ASSUME NEW l, NEW m, NEW s, NEW f \in Nat, NEW k \in Nat, NEW j \in Nat, NEW o \in Nat,
         f <= k, k <= j,
         \A i \in 1..k : m[i] = l[i], \A i \in 0..k : RowsOf(m, i) = RowsOf(l, i),
         IsFiniteSet(RowsOf(m, j)),
         Ahead(l, s, f, k, o)
  PROVE  Ahead(m, s, f, j, o)
<1> SUFFICES ASSUME NEW x \in RowsOf(m, f), ~Excused(m, s, f, j, x)
             PROVE  Rank(RowsOf(m, j), x) >= o
  BY DEF Ahead
<1>1. \A i \in (f + 1)..j : m[i].del = {}
  BY DEF Excused
<1>2. RowsOf(m, k) \subseteq RowsOf(m, j)
  <2>1. \A i \in (k + 1)..j : m[i].del = {}
    BY <1>1
  <2>2. QED
    BY <2>1, RowsStay
<1>3. x \in RowsOf(l, f) /\ RowsOf(l, k) = RowsOf(m, k)
  OBVIOUS
<1>4. ~Excused(l, s, f, k, x)
  <2>1. x \notin s
    BY DEF Excused
  <2>2. \A i \in (f + 1)..k : l[i].del = {}
    BY <1>1
  <2>3. ~Shares(RowsOf(l, k), x)
    BY <1>2, <1>3 DEF Excused, Shares
  <2>4. QED
    BY <2>1, <2>2, <2>3 DEF Excused
<1>5. Rank(RowsOf(l, k), x) >= o
  BY <1>3, <1>4 DEF Ahead
<1>6. /\ Rank(RowsOf(m, k), x) \in Nat /\ Rank(RowsOf(m, j), x) \in Nat
      /\ Rank(RowsOf(m, k), x) <= Rank(RowsOf(m, j), x)
  BY <1>2, RankGrows
<1>7. QED
  BY <1>3, <1>5, <1>6

\* Whoever has come to the end of a list is not concerned by later commits.
LEMMA ExcusedStays ==
  ASSUME NEW l, NEW m, NEW s, NEW f, NEW k \in Nat, f \in Nat, NEW x,
         \A i \in 1..k : m[i] = l[i], RowsOf(m, k) = RowsOf(l, k),
         Excused(l, s, f, k, x)
  PROVE  Excused(m, s, f, k, x)
<1>1. \A i \in (f + 1)..k : m[i] = l[i]
  OBVIOUS
<1>2. QED
  BY <1>1 DEF Excused

\* Writers and the replica do not make a client miss a row.
LEMMA ReaderKeeps ==
  ASSUME ListTyped, LogOK, ListTyped', LogOK', Grows, NEW r \in Reader, ReaderOK(r),
         page'[r] = page[r], offset'[r] = offset[r], seen'[r] = seen[r],
         from'[r] = from[r], upto'[r] = upto[r]
  PROVE  ReaderOK(r)'
<1> DEFINE k == get_read_session
           j == get_read_session'
           o == offset[r]
<1>1. /\ k \in 0..Len(log) /\ Len(log) \in Nat
      /\ from[r] \in Nat /\ upto[r] \in Nat /\ o \in Nat /\ Limit \in Nat
  BY ReadsCommitted, ListAssumption DEF ListTyped
<1>2. j \in 0..Len(log') /\ Len(log') \in Nat /\ k <= j
  <2>1. ListTyped' => j \in 0..Len(log') /\ Len(log') \in Nat
    <3>1. ListTyped' => Len(log') \in Nat
      BY LenProperties DEF ListTyped
    <3>2. QED
      BY <3>1, ListAssumption DEF ListTyped, get_read_session
  <2>2. QED
    BY <2>1 DEF Grows
<1>3. from[r] <= k /\ upto[r] <= k
  BY DEF ReaderOK
<1>4. /\ \A i \in 1..k : log'[i] = log[i]
      /\ \A i \in 0..k : RowsOf(log', i) = RowsOf(log, i)
      /\ IsFiniteSet(RowsOf(log', j))
  BY <1>1, <1>2 DEF Grows, LogOK
<1> HIDE DEF k, j, o
<1>5. ASSUME NEW n \in Nat, Ahead(log, seen[r], from[r], k, n)
      PROVE  Ahead(log', seen[r], from[r], j, n)
  <2>1. k \in Nat /\ j \in Nat /\ from[r] \in Nat /\ from[r] <= k /\ k <= j
    BY <1>1, <1>2, <1>3
  <2>2. QED
    BY ONLY <1>4, <1>5, <2>1, AheadLater
<1>6. ASSUME \A x \in RowsOf(log, from[r]) : Excused(log, seen[r], from[r], upto[r], x)
      PROVE  \A x \in RowsOf(log', from[r]) : Excused(log', seen[r], from[r], upto[r], x)
  <2> TAKE x \in RowsOf(log', from[r])
  <2>1. Excused(log, seen[r], from[r], upto[r], x)
    BY <1>1, <1>3, <1>4, <1>6
  <2>2. /\ \A i \in 1..upto[r] : log'[i] = log[i]
        /\ RowsOf(log', upto[r]) = RowsOf(log, upto[r])
    BY <1>1, <1>3, <1>4
  <2>3. QED
    BY <1>1, <2>1, <2>2, ExcusedStays
<1>7. from[r] <= j /\ upto[r] <= j
  BY <1>1, <1>2, <1>3
<1>8. ASSUME page[r] = "idle", o > 0 PROVE Ahead(log', seen[r], from[r], j, o)
  BY <1>1, <1>5, <1>8 DEF ReaderOK, k, o
<1>9. ASSUME page[r] = "counting" PROVE Ahead(log', seen[r], from[r], j, o + Limit)
  <2>1. o + Limit \in Nat
    BY <1>1
  <2>2. Ahead(log, seen[r], from[r], k, o + Limit)
    BY <1>9 DEF ReaderOK, k, o
  <2>3. QED
    BY <1>5, <2>1, <2>2
<1>10. ASSUME page[r] = "done"
       PROVE  \A x \in RowsOf(log', from[r]) : Excused(log', seen[r], from[r], upto[r], x)
  BY <1>6, <1>10 DEF ReaderOK
<1>11. QED
  BY <1>7, <1>8, <1>9, <1>10 DEF ReaderOK, j, o

\* So for all of them at once.
LEMMA ReadersKeep ==
  ASSUME ListInv, ListTyped', LogOK', Grows, UNCHANGED readers
  PROVE  \A r \in Reader : ReaderOK(r)'
<1> TAKE r \in Reader
<1>1. /\ page'[r] = page[r] /\ offset'[r] = offset[r] /\ seen'[r] = seen[r]
      /\ from'[r] = from[r] /\ upto'[r] = upto[r]
  BY DEF readers
<1>2. QED
  BY <1>1, ReaderKeeps DEF ListInv

-----------------------------------------------------------------------------
\* The names of a sequence without its first.
LEMMA FirstAndRest ==
  ASSUME NEW S, NEW s \in Seq(S), s # <<>>
  PROVE  /\ Head(s) \in S /\ Tail(s) \in Seq(S)
         /\ ToSet(s) = {Head(s)} \cup ToSet(Tail(s))
         /\ IsInjective(s) => IsInjective(Tail(s)) /\ Head(s) \notin ToSet(Tail(s))
<1>1. /\ Head(s) \in S /\ Tail(s) \in Seq(S) /\ Head(s) = s[1]
      /\ Len(Tail(s)) = Len(s) - 1
      /\ \A i \in 1..Len(Tail(s)) : Tail(s)[i] = s[i + 1]
  BY HeadTailProperties
<1>2. /\ Len(s) \in Nat /\ Len(s) >= 1 /\ DOMAIN s = 1..Len(s)
      /\ DOMAIN Tail(s) = 1..(Len(s) - 1)
  BY <1>1, LenProperties, EmptySeq
<1> DEFINE n == Len(s)
           r == Tail(s)
<1> HIDE DEF n, r
<1>3. /\ n \in Nat /\ n >= 1 /\ DOMAIN s = 1..n /\ DOMAIN r = 1..(n - 1)
      /\ \A i \in 1..(n - 1) : r[i] = s[i + 1]
  BY <1>1, <1>2 DEF n, r
<1>4. ToSet(s) = {s[1]} \cup ToSet(r)
  <2>1. ASSUME NEW i \in 1..n PROVE s[i] \in {s[1]} \cup ToSet(r)
    <3>1. CASE i = 1
      BY <3>1
    <3>2. CASE i # 1
      <4>1. i - 1 \in 1..(n - 1) /\ r[i - 1] = s[i]
        BY <1>3, <3>2
      <4>2. QED
        BY <1>3, <4>1 DEF ToSet
    <3>3. QED
      BY <3>1, <3>2
  <2>2. ASSUME NEW i \in 1..(n - 1) PROVE r[i] \in ToSet(s)
    <3>1. i + 1 \in 1..n /\ r[i] = s[i + 1]
      BY <1>3
    <3>2. QED
      BY <1>3, <3>1 DEF ToSet
  <2>3. s[1] \in ToSet(s)
    BY <1>3 DEF ToSet
  <2>4. ToSet(s) \subseteq {s[1]} \cup ToSet(r)
    BY <1>3, <2>1 DEF ToSet
  <2>5. ToSet(r) \subseteq ToSet(s)
    BY <1>3, <2>2 DEF ToSet
  <2>6. QED
    BY <2>3, <2>4, <2>5
<1>5. ASSUME IsInjective(s) PROVE IsInjective(r) /\ s[1] \notin ToSet(r)
  <2>1. \A i, j \in 1..n : s[i] = s[j] => i = j
    BY <1>3, <1>5 DEF IsInjective
  <2>2. ASSUME NEW i \in 1..(n - 1), NEW j \in 1..(n - 1), r[i] = r[j] PROVE i = j
    <3>1. i + 1 \in 1..n /\ j + 1 \in 1..n /\ s[i + 1] = s[j + 1]
      BY <1>3, <2>2
    <3>2. i + 1 = j + 1
      BY <2>1, <3>1
    <3>3. QED
      BY <3>2
  <2>3. ASSUME NEW i \in 1..(n - 1) PROVE r[i] # s[1]
    <3>1. i + 1 \in 1..n /\ 1 \in 1..n /\ i + 1 # 1 /\ r[i] = s[i + 1]
      BY <1>3
    <3>2. QED
      BY <2>1, <3>1
  <2>4. IsInjective(r)
    BY <1>3, <2>2 DEF IsInjective
  <2>5. s[1] \notin ToSet(r)
    BY <1>3, <2>3 DEF ToSet
  <2>6. QED
    BY <2>4, <2>5
<1>6. QED
  BY <1>1, <1>4, <1>5 DEF r

\* The steps of others leave a writer as it was: they commit other names than it
\* has inserted, as another writer.
LEMMA WriterKeeps ==
  ASSUME NEW v \in Writer, WriterOK(v),
         NEW new, Inserted' = Inserted \cup new, Committed' \subseteq Committed \cup new,
         place'[v] = place[v], todo'[v] = todo[v], added'[v] = added[v],
         rows'[v] = rows[v], born'[v] = born[v],
         \A x \in new : x.by # v,
         place[v] = "open" => NamesOf(new) \cap NamesOf(rows[v]) = {}
  PROVE  WriterOK(v)'
<1>1. NamesOf(Inserted) \subseteq NamesOf(Inserted')
  BY DEF NamesOf
<1>2. ASSUME place[v] = "open" PROVE OpenOK(v)'
  <2>1. OpenOK(v)
    BY <1>2 DEF WriterOK
  <2>2. NamesOf(Committed') \subseteq NamesOf(Committed) \cup NamesOf(new)
    BY DEF NamesOf
  <2>3. NamesOf(rows[v]) \cap NamesOf(Committed') = {}
    BY <1>2, <2>1, <2>2 DEF OpenOK
  <2>4. NamesOf(rows[v])' = NamesOf(rows[v])
    BY DEF NamesOf
  <2>5. QED
    BY <1>1, <2>1, <2>3, <2>4 DEF OpenOK
<1>3. Unlisted(v) => Unlisted(v)'
  BY DEF Unlisted
<1>4. Listed(v) => Listed(v)'
  BY <1>1 DEF Listed
<1>5. QED
  BY <1>2, <1>3, <1>4 DEF WriterOK

\* A step of w.
LEMMA WritersKeep ==
  ASSUME WritersOK, NEW w \in Writer,
         NEW new, Inserted' = Inserted \cup new, Committed' \subseteq Committed \cup new,
         \A v \in Writer \ {w} :
           /\ place'[v] = place[v] /\ todo'[v] = todo[v] /\ added'[v] = added[v]
           /\ rows'[v] = rows[v] /\ born'[v] = born[v],
         \A x \in new : x.by = w,
         \A v \in Writer \ {w} : place[v] = "open" => NamesOf(new) \cap NamesOf(rows[v]) = {},
         WriterOK(w)',
         \A v \in Writer \ {w} :
           place[v] = "open" /\ place'[w] = "open" => NamesOf(rows'[w]) \cap NamesOf(rows[v]) = {}
  PROVE  WritersOK'
<1>1. ASSUME NEW v \in Writer \ {w} PROVE WriterOK(v)'
  <2>1. /\ WriterOK(v) /\ \A x \in new : x.by # v
        /\ place[v] = "open" => NamesOf(new) \cap NamesOf(rows[v]) = {}
    BY DEF WritersOK
  <2>2. QED
    BY <2>1, WriterKeeps
<1>2. ASSUME NEW u \in Writer, NEW v \in Writer, u # v PROVE Apart(u, v)'
  <2>1. Apart(u, v)
    BY <1>2 DEF WritersOK
  <2>2. CASE u # w /\ v # w
    BY <2>1, <2>2 DEF Apart, NamesOf
  <2>3. CASE u = w
    <3>1. v \in Writer \ {w} /\ place'[v] = place[v] /\ rows'[v] = rows[v]
      BY <1>2, <2>3
    <3>2. NamesOf(rows[v])' = NamesOf(rows[v])
      BY <3>1 DEF NamesOf
    <3>3. QED
      BY <2>3, <3>1, <3>2 DEF Apart, NamesOf
  <2>4. CASE v = w
    <3>1. u \in Writer \ {w} /\ place'[u] = place[u] /\ rows'[u] = rows[u]
      BY <1>2, <2>4
    <3>2. QED
      BY <2>4, <3>1 DEF Apart, NamesOf
  <2>5. QED
    BY <2>2, <2>3, <2>4
<1>3. QED
  BY <1>1, <1>2 DEF WritersOK

-----------------------------------------------------------------------------
\* Nothing has been written at the start.
LEMMA ListInvInit == ListInit => ListInv
<1> SUFFICES ASSUME ListInit PROVE ListInv
  OBVIOUS
<1>1. log = <<>> /\ log \in Seq(Entry) /\ Len(log) = 0 /\ DOMAIN log = {}
  BY LenProperties DEF ListInit
<1>2. ListTyped
  <2>1. \A w \in Writer : rows[w] = {} /\ IsFiniteSet(rows[w])
    BY FS_EmptySet DEF ListInit
  <2>2. todo \in [Writer -> Seq(SeedName)]
    BY ListAssumption DEF ListInit
  <2>3. QED
    BY <1>1, <2>1, <2>2 DEF ListInit, ListTyped
<1>3. Inserted = {} /\ \A k \in 0..Len(log) : RowsOf(log, k) = {}
  BY <1>1 DEF Inserted, RowsOf
<1>4. LogOK
  <2>1. \A k \in 0..Len(log) : IsFiniteSet(RowsOf(log, k)) /\ UniqueIn(RowsOf(log, k))
    BY <1>3, FS_EmptySet DEF UniqueIn
  <2>2. \A w \in Writer : born[w] <= clock
    BY DEF ListInit
  <2>3. QED
    BY <1>3, <2>1, <2>2 DEF LogOK
<1>5. WritersOK
  BY DEF WritersOK, WriterOK, Apart, ListInit
<1>6. \A r \in Reader : ReaderOK(r)
  BY <1>1, ListAssumption DEF ReaderOK, ListInit, get_read_session
<1>7. QED
  BY <1>2, <1>4, <1>5, <1>6 DEF ListInv

\* A step of w that commits nothing.
LEMMA QuietStep ==
  ASSUME ListInv, ListTyped', UNCHANGED <<log, applied, readers>>,
         NEW w \in Writer,
         clock <= clock', \A v \in Writer : born'[v] <= clock',
         \A v \in Writer \ {w} :
           /\ place'[v] = place[v] /\ todo'[v] = todo[v] /\ added'[v] = added[v]
           /\ rows'[v] = rows[v] /\ born'[v] = born[v],
         Inserted' = Inserted /\ Committed' = Committed => WriterOK(w)',
         \A v \in Writer \ {w} :
           place[v] = "open" /\ place'[w] = "open" => NamesOf(rows'[w]) \cap NamesOf(rows[v]) = {}
  PROVE  ListInv'
<1>1. LogOK' /\ Grows /\ Inserted' = Inserted /\ Committed' = Committed
  <2>1. clock' \in Nat
    BY DEF ListTyped
  <2>2. QED
    BY <2>1, LogSame DEF ListInv
<1>2. WriterOK(w)'
  BY <1>1
<1>3. WritersOK'
  <2> DEFINE new == {}
  <2>1. Inserted' = Inserted \cup new /\ Committed' \subseteq Committed \cup new
    BY <1>1
  <2>2. NamesOf(new) = {} /\ \A x \in new : x.by = w
    BY DEF NamesOf
  <2> HIDE DEF new
  <2>3. QED
    BY <1>2, <2>1, <2>2, WritersKeep DEF ListInv
<1>4. \A r \in Reader : ReaderOK(r)'
  BY <1>1, ReadersKeep
<1>5. QED
  BY <1>1, <1>3, <1>4 DEF ListInv

\* A transaction begins later than every row that was inserted.
LEMMA BeginStep == ASSUME ListInv, NEW w \in Writer, Begin(w) PROVE ListInv'
<1>1. /\ clock \in Nat /\ clock' = clock + 1 /\ born' = [born EXCEPT ![w] = clock']
      /\ place' = [place EXCEPT ![w] = "open"] /\ place[w] = "idle"
      /\ UNCHANGED <<log, applied, todo, added, rows, readers>>
  BY DEF Begin, ListInv, ListTyped
<1>2. ListTyped'
  <2>1. born' \in [Writer -> Nat] /\ place' \in [Writer -> {"idle", "open", "failed", "done"}]
    BY <1>1 DEF ListInv, ListTyped
  <2>2. QED
    BY <1>1, <2>1 DEF ListInv, ListTyped, readers
<1>3. \A v \in Writer : born'[v] <= clock'
  BY <1>1 DEF ListInv, ListTyped, LogOK
<1>4. place'[w] = "open" /\ born'[w] = clock + 1
  BY <1>1 DEF ListInv, ListTyped
<1>5. todo[w] = Seed[w] /\ rows[w] = {} /\ added[w] = NoName
  BY <1>1 DEF ListInv, WritersOK, WriterOK
<1>6. NamesOf(rows'[w]) = {}
  BY <1>1, <1>5 DEF NamesOf
<1>7. ASSUME Inserted' = Inserted PROVE WriterOK(w)'
  <2>1. Unlisted(w)'
    <3>1. \A x \in Inserted : x.born <= clock /\ x.born \in Nat
      BY RowsInserted DEF ListInv, LogOK, ListedRow
    <3>2. QED
      BY <1>1, <1>4, <1>7, <3>1 DEF Unlisted
  <2>2. IsInjective(Seed[w]) /\ NoName \notin ToSet(Seed[w])
    <3>1. IsInjective(Seed[w]) /\ NoName \notin SeedName
      BY ListAssumption
    <3>2. ToSet(Seed[w]) \subseteq SeedName
      BY DEF SeedName
    <3>3. QED
      BY <3>1, <3>2
  <2>3. OpenOK(w)'
    BY <1>1, <1>5, <1>6, <2>2 DEF OpenOK, UniqueIn
  <2>4. QED
    BY <1>4, <2>1, <2>3 DEF WriterOK
<1>8. QED
  BY <1>1, <1>2, <1>3, <1>6, <1>7, QuietStep DEF ListInv, ListTyped

\* A name that is skipped was inserted by somebody; another is still to insert.
LEMMA SelectStep == ASSUME ListInv, NEW w \in Writer, Select(w) PROVE ListInv'
<1> DEFINE name == Head(todo[w])
<1>1. /\ place[w] = "open" /\ added[w] = NoName /\ todo[w] # <<>>
      /\ added' = [added EXCEPT ![w] = IF name \in NamesOf(Committed) THEN NoName ELSE name]
      /\ todo' = [todo EXCEPT ![w] = Tail(todo[w])]
      /\ UNCHANGED <<log, applied, clock, place, rows, born, readers>>
  BY DEF Select
<1>2. todo[w] \in Seq(SeedName) /\ OpenOK(w) /\ Unlisted(w)
  BY <1>1 DEF ListInv, ListTyped, WritersOK, WriterOK
<1>3. /\ name \in SeedName /\ Tail(todo[w]) \in Seq(SeedName)
      /\ ToSet(todo[w]) = {name} \cup ToSet(Tail(todo[w]))
      /\ IsInjective(todo[w]) => IsInjective(Tail(todo[w])) /\ name \notin ToSet(Tail(todo[w]))
  BY <1>1, <1>2, FirstAndRest
<1> HIDE DEF name
<1>4. ListTyped'
  BY <1>1, <1>3 DEF ListInv, ListTyped, readers
<1>5. /\ todo'[w] = Tail(todo[w])
      /\ added'[w] = IF name \in NamesOf(Committed) THEN NoName ELSE name
      /\ rows'[w] = rows[w] /\ born'[w] = born[w] /\ place'[w] = "open"
  BY <1>1 DEF ListInv, ListTyped
<1>6. ASSUME Inserted' = Inserted, Committed' = Committed PROVE WriterOK(w)'
  <2>1. NamesOf(Committed) \subseteq NamesOf(Inserted)
    BY RowsInserted DEF ListInv, NamesOf
  <2>2. NoName \notin ToSet(todo[w]) \cup NamesOf(rows[w])
    BY <1>1, <1>2 DEF OpenOK
  <2>3. NamesOf(rows'[w]) = NamesOf(rows[w]) /\ NamesOf(Committed') = NamesOf(Committed)
          /\ NamesOf(Inserted') = NamesOf(Inserted)
    BY <1>5, <1>6
  <2>4. ToSet(Seed[w]) \subseteq ToSet(todo[w]) \cup {NoName} \cup NamesOf(rows[w]) \cup NamesOf(Inserted)
    BY <1>1, <1>2 DEF OpenOK
  <2>5. ToSet(Seed[w]) \subseteq SeedName /\ NoName \notin SeedName
    BY ListAssumption DEF SeedName
  <2>6. ToSet(Seed[w]) \subseteq
          ToSet(todo'[w]) \cup {added'[w]} \cup NamesOf(rows'[w]) \cup NamesOf(Inserted')
    BY <1>3, <1>5, <2>1, <2>3, <2>4, <2>5
  <2>7. /\ ToSet(todo'[w]) \cap NamesOf(rows'[w]) = {}
        /\ added'[w] \notin ToSet(todo'[w]) \cup NamesOf(rows'[w])
        /\ IsInjective(todo'[w])
    BY <1>2, <1>3, <1>5, <2>2, <2>3 DEF OpenOK
  <2>8. OpenOK(w)'
    BY <1>2, <1>5, <2>3, <2>6, <2>7 DEF OpenOK
  <2>9. Unlisted(w)'
    BY <1>2, <1>5, <1>6 DEF Unlisted
  <2>10. QED
    BY <1>5, <2>8, <2>9 DEF WriterOK
<1>7. \A v \in Writer \ {w} :
        place[v] = "open" => NamesOf(rows'[w]) \cap NamesOf(rows[v]) = {}
  BY <1>1, <1>5 DEF ListInv, WritersOK, Apart
<1>8. \A v \in Writer : born'[v] <= clock'
  BY <1>1 DEF ListInv, LogOK
<1>9. clock <= clock'
  BY <1>1 DEF ListInv, ListTyped
<1>10. QED
  BY <1>1, <1>4, <1>6, <1>7, <1>8, <1>9, QuietStep DEF ListInv, ListTyped

\* The transaction of w ends with nothing kept.
LEMMA RollbackStep ==
  ASSUME ListInv, NEW w \in Writer, place[w] = "open", Rollback(w),
         UNCHANGED <<log, applied, clock, todo, born, readers>>
  PROVE  ListInv'
<1>1. /\ place' = [place EXCEPT ![w] = "failed"]
      /\ rows' = [rows EXCEPT ![w] = {}]
      /\ added' = [added EXCEPT ![w] = NoName]
  BY DEF Rollback
<1>2. ListTyped'
  <2>1. \A v \in Writer : IsFiniteSet(rows'[v])
    BY <1>1, FS_EmptySet DEF ListInv, ListTyped
  <2>2. QED
    BY <1>1, <2>1 DEF ListInv, ListTyped, readers
<1>3. place'[w] = "failed" /\ rows'[w] = {} /\ added'[w] = NoName /\ born'[w] = born[w]
  BY <1>1 DEF ListInv, ListTyped
<1>4. Unlisted(w)
  BY DEF ListInv, WritersOK, WriterOK
<1>5. ASSUME Inserted' = Inserted PROVE WriterOK(w)'
  BY <1>3, <1>4, <1>5 DEF WriterOK, Unlisted
<1>6. \A v \in Writer : born'[v] <= clock'
  BY DEF ListInv, LogOK
<1>7. clock <= clock'
  BY DEF ListInv, ListTyped
<1>8. QED
  BY <1>1, <1>2, <1>3, <1>5, <1>6, <1>7, QuietStep DEF ListInv, ListTyped

\* What w inserts is committed by nobody and inserted by no open transaction.
LEMMA FlushStep == ASSUME ListInv, NEW w \in Writer, Flush(w) PROVE ListInv'
<1> DEFINE x == [name |-> added[w], born |-> born[w], by |-> w]
<1>1. /\ place[w] = "open" /\ added[w] # NoName
      /\ UNCHANGED <<applied, clock, todo, born, readers>>
      /\ \A v \in Writer \ {w} : place[v] = "open" => added[w] \notin NamesOf(rows[v])
  BY DEF Flush
<1>2. CASE added[w] \in NamesOf(Committed)
  <2>1. Rollback(w) /\ UNCHANGED log
    BY <1>2 DEF Flush
  <2>2. QED
    BY <1>1, <2>1, RollbackStep
<1>3. CASE added[w] \notin NamesOf(Committed)
  <2>1. /\ rows' = [rows EXCEPT ![w] = rows[w] \cup {x}]
        /\ added' = [added EXCEPT ![w] = NoName]
        /\ UNCHANGED <<log, place>>
    BY <1>3 DEF Flush, hold
  <2>2. /\ added[w] \in SeedName /\ born[w] \in Nat /\ rows[w] \in SUBSET ListedRow
        /\ IsFiniteSet(rows[w])
    BY <1>1 DEF ListInv, ListTyped
  <2>3. x \in ListedRow /\ x.name = added[w] /\ x.born = born[w] /\ x.by = w
    BY <2>2 DEF ListedRow
  <2> HIDE DEF x
  <2>4. IsFiniteSet(rows[w] \cup {x})
    BY <2>2, FS_AddElement
  <2>5. /\ rows'[w] = rows[w] \cup {x} /\ added'[w] = NoName /\ place'[w] = "open"
        /\ born'[w] = born[w] /\ todo'[w] = todo[w]
        /\ \A v \in Writer \ {w} : rows'[v] = rows[v] /\ added'[v] = added[v]
    BY <1>1, <2>1 DEF ListInv, ListTyped
  <2>6. ListTyped'
    <3>1. \A v \in Writer : IsFiniteSet(rows'[v])
      BY <2>4, <2>5 DEF ListInv, ListTyped
    <3>2. rows' \in [Writer -> SUBSET ListedRow]
      BY <2>1, <2>2, <2>3 DEF ListInv, ListTyped
    <3>3. added' \in [Writer -> SeedName \cup {NoName}]
      BY <2>1 DEF ListInv, ListTyped
    <3>4. QED
      BY <1>1, <2>1, <3>1, <3>2, <3>3 DEF ListInv, ListTyped, readers
  <2>7. NamesOf(rows'[w]) = NamesOf(rows[w]) \cup {added[w]}
    BY <2>3, <2>5 DEF NamesOf
  <2>8. OpenOK(w) /\ Unlisted(w)
    BY <1>1 DEF ListInv, WritersOK, WriterOK
  <2>9. ASSUME Inserted' = Inserted, Committed' = Committed PROVE WriterOK(w)'
    <3>1. UniqueIn(rows'[w])
      <4>1. \A y \in rows[w] : y.name # x.name
        BY <2>3, <2>8 DEF OpenOK, NamesOf
      <4>2. QED
        BY <2>5, <2>8, <4>1 DEF OpenOK, UniqueIn
    <3>2. \A y \in rows'[w] : y.by = w /\ y.born = born'[w]
      BY <2>3, <2>5, <2>8 DEF OpenOK
    <3>3. NamesOf(rows'[w]) \cap NamesOf(Committed') = {}
      BY <1>3, <2>7, <2>8, <2>9 DEF OpenOK
    <3>4. NoName \notin ToSet(todo'[w]) \cup NamesOf(rows'[w])
      <4>1. ToSet(todo[w]) \subseteq SeedName /\ NoName \notin SeedName
        <5>1. todo[w] \in Seq(SeedName)
          BY DEF ListInv, ListTyped
        <5>2. \A i \in DOMAIN todo[w] : todo[w][i] \in SeedName
          BY <5>1, ElementOfSeq, LenProperties
        <5>3. QED
          BY <5>2, ListAssumption DEF ToSet
      <4>2. NamesOf(rows[w]) \subseteq SeedName
        BY <2>2 DEF NamesOf, ListedRow
      <4>3. QED
        BY <1>1, <2>2, <2>5, <2>7, <4>1, <4>2
    <3>5. ToSet(todo'[w]) \cap NamesOf(rows'[w]) = {} /\ IsInjective(todo'[w])
      BY <2>5, <2>7, <2>8 DEF OpenOK
    <3>6. ToSet(Seed[w]) \subseteq
            ToSet(todo'[w]) \cup {added'[w]} \cup NamesOf(rows'[w]) \cup NamesOf(Inserted')
      BY <2>5, <2>7, <2>8, <2>9 DEF OpenOK
    <3>7. OpenOK(w)'
      BY <2>5, <3>1, <3>2, <3>3, <3>4, <3>5, <3>6 DEF OpenOK
    <3>8. Unlisted(w)'
      BY <2>5, <2>8, <2>9 DEF Unlisted
    <3>9. QED
      BY <2>5, <3>7, <3>8 DEF WriterOK
  <2>10. \A v \in Writer \ {w} :
           place[v] = "open" => NamesOf(rows'[w]) \cap NamesOf(rows[v]) = {}
    BY <1>1, <2>7 DEF ListInv, WritersOK, Apart
  <2>11. /\ \A v \in Writer : born'[v] <= clock'
         /\ clock <= clock'
    BY <1>1 DEF ListInv, LogOK, ListTyped
  <2>12. QED
    BY <1>1, <2>1, <2>5, <2>6, <2>9, <2>10, <2>11, QuietStep
<1>4. QED
  BY <1>2, <1>3

\* A lost connection is a rollback.
LEMMA DisconnectStep == ASSUME ListInv, NEW w \in Writer, Disconnect(w) PROVE ListInv'
BY RollbackStep DEF Disconnect

\* A writer that ended starts with all its names again.
LEMMA RerunStep == ASSUME ListInv, NEW w \in Writer, Rerun(w) PROVE ListInv'
<1>1. /\ place[w] \in {"done", "failed"}
      /\ place' = [place EXCEPT ![w] = "idle"]
      /\ todo' = [todo EXCEPT ![w] = Seed[w]]
      /\ rows' = [rows EXCEPT ![w] = {}]
      /\ UNCHANGED <<log, applied, clock, added, born, readers>>
  BY DEF Rerun
<1>2. ListTyped'
  <2>1. \A v \in Writer : IsFiniteSet(rows'[v])
    BY <1>1, FS_EmptySet DEF ListInv, ListTyped
  <2>2. Seed[w] \in Seq(SeedName)
    BY ListAssumption
  <2>3. QED
    BY <1>1, <2>1, <2>2 DEF ListInv, ListTyped, readers
<1>3. /\ place'[w] = "idle" /\ todo'[w] = Seed[w] /\ rows'[w] = {}
      /\ added'[w] = added[w] /\ added[w] = NoName
  BY <1>1 DEF ListInv, ListTyped, WritersOK, WriterOK
<1>4. WriterOK(w)'
  BY <1>3 DEF WriterOK
<1>5. /\ \A v \in Writer : born'[v] <= clock'
      /\ clock <= clock'
  BY <1>1 DEF ListInv, LogOK, ListTyped
<1>6. QED
  BY <1>1, <1>2, <1>3, <1>4, <1>5, QuietStep DEF ListInv, ListTyped

\* A commit inserts what w has inserted, which no table had the names of.
LEMMA CommitStep == ASSUME ListInv, NEW w \in Writer, CommitAll(w) PROVE ListInv'
<1>1. /\ place[w] = "open" /\ added[w] = NoName /\ todo[w] = <<>>
      /\ place' = [place EXCEPT ![w] = "done"]
      /\ log' = IF rows[w] \subseteq Committed THEN log
                ELSE Append(log, [ins |-> rows[w] \ Committed, del |-> {}])
      /\ UNCHANGED <<applied, clock, todo, added, rows, born, readers>>
  BY DEF CommitAll
<1>2. OpenOK(w) /\ Unlisted(w) /\ place'[w] = "done"
  BY <1>1 DEF ListInv, ListTyped, WritersOK, WriterOK
<1>3. /\ IsFiniteSet(rows[w]) /\ rows[w] \in SUBSET ListedRow
      /\ born[w] \in Nat /\ clock \in Nat /\ born[w] <= clock
      /\ log \in Seq(Entry) /\ applied \in 0..Len(log)
  BY DEF ListInv, ListTyped, LogOK
<1>4. ASSUME ListTyped', LogOK', Grows,
             NEW new, Inserted' = Inserted \cup new, Committed' \subseteq Committed \cup new,
             new \subseteq rows[w], rows[w] \subseteq Committed \cup new
      PROVE  ListInv'
  <2>1. Listed(w)'
    <3>1. ToSet(todo[w]) = {}
      BY <1>1 DEF ToSet
    <3>2. NoName \notin ToSet(Seed[w])
      BY ListAssumption DEF SeedName
    <3>3. ToSet(Seed[w]) \subseteq NamesOf(rows[w]) \cup NamesOf(Inserted)
      BY <1>1, <1>2, <3>1, <3>2 DEF OpenOK
    <3>4. rows[w] \subseteq Inserted'
      BY <1>4, RowsInserted DEF ListInv
    <3>5. NamesOf(rows[w]) \cup NamesOf(Inserted) \subseteq NamesOf(Inserted')
      BY <1>4, <3>4 DEF NamesOf
    <3>6. QED
      BY <3>3, <3>5 DEF Listed
  <2>2. WriterOK(w)'
    BY <1>1, <1>2, <2>1 DEF WriterOK
  <2>3. \A x \in new : x.by = w
    BY <1>2, <1>4 DEF OpenOK
  <2>4. \A v \in Writer \ {w} : place[v] = "open" => NamesOf(new) \cap NamesOf(rows[v]) = {}
    <3>1. NamesOf(new) \subseteq NamesOf(rows[w])
      BY <1>4 DEF NamesOf
    <3>2. QED
      BY <1>1, <3>1 DEF ListInv, WritersOK, Apart
  <2>5. \A v \in Writer \ {w} :
          /\ place'[v] = place[v] /\ todo'[v] = todo[v] /\ added'[v] = added[v]
          /\ rows'[v] = rows[v] /\ born'[v] = born[v]
    BY <1>1 DEF ListInv, ListTyped
  <2>6. WritersOK'
    BY <1>2, <1>4, <2>2, <2>3, <2>4, <2>5, WritersKeep DEF ListInv
  <2>7. \A r \in Reader : ReaderOK(r)'
    BY <1>1, <1>4, ReadersKeep
  <2>8. QED
    BY <1>4, <2>6, <2>7 DEF ListInv
<1>5. ASSUME log' \in Seq(Entry), applied' \in 0..Len(log') PROVE ListTyped'
  BY <1>1, <1>5 DEF ListInv, ListTyped, readers
<1>6. CASE rows[w] \subseteq Committed
  <2>1. log' = log
    BY <1>1, <1>6
  <2>2. LogOK' /\ Grows /\ Inserted' = Inserted /\ Committed' = Committed
    <3>1. clock' \in Nat /\ clock <= clock' /\ \A v \in Writer : born'[v] <= clock'
      BY <1>1 DEF ListInv, ListTyped, LogOK
    <3>2. QED
      BY <1>1, <2>1, <3>1, LogSame DEF ListInv
  <2>3. ListTyped'
    BY <1>1, <1>3, <1>5, <2>1
  <2>4. PICK new : new = {}
    OBVIOUS
  <2>5. QED
    BY <1>4, <1>6, <2>2, <2>3, <2>4
<1>7. CASE ~(rows[w] \subseteq Committed)
  <2>1. PICK new : new = rows[w] \ Committed
    OBVIOUS
  <2> DEFINE e == [ins |-> new, del |-> {}]
  <2>2. log' = Append(log, e)
    BY <1>1, <1>7, <2>1
  <2>3. e \in Entry /\ e.ins = new /\ IsFiniteSet(new)
    BY <1>3, <2>1, FS_Subset DEF Entry
  <2>4. UniqueIn(Committed \cup new)
    <3>1. UniqueIn(Committed)
      <4>1. Committed = RowsOf(log, Len(log)) /\ Len(log) \in 0..Len(log)
        BY RowsInserted DEF ListInv
      <4>2. QED
        BY <4>1 DEF ListInv, LogOK
    <3>2. UniqueIn(new)
      BY <1>2, <2>1 DEF OpenOK, UniqueIn
    <3>3. \A x \in new, y \in Committed : x.name # y.name
      BY <1>2, <2>1 DEF OpenOK, NamesOf
    <3> HIDE DEF Committed
    <3>4. QED
      BY <3>1, <3>2, <3>3 DEF UniqueIn
  <2>5. \A x \in new : x.born <= clock
    BY <1>2, <1>3, <2>1 DEF OpenOK
  <2> HIDE DEF e
  <2>6. /\ LogOK' /\ Grows
        /\ log' \in Seq(Entry) /\ applied' \in 0..Len(log')
        /\ Inserted' = Inserted \cup new
        /\ Committed' \subseteq Committed \cup new
    BY <1>1, <2>2, <2>3, <2>4, <2>5, LogAppends DEF ListInv
  <2>7. new \subseteq rows[w] /\ rows[w] \subseteq Committed \cup new
    BY <2>1
  <2>8. QED
    BY <1>4, <1>5, <2>6, <2>7
<1>8. QED
  BY <1>6, <1>7

\* A delete takes a row from the last table only.
LEMMA DeleteStep == ASSUME ListInv, NEW x \in Committed, DeleteRow(x) PROVE ListInv'
<1> DEFINE e == [ins |-> {}, del |-> {x}]
<1>1. log' = Append(log, e) /\ UNCHANGED <<applied, clock, writers, readers>>
  BY DEF DeleteRow
<1>2. UNCHANGED <<place, todo, added, rows, born>>
  BY <1>1 DEF writers
<1>3. e \in Entry /\ e.ins = {}
  <2>1. x \in ListedRow
    <3>1. Committed \subseteq ListedRow
      BY RowsInserted DEF ListInv
    <3>2. QED
      BY <3>1
  <2>2. QED
    BY <2>1 DEF Entry
<1>4. UniqueIn(Committed \cup e.ins)
  <2>1. Committed = RowsOf(log, Len(log)) /\ Len(log) \in 0..Len(log)
    BY RowsInserted DEF ListInv
  <2>2. Committed \cup e.ins = Committed
    BY <1>3
  <2>3. QED
    BY <2>1, <2>2 DEF ListInv, LogOK
<1> HIDE DEF e
<1>5. /\ LogOK' /\ Grows
      /\ log' \in Seq(Entry) /\ applied' \in 0..Len(log')
      /\ Inserted' = Inserted \cup e.ins
      /\ Committed' \subseteq Committed \cup e.ins
  BY <1>1, <1>2, <1>3, <1>4, FS_EmptySet, LogAppends DEF ListInv
<1>6. ListTyped'
  BY <1>1, <1>2, <1>5 DEF ListInv, ListTyped, readers
<1>7. WritersOK'
  <2>1. ASSUME NEW w \in Writer PROVE WriterOK(w)'
    <3>1. NamesOf(e.ins) = {} /\ \A y \in e.ins : y.by # w
      BY <1>3 DEF NamesOf
    <3>2. /\ place'[w] = place[w] /\ todo'[w] = todo[w] /\ added'[w] = added[w]
          /\ rows'[w] = rows[w] /\ born'[w] = born[w]
      BY <1>2
    <3>3. QED
      BY <1>5, <3>1, <3>2, WriterKeeps DEF ListInv, WritersOK
  <2>2. \A v, w \in Writer : v # w => Apart(v, w)'
    BY <1>2 DEF ListInv, WritersOK, Apart, NamesOf
  <2>3. QED
    BY <2>1, <2>2 DEF WritersOK
<1>8. QED
  BY <1>1, <1>5, <1>6, <1>7, ReadersKeep DEF ListInv

\* A step that commits nothing and is no writer's.
LEMMA WritersRest ==
  ASSUME ListInv, UNCHANGED <<log, clock, writers>>, UNCHANGED applied \/ applied' = applied + 1
  PROVE  LogOK' /\ Grows /\ WritersOK'
<1>1. UNCHANGED <<place, todo, added, rows, born>>
  BY DEF writers
<1>2. LogOK' /\ Grows /\ Inserted' = Inserted /\ Committed' = Committed
  <2>1. clock' \in Nat /\ clock <= clock' /\ \A w \in Writer : born'[w] <= clock'
    BY <1>1 DEF ListInv, ListTyped, LogOK
  <2>2. QED
    BY <2>1, LogSame DEF ListInv
<1>3. WritersOK'
  <2> DEFINE new == {}
  <2>1. Inserted' = Inserted \cup new /\ Committed' \subseteq Committed \cup new
    BY <1>2
  <2>2. NamesOf(new) = {} /\ \A w \in Writer : \A x \in new : x.by # w
    BY DEF NamesOf
  <2> HIDE DEF new
  <2>3. ASSUME NEW w \in Writer PROVE WriterOK(w)'
    <3>1. WriterOK(w) /\ NamesOf(new) \cap NamesOf(rows[w]) = {}
      BY <2>2 DEF ListInv, WritersOK
    <3>2. QED
      BY <1>1, <2>1, <2>2, <3>1, WriterKeeps
  <2>4. \A v, w \in Writer : v # w => Apart(v, w)'
    BY <1>1 DEF ListInv, WritersOK, Apart, NamesOf
  <2>5. QED
    BY <2>3, <2>4 DEF WritersOK
<1>4. QED
  BY <1>2, <1>3

\* The replica moves on to a table that was committed.
LEMMA ApplyStep == ASSUME ListInv, Apply PROVE ListInv'
<1>1. /\ applied < Len(log) /\ applied' = applied + 1
      /\ UNCHANGED <<log, clock, writers, readers>>
  BY DEF Apply
<1>2. LogOK' /\ Grows /\ WritersOK'
  BY <1>1, WritersRest
<1>3. ListTyped'
  <2>1. Len(log) \in Nat
    BY RowsInserted DEF ListInv
  <2>2. applied' \in 0..Len(log')
    BY <1>1, <2>1 DEF ListInv, ListTyped
  <2>3. QED
    BY <1>1, <2>2 DEF ListInv, ListTyped, writers, readers
<1>4. QED
  BY <1>1, <1>2, <1>3, ReadersKeep DEF ListInv

\* A step of the client r.
LEMMA ReadersStep ==
  ASSUME ListInv, ListTyped', UNCHANGED <<log, applied, clock, writers>>, NEW r \in Reader,
         \A q \in Reader \ {r} :
           /\ page'[q] = page[q] /\ offset'[q] = offset[q] /\ seen'[q] = seen[q]
           /\ from'[q] = from[q] /\ upto'[q] = upto[q],
         ReaderOK(r)'
  PROVE  ListInv'
<1>1. LogOK' /\ Grows /\ WritersOK'
  BY WritersRest
<1>2. \A q \in Reader \ {r} : ReaderOK(q)'
  BY <1>1, ReaderKeeps DEF ListInv
<1>3. QED
  BY <1>1, <1>2 DEF ListInv

\* A page: what it leaves out, and earlier ones did, comes after it.
LEMMA ListRowsStep == ASSUME ListInv, NEW r \in Reader, ListRows(r) PROVE ListInv'
<1>1. /\ page[r] = "idle"
      /\ from' = [from EXCEPT ![r] = IF offset[r] = 0 THEN get_read_session ELSE from[r]]
      /\ page' = [page EXCEPT ![r] = "counting"]
      /\ UNCHANGED <<log, applied, clock, writers, offset, upto>>
  BY DEF ListRows
<1>2. PICK p \in list(RowsAt(get_read_session), offset[r]) :
        seen' = [seen EXCEPT ![r] = seen[r] \cup p]
  BY DEF ListRows
<1> DEFINE k == get_read_session
           o == offset[r]
           f == IF o = 0 THEN k ELSE from[r]
           rs == RowsOf(log, k)
<1>3. k \in 0..Len(log) /\ Len(log) \in Nat /\ o \in Nat /\ f \in Nat /\ Limit \in Nat /\ k' = k
  BY <1>1, ReadsCommitted, ListAssumption DEF ListInv, ListTyped, get_read_session
<1>4. rs = RowsAt(k)
  BY DEF RowsAt, RowsOf
<1>5. IsFiniteSet(rs) /\ rs \in SUBSET ListedRow
  BY <1>3, RowsInserted DEF ListInv, LogOK
<1>6. ListTyped'
  <2>1. p \in SUBSET ListedRow
    BY <1>4, <1>5 DEF list
  <2>2. seen' \in [Reader -> SUBSET ListedRow]
    BY <1>2, <2>1 DEF ListInv, ListTyped
  <2>3. QED
    BY <1>1, <1>3, <2>2 DEF ListInv, ListTyped, writers
<1>7. /\ page'[r] = "counting" /\ offset'[r] = o /\ upto'[r] = upto[r]
      /\ from'[r] = f
  BY <1>1 DEF ListInv, ListTyped
<1> DEFINE s == seen'[r]
<1>8. Ahead(log, s, f, k, o + Limit)
  <2> SUFFICES ASSUME NEW x \in RowsOf(log, f), ~Excused(log, s, f, k, x)
               PROVE  Rank(rs, x) >= o + Limit
    BY DEF Ahead
  <2>0. x \notin s /\ ~Shares(rs, x) /\ \A i \in (f + 1)..k : log[i].del = {}
    BY DEF Excused
  <2>1. f <= k
    BY <1>3 DEF ListInv, ReaderOK
  <2>2. x \in rs
    BY <1>3, <2>0, <2>1, RowsStay
  <2>3. Rank(rs, x) >= o
    <3>1. CASE o = 0
      BY <1>5, <3>1, RankGrows
    <3>2. CASE o > 0
      <4>1. Ahead(log, seen[r], from[r], k, o) /\ f = from[r]
        BY <1>1, <3>2 DEF ListInv, ReaderOK
      <4>2. ~Excused(log, seen[r], from[r], k, x)
        BY <1>2, <2>0, <4>1 DEF Excused
      <4>3. QED
        BY <4>1, <4>2 DEF Ahead
    <3>3. QED
      BY <1>3, <3>1, <3>2
  <2>4. x \notin p
    <3>1. seen'[r] = seen[r] \cup p
      BY <1>2 DEF ListInv, ListTyped
    <3>2. QED
      BY <2>0, <3>1
  <2> HIDE DEF rs, o, k, f, s
  <2>5. p \in list(rs, o)
    BY <1>2, <1>4 DEF o, k
  <2>6. QED
    BY <1>3, <1>5, <2>0, <2>2, <2>3, <2>4, <2>5, PageThenAhead
<1>9. f <= k /\ upto[r] <= k
  BY <1>3 DEF ListInv, ReaderOK
<1> HIDE DEF k, o, f, rs
<1>10. ReaderOK(r)'
  BY <1>1, <1>3, <1>7, <1>8, <1>9 DEF ReaderOK, k
<1>11. \A q \in Reader \ {r} :
           /\ page'[q] = page[q] /\ offset'[q] = offset[q] /\ seen'[q] = seen[q]
           /\ from'[q] = from[q] /\ upto'[q] = upto[q]
  BY <1>1, <1>2 DEF ListInv, ListTyped
<1>12. QED
  BY <1>1, <1>6, <1>10, <1>11, ReadersStep

\* The total: at the end of the list no row has as many before it.
LEMMA ListCountStep == ASSUME ListInv, NEW r \in Reader, ListCount(r) PROVE ListInv'
<1> DEFINE k == get_read_session
           o == offset[r] + Limit
           rs == RowsOf(log, k)
<1>1. /\ page[r] = "counting"
      /\ upto' = [upto EXCEPT ![r] = k]
      /\ offset' = [offset EXCEPT ![r] = o]
      /\ page' = [page EXCEPT ![r] = IF offset'[r] < Cardinality(RowsAt(k)) THEN "idle" ELSE "done"]
      /\ UNCHANGED <<log, applied, clock, writers, seen, from>>
  BY DEF ListCount
<1>2. k \in 0..Len(log) /\ Len(log) \in Nat /\ o \in Nat /\ k' = k
  BY <1>1, ReadsCommitted, ListAssumption DEF ListInv, ListTyped, get_read_session
<1>3. rs = RowsAt(k)
  BY DEF RowsAt, RowsOf
<1>4. IsFiniteSet(rs) /\ rs \in SUBSET ListedRow
  BY <1>2, RowsInserted DEF ListInv, LogOK
<1>5. ListTyped'
  <2>1. offset' \in [Reader -> Nat] /\ upto' \in [Reader -> Nat]
    BY <1>1, <1>2 DEF ListInv, ListTyped
  <2>2. page' \in [Reader -> {"idle", "counting", "done"}]
    BY <1>1 DEF ListInv, ListTyped
  <2>3. QED
    BY <1>1, <2>1, <2>2 DEF ListInv, ListTyped, writers
<1>6. /\ page'[r] = (IF o < Cardinality(rs) THEN "idle" ELSE "done")
      /\ offset'[r] = o /\ upto'[r] = k /\ seen'[r] = seen[r] /\ from'[r] = from[r]
  BY <1>1, <1>3 DEF ListInv, ListTyped
<1>7. Ahead(log, seen[r], from[r], k, o) /\ from[r] <= k
  BY <1>1 DEF ListInv, ReaderOK
<1>8. ASSUME ~(o < Cardinality(rs))
      PROVE  \A x \in RowsOf(log, from[r]) : Excused(log, seen[r], from[r], k, x)
  <2> SUFFICES ASSUME NEW x \in RowsOf(log, from[r]), ~Excused(log, seen[r], from[r], k, x)
               PROVE  FALSE
    OBVIOUS
  <2>1. Rank(rs, x) >= o
    BY <1>7 DEF Ahead
  <2>2. x \in rs
    <3>1. \A i \in (from[r] + 1)..k : log[i].del = {}
      BY DEF Excused
    <3>2. from[r] \in Nat
      BY DEF ListInv, ListTyped
    <3>3. QED
      BY <1>2, <1>7, <3>1, <3>2, RowsStay
  <2>3. x.born \in Nat
    BY <1>4, <2>2 DEF ListedRow
  <2> HIDE DEF rs, o, k
  <2>4. Rank(rs, x) < Cardinality(rs)
    BY <1>4, <2>2, <2>3, RankBetween
  <2>5. Rank(rs, x) \in Nat /\ Cardinality(rs) \in Nat
    BY <1>4, RankGrows, FS_CardinalityType
  <2>6. QED
    BY <1>2, <1>8, <2>1, <2>4, <2>5
<1> HIDE DEF k, o, rs
<1>9. from'[r] <= k' /\ upto'[r] <= k'
  BY <1>2, <1>6, <1>7
<1>10. ReaderOK(r)'
  <2>1. log' = log
    BY <1>1
  <2>2. page'[r] = "idle" => Ahead(log', seen'[r], from'[r], k', offset'[r])
    BY <1>2, <1>6, <1>7, <2>1
  <2>3. page'[r] = "done" => \A x \in RowsOf(log', from'[r]) : Excused(log', seen'[r], from'[r], upto'[r], x)
    BY <1>6, <1>8, <2>1
  <2>4. page'[r] # "counting"
    BY <1>6
  <2>5. QED
    BY <1>9, <2>2, <2>3, <2>4 DEF ReaderOK, k
<1>11. \A q \in Reader \ {r} :
           /\ page'[q] = page[q] /\ offset'[q] = offset[q] /\ seen'[q] = seen[q]
           /\ from'[q] = from[q] /\ upto'[q] = upto[q]
  BY <1>1 DEF ListInv, ListTyped
<1>12. QED
  BY <1>1, <1>5, <1>10, <1>11, ReadersStep

\* One step per action, and the steps that leave everything as it is.
LEMMA ListInvNext == ListInv /\ [ListNext]_listVars => ListInv'
<1> SUFFICES ASSUME ListInv, [ListNext]_listVars PROVE ListInv'
  OBVIOUS
<1>1. ASSUME NEW w \in Writer,
             Begin(w) \/ Select(w) \/ Flush(w) \/ CommitAll(w) \/ Disconnect(w) \/ Rerun(w)
      PROVE  ListInv'
  BY <1>1, BeginStep, SelectStep, FlushStep, CommitStep, DisconnectStep, RerunStep
<1>2. ASSUME NEW x \in Committed, DeleteRow(x) PROVE ListInv'
  BY <1>2, DeleteStep
<1>3. CASE Apply
  BY <1>3, ApplyStep
<1>4. ASSUME NEW r \in Reader, ListRows(r) \/ ListCount(r) PROVE ListInv'
  BY <1>4, ListRowsStep, ListCountStep
<1>5. CASE UNCHANGED listVars
  <2>1. UNCHANGED <<log, applied, clock, writers, readers>>
    BY <1>5 DEF listVars
  <2>2. LogOK' /\ Grows /\ WritersOK'
    BY <2>1, WritersRest
  <2>3. ListTyped'
    BY <2>1 DEF ListInv, ListTyped, writers, readers
  <2>4. QED
    BY <2>1, <2>2, <2>3, ReadersKeep DEF ListInv
<1>6. QED
  BY <1>1, <1>2, <1>3, <1>4, <1>5 DEF ListNext, Finished

\* The invariant of seeds and lists holds always.
THEOREM ListInvAlways == ListSpec => []ListInv
BY ListInvInit, ListInvNext, PTL DEF ListSpec

\* SeedAllOrNothing, for any number of writers with any names, run again and cut
\* off any number of times.
THEOREM SeedSafe == ListSpec => []SeedAllOrNothing
<1>1. ListInv => SeedAllOrNothing
  <2> SUFFICES ASSUME ListInv PROVE SeedAllOrNothing
    OBVIOUS
  <2>1. \A k \in 0..Len(log) : \A x, y \in RowsAt(k) : x.name = y.name => x = y
    <3>1. \A k \in 0..Len(log) : RowsAt(k) = RowsOf(log, k)
      BY DEF RowsAt, RowsOf
    <3>2. QED
      BY <3>1 DEF ListInv, LogOK, UniqueIn
  <2>2. ASSUME NEW w \in Writer, place[w] = "done"
        PROVE  ToSet(Seed[w]) \subseteq UNION {NamesOf(log[i].ins) : i \in DOMAIN log}
    <3>1. ToSet(Seed[w]) \subseteq NamesOf(Inserted)
      BY <2>2 DEF ListInv, WritersOK, WriterOK, Listed
    <3>2. NamesOf(Inserted) \subseteq UNION {NamesOf(log[i].ins) : i \in DOMAIN log}
      BY DEF NamesOf, Inserted
    <3>3. QED
      BY <3>1, <3>2
  <2>3. ASSUME NEW w \in Writer, place[w] \in {"open", "failed"}, NEW x \in Committed
        PROVE  ~(x.by = w /\ x.born = born[w])
    <3>1. x \in Inserted
      <4>1. Committed = RowsOf(log, Len(log)) /\ Len(log) \in 0..Len(log)
        BY RowsInserted DEF ListInv
      <4>2. QED
        BY <4>1, RowsInserted DEF ListInv
    <3>2. QED
      BY <2>3, <3>1 DEF ListInv, WritersOK, WriterOK, Unlisted
  <2>4. QED
    BY <2>1, <2>2, <2>3 DEF SeedAllOrNothing
<1>2. QED
  BY <1>1, ListInvAlways, PTL

\* PagingMissesNothing, for any number of clients with any limit, of the primary
\* or of a replica that lags by any number of commits.
THEOREM PagesComplete == ListSpec => []PagingMissesNothing
<1>1. ListInv => PagingMissesNothing
  <2> SUFFICES ASSUME ListInv, NEW r \in Reader, page[r] = "done", NEW x \in RowsAt(from[r])
               PROVE  \/ x \in seen[r]
                      \/ \E i \in (from[r] + 1)..upto[r] : log[i].del # {}
                      \/ \E y \in RowsAt(upto[r]) \ {x} : y.born = x.born
    BY DEF PagingMissesNothing
  <2>1. RowsAt(from[r]) = RowsOf(log, from[r]) /\ RowsAt(upto[r]) = RowsOf(log, upto[r])
    BY DEF RowsAt, RowsOf
  <2>2. Excused(log, seen[r], from[r], upto[r], x)
    BY <2>1 DEF ListInv, ReaderOK
  <2>3. QED
    BY <2>1, <2>2 DEF Excused, Shares
<1>2. QED
  BY <1>1, ListInvAlways, PTL
=============================================================================
