----------------------------- MODULE ItemStore -----------------------------
(***************************************************************************)
(* The items resource: app/services/item.py over app/repositories/, inside *)
(* the session of app/db/session.py, on the table of                       *)
(* app/db/models/item.py in a PostgreSQL at its default isolation level,   *)
(* READ COMMITTED.  A step of a request is one statement of its            *)
(* transaction; an UPDATE that may wait twice, for its row and for the     *)
(* name it wants, is two.                                                  *)
(*                                                                         *)
(* FastAPI sends the answer of a handler that returned before it resumes   *)
(* get_session after its yield, so that the commit comes after the answer. *)
(* When a handler raises, the rollback comes first.                        *)
(*                                                                         *)
(* A definition whose comment starts with "Slip:" is no part of the        *)
(* specification: it is the definition after it with one plausible mistake *)
(* in it, there to show that a property notices.                           *)
(***************************************************************************)
EXTENDS Integers, FiniteSets

CONSTANTS
  Id, Name, Text,
  Request,
  Op,           \* what each request asks for: [kind, id, sent]
  InitTable,    \* the rows there are at the start
  NoRow,
  Nothing,      \* pending: no row is written or locked
  MaxFaults     \* bound: lost connections, killed processes, cancelled tasks

Row  == [name : Name, text : Text]
Kind == {"create", "patch", "delete", "get"}

ASSUME ConstantsAssumption ==
  /\ NoRow \notin Row /\ Nothing \notin Row \cup {NoRow}
  /\ InitTable \in [Id -> Row \cup {NoRow}]
  /\ \A i, j \in Id : InitTable[i] # NoRow /\ InitTable[j] # NoRow
                        /\ InitTable[i].name = InitTable[j].name => i = j
  /\ MaxFaults \in Nat

\* A create makes a row of its own (uuid4); a patch names the fields it sends.
ASSUME OpAssumption ==
  /\ \A r \in Request : Op[r].kind \in Kind /\ Op[r].id \in Id
  /\ \A r \in Request : Op[r].kind = "create" =>
       /\ Op[r].sent \in Row /\ InitTable[Op[r].id] = NoRow
       /\ \A q \in Request \ {r} : Op[q].kind = "create" => Op[q].id # Op[r].id
  /\ \A r \in Request : Op[r].kind = "patch" =>
       /\ DOMAIN Op[r].sent \subseteq {"name", "text"}
       /\ "name" \in DOMAIN Op[r].sent => Op[r].sent.name \in Name
       /\ "text" \in DOMAIN Op[r].sent => Op[r].sent.text \in Text

VARIABLES
  table,      \* the committed rows
  pc,         \* idle, checked, loaded, locked, written, answered, done
  loaded,     \* the row a patch has read
  pending,    \* the row a request has written and not committed, or what it locks
  answer,     \* the status the client is sent, from where it is decided; 0 before
  faults,
  (* History: *)
  committed,  \* requests whose transaction was committed
  known       \* the creates that had been answered when a get was sent

vars == <<table, pc, loaded, pending, answer, faults, committed, known>>

id(r)   == Op[r].id
kind(r) == Op[r].kind
sent(r) == Op[r].sent

Init ==
  /\ table = InitTable
  /\ pc = [r \in Request |-> "idle"]
  /\ loaded = [r \in Request |-> NoRow]
  /\ pending = [r \in Request |-> Nothing]
  /\ answer = [r \in Request |-> 0]
  /\ faults = 0
  /\ committed = {}
  /\ known = [r \in Request |-> {}]

-----------------------------------------------------------------------------
(* PostgreSQL *)

\* Some other row has the name.
Taken(i, n) == \E j \in Id \ {i} : table[j] # NoRow /\ table[j].name = n

Names(row) == IF row = NoRow THEN {} ELSE {row.name}

\* Who must end before r may touch the row it is about, or claim the name n:
\* whoever has the row, and whoever gives up or takes that name.
RowHolders(r) == {q \in Request \ {r} : pending[q] # Nothing /\ id(q) = id(r)}

NameHolders(r, n) ==
  {q \in Request \ {r} :
     pending[q] # Nothing /\ n \in Names(table[id(q)]) \cup Names(pending[q])}

-----------------------------------------------------------------------------
(* Sessions *)

Goto(r, loc) == pc' = [pc EXCEPT ![r] = loc]

\* Slip: the session commits whatever happened.
CommitsAnyway(r, status) ==
  /\ Goto(r, "done")
  /\ answer' = [answer EXCEPT ![r] = status]
  /\ table' = IF pending[r] = Nothing THEN table
              ELSE [table EXCEPT ![id(r)] = pending[r]]
  /\ pending' = [pending EXCEPT ![r] = Nothing]
  /\ committed' = committed \cup {r}
  /\ UNCHANGED <<loaded, known>>

\* The statement before decides what is answered, and no commit follows: the
\* handler raises, or only reads.  PostgreSQL undoes a transaction and drops its
\* locks with the statement that fails, and one that found nothing has written
\* nothing, so that the rollback of the session, which the answer waits for,
\* changes nothing more for anybody.  The rows may change before the client has
\* the answer, as they may once it has it; "answer" is what they were when it
\* was decided, and no property compares it with the rows of a later state.
Close(r, status) ==
  /\ Goto(r, "done")
  /\ answer' = [answer EXCEPT ![r] = status]
  /\ pending' = [pending EXCEPT ![r] = Nothing]
  /\ UNCHANGED <<table, loaded, committed, known>>

\* The statement wrote row (NoRow: deleted it), and the handler returns.
Written(r, row) ==
  /\ Goto(r, "written")
  /\ pending' = [pending EXCEPT ![r] = row]
  /\ UNCHANGED <<table, loaded, answer, faults, committed, known>>

Success(r) ==
  CASE kind(r) = "create" -> 201 [] kind(r) = "delete" -> 204 [] OTHER -> 200

Answer(r) ==
  /\ pc[r] = "written"
  /\ answer' = [answer EXCEPT ![r] = Success(r)]
  /\ Goto(r, "answered")
  /\ UNCHANGED <<table, loaded, pending, faults, committed, known>>

Commit(r) ==
  /\ pc[r] = "answered"
  /\ table' = IF pending[r] = Nothing THEN table
              ELSE [table EXCEPT ![id(r)] = pending[r]]
  /\ pending' = [pending EXCEPT ![r] = Nothing]
  /\ committed' = committed \cup {r}
  /\ Goto(r, "done")
  /\ UNCHANGED <<loaded, answer, faults, known>>

\* Slip: the transaction of a request that failed is left open.
NotClosed(r) ==
  /\ pc[r] \in {"checked", "loaded", "locked", "written"} /\ faults < MaxFaults
  /\ faults' = faults + 1
  /\ Goto(r, "done")
  /\ answer' = [answer EXCEPT ![r] = 500]
  /\ UNCHANGED <<table, loaded, pending, committed, known>>

\* The connection is lost, or the request is cancelled, before the answer.
Fail(r) ==
  /\ pc[r] \in {"checked", "loaded", "locked", "written"} /\ faults < MaxFaults
  /\ faults' = faults + 1
  /\ Close(r, 500)

\* The same after the answer: the client keeps it, the write is gone.
CommitFails(r) ==
  /\ pc[r] = "answered" /\ faults < MaxFaults
  /\ faults' = faults + 1
  /\ pending' = [pending EXCEPT ![r] = Nothing]
  /\ Goto(r, "done")
  /\ UNCHANGED <<table, loaded, answer, committed, known>>

-----------------------------------------------------------------------------
(* ItemService.create *)

\* get_by_name.
Check(r) ==
  /\ kind(r) = "create" /\ pc[r] = "idle"
  /\ \/ Taken(id(r), sent(r).name) /\ Close(r, 409) /\ UNCHANGED faults
     \/ /\ ~Taken(id(r), sent(r).name)
        /\ Goto(r, "checked")
        /\ UNCHANGED <<table, loaded, pending, answer, faults, committed, known>>

\* Slip: the column name is not unique, and get_by_name is the only guard.
InsertUnguarded(r) ==
  /\ kind(r) = "create" /\ pc[r] = "checked"
  /\ Written(r, sent(r))

\* The INSERT waits for whoever has claimed the name; IntegrityError is a 409.
Insert(r) ==
  /\ kind(r) = "create" /\ pc[r] = "checked"
  /\ NameHolders(r, sent(r).name) = {}
  /\ \/ Taken(id(r), sent(r).name) /\ Close(r, 409) /\ UNCHANGED faults
     \/ ~Taken(id(r), sent(r).name) /\ Written(r, sent(r))

-----------------------------------------------------------------------------
(* ItemService.update *)

\* ItemService.get.
Load(r) ==
  /\ kind(r) = "patch" /\ pc[r] = "idle"
  /\ \/ table[id(r)] = NoRow /\ Close(r, 404) /\ UNCHANGED faults
     \/ /\ table[id(r)] # NoRow
        /\ loaded' = [loaded EXCEPT ![r] = table[id(r)]]
        /\ Goto(r, "loaded")
        /\ UNCHANGED <<table, pending, answer, faults, committed, known>>

\* Slip: the whole object is written back, not the fields that were sent.
WritesAll(r) == DOMAIN loaded[r]

\* The fields the flush writes: those sent with another value than was read.
Changed(r) == {f \in DOMAIN sent(r) : sent(r)[f] # loaded[r][f]}

New(r) == [f \in DOMAIN loaded[r] |-> IF f \in DOMAIN sent(r) THEN sent(r)[f] ELSE loaded[r][f]]

\* Nothing to flush; the refresh fails if the row is gone.
FlushNothing(r) ==
  /\ kind(r) = "patch" /\ pc[r] = "loaded" /\ Changed(r) = {}
  /\ \/ table[id(r)] = NoRow /\ Close(r, 500) /\ UNCHANGED faults
     \/ table[id(r)] # NoRow /\ Written(r, Nothing)

\* The UPDATE waits for the row; if it is gone, StaleDataError is a 500.
Lock(r) ==
  /\ kind(r) = "patch" /\ pc[r] = "loaded" /\ Changed(r) # {}
  /\ RowHolders(r) = {}
  /\ \/ table[id(r)] = NoRow /\ Close(r, 500) /\ UNCHANGED faults
     \/ /\ table[id(r)] # NoRow
        /\ pending' = [pending EXCEPT ![r] = table[id(r)]]
        /\ Goto(r, "locked")
        /\ UNCHANGED <<table, loaded, answer, faults, committed, known>>

\* The status of an UPDATE to a name that is taken: IntegrityError is not
\* caught as it is in create.
uncaught == 500

\* The new row goes into the unique index, after whoever has claimed its name.
Update(r) ==
  LET row == [f \in DOMAIN pending[r] |-> IF f \in Changed(r) THEN New(r)[f] ELSE pending[r][f]] IN
  /\ pc[r] = "locked"
  /\ \/ "name" \notin Changed(r) /\ Written(r, row)
     \/ /\ "name" \in Changed(r) /\ NameHolders(r, row.name) = {}
        /\ \/ Taken(id(r), row.name) /\ Close(r, uncaught) /\ UNCHANGED faults
           \/ ~Taken(id(r), row.name) /\ Written(r, row)

\* Two UPDATEs have locked their rows and wait for each other's name:
\* PostgreSQL aborts one, and DBAPIError is a 500.
Waits(r, q) ==
  /\ pc[r] = "locked" /\ pc[q] = "locked" /\ "name" \in Changed(r)
  /\ q \in NameHolders(r, New(r).name)

Deadlock(r) ==
  /\ \E q \in Request \ {r} : Waits(r, q) /\ Waits(q, r)
  /\ Close(r, 500) /\ UNCHANGED faults

-----------------------------------------------------------------------------
\* Slip: delete looks for the row first and does not count what it deleted.
DeleteBlindly(r) ==
  /\ kind(r) = "delete" /\ pc[r] = "idle"
  /\ \/ table[id(r)] = NoRow /\ Close(r, 404) /\ UNCHANGED faults
     \/ table[id(r)] # NoRow /\ Written(r, NoRow)

\* ItemService.delete: one DELETE, that waits for the row.
Delete(r) ==
  /\ kind(r) = "delete" /\ pc[r] = "idle"
  /\ RowHolders(r) = {}
  /\ \/ table[id(r)] = NoRow /\ Close(r, 404) /\ UNCHANGED faults
     \/ table[id(r)] # NoRow /\ Written(r, NoRow)

\* get_item is sent, and answered from what is committed.
Ask(r) ==
  /\ kind(r) = "get" /\ pc[r] = "idle"
  /\ known' = [known EXCEPT ![r] = {q \in Request : kind(q) = "create" /\ answer[q] = 201}]
  /\ Goto(r, "checked")
  /\ UNCHANGED <<table, loaded, pending, answer, faults, committed>>

Get(r) ==
  /\ kind(r) = "get" /\ pc[r] = "checked"
  /\ \/ table[id(r)] = NoRow /\ Close(r, 404)
     \/ table[id(r)] # NoRow /\ Close(r, 200)
  /\ UNCHANGED faults

-----------------------------------------------------------------------------
Serve(r) ==
  \/ Check(r) \/ Insert(r)
  \/ Load(r) \/ FlushNothing(r) \/ Lock(r) \/ Update(r) \/ Deadlock(r)
  \/ Delete(r) \/ Ask(r) \/ Get(r)
  \/ Answer(r) \/ Commit(r)

Next == \E r \in Request : Serve(r) \/ Fail(r) \/ CommitFails(r)

\* As long as some request can go on, one does: the event loop runs what is
\* ready, and PostgreSQL executes what waits for no lock.
Spec == Init /\ [][Next]_vars /\ WF_vars(\E r \in Request : Serve(r))
=============================================================================
