------------------------ MODULE ItemStoreProperties ------------------------
(***************************************************************************)
(* What concurrent requests may never do to the items and to each other.   *)
(***************************************************************************)
EXTENDS ItemStore

\* Types, and: a request has a row written or locked only inside its
\* transaction, and a row is in the hands of one request.
TypeOK ==
  /\ table \in [Id -> Row \cup {NoRow}]
  /\ pc \in [Request -> {"idle", "checked", "loaded", "locked", "written", "answered", "done"}]
  /\ loaded \in [Request -> Row \cup {NoRow}]
  /\ pending \in [Request -> Row \cup {NoRow, Nothing}]
  /\ answer \in [Request -> {0, 200, 201, 204, 404, 409, 500}]
  /\ faults \in 0..MaxFaults
  /\ committed \subseteq Request
  /\ \A r \in Request : pending[r] # Nothing =>
       pc[r] \in {"locked", "written", "answered"} /\ RowHolders(r) = {}

\* Two requests that both found the name free never both create it: "the DB
\* unique constraint is the real guard" (services/item.py:35), also against
\* renames and while other transactions are open.
UniqueNames ==
  \A i, j \in Id : table[i] # NoRow /\ table[j] # NoRow /\ table[i].name = table[j].name => i = j

Commits(r) == r \in committed' \ committed

\* Of several that delete one row one does.  From its commit on the others are
\* told 404, or 500 if they fail, and never that they deleted it; and nobody is
\* told 404 before that commit, for a delete that may yet be rolled back
\* (services/item.py:51-53).  A delete whose commit fails was told 204 before,
\* and leaves the row to the next.
OneDeleteWins ==
  [][\A r \in Request : kind(r) = "delete" =>
       LET deleted == \E q \in committed \ {r} : kind(q) = "delete" /\ id(q) = id(r) IN
       /\ Commits(r) => ~deleted
       /\ answer'[r] # answer[r] =>
            /\ deleted => answer'[r] \in {404, 500}
            /\ answer'[r] = 404 /\ InitTable[id(r)] # NoRow => deleted]_vars

\* A request that was refused, or failed before its answer, changes nothing.
RefusedChangesNothing ==
  \A r \in committed : answer[r] \in {200, 201, 204}

\* A patch changes the fields it sends and leaves the rest to whoever else
\* patches the row meanwhile ("an omitted field is left untouched",
\* services/item.py:46-47); a row that was deleted meanwhile stays deleted.
OmittedFieldsUntouched ==
  [][\A r \in Request : Commits(r) /\ kind(r) = "patch" =>
       \/ table'[id(r)] = table[id(r)]
       \/ /\ table[id(r)] # NoRow
          /\ \A f \in {"name", "text"} \ DOMAIN sent(r) :
               table'[id(r)][f] = table[id(r)][f]]_vars

\* No request waits for ever for another: locks are let go whatever happens,
\* and of two patches that wait for each other one is aborted.
EveryRequestEnds == <>(\A r \in Request : pc[r] = "done")

\* What a client was told it created, it can read (tests/test_items.py:10-18),
\* as long as nobody deletes it.
CreatedIsReadable ==
  \A g \in Request : \A c \in known[g] : id(g) = id(c) => answer[g] # 404
=============================================================================
