---------------------------- MODULE ItemListing ----------------------------
(***************************************************************************)
(* The list of items, page by page: GET /items of                          *)
(* app/api/v1/routes/items.py, read from a replica when DATABASE_READ_URL  *)
(* is set (get_read_session of app/db/session.py), while                   *)
(* scripts/seed.py and the API write.                                      *)
(*                                                                         *)
(* A writer is one run of the seed: it looks for each name and adds what   *)
(* it does not find.  A create of the API is a writer with one name.  Its  *)
(* rows have the time at which its transaction began (created_at is        *)
(* now()), whenever it commits.  The replica has applied some prefix of    *)
(* what was committed.  ItemStore has the rest of the API's writing.       *)
(***************************************************************************)
EXTENDS Integers, Sequences, FiniteSets, SequencesExt

CONSTANTS
  Writer, Reader,
  Seed,         \* the names of each writer, in its order
  Limit,        \* of a page
  ReadReplica,  \* DATABASE_READ_URL is set
  NoName,
  MaxEvents     \* bound: lost connections, runs of a writer again, and deletes, together

SeedName == UNION {ToSet(Seed[w]) : w \in Writer}

ASSUME ListAssumption ==
  /\ Seed \in [Writer -> Seq(SeedName)]
  /\ \A w \in Writer : IsInjective(Seed[w])
  /\ NoName \notin SeedName
  /\ Limit \in Nat \ {0} /\ ReadReplica \in BOOLEAN
  /\ MaxEvents \in Nat

VARIABLES
  log, applied,                         \* commits, and how many the replica has
  clock, events,
  place, todo, added, rows, born,  \* of each writer; added is not flushed yet
  page, offset, seen, from, upto        \* of each reader; from, upto: its first and last snapshot

writers == <<place, todo, added, rows, born>>
readers == <<page, offset, seen, from, upto>>
listVars == <<log, applied, clock, events, writers, readers>>

\* The table after the first k commits.
RowsAt(k) == (UNION {log[i].ins : i \in 1..k}) \ (UNION {log[i].del : i \in 1..k})
Committed == RowsAt(Len(log))
NamesOf(rs) == {x.name : x \in rs}

ListInit ==
  /\ log = <<>> /\ applied = 0 /\ clock = 0 /\ events = 0
  /\ place = [w \in Writer |-> "idle"]
  /\ todo = Seed
  /\ added = [w \in Writer |-> NoName]
  /\ rows = [w \in Writer |-> {}]
  /\ born = [w \in Writer |-> 0]
  /\ page = [r \in Reader |-> "idle"]
  /\ offset = [r \in Reader |-> 0]
  /\ seen = [r \in Reader |-> {}]
  /\ from = [r \in Reader |-> 0] /\ upto = [r \in Reader |-> 0]

-----------------------------------------------------------------------------
(* seed.  A definition whose comment starts with "Slip:" is no part of the *)
(* specification: it is the definition after it with one plausible mistake *)
(* in it, there to show that a property notices.                           *)

Begin(w) ==
  /\ place[w] = "idle"
  /\ place' = [place EXCEPT ![w] = "open"]
  /\ clock' = clock + 1
  /\ born' = [born EXCEPT ![w] = clock']
  /\ UNCHANGED <<log, applied, events, todo, added, rows, readers>>

\* SELECT: a name that is there is skipped, another one is added.
Select(w) ==
  /\ place[w] = "open" /\ added[w] = NoName /\ todo[w] # <<>>
  /\ LET name == Head(todo[w]) IN
       added' = [added EXCEPT ![w] = IF name \in NamesOf(Committed) THEN NoName ELSE name]
  /\ todo' = [todo EXCEPT ![w] = Tail(@)]
  /\ UNCHANGED <<log, applied, clock, events, place, rows, born, readers>>

\* Slip: a commit after every name.
commitEach(w, rs) ==
  /\ log' = Append(log, [ins |-> rs \ rows[w], del |-> {}])
  /\ rows' = [rows EXCEPT ![w] = rs]

hold(w, rs) ==
  /\ rows' = [rows EXCEPT ![w] = rs]
  /\ UNCHANGED log

Rollback(w) ==
  /\ place' = [place EXCEPT ![w] = "failed"]
  /\ rows' = [rows EXCEPT ![w] = {}]
  /\ added' = [added EXCEPT ![w] = NoName]

\* INSERT, by the autoflush before the next SELECT or by the commit.  It waits
\* for whoever has inserted the name and not committed; a name that has been
\* committed meanwhile is an IntegrityError.
Flush(w) ==
  /\ place[w] = "open" /\ added[w] # NoName
  /\ \A v \in Writer \ {w} : place[v] = "open" => added[w] \notin NamesOf(rows[v])
  /\ IF added[w] \in NamesOf(Committed)
     THEN Rollback(w) /\ UNCHANGED log
     ELSE /\ hold(w, rows[w] \cup {[name |-> added[w], born |-> born[w], by |-> w]})
          /\ added' = [added EXCEPT ![w] = NoName]
          /\ UNCHANGED place
  /\ UNCHANGED <<applied, clock, events, todo, born, readers>>

CommitAll(w) ==
  /\ place[w] = "open" /\ added[w] = NoName /\ todo[w] = <<>>
  /\ place' = [place EXCEPT ![w] = "done"]
  /\ log' = IF rows[w] \subseteq Committed THEN log
            ELSE Append(log, [ins |-> rows[w] \ Committed, del |-> {}])
  /\ UNCHANGED <<applied, clock, events, todo, added, rows, born, readers>>

Disconnect(w) ==
  /\ place[w] = "open" /\ events < MaxEvents
  /\ events' = events + 1
  /\ Rollback(w)
  /\ UNCHANGED <<log, applied, clock, todo, born, readers>>

\* "Safe to re-run"
Rerun(w) ==
  /\ place[w] \in {"done", "failed"} /\ events < MaxEvents
  /\ events' = events + 1
  /\ place' = [place EXCEPT ![w] = "idle"]
  /\ todo' = [todo EXCEPT ![w] = Seed[w]]
  /\ rows' = [rows EXCEPT ![w] = {}]
  /\ UNCHANGED <<log, applied, clock, added, born, readers>>

\* DELETE /items/{item_id}
DeleteRow(x) ==
  /\ events < MaxEvents
  /\ events' = events + 1
  /\ log' = Append(log, [ins |-> {}, del |-> {x}])
  /\ UNCHANGED <<applied, clock, writers, readers>>

Apply ==
  /\ ReadReplica /\ applied < Len(log)
  /\ applied' = applied + 1
  /\ UNCHANGED <<log, clock, events, writers, readers>>

-----------------------------------------------------------------------------
(* list_items *)

get_read_session == IF ReadReplica THEN applied ELSE Len(log)

Least(m, n) == IF m < n THEN m ELSE n

\* Slip: no ORDER BY.
anyPages(rs, o) == {p \in SUBSET rs : Cardinality(p) = Least(Limit, Cardinality(rs) - Least(o, Cardinality(rs)))}

\* LIMIT and OFFSET on rows that are ordered by created_at, the latest first.
\* Rows of one time come in any order.
list(rs, o) ==
  LET skipped == Least(o, Cardinality(rs))
      length  == Least(Limit, Cardinality(rs) - skipped)
      before(s, t) == \A x \in s, y \in t : x.born >= y.born
  IN {p \in SUBSET rs : /\ Cardinality(p) = length
                        /\ \E b \in SUBSET (rs \ p) :
                             Cardinality(b) = skipped /\ before(b, rs \ b) /\ before(p, rs \ (b \cup p))}

\* The first statement of ItemService.list.
ListRows(r) ==
  /\ page[r] = "idle"
  /\ \E p \in list(RowsAt(get_read_session), offset[r]) : seen' = [seen EXCEPT ![r] = @ \cup p]
  /\ from' = [from EXCEPT ![r] = IF offset[r] = 0 THEN get_read_session ELSE @]
  /\ page' = [page EXCEPT ![r] = "counting"]
  /\ UNCHANGED <<log, applied, clock, events, writers, offset, upto>>

\* The second one: the total, with a snapshot of its own; the client asks for
\* the next page while there is one.
ListCount(r) ==
  /\ page[r] = "counting"
  /\ upto' = [upto EXCEPT ![r] = get_read_session]
  /\ offset' = [offset EXCEPT ![r] = @ + Limit]
  /\ page' = [page EXCEPT ![r] = IF offset'[r] < Cardinality(RowsAt(get_read_session)) THEN "idle" ELSE "done"]
  /\ UNCHANGED <<log, applied, clock, events, writers, seen, from>>

-----------------------------------------------------------------------------
Finished ==
  /\ \A w \in Writer : place[w] \in {"done", "failed"}
  /\ \A r \in Reader : page[r] = "done"
  /\ UNCHANGED listVars

ListNext ==
  \/ \E w \in Writer :
       Begin(w) \/ Select(w) \/ Flush(w) \/ CommitAll(w) \/ Disconnect(w) \/ Rerun(w)
  \/ \E x \in Committed : DeleteRow(x)
  \/ Apply
  \/ \E r \in Reader : ListRows(r) \/ ListCount(r)
  \/ Finished

ListSpec == ListInit /\ [][ListNext]_listVars

-----------------------------------------------------------------------------
\* A seed is all or nothing, with other seeds, creates and itself run again at
\* any moment: what it inserted is there for everyone only when it is done, and
\* then all its names have been there; a name is never there twice ("Safe to
\* re-run", seed.py:6).  With the check for deadlock: two seeds never wait for
\* each other for ever.
SeedAllOrNothing ==
  /\ \A k \in 0..Len(log) : \A x, y \in RowsAt(k) : x.name = y.name => x = y
  /\ \A w \in Writer : place[w] = "done" =>
       ToSet(Seed[w]) \subseteq UNION {NamesOf(log[i].ins) : i \in DOMAIN log}
  /\ \A w \in Writer : place[w] \in {"open", "failed"} =>
       \A x \in Committed : ~(x.by = w /\ x.born = born[w])

\* Whoever follows the pages to the end, of a replica that lags and with rows
\* that appear meanwhile (late commits that began early among them), has seen
\* every row there was at the first page; unless a row was deleted meanwhile,
\* which moves others onto pages already read, or the row shares its time with
\* another one, as those of one seed do.
PagingMissesNothing ==
  \A r \in Reader : page[r] = "done" =>
    \A x \in RowsAt(from[r]) :
      \/ x \in seen[r]
      \/ \E i \in (from[r] + 1)..upto[r] : log[i].del # {}
      \/ \E y \in RowsAt(upto[r]) \ {x} : y.born = x.born
=============================================================================
