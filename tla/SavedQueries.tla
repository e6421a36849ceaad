---------------------------- MODULE SavedQueries ----------------------------
(***************************************************************************)
(* The console's record of queries (lib/storage/queries.py and the views   *)
(* of queries and saved queries).  Every query run is a row whose id is a  *)
(* snowflake, taken when the row is inserted and visible once it commits.  *)
(* A saved query points to its current query, whose parents are its        *)
(* history.  Several requests run at once.                                 *)
(***************************************************************************)
EXTENDS Sequences, SequencesExt, FiniteSets, FiniteSetsExt, Naturals

CONSTANTS Requests, SavedIds, PageLimit, HistoryLimit, MaxQueries

VARIABLES
  nextId,    \* the next snowflake
  queries,   \* queries[q]: the committed rows, by id; parent 0 for none
  saved,     \* saved[s]: the query of a saved query, 0 if there is none
  origin,    \* origin[s]: the query it was created for
  request,   \* request[r]: a request under way
  reader     \* a user who reads the pages of all queries

queryVars == <<nextId, queries, saved, origin, request, reader>>

NoRequest == [kind |-> "none", saved |-> 0, id |-> 0, parent |-> 0]
Unread == [before |-> 0, there |-> {}, seen |-> <<>>, done |-> FALSE]

QueriesInit ==
  /\ nextId = 1 /\ queries = <<>>
  /\ saved = [s \in SavedIds |-> 0] /\ origin = [s \in SavedIds |-> 0]
  /\ request = [r \in Requests |-> NoRequest]
  /\ reader = Unread

Idle(r) == request[r].kind = "none"
Ids == DOMAIN queries
Committed(id, parent) == [q \in Ids \cup {id} |-> IF q = id THEN parent ELSE queries[q]]

\* create_query_record: Query.insert takes the id, then commits.
CreateQuery(r) ==
  /\ Idle(r) /\ nextId <= MaxQueries
  /\ nextId' = nextId + 1
  /\ request' = [request EXCEPT ![r] = [NoRequest EXCEPT !.kind = "create", !.id = nextId]]
  /\ UNCHANGED <<queries, saved, origin, reader>>
CommitQuery(r) ==
  /\ request[r].kind = "create"
  /\ queries' = Committed(request[r].id, 0)
  /\ request' = [request EXCEPT ![r] = NoRequest]
  /\ UNCHANGED <<nextId, saved, origin, reader>>

\* create_saved_query
CreateSaved(s, q) ==
  /\ saved[s] = 0 /\ origin[s] = 0 /\ q \in Ids
  /\ saved' = [saved EXCEPT ![s] = q] /\ origin' = [origin EXCEPT ![s] = q]
  /\ UNCHANGED <<nextId, queries, request, reader>>

\* Faulty variant: the new query is not linked to the one it replaces.
ReadSavedUnlinked(r, s) ==
  /\ Idle(r) /\ saved[s] # 0
  /\ request' = [request EXCEPT ![r] = [NoRequest EXCEPT !.kind = "update", !.saved = s]]
  /\ UNCHANGED <<nextId, queries, saved, origin, reader>>
\* update_saved_query reads the row; the query it points to is the new one's parent.
ReadSaved(r, s) ==
  /\ Idle(r) /\ saved[s] # 0
  /\ request' = [request EXCEPT ![r] = [NoRequest EXCEPT !.kind = "update", !.saved = s, !.parent = saved[s]]]
  /\ UNCHANGED <<nextId, queries, saved, origin, reader>>
\* update_with_query inserts the query and moves the pointer in one commit; if the
\* saved query is gone the update matches no row and nothing is committed.
UpdateWithQuery(r) ==
  /\ request[r].kind = "update" /\ nextId <= MaxQueries
  /\ nextId' = nextId + 1
  /\ request' = [request EXCEPT ![r] = NoRequest]
  /\ IF saved[request[r].saved] = 0 THEN UNCHANGED <<queries, saved>>
     ELSE /\ queries' = Committed(nextId, request[r].parent)
          /\ saved' = [saved EXCEPT ![request[r].saved] = nextId]
  /\ UNCHANGED <<origin, reader>>
DeleteSaved(s) ==
  /\ saved[s] # 0 /\ saved' = [saved EXCEPT ![s] = 0]
  /\ UNCHANGED <<nextId, queries, origin, request, reader>>

\* Faulty variant: the last query of a page is the first of the next.
GetAllInclusive(before) ==
  LET older == {q \in Ids : before = 0 \/ q <= before}
  IN  SubSeq(SetToSortSeq(older, >), 1, Min({PageLimit, Cardinality(older)}))
\* Query.get_all: the newest of those before an id.
GetAll(before) ==
  LET older == {q \in Ids : before = 0 \/ q < before}
  IN  SubSeq(SetToSortSeq(older, >), 1, Min({PageLimit, Cardinality(older)}))

\* A user asks for the next page until one is empty.
ReadQueries ==
  /\ ~reader.done
  /\ LET page == GetAll(reader.before)
     IN  reader' = [before |-> IF page = <<>> THEN reader.before ELSE Last(page),
                    there |-> IF reader = Unread THEN Ids ELSE reader.there,
                    seen |-> reader.seen \o page, done |-> page = <<>>]
  /\ UNCHANGED <<nextId, queries, saved, origin, request>>

RECURSIVE Chain(_)
Chain(q) == IF q \notin Ids THEN {} ELSE {q} \cup Chain(queries[q])
\* get_all_for_saved_query: the query and its parents, newest first.
History(s) ==
  LET all == SetToSortSeq(Chain(saved[s]), >)
  IN  SubSeq(all, 1, Min({HistoryLimit, Len(all)}))

QueriesNext ==
  \/ \E r \in Requests : CreateQuery(r) \/ CommitQuery(r) \/ UpdateWithQuery(r) \/ \E s \in SavedIds : ReadSaved(r, s)
  \/ \E s \in SavedIds : DeleteSaved(s) \/ \E q \in Ids : CreateSaved(s, q)
  \/ ReadQueries

-----------------------------------------------------------------------------
\* However many updates race, the history of a saved query starts with its current
\* query and, unless it is cut at the limit, goes back to the one it was created for.
HistoryReachesOrigin ==
  \A s \in SavedIds : saved[s] # 0 =>
    LET h == History(s)
    IN  Head(h) = saved[s] /\ (Len(h) = HistoryLimit \/ origin[s] \in Range(h))

\* A reader of all pages sees every query that was there at the first page, none
\* twice, while new ones arrive and commit out of the order of their ids.
PagesComplete ==
  /\ \A i, j \in DOMAIN reader.seen : i < j => reader.seen[i] > reader.seen[j]
  /\ reader.done => reader.there \subseteq Range(reader.seen)
=============================================================================
