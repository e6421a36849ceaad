---------------------------- MODULE EventSearch ----------------------------
(***************************************************************************)
(* The console's search for events (ui_api/osprey/lib/druid.py,            *)
(* views/events.py, lib/storage/stored_execution_result.py): a user reads  *)
(* the pages of a scan while events arrive, each in the index and, unless  *)
(* the insert fails, in the store of execution results.  Times are in half *)
(* seconds; a page token keeps the whole second.  An event has an action,  *)
(* the values of its entity features, and the answer of the user's query.  *)
(***************************************************************************)
EXTENDS Abilities, ResultStores, FiniteSetsExt, Integers

CONSTANTS
  Asked,        \* what users ask: an order, the start, filters, the ability they have, the store
  EventKinds,   \* the actions, features and answers that events have
  Features,     \* the features that hold an entity of the type asked for
  Limit, MaxTime, MaxEvents

VARIABLES
  events,    \* the events of the index
  stored,    \* the ids the store holds
  scan       \* the user's scan: what is asked, and the pages read so far

searchVars == <<events, stored, scan>>

NoPage == 0 - 1

Unstarted(asked) == [asked |-> asked, next |-> NoPage, pages |-> <<>>, cuts |-> {}, unread |-> {}, there |-> {}, done |-> FALSE]
SearchInit == events = {} /\ stored = {} /\ scan \in {Unstarted(asked) : asked \in Asked}

\* An event of the output sinks: its result is stored, or the store swallows the
\* error of the insert.
Ingest(e) ==
  /\ Cardinality(events) < MaxEvents
  /\ events' = events \cup {e}
  /\ stored' \in {stored, stored \cup {e.id}}
  /\ UNCHANGED scan

-----------------------------------------------------------------------------
(* One page.                                                               *)

\* EntityFilter.wrap_filter: any of the features of the entity's type has its id.
EntityFilter(e, id) == \E f \in Features : e.of.features[f] = id

\* _get_query_filter
AbilityFilter(e, a) ==
  CASE a.all -> TRUE
    [] a.specific # {} -> \E x \in a.specific : e.of.action = x
    [] OTHER -> ~\E x \in a.except : e.of.action = x

\* Faulty variant: the abilities narrow only a query that has a filter.
SelectedByUser(e, q) ==
  /\ q.filtered => e.of.match
  /\ q.entity # "none" => EntityFilter(e, q.entity)
  /\ q.filtered \/ q.entity # "none" => AbilityFilter(e, q.ability)
\* _query_with_filter: the user's filter, the entity's and the abilities' together.
Selected(e, q) ==
  /\ q.filtered => e.of.match
  /\ q.entity # "none" => EntityFilter(e, q.entity)
  /\ AbilityFilter(e, q.ability)

\* Faulty variant: the second of the page token is part of the next page.
IntervalClosed(q, next) ==
  IF next = NoPage THEN q.start..MaxTime
  ELSE IF q.order = "ASCENDING" THEN (2 * (next \div 2))..MaxTime ELSE q.start..next
\* Faulty variant: the page token is rounded up.
IntervalUp(q, next) ==
  IF next = NoPage THEN q.start..MaxTime
  ELSE IF q.order = "ASCENDING" THEN (2 * ((next + 1) \div 2))..MaxTime ELSE q.start..(2 * (next \div 2) - 1)
\* The times a page may have: the token's second replaces the start or the end, and
\* Druid's intervals exclude their end.
Interval(q, next) ==
  LET second == 2 * (next \div 2)
  IN  CASE next = NoPage -> q.start..MaxTime
        [] q.order = "ASCENDING" -> second..MaxTime
        [] OTHER -> q.start..(second - 1)
\* A descending page whose token's second begins before the start is a ValueError.
StartAfterEnd(q, next) == next # NoPage /\ q.order = "DESCENDING" /\ q.start > 2 * (next \div 2)

InOrder(seq, order) ==
  \A i, j \in DOMAIN seq : i < j =>
    IF order = "ASCENDING" THEN seq[i].time <= seq[j].time ELSE seq[i].time >= seq[j].time

\* get_many: what the store answers for the ids, newest first.
GetMany(read) == {s \in SetToSeqs(read) : InOrder(s, "DESCENDING")}

\* scan_query: the index gives one event more than the page holds, whose time is
\* the token of the next page.
ReadPage ==
  /\ ~scan.done /\ ~StartAfterEnd(scan.asked, scan.next)
  /\ LET q == scan.asked
         found == {e \in events : Selected(e, q) /\ e.time \in Interval(q, scan.next)}
     IN  \E result \in {s \in SetToSeqs(found) : InOrder(s, q.order)} :
           LET more == Len(result) > Limit
               page == IF more THEN SubSeq(result, 1, Limit) ELSE result
               rows == {e \in Range(page) : e.id \in stored}
           IN  \E read \in SelectMany(q.store, rows) : \E shown \in GetMany(read) :
                 scan' = [scan EXCEPT
                   !.pages = Append(@, shown), !.done = ~more, !.unread = @ \cup (rows \ read),
                   !.next = IF more THEN result[Limit + 1].time ELSE NoPage,
                   !.cuts = IF more THEN @ \cup {result[Limit + 1].time \div 2} ELSE @,
                   !.there = IF scan.pages = <<>> THEN events ELSE @]
  /\ UNCHANGED <<events, stored>>

RefusePage ==
  /\ ~scan.done /\ StartAfterEnd(scan.asked, scan.next)
  /\ scan' = [scan EXCEPT !.done = TRUE]
  /\ UNCHANGED <<events, stored>>

\* Bounds: MaxEvents, MaxTime, and at most MaxEvents + 1 pages.
SearchNext ==
  \/ \E kind \in EventKinds, time \in 0..MaxTime : Ingest([id |-> Cardinality(events) + 1, time |-> time, of |-> kind])
  \/ Len(scan.pages) <= MaxEvents /\ ReadPage
  \/ RefusePage

-----------------------------------------------------------------------------
Shown == UNION {Range(scan.pages[i]) : i \in DOMAIN scan.pages}
Answers(e) ==
  LET q == scan.asked
  IN  /\ q.filtered => e.of.match
      /\ q.entity # "none" => q.entity \in Range(e.of.features)
      /\ ItemIsAllowed(q.ability, e.of.action)

\* Every event a scan shows answers the query, the entity and the user's abilities,
\* whichever of the three are given, and is of the period asked for; an ascending scan
\* may reach back to the whole second its period begins in.
ShownIsAllowed ==
  \A e \in Shown :
    /\ Answers(e)
    /\ IF scan.asked.order = "ASCENDING" THEN e.time \div 2 >= scan.asked.start \div 2 ELSE e.time >= scan.asked.start

\* A descending scan, the console's default, shows no event twice, although events
\* arrive between its pages.
ShownOnce ==
  scan.asked.order = "DESCENDING" =>
    \A i, j \in DOMAIN scan.pages : i # j => Range(scan.pages[i]) \cap Range(scan.pages[j]) = {}

Missed == {e \in scan.there : Answers(e) /\ e.time >= scan.asked.start /\ e.id \in stored /\ e \notin Shown}

\* An ascending scan that ends has shown every stored event that was there when it
\* started; a descending one has missed only events of a second in which a page was
\* cut, because the token keeps whole seconds and the interval excludes its end.  A
\* store that swallows the errors of a read hides what it could not read, BigTable
\* never does.
MissedOnlyAtCuts ==
  /\ scan.asked.store = "bigtable" => scan.unread = {}
  /\ scan.done => \A e \in Missed \ scan.unread : scan.asked.order = "DESCENDING" /\ e.time \div 2 \in scan.cuts

-----------------------------------------------------------------------------
(* The counts of a feature's values in a period and in the one before, and *)
(* their export (TopNDruidQuery in lib/druid.py, topn_query_csv in         *)
(* views/events.py).  Druid gives, for each timestamp, rows of a value and *)
(* its count; a row that does not parse is dropped.  The comparison walks  *)
(* a Python set: its rows come in any order.                               *)

NoKey == "null"          \* the missing value, exported as the text of None
Unknown == 0 - 1         \* no count of the period before

\* _sanitize_results
Sanitize(results) ==
  SelectSeq([i \in DOMAIN results |-> SelectSeq(results[i], LAMBDA r : r.ok)], LAMBDA p : p # <<>>)

CountOf(rows, key) ==
  LET at == {i \in DOMAIN rows : rows[i].key = key}
  IN  IF at = {} THEN 0 ELSE rows[Max(at)].count
KeysOf(rows) == {rows[i].key : i \in DOMAIN rows}

\* _analyze_pop_results: one set of differences for each pair of timestamps.
AnalyzePop(current, previous) ==
  IF previous = <<>> THEN <<>>
  ELSE [i \in 1..Min({Len(current), Len(previous)}) |->
         {[key |-> k, count |-> CountOf(current[i], k), previous |-> CountOf(previous[i], k)] :
            k \in {x \in KeysOf(current[i]) \cup KeysOf(previous[i]) : CountOf(current[i], x) # 0}}]

\* TopNDruidQuery.execute: nothing is compared beyond the window of history.
Execute(current, previous, inWindow) ==
  LET now == Sanitize(current)
  IN  [current |-> now, comparison |-> IF inWindow THEN AnalyzePop(now, Sanitize(previous)) ELSE <<>>]

Included(rows, key) == \E i \in DOMAIN rows : rows[i].key = key

\* Faulty variant: the values of the comparison are exported again.
RemainingRowsAll(rows, current) ==
  rows \o [i \in DOMAIN current |-> [key |-> current[i].key, count |-> current[i].count, previous |-> Unknown]]
\* The rows of a period that are not exported yet.
RemainingRows(rows, current) ==
  FoldLeft(LAMBDA acc, r : IF Included(acc, r.key) THEN acc
                           ELSE Append(acc, [key |-> r.key, count |-> r.count, previous |-> Unknown]), rows, current)

\* topn_query_csv: a difference of the missing value is passed over.
CsvRows(response) ==
  LET Compared(acc, diffs) ==
        FoldLeft(LAMBDA a, d : IF d.key = NoKey \/ Included(a, d.key) THEN a ELSE Append(a, d), acc, SetToSeq(diffs))
      compared == FoldLeft(Compared, <<>>, response.comparison)
  IN  FoldLeft(RemainingRows, compared, response.current)

\* Each value of the period is exported once, with its count, and with the count of
\* the period before if the two were compared and the value is not missing.
ExportedOnce(rows, current, previous, inWindow) ==
  \A key \in UNION {KeysOf(current[i]) : i \in DOMAIN current} :
    LET at == {i \in DOMAIN rows : rows[i].key = key}
        compared == inWindow /\ previous # <<>> /\ key # NoKey
    IN  /\ Cardinality(at) = 1
        /\ \A i \in at : /\ rows[i].count = CountOf(current[1], key)
                         /\ rows[i].previous = IF compared THEN CountOf(previous[1], key) ELSE Unknown
=============================================================================
