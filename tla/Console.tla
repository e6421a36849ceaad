------------------------------ MODULE Console ------------------------------
(***************************************************************************)
(* The console on small instances.  A behaviour is about one subject: a    *)
(* scan for events, the tokens that lend abilities, the record of queries, *)
(* or one computation: the merge of a user's abilities, a change of labels *)
(* by hand, the censoring of an event, an export of counts.                *)
(***************************************************************************)
EXTENDS EventSearch, AbilityTokens, SavedQueries, TLC

VARIABLES
  subject,   \* what this behaviour is about
  given,     \* what is computed from
  result     \* and what comes out

Nothing == [kind |-> "none"]

Asks(order, start, filtered, entity, ability, store) ==
  [order |-> order, start |-> start, filtered |-> filtered, entity |-> entity, ability |-> ability, store |-> store]
MCAsked ==
  {Asks(order, 0, FALSE, "none", a, "bigtable") : order \in {"ASCENDING", "DESCENDING"}, a \in {AllowAll, Ability(FALSE, {"x"}, {}), Ability(FALSE, {}, {"y"})}}
  \cup {Asks(order, 1, FALSE, "none", AllowAll, "bigtable") : order \in {"ASCENDING", "DESCENDING"}}
  \cup {Asks("DESCENDING", 0, TRUE, "none", AllowAll, "gcs"), Asks("ASCENDING", 0, FALSE, "u", AllowAll, "postgres"),
         Asks("DESCENDING", 1, TRUE, "u", Ability(FALSE, {"x"}, {}), "minio")}
MCKinds == {[action |-> "x", match |-> TRUE, features |-> [f |-> "u", g |-> "v"]],
            [action |-> "y", match |-> FALSE, features |-> [f |-> "v", g |-> "v"]]}

\* The abilities of the access list over three names.
Items == {"a", "b", "c"}
Valid(items) == {a \in [all : BOOLEAN, specific : SUBSET items, except : SUBSET items] : RootValid(a)}
Granted == {g \in SUBSET Valid(Items) : Cardinality(g) \in 1..2}

\* An event's data, and the items of the abilities to see it.
Dict(f) == Tree("dict", f)
Data == Dict([ActionName |-> Leaf, a |-> Leaf, b |-> Dict([c |-> Leaf, d |-> Dict(<<>>)]),
              l |-> Tree("list", ("0" :> Dict([c |-> Leaf, d |-> Leaf])) @@ ("1" :> Dict([c |-> Leaf])))])
ItemPaths == {Star, <<"ActionName">>, <<"a">>, <<"a", "q">>, <<"b">>, <<"b", "c">>, <<"b", "d">>, <<"b", "d", "q">>,
              <<"l">>, <<"l", "c">>, <<"l", "d">>, <<"z">>}
DataItems == [action : {"", "x", "y"}, path : ItemPaths]
DataAbilities == {AllowAll} \cup
  UNION {{Ability(FALSE, {i, j}, {}), Ability(FALSE, {}, {i, j})} : i, j \in DataItems}

Rows == [key : {"a", "b", "null"}, count : 1..2, ok : BOOLEAN]
RowSeqs == {<<>>} \cup {<<r>> : r \in Rows} \cup {<<r, s>> : r, s \in Rows}
Period == {<<>>} \cup {<<rows>> : rows \in {q \in RowSeqs : \A i, j \in DOMAIN q : q[i].key = q[j].key => i = j}}

Given ==
  [kind : {"merge"}, granted : Granted, extra : Valid(Items)] \cup
  [kind : {"labels"}, entities : {{}} \cup {{a} : a \in Valid({"u", "v"})}, labels : {{}} \cup {{a} : a \in Valid(Items)},
   asked : [entity : {"u", "v"}, mutations : SUBSET Items]] \cup
  [kind : {"censor"}, abilities : {{}} \cup {{a} : a \in DataAbilities}, action : {"x", "z"}] \cup
  [kind : {"topn"}, current : Period, previous : Period, inWindow : BOOLEAN]

ConsoleInit ==
  /\ TokensInit /\ QueriesInit /\ SearchInit /\ result = Nothing
  /\ \/ subject = "search" /\ given = Nothing
     \/ /\ scan = Unstarted(CHOOSE asked \in Asked : TRUE)
        /\ \/ subject \in {"tokens", "queries"} /\ given = Nothing
           \/ subject = "compute" /\ given \in Given

\* A user of the access list with one role, and abilities of their own.
AclOf(role, own) == [roles |-> [r |-> role], users |-> [u |-> [roles |-> {"r"}, abilities |-> own]]]
Merged(own) == MergeAbilities(AbilitiesForUser(AclOf(given.granted, own), "u", {}))

Computed ==
  CASE given.kind = "merge" -> {[before |-> Merged({}), after |-> Merged({given.extra})]}
    [] given.kind = "labels" -> {[applied |-> ManualEntityMutation(given.entities, given.labels, given.asked)]}
    [] given.kind = "censor" -> [shown : ShownData(given.abilities, Data, given.action)]
    [] OTHER -> {[rows |-> CsvRows(Execute(given.current, given.previous, given.inWindow))]}

ConsoleNext ==
  \/ subject = "search" /\ SearchNext /\ UNCHANGED <<tokenVars, queryVars, subject, given, result>>
  \/ subject = "tokens" /\ TokensNext /\ UNCHANGED <<searchVars, queryVars, subject, given, result>>
  \/ subject = "queries" /\ QueriesNext /\ UNCHANGED <<searchVars, tokenVars, subject, given, result>>
  \/ /\ subject = "compute" /\ result = Nothing /\ result' \in Computed
     /\ UNCHANGED <<searchVars, tokenVars, queryVars, subject, given>>

-----------------------------------------------------------------------------
Done(kind) == subject = "compute" /\ given.kind = kind /\ result # Nothing

\* Another ability of the same kind that allows all or names items takes nothing away
\* from a user and gives what it names; what several abilities merge into is itself a
\* valid ability (users.py _merge_abilities).
GrantsAdd ==
  Done("merge") =>
    /\ RootValid(result.after)
    /\ given.extra.except = {} =>
         \A i \in Items : ItemIsAllowed(result.before, i) \/ ItemIsAllowed(given.extra, i) => ItemIsAllowed(result.after, i)

\* A change of labels by hand reaches the service for exactly the labels the user may
\* change, on an entity the user may change, however the request mixes allowed and
\* other labels (entities.py manual_entity_mutation).
OnlyAllowedLabels ==
  Done("labels") =>
    LET entity == given.entities # {} /\ ItemIsAllowed(MergeAbilities(given.entities), given.asked.entity)
        May(m) == given.labels # {} /\ ItemIsAllowed(MergeAbilities(given.labels), m)
    IN  result.applied = {m \in given.asked.mutations : entity /\ May(m)}

\* Of an event's data exactly the fields the user's abilities cover are shown, through
\* dicts and lists, in whatever order a set of exceptions is walked.  The answer is a
\* KeyError, which fails the whole page, only where a dict on the path of an exception
\* lacks the next key, be it in one item of a list (abilities.py DataCensorAbility,
\* stored_execution_result.py).
CensoredExactly ==
  Done("censor") =>
    IF result.shown = KeyError
    THEN \E a \in given.abilities : \E path \in Paths(a.except, given.action) \ {Star} : Lacks(Data, path)
    ELSE LeavesOf(result.shown) =
           {[leaf EXCEPT !.hidden = ~MayShow(given.abilities, given.action, leaf.path)] : leaf \in LeavesOf(Data)}

\* Each value counted in a period is exported once, compared with the period before
\* or not (topn_query_csv).
CsvHasEachValue ==
  Done("topn") => ExportedOnce(result.rows, Sanitize(given.current), Sanitize(given.previous), given.inWindow)

\* A scan shows an event once, only to users who may see it, and misses those in the
\* store only in the second a page was cut at (PaginatedScanDruidQuery.execute).
ScanFaithful == ShownIsAllowed /\ ShownOnce /\ MissedOnlyAtCuts

\* What concurrent users were told stays true: who was told SUCCESS for a token keeps
\* it, and its abilities lapse (TemporaryAbilityToken.consume); the history of a saved
\* query reaches the query it began with, and pages show each query once
\* (update_saved_query).
RecordsKept == SuccessIsKept /\ AbilitiesLapse /\ HistoryReachesOrigin /\ PagesComplete

\* The console's answers are those its users' abilities entitle them to: grants add up,
\* and labels and data are what is allowed.  An export has each value once; of the
\* abilities only CanViewEventsByEntity guards it, and no filter of actions is applied
\* (topn_query_csv), so nothing is claimed of whose events it counts.
AnswersEntitled == GrantsAdd /\ OnlyAllowedLabels /\ CensoredExactly /\ CsvHasEachValue
=============================================================================
