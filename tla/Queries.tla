------------------------------ MODULE Queries ------------------------------
(***************************************************************************)
(* The console's query language (engine/query_language): which expressions *)
(* over the rules' features are queries, and the Druid filter one becomes. *)
(* A filter is its type, its dimension, its value and its sub-filters.     *)
(***************************************************************************)
EXTENDS Evaluation

CONSTANT
  Resembles    \* pairs of a name and one it is like: it ends with it, or differs at an underscore

AllowedNodes == Literals \cup Names \cup AnnotationKinds \cup
  {"BinaryComparison", "BooleanOperation", "Call", "Keyword", "UnaryOperation"}
QueryFunctions == {"DidAddLabel", "DidRemoveLabel", "DidDeclareVerdict", "RegexMatch"}
IsLiteral(n) == n.kind \in Literals

\* The nodes the query-only validators refuse.
OnlyQueryAstNodes(e) == {n \in Range(IterNodes(e)) : n.kind \notin AllowedNodes}
NotAllLiteral(e) ==
  {n \in Range(IterNodes(e)) :
     \/ n.kind = "BinaryComparison" /\ IsLiteral(n.kids[1]) /\ IsLiteral(n.kids[2])
     \/ n.kind = "BooleanOperation" /\ \A i \in DOMAIN n.kids : IsLiteral(n.kids[i])
     \/ n.kind = "UnaryOperation" /\ n.val = "not" /\ IsLiteral(n.kids[1])}
QueryRoot(e) ==
  IF e.kind \in {"BooleanOperation", "BinaryComparison", "Call", "UnaryOperation"} THEN {} ELSE {e}
\* RegexMatch.__init__: the item is a variable.
RegexItem(e) ==
  {n \in Range(IterNodes(e)) : n.kind = "Call" /\ n.kids[1].val = "RegexMatch" /\ ~IsName(FindArgument(n, "item"))}

\* parse_query_to_validated_ast: the query is typed with the features' types as
\* they are after execution.
PostExecution(names) ==
  [k \in DOMAIN names |-> [names[k] EXCEPT !.ty = IF Convertible(@) THEN Unwrapped(@) ELSE @]]
UndefinedIn(e, names) ==
  \E n \in Range(IterNodes(e)) :
    \/ n.kind = "Call" /\ n.kids[1].val \notin QueryFunctions
    \/ n.kind = "Load" /\ n.val \notin QueryFunctions /\ IdentifierKey("main.sml", n) \notin DOMAIN names
QueryRefused(e, names) ==
  \/ OnlyQueryAstNodes(e) \cup NotAllLiteral(e) \cup QueryRoot(e) \cup RegexItem(e) # {}
  \/ UndefinedIn(e, names)
  \/ Validate(e, <<"main.sml">>, "main.sml", PostExecution(names)).errs # {}

-----------------------------------------------------------------------------
(* DruidQueryTransformer.                                                  *)

Filter(type, dim, value, fields) == [type |-> type, dim |-> dim, value |-> value, fields |-> fields]
NotTransformed == Filter("raises", "", NoneValue, <<>>)
NotF(f) == Filter("not", "", NoneValue, <<f>>)
Selector(dim, value) == Filter("selector", dim, value, <<>>)

RECURSIVE AstNodeValue(_)
\* Of a UnaryOperation only the minus of a number has a value, and a Name has none.
AstNodeValue(n) ==
  CASE n.kind = "UnaryOperation" /\ n.val = "-" /\ n.kids[1].kind = "Number" -> UnaryOperator("-", LiteralValue(n.kids[1]))
    [] n.kind = "List" ->
         LET items == [i \in DOMAIN n.kids |-> AstNodeValue(n.kids[i])]
         IN  IF AnyFailed(items) THEN FirstFailed(items) ELSE Val("list", 0, items)
    [] n.kind \in Literals -> LiteralValue(n)
    [] OTHER -> Raises("ValueError")

ComparisonDimension(n) == IF IsName(n.kids[1]) THEN n.kids[1].val ELSE n.kids[2].val
HasValue(n) == IsLiteral(n) \/ n.kind = "UnaryOperation"
ComparisonValue(n) ==
  CASE HasValue(n.kids[1]) -> AstNodeValue(n.kids[1])
    [] HasValue(n.kids[2]) -> AstNodeValue(n.kids[2])
    [] OTHER -> NoneValue

InQuery(dim, value) ==
  CASE value.class = "str" -> Filter("search", dim, value, <<>>)
    [] value.class = "list" -> Filter("in", dim, value, <<>>)
    [] OTHER -> NotTransformed

HasOrdering(value) == IsNumber(value) \/ value.class = "str"

\* Faulty variant: the bound alone.
BoundQueryAlone(op, dim, value) == Filter(op, dim, value, <<>>)
\* An order also asks that the column is not null, which Druid sorts first.
BoundQuery(op, dim, value) ==
  IF ~HasOrdering(value) THEN NotTransformed
  ELSE Filter("and", "", NoneValue, <<NotF(Selector(dim, NoneValue)), Filter(op, dim, value, <<>>)>>)

ColumnComparison(n) ==
  LET columns == Filter("columns", n.kids[1].val, Val(n.kids[2].val, 0, <<>>), <<>>)
  IN  CASE n.val = "==" -> columns
        [] n.val = "!=" -> NotF(columns)
        [] OTHER -> NotTransformed

TransformComparison(n) ==
  LET dim == ComparisonDimension(n)
      value == ComparisonValue(n)
      Negate(f) == IF f = NotTransformed THEN f ELSE NotF(f)
  IN  CASE IsName(n.kids[1]) /\ IsName(n.kids[2]) -> ColumnComparison(n)
        [] (~IsName(n.kids[1]) /\ ~IsName(n.kids[2])) \/ Failed(value) -> NotTransformed
        [] n.val = "==" -> Selector(dim, value)
        [] n.val = "!=" -> NotF(Selector(dim, value))
        [] n.val = "in" -> InQuery(dim, value)
        [] n.val = "not in" -> Negate(InQuery(dim, value))
        [] OTHER -> BoundQuery(n.val, dim, value)

\* to_druid_query of the functions a query may call.
RegexFilter(n) == Filter("regex", FindArgument(n, "item").val, LiteralValue(FindArgument(n, "regex")), <<>>)
VerdictFilter(n) == Filter("contains", "__verdicts", LiteralValue(FindArgument(n, "verdict")), <<>>)
\* A label mutation is indexed by its entity's type, its label and its status.
Mutation(type, label, status) == Val("mutation", 0, <<type, label, status>>)
LabelFilter(n) ==
  Filter("like", "__entity_label_mutations",
         Mutation(FindArgument(n, "entity_type").val, FindArgument(n, "label_name").val,
                  IF n.kids[1].val = "DidAddLabel" THEN "ADDED" ELSE "REMOVED"), <<>>)
CallFilter(n) ==
  CASE n.kids[1].val = "RegexMatch" -> RegexFilter(n)
    [] n.kids[1].val = "DidDeclareVerdict" -> VerdictFilter(n)
    [] OTHER -> LabelFilter(n)

RECURSIVE TransformQuery(_)
TransformQuery(n) ==
  LET fields == [i \in DOMAIN n.kids |-> TransformQuery(n.kids[i])]
  IN  CASE n.kind = "BooleanOperation" \/ (n.kind = "UnaryOperation" /\ n.val = "not") ->
             IF NotTransformed \in Range(fields) THEN NotTransformed ELSE Filter(n.val, "", NoneValue, fields)
        [] n.kind = "BinaryComparison" -> TransformComparison(n)
        [] n.kind = "Call" -> CallFilter(n)
        [] OTHER -> NotTransformed

RECURSIVE DruidSelects(_, _)
\* Druid: does a filter select an event (the values of its columns)?  A null is
\* less than every value, a search ignores case, and a like of `%...%` takes a name
\* that ends with the one asked for and any character for an underscore.
DruidSelects(f, event) ==
  LET x == event[<<"", f.dim>>]
  IN  CASE f.type = "and" -> \A i \in DOMAIN f.fields : DruidSelects(f.fields[i], event)
        [] f.type = "or" -> \E i \in DOMAIN f.fields : DruidSelects(f.fields[i], event)
        [] f.type = "not" -> ~DruidSelects(f.fields[1], event)
        [] f.type = "columns" -> PyEquals(x, event[<<"", f.value.class>>])
        [] f.type = "in" -> \E i \in DOMAIN f.value.items : PyEquals(x, f.value.items[i])
        [] f.type = "contains" -> \E i \in DOMAIN x.items : x.items[i] = f.value
        [] f.type = "like" ->
             \E i \in DOMAIN x.items : \A j \in 1..3 :
               f.value.items[j] = x.items[i].items[j] \/ <<x.items[i].items[j], f.value.items[j]>> \in Resembles
        [] f.type = "search" -> x.class = "str" /\ TextContains(Lower(x), Lower(f.value))
        [] f.type = "regex" -> x.class = "str" /\ TextContains(x, f.value)
        [] f.type \in Orders /\ x.class = "None" -> f.type \in {"<", "<="}
        [] f.type \in Orders -> Truthy(Comparison(f.type, x, f.value))
        [] OTHER -> PyEquals(x, f.value)

-----------------------------------------------------------------------------
(* The reference: does the query hold of an event?                         *)

\* An action that added or removed the label, declared the verdict, or whose text the
\* expression is found in, as RegexMatch of the rules does.
CallHolds(e, event) ==
  LET Says(k) == FindArgument(e, k).val
      Holding(column, x) == \E i \in DOMAIN event[column].items : event[column].items[i] = x
      Mutated(status) == Holding(<<"", "__entity_label_mutations">>, Mutation(Says("entity_type"), Says("label_name"), status))
      item == event[IdentifierKey("main.sml", FindArgument(e, "item"))]
  IN  CASE e.kids[1].val = "DidAddLabel" -> Mutated("ADDED")
        [] e.kids[1].val = "DidRemoveLabel" -> Mutated("REMOVED")
        [] e.kids[1].val = "DidDeclareVerdict" -> Holding(<<"", "__verdicts">>, TextValue(Says("verdict")))
        [] OTHER -> item.class = "str" /\ TextContains(item, TextValue(Says("regex")))

\* A text in a column, without regard to case.
IsSearch(e) == e.val \in {"in", "not in"} /\ e.kids[1].kind = "String"
Folded(e, event) ==
  [e |-> [e EXCEPT !.kids[1].val = IF @ = "A" THEN "a" ELSE @], event |-> [k \in DOMAIN event |-> Lower(event[k])]]

RECURSIVE Holds(_, _)
\* Comparisons are evaluated as in a rule's condition.
Holds(e, event) ==
  LET Evaluated(x, of) == Truthy(Eval(x, <<"main.sml">>, "main.sml", of, {}))
  IN  CASE e.kind = "BooleanOperation" ->
             IF e.val = "and" THEN \A i \in DOMAIN e.kids : Holds(e.kids[i], event)
             ELSE \E i \in DOMAIN e.kids : Holds(e.kids[i], event)
        [] e.kind = "UnaryOperation" -> ~Holds(e.kids[1], event)
        [] e.kind = "Call" -> CallHolds(e, event)
        [] IsSearch(e) -> Evaluated(Folded(e, event).e, Folded(e, event).event)
        [] OTHER -> Evaluated(e, event)

-----------------------------------------------------------------------------
(* Comparisons that are translated into others.                            *)

Column(n) == IF IsName(n.kids[1]) THEN n.kids[1] ELSE n.kids[2]
Other(n) == IF IsName(n.kids[1]) THEN n.kids[2] ELSE n.kids[1]
BothColumns(n) == IsName(n.kids[1]) /\ IsName(n.kids[2])

\* An order or a membership whose column is on the side it should not be, and a
\* column compared with neither a column nor a value.
Misread(n) ==
  ~BothColumns(n) /\
    \/ ~HasValue(Other(n))
    \/ n.val \in Orders /\ IsName(n.kids[2])
    \/ n.val \in {"in", "not in"} /\ (IsName(n.kids[1]) <=> Other(n).kind = "String")

\* What it is taken for: the sides swapped, or the column compared with None.
TakenFor(n) ==
  LET none == Node("None_", "", <<>>)
  IN  CASE ~HasValue(Other(n)) -> [n EXCEPT !.kids = <<Column(n), none>>]
        [] OTHER -> [n EXCEPT !.kids = <<n.kids[2], n.kids[1]>>]

RECURSIVE AsRead(_)
AsRead(e) ==
  CASE e.kind = "BinaryComparison" -> IF Misread(e) THEN TakenFor(e) ELSE e
    [] e.kind \in {"BooleanOperation", "UnaryOperation"} -> [e EXCEPT !.kids = [i \in DOMAIN @ |-> AsRead(@[i])]]
    [] OTHER -> e

\* A label mutation of the event whose type or label only resembles the one asked for.
HasLookalike(e, event) ==
  \E n \in Range(IterNodes(e)) : n.kind = "Call" /\ n.kids[1].val \in {"DidAddLabel", "DidRemoveLabel"} /\
    \E i \in DOMAIN event[<<"", "__entity_label_mutations">>].items :
      \E pair \in Resembles :
        /\ pair[1] \in Range(event[<<"", "__entity_label_mutations">>].items[i].items)
        /\ pair[2] \in {FindArgument(n, "entity_type").val, FindArgument(n, "label_name").val}

\* The filter selects the events of which the query holds, as the executor would
\* evaluate it, null columns included.
SelectsWhatIsAsked(e, f, events) ==
  f # NotTransformed =>
    \A event \in events : HasLookalike(e, event) \/ (DruidSelects(f, event) <=> Holds(AsRead(e), event))
=============================================================================
