----------------------------- MODULE MCLanguage -----------------------------
(***************************************************************************)
(* The rule language on small instances: sources of up to three files that *)
(* go through the parser, the validators and the compiler, expressions     *)
(* that are typed and evaluated for several actions, pairs of types, JSON  *)
(* values read through an annotation, and executions of compiled programs. *)
(***************************************************************************)
EXTENDS Validation, Queries, ExecutionGraph

VARIABLES
  subject,   \* what this behaviour is about
  given,     \* the expression, the types or the value
  result,    \* what the code makes of it
  prog, dag, resolved, causes, outputs, sources, pc, sync, async, singlets, batches, answer, polled, turn   \* an execution

-----------------------------------------------------------------------------
(* Programs to execute: two written by hand and a family of shapes.        *)
NoKey == "none"

No(cs) == [c \in cs |-> {}]
Keys(kind) == [c \in DOMAIN kind |-> IF kind[c] = "batch" THEN "k" ELSE NoKey]
Program(deps, kind, key, brings, body) ==
    compile_execution_graph([deps |-> deps, kind |-> kind, key |-> key,
                             brings |-> brings, body |-> body, pool |-> TRUE])

(* Three batchable calls, one of another key, and a feature of an imported *)
(* file used twice in one expression.                                      *)
importing ==
    LET deps == [imp |-> <<>>, b |-> <<>>, c |-> <<>>, d |-> <<>>, B |-> <<"b">>,
                 x |-> <<"B">>, X |-> <<"x">>, e |-> <<"X", "X", "B">>, E |-> <<"e">>]
        kind == [imp |-> "import", b |-> "batch", c |-> "batch", d |-> "batch", B |-> "assign",
                 x |-> "async", X |-> "assign", e |-> "member", E |-> "assign"]
    IN  Program(deps, kind, [Keys(kind) EXCEPT !["d"] = "other"],
                [No(DOMAIN deps) EXCEPT !["imp"] = {"late"}],
                [main |-> <<"imp", "B", "c", "d", "E">>, late |-> <<"X">>])

(* A Require whose file uses features that are done, and is required again. *)
requiring ==
    LET deps == [a |-> <<>>, A |-> <<"a">>, req |-> <<"A">>, f |-> <<"A", "A">>, F |-> <<"f">>,
                 g |-> <<"F", "A">>, h |-> <<"A">>, again |-> <<"g">>]
        kind == [a |-> "async", A |-> "assign", req |-> "require", f |-> "batch", F |-> "assign",
                 g |-> "boolean", h |-> "batch", again |-> "require"]
    IN  Program(deps, kind, Keys(kind),
                [No(DOMAIN deps) EXCEPT !["req"] = {"late"}, !["again"] = {"main", "late"}],
                [main |-> <<"A", "req", "h">>, late |-> <<"F", "g", "again">>])

(* Four chains, the second requires a file with the fourth. *)
ChainShapes ==
    {Program([c1 |-> <<>>, c2 |-> <<>>, c3 |-> d3, c4 |-> d4],
             [c1 |-> k[1], c2 |-> "require", c3 |-> k[2], c4 |-> k[3]],
             Keys([c1 |-> k[1], c2 |-> "require", c3 |-> k[2], c4 |-> k[3]]),
             [c1 |-> {}, c2 |-> {"late"}, c3 |-> {}, c4 |-> {}],
             [main |-> <<"c1", "c2", "c3">>, late |-> <<"c4">>]) :
       d3 \in {<<>>, <<"c1">>}, d4 \in {<<>>, <<"c1">>, <<"c3">>, <<"c3", "c1">>},
       k \in {"sync", "async", "batch"} \X {"sync", "async", "batch"} \X {"sync", "optional", "batch"}}

AllPrograms == LET ps == ChainShapes \cup {importing, requiring}
               IN  ps \cup {[p EXCEPT !.pool = FALSE] : p \in ps}

-----------------------------------------------------------------------------
(* Constants of the other modules.                                         *)
MCLocals == {"_x", "_y"}
MCPaths == <<"b.sml", "c.sml", "main.sml">>
MCGlobMatches == [Kind |-> {"b.sml"}, Other |-> {}]
MCLabelConfig == [spam |-> {"User"}]

ConstStr == Generic("ConstExpr", T("str"))
Udf(params, required, ret, dynamic) ==
  [params |-> params, required |-> required, ret |-> ret, dynamic |-> dynamic]
MCRegistry ==
  [Import |-> Udf([rules |-> Generic("ConstExpr", Generic("List", T("str")))], {"rules"}, NoneType, FALSE),
   Require |-> Udf([rule |-> T("str"), require_if |-> T("bool")], {"rule"}, NoneType, FALSE),
   Rule |-> Udf([when_all |-> Generic("List", T("bool")), description |-> T("str")],
                {"when_all", "description"}, T("Rule"), FALSE),
   JsonData |-> Udf([path |-> ConstStr], {"path"}, TypeVar, TRUE),
   Entity |-> Udf([type |-> ConstStr, id |-> TypeVar], {"type", "id"}, Generic("Entity", TypeVar), FALSE),
   LabelAdd |-> Udf([entity |-> Generic("Entity", AnyType), label |-> ConstStr], {"entity", "label"}, T("Effect"), FALSE),
   WhenRules |-> Udf([rules_any |-> Generic("List", T("Rule")), then |-> Generic("List", T("Effect"))],
                     {"rules_any", "then"}, NoneType, FALSE),
   RegexMatch |-> Udf([item |-> T("str"), regex |-> ConstStr], {"item", "regex"}, T("bool"), FALSE),
   DidAddLabel |-> Udf([entity_type |-> ConstStr, label_name |-> ConstStr], {"entity_type", "label_name"}, T("bool"), FALSE),
   DidRemoveLabel |-> Udf([entity_type |-> ConstStr, label_name |-> ConstStr], {"entity_type", "label_name"}, T("bool"), FALSE),
   DidDeclareVerdict |-> Udf([verdict |-> ConstStr], {"verdict"}, T("bool"), FALSE),
   ListLength |-> Udf([list |-> Generic("List", AnyType)], {"list"}, T("int"), FALSE),
   ResolveOptional |-> Udf([optional_value |-> UnionOf({TypeVar, NoneType}), default_value |-> UnionOf({TypeVar, NoneType})],
                           {"optional_value"}, TypeVar, FALSE)]

\* What the functions of the registry do with the arguments of an action.
MCRun(name, args) ==
  CASE name = "ResolveOptional" ->
         IF args.optional_value.class # "None" THEN args.optional_value
         ELSE IF "default_value" \in DOMAIN args /\ args.default_value.class # "None" THEN args.default_value
         ELSE Raises("expected")
    [] name = "ListLength" ->
         IF args.list.class = "list" THEN Val("int", Len(args.list.items), <<>>) ELSE Raises("TypeError")
    [] name = "Entity" -> Val("Entity", 0, <<args.id>>)
    [] OTHER -> Val("Rule", IF \A i \in DOMAIN args.when_all.items : Truthy(args.when_all.items[i]) THEN 1 ELSE 0, <<>>)

-----------------------------------------------------------------------------
(* Sources, as Python syntax trees.                                        *)

PyName(id) == Node("NameLoad", id, <<>>)
PyStore(id) == Node("NameStore", id, <<>>)
PyConst(v) == Node("Constant", v, <<>>)
PyList(items) == Node("List", "Load", items)
PyKw(k, v) == Node("keyword", k, <<v>>)
PyCall(f, args) == Node("Call", "", <<PyName(f)>> \o args)
PyCall1(f, k, v) == PyCall(f, <<PyKw(k, v)>>)
PyStmt(call) == Node("Expr", "", <<call>>)
PySet(id, v) == Node("Assign", "", <<v, PyStore(id)>>)
PySub(name, slice) == Node("Subscript", "", <<PyName(name), slice>>)
PyAnn(id, ann, v) == Node("AnnAssign", "simple", <<PyStore(id), ann, v>>)
PyBin(op, l, r) == Node("BinOp", op, <<l, r>>)
PyCmp(op, l, r) == Node("Compare", op, <<l, r>>)
PyFormat(id) == Node("JoinedStr", "", <<PyConst("a"), Node("FormattedValue", "", <<PyName(id)>>)>>)
Module(stmts) == Node("Module", "", stmts)

Import(paths) == PyStmt(PyCall1("Import", "rules", PyList([i \in DOMAIN paths |-> PyConst(paths[i])])))
Json(id, type) == PyAnn(id, type, PyCall1("JsonData", "path", PyConst("a")))
RuleOf(id, cond) ==
  PySet(id, PyCall("Rule", <<PyKw("when_all", PyList(<<cond>>)), PyKw("description", PyConst("a"))>>))
Label(entity, label) ==
  PyCall("LabelAdd", <<PyKw("entity", entity), PyKw("label", PyConst(label))>>)
When(rule, effect) ==
  PyStmt(PyCall("WhenRules", <<PyKw("rules_any", PyList(<<rule>>)), PyKw("then", PyList(<<effect>>))>>))
User == PySet("U", PyCall("Entity", <<PyKw("type", PyConst("User")), PyKw("id", PyConst("1"))>>))

One(stmts) == [p \in {"main.sml"} |-> Module(stmts)]
Two(main, b) == [p \in {"main.sml", "b.sml"} |-> Module(IF p = "b.sml" THEN b ELSE main)]
Three(main, b, c) ==
  [p \in {"main.sml", "b.sml", "c.sml"} |-> Module(IF p = "b.sml" THEN b ELSE IF p = "c.sml" THEN c ELSE main)]

PyInt == PyName("int")
PyText == PyName("str")
JA == Json("A", PyInt)
UseA == PySet("X", PyBin("Add", PyName("A"), PyConst("1")))
UseB == PySet("Y", PyBin("Add", PyName("B"), PyConst("1")))
FromA == PySet("B", PyName("A"))
Secret(id, v) == PyAnn(id, PySub("Secret", PyText), v)
Opened(id, v) == PyAnn(id, PySub("ExtractSecret", PyText), v)
Formatted(id, of) == PySet(id, PyFormat(of))
Joined(of) == PyCall("ResolveOptional", <<PyKw("optional_value", PyName(of)), PyKw("default_value", PyConst("a"))>>)

\* Which files import which, which names they read, in which order.
Importing ==
  {Two(<<Import(<<"b.sml">>), UseA>>, <<JA>>), Two(<<UseA, Import(<<"b.sml">>)>>, <<JA>>),
   Two(<<UseA>>, <<JA>>), Two(<<JA>>, <<JA>>), Two(<<Import(<<"b.sml">>), UseA>>, <<Import(<<"main.sml">>), JA>>),
   Two(<<Import(<<"b.sml", "b.sml">>)>>, <<JA>>), One(<<Import(<<"z.sml">>)>>),
   Three(<<Import(<<"c.sml", "b.sml">>), UseA>>, <<JA>>, <<>>),
   Three(<<Import(<<"b.sml", "c.sml">>), UseA, UseB>>, <<JA>>, <<Import(<<"b.sml">>), FromA>>),
   Three(<<Import(<<"c.sml">>), UseA, UseB>>, <<JA>>, <<Import(<<"b.sml">>), FromA>>),
   Three(<<Import(<<"c.sml">>), UseB>>, <<JA>>, <<Import(<<"b.sml">>), FromA>>),
   Three(<<Import(<<"b.sml">>), UseB>>, <<Import(<<"c.sml">>), FromA>>, <<JA>>),
   Three(<<Import(<<"b.sml", "c.sml">>)>>, <<Import(<<"c.sml">>)>>, <<Import(<<"b.sml">>)>>),
   Three(<<>>, <<Import(<<"c.sml">>), FromA>>, <<JA>>),
   Two(<<PySet("X", PyName("_x"))>>, <<PySet("_x", PyConst("1")), PySet("Z", PyName("_x"))>>),
   Two(<<PySet("_x", PyConst("a")), PySet("X", PyName("_x"))>>, <<PySet("_x", PyConst("1")), PySet("Z", PyName("_x"))>>),
   Two(<<Json("A", PyName("bool"))>>, <<PyStmt(PyCall("Require", <<PyKw("rule", PyConst("main.sml")), PyKw("require_if", PyName("A"))>>))>>),
   Two(<<PyStmt(PyCall1("Require", "rule", PyConst("b.sml"))), JA>>, <<>>),
   Two(<<PyStmt(PyCall("Require", <<PyKw("rule", PyFormat("Kind")), PyKw("require_if", PyConst("True"))>>))>>, <<Json("Kind", PyText)>>),
   One(<<PyStmt(PyCall1("Require", "rule", PyConst("b.sml")))>>),
   One(<<Json("Other", PyText), PyStmt(PyCall1("Require", "rule", PyFormat("Other")))>>),
   One(<<JA, PyStmt(PyCall1("Require", "rule", PyName("A")))>>)}

\* One file: names, calls, annotations, rules and labels.
Single ==
  {One(<<JA, UseA>>), One(<<UseA, JA>>), One(<<PySet("A", PyName("A"))>>), One(<<JA, PySet("A", PyConst("1"))>>),
   One(<<PySet("_x", PyConst("1"))>>), One(<<PySet("_x", PyConst("1")), PySet("_x", PyConst("2")), PySet("Z", PyName("_x"))>>),
   One(<<PySet("A", PyCall1("JsonData", "path", PyConst("a")))>>), One(<<PyStmt(PyCall1("JsonData", "path", PyConst("a")))>>),
   One(<<PySet("_x", PyConst("a")), PyAnn("A", PyInt, PyCall1("JsonData", "path", PyName("_x")))>>),
   One(<<PySet("_x", PyConst("1")), PyAnn("A", PyInt, PyCall1("JsonData", "path", PyName("_x")))>>),
   One(<<PyAnn("A", PyInt, PyCall1("JsonData", "path", PyName("_x")))>>),
   One(<<Json("Q", PyText), PyAnn("A", PyInt, PyCall1("JsonData", "path", PyName("Q")))>>),
   One(<<PyAnn("A", PyInt, PyCall1("JsonData", "path", Node("UnaryOp", "USub", <<PyConst("1")>>)))>>),
   One(<<PyAnn("A", PyInt, PyCall("JsonData", <<>>))>>), One(<<PyAnn("A", PyInt, PyCall1("JsonData", "file", PyConst("a")))>>),
   One(<<PySet("A", PyCall1("Missing", "path", PyConst("a")))>>), One(<<Json("A", PySub("List", PyName("thing")))>>),
   One(<<Json("A", PySub("Optional", PyInt)), UseA>>), One(<<Json("A", PyName("bool")), RuleOf("R", PyName("A"))>>),
   One(<<Json("A", PyInt), RuleOf("R", PyName("A"))>>), One(<<Json("A", PyName("bool")), RuleOf("_x", PyName("A"))>>),
   One(<<PyStmt(PyCall("Rule", <<PyKw("when_all", PyList(<<PyConst("True")>>)), PyKw("description", PyName("Z"))>>))>>),
   One(<<User, RuleOf("R", PyConst("True")), When(PyName("R"), Label(PyName("U"), "spam"))>>),
   One(<<User, RuleOf("R", PyConst("True")), When(PyName("R"), Label(PyName("U"), "bad"))>>),
   One(<<User, RuleOf("R", PyConst("True")), PySet("V", PyName("U")), When(PyName("R"), Label(PyName("V"), "spam"))>>),
   One(<<PySet("U", PyCall("Entity", <<PyKw("type", PyConst("Guild")), PyKw("id", PyConst("1"))>>)), RuleOf("R", PyConst("True")),
         When(PyName("R"), Label(PyName("U"), "spam"))>>),
   One(<<User, PySet("W", Label(PyName("U"), "spam")), PySet("Z", PyCall1("Import", "rules", PyList(<<>>)))>>),
   One(<<PySet("L", PyList(<<>>))>>), One(<<PySet("L", PyList(<<PyConst("1"), PyConst("a")>>))>>)}

\* Secrets that pass through names, texts, calls, operators and files.
Keeping ==
  {One(<<Json("A", PySub("Secret", PyText)), step>>) :
     step \in {PySet("B", PyName("A")), Secret("B", PyName("A")), Opened("B", PyName("A")), Formatted("B", "A"),
               PySet("B", Joined("A")), Secret("B", Joined("A")), PySet("B", PyList(<<PyName("A")>>)),
               PySet("B", PyBin("Add", PyName("A"), PyConst("a"))), Secret("B", PyBin("Add", PyName("A"), PyConst("a"))),
               PySet("B", PyBin("Add", Joined("A"), PyConst("a"))), PySet("B", PyCmp("Eq", PyName("A"), PyConst("a")))}} \cup
  {One(<<Json("A", PySub("Secret", PyInt)), PySet("B", Node("UnaryOp", "USub", <<PyName("A")>>)), step>>) :
     step \in {PySet("C", PyName("B")), PySet("C", PyList(<<PyName("B")>>)), Formatted("C", "B"), PySet("C", PyList(<<PyName("A"), PyName("B")>>))}} \cup
  {Two(<<Import(<<"b.sml">>), step>>, <<Json("A", PySub("Secret", PyText)), Secret("B", Joined("A"))>>) :
     step \in {PySet("C", PyName("B")), PySet("C", Joined("B")), Secret("C", Joined("B")), Opened("C", Joined("B"))}} \cup
  {One(<<Json("A", PySub("Secret", PyText)), Opened("B", PyName("A")), PySet("C", Joined("B"))>>)}

\* What the parser refuses, and what it does not.
Shapes ==
  {One(<<stmt>>) : stmt \in
    {PySet("A", v) : v \in
       {PyConst("1.5"), PyConst("b''"), PyConst("None"), PyBin("MatMult", PyConst("1"), PyConst("2")),
        Node("UnaryOp", "Invert", <<PyConst("1")>>), Node("UnaryOp", "Not", <<PyConst("True")>>), PyCmp("Is", PyConst("1"), PyConst("2")),
        Node("Compare", "Lt", <<PyConst("1"), PyConst("2"), PyConst("1.5")>>), PyCmp("NotIn", PyConst("a"), PyList(<<PyConst("a")>>)),
        Node("BoolOp", "Or", <<PyConst("True"), PyConst("False"), PyCmp("Eq", PyConst("1"), PyConst("1"))>>),
        Node("Lambda", "", <<>>), Node("Attribute", "field", <<PyName("A")>>), Node("Attribute", "field", <<PyConst("a")>>),
        PyCall("ListLength", <<PyConst("1")>>), PyCall("ListLength", <<PyKw("", PyName("A"))>>),
        Node("Call", "", <<Node("Attribute", "get", <<PyName("A")>>)>>), Node("Call", "", <<PyConst("1")>>),
        Node("JoinedStr", "", <<Node("FormattedValue", ".2f", <<PyName("A")>>)>>),
        Node("JoinedStr", "", <<Node("FormattedValue", "", <<PyBin("Add", PyConst("1"), PyConst("1"))>>)>>)}} \cup
    {Node("Assign", "", <<PyConst("1"), PyStore("A"), PyStore("B")>>), Node("Assign", "", <<PyConst("1"), Node("List", "Store", <<>>)>>),
     Node("AnnAssign", "parenthesised", <<PyStore("A"), PyInt, PyConst("1")>>), Node("AnnAssign", "simple", <<PyStore("A"), PyInt>>),
     PyAnn("A", PySub("ExtractLiteral", PyInt), PyConst("1")), PyAnn("A", PySub("ExtractLiteral", PyInt), PyName("B")),
     PyAnn("A", PySub("Union", Node("Tuple", "", <<PyInt, PyText>>)), PyConst("1")), PyAnn("A", PySub("Union", Node("Tuple", "", <<PyInt, PySub("List", PyInt)>>)), PyConst("1")),
     PyAnn("A", PyConst("None"), PyConst("None")), PyAnn("A", PyConst("1"), PyConst("1")), PyStmt(PyName("A")), Node("Pass", "", <<>>),
     Node("Delete", "", <<Node("NameDel", "A", <<>>)>>)}}

MCPrograms == Importing \cup Single \cup Keeping \cup Shapes

-----------------------------------------------------------------------------
(* Expressions over names of known types, and the actions they meet.       *)

NameTypes ==
  [N |-> T("int"), O |-> UnionOf({T("int"), NoneType}), S |-> T("str"), B |-> T("bool"),
   L |-> Generic("List", T("int")), U |-> Generic("Entity", T("str")), E |-> Generic("Entity", T("int")), R |-> T("Rule"), P |-> T("str")]
Scope == [k \in {<<"", id>> : id \in DOMAIN NameTypes} |->
            [ty |-> NameTypes[k[2]], can |-> k[2] # "P",
             note |-> IF k[2] = "P" THEN Node("AnnotationWithVariants", "Secret", <<Node("Annotation", "str", <<>>)>>) ELSE None]]
IntV(i) == Val("int", i, <<>>)
TextV == Val("str", -1, <<>>)
Actions ==
  {[k \in DOMAIN Scope |->
      CASE k[2] = "N" -> n [] k[2] = "O" -> o [] k[2] = "B" -> Bool(b) [] k[2] = "L" -> Val("list", 0, <<IntV(1)>>)
        [] k[2] = "U" -> Val("Entity", 0, <<TextV>>) [] k[2] = "E" -> Val("Entity", 0, <<IntV(1)>>) [] k[2] = "R" -> Val("Rule", IF b THEN 0 ELSE 1, <<>>) [] OTHER -> TextV]
   : n \in {IntV(0), IntV(-1)}, o \in {NoneValue, IntV(2)}, b \in BOOLEAN}
\* The same with names whose assignment failed.
Failing == {[a EXCEPT ![k] = Raises("propagated")] : a \in Actions, k \in DOMAIN Scope}

Ld(id) == Node("Load", id, <<>>)
Num(v) == Node("Number", v, <<>>)
NoneLit == Node("None_", "", <<>>)
Op(kind, op, l, r) == Node(kind, op, <<l, r>>)
Cmp(op, l, r) == Op("BinaryComparison", op, l, r)
Atoms == {Ld(id) : id \in DOMAIN NameTypes} \cup
         {Num("1"), Num("1.5"), Node("String", "a", <<>>), NoneLit, Node("Boolean", "True", <<>>), Node("List", "", <<Num("1")>>)}
Conditions ==
  {Cmp("!=", Ld("O"), NoneLit), Cmp("==", NoneLit, Ld("O")), Cmp(">", Ld("O"), Num("1")),
   Cmp(">", Op("BinaryOperation", "+", Ld("O"), Num("1")), Num("1")), Ld("B"), Ld("R"), Cmp("==", Ld("U"), Node("String", "a", <<>>)),
   Cmp("<=", Op("BinaryOperation", "/", Num("1"), Ld("N")), Num("1")), Cmp("in", Ld("O"), Ld("L")),
   Cmp(">", Op("BinaryOperation", "**", Ld("N"), Num("1.5")), Num("1"))}
Keyword(k, v) == Node("Keyword", k, <<v>>)
CallOf(f, kws) == Node("Call", "", <<Ld(f)>> \o kws)
Expressions1 ==
  {Op("BinaryOperation", op, l, r) : op \in {"+", "*", "/", "**", "<<"}, l, r \in Atoms} \cup
  {Cmp(op, l, r) : op \in {"==", "<", "in", "not in"}, l, r \in Atoms} \cup
  {Node("UnaryOperation", op, <<x>>) : op \in UnaryOperators, x \in Atoms} \cup
  {Node("BooleanOperation", op, <<l, r>>) : op \in BooleanOperands, l, r \in Conditions} \cup
  {Node("BooleanOperation", op, <<l, m, r>>) : op \in BooleanOperands, l, m, r \in Conditions \ {Ld("B"), Ld("R")}} \cup
  {Node("UnaryOperation", "not", <<Node("BooleanOperation", op, <<l, r>>)>>) : op \in BooleanOperands, l, r \in Conditions} \cup
  {Node("List", "", <<l, r>>) : l, r \in Atoms} \cup {Node("FormatString", "", <<x>>) : x \in {Ld(id) : id \in DOMAIN NameTypes}} \cup
  {CallOf("ListLength", <<Keyword("list", x)>>) : x \in Atoms} \cup
  {CallOf("ResolveOptional", <<Keyword("optional_value", x), Keyword("default_value", y)>>) : x, y \in Atoms \ {Ld("U")}} \cup
  {CallOf("Rule", <<Keyword("when_all", Node("List", "", <<x>>)), Keyword("description", Node("String", "a", <<>>))>>) : x \in Atoms \cup Conditions}

-----------------------------------------------------------------------------
(* Queries, and the events they are asked of: the features of an action,   *)
(* one of them perhaps missing, its label mutations and its verdicts.      *)

Text(v) == Node("String", v, <<>>)
Minus(x) == Node("UnaryOperation", "-", <<x>>)
Columns == {Ld(id) : id \in {"N", "O", "S", "B", "U"}}
Constants == {Num("1"), Minus(Num("1")), Text("a"), Text("ab"), Text("A"), NoneLit, Node("List", "", <<Num("1"), NoneLit>>), Node("List", "", <<Text("a")>>)}
Comparisons == {Cmp(op, l, r) : op \in Comparators, l \in Columns, r \in Columns \cup Constants} \cup
  {Cmp(op, l, r) : op \in Comparators, l \in Constants, r \in Columns} \cup {Cmp("==", Num("1"), Num("1"))}
LabelCall(f, type, label) == CallOf(f, <<Keyword("entity_type", Text(type)), Keyword("label_name", Text(label))>>)
QueryCalls == {CallOf("RegexMatch", <<Keyword("item", x), Keyword("regex", Text("a"))>>) : x \in {Ld("S"), Text("a")}} \cup
  {LabelCall("DidAddLabel", "User", "a_b"), LabelCall("DidAddLabel", "Guild", "spam"), LabelCall("DidRemoveLabel", "User", "spam"),
   CallOf("DidDeclareVerdict", <<Keyword("verdict", Text("a"))>>), CallOf("ListLength", <<Keyword("list", Ld("L"))>>)}
MCResembles == {<<"SuperUser", "User">>, <<"axb", "a_b">>}
QueryParts == QueryCalls \cup {Ld("B"), Cmp("<", Ld("O"), Num("1")), Cmp(">", Ld("N"), Minus(Num("1"))), Cmp("in", Text("a"), Ld("U")),
  Cmp("not in", Ld("O"), Node("List", "", <<Num("1")>>)), Cmp("==", Ld("S"), NoneLit), Cmp("==", Ld("B"), Cmp("<", Ld("N"), Num("1"))),
  Cmp("==", Ld("B"), Node("UnaryOperation", "not", <<Ld("B")>>)), Cmp("in", Ld("N"), Node("List", "", <<Ld("O")>>))}
QueriesAsked == Comparisons \cup QueryParts \cup {Node("UnaryOperation", "not", <<q>>) : q \in QueryParts \cup Comparisons} \cup
  {Node("BooleanOperation", op, <<p, Node("UnaryOperation", "not", <<q>>)>>) : op \in BooleanOperands, p, q \in QueryParts} \cup
  {Op("BinaryOperation", "+", Ld("N"), Num("1"))}

\* The mutations and the verdicts of an action, and the texts of two columns.
Effects ==
  {[mutations |-> <<>>, verdicts |-> <<>>, s |-> "a", u |-> "a"],
   [mutations |-> <<Mutation("User", "a_b", "ADDED")>>, verdicts |-> <<"a">>, s |-> "ab", u |-> "A"],
   [mutations |-> <<Mutation("User", "spam", "ADDED")>>, verdicts |-> <<"ab", "a">>, s |-> "A", u |-> "ab"],
   [mutations |-> <<Mutation("User", "spam", "REMOVED"), Mutation("User", "axb", "ADDED")>>, verdicts |-> <<"ab">>, s |-> "a", u |-> "ab"],
   [mutations |-> <<Mutation("SuperUser", "spam", "REMOVED"), Mutation("Guild", "spam", "ADDED")>>, verdicts |-> <<>>, s |-> "ab", u |-> "ab"]}
Events ==
  {[k \in DOMAIN a \cup {<<"", "__entity_label_mutations">>, <<"", "__verdicts">>} |->
      CASE k[2] = missing -> NoneValue
        [] k[2] = "__entity_label_mutations" -> Val("list", 0, x.mutations)
        [] k[2] = "__verdicts" -> Val("list", 0, [i \in DOMAIN x.verdicts |-> TextValue(x.verdicts[i])])
        [] k[2] = "S" -> TextValue(x.s)
        [] k[2] = "U" -> TextValue(x.u)
        [] a[k].class \in {"Entity", "Rule"} -> Unwrap(a[k])
        [] OTHER -> a[k]] : a \in Actions, missing \in {"", "N", "S", "U", "B"}, x \in Effects}

-----------------------------------------------------------------------------
(* Types, annotations and JSON values.                                     *)

SimpleTypes == {T(s) : s \in Scalars} \cup {NoneType}
TypesUsed == SimpleTypes \cup {UnionOf({t, u}) : t, u \in SimpleTypes} \cup
  {Generic("List", t) : t \in SimpleTypes} \cup {Generic("Entity", T("str")), Generic("Entity", T("int")), T("Rule")}
ScalarValues == {NoneValue, Bool(TRUE), Bool(FALSE), IntV(0), IntV(7), Val("float", 3, <<>>), TextV, Val("str", 7, <<>>)}
Values == ScalarValues \cup {Val("list", 0, <<>>)} \cup {Val("list", 0, <<x>>) : x \in ScalarValues} \cup
  {Val("list", 0, <<IntV(7), x>>) : x \in ScalarValues} \cup
  {Val("Entity", 0, <<x>>) : x \in {TextV, IntV(7)}} \cup {Val("Rule", 1, <<>>)}
Ann(id) == Node("Annotation", id, <<>>)
AnnOf(id, args) == Node("AnnotationWithVariants", id, args)
SimpleAnns == {Ann(s) : s \in Scalars \cup {"None"}}
Anns1 == SimpleAnns \cup {Ann("thing")} \cup {AnnOf(w, <<a>>) : w \in {"Optional", "List", "Entity", "Union"}, a \in SimpleAnns} \cup
  {AnnOf("Union", <<a, b>>) : a, b \in SimpleAnns}
Annotations == Anns1 \cup {AnnOf(w, <<a>>) : w \in Wrappers, a \in {Ann("int"), Ann("thing"), AnnOf("Optional", <<Ann("str")>>)}}

-----------------------------------------------------------------------------
(* Experiments of up to three buckets, some of them flawed, and the        *)
(* buckets an ExperimentWhen provides for.                                 *)

Exp == INSTANCE Experiments WITH EXPERIMENT_GRANULARITY <- 10, MaxBuckets <- 3
BucketNames == {"control", "a"}
BucketSizes == {-10, 0, 15, 20, 30, 50}
AnExperiment(buckets, sizes) == [buckets |-> buckets, sizes |-> sizes, assigned |-> TRUE, version |-> 0, revision |-> 0]
ExperimentsGiven ==
  UNION {{AnExperiment(b, s) : b \in [1..n -> BucketNames], s \in [1..n -> BucketSizes]} : n \in 0..3} \cup
  {AnExperiment(<<"control", "a", "a", "a">>, <<0, 0, 0, 0>>), AnExperiment(<<"control", "a">>, <<20>>)} \cup
  {[AnExperiment(<<"control">>, <<20>>) EXCEPT !.assigned = t, !.version = v, !.revision = r] : t \in BOOLEAN, v, r \in {-1, 1}}

-----------------------------------------------------------------------------
(* The behaviours.                                                         *)

Execution == INSTANCE Executor WITH Programs <- AllPrograms, Entry <- "main", YieldEvery <- 2, result <- resolved, errors <- causes
Unexecuted == INSTANCE Executor WITH Programs <- {importing}, Entry <- "main", YieldEvery <- 2, result <- resolved, errors <- causes
executionVars == <<prog, dag, resolved, causes, outputs, sources, pc, sync, async, singlets, batches, answer, polled, turn>>

Nothing == [kind |-> "none"]
NoSources == One(<<>>)
Idle == program = NoSources /\ asts = [path \in DOMAIN program |-> None] /\ results = <<>> /\ errors = {} /\ phase = "parse"

LangInit ==
  \/ subject = "execution" /\ given = Nothing /\ result = Nothing /\ Idle /\ Execution!Init
  \/ subject = "sources" /\ given = Nothing /\ result = Nothing /\ Init /\ Unexecuted!Init
  \/ /\ Idle /\ result = Nothing /\ Unexecuted!Init
     /\ \/ subject = "expression" /\ given \in [kind : {"expression"}, e : Expressions1]
        \/ subject = "query" /\ given \in [kind : {"query"}, e : QueriesAsked]
        \/ subject = "experiment" /\ given \in [kind : {"experiment"}, e : ExperimentsGiven, provided : SUBSET BucketNames]
        \/ subject = "types" /\ given \in [kind : {"types"}, t : TypesUsed, u : TypesUsed]
        \/ subject = "json" /\ given \in [kind : {"json"}, n : Annotations, x : Values, required : BOOLEAN, coerce : BOOLEAN]

\* ValidateStaticTypes gives the expression a type, errors and values to unwrap.
TypeExpression ==
  subject = "expression" /\ result' = Validate(given.e, <<"main.sml">>, "main.sml", Scope)
\* A query is checked, then translated.
AskQuery ==
  /\ subject = "query"
  /\ LET refused == QueryRefused(given.e, Scope)
     IN  result' = [refused |-> refused, filter |-> IF refused THEN NotTransformed ELSE TransformQuery(given.e)]
CompareTypes ==
  subject = "types" /\ result' = [answer |-> IsCompatible(given.t, given.u, TRUE)]
ReadJson ==
  /\ subject = "json"
  /\ result' = [type |-> ToType(given.n),
                value |-> IF ToType(given.n) = TypeError THEN NoneValue
                          ELSE GetFromData(<<given.x>>, given.required, given.coerce, given.n)]
\* The constructor of Experiment, and that of an ExperimentWhen after it.
MakeExperiment ==
  /\ subject = "experiment"
  /\ result' = [accepted |-> Exp!Accepted(given.e), when |-> Exp!WhenProblems(given.e, given.provided)]

LangNext ==
  \/ subject = "sources" /\ Next /\ UNCHANGED <<subject, given, result, executionVars>>
  \/ subject = "execution" /\ Execution!Next /\ UNCHANGED <<vars, subject, given, result>>
  \/ result = Nothing /\ (TypeExpression \/ AskQuery \/ CompareTypes \/ ReadJson \/ MakeExperiment) /\ UNCHANGED <<vars, subject, given, executionVars>>

\* The loop of execute() runs on, and every user function returns or raises.
LangSpec ==
  /\ LangInit /\ [][LangNext]_<<vars, subject, given, result, executionVars>>
  /\ WF_executionVars(subject = "execution" /\ Execution!Main)
  /\ WF_executionVars(subject = "execution" /\ Execution!RunSinglet)
  /\ WF_executionVars(subject = "execution" /\ Execution!RunBatch)

-----------------------------------------------------------------------------
Parsed(path) == phase # "parse" /\ ~Refused(asts[path])

\* Whatever Python syntax a source uses, it is refused or becomes a tree whose every
\* field has the class grammar.py declares for it (py_ast.transform).
ParsedInGrammar == \A path \in DOMAIN asts : Parsed(path) => InGrammar(asts[path])

\* No identifier, constant, attribute or argument of an accepted source is lost or
\* moved by the parser, but for the `**mapping` arguments, which it drops.
NothingLost ==
  \A path \in DOMAIN asts :
    Parsed(path) /\ ~(\E n \in Range(IterNodes(program[path])) : n.kind = "keyword" /\ n.val = "")
      => Leaves(asts[path]) = PythonLeaves(program[path])

Judged(s) == subject = s /\ result # Nothing
At == <<"main.sml">>
NegatesEntity(e) == \E n \in Range(IterNodes(e)) : n.kind = "UnaryOperation" /\ n.val = "-" /\ n.kids[1] \in {Ld("E"), Ld("U")}

\* An expression the validator accepts never fails for the classes of its operands
\* when it is evaluated in the order it is written, and its value has the type it
\* was given (validate_static_types.py).  Two accepted forms break this: the minus of
\* an entity of numbers, which is not unwrapped and always raises a TypeError, and a
\* power, which may be a float for two integers and complex for a negative base, so
\* that an order of it may raise a TypeError.
TypesSound ==
  Judged("expression") /\ result.errs = {} =>
    \A a \in Actions :
      LET x == InOrder(given.e, At, "main.sml", a, result.unwrap)
          power == \E n \in Range(IterNodes(given.e)) : n.kind = "BinaryOperation" /\ n.val = "**"
      IN  IF NegatesEntity(given.e) THEN Eval(given.e, At, "main.sml", a, result.unwrap).class = "TypeError"
          ELSE /\ x.class # "AssertionError" /\ (x.class = "TypeError" => power)
               /\ Failed(x) \/ Inhabits(x, result.ty) \/ (power /\ x.class \in {"float", "complex"})

\* Although the executor resolves every operand of a boolean operation before it,
\* failed ones and None included, it computes the value the expression has when
\* evaluation stops at the operand that decides (node_executor).
ExecutedAsWritten ==
  Judged("expression") /\ result.errs = {} /\ ~NegatesEntity(given.e) =>
    \A a \in Actions :
      LET x == InOrder(given.e, At, "main.sml", a, result.unwrap)
          y == Eval(given.e, At, "main.sml", a, result.unwrap)
      IN  Failed(x) \/ x = y

\* A name whose assignment failed never makes an accepted expression fail in any
\* other way than by passing the failure on (ExecutionContext.resolved).
FailuresPassedOn ==
  Judged("expression") /\ result.errs = {} /\ ~NegatesEntity(given.e) =>
    \A a \in Failing :
      LET y == Eval(given.e, At, "main.sml", a, result.unwrap)
      IN  y.class \notin {"AssertionError", "TypeError"}

\* A query the console accepts and translates selects exactly the events of which it
\* holds, null columns and calls included, texts being searched without regard to case
\* (DruidQueryTransformer.transform).  Two things are excepted, as the code has them: a
\* comparison that is misread (the column on the right of an order, or in a text, or
\* compared with an expression) selects what it is taken for; and a label call may
\* select an event of a label or type that only resembles the one asked for.
QueriesSelect ==
  Judged("query") /\ ~result.refused => SelectsWhatIsAsked(given.e, result.filter, Events)

\* A type is accepted for another exactly when all its values are values of the
\* other, or, for an entity or a rule, when what it stands for is
\* (type_evaluator.is_compatible_type).
CompatibleSound ==
  Judged("types") =>
    LET included == \A x \in Values : Inhabits(x, given.t) => Inhabits(x, given.u)
        unwrapped == Convertible(given.t) /\ \A x \in Values : Inhabits(x, given.t) => Inhabits(Unwrap(x), given.u)
    IN  CASE result.answer = "yes" -> included
          [] result.answer = "unwrap" -> ~included /\ unwrapped
          [] OTHER -> ~included /\ ~unwrapped

\* The checker made from an annotation passes exactly the values of the type the
\* validator takes the annotation for (rvalue_type_checker.py).
CheckMatchesType ==
  Judged("json") /\ result.type # TypeError => (Check(given.n, given.x) <=> Inhabits(given.x, result.type))

\* Whatever JSON an action holds, JsonData yields a value of the annotated type, the
\* value itself if it fits, or a failure (json_utils.get_from_data).
JsonValueTyped ==
  Judged("json") /\ result.type # TypeError =>
    \/ result.value.class \in {"expected", "InvalidJsonType"} /\ ~Inhabits(given.x, result.type)
    \/ Inhabits(result.value, result.type) /\ (Inhabits(given.x, result.type) => result.value = given.x)

\* Rules and validators agree with the values: expressions are typed soundly and
\* evaluated as written, failures passed on; compatibility of types, annotations and
\* JSON values mean the same sets of values.
TypesAndValuesAgree ==
  TypesSound /\ ExecutedAsWritten /\ FailuresPassedOn /\ CompatibleSound /\ CheckMatchesType /\ JsonValueTyped

\* Every source is judged right: the parser refuses it or makes a tree of the grammar
\* out of all of it; each error of an accepted tree is reported whatever order the
\* validators run in; what has no error compiles; and no secret is extracted
\* (py_ast.transform, ValidationContext, can_extract).
SourcesJudged == ParsedInGrammar /\ NothingLost /\ EveryErrorReported /\ AcceptedCompiles /\ SecretsNotExtracted

Resized(e) == {[e EXCEPT !.sizes = s] : s \in [DOMAIN e.sizes -> BucketSizes]}
\* The buckets of an accepted experiment get exactly the shares of the hashes its
\* published sizes name; raising sizes moves nobody to another bucket or out of it; and
\* an accepted ExperimentWhen has an argument for every entity, in the experiment or
\* not (Experiment.get_bucket, ExperimentWhen.execute).
ExperimentsFair ==
  Judged("experiment") /\ result.accepted =>
    /\ Exp!SharesExact(given.e) /\ Exp!Answers(given.e, given.provided)
    /\ \A f \in Resized(given.e) : Exp!Accepted(f) => Exp!GrowsInPlace(given.e, f)

\* A chain is handed out only when all it depends on is resolved, also when an Import
\* adds it while others run, and executed exactly once; when the loop ends every chain
\* of every enqueued source has a result, error_infos names the root causes of failures
\* and only those, and every assignment has an output, None where its value failed
\* (execute, TopologicalSorter).
ExecutionSound ==
  /\ Execution!DependenciesFirst /\ Execution!ExecutedOnce /\ Execution!NothingForgotten
  /\ Execution!ErrorsAreRootCauses /\ Execution!FeaturesComplete

\* The execution ends (execute).
Terminates == []<>(subject = "execution" => pc = "end")
=============================================================================
