------------------------------- MODULE PyAst -------------------------------
(***************************************************************************)
(* engine/ast/py_ast.py: a Python syntax tree becomes an Osprey syntax     *)
(* tree, or the source is refused with an OspreySyntaxError.  A Python     *)
(* node has the shape of Grammar's nodes under the names of Python's ast   *)
(* module; a Name is "NameLoad", "NameStore" or "NameDel" by its context.  *)
(* ast.Assign holds its value first and then its targets; ast.AnnAssign    *)
(* its target, its annotation and, if it has one, its value; ast.Call its  *)
(* function and then its positional and keyword arguments.                 *)
(***************************************************************************)
EXTENDS Grammar

SyntaxError(why) == Node("SyntaxError", why, <<>>)
Refused(n) == n.kind = "SyntaxError"

\* An exception raised for a child ends the transformation of its parents.
Build(n) ==
  IF \E i \in DOMAIN n.kids : Refused(n.kids[i])
  THEN n.kids[CHOOSE i \in DOMAIN n.kids :
                Refused(n.kids[i]) /\ \A j \in 1..(i - 1) : ~Refused(n.kids[j])]
  ELSE n

Expect(kinds, n) == IF Refused(n) \/ n.kind \in kinds THEN n ELSE SyntaxError("expected")
Invariant(cond, n) == IF cond THEN n ELSE SyntaxError("invariant")

\* The class of a Python constant's value, bool before int and float.
TransformConstant(n) ==
  CASE n.val \in {"True", "False"} -> Node("Boolean", n.val, <<>>)
    [] n.val = "None" -> Node("None_", "", <<>>)
    [] n.val \in {"1", "2", "1.5"} -> Node("Number", n.val, <<>>)
    [] n.val = "b''" -> SyntaxError("constant")
    [] OTHER -> Node("String", n.val, <<>>)

TransformName(n) ==
  CASE n.kind = "NameStore" -> Node("Store", n.val, <<>>)
    [] n.kind = "NameLoad" -> Node("Load", n.val, <<>>)
    [] OTHER -> SyntaxError("context")

OperatorOf ==
  [Add |-> "+", Sub |-> "-", Mult |-> "*", Div |-> "/", FloorDiv |-> "//", Mod |-> "%",
   Pow |-> "**", LShift |-> "<<", RShift |-> ">>", BitOr |-> "|", BitXor |-> "^", BitAnd |-> "&"]
UnaryOperatorOf == [Not |-> "not", USub |-> "-"]
ComparatorOf ==
  [Eq |-> "==", NotEq |-> "!=", Lt |-> "<", LtE |-> "<=", Gt |-> ">", GtE |-> ">=",
   In |-> "in", NotIn |-> "not in"]
BooleanOperandOf == [And |-> "and", Or |-> "or"]

\* A node with an operator: the children are transformed before the operator
\* is looked up in its table.
WithOperator(kind, table, n, kids) ==
  LET built == Build(Node(kind, "", kids))
  IN  CASE Refused(built) -> built
        [] n.val \notin DOMAIN table -> SyntaxError("operator")
        [] OTHER -> [built EXCEPT !.val = table[n.val]]

RECURSIVE TransformAnnotation(_)
\* An annotation is a name, None, or a name with variants in brackets, which
\* are names unless there is only one.
TransformAnnotation(a) ==
  CASE a.kind = "NameLoad" -> Node("Annotation", a.val, <<>>)
    [] a.kind = "Constant" /\ a.val = "None" -> Node("Annotation", "None", <<>>)
    [] a.kind = "Subscript" /\ a.kids[1].kind # "NameLoad" -> SyntaxError("expected")
    [] a.kind = "Subscript" ->
         LET slice == a.kids[2]
             names == slice.kids
             variants == IF slice.kind # "Tuple" THEN <<TransformAnnotation(slice)>>
                         ELSE [i \in DOMAIN names |->
                                 IF names[i].kind = "NameLoad" THEN TransformAnnotation(names[i])
                                 ELSE SyntaxError("expected")]
         IN  Build(Node("AnnotationWithVariants", a.kids[1].val, variants))
    [] OTHER -> SyntaxError("annotation")

\* The interpolated names of a format string, each a plain Name.
TransformJoinedStr(n) ==
  LET values == SelectSeq(n.kids, LAMBDA k : k.kind = "FormattedValue")
  IN  Build(Node("FormatString", "",
        [i \in DOMAIN values |->
           Invariant(values[i].val = "" /\ values[i].kids[1].kind = "NameLoad",
                     TransformName(values[i].kids[1]))]))

RECURSIVE Transform(_)

TransformAll(kids) == [i \in DOMAIN kids |-> Transform(kids[i])]

TransformAssign(n) ==
  IF Len(n.kids) # 2 THEN SyntaxError("invariant")
  ELSE Build(Node("Assign", "", <<Expect(Names, Transform(n.kids[2])), Expect(Expressions, Transform(n.kids[1]))>>))

\* A target in parentheses is not simple; ExtractLiteral asks for a literal.
TransformAnnAssign(n) ==
  LET annotation == TransformAnnotation(n.kids[2])
      value == Expect(Expressions, Transform(n.kids[3]))
      built == Build(Node("Assign", "", <<Expect(Names, Transform(n.kids[1])), value, annotation>>))
  IN  CASE n.val # "simple" -> SyntaxError("invariant")
        [] Len(n.kids) = 2 -> SyntaxError("no value")
        [] OTHER -> IF ~Refused(built) /\ annotation.val = "ExtractLiteral"
                       /\ value.kind \notin Literals \cup {"FormatString"}
                    THEN SyntaxError("expected") ELSE built

IsKeyword(k) == k.kind = "keyword"

\* Positional arguments are refused; a `**mapping` argument has no name and is
\* left out of the call.
TransformCall(n) ==
  LET arguments == Tail(n.kids)
      named == SelectSeq(arguments, LAMBDA k : k.val # "")
      keywords == [i \in DOMAIN named |->
                     Build(Node("Keyword", named[i].val, <<Expect(Expressions, Transform(named[i].kids[1]))>>))]
  IN  IF \E i \in DOMAIN arguments : ~IsKeyword(arguments[i]) THEN SyntaxError("invariant")
      ELSE Build(Node("Call", "", <<Expect({"Attribute"} \cup Names, Transform(n.kids[1]))>> \o keywords))

\* Faulty variant: a chain of comparisons keeps its first comparison only.
TransformCompareFirst(n) ==
  WithOperator("BinaryComparison", ComparatorOf, n, TransformAll(SubSeq(n.kids, 1, 2)))
TransformCompare(n) ==
  Invariant(Len(n.kids) = 2, WithOperator("BinaryComparison", ComparatorOf, n, TransformAll(n.kids)))

\* Faulty variant: an attribute of anything.
TransformAttributeOfAny(n) == Build(Node("Attribute", n.val, <<Transform(n.kids[1])>>))
TransformAttribute(n) ==
  Build(Node("Attribute", n.val, <<Expect(Names, Transform(n.kids[1]))>>))

Transform(n) ==
  CASE n.kind = "Module" ->
         LET kids == TransformAll(n.kids)
         IN  Build(Node("Root", "", [i \in DOMAIN kids |-> Expect(Statements, kids[i])]))
    [] n.kind = "Assign" -> TransformAssign(n)
    [] n.kind = "AnnAssign" -> TransformAnnAssign(n)
    [] n.kind \in {"NameLoad", "NameStore", "NameDel"} -> TransformName(n)
    [] n.kind = "Constant" -> TransformConstant(n)
    [] n.kind = "Call" -> TransformCall(n)
    [] n.kind = "BinOp" -> WithOperator("BinaryOperation", OperatorOf, n, TransformAll(n.kids))
    [] n.kind = "UnaryOp" -> WithOperator("UnaryOperation", UnaryOperatorOf, n, TransformAll(n.kids))
    [] n.kind = "Compare" -> TransformCompare(n)
    [] n.kind = "BoolOp" -> WithOperator("BooleanOperation", BooleanOperandOf, n, TransformAll(n.kids))
    [] n.kind = "Expr" -> Invariant(n.kids[1].kind = "Call", Transform(n.kids[1]))
    [] n.kind = "Attribute" -> TransformAttribute(n)
    [] n.kind = "List" -> Invariant(n.val = "Load", Build(Node("List", "", TransformAll(n.kids))))
    [] n.kind = "JoinedStr" -> TransformJoinedStr(n)
    [] OTHER -> SyntaxError("unexpected")

-----------------------------------------------------------------------------
RECURSIVE PythonLeaves(_)
\* The identifiers, constants and attribute names of a Python tree in source
\* order, as a reader of the source sees them.
PythonLeaves(n) ==
  LET each == [i \in DOMAIN n.kids |-> PythonLeaves(n.kids[i])]
  IN  CASE n.kind \in {"NameLoad", "NameStore", "Constant"} -> <<n.val>>
        [] n.kind = "Assign" -> FlattenSeq(Tail(each)) \o Head(each)
        [] n.kind = "JoinedStr" -> FlattenSeq(SelectSeq(
             [i \in DOMAIN n.kids |-> IF n.kids[i].kind = "Constant" THEN <<>> ELSE each[i]],
             LAMBDA l : l # <<>>))
        [] n.kind = "keyword" -> <<n.val>> \o FlattenSeq(each)
        [] n.kind = "Attribute" -> FlattenSeq(each) \o <<n.val>>
        [] OTHER -> FlattenSeq(each)

RECURSIVE Leaves(_)
\* The same for an Osprey tree.
Leaves(n) ==
  LET each == [i \in DOMAIN n.kids |-> Leaves(n.kids[i])]
  IN  CASE n.kind \in {"Load", "Store", "String", "Number", "Boolean", "Annotation"} -> <<n.val>>
        [] n.kind = "None_" -> <<"None">>
        [] n.kind = "Assign" /\ Len(each) = 3 -> each[1] \o each[3] \o each[2]
        [] n.kind \in {"Keyword", "AnnotationWithVariants"} -> <<n.val>> \o FlattenSeq(each)
        [] n.kind = "Attribute" -> FlattenSeq(each) \o <<n.val>>
        [] OTHER -> FlattenSeq(each)
=============================================================================
