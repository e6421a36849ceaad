----------------------------- MODULE Evaluation -----------------------------
(***************************************************************************)
(* The node executors (engine/executor/node_executor): the value of an     *)
(* expression for one action, from the values of the names it reads.  All  *)
(* the operands of an expression are resolved before it is executed, so a  *)
(* boolean operation does not short-circuit: a failed operand counts as    *)
(* None there, and fails every other parent.  Of shifts, bit operations,   *)
(* powers and remainders the model keeps the class of the result and the   *)
(* errors, and texts are atoms, of which "ab" contains "a" and "A" is "a"  *)
(* in capitals.                                                            *)
(***************************************************************************)
EXTENDS StaticTypes

CONSTANT
  Run(_, _)    \* what a function returns for its resolved arguments

Failures == {"TypeError", "ValueError", "ZeroDivisionError", "AssertionError",
             "propagated", "expected", "MissingJsonPath", "InvalidJsonType"}
Failed(x) == x.class \in Failures
Truthy(x) == ~Falsy(x)
Bool(b) == Val("bool", IF b THEN 1 ELSE 0, <<>>)

TextValue(t) == Val("str", CASE t = "a" -> -1 [] t = "ab" -> -4 [] t = "A" -> -5 [] OTHER -> -2, <<>>)
TextContains(whole, part) == whole = part \/ <<whole, part>> = <<TextValue("ab"), TextValue("a")>>
Lower(x) == IF x = TextValue("A") THEN TextValue("a") ELSE x

LiteralValue(n) ==
  CASE n.kind = "String" -> TextValue(n.val)
    [] n.kind = "Number" -> CASE n.val = "1" -> Val("int", 1, <<>>)
                              [] n.val = "2" -> Val("int", 2, <<>>)
                              [] OTHER -> Val("float", 3, <<>>)
    [] n.kind = "Boolean" -> Bool(n.val = "True")
    [] OTHER -> NoneValue

\* Python's numbers, doubled so that halves are integers.
IsNumber(x) == x.class \in {"int", "float", "bool"}
IsInteger(x) == x.class \in {"int", "bool"}
Doubled(x) == IF x.class = "float" THEN x.v ELSE 2 * x.v
Number(class, d) == Val(class, IF class = "float" THEN d ELSE d \div 2, <<>>)

Complex == Val("complex", 1, <<>>)
IsFractional(x) == x.class = "float" /\ x.v % 2 = 1

PyEquals(l, r) ==
  IF IsNumber(l) /\ IsNumber(r) THEN Doubled(l) = Doubled(r) ELSE l = r

\* The functions of Python's operator module.
BinaryOperator(op, l, r) ==
  LET class == IF op # "/" /\ IsInteger(l) /\ IsInteger(r) THEN "int" ELSE "float"
      texts == l.class = "str" /\ r.class = "str"
      repeated == {l.class, r.class} = {"str", "int"}
      complex == Complex \in {l, r} /\ \A x \in {l, r} : x = Complex \/ IsNumber(x)
      zero == Doubled(r) = 0
  IN  CASE op = "+" /\ texts -> Val("str", -100 + l.v + 10 * r.v, <<>>)
        [] op = "*" /\ repeated -> Val("str", -1000 + l.v + 10 * r.v, <<>>)
        [] complex /\ op \in {"+", "-", "*", "/", "**"} -> Complex
        [] ~IsNumber(l) \/ ~IsNumber(r) -> Raises("TypeError")
        [] op = "+" -> Number(class, Doubled(l) + Doubled(r))
        [] op = "-" -> Number(class, Doubled(l) - Doubled(r))
        [] op = "*" -> Number(class, (Doubled(l) * Doubled(r)) \div 2)
        [] op \in {"/", "//", "%"} /\ zero -> Raises("ZeroDivisionError")
        [] op \in {"/", "//", "%"} -> Number(class, Doubled(l))
        [] op = "**" /\ l.v = 0 /\ r.v < 0 -> Raises("ZeroDivisionError")
        [] op = "**" /\ l.v < 0 /\ IsFractional(r) -> Complex
        [] op = "**" -> Number(IF r.v < 0 THEN "float" ELSE class, Doubled(l))
        [] ~IsInteger(l) \/ ~IsInteger(r) -> Raises("TypeError")
        [] op \in {"<<", ">>"} /\ r.v < 0 -> Raises("ValueError")
        [] OTHER -> Number("int", Doubled(l))

\* Faulty variant: Python's own operator.
InOperatorPython(a, b) ==
  CASE b.class = "list" -> Bool(\E i \in DOMAIN b.items : PyEquals(a, b.items[i]))
    [] a.class = "str" /\ b.class = "str" -> Bool(TextContains(b, a))
    [] OTHER -> Raises("TypeError")
\* in_operator: None is in None and in a list that holds it.
InOperator(a, b) ==
  LET none == a.class = "None"
      held == b.class = "list" /\ \E i \in DOMAIN b.items : PyEquals(a, b.items[i])
  IN  CASE none -> Bool(b.class = "None" \/ held)
        [] b.class = "None" -> Bool(FALSE)
        [] b.class = "list" -> Bool(held)
        [] a.class = "str" /\ b.class = "str" -> Bool(TextContains(b, a))
        [] OTHER -> Raises("TypeError")

Negated(x) == IF Failed(x) THEN x ELSE Bool(Falsy(x))

\* One comparison of two values; Python raises for an order between classes.
Comparison(op, l, r) ==
  LET dl == Doubled(l)
      dr == Doubled(r)
  IN  CASE op = "==" -> Bool(PyEquals(l, r))
        [] op = "!=" -> Bool(~PyEquals(l, r))
        [] op = "in" -> InOperator(l, r)
        [] op = "not in" -> Negated(InOperator(l, r))
        [] ~IsNumber(l) \/ ~IsNumber(r) -> Raises("TypeError")
        [] op = "<" -> Bool(dl < dr)
        [] op = "<=" -> Bool(dl <= dr)
        [] op = ">" -> Bool(dl > dr)
        [] OTHER -> Bool(dl >= dr)

Orders == {"<", "<=", ">", ">="}

\* BinaryComparisonExecutor.execute: an order with None is false.
ExecuteComparison(op, l, r) ==
  CASE Failed(l) -> l
    [] Failed(r) -> r
    [] op \in Orders /\ "None" \in {l.class, r.class} -> Bool(FALSE)
    [] OTHER -> Comparison(op, l, r)

UnaryOperator(op, x) ==
  CASE Failed(x) -> x
    [] op = "not" -> Negated(x)
    [] x = Complex -> Complex
    [] IsNumber(x) -> Number(IF x.class = "bool" THEN "int" ELSE x.class, -Doubled(x))
    [] OTHER -> Raises("TypeError")

\* all and any of the resolved operands.
BooleanOperator(op, xs) ==
  Bool(IF op = "and" THEN \A i \in DOMAIN xs : Truthy(xs[i]) ELSE \E i \in DOMAIN xs : Truthy(xs[i]))

FirstFailed(xs) ==
  LET bad == {i \in DOMAIN xs : Failed(xs[i])}
  IN  xs[CHOOSE i \in bad : \A j \in bad : i <= j]
AnyFailed(xs) == \E i \in DOMAIN xs : Failed(xs[i])

\* ArgumentsBase.kwarg_can_be_none
KwargCanBeNone(t) == t \in {NoneType, T("object")} \/ (t.o = "Union" /\ NoneType \in t.a)

\* ExecutionContext.resolved: a node's value, unwrapped where the node is marked.
ResolvedValue(x, unwrap) ==
  CASE Failed(x) -> Raises("propagated")
    [] ~unwrap -> x
    [] x.class \in {"Entity", "Rule"} -> Unwrap(x)
    [] OTHER -> Raises("AssertionError")
OrNone(x) == IF x.class = "propagated" THEN NoneValue ELSE x

RECURSIVE Eval(_, _, _, _, _)
\* BaseNodeExecutor.execute of an expression; env has the value of each name's
\* assignment, or its failure.
Eval(e, at, path, env, unwrap) ==
  LET Resolved(i) ==
        ResolvedValue(Eval(e.kids[i], Kid(at, i), path, env, unwrap), Kid(at, i) \in unwrap)
      All == [i \in DOMAIN e.kids |-> Resolved(i)]
  IN  CASE IsName(e) -> env[IdentifierKey(path, e)]
        [] e.kind \in Literals \ {"List"} -> LiteralValue(e)
        [] e.kind = "List" -> IF AnyFailed(All) THEN FirstFailed(All) ELSE Val("list", 0, All)
        [] e.kind = "FormatString" -> IF AnyFailed(All) THEN FirstFailed(All) ELSE Val("str", -3, <<>>)
        [] e.kind = "BinaryOperation" ->
             IF AnyFailed(All) THEN FirstFailed(All) ELSE BinaryOperator(e.val, All[1], All[2])
        [] e.kind = "BinaryComparison" ->
             LET left == IF e.val \in Orders THEN All[1] ELSE OrNone(All[1])
                 right == IF e.val \in {"==", "!="} THEN OrNone(All[2]) ELSE All[2]
             IN  ExecuteComparison(e.val, left, right)
        [] e.kind = "UnaryOperation" -> UnaryOperator(e.val, All[1])
        [] e.kind = "BooleanOperation" ->
             LET xs == [i \in DOMAIN All |-> OrNone(All[i])]
             IN  IF \E i \in DOMAIN xs : xs[i].class = "AssertionError" THEN Raises("AssertionError")
                 ELSE BooleanOperator(e.val, xs)
        [] OTHER ->
             LET udf == Registry[e.kids[1].val]
                 args == Arguments(e)
                 Arg(i) ==
                   LET x == ResolvedValue(Eval(args[i].kids[1], Kid(at, i), path, env, unwrap),
                                          Kid(at, i) \in unwrap)
                   IN  IF KwargCanBeNone(udf.params[args[i].val]) THEN OrNone(x) ELSE x
                 xs == [i \in DOMAIN args |-> Arg(i)]
             IN  IF AnyFailed(xs) THEN FirstFailed(xs)
                 ELSE Run(e.kids[1].val, [k \in ArgumentNames(e) |->
                            xs[CHOOSE i \in DOMAIN args : args[i].val = k]])

-----------------------------------------------------------------------------
\* An entity stands for its id and a rule for its value, unless it is compared
\* with its like.
Standing(x, other) ==
  IF /\ x.class \in {"Entity", "Rule"} /\ other.class # x.class
     /\ \A i \in DOMAIN other.items : other.items[i].class # x.class
  THEN Unwrap(x) ELSE x

RECURSIVE InOrder(_, _, _, _, _)
\* The reference: the expression as its author reads it, evaluated from the
\* left, where `and` and `or` stop at the operand that decides.
InOrder(e, at, path, env, unwrap) ==
  LET Sub(i) == InOrder(e.kids[i], Kid(at, i), path, env, unwrap)
      Alone(i) == IF Failed(Sub(i)) THEN Sub(i) ELSE Standing(Sub(i), NoneValue)
      values == [i \in DOMAIN e.kids |-> Sub(i)]
      like == e.kind = "BinaryComparison" /\ e.val \notin Orders
      right == Standing(values[2], IF e.val \in {"==", "!="} THEN values[1] ELSE NoneValue)
      left == Standing(values[1], IF like THEN right ELSE NoneValue)
      Decides(x) == Failed(x) \/ Truthy(x) = (e.val = "or")
      deciding == {i \in DOMAIN e.kids : Decides(Alone(i))}
      first == CHOOSE i \in deciding : \A j \in deciding : i <= j
  IN  CASE e.kind = "BooleanOperation" ->
             IF deciding = {} THEN Bool(e.val = "and")
             ELSE IF Failed(Sub(first)) THEN Sub(first) ELSE Bool(e.val = "or")
        [] IsName(e) \/ e.kind \in Literals \cup {"FormatString", "Call"} ->
             Eval(e, at, path, env, unwrap)
        [] AnyFailed(values) -> FirstFailed(values)
        [] e.kind = "BinaryOperation" -> BinaryOperator(e.val, left, right)
        [] e.kind = "BinaryComparison" -> Comparison(e.val, left, right)
        [] OTHER -> UnaryOperator(e.val, Alone(1))
=============================================================================
