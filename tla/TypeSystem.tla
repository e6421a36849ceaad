----------------------------- MODULE TypeSystem -----------------------------
(***************************************************************************)
(* The rule language's types (engine/udf/type_evaluator.py and             *)
(* rvalue_type_checker.py): which type may be used where another is        *)
(* expected, what an annotation means, and how a value of an action's JSON *)
(* is checked against, or coerced to, an annotation.  A type is its origin *)
(* and the set of its arguments.                                           *)
(***************************************************************************)
EXTENDS Grammar

T(origin) == [o |-> origin, a |-> {}]
Generic(origin, arg) == [o |-> origin, a |-> {arg}]
AnyType == T("Any")
NoneType == T("None")
Scalars == {"str", "int", "float", "bool"}
TypeError == T("error")     \* an UnsupportedTypeError or AnnotationConversionError

\* typing.Union: flattened, without duplicates, and no union of one type.
UnionOf(types) ==
  LET flat == UNION {IF t.o = "Union" THEN t.a ELSE {t} : t \in types}
  IN  IF Cardinality(flat) = 1 THEN CHOOSE t \in flat : TRUE ELSE [o |-> "Union", a |-> flat]

Inner(t) == CHOOSE u \in t.a : TRUE
IsList(t) == t.o = "List"
IsOptional(t) == t.o = "Entity" \/ (t.o = "Union" /\ NoneType \in t.a)

\* _is_single_arg_invariant_generic, and the other types that take no argument.
IsGeneric(t) == t.o \in {"List", "Entity"}
IsSimple(t) == ~IsGeneric(t) /\ t.o # "Union"

Candidates(t) == IF t.o = "Union" THEN t.a ELSE {t}

\* Faulty variant: an int is no float, as for the classes.
AcceptableExact(t, accepted) == \E u \in accepted : AnyType \in {t, u} \/ t = u \/ u.o = "object"
\* A bool is no int, although Python makes it a subclass; an int is a float.
Acceptable(t, accepted) ==
  \E u \in accepted :
    \/ AnyType \in {t, u}
    \/ u.o = "object"
    \/ t = u
    \/ u.o = "float" /\ t.o = "int"

Stripped(t) == IF t.o = "ConstExpr" THEN Inner(t) ELSE t

RECURSIVE Compatible(_, _)
\* _is_compatible_type: "yes", "no", or "error" for a type out of the system.
Compatible(t, accepted) ==
  LET s == Stripped(t)
      u == Stripped(accepted)
  IN  CASE AnyType \in {t, accepted} -> "yes"
        [] (IsGeneric(s) \/ IsGeneric(u)) /\ s.o # u.o -> "no"
        [] (IsGeneric(s) \/ IsGeneric(u)) /\ s.o = u.o -> Compatible(Inner(s), Inner(u))
        [] \E v \in Candidates(s) \cup Candidates(u) : ~IsSimple(v) -> "error"
        [] \A v \in Candidates(s) : Acceptable(v, Candidates(u)) -> "yes"
        [] OTHER -> "no"

\* PostExecutionConvertible: an entity stands for its id, a rule for its value.
Convertible(t) == t.o \in {"Entity", "Rule"}
Unwrapped(t) == IF t.o = "Entity" THEN Inner(t) ELSE T("bool")

\* is_compatible_type: as it is, or only after the value is unwrapped.
OrUnwrapped(direct, unwrapped) ==
  CASE direct # "no" -> direct [] unwrapped = "yes" -> "unwrap" [] OTHER -> unwrapped
IsCompatible(t, accepted, allowUnwrap) ==
  OrUnwrapped(Compatible(t, accepted),
              IF allowUnwrap /\ Convertible(t) THEN Compatible(Unwrapped(t), accepted) ELSE "no")

-----------------------------------------------------------------------------
(* Annotations.  Where a simple annotation is expected, one with variants  *)
(* fails an assertion, which refuses the sources as well.                  *)

SimpleType(n) ==
  IF n.kind = "Annotation" /\ n.val \in Scalars \cup {"None"} THEN T(n.val) ELSE TypeError

Wrappers == {"ExtractLiteral", "Secret", "ExtractSecret"}

UnionType(n) ==
  LET types == {SimpleType(n.kids[i]) : i \in DOMAIN n.kids}
      repeated == \E i, j \in DOMAIN n.kids : i # j /\ n.kids[i].val = n.kids[j].val
  IN  IF Len(n.kids) = 1 \/ repeated \/ TypeError \in types THEN TypeError ELSE UnionOf(types)

OfOne(n) ==
  IF Len(n.kids) # 1 \/ SimpleType(n.kids[1]) = TypeError THEN TypeError
  ELSE IF n.val = "Optional" THEN UnionOf({SimpleType(n.kids[1]), NoneType}) ELSE Generic(n.val, SimpleType(n.kids[1]))

RECURSIVE ToType(_)
\* convert_ast_annotation_to_type_checker, then to_typing_type.
ToType(n) ==
  CASE n.kind = "Annotation" -> SimpleType(n)
    [] n.val = "Union" -> UnionType(n)
    [] n.val \in {"Optional", "List"} -> OfOne(n)
    [] n.val = "Entity" ->
         IF Len(n.kids) = 1 /\ n.kids[1].val \notin {"str", "int"} THEN TypeError
         ELSE OfOne(n)
    [] n.val \in Wrappers -> IF Len(n.kids) = 1 THEN ToType(n.kids[1]) ELSE TypeError
    [] OTHER -> TypeError

-----------------------------------------------------------------------------
(* Values.  A value is its class, a number and its items: the number is    *)
(* the value of an int, of a bool (0 or 1), twice that of a float, and of  *)
(* a text of digits; every other text is negative.                         *)

Val(class, v, items) == [class |-> class, v |-> v, items |-> items]
NoneValue == Val("None", 0, <<>>)
Raises(error) == Val(error, 0, <<>>)
Errors == {"TypeError", "ValueError"}
Falsy(x) == \/ x.class \in {"None", "int", "float", "bool"} /\ x.v = 0
            \/ x.class = "list" /\ x.items = <<>>

\* Faulty variant: a bool passes for an int.
IsInstanceOfSubclass(x, type) ==
  x.class = type \/ (type = "int" /\ x.class = "bool") \/ (type = "float" /\ x.class = "int")
\* InstanceTypeChecker.check
IsInstance(x, type) ==
  CASE type \in {"int", "float"} -> x.class = type \/ (type = "float" /\ x.class = "int")
    [] OTHER -> x.class = type

RECURSIVE Check(_, _)
\* Does a value pass the checker of an annotation?
Check(n, x) ==
  CASE n.kind = "Annotation" -> IsInstance(x, n.val)
    [] n.val = "Union" -> \E i \in DOMAIN n.kids : Check(n.kids[i], x)
    [] n.val = "Optional" -> Check(n.kids[1], x) \/ x.class = "None"
    [] n.val = "List" -> x.class = "list" /\ \A i \in DOMAIN x.items : Check(n.kids[1], x.items[i])
    [] n.val = "Entity" -> x.class = "Entity" /\ Check(n.kids[1], x.items[1])
    [] OTHER -> Check(n.kids[1], x)

\* Calling a scalar type on a value that is not of that type.
Construct(type, x) ==
  CASE type = "str" -> Val("str", IF x.class \in {"int", "str"} THEN x.v ELSE -1, <<>>)
    [] type = "bool" -> Val("bool", IF Falsy(x) THEN 0 ELSE 1, <<>>)
    [] x.class = "str" -> IF x.v < 0 THEN Raises("ValueError")
                          ELSE Val(type, IF type = "float" THEN 2 * x.v ELSE x.v, <<>>)
    [] x.class = "float" -> Val("int", x.v \div 2, <<>>)
    [] OTHER -> Raises("TypeError")

\* Faulty variant: None and booleans are converted like any other value.
CoerceScalarAnything(type, x) ==
  IF IsInstance(x, type) THEN x
  ELSE Construct(type, IF x.class \in {"None", "bool"} THEN Val("str", x.v, <<>>) ELSE x)
\* InstanceTypeChecker.coerce
CoerceScalar(type, x) ==
  CASE IsInstance(x, type) -> x
    [] type = "None" -> Raises("TypeError")
    [] x.class = "None" /\ type # "bool" -> Raises("TypeError")
    [] x.class = "bool" /\ type \in {"int", "float"} -> Raises("TypeError")
    [] OTHER -> Construct(type, x)

\* UnionTypeChecker.coerce: a type that fits, else the first that converts.
CoerceUnion(types, x) ==
  LET fits == {i \in DOMAIN types : IsInstance(x, types[i])}
      works == {i \in DOMAIN types : CoerceScalar(types[i], x).class # "TypeError"}
  IN  CASE fits # {} -> x
        [] works # {} -> CoerceScalar(types[CHOOSE i \in works : \A j \in works : i <= j], x)
        [] OTHER -> Raises("TypeError")

\* RValueTypeChecker.coerce of every checker; the wrappers and Entity only check.
Coerce(n, x) ==
  CASE n.kind = "Annotation" -> CoerceScalar(n.val, x)
    [] n.val = "Union" -> CoerceUnion([i \in DOMAIN n.kids |-> n.kids[i].val], x)
    [] n.val = "Optional" -> CoerceUnion(<<n.kids[1].val, "None">>, x)
    [] Check(n, x) -> x
    [] n.val = "List" /\ x.class = "list" ->
         LET items == [i \in DOMAIN x.items |-> CoerceScalar(n.kids[1].val, x.items[i])]
             bad == {i \in DOMAIN items : items[i].class \in Errors}
         IN  IF bad = {} THEN [x EXCEPT !.items = items]
             ELSE items[CHOOSE i \in bad : \A j \in bad : i <= j]
    [] OTHER -> Raises("TypeError")

\* json_utils.get_from_data: what JsonData gives for the matches of its path.
\* "expected" is a failure nobody is told of, the errors are reported.
GetFromData(matches, required, coerceType, n) ==
  IF matches = <<>> THEN
    CASE Check(n, NoneValue) -> NoneValue
      [] required -> Raises("MissingJsonPath")
      [] OTHER -> Raises("expected")
  ELSE
    LET x == matches[1]
    IN  CASE Check(n, x) -> x
          [] x.class = "None" /\ ~required -> Raises("expected")
          [] coerceType /\ x.class # "None" /\ Coerce(n, x).class \notin Errors -> Coerce(n, x)
          [] OTHER -> Raises("InvalidJsonType")

-----------------------------------------------------------------------------
RECURSIVE Inhabits(_, _)
\* The reference: a value is of a type.
Inhabits(x, t) ==
  CASE t.o \in {"Any", "object"} -> TRUE
    [] t.o = "float" -> x.class \in {"int", "float"}
    [] t.o = "Union" -> \E u \in t.a : Inhabits(x, u)
    [] t.o = "List" -> x.class = "list" /\ \A i \in DOMAIN x.items : Inhabits(x.items[i], Inner(t))
    [] t.o = "Entity" -> x.class = "Entity" /\ Inhabits(x.items[1], Inner(t))
    [] t.o = "ConstExpr" -> Inhabits(x, Inner(t))
    [] OTHER -> x.class = t.o

\* to_post_execution_value
Unwrap(x) == IF x.class = "Entity" THEN x.items[1] ELSE Val("bool", x.v, <<>>)
=============================================================================
