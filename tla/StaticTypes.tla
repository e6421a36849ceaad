---------------------------- MODULE StaticTypes ----------------------------
(***************************************************************************)
(* The validator that gives every expression of the rule language a type   *)
(* (ast_validator/validators/validate_static_types.py), and the node       *)
(* executors that evaluate the expression for an action.  A node is known  *)
(* by its place: the path of its file and the index of each child on the   *)
(* way down.  The validator's errors and the nodes whose value has to be   *)
(* unwrapped are sets of places.                                           *)
(***************************************************************************)
EXTENDS TypeSystem, Functions

CONSTANT
  Registry     \* the functions: name -> [params, defaults, ret, dynamic]

TypeVar == T("T")
HasTypeVar(t) == t = TypeVar \/ TypeVar \in t.a
Substitute(t, u) ==
  CASE t = TypeVar -> u
    [] TypeVar \in t.a -> [t EXCEPT !.a = (t.a \ {TypeVar}) \cup {u}]
    [] OTHER -> t

Typed(ty, errs, unwrap) == [ty |-> ty, errs |-> errs, unwrap |-> unwrap]
Kid(at, i) == Append(at, i)
IntOrFloat == UnionOf({T("int"), T("float")})

\* _check_compatible_type: an error at a place, or a value to unwrap there.
Marked(r, c, at) ==
  [r EXCEPT !.errs = IF c \in {"no", "error"} THEN @ \cup {at} ELSE @,
            !.unwrap = IF c = "unwrap" THEN @ \cup {at} ELSE @]
CheckCompatible(r, accepted, at) == Marked(r, IsCompatible(r.ty, accepted, TRUE), at)

\* The operand types of the operators, in the order they are tried.
Transition(left, right, result) == [left |-> left, right |-> right, result |-> result]
IntTransition == Transition(T("int"), T("int"), T("int"))
FloatTransition == Transition(IntOrFloat, IntOrFloat, T("float"))
BinaryOperationTransitions(op) ==
  CASE op = "+" -> <<Transition(T("str"), T("str"), T("str")), IntTransition, FloatTransition>>
    [] op = "*" -> <<IntTransition, FloatTransition, Transition(T("str"), T("int"), T("str")),
                     Transition(T("int"), T("str"), T("str"))>>
    [] op \in {"-", "//", "%", "**"} -> <<IntTransition, FloatTransition>>
    [] op = "/" -> <<FloatTransition>>
    [] OTHER -> <<IntTransition>>
BinaryComparisonTransitions(op) ==
  CASE op \in {"==", "!="} -> <<Transition(AnyType, AnyType, T("bool"))>>
    [] op \in {"in", "not in"} -> <<Transition(T("str"), T("str"), T("bool")),
                                    Transition(AnyType, Generic("List", AnyType), T("bool"))>>
    [] OTHER -> <<Transition(IntOrFloat, IntOrFloat, T("bool"))>>

NoHook(l, r) == [valid |-> TRUE, unwrap |-> {}]

\* The first side that fits once unwrapped, when none fits as it is.
UnwrapOne(cl, cr, left, right) ==
  CASE "yes" \in {cl, cr} -> [valid |-> TRUE, unwrap |-> {}]
    [] cl = "unwrap" -> [valid |-> TRUE, unwrap |-> {left}]
    [] cr = "unwrap" -> [valid |-> TRUE, unwrap |-> {right}]
    [] OTHER -> [valid |-> FALSE, unwrap |-> {}]
\* Faulty variant: the other side is marked.
EqualityHookSwapped(l, r, at) ==
  IF NoneType \in {l, r} THEN NoHook(l, r)
  ELSE UnwrapOne(IsCompatible(l, r, TRUE), IsCompatible(r, l, TRUE), Kid(at, 2), Kid(at, 1))
\* Equality needs one side compatible with the other, or None; an unwrapped
\* side is used only when nothing fits as it is.
EqualityHook(l, r, at) ==
  IF NoneType \in {l, r} THEN NoHook(l, r)
  ELSE UnwrapOne(IsCompatible(l, r, TRUE), IsCompatible(r, l, TRUE), Kid(at, 1), Kid(at, 2))

\* A needle has the type of the list's items, or is unwrapped to it.
MembershipHook(l, r, at) ==
  IF ~IsList(r) THEN NoHook(l, r)
  ELSE UnwrapOne(IsCompatible(l, Inner(r), TRUE), IsCompatible(Inner(r), l, FALSE), Kid(at, 1), Kid(at, 2))

ComparisonHook(op, l, r, at) ==
  CASE op \in {"==", "!="} -> EqualityHook(l, r, at)
    [] op \in {"in", "not in"} -> MembershipHook(l, r, at)
    [] OTHER -> NoHook(l, r)

\* _validate_two_arg_type_transitions.  The operator's hook is given the operands'
\* types, as unwrapped, once a transition is found.
TwoArgTransitions(l, r, at, transitions, allowAny, op) ==
  LET Fits(t) == <<IsCompatible(l.ty, t.left, TRUE), IsCompatible(r.ty, t.right, TRUE)>>
      Stops(fits) == "error" \in Range(fits) \/ "no" \notin Range(fits)
      As(t, c) == IF c = "unwrap" THEN Unwrapped(t) ELSE t
      Also(ty, errs, unwrap) == Typed(ty, l.errs \cup r.errs \cup errs, l.unwrap \cup r.unwrap \cup unwrap)
      Hooked(ty, fits, hook) ==
        Also(ty, IF hook.valid THEN {} ELSE {at},
             hook.unwrap \cup {Kid(at, i) : i \in {k \in DOMAIN fits : fits[k] = "unwrap"}})
      Chosen(tried) ==
        IF tried = <<>> \/ "error" \in Range(Head(tried).fits) THEN Also(AnyType, {at}, {})
        ELSE Hooked(Head(tried).result, Head(tried).fits,
                    ComparisonHook(op, As(l.ty, Head(tried).fits[1]), As(r.ty, Head(tried).fits[2]), at))
  IN  IF ~allowAny /\ AnyType \in {l.ty, r.ty} THEN Also(AnyType, {at}, {})
      ELSE Chosen(SelectSeq([i \in DOMAIN transitions |->
                               [result |-> transitions[i].result, fits |-> Fits(transitions[i])]],
                            LAMBDA t : Stops(t.fits)))

\* The operand is unwrapped for `not`; a value that has to be unwrapped for a
\* minus marks the operation itself.
UnaryOperation(op, r, at) ==
  LET Placed(c) == Marked(r, c, IF op = "not" /\ c = "unwrap" THEN Kid(at, 1) ELSE at)
  IN  IF op = "not" THEN [Placed(IsCompatible(r.ty, T("bool"), TRUE)) EXCEPT !.ty = T("bool")]
      ELSE Placed(IsCompatible(r.ty, IntOrFloat, TRUE))

NonNoneType(t) == UnionOf(t.a \ {NoneType})

\* Faulty variant: a comparison with None narrows whatever the operand is.
NarrowingAlways(e, operand, path, names) ==
  IF e.kind = "BinaryComparison" /\ e.val \in {"==", "!="} /\ IsName(e.kids[1]) /\ e.kids[2].kind = "None_"
  THEN LET key == IdentifierKey(path, e.kids[1])
       IN  IF key \in DOMAIN names /\ names[key].ty.o = "Union" THEN {<<key, NonNoneType(names[key].ty)>>} ELSE {}
  ELSE {}
\* _get_type_narrowing_from_expression: after `X != None and`, and after
\* `X == None or`, X is not None.
Narrowing(e, operand, path, names) ==
  LET narrows == e.kind = "BinaryComparison" /\ e.val = (IF operand = "and" THEN "!=" ELSE "==")
      sides == {i \in 1..2 : IsName(e.kids[i]) /\ e.kids[3 - i].kind = "None_"}
      key == IdentifierKey(path, e.kids[CHOOSE i \in sides : TRUE])
  IN  IF /\ narrows /\ sides # {} /\ key \in DOMAIN names
         /\ names[key].ty.o = "Union" /\ NoneType \in names[key].ty.a
      THEN {<<key, NonNoneType(names[key].ty)>>} ELSE {}

\* The names with the narrowed ones at their narrower type.
Narrowed(names, narrowed) ==
  [k \in DOMAIN names |->
     IF \E n \in narrowed : n[1] = k
     THEN [names[k] EXCEPT !.ty = (CHOOSE n \in narrowed : n[1] = k)[2]] ELSE names[k]]

\* get_typevar_substitution, and the special case of an Optional parameter.
TypeVarFor(param, arg) ==
  CASE param = TypeVar -> arg
    [] IsOptional(param) /\ param.o = "Union" /\ ~IsOptional(arg) -> arg
    [] param.o # arg.o \/ Cardinality(arg.a \ {NoneType}) # 1 -> TypeError
    [] OTHER -> Inner([arg EXCEPT !.a = @ \ {NoneType}])

RECURSIVE Validate(_, _, _, _)

\* The operands of a boolean operation, each with what the ones before it have
\* narrowed.
ValidateBoolean(e, at, path, names) ==
  LET Joined(acc, r, new) ==
        [ty |-> T("bool"), narrowed |-> {n \in acc.narrowed : \A m \in new : m[1] # n[1]} \cup new,
         errs |-> acc.errs \cup r.errs, unwrap |-> acc.unwrap \cup r.unwrap]
      Step(acc, i, scope) ==
        Joined(acc, CheckCompatible(Validate(e.kids[i], Kid(at, i), path, scope), T("bool"), Kid(at, i)),
               Narrowing(e.kids[i], e.val, path, scope))
  IN  Restrict(FoldLeftDomain(LAMBDA acc, i : Step(acc, i, Narrowed(names, acc.narrowed)),
                              [ty |-> T("bool"), narrowed |-> {}, errs |-> {}, unwrap |-> {}], e.kids),
               {"ty", "errs", "unwrap"})

\* One item type for all the items; the type of an empty list is open.
ValidateList(e, at, path, names) ==
  LET ListType(types) == Generic("List", IF Cardinality(types) = 1 THEN CHOOSE t \in types : TRUE ELSE AnyType)
      Listed(items) ==
        Typed(ListType({r.ty : r \in items}),
              UNION {r.errs : r \in items} \cup IF \E r, q \in items : r.ty # q.ty THEN {at} ELSE {},
              UNION {r.unwrap : r \in items})
  IN  Listed({Validate(e.kids[i], Kid(at, i), path, names) : i \in DOMAIN e.kids})

\* A name in a format string is printable, and not secret.
ValidateFormatString(e, at, path, names) ==
  LET secret == {i \in DOMAIN e.kids : ~names[IdentifierKey(path, e.kids[i])].can}
      Formatted(parts) ==
        Typed(T("str"), UNION {r.errs : r \in parts} \cup {Kid(at, i) : i \in secret}, UNION {r.unwrap : r \in parts})
  IN  Formatted({CheckCompatible(Validate(e.kids[i], Kid(at, i), path, names),
                                 UnionOf({T(s) : s \in Scalars}), Kid(at, i)) : i \in DOMAIN e.kids})

\* The type of the result, for the types the arguments give the type variable: a
\* dynamic function has the type its assignment is annotated with.
ResultType(udf, types, checked, at, annotated) ==
  LET open == ~udf.dynamic /\ HasTypeVar(udf.ret) /\ types = {}
      bad == open \/ Cardinality(types) > 1 \/ TypeError \in types
  IN  Typed(CASE udf.dynamic -> annotated
              [] HasTypeVar(udf.ret) /\ ~bad -> Substitute(udf.ret, CHOOSE t \in types : TRUE)
              [] OTHER -> udf.ret,
            UNION {r.errs : r \in checked} \cup IF bad THEN {at} ELSE {}, UNION {r.unwrap : r \in checked})
\* The arguments against the parameters, the type variable from the arguments
\* whose parameter mentions it.
CallType(udf, given, args, at, annotated) ==
  LET generic == {i \in DOMAIN args : HasTypeVar(udf.params[given[i]])}
      Unset(i) == IsOptional(udf.params[given[i]]) /\ args[i].ty = NoneType
  IN  ResultType(udf, {TypeVarFor(udf.params[given[i]], args[i].ty) : i \in {k \in generic : ~Unset(k)}},
                 {IF i \in generic THEN args[i] ELSE CheckCompatible(args[i], udf.params[given[i]], Kid(at, i))
                    : i \in DOMAIN args}, at, annotated)
ValidateCall(e, at, path, names, annotated) ==
  LET args == Arguments(e)
  IN  CallType(Registry[e.kids[1].val], [i \in DOMAIN args |-> args[i].val],
               [i \in DOMAIN args |-> Validate(args[i].kids[1], Kid(at, i), path, names)], at, annotated)

Literal(ty) == Typed(ty, {}, {})

\* _validate_expression
Validate(e, at, path, names) ==
  LET Sub(i) == Validate(e.kids[i], Kid(at, i), path, names)
      key == IdentifierKey(path, e)
  IN  CASE IsName(e) -> Literal(IF key \in DOMAIN names THEN names[key].ty ELSE AnyType)
        [] e.kind = "String" -> Literal(T("str"))
        [] e.kind = "Number" -> Literal(T(IF e.val = "1.5" THEN "float" ELSE "int"))
        [] e.kind = "Boolean" -> Literal(T("bool"))
        [] e.kind = "None_" -> Literal(NoneType)
        [] e.kind = "List" -> ValidateList(e, at, path, names)
        [] e.kind = "Call" -> ValidateCall(e, at, path, names, AnyType)
        [] e.kind \in {"BinaryOperation", "BinaryComparison"} ->
             TwoArgTransitions(Sub(1), Sub(2), at,
               IF e.kind = "BinaryOperation" THEN BinaryOperationTransitions(e.val) ELSE BinaryComparisonTransitions(e.val),
               e.kind = "BinaryComparison", e.val)
        [] e.kind = "UnaryOperation" -> UnaryOperation(e.val, Sub(1), at)
        [] e.kind = "BooleanOperation" -> ValidateBoolean(e, at, path, names)
        [] e.kind = "FormatString" -> ValidateFormatString(e, at, path, names)
        [] OTHER -> Typed(AnyType, {at}, {})

\* _validate_assign: the annotation's type is the name's, and what depends on
\* a secret is marked secret.
ValidateAssign(s, at, path, names) ==
  LET annotation == IF HasAnnotation(s) THEN ToType(AnnotationOf(s)) ELSE TypeError
      empty == Value(s).kind = "List" /\ Value(s).kids = <<>> /\ ~HasAnnotation(s)
      Kept(r) == IF annotation = TypeError THEN r ELSE [CheckCompatible(r, annotation, Kid(at, 2)) EXCEPT !.ty = annotation]
      Entered(r, can) ==
        LET bad == \/ HasAnnotation(s) /\ annotation = TypeError
                   \/ empty
                   \/ ~can /\ ~AnnotatedAs(s, "Secret") /\ ~AnnotatedAs(s, "ExtractSecret")
        IN  [entry |-> [ty |-> r.ty, can |-> can, note |-> IF HasAnnotation(s) THEN AnnotationOf(s) ELSE None],
             errs |-> r.errs \cup IF bad THEN {at} ELSE {}, unwrap |-> r.unwrap]
  IN  Entered(Kept(IF Value(s).kind = "Call" THEN ValidateCall(Value(s), Kid(at, 2), path, names, annotation)
                   ELSE Validate(Value(s), Kid(at, 2), path, names)),
              CanExtract(s, path, [k \in DOMAIN names |-> names[k].note]))
=============================================================================
