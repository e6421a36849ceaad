----------------------------- MODULE Validation -----------------------------
(***************************************************************************)
(* engine/ast_validator: a set of source files is parsed, checked by the   *)
(* registered validators, each after the ones it depends on, and compiled  *)
(* (engine/executor/execution_graph.py).  The registry is iterated in no   *)
(* particular order, so the next validator to run is any that has no       *)
(* result yet; those it depends on run within it.  An error is the         *)
(* validator that was running and what it says of which file.              *)
(***************************************************************************)
EXTENDS PyAst, StaticTypes, TLC

CONSTANTS
  Paths,        \* the paths of the source files, in lexicographic order
  Programs,     \* sets of sources: path -> Python syntax tree
  GlobMatches,  \* the paths a format string of Require matches, by its text
  LabelConfig   \* labels of the config: label -> the entity types it is valid for

VARIABLES
  program,   \* the sources
  asts,      \* their syntax trees
  results,   \* _validation_results: validator -> "ok" or "failed"
  errors,    \* _errors
  phase      \* "parse", "validate", "accepted", "refused", "raised", "compiled", "broken"

vars == <<program, asts, results, errors, phase>>

\* The validators, and what each requires: all of one group are run before any
\* failure among them is raised, and only then the next group.
DependsOn ==
  [UniqueStoredNames |-> <<>>,
   ValidateCallKwargs |-> <<<<"UniqueStoredNames">>>>,
   ImportsMustNotHaveCycles |-> <<<<"ValidateCallKwargs">>>>,
   VariablesMustBeDefined |->
     <<<<"ValidateCallKwargs", "ImportsMustNotHaveCycles">>, <<"UniqueStoredNames">>>>,
   DynamicCallsAnnotated |-> <<<<"ValidateCallKwargs">>>>,
   ValidateStaticTypes |->
     <<<<"ValidateCallKwargs">>,
       <<"ImportsMustNotHaveCycles", "UniqueStoredNames", "DynamicCallsAnnotated", "VariablesMustBeDefined">>>>,
   ValidateCallRValue |-> <<>>,
   NoUnusedLocals |-> <<>>,
   FeatureNameToEntityType |-> <<<<"ValidateCallKwargs">>>>,
   ValidateLabels |-> <<<<"ValidateCallKwargs">>, <<"FeatureNameToEntityType">>>>]
Validators == DOMAIN DependsOn

-----------------------------------------------------------------------------
(* The nodes of a file, each with its parent.                              *)

RECURSIVE IterWithParent(_, _)
IterWithParent(n, parent) ==
  <<[node |-> n, parent |-> parent]>> \o
  FlattenSeq([i \in DOMAIN n.kids |-> IterWithParent(n.kids[i], n)])

All(trees, path) == IterWithParent(trees[path], None)
Calls(trees, path) == {p \in Range(All(trees, path)) : p.node.kind = "Call"}
Files(trees) == DOMAIN trees
FuncName(call) == call.kids[1].val
IsImport(n) == n.kind = "Call" /\ n.kids[1].kind = "Load" /\ FuncName(n) = "Import"
KnownCalls(trees, path) == {p \in Calls(trees, path) : FuncName(p.node) \in DOMAIN Registry}

Problem(path, what) == [path |-> path, what |-> what]
Say(cond, path, what) == IF cond THEN {Problem(path, what)} ELSE {}

-----------------------------------------------------------------------------
(* UniqueStoredNames.                                                      *)

StoresOf(trees, path, id) ==
  Len(SelectSeq(All(trees, path), LAMBDA p : p.node.kind = "Store" /\ p.node.val = id))
StoredIn(trees, path) == {p.node.val : p \in {q \in Range(All(trees, path)) : q.node.kind = "Store"}}

UniqueStoredNames(trees) ==
  UNION {UNION {Say(IF id \in Locals THEN StoresOf(trees, path, id) > 1
                    ELSE \/ StoresOf(trees, path, id) > 1
                         \/ \E q \in Files(trees) \ {path} : id \in StoredIn(trees, q), path, id)
                : id \in StoredIn(trees, path)} : path \in Files(trees)}

\* The features a file defines, and its assignments.
FeaturesOf(trees, path) == StoredIn(trees, path) \ Locals
Assignments(trees, path) ==
  {trees[path].kids[i] : i \in {j \in DOMAIN trees[path].kids : trees[path].kids[j].kind = "Assign"}}

-----------------------------------------------------------------------------
(* ValidateCallKwargs.                                                     *)

LiteralKind(t) ==
  CASE t.o = "str" -> "String" [] t.o = "bool" -> "Boolean" [] t.o = "List" -> "List" [] OTHER -> "Number"

\* A name stands for the expression assigned to it, one layer deep: any value of
\* a feature, a literal of a local.  Minus a number is a literal as well.
Unsigned(n) ==
  IF n.kind = "UnaryOperation" /\ n.val = "-" /\ n.kids[1].kind = "Number" THEN n.kids[1] ELSE n
OneOf(values, default) == IF values = {} THEN default ELSE CHOOSE n \in values : TRUE
Assigned(trees, path, arg) ==
  {Value(s) : s \in {t \in IF IsLocal(arg) THEN Assignments(trees, path)
                           ELSE UNION {Assignments(trees, q) : q \in Files(trees)} :
                      /\ Target(t).val = arg.val
                      /\ IsLocal(arg) => Value(t).kind \in Literals}}
ResolveLiteral(trees, path, arg) ==
  Unsigned(IF IsName(arg) THEN OneOf(Assigned(trees, path, arg), arg) ELSE arg)

\* ConstExpr.resolve succeeds.
IsConstOf(t, n) ==
  /\ n.kind = LiteralKind(Inner(t))
  /\ n.kind = "List" => \A i \in DOMAIN n.kids : n.kids[i].kind = LiteralKind(Inner(Inner(t)))

\* The constructors of the functions that check their own call.
ImportProblems(trees, path, items) ==
  LET Place(i) == CHOOSE j \in DOMAIN Paths : Paths[j] = items[i].val
      found == {i \in DOMAIN items : items[i].val \in Files(trees)}
  IN  Say(found # DOMAIN items, path, "not found")
        \cup Say(\E i, j \in DOMAIN items : i # j /\ items[i] = items[j], path, "duplicated")
        \cup Say(\E i, j \in found : i < j /\ Place(i) > Place(j), path, "not sorted")
RequireProblems(trees, path, rule) ==
  CASE rule.kind = "String" -> Say(rule.val \notin Files(trees), path, "required rule not found")
    [] rule.kind = "FormatString" ->
         Say(GlobMatches[rule.kids[1].val] \cap Files(trees) = {}, path, "required rule never matches")
    [] OTHER -> Say(TRUE, path, "literal required")
RuleProblems(path, call, parent) ==
  Say(parent.kind # "Assign", path, "rule must be assigned")
    \cup Say(parent.kind = "Assign" /\ IsLocal(Target(parent)), path, "rule in a local")
    \cup Say(FindArgument(call, "description").kind \notin {"String", "FormatString"}, path, "description")
Constructor(trees, path, call, parent) ==
  CASE FuncName(call) = "Import" ->
         ImportProblems(trees, path, ResolveLiteral(trees, path, FindArgument(call, "rules")).kids)
    [] FuncName(call) = "Require" -> RequireProblems(trees, path, FindArgument(call, "rule"))
    [] FuncName(call) = "Rule" -> RuleProblems(path, call, parent)
    [] OTHER -> {}

ValidateCallNode(trees, path, call, parent) ==
  LET udf == Registry[FuncName(call)]
      given == ArgumentNames(call)
      missing == udf.required \ given
      consts == {k \in given \cap DOMAIN udf.params : udf.params[k].o = "ConstExpr"}
      bad == {k \in consts :
                ~IsConstOf(udf.params[k], ResolveLiteral(trees, path, FindArgument(call, k)))}
  IN  IF FuncName(call) \notin DOMAIN Registry THEN Say(TRUE, path, "unknown function")
      ELSE Say(~given \subseteq DOMAIN udf.params, path, "unknown keyword argument")
             \cup Say(missing # {}, path, "missing keyword arguments")
             \cup Say(bad # {}, path, "invalid argument type")
             \cup IF missing # {} \/ bad # {} THEN {} ELSE Constructor(trees, path, call, parent)

ValidateCallKwargs(trees) ==
  UNION {UNION {ValidateCallNode(trees, path, p.node, p.parent) : p \in Calls(trees, path)}
         : path \in Files(trees)}

-----------------------------------------------------------------------------
(* ImportsMustNotHaveCycles: a depth-first search of the imports, whose    *)
(* order is that of Python's sets.                                         *)

ImportsOf(trees, path) ==
  {v \in UNION {{n.val : n \in Range(ResolveLiteral(trees, path, FindArgument(p.node, "rules")).kids)}
                : p \in {q \in Calls(trees, path) : IsImport(q.node)}} : v \in Files(trees)}

RECURSIVE Visit(_, _, _, _)
Visit(st, trees, path, order) ==
  IF path \in st.visited THEN st
  ELSE
    LET edges == SelectSeq(order, LAMBDA q : q \in ImportsOf(trees, path))
        entered == [st EXCEPT !.visited = @ \cup {path}, !.path = @ \cup {path}]
        Edge(acc, q) == CASE acc.cycle -> acc
                          [] q \in acc.path -> [acc EXCEPT !.cycle = TRUE]
                          [] OTHER -> Visit(acc, trees, q, order)
        left == FoldLeft(Edge, entered, edges)
    IN  [left EXCEPT !.path = @ \ {path}, !.sorted = Append(@, path)]

\* Graph.topological_sort over the files that import or are imported.
TopologicalSort(trees, order) ==
  LET nodes == SelectSeq(order, LAMBDA p : p \in Files(trees)
                 /\ (ImportsOf(trees, p) # {} \/ \E q \in Files(trees) : p \in ImportsOf(trees, q)))
  IN  FoldLeft(LAMBDA st, p : IF st.cycle THEN st ELSE Visit(st, trees, p, order),
               [visited |-> {}, path |-> {}, sorted |-> <<>>, cycle |-> FALSE], nodes)

ImportsMustNotHaveCycles(trees) ==
  Say(TopologicalSort(trees, Paths).cycle, "", "import cycle")

-----------------------------------------------------------------------------
(* VariablesMustBeDefined.                                                 *)

\* Faulty variant: a feature is known in every file.
IntroducedAll(trees, path, n) == UNION {FeaturesOf(trees, q) : q \in Files(trees)}
\* What a node adds to the identifiers known after it.
Introduced(trees, path, n) ==
  CASE IsImport(n) ->
         UNION {FeaturesOf(trees, q) : q \in Files(trees) \cap
           {rule.val : rule \in Range(ResolveLiteral(trees, path, FindArgument(n, "rules")).kids)}}
    [] n.kind = "Store" -> {n.val}
    [] OTHER -> {}

IsFunctionCall(p) == p.parent.kind = "Call" /\ p.parent.kids[1] = p.node

VariablesOf(trees, path) ==
  LET Step(acc, p) ==
        LET n == p.node
            own == n.kind = "Assign" /\ \E m \in Range(IterNodes(Value(n))) :
                     m.kind = "Load" /\ m.val = Target(n).val
            unknown == n.kind = "Load" /\ ~IsFunctionCall(p) /\ n.val \notin acc.known
        IN  [known |-> acc.known \cup Introduced(trees, path, n),
             errs |-> acc.errs \cup Say(unknown, path, n.val) \cup Say(own, path, "stored and loaded")]
  IN  FoldLeft(Step, [known |-> {}, errs |-> {}], All(trees, path)).errs

VariablesMustBeDefined(trees) == UNION {VariablesOf(trees, path) : path \in Files(trees)}

-----------------------------------------------------------------------------
(* ValidateDynamicCallsHaveAnnotatedRValue, ValidateCallRValue and         *)
(* NoUnusedLocals.                                                         *)

DynamicCallProblems(path, call, parent) ==
  LET udf == Registry[FuncName(call)]
      type == ToType(AnnotationOf(parent))
  IN  CASE ~udf.dynamic -> {}
        [] parent.kind # "Assign" -> Say(TRUE, path, "dynamic result not assigned")
        [] ~HasAnnotation(parent) -> Say(TRUE, path, "dynamic result not annotated")
        [] type = TypeError -> Say(TRUE, path, "annotation")
        [] OTHER -> Say(HasTypeVar(udf.ret)
                          /\ IsCompatible(type, Substitute(udf.ret, AnyType), TRUE) \in {"no", "error"},
                        path, "annotation incompatible")
DynamicCallsAnnotated(trees) ==
  UNION {UNION {DynamicCallProblems(path, p.node, p.parent) : p \in KnownCalls(trees, path)}
         : path \in Files(trees)}

HasResult(udf) == udf.ret # NoneType
ValidateCallRValue(trees) ==
  UNION {UNION {Say(HasResult(Registry[FuncName(p.node)]) = (p.parent.kind = "Root"), path, "result of a call")
                : p \in KnownCalls(trees, path)} : path \in Files(trees)}

\* A local is used if it is loaded after it is stored.
NoUnusedLocals(trees) ==
  LET Used(nodes, i) == \E j \in i..Len(nodes) : nodes[j].node.kind = "Load" /\ nodes[j].node.val = nodes[i].node.val
      Unused(nodes) == {nodes[i].node.val : i \in {j \in DOMAIN nodes :
        nodes[j].node.kind = "Store" /\ IsLocal(nodes[j].node) /\ ~Used(nodes, j)
        /\ \A k \in 1..(j - 1) : nodes[k].node # nodes[j].node}}
  IN  UNION {{Problem(path, id) : id \in Unused(All(trees, path))} : path \in Files(trees)}

-----------------------------------------------------------------------------
(* FeatureNameToEntityTypeMapping and ValidateLabels.                      *)

EntityTypes(trees) ==
  LET entities == {s \in UNION {Assignments(trees, path) : path \in Files(trees)} :
                     /\ ~IsLocal(Target(s)) /\ Value(s).kind = "Call"
                     /\ FuncName(Value(s)) \in {"Entity", "EntityJson"}}
  IN  [id \in {Target(s).val : s \in entities} |->
         LET s == CHOOSE t \in entities : Target(t).val = id
             path == CHOOSE q \in Files(trees) : s \in Assignments(trees, q)
         IN  ResolveLiteral(trees, path, FindArgument(Value(s), "type")).val]

LabelCalls(trees, path) ==
  {p.node : p \in {q \in KnownCalls(trees, path) : FuncName(q.node) = "LabelAdd"}}
EntityOf(call) == FindArgument(call, "entity")
LabelProblems(trees, path, call) ==
  LET label == ResolveLiteral(trees, path, FindArgument(call, "label")).val
  IN  CASE ~IsName(EntityOf(call)) -> {}
        [] label \notin DOMAIN LabelConfig -> Say(TRUE, path, "unknown label")
        [] OTHER -> Say(EntityTypes(trees)[EntityOf(call).val] \notin LabelConfig[label], path, "label not valid")
ValidateLabels(trees) ==
  UNION {UNION {LabelProblems(trees, path, call) : call \in LabelCalls(trees, path)} : path \in Files(trees)}

\* The name of a label's entity has to be one an entity was assigned to: another
\* ends validation with a KeyError.
LabelsRaise(trees) ==
  \E path \in Files(trees) : \E call \in LabelCalls(trees, path) :
    IsName(EntityOf(call)) /\ EntityOf(call).val \notin DOMAIN EntityTypes(trees)

-----------------------------------------------------------------------------
(* ValidateStaticTypes: a file is typed at the first Import of it, or in   *)
(* its turn.                                                               *)

RECURSIVE TypeSource(_, _, _)
TypeSource(acc, trees, path) ==
  LET Imported(st, s) ==
        IF ~IsImport(s) THEN st
        ELSE FoldLeft(LAMBDA a, q : TypeSource(a, trees, q), st,
                      SelectSeq(Paths, LAMBDA q : q \in ImportsOf(trees, path)))
      Noted(st, r) == [st EXCEPT !.errs = @ \cup r.errs, !.unwrap = @ \cup r.unwrap]
      Named(st, s, r) == [Noted(st, r) EXCEPT !.names = (IdentifierKey(path, Target(s)) :> r.entry) @@ @]
      Step(st, s, i) ==
        IF s.kind = "Assign" THEN Named(st, s, ValidateAssign(s, <<path, i>>, path, st.names))
        ELSE Noted(st, Validate(s, <<path, i>>, path, st.names))
  IN  IF path \in acc.checked THEN acc
      ELSE FoldLeftDomain(LAMBDA st, i : Step(Imported(st, trees[path].kids[i]), trees[path].kids[i], i),
                          [acc EXCEPT !.checked = @ \cup {path}], trees[path].kids)

Types(trees) ==
  FoldLeft(LAMBDA acc, path : TypeSource(acc, trees, path),
           [checked |-> {}, names |-> <<>>, errs |-> {}, unwrap |-> {}],
           SelectSeq(Paths, LAMBDA p : p \in Files(trees)))
ValidateStaticTypes(trees) == {Problem(place[1], place) : place \in Types(trees).errs}

-----------------------------------------------------------------------------
ErrorsOf(v, trees) ==
  CASE v = "UniqueStoredNames" -> UniqueStoredNames(trees)
    [] v = "ValidateCallKwargs" -> ValidateCallKwargs(trees)
    [] v = "ImportsMustNotHaveCycles" -> ImportsMustNotHaveCycles(trees)
    [] v = "VariablesMustBeDefined" -> VariablesMustBeDefined(trees)
    [] v = "DynamicCallsAnnotated" -> DynamicCallsAnnotated(trees)
    [] v = "ValidateStaticTypes" -> ValidateStaticTypes(trees)
    [] v = "ValidateCallRValue" -> ValidateCallRValue(trees)
    [] v = "NoUnusedLocals" -> NoUnusedLocals(trees)
    [] v = "ValidateLabels" -> ValidateLabels(trees)
    [] OTHER -> {}

\* A call of an attribute fails an assertion of the validators of calls.
Raising(v, trees) ==
  \/ v \in {"ValidateCallKwargs", "ValidateCallRValue"}
     /\ \E path \in Files(trees) : \E p \in Calls(trees, path) : p.node.kids[1].kind = "Attribute"
  \/ v = "ValidateLabels" /\ LabelsRaise(trees)

\* Faulty variant: only the last validator of a group is asked.
FailedDependencyLast(group, known) == known[group[Len(group)]] = "failed"
\* validator_depends_on: has any of the group failed?
FailedDependency(group, known) == \E i \in DOMAIN group : known[group[i]] = "failed"

RECURSIVE RunValidator(_, _, _)
\* run_validator: st is the validation results, the errors, and whether an
\* exception ended the validation.
RunValidator(st, v, trees) ==
  LET Stop(ran, group) == [ran EXCEPT !.stop = ~ran.raised /\ FailedDependency(group, ran.results)]
      Group(acc, group) ==
        IF acc.stop \/ acc.raised THEN acc
        ELSE Stop(FoldLeft(LAMBDA a, d : IF a.raised THEN a ELSE RunValidator(a, d, trees), acc, group), group)
      Found(ready, problems) ==
        [ready EXCEPT !.errors = @ \cup {[by |-> v, says |-> p] : p \in problems},
                      !.results = (v :> IF problems = {} THEN "ok" ELSE "failed") @@ @]
      Own(ready) ==
        CASE ready.raised -> ready
          [] ready.stop -> [ready EXCEPT !.results = (v :> "failed") @@ @, !.stop = FALSE]
          [] Raising(v, trees) -> [ready EXCEPT !.raised = TRUE]
          [] OTHER -> Found(ready, ErrorsOf(v, trees))
  IN  IF v \in DOMAIN st.results THEN [st EXCEPT !.stop = FALSE]
      ELSE Own(FoldLeft(Group, [st EXCEPT !.stop = FALSE], DependsOn[v]))

Init ==
  /\ program \in Programs
  /\ asts = [path \in DOMAIN program |-> None]
  /\ results = <<>> /\ errors = {} /\ phase = "parse"

ParseSources ==
  /\ phase = "parse" /\ phase' = "validate"
  /\ asts' = [path \in DOMAIN program |-> Transform(program[path])]
  /\ errors' = {[by |-> "parser", says |-> Problem(path, "syntax")] :
                  path \in {q \in DOMAIN program : Refused(asts'[q])}}
  /\ UNCHANGED <<program, results>>

Unparsed == \E e \in errors : e.by = "parser"

RunNext(v) ==
  /\ phase = "validate" /\ ~Unparsed /\ v \notin DOMAIN results
  /\ \E st \in {RunValidator([results |-> results, errors |-> errors, raised |-> FALSE, stop |-> FALSE], v, asts)} :
       /\ results' = st.results /\ errors' = st.errors
       /\ phase' = IF st.raised THEN "raised" ELSE phase
  /\ UNCHANGED <<program, asts>>

Finish ==
  /\ phase = "validate" /\ (Unparsed \/ DOMAIN results = Validators)
  /\ phase' = IF errors = {} THEN "accepted" ELSE "refused"
  /\ UNCHANGED <<program, asts, results, errors>>

\* The loads of a statement, but for the names of functions.
LoadsOf(s, path) ==
  {IdentifierKey(path, p.node) : p \in {q \in Range(IterWithParent(s, None)) :
     q.node.kind = "Load" /\ ~IsFunctionCall(q)}}

\* compile_execution_graph: the imported files first, then the others; a name
\* is looked up among the assignments added before.
Compiles(trees, order) ==
  LET sorted == TopologicalSort(trees, order).sorted
      ordered == sorted \o SelectSeq(Paths, LAMBDA p : p \in Files(trees) /\ p \notin Range(sorted))
      Add(acc, path, s) ==
        [found |-> acc.found /\ LoadsOf(s, path) \subseteq acc.names,
         names |-> acc.names \cup IF s.kind = "Assign" THEN {IdentifierKey(path, Target(s))} ELSE {}]
  IN  FoldLeft(LAMBDA acc, path : FoldLeft(LAMBDA a, s : Add(a, path, s), acc, trees[path].kids),
               [found |-> TRUE, names |-> {}], ordered).found

Compile(order) ==
  /\ phase = "accepted"
  /\ phase' = IF Compiles(asts, order) THEN "compiled" ELSE "broken"
  /\ UNCHANGED <<program, asts, results, errors>>

Next ==
  \/ ParseSources
  \/ \E v \in Validators : RunNext(v)
  \/ Finish
  \/ \E order \in SetToSeqs(Range(Paths)) : Compile(order)

-----------------------------------------------------------------------------
Reached == phase \in {"accepted", "refused"} /\ ~Unparsed

RECURSIVE Fails(_, _)
Fails(v, trees) ==
  ErrorsOf(v, trees) # {} \/ \E d \in UNION {Range(g) : g \in Range(DependsOn[v])} : Fails(d, trees)
Dependencies(v) == UNION {Range(g) : g \in Range(DependsOn[v])}

\* Whatever the order the registry gives, the author is shown every error of every
\* validator whose dependencies pass, under that validator, and no other error
\* (ValidationContext.run).
EveryErrorReported ==
  Reached => errors = UNION {
    {[by |-> v, says |-> p] : p \in ErrorsOf(v, asts)} :
      v \in {w \in Validators : \A d \in Dependencies(w) : ~Fails(d, asts)}}

\* Sources that pass validation compile: every name is found among the assignments
\* of the files compiled before (compile_execution_graph).
AcceptedCompiles == phase # "broken"

\* What hands on the value it is made of: lists, texts, calls and attributes, and
\* arithmetic.  Comparisons and boolean operations make a bool of it.
Carriers == {"List", "FormatString", "Keyword", "Attribute", "Call"}
Arithmetic == {"BinaryOperation", "UnaryOperation"}

RECURSIVE Reads(_, _)
\* The names whose value reaches an expression through nodes of these kinds.
Reads(e, kinds) ==
  IF e.kind = "Load" THEN {e.val}
  ELSE IF e.kind \notin kinds \/ e.val = "not" THEN {}
  ELSE UNION {Reads(k, kinds) : k \in Range(IF e.kind = "Call" THEN Arguments(e) ELSE e.kids)}

RECURSIVE FromSecret(_, _, _)
FromSecret(trees, s, kinds) ==
  ~AnnotatedAs(s, "ExtractSecret")
  /\ \/ AnnotatedAs(s, "Secret")
     \/ \E path \in Files(trees) : \E t \in Assignments(trees, path) :
          Target(t).val \in Reads(Value(s), kinds) /\ FromSecret(trees, t, kinds)

\* In accepted sources a feature that reads a secret, however many assignments and
\* files away, is not extracted into the action's output, unless an assignment on
\* the way says ExtractSecret (grammar.Assign.should_extract).  The exception is
\* arithmetic, whose can_extract is True whatever its operands are: a feature that
\* reads a secret only through it is extracted like any other.
SecretsNotExtracted ==
  phase = "accepted" =>
    \A path \in Files(asts) : \A s \in Assignments(asts, path) :
      LET extracted == ShouldExtract(s, path, LET names == Types(asts).names IN [k \in DOMAIN names |-> names[k].note])
      IN  IF FromSecret(asts, s, Carriers) THEN ~extracted
          ELSE FromSecret(asts, s, Carriers \cup Arithmetic) => extracted \/ IsLocal(Target(s))

=============================================================================
