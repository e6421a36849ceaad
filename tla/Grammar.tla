------------------------------ MODULE Grammar ------------------------------
(***************************************************************************)
(* The Osprey rule language's syntax tree (engine/ast/grammar.py), and the *)
(* questions the engine asks of a tree: is it constant, may its value be   *)
(* extracted into the output of an action.  Every node is a record of its  *)
(* class, its one atomic field (an identifier, an operator, a value) and   *)
(* its child nodes in the order iter_fields gives.  A Name is written by   *)
(* its context, "Load" or "Store".  Spans and parents are left out.        *)
(***************************************************************************)
EXTENDS Sequences, SequencesExt, FiniteSets, Integers

CONSTANT
  Locals       \* the identifiers that start with an underscore

Node(kind, val, kids) == [kind |-> kind, val |-> val, kids |-> kids]

Operators == {"+", "-", "*", "/", "//", "%", "**", "<<", ">>", "|", "^", "&"}
UnaryOperators == {"not", "-"}
Comparators == {"==", "!=", "<", "<=", ">", ">=", "in", "not in"}
BooleanOperands == {"and", "or"}

Names == {"Load", "Store"}
Literals == {"String", "Number", "Boolean", "None_", "List"}
AnnotationKinds == {"Annotation", "AnnotationWithVariants"}
Expressions == Names \cup Literals \cup AnnotationKinds \cup
  {"Call", "BinaryOperation", "UnaryOperation", "BinaryComparison",
   "BooleanOperation", "Attribute", "FormatString"}
Statements == {"Assign", "Call"}

IsName(n) == n.kind \in Names
IsLocal(n) == n.val \in Locals

\* Name.identifier_key: a local belongs to its file, every other name is shared.
IdentifierKey(path, n) == IF IsLocal(n) THEN <<path, n.val>> ELSE <<"", n.val>>

\* The fields of an Assign: its target, its value and its optional annotation.
Target(n) == n.kids[1]
Value(n) == n.kids[2]
HasAnnotation(n) == Len(n.kids) = 3
AnnotationOf(n) == n.kids[3]
AnnotatedAs(n, id) == HasAnnotation(n) /\ AnnotationOf(n).val = id

\* The fields of a Call: its function, then its keyword arguments.
Arguments(call) == Tail(call.kids)
ArgumentNames(call) == {Arguments(call)[i].val : i \in DOMAIN Arguments(call)}
FindArgument(call, name) ==
  LET i == CHOOSE j \in DOMAIN Arguments(call) :
             /\ Arguments(call)[j].val = name
             /\ \A k \in 1..(j - 1) : Arguments(call)[k].val # name
  IN  Arguments(call)[i].kids[1]

-----------------------------------------------------------------------------
(* Tree walks.                                                             *)

RECURSIVE IterNodes(_)
\* The nodes of a tree in order of appearance.
IterNodes(n) == <<n>> \o FlattenSeq([i \in DOMAIN n.kids |-> IterNodes(n.kids[i])])

-----------------------------------------------------------------------------
(* is_constant and can_extract.  A Name's answer comes from the annotation *)
(* of the assignment that defines it, which validation stores on the Name: *)
(* notes maps a Name's key to that annotation, or to None.                 *)

None == Node("none", "", <<>>)

RECURSIVE IsConstant(_)
\* Is the tree a literal, or a list of literals?  A list within a list counts
\* as a literal, whatever it holds.
IsConstant(n) ==
  \/ n.kind \in Literals \ {"List"}
  \/ n.kind = "List" /\ \A i \in DOMAIN n.kids : n.kids[i].kind \in Literals
  \/ n.kind = "Assign" /\ IsConstant(Value(n))

RECURSIVE AnnotationCanExtract(_)
AnnotationCanExtract(a) ==
  \/ a.kind = "Annotation"
  \/ a.val = "ExtractSecret"
  \/ a.val # "Secret" /\ \A i \in DOMAIN a.kids : AnnotationCanExtract(a.kids[i])

\* Faulty variant: a name may always be extracted.
NameCanExtractAlways(note) == TRUE
NameCanExtract(note) == note = None \/ AnnotationCanExtract(note)

RECURSIVE CanExtract(_, _, _)
CanExtract(n, path, notes) ==
  LET AllKids(kids) == \A i \in DOMAIN kids : CanExtract(kids[i], path, notes)
  IN  CASE IsName(n) -> NameCanExtract(notes[IdentifierKey(path, n)])
        [] n.kind \in {"List", "FormatString", "Attribute", "Keyword"} -> AllKids(n.kids)
        [] n.kind = "Call" -> AllKids(Arguments(n))
        [] n.kind \in AnnotationKinds -> AnnotationCanExtract(n)
        [] n.kind = "Assign" ->
             /\ HasAnnotation(n) => AnnotationCanExtract(AnnotationOf(n))
             /\ AnnotatedAs(n, "ExtractSecret") \/ CanExtract(Value(n), path, notes)
        [] OTHER -> TRUE

\* Assign.should_extract: is the target's value part of the action's output?
ShouldExtract(n, path, notes) ==
  \/ AnnotatedAs(n, "ExtractLiteral")
  \/ /\ ~IsLocal(Target(n)) /\ ~IsConstant(n)
     /\ AnnotatedAs(n, "ExtractSecret") \/ CanExtract(n, path, notes)

-----------------------------------------------------------------------------
(* The types grammar.py declares for the fields of each class.             *)

RECURSIVE InGrammar(_)
InGrammar(n) ==
  LET KidsAre(kinds) == \A i \in DOMAIN n.kids : n.kids[i].kind \in kinds
      Arity(k) == Len(n.kids) = k
  IN  /\ \A i \in DOMAIN n.kids : InGrammar(n.kids[i])
      /\ CASE n.kind = "Root" -> KidsAre(Statements)
           [] n.kind = "Assign" ->
                /\ Target(n).kind = "Store" /\ Value(n).kind \in Expressions \ {"Store"}
                /\ HasAnnotation(n) => AnnotationOf(n).kind \in AnnotationKinds
           [] n.kind = "Call" ->
                /\ n.kids[1].kind \in {"Load", "Attribute"}
                /\ \A i \in 2..Len(n.kids) : n.kids[i].kind = "Keyword"
           [] n.kind = "Keyword" -> n.val # "" /\ Arity(1) /\ KidsAre(Expressions \ {"Store"})
           [] n.kind = "BinaryOperation" -> n.val \in Operators /\ Arity(2) /\ KidsAre(Expressions)
           [] n.kind = "UnaryOperation" -> n.val \in UnaryOperators /\ Arity(1) /\ KidsAre(Expressions)
           [] n.kind = "BinaryComparison" -> n.val \in Comparators /\ Arity(2) /\ KidsAre(Expressions)
           [] n.kind = "BooleanOperation" -> n.val \in BooleanOperands /\ KidsAre(Expressions)
           [] n.kind = "Attribute" -> Arity(1) /\ KidsAre({"Load"})
           [] n.kind = "List" -> KidsAre(Expressions)
           [] n.kind = "FormatString" -> KidsAre({"Load"})
           [] n.kind \in AnnotationKinds -> KidsAre(AnnotationKinds)
           [] OTHER -> n.kind \in Names \cup Literals /\ n.kids = <<>>
=============================================================================
