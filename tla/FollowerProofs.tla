--------------------------- MODULE FollowerProofs ---------------------------
(***************************************************************************)
(* Proofs about what a process follows at etcd, for any keys, instances    *)
(* and services and behaviours of any length: a tree of keys with its      *)
(* watcher, the instances of a service, and a call routed to services.     *)
(***************************************************************************)
EXTENDS EtcdFollowers, FiniteSetTheorems, SequenceTheorems, TLAPS

-----------------------------------------------------------------------------
(* Folds.  The library defines FoldLeft through a recursive function over  *)
(* sets of indices, chosen to satisfy its equation.                        *)

(* A set of numbers has a least one. *)
LEMMA LeastNatural ==
  ASSUME NEW T \in SUBSET Nat, T # {}
  PROVE  \E x \in T : \A y \in T : x <= y
<1>. DEFINE R == OpToRel(<, Nat)
<1>1. IsWellFoundedOn(R, Nat)
  BY NatLessThanWellFounded
<1>3. \A x, y \in Nat : y < x => <<y, x>> \in R
  BY DEF OpToRel
<1>. HIDE DEF R
<1>4. PICK x \in T : \A y \in T : ~(<<y, x>> \in R)
  BY <1>1, WFMin
<1>5. \A y \in T : ~(y < x)
  BY <1>3, <1>4
<1>. QED BY <1>5

(* Induction, with the property as a set. *)
LEMMA SetOfNaturals ==
  ASSUME NEW S \in SUBSET Nat, 0 \in S, \A n \in S : n + 1 \in S
  PROVE  S = Nat
<1>. SUFFICES ASSUME Nat \ S # {} PROVE FALSE
  OBVIOUS
<1>1. PICK x \in Nat \ S : \A y \in Nat \ S : x <= y
  BY LeastNatural
<1>2. x - 1 \in Nat /\ x - 1 \notin Nat \ S
  BY <1>1
<1>. QED BY <1>1, <1>2

Greatest(s) == CHOOSE x \in s : \A y \in s : x >= y

(* f[<<x, i>>] is what the element at i makes of x. *)
FoldStep(g, s, base, f) == IF s = {} THEN base ELSE f[<<g[s \ {Greatest(s)}], Greatest(s)>>]

(* Any set of indices has a greatest. *)
LEMMA LastExists ==
  ASSUME NEW n \in Nat, NEW S \in SUBSET (1..n), S # {}
  PROVE  \E j \in S : \A k \in S : k <= j
<1>. DEFINE T == {n - x : x \in S}
<1>1. T \in SUBSET Nat /\ T # {}
  <2>1. \A x \in S : n - x \in Nat
    OBVIOUS
  <2>2. T \subseteq Nat
    BY <2>1
  <2>3. PICK x \in S : TRUE
    OBVIOUS
  <2>4. n - x \in T
    OBVIOUS
  <2>. HIDE DEF T
  <2>. QED BY <2>2, <2>4
<1>2. PICK t \in T : \A u \in T : t <= u
  BY <1>1, LeastNatural
<1>3. PICK x \in S : t = n - x
  OBVIOUS
<1>4. ASSUME NEW y \in S PROVE y <= x
  <2>1. n - y \in T
    OBVIOUS
  <2>2. n - x <= n - y
    BY <1>2, <1>3, <2>1
  <2>. QED BY <2>2
<1>. QED BY <1>4

(* ... which is the one the fold chooses. *)
LEMMA GreatestIn ==
  ASSUME NEW n \in Nat, NEW s \in SUBSET (1..n), s # {}
  PROVE  Greatest(s) \in s
<1>1. PICK x \in s : \A y \in s : y <= x
  BY LastExists
<1>2. \A y \in s : x >= y
  BY <1>1
<1>. QED BY <1>2, Zenon DEF Greatest

(* The greatest index of a set that has the greatest. *)
LEMMA GreatestOfInterval ==
  ASSUME NEW m \in Nat, NEW s \in SUBSET (1..(m+1)), m + 1 \in s
  PROVE  Greatest(s) = m + 1
<1>1. \A y \in s : m + 1 >= y
  OBVIOUS
<1>2. Greatest(s) \in s /\ \A y \in s : Greatest(s) >= y
  BY <1>1, Zenon DEF Greatest
<1>3. PICK M : M = Greatest(s) /\ M \in s /\ M >= m + 1
  BY <1>2
<1>. QED BY <1>3

HasFold(m, V, base, f) ==
  \E g \in [SUBSET (1..m) -> V] : \A s \in SUBSET (1..m) : g[s] = FoldStep(g, s, base, f)

(* The equation of a fold over values V has a solution. *)
LEMMA FoldExists ==
  ASSUME NEW V, NEW base \in V, NEW f, NEW n \in Nat, \A x \in V, i \in 1..n : f[<<x, i>>] \in V
  PROVE  HasFold(n, V, base, f)
<1>. DEFINE S == {m \in Nat : m <= n => HasFold(m, V, base, f)}
<1>1. 0 \in S
  <2>1. SUBSET (1..0) = {{}}
    OBVIOUS
  <2>. DEFINE h == [s \in SUBSET (1..0) |-> base]
  <2>2. h \in [SUBSET (1..0) -> V] /\ \A s \in SUBSET (1..0) : h[s] = FoldStep(h, s, base, f)
    BY <2>1 DEF FoldStep
  <2>. QED BY <2>2 DEF HasFold
<1>2. ASSUME NEW m \in S PROVE m + 1 \in S
  <2>. SUFFICES ASSUME m + 1 <= n PROVE HasFold(m + 1, V, base, f)
    OBVIOUS
  <2>10. HasFold(m, V, base, f)
    OBVIOUS
  <2>1. PICK g \in [SUBSET (1..m) -> V] : \A s \in SUBSET (1..m) : g[s] = FoldStep(g, s, base, f)
    BY <2>10 DEF HasFold
  <2>. DEFINE h == [s \in SUBSET (1..(m+1)) |->
                     IF m + 1 \in s THEN f[<<g[s \ {m + 1}], m + 1>>] ELSE g[s]]
  <2>0. ASSUME NEW s \in SUBSET (1..(m+1)) PROVE s \ {m + 1} \in SUBSET (1..m) /\ h[s] \in V
    <3>1. s \ {m + 1} \in SUBSET (1..m) /\ m + 1 \in 1..n
      OBVIOUS
    <3>2. g[s \ {m + 1}] \in V /\ f[<<g[s \ {m + 1}], m + 1>>] \in V
      BY <3>1
    <3>3. m + 1 \notin s => s = s \ {m + 1}
      OBVIOUS
    <3>. QED BY <3>1, <3>2, <3>3
  <2>2. ASSUME NEW s \in SUBSET (1..(m+1)), m + 1 \in s PROVE h[s] = FoldStep(h, s, base, f)
    <3>1. Greatest(s) = m + 1 /\ s # {}
      BY <2>2, GreatestOfInterval
    <3>2. s \ {m + 1} \in SUBSET (1..(m+1)) /\ m + 1 \notin s \ {m + 1}
      OBVIOUS
    <3>3. h[s \ {m + 1}] = g[s \ {m + 1}] /\ h[s] = f[<<g[s \ {m + 1}], m + 1>>]
      BY <2>2, <3>2
    <3>. HIDE DEF h
    <3>. QED BY <3>1, <3>3 DEF FoldStep
  <2>3. ASSUME NEW s \in SUBSET (1..(m+1)), m + 1 \notin s PROVE h[s] = FoldStep(h, s, base, f)
    <3>. PICK M : M = Greatest(s)
      OBVIOUS
    <3>0. s \in SUBSET (1..m)
      BY <2>3
    <3>1. s \in SUBSET (1..m) /\ s \ {M} \in SUBSET (1..(m+1)) /\ m + 1 \notin s \ {M}
      BY <2>3, <3>0
    <3>2. h[s] = g[s] /\ h[s \ {M}] = g[s \ {M}]
      BY <2>3, <3>1
    <3>3. g[s] = FoldStep(g, s, base, f)
      BY <2>1, <3>1
    <3>. HIDE DEF h
    <3>. QED BY <3>2, <3>3 DEF FoldStep
  <2>4. h \in [SUBSET (1..(m+1)) -> V]
    BY <2>0
  <2>. HIDE DEF h
  <2>5. \A s \in SUBSET (1..(m+1)) : h[s] = FoldStep(h, s, base, f)
    BY <2>2, <2>3
  <2>. QED BY <2>4, <2>5 DEF HasFold
<1>. HIDE DEF S
<1>3. S = Nat
  <2>1. S \in SUBSET Nat
    BY DEF S
  <2>. QED BY <1>1, <1>2, <2>1, SetOfNaturals
<1>. QED BY <1>3 DEF S

(* What holds after each element holds at the end. *)
LEMMA StepByStep ==
  ASSUME NEW n \in Nat, NEW h, NEW J, h[0] \in J[0],
         \A i \in 0..(n-1) : h[i] \in J[i] => h[i+1] \in J[i+1]
  PROVE  h[n] \in J[n]
<1>. DEFINE S == {m \in Nat : m <= n => h[m] \in J[m]}
<1>1. 0 \in S
  OBVIOUS
<1>2. ASSUME NEW m \in S PROVE m + 1 \in S
  <2>1. m + 1 <= n => m \in 0..(n-1) /\ h[m] \in J[m]
    OBVIOUS
  <2>. QED BY <2>1
<1>. HIDE DEF S
<1>3. S = Nat
  <2>1. S \in SUBSET Nat
    BY DEF S
  <2>. QED BY <1>1, <1>2, <2>1, SetOfNaturals
<1>4. n \in S
  BY <1>3
<1>. QED BY <1>4 DEF S

TreeFold(base, es) == Tree!FoldLeft(Tree!handle_event, base, es)

(* What handle_event keeps step by step: J[i] is the set of values allowed *)
(* after i events.                                                         *)
LEMMA TreeFoldSteps ==
  ASSUME NEW V, NEW es, NEW n \in Nat, DOMAIN es = 1..n, NEW base \in V,
         \A x \in V, i \in 1..n : Tree!handle_event(x, es[i]) \in V,
         NEW J, base \in J[0], \A i \in 0..(n-1) : \A x \in J[i] : Tree!handle_event(x, es[i+1]) \in J[i+1]
  PROVE  TreeFold(base, es) \in J[n]
<1>. DEFINE f == [p \in V \X (1..n) |-> Tree!handle_event(p[1], es[p[2]])]
            St(g, s) == IF s = {} THEN base ELSE Tree!handle_event(g[s \ {Greatest(s)}], es[Greatest(s)])
            IsFold(g) == g = [s \in SUBSET (1..n) |-> St(g, s)]
<1>1. TreeFold(base, es) = (CHOOSE g : IsFold(g))[1..n]
  BY Zenon DEF TreeFold, Tree!FoldLeft, Tree!MapThenFoldSet, Tree!Max, Greatest
<1>2. \A x \in V, i \in 1..n : f[<<x, i>>] = Tree!handle_event(x, es[i])
  OBVIOUS
<1>. HIDE DEF f
<1>3. PICK h \in [SUBSET (1..n) -> V] : \A s \in SUBSET (1..n) : h[s] = FoldStep(h, s, base, f)
  <2>1. \A x \in V, i \in 1..n : f[<<x, i>>] \in V
    BY <1>2
  <2>2. HasFold(n, V, base, f)
    BY <2>1, FoldExists
  <2>. QED BY <2>2 DEF HasFold
<1>4. ASSUME NEW s \in SUBSET (1..n) PROVE h[s] = St(h, s)
  <2>1. CASE s = {}
    BY <1>3, <2>1 DEF FoldStep
  <2>2. CASE s # {}
    <3>1. PICK M \in 1..n : M = Greatest(s)
      BY <2>2, GreatestIn
    <3>2. h[s \ {M}] \in V
      OBVIOUS
    <3>. QED BY <1>2, <1>3, <2>2, <3>1, <3>2 DEF FoldStep
  <2>. QED BY <2>1, <2>2
<1>5. IsFold(h)
  <2>. HIDE DEF St
  <2>1. h = [s \in SUBSET (1..n) |-> h[s]]
    OBVIOUS
  <2>. QED BY <1>4, <2>1
<1>6. PICK g : TreeFold(base, es) = g[1..n] /\ IsFold(g)
  <2>. HIDE DEF IsFold
  <2>. QED BY <1>1, <1>5, Zenon
<1>. DEFINE c == [i \in 0..n |-> g[1..i]]
<1>7. c[0] \in J[0]
  <2>1. 1..0 = {} /\ {} \in SUBSET (1..n)
    OBVIOUS
  <2>. QED BY <1>6, <2>1
<1>8. ASSUME NEW i \in 0..(n-1), c[i] \in J[i] PROVE c[i+1] \in J[i+1]
  <2>1. i \in 0..n /\ i + 1 \in 0..n /\ i + 1 \in 1..(i+1) /\ 1..(i+1) \in SUBSET (1..n) /\ i \in Nat
        /\ (1..(i+1)) \ {i + 1} = 1..i /\ 1..(i+1) \in SUBSET (1..(i+1))
    OBVIOUS
  <2>2. Greatest(1..(i+1)) = i + 1
    BY <2>1, GreatestOfInterval
  <2>3. g[1..(i+1)] = St(g, 1..(i+1))
    <3>. HIDE DEF St
    <3>. QED BY <1>6, <2>1
  <2>4. g[1..(i+1)] = Tree!handle_event(g[1..i], es[i+1])
    BY <2>1, <2>2, <2>3
  <2>. QED BY <1>8, <2>1, <2>4
<1>9. c[n] \in J[n]
  <2>. HIDE DEF c
  <2>. QED BY <1>7, <1>8, StepByStep
<1>10. c[n] = g[1..n]
  OBVIOUS
<1>. QED BY <1>6, <1>9, <1>10

(* The fold of nothing, and of one event. *)
LEMMA TreeFoldShort ==
  ASSUME NEW V, NEW base \in V
  PROVE  /\ TreeFold(base, <<>>) = base
         /\ \A e : (\A x \in V : Tree!handle_event(x, e) \in V) => TreeFold(base, <<e>>) = Tree!handle_event(base, e)
<1>1. TreeFold(base, <<>>) = base
  <2>. DEFINE J == [i \in 0..0 |-> {base}]
  <2>1. TreeFold(base, <<>>) \in J[0]
    <3>1. DOMAIN <<>> = 1..0 /\ base \in J[0] /\ 0 \in Nat
      OBVIOUS
    <3>2. \A i \in 0..(0-1) : \A x \in J[i] : Tree!handle_event(x, <<>>[i+1]) \in J[i+1]
      OBVIOUS
    <3>3. \A x \in V, i \in 1..0 : Tree!handle_event(x, <<>>[i]) \in V
      OBVIOUS
    <3>. HIDE DEF J
    <3>. QED BY <3>1, <3>2, <3>3, TreeFoldSteps
  <2>. QED BY <2>1
<1>2. ASSUME NEW e, \A x \in V : Tree!handle_event(x, e) \in V PROVE TreeFold(base, <<e>>) = Tree!handle_event(base, e)
  <2>. DEFINE J == [i \in 0..1 |-> IF i = 0 THEN {base} ELSE {Tree!handle_event(base, e)}]
              s == <<e>>
  <2>1. TreeFold(base, s) \in J[1]
    <3>1. DOMAIN s = 1..1 /\ base \in J[0] /\ 1 \in Nat
      OBVIOUS
    <3>2. ASSUME NEW i \in 0..(1-1), NEW x \in J[i] PROVE Tree!handle_event(x, s[i+1]) \in J[i+1]
      OBVIOUS
    <3>3. ASSUME NEW x \in V, NEW i \in 1..1 PROVE Tree!handle_event(x, s[i]) \in V
      BY <1>2
    <3>. HIDE DEF J, s
    <3>. QED BY <3>1, <3>2, <3>3, TreeFoldSteps
  <2>. QED BY <2>1
<1>. QED BY <1>1, <1>2

(* What every event preserves, all of them do. *)
LEMMA TreeFoldKeeps ==
  ASSUME NEW J, NEW base \in J, NEW T, NEW es \in Seq(T),
         \A x \in J, e \in T : Tree!handle_event(x, e) \in J
  PROVE  TreeFold(base, es) \in J
<1>1. PICK n \in Nat : n = Len(es) /\ DOMAIN es = 1..n
  BY LenProperties
<1>. DEFINE Js == [i \in 0..n |-> J]
<1>2. base \in Js[0] /\ Js[n] = J
  OBVIOUS
<1>3. ASSUME NEW i \in 0..(n-1), NEW x \in Js[i] PROVE Tree!handle_event(x, es[i+1]) \in Js[i+1]
  <2>1. i \in 0..n /\ i + 1 \in 0..n /\ es[i+1] \in T
    BY <1>1
  <2>. QED BY <2>1
<1>4. \A x \in J, i \in 1..n : Tree!handle_event(x, es[i]) \in J
  BY <1>1
<1>. HIDE DEF Js
<1>. QED BY <1>1, <1>2, <1>3, <1>4, TreeFoldSteps

-----------------------------------------------------------------------------
(* The tree of keys.                                                       *)

TreeContents == [TreeKeys -> TreeValues \cup {None}]
TreeEntries == [TreeKeys -> TreeValues \cup TreeKeys \cup {None}]
TreeKept == [dict : TreeContents, told : TreeContents]
(* What handle_event has, with node watchers that know it. *)
TreeTold == {t \in TreeKept : t.told = t.dict}

TreeWritten == [type : {"set"}, key : TreeKeys, value : TreeValues]
           \cup [type : {"delete"}, key : TreeKeys \cup {"dir"}, value : {None}]
           \cup [type : {"root"}, key : {None}, value : {None}]
TreeSyncs == [type : {"full"}, key : {None}, value : TreeContents]
TreeIncrements == [type : {"upsert"}, key : TreeKeys, value : TreeValues]
              \cup [type : {"delete"}, key : TreeKeys \cup {"dir"}, value : {None}]

TreeTypes ==
  /\ store \in TreeContents
  /\ treeLog \in Seq(TreeWritten)
  /\ cleared \in Nat
  /\ state \in {"UNLOADED", "WAIT", "SYNC", "STOPPED", "EXHAUSTED"}
  /\ directory \in {None} \cup TreeEntries
  /\ dict \in TreeContents
  /\ told \in TreeContents
  /\ state = "WAIT" => treeIndex \in 0..Len(treeLog) /\ directory # None

(* What holds of every tree. *)
ToldInv == TreeTypes /\ told = dict

(* The event e decides the value of k. *)
Touches(e, k) == e.type = "root" \/ e.key = k

(* etcd has the value of the last event of a key. *)
LastEventCounts(k) ==
  \A j \in 1..Len(treeLog) :
    Touches(treeLog[j], k) /\ (\A i \in (j+1)..Len(treeLog) : ~Touches(treeLog[i], k)) => store[k] = treeLog[j].value

(* The mux knows whether the tree has a key; a value it knows is the tree's. *)
MuxKnows(k) ==
  directory # None =>
    /\ directory[k] = None <=> dict[k] = None
    /\ directory[k] \in TreeValues => dict[k] = directory[k]

(* A key that no coming event is about has in the tree what it has in etcd. *)
RestIsCurrent(k) ==
  state = "WAIT" =>
    ((\A j \in (treeIndex+1)..Len(treeLog) : ~Touches(treeLog[j], k)) => dict[k] = store[k])

(* The path of k starts with that of p, another key: the removal of p      *)
(* sweeps k away.                                                          *)
Sweeper(p, k) == p \in TreeKeys \ {k} /\ k \in Prefixed[p]

(* What was written of such a p, or is in the mux, is still there: a full  *)
(* sync has no reason to remove it.                                        *)
PrefixStays(k) ==
  \A p \in TreeKeys : Sweeper(p, k) =>
    /\ \A j \in 1..Len(treeLog) : treeLog[j].key = p => store[p] # None
    /\ directory # None /\ directory[p] # None => store[p] # None

MirrorInv(k) == LastEventCounts(k) /\ MuxKnows(k) /\ RestIsCurrent(k) /\ PrefixStays(k)
TreeInv == ToldInv /\ \A k \in TreeKeys : Tree!Unswept(k) => MirrorInv(k)

-----------------------------------------------------------------------------
(* Handling events.                                                        *)

(* Handle folds handle_event over the events. *)
LEMMA TreeHandleFolds ==
  ASSUME NEW es, Tree!Handle(es)
  PROVE  LET t == TreeFold([dict |-> dict, told |-> told], es) IN dict' = t.dict /\ told' = t.told
BY DEF Tree!Handle, TreeFold

(* One event leaves node watchers informed. *)
LEMMA TreeEventTells ==
  ASSUME NEW t \in TreeKept, t.told = t.dict, NEW e \in TreeSyncs \cup TreeIncrements
  PROVE  Tree!handle_event(t, e) \in TreeKept /\ Tree!handle_event(t, e).told = Tree!handle_event(t, e).dict
<1>0. t.dict \in TreeContents /\ t.told \in TreeContents
  BY DEF TreeKept
<1>1. CASE e \in TreeSyncs
  <2>1. e.type = "full" /\ e.value \in TreeContents
    BY <1>1 DEF TreeSyncs
  <2>. DEFINE new == [k \in TreeKeys |-> IF e.value = Tree!Nothing \/ e.value[k] # None \/ t.dict[k] # None
                                       THEN e.value[k] ELSE t.told[k]]
  <2>2. Tree!handle_event(t, e) = [dict |-> e.value, told |-> new]
    BY <2>1 DEF Tree!handle_event
  <2>3. new = e.value
    BY <1>0, <2>1 DEF TreeContents
  <2>. QED BY <2>1, <2>2, <2>3 DEF TreeKept
<1>2. CASE e \in TreeIncrements /\ e.type = "upsert"
  <2>1. e.key \in TreeKeys /\ e.value \in TreeValues
    BY <1>2 DEF TreeIncrements
  <2>2. Tree!handle_event(t, e) = [dict |-> [t.dict EXCEPT ![e.key] = e.value], told |-> [t.told EXCEPT ![e.key] = e.value]]
    BY <1>2 DEF Tree!handle_event
  <2>3. [t.dict EXCEPT ![e.key] = e.value] \in TreeContents
    BY <1>0, <2>1 DEF TreeContents
  <2>. QED BY <2>2, <2>3 DEF TreeKept
<1>3. CASE e \in TreeIncrements /\ e.type = "delete"
  <2>. DEFINE new == [k \in TreeKeys |-> IF k \in Prefixed[e.key] THEN None ELSE t.dict[k]]
  <2>2. Tree!handle_event(t, e) = [dict |-> new, told |-> new]
    BY <1>3 DEF Tree!handle_event
  <2>3. new \in TreeContents
    BY <1>0 DEF TreeContents
  <2>. QED BY <2>2, <2>3 DEF TreeKept
<1>. QED BY <1>1, <1>2, <1>3 DEF TreeIncrements

(* The fold of nothing, and of one event. *)
LEMMA TreeFoldOfOne ==
  ASSUME NEW t \in TreeTold, NEW e \in TreeSyncs \cup TreeIncrements
  PROVE  TreeFold(t, <<>>) = t /\ TreeFold(t, <<e>>) = Tree!handle_event(t, e)
<1>1. \A x \in TreeTold : Tree!handle_event(x, e) \in TreeTold
  BY TreeEventTells DEF TreeTold
<1>. QED BY <1>1, TreeFoldShort

(* So do all events that are handled. *)
LEMMA TreeHandleTells ==
  ASSUME ToldInv, NEW es \in Seq(TreeSyncs \cup TreeIncrements), Tree!Handle(es)
  PROVE  dict' \in TreeContents /\ told' \in TreeContents /\ told' = dict'
<1>. DEFINE J == {t \in TreeKept : t.told = t.dict}
            b == [dict |-> dict, told |-> told]
<1>1. b \in J
  BY DEF ToldInv, TreeTypes, TreeKept
<1>2. \A t \in J, e \in TreeSyncs \cup TreeIncrements : Tree!handle_event(t, e) \in J
  BY TreeEventTells
<1>3. TreeFold(b, es) \in J
  <2>. HIDE DEF J, b
  <2>. QED BY <1>1, <1>2, TreeFoldKeeps
<1>4. dict' = TreeFold(b, es).dict /\ told' = TreeFold(b, es).told
  BY TreeHandleFolds
<1>. QED BY <1>3, <1>4 DEF TreeKept

-----------------------------------------------------------------------------
(* A full sync.                                                            *)

(* SetToSeq lists a finite set. *)
LEMMA TreeSetToSeqLists ==
  ASSUME NEW S, IsFiniteSet(S)
  PROVE  /\ Tree!SetToSeq(S) \in Seq(S)
         /\ \A x \in S : \E i \in 1..Len(Tree!SetToSeq(S)) : Tree!SetToSeq(S)[i] = x
<1>1. PICK n \in Nat : n = Cardinality(S)
  BY FS_CardinalityType
<1>2. PICK f : f \in Bijection(1..n, S)
  BY <1>1, FS_CardinalityType DEF ExistsBijection
<1>3. f \in [1..n -> S] /\ Tree!IsInjective(f)
  BY <1>2 DEF Bijection, Injection, IsInjective, Tree!IsInjective
<1>4. Tree!Cardinality(S) = n
  BY <1>1, Zenon DEF Tree!Cardinality, Cardinality
<1>5. PICK g : g = Tree!SetToSeq(S) /\ g \in [1..n -> S] /\ Tree!IsInjective(g)
  BY <1>3, <1>4, Zenon DEF Tree!SetToSeq
<1>6. g \in Injection(1..n, S)
  BY <1>5 DEF Injection, IsInjective, Tree!IsInjective
<1>7. IsFiniteSet(1..n) /\ Cardinality(1..n) = n
  BY FS_Interval
<1>8. g \in Surjection(1..n, S)
  BY <1>1, <1>6, <1>7, FS_Injection
<1>9. \A x \in S : \E i \in 1..n : g[i] = x
  BY <1>8 DEF Surjection
<1>10. g \in Seq(S) /\ Len(g) = n
  BY <1>5
<1>. QED BY <1>5, <1>9, <1>10

(* The increment e says what s has for its key. *)
TreeSays(e, s) ==
  /\ e.key \in TreeKeys
  /\ e.type = "upsert" => e.value = s[e.key]
  /\ e.type = "delete" => s[e.key] = None

(* The events of a full sync to s: one for every key that differs, which   *)
(* says what s has for it.                                                 *)
LEMMA SynthesizedEvents ==
  ASSUME NEW d \in TreeEntries, NEW s \in TreeContents, s # Tree!Nothing,
         NEW es, es = Tree!synthesize_incremental_events_from_full_sync(d, s)
  PROVE  /\ es \in Seq(TreeIncrements)
         /\ \A i \in 1..Len(es) : TreeSays(es[i], s) /\ (es[i].type = "delete" => es[i].key \in Tree!Unvisited(d, s))
         /\ \A k \in Tree!Changed(d, s) \cup Tree!Unvisited(d, s) : \E i \in 1..Len(es) : es[i].key = k
<1>. DEFINE C == Tree!Changed(d, s)
            U == Tree!Unvisited(d, s)
<1>1. IsFiniteSet(C) /\ IsFiniteSet(U) /\ C \subseteq TreeKeys /\ U \subseteq TreeKeys
  BY KeysAssumption, FS_Subset DEF Tree!Changed, Tree!Unvisited
<1>2. PICK ups : ups = Tree!SetToSeq(C)
  OBVIOUS
<1>3. PICK del : del = Tree!SetToSeq(U)
  OBVIOUS
<1>4. /\ ups \in Seq(C) /\ \A k \in C : \E i \in 1..Len(ups) : ups[i] = k
      /\ del \in Seq(U) /\ \A k \in U : \E i \in 1..Len(del) : del[i] = k
  <2>. HIDE DEF C, U
  <2>. QED BY <1>1, <1>2, <1>3, TreeSetToSeqLists
<1>5. (\A k \in C : k \in TreeKeys /\ s[k] \in TreeValues) /\ (\A k \in U : k \in TreeKeys /\ s[k] = None)
  BY DEF Tree!Changed, Tree!Unvisited, TreeContents
<1>. DEFINE a == [i \in 1..Len(ups) |-> Tree!Event("upsert", ups[i], s[ups[i]])]
            b == [i \in 1..Len(del) |-> Tree!Event("delete", del[i], None)]
<1>6. es = a \o b
  BY <1>2, <1>3 DEF Tree!synthesize_incremental_events_from_full_sync
<1>. HIDE DEF C, U
<1>. PICK m \in Nat : m = Len(ups)
  BY <1>4
<1>. PICK n \in Nat : n = Len(del)
  BY <1>4
<1>7. \A i \in 1..m : ups[i] \in C
  BY <1>4
<1>8. \A i \in 1..n : del[i] \in U
  BY <1>4
<1>9. /\ \A i \in 1..m : a[i] \in TreeIncrements /\ a[i].type = "upsert" /\ a[i].key = ups[i] /\ a[i].value = s[ups[i]]
      /\ \A i \in 1..n : b[i] \in TreeIncrements /\ b[i].type = "delete" /\ b[i].key = del[i]
  BY <1>5, <1>7, <1>8 DEF Tree!Event, TreeIncrements
<1>10. a \in Seq(TreeIncrements) /\ Len(a) = m /\ b \in Seq(TreeIncrements) /\ Len(b) = n
  BY <1>9
<1>. HIDE DEF a, b
<1>11. /\ es \in Seq(TreeIncrements) /\ Len(es) = m + n
       /\ \A i \in 1..m : es[i] = a[i]
       /\ \A i \in 1..n : es[m + i] = b[i]
  <2>1. /\ a \o b \in Seq(TreeIncrements) /\ Len(a \o b) = Len(a) + Len(b)
        /\ \A i \in 1..(Len(a) + Len(b)) : (a \o b)[i] = IF i <= Len(a) THEN a[i] ELSE b[i - Len(a)]
    BY <1>10, ConcatProperties
  <2>2. /\ es \in Seq(TreeIncrements) /\ Len(es) = m + n
        /\ \A i \in 1..(m + n) : es[i] = IF i <= m THEN a[i] ELSE b[i - m]
    BY <1>6, <1>10, <2>1
  <2>3. ASSUME NEW i \in 1..n PROVE es[m + i] = b[i]
    <3>1. m + i \in 1..(m + n) /\ ~(m + i <= m) /\ (m + i) - m = i
      OBVIOUS
    <3>. QED BY <2>2, <3>1
  <2>. QED BY <2>2, <2>3
<1>12. \A i \in 1..(m+n) : i \in 1..m \/ \E j \in 1..n : i = m + j
  <2>. TAKE i \in 1..(m+n)
  <2>1. CASE i <= m
    BY <2>1
  <2>2. CASE i > m
    <3>1. i - m \in 1..n /\ i = m + (i - m)
      BY <2>2
    <3>. QED BY <3>1
  <2>. QED BY <2>1, <2>2
<1>13. ASSUME NEW i \in 1..Len(es)
       PROVE  TreeSays(es[i], s) /\ (es[i].type = "delete" => es[i].key \in U)
  <2>1. CASE i \in 1..m
    BY <1>5, <1>7, <1>9, <1>11, <2>1 DEF TreeSays
  <2>2. ASSUME NEW j \in 1..n, i = m + j PROVE es[i].key \in U /\ es[i].type = "delete"
    BY <1>8, <1>9, <1>11, <2>2
  <2>3. i \in 1..m \/ \E j \in 1..n : i = m + j
    BY <1>11, <1>12
  <2>4. CASE es[i].key \in U /\ es[i].type = "delete"
    BY <1>5, <2>4 DEF TreeSays
  <2>. QED BY <2>1, <2>2, <2>3, <2>4
<1>14. ASSUME NEW k \in C \cup U PROVE \E i \in 1..Len(es) : es[i].key = k
  <2>1. CASE k \in C
    <3>1. PICK i \in 1..m : ups[i] = k
      BY <1>4, <2>1
    <3>2. i \in 1..Len(es) /\ es[i].key = k
      BY <1>9, <1>11, <3>1
    <3>. QED BY <3>2
  <2>2. CASE k \in U
    <3>1. PICK i \in 1..n : del[i] = k
      BY <1>4, <2>2
    <3>2. m + i \in 1..Len(es) /\ es[m + i].key = k
      BY <1>9, <1>11, <3>1
    <3>. QED BY <3>2
  <2>. QED BY <2>1, <2>2
<1>. QED BY <1>11, <1>13, <1>14 DEF C, U

(* What one incremental event does to a key it does not sweep away. *)
LEMMA IncrementSets ==
  ASSUME NEW t \in TreeKept, t.told = t.dict, NEW e \in TreeIncrements, NEW k \in TreeKeys,
         e.type = "delete" /\ e.key # k => k \notin Prefixed[e.key]
  PROVE  Tree!handle_event(t, e).dict[k] = IF e.key = k THEN e.value ELSE t.dict[k]
<1>0. t.dict \in TreeContents
  BY DEF TreeKept
<1>1. CASE e.type = "upsert"
  BY <1>0, <1>1 DEF Tree!handle_event, TreeContents
<1>2. CASE e.type = "delete"
  <2>1. e.value = None /\ k \in Prefixed[k]
    BY <1>2, KeysAssumption DEF TreeIncrements
  <2>2. Tree!handle_event(t, e).dict[k] = IF k \in Prefixed[e.key] THEN None ELSE t.dict[k]
    BY <1>2 DEF Tree!handle_event
  <2>. QED BY <1>2, <2>1, <2>2
<1>. QED BY <1>1, <1>2 DEF TreeIncrements

(* The events of a full sync are such that the tree can handle. *)
LEMMA SynthesizedTypes ==
  ASSUME NEW d \in TreeEntries, NEW s \in TreeContents
  PROVE  Tree!synthesize_incremental_events_from_full_sync(d, s) \in Seq(TreeSyncs \cup TreeIncrements)
<1>1. CASE s = Tree!Nothing /\ d = Tree!Nothing
  BY <1>1 DEF Tree!synthesize_incremental_events_from_full_sync
<1>2. CASE s = Tree!Nothing /\ d # Tree!Nothing
  <2>1. Tree!synthesize_incremental_events_from_full_sync(d, s) = <<Tree!Event("full", None, s)>>
    BY <1>2 DEF Tree!synthesize_incremental_events_from_full_sync
  <2>2. Tree!Event("full", None, s) \in TreeSyncs
    BY DEF Tree!Event, TreeSyncs
  <2>. QED BY <2>1, <2>2
<1>3. CASE s # Tree!Nothing
  <2>1. PICK es : es = Tree!synthesize_incremental_events_from_full_sync(d, s)
    OBVIOUS
  <2>2. es \in Seq(TreeIncrements)
    BY <1>3, <2>1, SynthesizedEvents
  <2>. QED BY <2>1, <2>2
<1>. QED BY <1>1, <1>2, <1>3

(* A first sync sets the tree to what etcd has. *)
LEMMA FirstSyncMirrors ==
  ASSUME ToldInv, NEW s \in TreeContents, Tree!Handle(<<Tree!Event("full", None, s)>>)
  PROVE  dict' = s
<1>. DEFINE b == [dict |-> dict, told |-> told]
            e == Tree!Event("full", None, s)
<1>1. dict' = TreeFold(b, <<e>>).dict
  BY TreeHandleFolds
<1>2. TreeFold(b, <<e>>) = Tree!handle_event(b, e)
  <2>1. b \in TreeTold /\ e \in TreeSyncs
    BY DEF ToldInv, TreeTypes, TreeKept, TreeTold, Tree!Event, TreeSyncs
  <2>. HIDE DEF b, e
  <2>. QED BY <2>1, TreeFoldOfOne
<1>3. e.type = "full" /\ e.value = s
  BY DEF Tree!Event
<1>. HIDE DEF e
<1>4. Tree!handle_event(b, e).dict = s
  BY <1>3 DEF Tree!handle_event
<1>. QED BY <1>1, <1>2, <1>4

(* No key that s lacks and the mux has sweeps k away. *)
NoneSweeps(s, k) == \A p \in Tree!Unvisited(directory, s) : ~Sweeper(p, k)

(* Incremental events for all keys that differ do so too. *)
LEMMA IncrementsMirror ==
  ASSUME ToldInv, NEW k \in TreeKeys, MuxKnows(k), directory \in TreeEntries, directory # None,
         NEW s \in TreeContents, s # Tree!Nothing, NoneSweeps(s, k),
         Tree!Handle(Tree!synthesize_incremental_events_from_full_sync(directory, s))
  PROVE  dict'[k] = s[k]
<1>1. PICK es : es = Tree!synthesize_incremental_events_from_full_sync(directory, s)
  OBVIOUS
<1>2. PICK dir : dir = directory
  OBVIOUS
<1>3. /\ es \in Seq(TreeIncrements)
      /\ \A i \in 1..Len(es) : TreeSays(es[i], s) /\ (es[i].type = "delete" => es[i].key \in Tree!Unvisited(dir, s))
      /\ \A l \in Tree!Changed(dir, s) \cup Tree!Unvisited(dir, s) : \E i \in 1..Len(es) : es[i].key = l
  BY <1>1, <1>2, SynthesizedEvents
<1>4. PICK n \in Nat : n = Len(es) /\ DOMAIN es = 1..n
  BY <1>3, LenProperties
<1>14. ASSUME NEW m \in 1..n
       PROVE  /\ es[m] \in TreeIncrements /\ es[m].key \in TreeKeys /\ es[m].value = s[es[m].key]
              /\ es[m].type = "delete" /\ es[m].key # k => k \notin Prefixed[es[m].key]
  <2>1. PICK e \in TreeIncrements : e = es[m]
    BY <1>3, <1>4
  <2>0. m \in 1..Len(es) /\ TreeSays(es[m], s) /\ (es[m].type = "delete" => es[m].key \in Tree!Unvisited(dir, s))
    BY <1>3, <1>4
  <2>2. /\ e.key \in TreeKeys
        /\ e.type = "upsert" => e.value = s[e.key]
        /\ e.type = "delete" => s[e.key] = None
    BY <2>0, <2>1 DEF TreeSays
  <2>3. e.type = "upsert" \/ (e.type = "delete" /\ e.value = None)
    BY DEF TreeIncrements
  <2>4. e.type = "delete" /\ e.key # k => k \notin Prefixed[e.key]
    BY <1>2, <2>0, <2>1, <2>2 DEF NoneSweeps, Sweeper
  <2>. QED BY <2>1, <2>2, <2>3, <2>4
<1>. DEFINE b == [dict |-> dict, told |-> told]
            J == [i \in 0..n |-> {t \in TreeTold : t.dict[k] = IF \E j \in 1..i : es[j].key = k THEN s[k] ELSE dict[k]}]
<1>5. b \in J[0]
  <2>1. b \in TreeTold /\ b.dict = dict
    BY DEF ToldInv, TreeTypes, TreeKept, TreeTold
  <2>. QED BY <2>1
<1>6. ASSUME NEW i \in 0..(n-1), NEW t \in J[i] PROVE Tree!handle_event(t, es[i+1]) \in J[i+1]
  <2>0. i \in 0..n /\ i + 1 \in 0..n /\ i + 1 \in 1..n /\ 1..(i+1) = (1..i) \cup {i+1}
    OBVIOUS
  <2>1. t \in TreeTold /\ t.dict[k] = IF \E j \in 1..i : es[j].key = k THEN s[k] ELSE dict[k]
    BY <2>0
  <2>2. PICK e : e = es[i+1]
    OBVIOUS
  <2>3. /\ e \in TreeIncrements /\ e.key \in TreeKeys /\ e.value = s[e.key]
        /\ e.type = "delete" /\ e.key # k => k \notin Prefixed[e.key]
    BY <1>14, <2>0, <2>2
  <2>4. PICK u : u = Tree!handle_event(t, e)
    OBVIOUS
  <2>5. u \in TreeTold
    BY <2>1, <2>3, <2>4, TreeEventTells DEF TreeTold
  <2>6. u.dict[k] = IF \E j \in 1..(i+1) : es[j].key = k THEN s[k] ELSE dict[k]
    <3>1. u.dict[k] = IF e.key = k THEN e.value ELSE t.dict[k]
      BY <2>1, <2>3, <2>4, IncrementSets DEF TreeTold
    <3>. QED BY <2>0, <2>1, <2>2, <2>3, <3>1
  <2>7. u \in J[i+1]
    BY <2>0, <2>5, <2>6
  <2>. QED BY <2>2, <2>4, <2>7
<1>7. TreeFold(b, es) \in J[n]
  <2>. HIDE DEF b, J
  <2>1. b \in TreeTold
    BY DEF b, ToldInv, TreeTypes, TreeKept, TreeTold
  <2>2. \A x \in TreeTold, i \in 1..n : Tree!handle_event(x, es[i]) \in TreeTold
    BY <1>14, TreeEventTells DEF TreeTold
  <2>. QED BY <1>4, <1>5, <1>6, <2>1, <2>2, TreeFoldSteps
<1>8. dict' = TreeFold(b, es).dict
  BY <1>1, TreeHandleFolds
<1>9. PICK t : t = TreeFold(b, es)
  OBVIOUS
<1>10. t.dict[k] = IF \E j \in 1..n : es[j].key = k THEN s[k] ELSE dict[k]
  <2>1. n \in 0..n
    OBVIOUS
  <2>. QED BY <1>7, <1>9, <2>1
<1>11. t.dict[k] = s[k]
  <2>1. CASE k \in Tree!Changed(dir, s) \cup Tree!Unvisited(dir, s)
    BY <1>3, <1>4, <1>10, <2>1
  <2>2. CASE k \notin Tree!Changed(dir, s) \cup Tree!Unvisited(dir, s)
    <3>1. (s[k] = None /\ dir[k] = None) \/ (s[k] # None /\ dir[k] = s[k])
      BY <2>2 DEF Tree!Changed, Tree!Unvisited
    <3>2. s[k] \in TreeValues \cup {None}
      BY DEF TreeContents
    <3>3. dict[k] = s[k]
      BY <1>2, <3>1, <3>2 DEF MuxKnows
    <3>. QED BY <1>10, <3>3
  <2>. QED BY <2>1, <2>2
<1>. QED BY <1>8, <1>9, <1>11

(* A full sync leaves the tree with what etcd had, but for a key that it   *)
(* has swept away.                                                         *)
LEMMA SyncMirrors ==
  ASSUME ToldInv, NEW k \in TreeKeys, MuxKnows(k), directory \in TreeEntries, directory # None,
         NEW s \in TreeContents, s # Tree!Nothing => NoneSweeps(s, k),
         Tree!Handle(Tree!synthesize_incremental_events_from_full_sync(directory, s))
  PROVE  dict'[k] = s[k]
<1>1. CASE s # Tree!Nothing
  BY <1>1, IncrementsMirror
<1>2. CASE s = Tree!Nothing /\ directory # Tree!Nothing
  <2>1. Tree!synthesize_incremental_events_from_full_sync(directory, s) = <<Tree!Event("full", None, s)>>
    BY <1>2 DEF Tree!synthesize_incremental_events_from_full_sync
  <2>. QED BY <2>1, FirstSyncMirrors
<1>3. CASE s = Tree!Nothing /\ directory = Tree!Nothing
  <2>. DEFINE b == [dict |-> dict, told |-> told]
  <2>1. Tree!synthesize_incremental_events_from_full_sync(directory, s) = <<>>
    BY <1>3 DEF Tree!synthesize_incremental_events_from_full_sync
  <2>2. dict' = TreeFold(b, <<>>).dict
    BY <2>1, TreeHandleFolds
  <2>3. TreeFold(b, <<>>) = b
    <3>1. b \in TreeTold
      BY DEF ToldInv, TreeTypes, TreeKept, TreeTold
    <3>. HIDE DEF b
    <3>. QED BY <3>1, TreeFoldShort
  <2>4. dict[k] = None
    BY <1>3 DEF MuxKnows, Tree!Nothing
  <2>5. s[k] = None
    BY <1>3 DEF Tree!Nothing
  <2>. QED BY <2>2, <2>3, <2>4, <2>5
<1>. QED BY <1>1, <1>2, <1>3

-----------------------------------------------------------------------------
(* Every step keeps node watchers informed.                                *)

(* The constants of a step. *)
LEMMA TreeStepFacts ==
  ASSUME ToldInv
  PROVE  /\ Tree!Nothing \in TreeContents /\ TreeContents \subseteq TreeEntries
         /\ \A s \in TreeContents : <<Tree!Event("full", None, s)>> \in Seq(TreeSyncs \cup TreeIncrements)
         /\ None \notin TreeEntries /\ Len(treeLog) \in Nat
<1>1. \A s \in TreeContents : Tree!Event("full", None, s) \in TreeSyncs
  BY DEF Tree!Event, TreeSyncs
<1>. QED BY <1>1, KeysAssumption DEF Tree!Nothing, TreeContents, TreeEntries, ToldInv, TreeTypes

(* A write appends its event to the log, and does not touch the watcher. *)
LEMMA WriteKeepsTypes ==
  ASSUME ToldInv, NEW type, NEW key, NEW value \in TreeValues \cup {None}, NEW ks,
         Tree!Event(type, key, value) \in TreeWritten, Tree!Write(type, key, value, ks)
  PROVE  ToldInv'
<1>1. store' \in TreeContents
  BY DEF Tree!Write, ToldInv, TreeTypes, TreeContents
<1>2. PICK e \in TreeWritten : treeLog' = Append(treeLog, e)
  BY DEF Tree!Write
<1>3. treeLog' \in Seq(TreeWritten) /\ Len(treeLog') = Len(treeLog) + 1 /\ Len(treeLog) \in Nat
  BY <1>2 DEF ToldInv, TreeTypes
<1>. QED BY <1>1, <1>3 DEF Tree!Write, ToldInv, TreeTypes

(* The events that are written. *)
LEMMA WritersWrite ==
  ASSUME Tree!Writers
  PROVE  \E type, key, ks : \E value \in TreeValues \cup {None} :
           Tree!Event(type, key, value) \in TreeWritten /\ Tree!Write(type, key, value, ks)
<1>1. CASE Tree!Put
  <2>1. PICK k \in TreeKeys, v \in TreeValues : Tree!Write("set", k, v, {k})
    BY <1>1 DEF Tree!Put
  <2>2. Tree!Event("set", k, v) \in TreeWritten
    BY DEF Tree!Event, TreeWritten
  <2>. QED BY <2>1, <2>2
<1>2. CASE Tree!Delete
  <2>1. PICK k \in TreeKeys : Tree!Write("delete", k, None, {k})
    BY <1>2 DEF Tree!Delete
  <2>2. Tree!Event("delete", k, None) \in TreeWritten
    BY DEF Tree!Event, TreeWritten
  <2>. QED BY <2>1, <2>2
<1>3. CASE Tree!DeleteDir
  <2>1. PICK d \in {"dir"} : \E ks : Tree!Write("delete", d, None, ks)
    BY <1>3 DEF Tree!DeleteDir
  <2>2. Tree!Event("delete", d, None) \in TreeWritten
    BY DEF Tree!Event, TreeWritten
  <2>. QED BY <2>1, <2>2
<1>4. CASE Tree!DeleteRoot
  <2>1. Tree!Write("root", None, None, TreeKeys)
    BY <1>4 DEF Tree!DeleteRoot
  <2>2. Tree!Event("root", None, None) \in TreeWritten
    BY DEF Tree!Event, TreeWritten
  <2>. QED BY <2>1, <2>2
<1>. QED BY <1>1, <1>2, <1>3, <1>4 DEF Tree!Writers

(* An event of the log as the watcher hands it on. *)
LEMMA Translated ==
  ASSUME NEW e \in TreeWritten, e.type # "root"
  PROVE  /\ Tree!translate_event(e) \in TreeIncrements
         /\ Tree!translate_event(e).key = e.key /\ Tree!translate_event(e).value = e.value
<1>1. CASE e.type = "set"
  BY <1>1 DEF TreeWritten, Tree!translate_event, Tree!Event, TreeIncrements
<1>2. CASE e.type = "delete"
  BY <1>2 DEF TreeWritten, Tree!translate_event, TreeIncrements
<1>. QED BY <1>1, <1>2 DEF TreeWritten

(* The mux hands an increment on, or nothing. *)
LEMMA Deduped ==
  ASSUME NEW d \in TreeEntries, NEW e \in TreeIncrements
  PROVE  /\ Tree!dedupe_event(d, e) \in Seq(TreeSyncs \cup TreeIncrements)
         /\ Tree!deduped_directory(d, e) \in TreeEntries
<1>1. CASE e.type = "upsert"
  <2>1. e.key \in TreeKeys /\ e.value \in TreeValues
    BY <1>1 DEF TreeIncrements
  <2>2. Tree!dedupe_event(d, e) = <<>> \/ Tree!dedupe_event(d, e) = <<e>>
    BY <1>1 DEF Tree!dedupe_event
  <2>3. Tree!deduped_directory(d, e) = [d EXCEPT ![e.key] = e.value]
    BY <1>1 DEF Tree!deduped_directory
  <2>4. Tree!dedupe_event(d, e) \in Seq(TreeSyncs \cup TreeIncrements)
    <3>1. <<>> \in Seq(TreeSyncs \cup TreeIncrements) /\ <<e>> \in Seq(TreeSyncs \cup TreeIncrements)
      OBVIOUS
    <3>. QED BY <2>2, <3>1, Zenon
  <2>5. [d EXCEPT ![e.key] = e.value] \in TreeEntries
    BY <2>1 DEF TreeEntries
  <2>. QED BY <2>3, <2>4, <2>5
<1>2. CASE e.type = "delete"
  BY <1>2 DEF Tree!dedupe_event, Tree!deduped_directory, TreeEntries
<1>. QED BY <1>1, <1>2 DEF TreeIncrements

(* Each step of the watcher keeps the types and what is told. *)
LEMMA LoadTells == ASSUME ToldInv, Tree!Load PROVE ToldInv'
<1>1. dict' \in TreeContents /\ told' \in TreeContents /\ told' = dict'
  BY TreeStepFacts, TreeHandleTells DEF Tree!Load, ToldInv, TreeTypes
<1>2. directory' \in TreeEntries /\ treeIndex' = Len(treeLog) /\ state' = "WAIT"
  BY TreeStepFacts DEF Tree!Load, ToldInv, TreeTypes
<1>. QED BY <1>1, <1>2, TreeStepFacts DEF Tree!Load, Tree!etcd, ToldInv, TreeTypes

\* What _get_root's full sync records of a node is an event the log holds.
LEMMA SyncedEntries ==
  ASSUME NEW d \in TreeEntries, NEW s \in TreeContents PROVE Tree!synced_directory(d, s) \in TreeEntries
BY DEF Tree!synced_directory, TreeEntries, TreeContents, Tree!Nothing

\* A full sync tells the node watchers as it replaces the dictionary.
LEMMA SyncTells == ASSUME ToldInv, Tree!Sync PROVE ToldInv'
<1>1. dict' \in TreeContents /\ told' \in TreeContents /\ told' = dict' /\ directory' \in TreeEntries
  <2>1. CASE directory = None
    <3>1. directory' = store /\ Tree!Handle(<<Tree!Event("full", None, store)>>)
      BY <2>1 DEF Tree!Sync, Tree!FullSync
    <3>. QED BY <3>1, TreeStepFacts, TreeHandleTells DEF ToldInv, TreeTypes
  <2>2. CASE directory # None
    <3>1. directory \in TreeEntries /\ store \in TreeContents
      BY <2>2 DEF ToldInv, TreeTypes
    <3>2. /\ directory' = Tree!synced_directory(directory, store)
          /\ Tree!Handle(Tree!synthesize_incremental_events_from_full_sync(directory, store))
      BY <2>2 DEF Tree!Sync, Tree!FullSync
    <3>3. directory' \in TreeEntries
      BY <3>1, <3>2, SyncedEntries
    <3>4. Tree!synthesize_incremental_events_from_full_sync(directory, store) \in Seq(TreeSyncs \cup TreeIncrements)
      BY <3>1, SynthesizedTypes
    <3>. QED BY <3>2, <3>3, <3>4, TreeHandleTells
  <2>. QED BY <2>1, <2>2
<1>2. treeIndex' = Len(treeLog) /\ state' = "WAIT" /\ UNCHANGED <<store, treeLog, cleared>>
  BY DEF Tree!Sync, Tree!etcd
<1>. QED BY <1>1, <1>2, TreeStepFacts DEF ToldInv, TreeTypes

(* The watcher's next event, as facts about it. *)
LEMMA WatchFacts ==
  ASSUME ToldInv, Tree!Watch
  PROVE  \E e \in TreeWritten :
           /\ treeIndex + 1 \in 1..Len(treeLog) /\ treeIndex \in Nat /\ e = treeLog[treeIndex + 1] /\ treeIndex' = treeIndex + 1
           /\ directory \in TreeEntries /\ state = "WAIT" /\ UNCHANGED <<store, treeLog, cleared, state>>
           /\ e.type = "root" =>
                directory' = Tree!Nothing /\ Tree!Handle(Tree!synthesize_incremental_events_from_full_sync(directory, Tree!Nothing))
           /\ e.type # "root" =>
                /\ directory' = Tree!deduped_directory(directory, Tree!translate_event(e))
                /\ Tree!Handle(Tree!dedupe_event(directory, Tree!translate_event(e)))
<1>1. /\ state = "WAIT" /\ treeIndex < Len(treeLog) /\ treeIndex \in 0..Len(treeLog) /\ directory \in TreeEntries
      /\ treeLog \in Seq(TreeWritten) /\ Len(treeLog) \in Nat
  BY DEF Tree!Watch, ToldInv, TreeTypes
<1>2. treeIndex + 1 \in 1..Len(treeLog) /\ treeLog[treeIndex + 1] \in TreeWritten /\ treeIndex \in Nat
  BY <1>1
<1>. QED BY <1>1, <1>2 DEF Tree!Watch

\* An incremental event tells the watchers of the node it changes.
LEMMA WatchTells == ASSUME ToldInv, Tree!Watch PROVE ToldInv'
<1>1. PICK e \in TreeWritten :
           /\ treeIndex + 1 \in 1..Len(treeLog) /\ treeIndex \in Nat /\ e = treeLog[treeIndex + 1] /\ treeIndex' = treeIndex + 1
           /\ directory \in TreeEntries /\ state = "WAIT" /\ UNCHANGED <<store, treeLog, cleared, state>>
           /\ e.type = "root" =>
                directory' = Tree!Nothing /\ Tree!Handle(Tree!synthesize_incremental_events_from_full_sync(directory, Tree!Nothing))
           /\ e.type # "root" =>
                /\ directory' = Tree!deduped_directory(directory, Tree!translate_event(e))
                /\ Tree!Handle(Tree!dedupe_event(directory, Tree!translate_event(e)))
  BY WatchFacts
<1>2. dict' \in TreeContents /\ told' \in TreeContents /\ told' = dict' /\ directory' \in TreeEntries
  <2>1. CASE e.type = "root"
    <3>1. Tree!synthesize_incremental_events_from_full_sync(directory, Tree!Nothing) \in Seq(TreeSyncs \cup TreeIncrements)
      BY <1>1, TreeStepFacts, SynthesizedTypes
    <3>. QED BY <1>1, <2>1, <3>1, TreeStepFacts, TreeHandleTells
  <2>2. CASE e.type # "root"
    <3>1. PICK i \in TreeIncrements : i = Tree!translate_event(e)
      BY <2>2, Translated
    <3>2. Tree!dedupe_event(directory, i) \in Seq(TreeSyncs \cup TreeIncrements) /\ Tree!deduped_directory(directory, i) \in TreeEntries
      BY <1>1, Deduped
    <3>3. Tree!Handle(Tree!dedupe_event(directory, i)) /\ directory' = Tree!deduped_directory(directory, i)
      BY <1>1, <2>2, <3>1
    <3>4. dict' \in TreeContents /\ told' \in TreeContents /\ told' = dict'
      BY <3>2, <3>3, TreeHandleTells
    <3>. QED BY <3>2, <3>3, <3>4
  <2>. QED BY <2>1, <2>2
<1>3. treeIndex' \in 0..Len(treeLog) /\ directory' # None
  BY <1>1, <1>2, TreeStepFacts
<1>. QED BY <1>1, <1>2, <1>3 DEF ToldInv, TreeTypes

(* Node watchers stay informed, whatever the keys and directories are. *)
LEMMA TreeNextTells == ASSUME ToldInv, [Tree!Next]_treeVars PROVE ToldInv'
<1>1. CASE Tree!Writers
  BY <1>1, WritersWrite, WriteKeepsTypes
<1>2. CASE Tree!Forget
  BY <1>2 DEF Tree!Forget, ToldInv, TreeTypes
<1>3. CASE Tree!Follow
  <2>1. CASE Tree!IndexCleared
    BY <2>1 DEF Tree!IndexCleared, ToldInv, TreeTypes
  <2>. QED BY <1>3, <2>1, LoadTells, SyncTells, WatchTells DEF Tree!Follow
<1>4. CASE Tree!StreamFails
  BY <1>4 DEF Tree!StreamFails, ToldInv, TreeTypes
<1>5. CASE Tree!StreamEnds
  BY <1>5 DEF Tree!StreamEnds, ToldInv, TreeTypes
<1>6. CASE Tree!Stop
  BY <1>6 DEF Tree!Stop, ToldInv, TreeTypes
<1>7. CASE Tree!Resume
  BY <1>7 DEF Tree!Resume, ToldInv, TreeTypes
<1>8. CASE UNCHANGED treeVars
  BY <1>8 DEF treeVars, ToldInv, TreeTypes
<1>. QED BY <1>1, <1>2, <1>3, <1>4, <1>5, <1>6, <1>7, <1>8 DEF Tree!Next

\* Nobody watches a node before the tree is first read.
LEMMA ToldInitInv == ASSUME Tree!Init PROVE ToldInv
BY DEF Tree!Init, ToldInv, TreeTypes, TreeContents, Tree!Nothing

-----------------------------------------------------------------------------
(* Every step keeps a key of the tree on its way to what etcd has, as long *)
(* as no removal sweeps it away.                                           *)

(* The event e decides the value of k at etcd. *)
Decides(e, k) == Touches(e, k) \/ (e.key = "dir" /\ k \in DirKeys)

(* What is written is an event, and etcd has its value. *)
LEMMA WritersSet ==
  ASSUME ToldInv, Tree!Writers
  PROVE  \E e \in TreeWritten :
           /\ treeLog' = Append(treeLog, e)
           /\ store' = [k \in TreeKeys |-> IF Decides(e, k) THEN e.value ELSE store[k]]
           /\ UNCHANGED <<cleared, state, treeIndex, directory, dict, told>>
<1>0. store \in TreeContents /\ "dir" \notin TreeKeys /\ None # "dir"
  BY KeysAssumption DEF ToldInv, TreeTypes
<1>1. CASE Tree!Put
  <2>1. PICK k \in TreeKeys, v \in TreeValues : Tree!Write("set", k, v, {k})
    BY <1>1 DEF Tree!Put
  <2>2. PICK e : e = Tree!Event("set", k, v)
    OBVIOUS
  <2>3. e \in TreeWritten /\ e.value = v /\ \A l : Decides(e, l) <=> l = k
    BY <1>0, <2>2 DEF Tree!Event, TreeWritten, Touches, Decides
  <2>. QED BY <2>1, <2>2, <2>3 DEF Tree!Write
<1>2. CASE Tree!Delete
  <2>1. PICK k \in TreeKeys : Tree!Write("delete", k, None, {k})
    BY <1>2 DEF Tree!Delete
  <2>2. PICK e : e = Tree!Event("delete", k, None)
    OBVIOUS
  <2>3. e \in TreeWritten /\ e.value = None /\ \A l : Decides(e, l) <=> l = k
    BY <1>0, <2>2 DEF Tree!Event, TreeWritten, Touches, Decides
  <2>. QED BY <2>1, <2>2, <2>3 DEF Tree!Write
<1>3. CASE Tree!DeleteDir
  <2>1. Tree!Write("delete", "dir", None, DirKeys)
    BY <1>3 DEF Tree!DeleteDir
  <2>2. PICK e : e = Tree!Event("delete", "dir", None)
    OBVIOUS
  <2>3. e \in TreeWritten /\ e.value = None /\ \A l \in TreeKeys : Decides(e, l) <=> l \in DirKeys
    BY <1>0, <2>2 DEF Tree!Event, TreeWritten, Touches, Decides
  <2>. QED BY <2>1, <2>2, <2>3 DEF Tree!Write
<1>4. CASE Tree!DeleteRoot
  <2>1. Tree!Write("root", None, None, TreeKeys)
    BY <1>4 DEF Tree!DeleteRoot
  <2>2. PICK e : e = Tree!Event("root", None, None)
    OBVIOUS
  <2>3. e \in TreeWritten /\ e.value = None /\ \A l : Decides(e, l)
    BY <2>2 DEF Tree!Event, TreeWritten, Touches, Decides
  <2>. QED BY <2>1, <2>2, <2>3 DEF Tree!Write
<1>. QED BY <1>1, <1>2, <1>3, <1>4 DEF Tree!Writers

(* An event that does not sweep k away is about k alone if it is about k,  *)
(* and takes no value from a key with which the path of k starts.          *)
LEMMA SparingEvent ==
  ASSUME NEW e \in TreeWritten, NEW k \in TreeKeys, ~Tree!Sweeps(e, k)
  PROVE  /\ Decides(e, k) <=> Touches(e, k)
         /\ e.type = "delete" /\ e.key # k => k \notin Prefixed[e.key]
         /\ \A p \in TreeKeys : Sweeper(p, k) => /\ e.type # "root"
                                                 /\ Decides(e, p) <=> e.key = p
                                                 /\ e.key = p => e.value # None
<1>1. e.type = "delete" /\ e.key # k => k \notin Prefixed[e.key]
  BY DEF Tree!Sweeps
<1>2. e.key = "dir" => e.type = "delete"
  BY KeysAssumption DEF TreeWritten
<1>3. e.key = "dir" => k \notin Prefixed["dir"]
  BY <1>1, <1>2, KeysAssumption
<1>4. Decides(e, k) <=> Touches(e, k)
  BY <1>3, KeysAssumption DEF Decides
<1>5. ASSUME NEW p \in TreeKeys, Sweeper(p, k)
      PROVE  e.type # "root" /\ (Decides(e, p) <=> e.key = p) /\ (e.key = p => e.value # None)
  <2>1. e.type # "root"
    BY <1>5 DEF Tree!Sweeps, Sweeper
  <2>2. e.key = "dir" => p \notin DirKeys
    BY <1>3, <1>5, KeysAssumption DEF Sweeper
  <2>3. e.key = p => e.type # "delete"
    BY <1>1, <1>5 DEF Sweeper
  <2>4. e.key = p => e.value # None
    BY <2>1, <2>3, KeysAssumption DEF TreeWritten
  <2>. QED BY <2>1, <2>2, <2>4 DEF Decides, Touches
<1>. QED BY <1>1, <1>4, <1>5

(* A write, delete or clearing in etcd leaves the tree's view of the past as it was. *)
LEMMA WritersKeep ==
  ASSUME ToldInv, Tree!Writers, NEW k \in TreeKeys, MirrorInv(k), Tree!Unswept(k)' PROVE MirrorInv(k)'
<1>1. ToldInv' /\ ToldInv
  BY TreeNextTells DEF Tree!Next
<1>2. PICK e \in TreeWritten :
           /\ treeLog' = Append(treeLog, e)
           /\ store' = [l \in TreeKeys |-> IF Decides(e, l) THEN e.value ELSE store[l]]
           /\ UNCHANGED <<cleared, state, treeIndex, directory, dict, told>>
  BY <1>1, WritersSet
<1>3. PICK n \in Nat : n = Len(treeLog)
  BY <1>1 DEF ToldInv, TreeTypes
<1>4. /\ Len(treeLog') = n + 1 /\ treeLog'[n + 1] = e
      /\ \A j \in 1..n : treeLog'[j] = treeLog[j]
  BY <1>1, <1>2, <1>3 DEF ToldInv, TreeTypes
<1>8. ~Tree!Sweeps(e, k)
  <2>1. n + 1 \in 1..(n + 1)
    OBVIOUS
  <2>. QED BY <1>4, <2>1 DEF Tree!Unswept, Tree!Sweeps
<1>9. /\ Decides(e, k) <=> Touches(e, k)
      /\ \A p \in TreeKeys : Sweeper(p, k) => (Decides(e, p) <=> e.key = p) /\ (e.key = p => e.value # None)
  BY <1>8, SparingEvent
<1>10. store'[k] = IF Touches(e, k) THEN e.value ELSE store[k]
  BY <1>2, <1>9
<1>5. LastEventCounts(k)'
  <2>. SUFFICES ASSUME NEW j \in 1..(n + 1), Touches(treeLog'[j], k),
                       \A i \in (j+1)..(n+1) : ~Touches(treeLog'[i], k)
                PROVE  store'[k] = treeLog'[j].value
    BY <1>4 DEF LastEventCounts, Touches
  <2>1. CASE j = n + 1
    BY <1>10, <1>4, <2>1
  <2>2. CASE j \in 1..n
    <3>1. ~Touches(e, k)
      BY <1>4, <2>2
    <3>2. \A i \in (j+1)..n : ~Touches(treeLog[i], k)
      BY <1>4, <2>2
    <3>3. store[k] = treeLog[j].value
      BY <1>3, <1>4, <2>2, <3>2 DEF MirrorInv, LastEventCounts
    <3>. QED BY <1>10, <1>4, <2>2, <3>1, <3>3
  <2>. QED BY <2>1, <2>2
<1>6. RestIsCurrent(k)'
  <2>. SUFFICES ASSUME state = "WAIT", \A j \in (treeIndex+1)..(n+1) : ~Touches(treeLog'[j], k)
                PROVE  dict[k] = store'[k]
    BY <1>2, <1>4 DEF RestIsCurrent, Touches
  <2>1. treeIndex \in 0..n
    BY <1>1, <1>3 DEF ToldInv, TreeTypes
  <2>2. ~Touches(e, k)
    BY <1>4, <2>1
  <2>3. \A j \in (treeIndex+1)..n : ~Touches(treeLog[j], k)
    BY <1>4, <2>1
  <2>4. dict[k] = store[k]
    BY <1>3, <2>3 DEF MirrorInv, RestIsCurrent
  <2>. QED BY <1>10, <2>2, <2>4
<1>7. MuxKnows(k)'
  BY <1>2 DEF MirrorInv, MuxKnows
<1>11. PrefixStays(k)'
  <2>. SUFFICES ASSUME NEW p \in TreeKeys, Sweeper(p, k)
                PROVE  /\ \A j \in 1..(n+1) : treeLog'[j].key = p => store'[p] # None
                       /\ directory # None /\ directory[p] # None => store'[p] # None
    BY <1>2, <1>4 DEF PrefixStays, Sweeper
  <2>1. /\ store'[p] = IF e.key = p THEN e.value ELSE store[p]
        /\ e.key = p => e.value # None
    BY <1>2, <1>9
  <2>2. /\ \A j \in 1..n : treeLog[j].key = p => store[p] # None
        /\ directory # None /\ directory[p] # None => store[p] # None
    BY <1>3 DEF MirrorInv, PrefixStays
  <2>3. ASSUME NEW j \in 1..(n+1), treeLog'[j].key = p PROVE store'[p] # None
    <3>1. j = n + 1 \/ j \in 1..n
      OBVIOUS
    <3>. QED BY <1>4, <2>1, <2>2, <2>3, <3>1
  <2>. QED BY <2>1, <2>2, <2>3
<1>. QED BY <1>5, <1>6, <1>7, <1>11 DEF MirrorInv

(* A step that leaves etcd and has a key of the tree equal to it. *)
LEMMA MirroredIsCurrent ==
  ASSUME NEW k \in TreeKeys, MirrorInv(k), ToldInv', dict'[k] = store[k], UNCHANGED <<store, treeLog>>,
         \A l \in TreeKeys : /\ directory'[l] = None <=> store[l] = None
                             /\ directory'[l] \in TreeValues => directory'[l] = store[l]
  PROVE  MirrorInv(k)'
<1>1. LastEventCounts(k)'
  BY DEF MirrorInv, LastEventCounts, Touches
<1>2. RestIsCurrent(k)' /\ MuxKnows(k)'
  BY DEF RestIsCurrent, MuxKnows, Touches
<1>3. PrefixStays(k)'
  BY DEF MirrorInv, PrefixStays, Sweeper
<1>. QED BY <1>1, <1>2, <1>3 DEF MirrorInv

(* Reading everything records what etcd holds at the index that is read. *)
LEMMA LoadKeeps == ASSUME ToldInv, NEW k \in TreeKeys, MirrorInv(k), Tree!Load PROVE MirrorInv(k)'
<1>1. ToldInv' /\ ToldInv
  BY LoadTells
<1>2. dict' = store
  <2>1. store \in TreeContents
    BY <1>1 DEF ToldInv, TreeTypes
  <2>. QED BY <1>1, <2>1, FirstSyncMirrors DEF Tree!Load
<1>3. dict'[k] = store[k] /\ directory' = store /\ UNCHANGED <<store, treeLog>>
  BY <1>2 DEF Tree!Load, Tree!etcd
<1>. QED BY <1>1, <1>3, MirroredIsCurrent

(* The events synthesized from a full sync turn the dictionary into what was read. *)
LEMMA SyncKeeps == ASSUME ToldInv, NEW k \in TreeKeys, MirrorInv(k), Tree!Sync PROVE MirrorInv(k)'
<1>1. ToldInv' /\ ToldInv /\ store \in TreeContents /\ MuxKnows(k) /\ UNCHANGED <<store, treeLog>>
  BY SyncTells DEF MirrorInv, ToldInv, TreeTypes, Tree!Sync, Tree!etcd
<1>2. CASE directory = None
  <2>1. directory' = store /\ dict' = store
    BY <1>1, <1>2, FirstSyncMirrors DEF Tree!Sync, Tree!FullSync
  <2>2. dict'[k] = store[k]
    BY <2>1
  <2>. QED BY <1>1, <2>1, <2>2, MirroredIsCurrent
<1>3. CASE directory # None
  <2>1. directory \in TreeEntries
    BY <1>1, <1>3 DEF ToldInv, TreeTypes
  <2>2. /\ directory' = Tree!synced_directory(directory, store)
        /\ Tree!Handle(Tree!synthesize_incremental_events_from_full_sync(directory, store))
    BY <1>3 DEF Tree!Sync, Tree!FullSync
  <2>5. NoneSweeps(store, k)
    BY <1>3 DEF MirrorInv, PrefixStays, NoneSweeps, Tree!Unvisited
  <2>3. dict'[k] = store[k]
    BY <1>1, <1>3, <2>1, <2>2, <2>5, SyncMirrors
  <2>4. ASSUME NEW l \in TreeKeys
        PROVE  /\ directory'[l] = None <=> store[l] = None
               /\ directory'[l] \in TreeValues => directory'[l] = store[l]
    <3>1. l # None /\ l \notin TreeValues /\ None \notin TreeValues
      BY KeysAssumption
    <3>2. CASE store = Tree!Nothing
      BY <2>2, <3>1, <3>2 DEF Tree!synced_directory, Tree!Nothing
    <3>3. CASE store # Tree!Nothing
      <4>1. directory'[l] = IF store[l] = None THEN None ELSE IF store[l] # directory[l] THEN l ELSE directory[l]
        BY <2>2, <3>3 DEF Tree!synced_directory
      <4>. QED BY <3>1, <4>1
    <3>. QED BY <3>2, <3>3
  <2>. QED BY <1>1, <2>3, <2>4, MirroredIsCurrent
<1>. QED BY <1>2, <1>3

(* An increment that the mux hands on or drops sets its key in the tree    *)
(* and keeps what the mux knows of a key that it does not sweep away.      *)
LEMMA IncrementHandled ==
  ASSUME ToldInv, NEW k \in TreeKeys, MuxKnows(k), directory \in TreeEntries, directory # None,
         NEW e \in TreeIncrements, e.type = "delete" /\ e.key # k => k \notin Prefixed[e.key],
         directory' = Tree!deduped_directory(directory, e), Tree!Handle(Tree!dedupe_event(directory, e))
  PROVE  /\ MuxKnows(k)'
         /\ dict'[k] = IF e.key = k THEN e.value ELSE dict[k]
         /\ \A l \in TreeKeys : directory'[l] = IF e.key = l THEN e.value ELSE directory[l]
<1>. DEFINE b == [dict |-> dict, told |-> told]
<1>1. e.value \in TreeValues \cup {None} /\ None \notin TreeValues
  BY KeysAssumption DEF TreeIncrements
<1>2. dict' = TreeFold(b, Tree!dedupe_event(directory, e)).dict
  BY TreeHandleFolds
<1>3. b \in TreeKept /\ b.told = b.dict /\ b.dict = dict
  BY DEF ToldInv, TreeTypes, TreeKept
<1>4. TreeFold(b, <<>>) = b /\ TreeFold(b, <<e>>) = Tree!handle_event(b, e)
  <2>1. b \in TreeTold
    BY <1>3 DEF TreeTold
  <2>. HIDE DEF b
  <2>. QED BY <2>1, TreeFoldOfOne
<1>5. dict'[k] = IF e.key = k THEN e.value ELSE dict[k]
  <2>1. CASE Tree!dedupe_event(directory, e) = <<e>>
    <3>1. Tree!handle_event(b, e).dict[k] = IF e.key = k THEN e.value ELSE b.dict[k]
      <4>. HIDE DEF b
      <4>. QED BY <1>3, IncrementSets
    <3>. HIDE DEF b
    <3>. QED BY <1>2, <1>3, <1>4, <2>1, <3>1
  <2>2. CASE e.type = "upsert" /\ directory[e.key] = e.value
    <3>1. Tree!dedupe_event(directory, e) = <<>>
      BY <2>2 DEF Tree!dedupe_event
    <3>2. e.key = k => dict[k] = e.value
      <4>1. e.value \in TreeValues
        BY <2>2 DEF TreeIncrements
      <4>. QED BY <2>2, <4>1 DEF MuxKnows
    <3>3. dict' = dict
      BY <1>2, <1>3, <1>4, <3>1
    <3>. QED BY <3>2, <3>3
  <2>3. Tree!dedupe_event(directory, e) = <<e>> \/ (e.type = "upsert" /\ directory[e.key] = e.value)
    BY DEF Tree!dedupe_event, TreeIncrements
  <2>. QED BY <2>1, <2>2, <2>3
<1>7. \A l \in TreeKeys : directory'[l] = IF e.key = l THEN e.value ELSE directory[l]
  <2>1. CASE e.type = "upsert"
    <3>1. directory' = [directory EXCEPT ![e.key] = e.value]
      BY <2>1 DEF Tree!deduped_directory
    <3>. QED BY <3>1 DEF TreeEntries
  <2>2. CASE e.type = "delete"
    <3>1. e.value = None /\ directory' = IF e.key \in TreeKeys THEN [directory EXCEPT ![e.key] = None] ELSE directory
      BY <2>2 DEF Tree!deduped_directory, TreeIncrements
    <3>. QED BY <3>1 DEF TreeEntries
  <2>. QED BY <2>1, <2>2 DEF TreeIncrements
<1>8. MuxKnows(k)'
  BY <1>1, <1>5, <1>7 DEF MuxKnows
<1>. QED BY <1>5, <1>7, <1>8

(* One more event brings a key to the next index. *)
LEMMA WatchKeeps ==
  ASSUME ToldInv, NEW k \in TreeKeys, MirrorInv(k), Tree!Watch, Tree!Unswept(k) PROVE MirrorInv(k)'
<1>0. ToldInv /\ ToldInv' /\ LastEventCounts(k) /\ MuxKnows(k) /\ RestIsCurrent(k) /\ PrefixStays(k)
  BY WatchTells DEF MirrorInv
<1>1. PICK e \in TreeWritten :
           /\ treeIndex + 1 \in 1..Len(treeLog) /\ treeIndex \in Nat /\ e = treeLog[treeIndex + 1] /\ treeIndex' = treeIndex + 1
           /\ directory \in TreeEntries /\ state = "WAIT" /\ UNCHANGED <<store, treeLog, cleared, state>>
           /\ e.type = "root" =>
                directory' = Tree!Nothing /\ Tree!Handle(Tree!synthesize_incremental_events_from_full_sync(directory, Tree!Nothing))
           /\ e.type # "root" =>
                /\ directory' = Tree!deduped_directory(directory, Tree!translate_event(e))
                /\ Tree!Handle(Tree!dedupe_event(directory, Tree!translate_event(e)))
  BY <1>0, WatchFacts
<1>2. directory # None
  BY <1>0, <1>1, TreeStepFacts
<1>6. ~Tree!Sweeps(e, k)
  BY <1>1 DEF Tree!Unswept
<1>7. /\ e.type = "delete" /\ e.key # k => k \notin Prefixed[e.key]
      /\ \A p \in TreeKeys : Sweeper(p, k) => e.type # "root" /\ (e.key = p => e.value # None)
  BY <1>6, SparingEvent
<1>3. /\ MuxKnows(k)' /\ dict'[k] = IF Touches(e, k) THEN e.value ELSE dict[k]
      /\ e.type # "root" => \A l \in TreeKeys : directory'[l] = IF e.key = l THEN e.value ELSE directory[l]
  <2>1. CASE e.type = "root"
    <3>0. Tree!Nothing \in TreeContents /\ Tree!Handle(Tree!synthesize_incremental_events_from_full_sync(directory, Tree!Nothing))
      BY <1>0, <1>1, <2>1, TreeStepFacts
    <3>1. dict'[k] = Tree!Nothing[k]
      BY <1>0, <1>1, <1>2, <3>0, SyncMirrors
    <3>2. e.value = None /\ Tree!Nothing[k] = None
      BY <2>1 DEF TreeWritten, Tree!Nothing
    <3>3. directory' = Tree!Nothing
      BY <1>1, <2>1
    <3>. QED BY <2>1, <3>1, <3>2, <3>3, KeysAssumption DEF MuxKnows, Touches
  <2>2. CASE e.type # "root"
    <3>1. PICK i \in TreeIncrements : i = Tree!translate_event(e) /\ i.key = e.key /\ i.value = e.value
      BY <2>2, Translated
    <3>2. directory' = Tree!deduped_directory(directory, i) /\ Tree!Handle(Tree!dedupe_event(directory, i))
      BY <1>1, <2>2, <3>1
    <3>4. i.type = "delete" /\ i.key # k => k \notin Prefixed[i.key]
      <4>1. i.type = "delete" => e.type = "delete"
        BY <2>2, <3>1 DEF TreeWritten, Tree!translate_event, Tree!Event
      <4>. QED BY <1>7, <3>1, <4>1
    <3>3. /\ MuxKnows(k)' /\ dict'[k] = IF i.key = k THEN i.value ELSE dict[k]
          /\ \A l \in TreeKeys : directory'[l] = IF i.key = l THEN i.value ELSE directory[l]
      BY <1>0, <1>1, <1>2, <3>2, <3>4, IncrementHandled
    <3>. QED BY <2>2, <3>1, <3>3 DEF Touches
  <2>. QED BY <2>1, <2>2
<1>4. LastEventCounts(k)'
  BY <1>0, <1>1 DEF LastEventCounts, Touches
<1>5. RestIsCurrent(k)'
  <2>. SUFFICES ASSUME \A j \in (treeIndex+2)..Len(treeLog) : ~Touches(treeLog[j], k)
                PROVE  dict'[k] = store[k]
    BY <1>1 DEF RestIsCurrent, Touches
  <2>0. PICK n \in Nat : n = Len(treeLog)
    BY <1>0 DEF ToldInv, TreeTypes
  <2>1. CASE Touches(e, k)
    <3>1. store[k] = e.value
      BY <1>0, <1>1, <2>0, <2>1 DEF LastEventCounts
    <3>. QED BY <1>3, <2>1, <3>1
  <2>2. CASE ~Touches(e, k)
    <3>1. \A j \in (treeIndex+1)..n : j = treeIndex + 1 \/ j \in (treeIndex+2)..n
      BY <1>1, <2>0
    <3>2. \A j \in (treeIndex+1)..n : ~Touches(treeLog[j], k)
      BY <1>1, <2>0, <2>2, <3>1
    <3>3. dict[k] = store[k]
      BY <1>0, <1>1, <2>0, <3>2 DEF RestIsCurrent
    <3>. QED BY <1>3, <2>2, <3>3
  <2>. QED BY <2>1, <2>2
<1>8. PrefixStays(k)'
  <2>. SUFFICES ASSUME NEW p \in TreeKeys, Sweeper(p, k)
                PROVE  /\ \A j \in 1..Len(treeLog) : treeLog[j].key = p => store[p] # None
                       /\ directory' # None /\ directory'[p] # None => store[p] # None
    BY <1>1 DEF PrefixStays, Sweeper
  <2>1. /\ \A j \in 1..Len(treeLog) : treeLog[j].key = p => store[p] # None
        /\ directory[p] # None => store[p] # None
    BY <1>0, <1>2 DEF PrefixStays
  <2>2. directory'[p] = IF e.key = p THEN e.value ELSE directory[p]
    BY <1>3, <1>7
  <2>3. e.key = p => store[p] # None
    BY <1>1, <2>1
  <2>. QED BY <2>1, <2>2, <2>3
<1>. QED BY <1>3, <1>4, <1>5, <1>8 DEF MirrorInv

(* A step of the watcher that stops it from waiting. *)
LEMMA LeavingKeeps ==
  ASSUME NEW k \in TreeKeys, MirrorInv(k),
         state' # "WAIT" \/ UNCHANGED <<state, treeIndex>>, directory' \in {None, directory},
         UNCHANGED <<store, treeLog, dict, told>>
  PROVE  MirrorInv(k)'
<1>1. LastEventCounts(k)' /\ MuxKnows(k)' /\ RestIsCurrent(k)'
  BY DEF MirrorInv, LastEventCounts, MuxKnows, RestIsCurrent, Touches
<1>2. PrefixStays(k)'
  BY DEF MirrorInv, PrefixStays, Sweeper
<1>. QED BY <1>1, <1>2 DEF MirrorInv

(* What was swept away stays so. *)
LEMMA WasUnswept == ASSUME ToldInv, [Tree!Next]_treeVars, NEW k \in TreeKeys, Tree!Unswept(k)' PROVE Tree!Unswept(k)
<1>1. CASE Tree!Writers
  <2>1. PICK e \in TreeWritten : treeLog' = Append(treeLog, e)
    BY <1>1, WritersSet
  <2>2. PICK n \in Nat : n = Len(treeLog) /\ treeLog \in Seq(TreeWritten)
    BY DEF ToldInv, TreeTypes
  <2>3. Len(treeLog') = n + 1 /\ \A i \in 1..n : treeLog'[i] = treeLog[i]
    BY <2>1, <2>2
  <2>4. 1..n \subseteq 1..(n + 1)
    OBVIOUS
  <2>. QED BY <2>2, <2>3, <2>4 DEF Tree!Unswept, Tree!Sweeps
<1>2. CASE UNCHANGED treeLog
  BY <1>2 DEF Tree!Unswept, Tree!Sweeps
<1>3. Tree!Writers \/ UNCHANGED treeLog
  BY DEF Tree!Next, Tree!Forget, Tree!Follow, Tree!Load, Tree!Sync, Tree!Watch, Tree!IndexCleared, Tree!StreamFails,
         Tree!StreamEnds, Tree!Stop, Tree!Resume, Tree!etcd, treeVars
<1>. QED BY <1>1, <1>2, <1>3

(* The invariant is inductive. *)
LEMMA TreeNextKeepsInv == ASSUME TreeInv, [Tree!Next]_treeVars PROVE TreeInv'
<1>0. ToldInv /\ ToldInv'
  BY TreeNextTells DEF TreeInv
<1>. SUFFICES ASSUME NEW k \in TreeKeys, Tree!Unswept(k)' PROVE MirrorInv(k)'
  BY <1>0 DEF TreeInv
<1>1. Tree!Unswept(k) /\ MirrorInv(k)
  BY <1>0, WasUnswept DEF TreeInv
<1>2. CASE Tree!Writers
  BY <1>0, <1>1, <1>2, WritersKeep
<1>3. CASE Tree!Load \/ Tree!Sync \/ Tree!Watch
  BY <1>0, <1>1, <1>3, LoadKeeps, SyncKeeps, WatchKeeps
<1>4. CASE Tree!Forget \/ Tree!IndexCleared \/ Tree!StreamFails \/ Tree!StreamEnds \/ Tree!Stop \/ Tree!Resume \/ UNCHANGED treeVars
  <2>1. /\ state' # "WAIT" \/ UNCHANGED <<state, treeIndex>>
        /\ directory' \in {None, directory} /\ UNCHANGED <<store, treeLog, dict, told>>
    BY <1>4 DEF Tree!Forget, Tree!IndexCleared, Tree!StreamFails, Tree!StreamEnds, Tree!Stop, Tree!Resume, treeVars
  <2>. QED BY <1>1, <2>1, LeavingKeeps
<1>. QED BY <1>2, <1>3, <1>4 DEF Tree!Next, Tree!Follow

(* It holds when a tree is made. *)
LEMMA TreeInitInv == ASSUME Tree!Init PROVE TreeInv
<1>1. ToldInv
  BY ToldInitInv
<1>. QED BY <1>1 DEF Tree!Init, TreeInv, MirrorInv, LastEventCounts, MuxKnows, RestIsCurrent, PrefixStays

(* What the invariant is for. *)
LEMMA TreeInvGives == ASSUME TreeInv PROVE Tree!TreeMirrorsEtcd /\ Tree!NodeWatchersInformed
<1>1. ASSUME NEW k \in TreeKeys, Tree!Unswept(k), state = "WAIT", treeIndex = Len(treeLog) PROVE dict[k] = store[k]
  <2>1. PICK n \in Nat : n = Len(treeLog)
    BY DEF TreeInv, ToldInv, TreeTypes
  <2>2. \A j \in (treeIndex+1)..Len(treeLog) : FALSE
    BY <1>1, <2>1
  <2>. QED BY <1>1, <2>2 DEF TreeInv, MirrorInv, RestIsCurrent
<1>. QED BY <1>1 DEF Tree!TreeMirrorsEtcd, Tree!NodeWatchersInformed, TreeInv, ToldInv
-----------------------------------------------------------------------------
(* Sequences that list the elements of a set.                              *)

Once(s, S) ==
  /\ s \in Seq(S)
  /\ \A a, b \in 1..Len(s) : s[a] = s[b] => a = b
  /\ \A x \in S : \E a \in 1..Len(s) : s[a] = x

(* Such a sequence is as long as the set is large. *)
LEMMA OnceCounts ==
  ASSUME NEW S, NEW s, Once(s, S)
  PROVE  IsFiniteSet(S) /\ Cardinality(S) = Len(s) /\ Len(s) \in Nat
<1>1. Len(s) \in Nat /\ s \in [1..Len(s) -> S] /\ DOMAIN s = 1..Len(s)
  BY LenProperties DEF Once
<1>2. s \in Bijection(1..Len(s), S)
  BY <1>1 DEF Once, Bijection, Injection, Surjection, IsInjective
<1>3. ExistsBijection(1..Len(s), S)
  BY <1>2 DEF ExistsBijection
<1>. QED BY <1>1, <1>3, FS_NatBijection, FS_CountingElements

(* An injection of as many indices lists them all. *)
LEMMA OnceOfInjection ==
  ASSUME NEW S, IsFiniteSet(S), NEW s \in [1..Cardinality(S) -> S],
         \A a, b \in 1..Cardinality(S) : s[a] = s[b] => a = b
  PROVE  Once(s, S)
<1>1. PICK n \in Nat : n = Cardinality(S)
  BY FS_CardinalityType
<1>2. s \in Injection(1..n, S)
  BY <1>1 DEF Injection, IsInjective
<1>3. Cardinality(1..n) = n
  BY FS_Interval
<1>4. s \in Surjection(1..n, S)
  BY <1>1, <1>2, <1>3, FS_Injection
<1>5. s \in Seq(S) /\ Len(s) = n
  BY <1>1
<1>. QED BY <1>1, <1>4, <1>5 DEF Once, Surjection

(* Every finite set can be listed. *)
LEMMA OnceExists ==
  ASSUME NEW S, IsFiniteSet(S)
  PROVE  \E s \in [1..Cardinality(S) -> S] : \A a, b \in DOMAIN s : s[a] = s[b] => a = b
<1>1. PICK s : s \in Bijection(1..Cardinality(S), S)
  BY FS_CardinalityType DEF ExistsBijection
<1>. QED BY <1>1 DEF Bijection, Injection, IsInjective

(* A part of a sequence. *)
LEMMA Slice ==
  ASSUME NEW T, NEW s, NEW a \in Nat, NEW b \in Nat, a <= b + 1, \A i \in a..b : s[i] \in T
  PROVE  /\ SubSeq(s, a, b) \in Seq(T)
         /\ Len(SubSeq(s, a, b)) = b + 1 - a
         /\ \A k \in 1..(b + 1 - a) : SubSeq(s, a, b)[k] = s[a + k - 1]
<1>1. /\ SubSeq(s, a, b) \in Seq(T)
      /\ Len(SubSeq(s, a, b)) = IF a <= b THEN b - a + 1 ELSE 0
      /\ \A i \in 1..(b - a + 1) : SubSeq(s, a, b)[i] = s[a + i - 1]
  BY SubSeqProperties
<1>2. b + 1 - a = b - a + 1 /\ (IF a <= b THEN b - a + 1 ELSE 0) = b + 1 - a
  OBVIOUS
<1>. QED BY <1>1, <1>2

(* u is the first n elements of s, v what is behind them, of length l. *)
FirstOf(u, T, s, n) == u \in Seq(T) /\ Len(u) = n /\ \A k \in 1..n : u[k] = s[k]
RestOf(v, T, s, n, l) == v \in Seq(T) /\ Len(v) = l /\ \A k \in 1..l : v[k] = s[n + k]

(* The first elements of a sequence are a SubSeq of it. *)
LEMMA First ==
  ASSUME NEW T, NEW s, NEW n \in Nat, \A k \in 1..n : s[k] \in T
  PROVE  FirstOf(SubSeq(s, 1, n), T, s, n)
<1>1. PICK u : u = SubSeq(s, 1, n)
  OBVIOUS
<1>2. u \in Seq(T) /\ Len(u) = n + 1 - 1 /\ \A k \in 1..(n + 1 - 1) : u[k] = s[1 + k - 1]
  BY <1>1, Slice
<1>. QED BY <1>1, <1>2 DEF FirstOf

(* So is what is behind them. *)
LEMMA Rest ==
  ASSUME NEW T, NEW s, NEW n \in Nat, NEW m \in Nat, n <= m, \A k \in 1..m : k > n => s[k] \in T,
         NEW l \in Nat, n + l = m
  PROVE  RestOf(SubSeq(s, n + 1, m), T, s, n, l)
<1>1. PICK a \in Nat : a = n + 1
  OBVIOUS
<1>2. PICK v : v = SubSeq(s, a, m)
  OBVIOUS
<1>3. a <= m + 1 /\ m + 1 - a = l
  BY <1>1
<1>4. \A i \in a..m : s[i] \in T
  BY <1>1
<1>5. v \in Seq(T) /\ Len(v) = m + 1 - a /\ \A k \in 1..(m + 1 - a) : v[k] = s[a + k - 1]
  BY <1>2, <1>3, <1>4, Slice
<1>6. ASSUME NEW k \in 1..l PROVE v[k] = s[n + k]
  <2>1. a + k - 1 = n + k
    BY <1>1
  <2>. QED BY <1>3, <1>5, <2>1
<1>7. v = SubSeq(s, n + 1, m)
  BY <1>1, <1>2
<1>. QED BY <1>3, <1>5, <1>6, <1>7 DEF RestOf

(* t is u, of length l, and behind it v, of length m. *)
JoinOf(t, T, u, l, v, m) ==
  /\ t \in Seq(T) /\ Len(t) = l + m
  /\ \A k \in 1..l : t[k] = u[k]
  /\ \A k \in 1..m : t[l + k] = v[k]

(* Two sequences, one behind the other. *)
LEMMA Joined ==
  ASSUME NEW T, NEW u \in Seq(T), NEW v \in Seq(T), NEW l \in Nat, Len(u) = l, NEW m \in Nat, Len(v) = m
  PROVE  JoinOf(u \o v, T, u, l, v, m)
<1>1. PICK t : t = u \o v
  OBVIOUS
<1>2. t \in Seq(T) /\ Len(t) = l + m /\ \A k \in 1..(l + m) : t[k] = IF k <= l THEN u[k] ELSE v[k - l]
  BY <1>1, ConcatProperties
<1>3. ASSUME NEW k \in 1..l PROVE t[k] = u[k]
  <2>1. k \in 1..(l + m) /\ k <= l
    OBVIOUS
  <2>. QED BY <1>2, <2>1
<1>4. ASSUME NEW k \in 1..m PROVE t[l + k] = v[k]
  <2>1. l + k \in 1..(l + m) /\ ~(l + k <= l) /\ (l + k) - l = k
    OBVIOUS
  <2>. QED BY <1>2, <2>1
<1>5. JoinOf(t, T, u, l, v, m)
  BY <1>2, <1>3, <1>4 DEF JoinOf
<1>. QED BY <1>1, <1>5

(* t is s, of length m, with e behind its n-th element. *)
InsertOf(t, T, s, m, n, e) ==
  /\ t \in Seq(T) /\ Len(t) = m + 1
  /\ \A k \in 1..n : t[k] = s[k]
  /\ t[n + 1] = e
  /\ \A k \in (n + 1)..m : t[k + 1] = s[k]

(* An element inserted behind the first n. *)
LEMMA Inserted ==
  ASSUME NEW T, NEW s, NEW m \in Nat, \A k \in 1..m : s[k] \in T, NEW e \in T, NEW n \in Nat, n <= m
  PROVE  InsertOf(SubSeq(s, 1, n) \o <<e>> \o SubSeq(s, n + 1, m), T, s, m, n, e)
<1>1. PICK l \in Nat : n + l = m
  <2>1. m - n \in Nat /\ n + (m - n) = m
    OBVIOUS
  <2>. QED BY <2>1
<1>2. \A k \in 1..n : s[k] \in T
  OBVIOUS
<1>3. PICK u : u = SubSeq(s, 1, n) /\ FirstOf(u, T, s, n)
  BY <1>2, First
<1>4. u \in Seq(T) /\ Len(u) = n /\ \A k \in 1..n : u[k] = s[k]
  BY <1>3 DEF FirstOf
<1>5. PICK v : v = SubSeq(s, n + 1, m) /\ RestOf(v, T, s, n, l)
  <2>1. \A k \in 1..m : k > n => s[k] \in T
    OBVIOUS
  <2>. QED BY <1>1, <2>1, Rest
<1>6. v \in Seq(T) /\ Len(v) = l /\ \A k \in 1..l : v[k] = s[n + k]
  BY <1>5 DEF RestOf
<1>7. PICK y : y = <<e>>
  OBVIOUS
<1>8. y \in Seq(T) /\ Len(y) = 1 /\ y[1] = e
  BY <1>7
<1>9. PICK w : w = u \o y /\ JoinOf(w, T, u, n, y, 1)
  <2>1. Len(u) = n /\ u \in Seq(T) /\ y \in Seq(T) /\ Len(y) = 1
    BY <1>4, <1>8
  <2>2. JoinOf(u \o y, T, u, n, y, 1)
    BY <2>1, Joined
  <2>. QED BY <2>2
<1>10. w \in Seq(T) /\ Len(w) = n + 1 /\ (\A k \in 1..n : w[k] = u[k]) /\ w[n + 1] = y[1]
  BY <1>9 DEF JoinOf
<1>11. PICK a \in Nat : a = n + 1
  OBVIOUS
<1>12. PICK t : t = w \o v /\ JoinOf(t, T, w, a, v, l)
  <2>1. w \in Seq(T) /\ Len(w) = a /\ v \in Seq(T) /\ Len(v) = l
    BY <1>6, <1>10, <1>11
  <2>2. JoinOf(w \o v, T, w, a, v, l)
    BY <2>1, Joined
  <2>. QED BY <2>2
<1>13. t \in Seq(T) /\ Len(t) = a + l /\ (\A k \in 1..a : t[k] = w[k]) /\ \A k \in 1..l : t[a + k] = v[k]
  BY <1>12 DEF JoinOf
<1>14. Len(t) = m + 1
  BY <1>1, <1>11, <1>13
<1>15. ASSUME NEW k \in 1..n PROVE t[k] = s[k]
  <2>1. k \in 1..a
    BY <1>11
  <2>. QED BY <1>4, <1>10, <1>13, <2>1
<1>16. t[n + 1] = e
  <2>1. n + 1 \in 1..a
    BY <1>11
  <2>. QED BY <1>8, <1>10, <1>13, <2>1
<1>17. ASSUME NEW k \in (n + 1)..m PROVE t[k + 1] = s[k]
  <2>1. k - n \in 1..l /\ n + (k - n) = k /\ a + (k - n) = k + 1
    BY <1>1, <1>11
  <2>2. PICK i \in 1..l : n + i = k /\ a + i = k + 1
    BY <2>1
  <2>3. t[a + i] = v[i] /\ v[i] = s[n + i]
    BY <1>6, <1>13
  <2>. QED BY <2>2, <2>3
<1>18. InsertOf(t, T, s, m, n, e)
  BY <1>13, <1>14, <1>15, <1>16, <1>17 DEF InsertOf
<1>19. t = SubSeq(s, 1, n) \o <<e>> \o SubSeq(s, n + 1, m)
  BY <1>3, <1>5, <1>7, <1>9, <1>12
<1>. QED BY <1>18, <1>19

(* t is s, of length m, without its n-th element. *)
RemoveOf(t, T, s, m, n) ==
  /\ t \in Seq(T) /\ Len(t) = m - 1
  /\ \A k \in 1..(n - 1) : t[k] = s[k]
  /\ \A k \in n..(m - 1) : t[k] = s[k + 1]

(* A sequence without its n-th element. *)
LEMMA Removed ==
  ASSUME NEW T, NEW s, NEW m \in Nat, NEW n \in 1..m, \A k \in 1..m : k # n => s[k] \in T
  PROVE  RemoveOf(SubSeq(s, 1, n - 1) \o SubSeq(s, n + 1, m), T, s, m, n)
<1>1. PICK l \in Nat, r \in Nat : l = n - 1 /\ l + 1 = n /\ n + r = m
  <2>1. n - 1 \in Nat /\ m - n \in Nat /\ n + (m - n) = m /\ (n - 1) + 1 = n
    OBVIOUS
  <2>. QED BY <2>1
<1>2. PICK u : u = SubSeq(s, 1, l) /\ FirstOf(u, T, s, l)
  <2>1. \A k \in 1..l : s[k] \in T
    BY <1>1
  <2>. QED BY <2>1, First
<1>3. u \in Seq(T) /\ Len(u) = l /\ \A k \in 1..l : u[k] = s[k]
  BY <1>2 DEF FirstOf
<1>4. PICK v : v = SubSeq(s, n + 1, m) /\ RestOf(v, T, s, n, r)
  <2>1. n \in Nat /\ n <= m /\ \A k \in 1..m : k > n => s[k] \in T
    OBVIOUS
  <2>2. n + r = m
    BY <1>1
  <2>. QED BY <2>1, <2>2, Rest
<1>5. v \in Seq(T) /\ Len(v) = r /\ \A k \in 1..r : v[k] = s[n + k]
  BY <1>4 DEF RestOf
<1>6. PICK t : t = u \o v /\ JoinOf(t, T, u, l, v, r)
  <2>1. JoinOf(u \o v, T, u, l, v, r)
    BY <1>3, <1>5, Joined
  <2>. QED BY <2>1
<1>7. t \in Seq(T) /\ Len(t) = l + r /\ (\A k \in 1..l : t[k] = u[k]) /\ \A k \in 1..r : t[l + k] = v[k]
  BY <1>6 DEF JoinOf
<1>8. ASSUME NEW k \in n..(m - 1) PROVE t[k] = s[k + 1]
  <2>1. (k + 1) - n \in 1..r /\ l + ((k + 1) - n) = k /\ n + ((k + 1) - n) = k + 1
    BY <1>1
  <2>2. PICK i \in 1..r : l + i = k /\ n + i = k + 1
    BY <2>1
  <2>3. t[l + i] = v[i] /\ v[i] = s[n + i]
    BY <1>5, <1>7
  <2>. QED BY <2>2, <2>3
<1>9. Len(t) = m - 1 /\ \A k \in 1..(n - 1) : t[k] = s[k]
  <2>1. l + r = m - 1 /\ 1..(n - 1) = 1..l
    BY <1>1
  <2>. QED BY <1>3, <1>7, <2>1
<1>10. RemoveOf(t, T, s, m, n)
  BY <1>7, <1>8, <1>9 DEF RemoveOf
<1>11. t = SubSeq(s, 1, n - 1) \o SubSeq(s, n + 1, m)
  BY <1>1, <1>2, <1>4, <1>6
<1>. QED BY <1>10, <1>11

(* One more element at any place. *)
LEMMA OnceInserted ==
  ASSUME NEW S, NEW s, Once(s, S), NEW e, e \notin S, NEW n \in 0..Len(s)
  PROVE  Once(SubSeq(s, 1, n) \o <<e>> \o SubSeq(s, n + 1, Len(s)), S \cup {e})
<1>0. PICK T : T = S \cup {e}
  OBVIOUS
<1>1. PICK m \in Nat : m = Len(s) /\ \A k \in 1..m : s[k] \in S /\ s[k] \in T
  BY <1>0, LenProperties DEF Once
<1>2. n \in Nat /\ n <= m /\ e \in T /\ \A k \in 1..m : s[k] \in T
  BY <1>0, <1>1
<1>3. PICK t : t = SubSeq(s, 1, n) \o <<e>> \o SubSeq(s, n + 1, m) /\ InsertOf(t, T, s, m, n, e)
  BY <1>2, Inserted
<1>. SUFFICES Once(t, T)
  BY <1>0, <1>1, <1>3
<1>8. /\ t \in Seq(T) /\ Len(t) = m + 1
      /\ \A k \in 1..n : t[k] = s[k]
      /\ t[n + 1] = e
      /\ \A k \in (n + 1)..m : t[k + 1] = s[k]
  BY <1>3 DEF InsertOf
<1>4. n \in 0..m /\ (\A a, b \in 1..m : s[a] = s[b] => a = b) /\ \A x \in S : \E a \in 1..m : s[a] = x
  BY <1>1 DEF Once
<1>5. ASSUME NEW k \in 1..(m + 1) PROVE k = n + 1 \/ \E a \in 1..m : t[k] = s[a] /\ a = IF k <= n THEN k ELSE k - 1
  <2>1. CASE k <= n
    BY <1>8, <1>4, <2>1
  <2>2. CASE k > n + 1
    <3>1. k - 1 \in (n + 1)..m /\ (k - 1) + 1 = k /\ k - 1 \in 1..m /\ ~(k <= n)
      BY <1>4, <2>2
    <3>. QED BY <1>8, <3>1
  <2>. QED BY <1>4, <2>1, <2>2
<1>6. ASSUME NEW a \in 1..(m + 1), NEW b \in 1..(m + 1), t[a] = t[b] PROVE a = b
  <2>1. CASE a = n + 1 \/ b = n + 1
    <3>1. \A k \in 1..(m + 1) : k # n + 1 => t[k] # e
      BY <1>1, <1>5
    <3>. QED BY <1>8, <1>6, <2>1, <3>1
  <2>2. CASE a # n + 1 /\ b # n + 1
    <3>1. PICK i \in 1..m : t[a] = s[i] /\ i = IF a <= n THEN a ELSE a - 1
      BY <1>5, <2>2
    <3>2. PICK j \in 1..m : t[b] = s[j] /\ j = IF b <= n THEN b ELSE b - 1
      BY <1>5, <2>2
    <3>3. i = j
      BY <1>4, <1>6, <3>1, <3>2
    <3>. QED BY <1>4, <2>2, <3>1, <3>2, <3>3
  <2>. QED BY <2>1, <2>2
<1>7. ASSUME NEW x \in T PROVE \E a \in 1..(m + 1) : t[a] = x
  <2>1. CASE x = e
    <3>1. n + 1 \in 1..(m + 1)
      BY <1>4
    <3>. QED BY <1>8, <2>1, <3>1
  <2>2. CASE x \in S
    <3>1. PICK a \in 1..m : s[a] = x
      BY <1>4, <2>2
    <3>2. CASE a <= n
      <4>1. a \in 1..n /\ a \in 1..(m + 1)
        BY <1>4, <3>2
      <4>. QED BY <1>8, <3>1, <4>1
    <3>3. CASE ~(a <= n)
      <4>1. a \in (n + 1)..m /\ a + 1 \in 1..(m + 1)
        BY <1>4, <3>3
      <4>. QED BY <1>8, <3>1, <4>1
    <3>. QED BY <3>2, <3>3
  <2>. QED BY <1>0, <2>1, <2>2
<1>. QED BY <1>8, <1>6, <1>7 DEF Once

(* One element less. *)
LEMMA OnceRemoved ==
  ASSUME NEW S, NEW s, Once(s, S), NEW n \in 1..Len(s)
  PROVE  Once(SubSeq(s, 1, n - 1) \o SubSeq(s, n + 1, Len(s)), S \ {s[n]})
<1>0. PICK T : T = S \ {s[n]}
  OBVIOUS
<1>1. PICK m \in Nat : m = Len(s) /\ \A k \in 1..m : s[k] \in S
  BY LenProperties DEF Once
<1>4. n \in 1..m /\ (\A a, b \in 1..m : s[a] = s[b] => a = b) /\ \A x \in S : \E a \in 1..m : s[a] = x
  BY <1>1 DEF Once
<1>3. PICK t : t = SubSeq(s, 1, n - 1) \o SubSeq(s, n + 1, m) /\ RemoveOf(t, T, s, m, n)
  <2>1. \A k \in 1..m : k # n => s[k] \in T
    BY <1>0, <1>1, <1>4
  <2>. QED BY <1>4, <2>1, Removed
<1>. SUFFICES Once(t, T)
  BY <1>0, <1>1, <1>3
<1>8. /\ t \in Seq(T) /\ Len(t) = m - 1
      /\ \A k \in 1..(n - 1) : t[k] = s[k]
      /\ \A k \in n..(m - 1) : t[k] = s[k + 1]
  BY <1>3 DEF RemoveOf
<1>5. ASSUME NEW k \in 1..(m - 1) PROVE \E a \in 1..m : t[k] = s[a] /\ a = IF k < n THEN k ELSE k + 1
  <2>1. CASE k < n
    <3>1. k \in 1..(n - 1) /\ k \in 1..m
      BY <1>4, <2>1
    <3>. QED BY <1>8, <2>1, <3>1
  <2>2. CASE ~(k < n)
    <3>1. k \in n..(m - 1) /\ k + 1 \in 1..m
      BY <1>4, <2>2
    <3>. QED BY <1>8, <2>2, <3>1
  <2>. QED BY <2>1, <2>2
<1>6. ASSUME NEW a \in 1..(m - 1), NEW b \in 1..(m - 1), t[a] = t[b] PROVE a = b
  <2>1. PICK i \in 1..m : t[a] = s[i] /\ i = IF a < n THEN a ELSE a + 1
    BY <1>5
  <2>2. PICK j \in 1..m : t[b] = s[j] /\ j = IF b < n THEN b ELSE b + 1
    BY <1>5
  <2>3. i = j
    BY <1>4, <1>6, <2>1, <2>2
  <2>. QED BY <1>4, <2>1, <2>2, <2>3
<1>7. ASSUME NEW x \in T PROVE \E a \in 1..(m - 1) : t[a] = x
  <2>1. PICK a \in 1..m : s[a] = x /\ a # n
    BY <1>0, <1>4
  <2>2. CASE a < n
    <3>1. a \in 1..(n - 1) /\ a \in 1..(m - 1)
      BY <1>4, <2>2
    <3>. QED BY <1>8, <2>1, <3>1
  <2>3. CASE ~(a < n)
    <3>1. a - 1 \in n..(m - 1) /\ a - 1 \in 1..(m - 1) /\ (a - 1) + 1 = a
      BY <1>4, <2>1, <2>3
    <3>. QED BY <1>8, <2>1, <3>1
  <2>. QED BY <2>2, <2>3
<1>. QED BY <1>1, <1>8, <1>6, <1>7 DEF Once

(* The last element comes first. *)
TurnOf(t, T, s, m) == t \in Seq(T) /\ Len(t) = m /\ t[1] = s[m] /\ \A k \in 1..(m - 1) : t[k + 1] = s[k]

(* The first element goes to the end. *)
LEMMA Turned ==
  ASSUME NEW T, NEW s, NEW m \in Nat, 1 <= m, \A k \in 1..m : s[k] \in T
  PROVE  TurnOf(<<s[m]>> \o SubSeq(s, 1, m - 1), T, s, m)
<1>1. PICK l \in Nat : l = m - 1 /\ 1 + l = m
  <2>1. m - 1 \in Nat /\ 1 + (m - 1) = m
    OBVIOUS
  <2>. QED BY <2>1
<1>2. PICK u : u = SubSeq(s, 1, l) /\ FirstOf(u, T, s, l)
  <2>1. \A k \in 1..l : s[k] \in T
    BY <1>1
  <2>. QED BY <2>1, First
<1>3. u \in Seq(T) /\ Len(u) = l /\ \A k \in 1..l : u[k] = s[k]
  BY <1>2 DEF FirstOf
<1>4. PICK y : y = <<s[m]>>
  OBVIOUS
<1>5. y \in Seq(T) /\ Len(y) = 1 /\ y[1] = s[m]
  <2>1. s[m] \in T
    OBVIOUS
  <2>. QED BY <1>4, <2>1
<1>6. PICK t : t = y \o u /\ JoinOf(t, T, y, 1, u, l)
  <2>1. JoinOf(y \o u, T, y, 1, u, l)
    BY <1>3, <1>5, Joined
  <2>. QED BY <2>1
<1>7. t \in Seq(T) /\ Len(t) = 1 + l /\ t[1] = y[1] /\ \A k \in 1..l : t[1 + k] = u[k]
  BY <1>6 DEF JoinOf
<1>8. ASSUME NEW k \in 1..(m - 1) PROVE t[k + 1] = s[k]
  <2>1. k \in 1..l /\ 1 + k = k + 1
    BY <1>1
  <2>. QED BY <1>3, <1>7, <2>1
<1>9. TurnOf(t, T, s, m)
  BY <1>1, <1>5, <1>7, <1>8 DEF TurnOf
<1>10. t = <<s[m]>> \o SubSeq(s, 1, m - 1)
  BY <1>1, <1>2, <1>4, <1>6
<1>. QED BY <1>9, <1>10

(* A turned sequence lists the same elements. *)
LEMMA OnceTurned ==
  ASSUME NEW S, NEW s, Once(s, S), NEW m \in Nat, Len(s) = m, 1 <= m, NEW t, TurnOf(t, S, s, m)
  PROVE  Once(t, S)
<1>1. t \in Seq(S) /\ Len(t) = m /\ t[1] = s[m] /\ \A k \in 1..(m - 1) : t[k + 1] = s[k]
  BY DEF TurnOf
<1>2. (\A a, b \in 1..m : s[a] = s[b] => a = b) /\ \A x \in S : \E a \in 1..m : s[a] = x
  BY DEF Once
<1>3. ASSUME NEW k \in 1..m PROVE \E a \in 1..m : t[k] = s[a] /\ a = IF k = 1 THEN m ELSE k - 1
  <2>1. CASE k = 1
    BY <1>1, <2>1
  <2>2. CASE k # 1
    <3>1. k - 1 \in 1..(m - 1) /\ (k - 1) + 1 = k /\ k - 1 \in 1..m
      BY <2>2
    <3>. QED BY <1>1, <2>2, <3>1
  <2>. QED BY <2>1, <2>2
<1>4. ASSUME NEW a \in 1..m, NEW b \in 1..m, t[a] = t[b] PROVE a = b
  <2>1. PICK i \in 1..m : t[a] = s[i] /\ i = IF a = 1 THEN m ELSE a - 1
    BY <1>3
  <2>2. PICK j \in 1..m : t[b] = s[j] /\ j = IF b = 1 THEN m ELSE b - 1
    BY <1>3
  <2>3. s[i] = s[j]
    BY <1>4, <2>1, <2>2, Zenon
  <2>4. i = j
    BY <1>2, <2>3
  <2>. QED BY <2>1, <2>2, <2>4
<1>5. ASSUME NEW x \in S PROVE \E a \in 1..m : t[a] = x
  <2>1. PICK a \in 1..m : s[a] = x
    BY <1>2
  <2>2. CASE a = m
    BY <1>1, <2>1, <2>2
  <2>3. CASE a # m
    <3>1. a \in 1..(m - 1) /\ a + 1 \in 1..m
      BY <2>3
    <3>. QED BY <1>1, <2>1, <3>1
  <2>. QED BY <2>2, <2>3
<1>. QED BY <1>1, <1>4, <1>5 DEF Once

-----------------------------------------------------------------------------
(* What is registered after the first n changes of l. *)
Mine(l, n, i) == {j \in 1..n : l[j].id = i}
Last(S) == CHOOSE j \in S : \A k \in S : k <= j
LogState(l, n) == [i \in Instances |-> IF Mine(l, n, i) = {} THEN None ELSE l[Last(Mine(l, n, i))].is]
Changes == [id : Instances, is : {None, "serving", "draining"}]


(* A later change does not matter. *)
LEMMA LogStateAppend ==
  ASSUME NEW l \in Seq(Changes), NEW e \in Changes, NEW n \in Nat, n <= Len(l)
  PROVE  LogState(Append(l, e), n) = LogState(l, n)
<1>1. PICK q : q = Append(l, e) /\ \A j \in 1..n : q[j] = l[j]
  <2>1. \A j \in 1..n : Append(l, e)[j] = l[j]
    OBVIOUS
  <2>. QED BY <2>1
<1>2. \A i : Mine(q, n, i) = Mine(l, n, i)
  BY <1>1 DEF Mine
<1>3. ASSUME NEW i, Mine(l, n, i) # {} PROVE Last(Mine(l, n, i)) \in 1..n
  <2>1. PICK S : S = Mine(l, n, i) /\ S \in SUBSET (1..n) /\ S # {}
    BY <1>3 DEF Mine
  <2>2. PICK j \in S : \A k \in S : k <= j
    BY <2>1, LastExists
  <2>3. Last(S) \in S
    BY <2>2, Zenon DEF Last
  <2>. QED BY <2>1, <2>3
<1>4. ASSUME NEW i, Mine(l, n, i) # {} PROVE q[Last(Mine(l, n, i))] = l[Last(Mine(l, n, i))]
  <2>1. Last(Mine(l, n, i)) \in 1..n
    BY <1>3, <1>4
  <2>. QED BY <1>1, <2>1
<1>5. LogState(q, n) = LogState(l, n)
  BY <1>2, <1>4 DEF LogState
<1>. QED BY <1>1, <1>5

(* One change more is what its instance registered. *)
LEMMA LogStateNext ==
  ASSUME NEW l \in Seq(Changes), NEW n \in Nat, n < Len(l)
  PROVE  LogState(l, n + 1) = [LogState(l, n) EXCEPT ![l[n + 1].id] = l[n + 1].is]
<1>1. PICK d \in Instances : d = l[n + 1].id
  <2>1. n + 1 \in 1..Len(l)
    OBVIOUS
  <2>2. l[n + 1] \in Changes
    BY <2>1
  <2>. QED BY <2>2 DEF Changes
<1>2. ASSUME NEW i, i # d PROVE Mine(l, n + 1, i) = Mine(l, n, i)
  BY <1>1, <1>2 DEF Mine
<1>3. Mine(l, n + 1, d) # {} /\ Last(Mine(l, n + 1, d)) = n + 1
  <2>1. PICK S : S = Mine(l, n + 1, d) /\ S \in SUBSET (1..(n + 1)) /\ n + 1 \in S
    <3>1. n + 1 \in Mine(l, n + 1, d) /\ Mine(l, n + 1, d) \subseteq 1..(n + 1)
      BY <1>1 DEF Mine
    <3>. QED BY <3>1
  <2>2. \A k \in S : k <= n + 1
    BY <2>1
  <2>3. PICK j : j = Last(S) /\ j \in S /\ \A k \in S : k <= j
    BY <2>1, <2>2, Zenon DEF Last
  <2>4. j = n + 1
    BY <2>1, <2>3
  <2>. QED BY <2>1, <2>3, <2>4
<1>4. ASSUME NEW i \in Instances PROVE LogState(l, n + 1)[i] = IF i = d THEN l[n + 1].is ELSE LogState(l, n)[i]
  <2>1. CASE i = d
    BY <1>3, <2>1 DEF LogState
  <2>2. CASE i # d
    <3>1. Mine(l, n + 1, i) = Mine(l, n, i)
      BY <1>2, <2>2
    <3>. QED BY <2>2, <3>1 DEF LogState
  <2>. QED BY <2>1, <2>2
<1>5. PICK f : f = LogState(l, n + 1) /\ f = [i \in Instances |-> f[i]]
  BY DEF LogState
<1>6. PICK g : g = LogState(l, n) /\ g = [i \in Instances |-> g[i]]
  BY DEF LogState
<1>7. f = [g EXCEPT ![d] = l[n + 1].is]
  BY <1>4, <1>5, <1>6
<1>. QED BY <1>1, <1>5, <1>6, <1>7

(* Only what can be registered is. *)
LEMMA LogStateType ==
  ASSUME NEW l \in Seq(Changes), NEW n \in Nat, n <= Len(l)
  PROVE  LogState(l, n) \in [Instances -> {None, "serving", "draining"}]
<1>1. ASSUME NEW i \in Instances, Mine(l, n, i) # {} PROVE l[Last(Mine(l, n, i))].is \in {None, "serving", "draining"}
  <2>1. PICK S : S = Mine(l, n, i) /\ S \in SUBSET (1..n) /\ S # {}
    BY <1>1 DEF Mine
  <2>2. PICK j \in S : \A k \in S : k <= j
    BY <2>1, LastExists
  <2>3. PICK m : m = Last(S) /\ m \in S
    BY <2>2, Zenon DEF Last
  <2>4. m \in 1..Len(l)
    BY <2>1, <2>3
  <2>5. l[m] \in Changes
    BY <2>4
  <2>. QED BY <2>1, <2>3, <2>5 DEF Changes
<1>. QED BY <1>1 DEF LogState

-----------------------------------------------------------------------------
(* The instances of a service.                                             *)

States == {"new", "running", "killed", "dead"}
InstanceStates == {None} \cup [draining : BOOLEAN, visible : BOOLEAN]
Known(in) == {i \in Instances : in[i] # None}

(* in is what a process knows when reg is registered. *)
Agrees(in, reg) ==
  \A i \in Instances : IF reg[i] = None THEN in[i] = None
                       ELSE in[i] # None /\ in[i].draining = (reg[i] = "draining")

(* The rotation r lists what is known; the p-th was passed over at most    *)
(* p - 1 times.                                                            *)
InTurn(in, r, n) ==
  /\ in \in [Instances -> InstanceStates] /\ n \in [Instances -> Nat]
  /\ Once(r, Known(in))
  /\ \A p \in 1..Len(r) : n[r[p]] < p
  /\ \A i \in Instances : in[i] = None => n[i] = 0

WatchersInv ==
  /\ registered \in Seq(Changes)
  /\ watcher \in [1..MaxWatchers -> [state : States, index : Nat]]
  /\ \A w \in 1..MaxWatchers : watcher[w].index <= Len(registered)
  /\ handle \in 0..MaxWatchers /\ loading \in BOOLEAN
  /\ loading => \E w \in 1..MaxWatchers : watcher[w].state = "new"

(* The only running watcher, if it is the process's own, has made the list *)
(* agree with the changes that it has seen.                                *)
Alone(w) == Service!Running = {w} /\ handle = w
FollowsInv == \A w \in 1..MaxWatchers : Alone(w) => Agrees(inst, LogState(registered, watcher[w].index))

ServiceInv == WatchersInv /\ InTurn(inst, rot, since) /\ FollowsInv

(* What is registered is what the changes up to an index leave. *)
LEMMA RegisteredIs ==
  /\ \A n : Service!Registered(n) = LogState(registered, n)
  /\ Service!Registered(Len(registered)) = LogState(registered, Len(registered))
BY Zenon DEF Service!Registered, LogState, Mine, Last

(* A change of the list starts the count anew. *)
LEMMA ResetInTurn ==
  ASSUME NEW in \in [Instances -> InstanceStates], NEW r, Once(r, Known(in))
  PROVE  InTurn(in, r, [i \in Instances |-> 0])
<1>1. \A p \in 1..Len(r) : r[p] \in Instances
  BY DEF Once, Known
<1>. QED BY <1>1 DEF InTurn

(* Nothing is registered, known or watched. *)
LEMMA ServiceInitInv == ASSUME Service!Init PROVE ServiceInv
<1>1. WatchersInv
  <2>1. registered = <<>> /\ handle = 0 /\ loading = FALSE
        /\ watcher = [w \in 1..MaxWatchers |-> [state |-> "new", index |-> 0]]
    BY Zenon DEF Service!Init, Service!WatcherIds
  <2>2. registered \in Seq(Changes) /\ Len(registered) = 0
    BY <2>1
  <2>3. watcher \in [1..MaxWatchers -> [state : States, index : Nat]] /\ \A w \in 1..MaxWatchers : watcher[w].index = 0
    BY <2>1 DEF States
  <2>4. handle \in 0..MaxWatchers /\ \A w \in 1..MaxWatchers : watcher[w].index <= Len(registered)
    BY <2>1, <2>2, <2>3, ServicesAssumption
  <2>5. loading \in BOOLEAN /\ ~loading
    BY <2>1
  <2>. QED BY <2>2, <2>3, <2>4, <2>5, Zenon DEF WatchersInv
<1>2. FollowsInv
  <2>1. \A w \in 1..MaxWatchers : handle # w
    BY DEF Service!Init
  <2>. QED BY <2>1 DEF FollowsInv, Alone
<1>3. Known(inst) = {}
  BY DEF Known, Service!Init
<1>4. Once(<<>>, {})
  BY DEF Once
<1>5. InTurn(inst, rot, since)
  <2>1. inst = [i \in Instances |-> None] /\ since = [i \in Instances |-> 0] /\ rot = <<>>
    BY DEF Service!Init
  <2>2. inst \in [Instances -> InstanceStates]
    BY <2>1 DEF InstanceStates
  <2>3. Once(rot, Known(inst))
    BY <1>3, <1>4, <2>1
  <2>. QED BY <2>1, <2>2, <2>3, ResetInTurn
<1>. QED BY <1>1, <1>2, <1>5 DEF ServiceInv

(* A full sync of reg. *)
LEMMA FullSyncKnows ==
  ASSUME NEW reg \in [Instances -> {None, "serving", "draining"}], NEW delay \in BOOLEAN,
         inst \in [Instances -> InstanceStates], Service!FullSync(reg, delay)
  PROVE  /\ inst' \in [Instances -> InstanceStates]
         /\ Agrees(inst', reg)
         /\ Once(rot', Known(inst'))
<1>1. inst' = [i \in Instances |-> IF reg[i] = None THEN None
         ELSE [draining |-> reg[i] = "draining", visible |-> IF inst[i] = None THEN ~delay ELSE inst[i].visible]]
  BY DEF Service!FullSync
<1>2. ASSUME NEW i \in Instances
      PROVE  IF reg[i] = None THEN inst'[i] = None
             ELSE inst'[i] \in [draining : BOOLEAN, visible : BOOLEAN] /\ inst'[i].draining = (reg[i] = "draining")
  BY <1>1 DEF InstanceStates
<1>3. inst' \in [Instances -> InstanceStates] /\ Agrees(inst', reg)
  <2>1. inst' = [i \in Instances |-> inst'[i]]
    BY <1>1
  <2>2. \A i \in Instances : inst'[i] \in InstanceStates
    BY <1>2 DEF InstanceStates
  <2>3. Agrees(inst', reg)
    BY <1>2, ServicesAssumption DEF Agrees
  <2>. QED BY <2>1, <2>2, <2>3
<1>4. PICK K : K = {i \in Instances : reg[i] # None} /\ K = Known(inst') /\ IsFiniteSet(K)
  <2>1. {i \in Instances : reg[i] # None} = Known(inst')
    BY <1>2, ServicesAssumption DEF Known
  <2>2. IsFiniteSet({i \in Instances : reg[i] # None})
    BY ServicesAssumption, FS_Subset
  <2>. QED BY <2>1, <2>2
<1>5. Service!Cardinality(K) = Cardinality(K)
  BY Zenon DEF Service!Cardinality, Cardinality
<1>6. rot' \in Service!SetToSeqs(K)
  BY <1>4 DEF Service!FullSync
<1>7. rot' \in [1..Cardinality(K) -> K] /\ \A a, b \in 1..Cardinality(K) : a # b => rot'[a] # rot'[b]
  BY <1>5, <1>6 DEF Service!SetToSeqs
<1>8. Once(rot', K)
  <2>1. PICK r : r = rot'
    OBVIOUS
  <2>. QED BY <1>4, <1>7, <2>1, OnceOfInjection
<1>. QED BY <1>3, <1>4, <1>8

(* A step that changes the list and starts the count anew, or neither. *)
LEMMA SameWatchers ==
  ASSUME watcher' = watcher, handle' = handle
  PROVE  \A w : Alone(w)' <=> Alone(w)
BY DEF Alone, Service!Running

(* An instance is registered, drains or leaves: only the log of changes    *)
(* grows.                                                                  *)
LEMMA RegisterKeeps ==
  ASSUME ServiceInv, NEW i \in Instances, NEW r \in Service!Registrations, Service!Register(i, r)
  PROVE  ServiceInv'
<1>1. PICK e \in Changes : registered' = Append(registered, e)
  BY DEF Service!Register, Service!Registrations, Changes
<1>2. UNCHANGED <<watcher, handle, loading, inst, rot, since>>
  BY DEF Service!Register
<1>3. registered \in Seq(Changes) /\ watcher \in [1..MaxWatchers -> [state : States, index : Nat]]
      /\ \A w \in 1..MaxWatchers : watcher[w].index \in Nat /\ watcher[w].index <= Len(registered)
  BY DEF ServiceInv, WatchersInv
<1>4. registered' \in Seq(Changes) /\ Len(registered') = Len(registered) + 1
  BY <1>1, <1>3
<1>5. WatchersInv'
  <2>1. \A w \in 1..MaxWatchers : watcher[w].index <= Len(registered')
    BY <1>3, <1>4
  <2>. QED BY <1>2, <1>4, <2>1 DEF ServiceInv, WatchersInv
<1>6. FollowsInv'
  <2>1. \A w \in 1..MaxWatchers : LogState(registered', watcher[w].index) = LogState(registered, watcher[w].index)
    BY <1>1, <1>3, LogStateAppend
  <2>2. ASSUME NEW w \in 1..MaxWatchers, Alone(w)' PROVE Agrees(inst', LogState(registered', watcher'[w].index))
    <3>1. Agrees(inst, LogState(registered, watcher[w].index))
      BY <1>2, <2>2, SameWatchers DEF ServiceInv, FollowsInv
    <3>. QED BY <1>2, <2>1, <3>1
  <2>. QED BY <2>2 DEF FollowsInv
<1>. QED BY <1>2, <1>5, <1>6 DEF ServiceInv

(* What is known of one instance changes: it is added or merged. *)
LEMMA AddInstanceKnows ==
  ASSUME NEW in \in [Instances -> InstanceStates], inst = in, Once(rot, Known(in)),
         NEW i \in Instances, NEW is \in {"serving", "draining"}, NEW delay \in BOOLEAN,
         Service!AddInstance(i, is, delay)
  PROVE  /\ inst' \in [Instances -> InstanceStates]
         /\ \A j \in Instances : j # i => inst'[j] = in[j]
         /\ inst'[i] # None /\ inst'[i].draining = (is = "draining")
         /\ Once(rot', Known(inst'))
<1>1. CASE inst[i] = None
  <2>0. PICK q : q = [draining |-> is = "draining", visible |-> ~delay]
    OBVIOUS
  <2>1. inst' = [in EXCEPT ![i] = q] /\ q.draining = (is = "draining") /\ q \in [draining : BOOLEAN, visible : BOOLEAN]
    <3>1. q.draining = (is = "draining") /\ q \in [draining : BOOLEAN, visible : BOOLEAN]
      BY <2>0
    <3>2. inst' = [in EXCEPT ![i] = q]
      BY <1>1, <2>0, Zenon DEF Service!AddInstance
    <3>. QED BY <3>1, <3>2
  <2>2. inst' \in [Instances -> InstanceStates] /\ inst'[i] = q /\ q # None /\ \A j \in Instances : j # i => inst'[j] = in[j]
    BY <2>1, ServicesAssumption DEF InstanceStates
  <2>3. Known(inst') = Known(in) \cup {i} /\ i \notin Known(in)
    BY <1>1, <2>2 DEF Known
  <2>4. PICK n \in 0..Len(rot) : rot' = Service!InsertAt(rot, n + 1, i)
    BY <1>1 DEF Service!AddInstance
  <2>5. Len(rot) \in Nat /\ (n + 1) - 1 = n
    BY OnceCounts
  <2>6. rot' = SubSeq(rot, 1, n) \o <<i>> \o SubSeq(rot, n + 1, Len(rot))
    BY <2>4, <2>5 DEF Service!InsertAt
  <2>7. PICK r : r = rot
    OBVIOUS
  <2>8. Once(SubSeq(r, 1, n) \o <<i>> \o SubSeq(r, n + 1, Len(r)), Known(in) \cup {i})
    BY <2>3, <2>4, <2>7, OnceInserted
  <2>. QED BY <2>1, <2>2, <2>3, <2>6, <2>7, <2>8
<1>2. CASE inst[i] # None
  <2>1. inst' = [inst EXCEPT ![i].draining = (is = "draining")] /\ rot' = rot
    BY <1>2 DEF Service!AddInstance
  <2>2. in[i] \in [draining : BOOLEAN, visible : BOOLEAN]
    BY <1>2 DEF InstanceStates
  <2>3. PICK q : q = [in[i] EXCEPT !.draining = (is = "draining")]
    OBVIOUS
  <2>4. q \in [draining : BOOLEAN, visible : BOOLEAN] /\ q.draining = (is = "draining")
    BY <2>2, <2>3
  <2>5. inst' = [in EXCEPT ![i] = q]
    BY <2>1, <2>3
  <2>6. inst' \in [Instances -> InstanceStates] /\ inst'[i] = q /\ q # None /\ \A j \in Instances : j # i => inst'[j] = in[j]
    BY <2>4, <2>5, ServicesAssumption DEF InstanceStates
  <2>7. Known(inst') = Known(in)
    BY <1>2, <2>6 DEF Known
  <2>. QED BY <2>1, <2>4, <2>6, <2>7
<1>. QED BY <1>1, <1>2

(* ... or it is removed, known or not. *)
LEMMA RemoveInstanceKnows ==
  ASSUME NEW in \in [Instances -> InstanceStates], inst = in, Once(rot, Known(in)),
         NEW i \in Instances, Service!RemoveInstance(i)
  PROVE  /\ inst' \in [Instances -> InstanceStates]
         /\ \A j \in Instances : j # i => inst'[j] = in[j]
         /\ inst'[i] = None
         /\ Once(rot', Known(inst'))
<1>1. inst' = [in EXCEPT ![i] = None]
  BY DEF Service!RemoveInstance
<1>2. inst' \in [Instances -> InstanceStates] /\ inst'[i] = None /\ \A j \in Instances : j # i => inst'[j] = in[j]
  BY <1>1 DEF InstanceStates
<1>3. Known(inst') = Known(in) \ {i}
  BY <1>2 DEF Known
<1>4. PICK r : r = rot
  OBVIOUS
<1>5. PICK m \in Nat : m = Len(r)
  BY <1>4, OnceCounts
<1>6. rot' = Service!RemoveFirst(r, i)
  BY <1>4 DEF Service!RemoveInstance
<1>7. CASE \E n \in 1..Len(r) : r[n] = i
  <2>1. PICK n \in 1..Len(r) : r[n] = i
    BY <1>7
  <2>2. {k \in 1..Len(r) : r[k] = i} = {n}
    BY <1>4, <2>1 DEF Once
  <2>3. Service!SelectInSeq(r, LAMBDA v : v = i) = Service!Min({k \in 1..Len(r) : r[k] = i})
    BY <2>2 DEF Service!SelectInSeq
  <2>4. Service!Min({n}) = n
    <3>1. n <= n
      BY <1>5
    <3>. QED BY <3>1 DEF Service!Min
  <2>5. rot' = Service!RemoveAt(r, n)
    BY <1>6, <1>7, <2>2, <2>3, <2>4 DEF Service!RemoveFirst
  <2>6. rot' = SubSeq(r, 1, n - 1) \o SubSeq(r, n + 1, Len(r))
    BY <2>5 DEF Service!RemoveAt
  <2>7. Once(SubSeq(r, 1, n - 1) \o SubSeq(r, n + 1, Len(r)), Known(in) \ {r[n]})
    BY <1>4, OnceRemoved
  <2>. QED BY <1>2, <1>3, <2>1, <2>6, <2>7
<1>8. CASE ~\E n \in 1..Len(r) : r[n] = i
  <2>1. rot' = r
    BY <1>6, <1>8 DEF Service!RemoveFirst
  <2>2. i \notin Known(in)
    BY <1>4, <1>8 DEF Once
  <2>. QED BY <1>2, <1>3, <1>4, <2>1, <2>2
<1>. QED BY <1>7, <1>8
(* A watcher that is its process's only one handles the next change. *)
LEMMA WatchAgrees ==
  ASSUME NEW in \in [Instances -> InstanceStates], NEW new, NEW l \in Seq(Changes), NEW n \in Nat, n < Len(l),
         NEW e, e = l[n + 1], Agrees(in, LogState(l, n)),
         \A j \in Instances : j # e.id => new[j] = in[j],
         IF e.is = None THEN new[e.id] = None ELSE new[e.id] # None /\ new[e.id].draining = (e.is = "draining")
  PROVE  Agrees(new, LogState(l, n + 1))
<1>1. LogState(l, n + 1) = [LogState(l, n) EXCEPT ![e.id] = e.is]
  BY LogStateNext
<1>2. PICK f : f = LogState(l, n)
  OBVIOUS
<1>3. f \in [Instances -> {None, "serving", "draining"}]
  BY <1>2, LogStateType
<1>4. PICK g : g = [f EXCEPT ![e.id] = e.is]
  OBVIOUS
<1>5. e.id \in Instances
  <2>1. n + 1 \in 1..Len(l)
    OBVIOUS
  <2>2. e \in Changes
    BY <2>1
  <2>. QED BY <2>2 DEF Changes
<1>6. \A j \in Instances : g[j] = IF j = e.id THEN e.is ELSE f[j]
  BY <1>3, <1>4, <1>5
<1>7. Agrees(in, f)
  BY <1>2
<1>8. Agrees(new, g)
  BY <1>5, <1>6, <1>7 DEF Agrees
<1>. QED BY <1>1, <1>2, <1>4, <1>8

(* A watcher handles one change of an instance (_watch). *)
LEMMA ServiceWatchKeeps ==
  ASSUME ServiceInv, NEW w \in 1..MaxWatchers, Service!Watch(w)
  PROVE  ServiceInv'
<1>1. /\ registered \in Seq(Changes) /\ watcher \in [1..MaxWatchers -> [state : States, index : Nat]]
      /\ \A x \in 1..MaxWatchers : watcher[x].index <= Len(registered)
      /\ inst \in [Instances -> InstanceStates] /\ Once(rot, Known(inst))
  BY DEF ServiceInv, WatchersInv, InTurn
<1>2. PICK n \in Nat : n = watcher[w].index /\ n < Len(registered)
  BY <1>1 DEF Service!Watch
<1>3. PICK e : e = registered[n + 1]
  OBVIOUS
<1>4. e \in Changes /\ e.id \in Instances /\ e.is \in {None, "serving", "draining"}
  <2>1. n + 1 \in 1..Len(registered)
    BY <1>1, <1>2
  <2>2. e \in Changes
    BY <1>1, <1>3, <2>1
  <2>. QED BY <2>2 DEF Changes
<1>5. IF e.is = None THEN Service!RemoveInstance(e.id) ELSE Service!AddInstance(e.id, e.is, TRUE)
  BY <1>2, <1>3, Zenon DEF Service!Watch
<1>6. /\ inst' \in [Instances -> InstanceStates] /\ Once(rot', Known(inst'))
      /\ \A j \in Instances : j # e.id => inst'[j] = inst[j]
      /\ IF e.is = None THEN inst'[e.id] = None ELSE inst'[e.id] # None /\ inst'[e.id].draining = (e.is = "draining")
  <2>1. PICK in \in [Instances -> InstanceStates] : in = inst /\ Once(rot, Known(in))
    BY <1>1
  <2>2. CASE e.is = None
    <3>1. Service!RemoveInstance(e.id)
      BY <1>5, <2>2
    <3>. QED BY <1>4, <2>1, <2>2, <3>1, RemoveInstanceKnows
  <2>3. CASE e.is # None
    <3>1. Service!AddInstance(e.id, e.is, TRUE) /\ e.is \in {"serving", "draining"}
      BY <1>4, <1>5, <2>3
    <3>. QED BY <1>4, <2>1, <2>3, <3>1, AddInstanceKnows
  <2>. QED BY <2>2, <2>3
<1>7. since' = [i \in Instances |-> 0] /\ UNCHANGED <<registered, handle, loading>>
      /\ watcher' = [watcher EXCEPT ![w].index = @ + 1]
  BY DEF Service!Watch, Service!Reset
<1>8. /\ watcher' \in [1..MaxWatchers -> [state : States, index : Nat]]
      /\ \A x \in 1..MaxWatchers : watcher'[x].state = watcher[x].state
      /\ \A x \in 1..MaxWatchers : watcher'[x].index = IF x = w THEN n + 1 ELSE watcher[x].index
  BY <1>1, <1>2, <1>7
<1>9. WatchersInv'
  <2>1. \A x \in 1..MaxWatchers : watcher'[x].index <= Len(registered)
    BY <1>1, <1>2, <1>8
  <2>. QED BY <1>7, <1>8, <2>1 DEF ServiceInv, WatchersInv
<1>10. InTurn(inst', rot', since')
  BY <1>6, <1>7, ResetInTurn
<1>11. FollowsInv'
  <2>1. Service!Running' = Service!Running /\ w \in Service!Running
    BY <1>8 DEF Service!Running, Service!WatcherIds, Service!Watch
  <2>2. ASSUME NEW x \in 1..MaxWatchers, Alone(x)' PROVE Agrees(inst', LogState(registered', watcher'[x].index))
    <3>1. Alone(x) /\ x = w
      BY <1>7, <2>1, <2>2 DEF Alone
    <3>2. Agrees(inst, LogState(registered, n))
      BY <1>2, <3>1 DEF ServiceInv, FollowsInv
    <3>3. PICK in \in [Instances -> InstanceStates], l \in Seq(Changes) : in = inst /\ l = registered
      BY <1>1
    <3>4. PICK new : new = inst'
      OBVIOUS
    <3>5. Agrees(new, LogState(l, n + 1))
      BY <1>2, <1>3, <1>6, <3>2, <3>3, <3>4, WatchAgrees
    <3>. QED BY <1>7, <1>8, <3>1, <3>3, <3>4, <3>5
  <2>. QED BY <2>2 DEF FollowsInv
<1>. QED BY <1>9, <1>10, <1>11 DEF ServiceInv

(* A watcher that fell behind takes over all that is registered            *)
(* (_handle_full_sync).                                                    *)
LEMMA WatchResyncKeeps ==
  ASSUME ServiceInv, NEW w \in 1..MaxWatchers, Service!WatchResync(w)
  PROVE  ServiceInv'
<1>1. /\ registered \in Seq(Changes) /\ watcher \in [1..MaxWatchers -> [state : States, index : Nat]]
      /\ \A x \in 1..MaxWatchers : watcher[x].index <= Len(registered)
      /\ inst \in [Instances -> InstanceStates] /\ Len(registered) \in Nat
  BY DEF ServiceInv, WatchersInv, InTurn
<1>2. PICK reg : reg = LogState(registered, Len(registered)) /\ reg \in [Instances -> {None, "serving", "draining"}]
  BY <1>1, LogStateType
<1>3. Service!FullSync(reg, TRUE)
  BY <1>2, RegisteredIs DEF Service!WatchResync
<1>4. inst' \in [Instances -> InstanceStates] /\ Agrees(inst', reg) /\ Once(rot', Known(inst'))
  BY <1>1, <1>2, <1>3, FullSyncKnows
<1>5. since' = [i \in Instances |-> 0] /\ UNCHANGED <<registered, handle, loading>>
      /\ watcher' = [watcher EXCEPT ![w].index = Len(registered)]
  BY DEF Service!WatchResync, Service!Reset
<1>6. /\ watcher' \in [1..MaxWatchers -> [state : States, index : Nat]]
      /\ \A x \in 1..MaxWatchers : watcher'[x].state = watcher[x].state
      /\ \A x \in 1..MaxWatchers : watcher'[x].index = IF x = w THEN Len(registered) ELSE watcher[x].index
  BY <1>1, <1>5
<1>7. WatchersInv'
  <2>1. \A x \in 1..MaxWatchers : watcher'[x].index <= Len(registered)
    BY <1>1, <1>6
  <2>. QED BY <1>5, <1>6, <2>1 DEF ServiceInv, WatchersInv
<1>8. InTurn(inst', rot', since')
  BY <1>4, <1>5, ResetInTurn
<1>9. FollowsInv'
  <2>1. Service!Running' = Service!Running /\ w \in Service!Running
    BY <1>6 DEF Service!Running, Service!WatcherIds, Service!WatchResync
  <2>2. ASSUME NEW x \in 1..MaxWatchers, Alone(x)' PROVE Agrees(inst', LogState(registered', watcher'[x].index))
    <3>1. x = w
      BY <2>1, <2>2 DEF Alone
    <3>. QED BY <1>2, <1>4, <1>5, <1>6, <3>1
  <2>. QED BY <2>2 DEF FollowsInv
<1>. QED BY <1>7, <1>8, <1>9 DEF ServiceInv

(* A loading caller finds a watcher that was not started. *)
LEMMA LoadedKeeps == ASSUME ServiceInv, Service!Loaded PROVE ServiceInv'
<1>1. /\ registered \in Seq(Changes) /\ watcher \in [1..MaxWatchers -> [state : States, index : Nat]]
      /\ \A x \in 1..MaxWatchers : watcher[x].index <= Len(registered)
      /\ inst \in [Instances -> InstanceStates] /\ Len(registered) \in Nat
  BY DEF ServiceInv, WatchersInv, InTurn
<1>2. PICK reg : reg = LogState(registered, Len(registered)) /\ reg \in [Instances -> {None, "serving", "draining"}]
  BY <1>1, LogStateType
<1>3. Service!FullSync(reg, FALSE)
  BY <1>2, RegisteredIs DEF Service!Loaded
<1>4. inst' \in [Instances -> InstanceStates] /\ Agrees(inst', reg) /\ Once(rot', Known(inst'))
  BY <1>1, <1>2, <1>3, FullSyncKnows
<1>. DEFINE New(v) == watcher[v].state = "new" /\ \A u \in 1..(v - 1) : watcher[u].state # "new"
<1>5. PICK w : w = (CHOOSE v \in 1..MaxWatchers : New(v))
  OBVIOUS
<1>6. w \in 1..MaxWatchers
  <2>1. PICK T : T = {v \in 1..MaxWatchers : watcher[v].state = "new"}
    OBVIOUS
  <2>2. T # {} /\ T \in SUBSET Nat
    BY <2>1 DEF ServiceInv, WatchersInv, Service!Loaded
  <2>3. PICK v \in T : \A y \in T : v <= y
    BY <2>2, LeastNatural
  <2>4. v \in 1..MaxWatchers /\ New(v)
    BY <2>1, <2>3, ServicesAssumption
  <2>. HIDE DEF New
  <2>. QED BY <1>5, <2>4, Zenon
<1>7. PICK q : q = [state |-> "running", index |-> Len(registered)]
  OBVIOUS
<1>8. watcher' = [watcher EXCEPT ![w] = q] /\ handle' = w
  BY <1>5, <1>7, Zenon DEF Service!Loaded, Service!WatcherIds
<1>9. since' = [i \in Instances |-> 0] /\ registered' = registered /\ loading' = FALSE
  BY DEF Service!Loaded, Service!Reset
<1>. HIDE DEF New
<1>10. q \in [state : States, index : Nat] /\ q.state = "running" /\ q.index = Len(registered)
  BY <1>1, <1>7 DEF States
<1>11. /\ watcher' \in [1..MaxWatchers -> [state : States, index : Nat]]
       /\ \A x \in 1..MaxWatchers : watcher'[x] = IF x = w THEN q ELSE watcher[x]
  BY <1>1, <1>6, <1>8, <1>10
<1>12. WatchersInv'
  <2>1. \A x \in 1..MaxWatchers : watcher'[x].index <= Len(registered)
    BY <1>1, <1>10, <1>11
  <2>2. handle' \in 0..MaxWatchers
    BY <1>6, <1>8, ServicesAssumption
  <2>3. loading' \in BOOLEAN /\ ~loading'
    BY <1>9
  <2>. QED BY <1>1, <1>9, <1>11, <2>1, <2>2, <2>3 DEF WatchersInv
<1>13. InTurn(inst', rot', since')
  BY <1>4, <1>9, ResetInTurn
<1>14. FollowsInv'
  <2>1. ASSUME NEW x \in 1..MaxWatchers, Alone(x)' PROVE Agrees(inst', LogState(registered', watcher'[x].index))
    <3>1. x = w
      BY <1>8, <2>1 DEF Alone
    <3>2. watcher'[x].index = Len(registered)
      BY <1>10, <1>11, <3>1
    <3>. QED BY <1>2, <1>4, <1>9, <3>2
  <2>. QED BY <2>1 DEF FollowsInv
<1>. QED BY <1>12, <1>13, <1>14 DEF ServiceInv

(* Watchers are stopped and end; the process has none then. *)
LEMMA EndingKeeps ==
  ASSUME ServiceInv, NEW w \in 1..MaxWatchers, NEW s \in {"killed", "dead"}, loading = FALSE,
         watcher' = [watcher EXCEPT ![w].state = s], handle' = 0,
         UNCHANGED <<registered, loading, inst, rot, since>>
  PROVE  ServiceInv'
<1>1. watcher \in [1..MaxWatchers -> [state : States, index : Nat]]
  BY DEF ServiceInv, WatchersInv
<1>2. /\ watcher' \in [1..MaxWatchers -> [state : States, index : Nat]]
      /\ \A x \in 1..MaxWatchers : watcher'[x].index = watcher[x].index
  BY <1>1 DEF States
<1>3. WatchersInv'
  <2>1. handle' \in 0..MaxWatchers
    BY ServicesAssumption
  <2>2. loading' \in BOOLEAN /\ ~loading'
    OBVIOUS
  <2>. QED BY <1>2, <2>1, <2>2 DEF ServiceInv, WatchersInv
<1>4. FollowsInv'
  <2>1. \A x \in 1..MaxWatchers : handle' # x
    OBVIOUS
  <2>. QED BY <2>1 DEF FollowsInv, Alone
<1>. QED BY <1>3, <1>4 DEF ServiceInv

(* _ensure_watching starts to load. *)
LEMMA EnsureWatchingKeeps == ASSUME ServiceInv, Service!EnsureWatching PROVE ServiceInv'
<1>1. UNCHANGED <<registered, watcher, handle, inst, rot, since>> /\ loading' = TRUE
      /\ \E w \in 1..MaxWatchers : watcher[w].state = "new"
  BY DEF Service!EnsureWatching, Service!WatcherIds
<1>2. WatchersInv'
  BY <1>1 DEF ServiceInv, WatchersInv
<1>3. FollowsInv'
  BY <1>1, SameWatchers DEF ServiceInv, FollowsInv
<1>. QED BY <1>1, <1>2, <1>3 DEF ServiceInv

(* A known instance becomes selectable. *)
LEMMA BecomeVisibleKeeps ==
  ASSUME ServiceInv, NEW i \in Instances, Service!BecomeVisible(i)
  PROVE  ServiceInv'
<1>1. inst \in [Instances -> InstanceStates] /\ Once(rot, Known(inst))
  BY DEF ServiceInv, InTurn
<1>2. /\ inst' = [inst EXCEPT ![i].visible = TRUE] /\ since' = [j \in Instances |-> 0] /\ inst[i] # None
      /\ UNCHANGED <<registered, watcher, handle, loading, rot>>
  BY DEF Service!BecomeVisible, Service!Reset
<1>3. PICK q : q = [inst[i] EXCEPT !.visible = TRUE]
  OBVIOUS
<1>4. q \in [draining : BOOLEAN, visible : BOOLEAN] /\ q.draining = inst[i].draining /\ q # None
  <2>1. inst[i] \in [draining : BOOLEAN, visible : BOOLEAN]
    BY <1>1, <1>2 DEF InstanceStates
  <2>2. q \in [draining : BOOLEAN, visible : BOOLEAN] /\ q.draining = inst[i].draining
    BY <1>3, <2>1
  <2>. QED BY <2>2, ServicesAssumption
<1>5. inst' = [inst EXCEPT ![i] = q]
  BY <1>2, <1>3
<1>6. /\ inst' \in [Instances -> InstanceStates]
      /\ \A j \in Instances : inst'[j] = IF j = i THEN q ELSE inst[j]
  BY <1>1, <1>4, <1>5 DEF InstanceStates
<1>7. Known(inst') = Known(inst)
  BY <1>2, <1>4, <1>6 DEF Known
<1>8. WatchersInv'
  BY <1>2 DEF ServiceInv, WatchersInv
<1>9. InTurn(inst', rot', since')
  BY <1>1, <1>2, <1>6, <1>7, ResetInTurn
<1>10. FollowsInv'
  <2>1. ASSUME NEW reg, Agrees(inst, reg) PROVE Agrees(inst', reg)
    BY <1>2, <1>4, <1>6, <2>1 DEF Agrees
  <2>2. ASSUME NEW x \in 1..MaxWatchers, Alone(x)' PROVE Agrees(inst', LogState(registered', watcher'[x].index))
    <3>1. Agrees(inst, LogState(registered, watcher[x].index))
      BY <1>2, <2>2, SameWatchers DEF ServiceInv, FollowsInv
    <3>. QED BY <1>2, <2>1, <3>1
  <2>. QED BY <2>2 DEF FollowsInv
<1>. QED BY <1>8, <1>9, <1>10 DEF ServiceInv
(* A selection passes the others over, and takes the turned rotation's     *)
(* first instance if that is eligible.                                     *)
LEMMA SelectKeeps == ASSUME ServiceInv, Service!Select PROVE ServiceInv'
<1>1. /\ inst \in [Instances -> InstanceStates] /\ since \in [Instances -> Nat]
      /\ Once(rot, Known(inst)) /\ (\A p \in 1..Len(rot) : since[rot[p]] < p)
      /\ \A i \in Instances : inst[i] = None => since[i] = 0
  BY DEF ServiceInv, InTurn
<1>2. UNCHANGED <<registered, watcher, handle, loading, inst>> /\ rot # <<>> /\ rot' = Service!Rotate(rot)
  BY DEF Service!Select
<1>3. PICK m \in Nat : m = Len(rot) /\ 1 <= m /\ \A k \in 1..m : rot[k] \in Known(inst)
  <2>1. Len(rot) \in Nat /\ rot \in Seq(Known(inst))
    BY <1>1, OnceCounts DEF Once
  <2>2. Len(rot) # 0
    BY <1>2, <2>1
  <2>. QED BY <2>1, <2>2
<1>4. PICK s, t, K : s = rot /\ t = rot' /\ K = Known(inst)
  OBVIOUS
<1>5. TurnOf(t, K, s, m)
  <2>1. rot' = <<rot[m]>> \o SubSeq(rot, 1, m - 1)
    BY <1>2, <1>3 DEF Service!Rotate
  <2>2. TurnOf(<<s[m]>> \o SubSeq(s, 1, m - 1), K, s, m)
    BY <1>3, <1>4, Turned
  <2>. QED BY <1>4, <2>1, <2>2
<1>6. Once(t, K)
  BY <1>1, <1>3, <1>4, <1>5, OnceTurned
<1>7. t \in Seq(K) /\ Len(t) = m /\ t[1] = s[m] /\ \A k \in 1..(m - 1) : t[k + 1] = s[k]
  BY <1>5 DEF TurnOf
<1>8. PICK got : /\ since' = [i \in Instances |-> IF Service!Eligible(i) /\ i # got THEN since[i] + 1 ELSE 0]
                 /\ Service!FirstEligible(t) # {} => got \in Service!FirstEligible(t)
  BY <1>4 DEF Service!Select
<1>9. Service!Eligible(t[1]) => Service!FirstEligible(t) = {t[1]}
  <2>. SUFFICES ASSUME Service!Eligible(t[1]) PROVE Service!FirstEligible(t) = {t[1]}
    OBVIOUS
  <2>1. \A n \in 1..Len(t) : (Service!Eligible(t[n]) /\ \A k \in 1..(n - 1) : ~Service!Eligible(t[k])) <=> n = 1
    BY <1>3, <1>7
  <2>2. {n \in 1..Len(t) : Service!Eligible(t[n]) /\ \A k \in 1..(n - 1) : ~Service!Eligible(t[k])} = {1}
    BY <1>3, <1>7, <2>1
  <2>. QED BY <2>2 DEF Service!FirstEligible
<1>10. \A p \in 1..m : t[p] \in Instances /\ s[p] \in Instances
  BY <1>3, <1>4, <1>7 DEF Known
<1>11. since' \in [Instances -> Nat] /\ \A i \in Instances : since'[i] <= since[i] + 1
  BY <1>1, <1>8
<1>12. since'[t[1]] = 0
  <2>1. t[1] \in Instances
    BY <1>3, <1>10
  <2>2. CASE Service!Eligible(t[1])
    <3>1. got = t[1]
      BY <1>8, <1>9, <2>2
    <3>. QED BY <1>8, <2>1, <3>1
  <2>3. CASE ~Service!Eligible(t[1])
    BY <1>8, <2>1, <2>3
  <2>. QED BY <2>2, <2>3
<1>13. ASSUME NEW p \in 1..m PROVE since'[t[p]] < p
  <2>1. CASE p = 1
    BY <1>12, <2>1
  <2>2. CASE p # 1
    <3>1. PICK k \in 1..(m - 1) : p = k + 1 /\ k \in 1..m
      <4>1. p - 1 \in 1..(m - 1) /\ p = (p - 1) + 1 /\ p - 1 \in 1..m
        BY <2>2
      <4>. QED BY <4>1
    <3>2. t[p] = s[k] /\ s[k] \in Instances
      BY <1>7, <1>10, <3>1
    <3>3. since[s[k]] < k
      BY <1>1, <1>3, <1>4, <3>1
    <3>4. since[s[k]] \in Nat /\ since'[s[k]] \in Nat /\ since'[s[k]] <= since[s[k]] + 1
      BY <1>1, <1>11, <3>2
    <3>. QED BY <3>1, <3>2, <3>3, <3>4
  <2>. QED BY <2>1, <2>2
<1>14. \A i \in Instances : inst[i] = None => since'[i] = 0
  BY <1>8 DEF Service!Eligible
<1>15. InTurn(inst', rot', since')
  BY <1>1, <1>2, <1>4, <1>6, <1>7, <1>11, <1>13, <1>14 DEF InTurn
<1>16. WatchersInv'
  BY <1>2 DEF ServiceInv, WatchersInv
<1>17. FollowsInv'
  BY <1>2, SameWatchers DEF ServiceInv, FollowsInv
<1>. QED BY <1>15, <1>16, <1>17 DEF ServiceInv

(* Every step of registrations, watchers and selections, and every step    *)
(* that leaves them alone.                                                 *)
LEMMA ServiceNextKeepsInv == ASSUME ServiceInv, [Service!Next]_discoveryVars PROVE ServiceInv'
<1>1. CASE UNCHANGED discoveryVars
  <2>1. UNCHANGED <<registered, watcher, handle, loading, inst, rot, since>>
    BY <1>1 DEF discoveryVars
  <2>2. WatchersInv'
    BY <2>1 DEF ServiceInv, WatchersInv
  <2>3. FollowsInv'
    BY <2>1, SameWatchers DEF ServiceInv, FollowsInv
  <2>. QED BY <2>1, <2>2, <2>3 DEF ServiceInv
<1>2. ASSUME NEW i \in Instances, NEW r \in Service!Registrations, Service!Register(i, r) PROVE ServiceInv'
  BY <1>2, RegisterKeeps
<1>3. ASSUME NEW i \in Instances, Service!BecomeVisible(i) PROVE ServiceInv'
  BY <1>3, BecomeVisibleKeeps
<1>4. ASSUME NEW w \in 1..MaxWatchers, Service!Watch(w) PROVE ServiceInv'
  BY <1>4, ServiceWatchKeeps
<1>5. ASSUME NEW w \in 1..MaxWatchers, Service!WatchResync(w) PROVE ServiceInv'
  BY <1>5, WatchResyncKeeps
<1>6. ASSUME NEW w \in 1..MaxWatchers, Service!Exit(w) PROVE ServiceInv'
  <2>1. loading = FALSE
    BY <1>6 DEF ServiceInv, WatchersInv, Service!Exit
  <2>2. /\ watcher' = [watcher EXCEPT ![w].state = "dead"] /\ handle' = 0
        /\ UNCHANGED <<registered, loading, inst, rot, since>>
    BY <1>6 DEF Service!Exit
  <2>. QED BY <2>1, <2>2, EndingKeeps
<1>7. ASSUME Service!Stop PROVE ServiceInv'
  <2>1. PICK w \in 1..MaxWatchers : w = handle
    BY <1>7 DEF ServiceInv, WatchersInv, Service!Stop
  <2>2. loading = FALSE
    BY <1>7 DEF ServiceInv, WatchersInv, Service!Stop
  <2>3. /\ watcher' = [watcher EXCEPT ![w].state = "killed"] /\ handle' = 0
        /\ UNCHANGED <<registered, loading, inst, rot, since>>
    BY <1>7, <2>1 DEF Service!Stop
  <2>. QED BY <2>2, <2>3, EndingKeeps
<1>. QED
  BY <1>1, <1>2, <1>3, <1>4, <1>5, <1>6, <1>7, EnsureWatchingKeeps, LoadedKeeps, SelectKeeps
  DEF Service!Next, Service!WatcherIds

(* The invariant gives what is promised of the instances. *)
LEMMA ServiceInvGives ==
  ASSUME ServiceInv
  PROVE  Service!RotationHoldsInstances /\ Service!KnowsRegistered /\ Service!NoStarvation
<1>1. Once(rot, Known(inst)) /\ since \in [Instances -> Nat] /\ (\A p \in 1..Len(rot) : since[rot[p]] < p)
      /\ \A i \in Instances : inst[i] = None => since[i] = 0
  BY DEF ServiceInv, InTurn
<1>2. \A S : Service!Cardinality(S) = Cardinality(S)
  BY Zenon DEF Service!Cardinality, Cardinality
<1>3. Service!ToSet(rot) = Known(inst) /\ Len(rot) \in Nat
  <2>1. DOMAIN rot = 1..Len(rot) /\ \A p \in 1..Len(rot) : rot[p] \in Known(inst)
    BY <1>1 DEF Once
  <2>2. \A x \in Known(inst) : \E p \in 1..Len(rot) : rot[p] = x
    BY <1>1 DEF Once
  <2>. QED BY <1>1, <2>1, <2>2, OnceCounts DEF Service!ToSet
<1>4. Cardinality(Known(inst)) = Len(rot)
  BY <1>1, OnceCounts
<1>5. Service!RotationHoldsInstances
  BY <1>2, <1>3, <1>4 DEF Service!RotationHoldsInstances, Known
<1>6. Service!KnowsRegistered
  <2>1. ASSUME NEW w \in 1..MaxWatchers, Service!Running = {w}, handle = w, watcher[w].index = Len(registered)
        PROVE  Agrees(inst, Service!Registered(Len(registered)))
    <3>1. Agrees(inst, LogState(registered, watcher[w].index))
      BY <2>1 DEF ServiceInv, FollowsInv, Alone
    <3>. QED BY <2>1, <3>1, RegisteredIs
  <2>2. Service!Running \subseteq 1..MaxWatchers
    BY DEF Service!Running, Service!WatcherIds
  <2>. QED BY <2>1, <2>2, Zenon DEF Service!KnowsRegistered, Agrees
<1>7. Service!NoStarvation
  <2>1. IsFiniteSet(Instances) /\ Known(inst) \subseteq Instances
    BY ServicesAssumption DEF Known
  <2>2. Cardinality(Known(inst)) <= Cardinality(Instances) /\ Cardinality(Instances) \in Nat
    BY <2>1, FS_Subset, FS_CardinalityType
  <2>3. ASSUME NEW i \in Instances PROVE since[i] < Cardinality(Instances)
    <3>1. CASE inst[i] = None
      <4>1. Cardinality(Instances) # 0
        BY <2>1, FS_EmptySet
      <4>. QED BY <1>1, <2>2, <3>1, <4>1
    <3>2. CASE inst[i] # None
      <4>1. PICK p \in 1..Len(rot) : rot[p] = i
        BY <1>1, <3>2 DEF Once, Known
      <4>2. since[i] < p /\ since[i] \in Nat
        BY <1>1, <4>1
      <4>. QED BY <1>3, <1>4, <2>2, <4>2
    <3>. QED BY <3>1, <3>2
  <2>. QED BY <1>2, <2>3 DEF Service!NoStarvation
<1>. QED BY <1>5, <1>6, <1>7

-----------------------------------------------------------------------------
(* A routed call.                                                          *)

Parts == [value : FieldValues, to : Services, try : Nat, ok : BOOLEAN]
Queues == [Services -> Seq(FieldValues)]
Queue == [s \in Services |-> calls[s].values]

(* No value is twice in what is still to be sent (q) and what was sent (z). *)
Spread(q, z) ==
  /\ \A i, j \in 1..Len(z) : i # j => z[i].value # z[j].value
  /\ \A s \in Services : \A i, j \in 1..Len(q[s]) : i # j => q[s][i] # q[s][j]
  /\ \A s, t \in Services : s # t => \A i \in 1..Len(q[s]), j \in 1..Len(q[t]) : q[s][i] # q[t][j]
  /\ \A s \in Services : \A i \in 1..Len(q[s]), j \in 1..Len(z) : q[s][i] # z[j].value

Answered(v, z) == \E i \in 1..Len(z) : z[i].value = v /\ z[i].ok
Waiting(v, q) == \E s \in Services : \E i \in 1..Len(q[s]) : q[s][i] = v
Covered(q, z) == \A v \in FieldValues : Answered(v, z) \/ Waiting(v, q)

CallTypes ==
  /\ routing \in {"chunked", "scalar"} /\ field \in Seq(FieldValues) /\ up \subseteq Services
  /\ failed \in BOOLEAN /\ rpcError \in BOOLEAN /\ tries \in Nat
  /\ calls \in [Services -> [values : Seq(FieldValues), channel : {None} \cup Nat]]
  /\ sent \in Seq(Parts)

(* Channels are numbered, a client's is its own, and closed ones have none. *)
ClientInv ==
  /\ opened \in Nat /\ closed \subseteq 1..opened
  /\ client \in [Services -> {None} \cup 1..opened]
  /\ \A s \in Services : client[s] \notin closed
  /\ \A s, t \in Services : s # t /\ client[s] # None => client[s] # client[t]

Quiet == sent = <<>> /\ \A s \in Services : calls[s].values = <<>>
OutcomeInv ==
  /\ result = "unavailable" => ~rpcError
  /\ result \in {"routing", "unavailable"} /\ ~rpcError => Quiet

ChunkedInv ==
  routing = "chunked" =>
    /\ field = <<>> \/ (Quiet /\ Once(field, FieldValues))
    /\ Spread(Queue, sent)
    /\ result = "sending" /\ ~failed => Covered(Queue, sent)
    /\ result = "ok" => \A v \in FieldValues : Answered(v, sent)

CallInv == CallTypes /\ ClientInv /\ OutcomeInv /\ ChunkedInv

(* The values of a field are listed each once. *)
LEMMA CallSetToSeqOnce ==
  ASSUME NEW S, IsFiniteSet(S)
  PROVE  Once(Call!SetToSeq(S), S) /\ Len(Call!SetToSeq(S)) = Cardinality(S)
<1>1. Call!Cardinality(S) = Cardinality(S)
  BY Zenon DEF Call!Cardinality, Cardinality
<1>2. PICK f \in [1..Cardinality(S) -> S] : Call!IsInjective(f)
  BY OnceExists DEF Call!IsInjective
<1>3. PICK g : g = Call!SetToSeq(S) /\ g \in [1..Cardinality(S) -> S] /\ Call!IsInjective(g)
  BY <1>1, <1>2, Zenon DEF Call!SetToSeq
<1>4. \A a, b \in 1..Cardinality(S) : g[a] = g[b] => a = b
  BY <1>3 DEF Call!IsInjective
<1>5. Once(g, S)
  BY <1>3, <1>4, OnceOfInjection
<1>6. Len(g) = Cardinality(S)
  BY <1>5, OnceCounts
<1>. QED BY <1>3, <1>5, <1>6

(* A service is selected among those that are up. *)
LEMMA SelectedIsUp ==
  ASSUME up \subseteq Services, NEW v, NEW k \in Nat, Call!Selected(v, k) # None
  PROVE  Call!Selected(v, k) \in Services
<1>1. PICK known : known = {n \in (k + 1)..Call!Cardinality(Services) : Call!members(v)[n] \in up}
  OBVIOUS
<1>2. Call!Cardinality(Services) \in Nat
  <2>1. Call!Cardinality(Services) = Cardinality(Services)
    BY Zenon DEF Call!Cardinality, Cardinality
  <2>. QED BY <2>1, ServicesAssumption, FS_CardinalityType
<1>3. Call!Selected(v, k) = IF known = {} THEN None ELSE Call!members(v)[Call!Min(known)]
  BY <1>1, Zenon DEF Call!Selected
<1>4. known \in SUBSET Nat /\ known # {}
  BY <1>1, <1>2, <1>3
<1>5. PICK x \in known : \A y \in known : x <= y
  BY <1>4, LeastNatural
<1>6. Call!Min(known) \in known
  BY <1>5, Zenon DEF Call!Min
<1>. QED BY <1>1, <1>3, <1>4, <1>6

(* A call begins with nothing sent and no channel open. *)
LEMMA CallInitInv == ASSUME Call!Init PROVE CallInv
<1>1. PICK vs : vs = Call!SetToSeq(FieldValues) /\ Once(vs, FieldValues)
  BY CallSetToSeqOnce, ServicesAssumption
<1>2. vs \in Seq(FieldValues) /\ vs[1] \in FieldValues
  <2>1. vs \in Seq(FieldValues) /\ Len(vs) \in Nat
    BY <1>1, OnceCounts DEF Once
  <2>2. PICK x \in FieldValues : TRUE
    BY ServicesAssumption
  <2>3. PICK a \in 1..Len(vs) : vs[a] = x
    BY <1>1 DEF Once
  <2>4. 1 \in 1..Len(vs)
    BY <2>1, <2>3
  <2>. QED BY <2>1, <2>4
<1>3. /\ routing \in {"chunked", "scalar"} /\ field = IF routing = "chunked" THEN vs ELSE <<vs[1]>>
      /\ up \subseteq Services /\ client = [s \in Services |-> None] /\ closed = {} /\ opened = 0
      /\ calls = [s \in Services |-> Call!Idle] /\ failed = FALSE /\ tries = 0 /\ sent = <<>> /\ rpcError = FALSE /\ result = "routing"
  BY <1>1 DEF Call!Init
<1>4. Call!Idle \in [values : Seq(FieldValues), channel : {None} \cup Nat] /\ Call!Idle.values = <<>>
  BY DEF Call!Idle
<1>5. calls \in [Services -> [values : Seq(FieldValues), channel : {None} \cup Nat]] /\ Quiet
  BY <1>3, <1>4 DEF Quiet
<1>6. CallTypes
  <2>1. sent \in Seq(Parts) /\ field \in Seq(FieldValues)
    BY <1>2, <1>3
  <2>2. failed \in BOOLEAN /\ rpcError \in BOOLEAN
    BY <1>3
  <2>. QED BY <1>3, <1>5, <2>1, <2>2 DEF CallTypes
<1>7. ClientInv
  BY <1>3 DEF ClientInv
<1>8. OutcomeInv
  BY <1>3, <1>5 DEF OutcomeInv
<1>9. ChunkedInv
  <2>1. Len(sent) = 0 /\ \A s \in Services : Len(Queue[s]) = 0
    BY <1>3, <1>5 DEF Queue, Quiet
  <2>2. Spread(Queue, sent)
    BY <2>1 DEF Spread
  <2>. QED BY <1>1, <1>3, <1>5, <2>2 DEF ChunkedInv
<1>. QED BY <1>6, <1>7, <1>8, <1>9 DEF CallInv

(* Services without a client get a channel of their own. *)
LEMMA ConnectOpens ==
  ASSUME ClientInv, NEW values, Call!Connect(values), closed' = closed
  PROVE  ClientInv'
<1>. DEFINE N == {s \in Services : values[s] # <<>> /\ client[s] = None}
            index(s) == CHOOSE i \in 1..Call!Cardinality(N) : Call!SetToSeq(N)[i] = s
<1>0. /\ client' = [s \in Services |-> IF s \in N THEN [t \in N |-> opened + index(t)][s] ELSE client[s]]
      /\ opened' = opened + Call!Cardinality(N)
  BY Zenon DEF Call!Connect
<1>1. PICK new : new = N /\ new \subseteq Services
  OBVIOUS
<1>. HIDE DEF N
<1>2. PICK c \in Nat : c = Cardinality(new) /\ IsFiniteSet(new) /\ c = Call!Cardinality(new)
  <2>1. IsFiniteSet(new)
    BY <1>1, ServicesAssumption, FS_Subset
  <2>2. Call!Cardinality(new) = Cardinality(new)
    BY Zenon DEF Call!Cardinality, Cardinality
  <2>. QED BY <2>1, <2>2, FS_CardinalityType
<1>3. PICK o : o = Call!SetToSeq(new) /\ Once(o, new) /\ Len(o) = c
  BY <1>2, CallSetToSeqOnce
<1>. DEFINE at(s) == CHOOSE i \in 1..c : o[i] = s
<1>4. ASSUME NEW s \in new PROVE at(s) \in 1..c /\ o[at(s)] = s
  <2>1. \E i \in 1..c : o[i] = s
    BY <1>3 DEF Once
  <2>. QED BY <2>1, Zenon
<1>5. /\ client' = [s \in Services |-> IF s \in new THEN opened + at(s) ELSE client[s]]
      /\ opened' = opened + c
  <2>1. ASSUME NEW s PROVE index(s) = at(s)
    BY <1>1, <1>2, <1>3
  <2>. HIDE DEF at, index
  <2>. QED BY <1>0, <1>1, <1>2, <2>1
<1>. HIDE DEF at
<1>6. ASSUME NEW s \in Services
      PROVE  /\ s \in new => client'[s] = opened + at(s) /\ at(s) \in 1..c /\ o[at(s)] = s
             /\ s \notin new => client'[s] = client[s]
  BY <1>4, <1>5
<1>7. opened \in Nat /\ closed \subseteq 1..opened /\ client \in [Services -> {None} \cup 1..opened]
  BY DEF ClientInv
<1>8. opened' \in Nat /\ closed' \subseteq 1..opened'
  BY <1>2, <1>5, <1>7
<1>9. client' \in [Services -> {None} \cup 1..opened']
  <2>1. \A s \in Services : client'[s] \in {None} \cup 1..opened'
    BY <1>2, <1>5, <1>6, <1>7
  <2>. QED BY <1>5, <2>1
<1>10. ASSUME NEW s \in Services PROVE client'[s] \notin closed
  <2>1. CASE s \in new
    BY <1>2, <1>6, <1>7, <2>1
  <2>2. CASE s \notin new
    BY <1>6, <2>2 DEF ClientInv
  <2>. QED BY <2>1, <2>2
<1>11. ASSUME NEW s \in Services, NEW t \in Services, s # t, client'[s] # None PROVE client'[s] # client'[t]
  <2>1. CASE s \in new /\ t \in new
    <3>1. at(s) # at(t)
      BY <1>6, <1>11, <2>1
    <3>. QED BY <1>2, <1>6, <1>7, <2>1, <3>1
  <2>2. CASE s \in new /\ t \notin new
    <3>1. client[t] \in {None} \cup 1..opened
      BY <1>7
    <3>. QED BY <1>2, <1>6, <1>7, <2>2, <3>1, ServicesAssumption
  <2>3. CASE s \notin new /\ t \in new
    <3>1. client[s] \in {None} \cup 1..opened
      BY <1>7
    <3>. QED BY <1>2, <1>6, <1>7, <2>3, <3>1, ServicesAssumption
  <2>4. CASE s \notin new /\ t \notin new
    BY <1>6, <1>11, <2>4 DEF ClientInv
  <2>. QED BY <2>1, <2>2, <2>3, <2>4
<1>. QED BY <1>8, <1>9, <1>10, <1>11 DEF ClientInv
(* The parts of one chunk move from the queue of its service to what was   *)
(* sent; if it fails, the rest is dropped.                                 *)
Moved(q, z, s, n, ok, p, y) ==
  /\ Len(y) = Len(z) + n
  /\ \A i \in 1..Len(z) : y[i] = z[i]
  /\ \A i \in 1..n : y[Len(z) + i].value = q[s][i] /\ y[Len(z) + i].ok = ok
  /\ \A t \in Services : t # s => p[t] = q[t]
  /\ ok => Len(p[s]) = Len(q[s]) - n /\ \A i \in 1..(Len(q[s]) - n) : p[s][i] = q[s][n + i]
  /\ ~ok => Len(p[s]) = 0

(* A value that was sent is not sent again. *)
LEMMA MovedSpread ==
  ASSUME NEW q, \A t \in Services : Len(q[t]) \in Nat, NEW z, Len(z) \in Nat, NEW s \in Services,
         NEW n \in 0..Len(q[s]), NEW ok \in BOOLEAN, NEW p, NEW y, Moved(q, z, s, n, ok, p, y), Spread(q, z)
  PROVE  Spread(p, y)
<1>1. PICK m \in Nat : m = Len(z) /\ Len(y) = m + n
  BY DEF Moved
<1>2. PICK l \in Nat : l = Len(q[s]) /\ n <= l
  OBVIOUS
<1>3. ASSUME NEW i \in 1..(m + n)
      PROVE  (i \in 1..m /\ y[i] = z[i]) \/ (i - m \in 1..n /\ i - m \in 1..l /\ y[i].value = q[s][i - m])
  <2>1. CASE i <= m
    BY <1>1, <2>1 DEF Moved
  <2>2. CASE ~(i <= m)
    <3>1. i - m \in 1..n /\ m + (i - m) = i /\ i - m \in 1..l
      BY <1>2, <2>2
    <3>. QED BY <1>1, <3>1 DEF Moved
  <2>. QED BY <2>1, <2>2
<1>4. ASSUME NEW t \in Services, NEW i \in 1..Len(p[t])
      PROVE  \E j \in 1..Len(q[t]) : p[t][i] = q[t][j] /\ j = IF t = s THEN n + i ELSE i
  <2>1. CASE t # s
    BY <2>1 DEF Moved
  <2>2. CASE t = s
    <3>1. ok /\ Len(p[s]) = l - n /\ \A j \in 1..(l - n) : p[s][j] = q[s][n + j]
      BY <1>2, <1>4, <2>2 DEF Moved
    <3>2. i \in 1..(l - n) /\ n + i \in 1..l
      BY <1>2, <1>4, <2>2, <3>1
    <3>. QED BY <1>2, <2>2, <3>1, <3>2
  <2>. QED BY <2>1, <2>2
<1>5. ASSUME NEW i \in 1..(m + n), NEW j \in 1..(m + n), i # j PROVE y[i].value # y[j].value
  <2>1. CASE i \in 1..m /\ j \in 1..m
    BY <1>1, <1>3, <1>5, <2>1 DEF Spread
  <2>2. CASE i \notin 1..m /\ j \in 1..m
    BY <1>1, <1>2, <1>3, <2>2 DEF Spread
  <2>3. CASE i \in 1..m /\ j \notin 1..m
    BY <1>1, <1>2, <1>3, <2>3 DEF Spread
  <2>4. CASE i \notin 1..m /\ j \notin 1..m
    <3>1. i - m # j - m
      BY <1>5
    <3>. QED BY <1>2, <1>3, <2>4, <3>1 DEF Spread
  <2>. QED BY <2>1, <2>2, <2>3, <2>4
<1>6. ASSUME NEW t \in Services, NEW i \in 1..Len(p[t]), NEW j \in 1..Len(p[t]), i # j PROVE p[t][i] # p[t][j]
  <2>1. PICK a \in 1..Len(q[t]) : p[t][i] = q[t][a] /\ a = IF t = s THEN n + i ELSE i
    BY <1>4
  <2>2. PICK b \in 1..Len(q[t]) : p[t][j] = q[t][b] /\ b = IF t = s THEN n + j ELSE j
    BY <1>4
  <2>3. a # b
    BY <1>6, <2>1, <2>2
  <2>. QED BY <2>1, <2>2, <2>3 DEF Spread
<1>7. ASSUME NEW t \in Services, NEW u \in Services, t # u, NEW i \in 1..Len(p[t]), NEW j \in 1..Len(p[u])
      PROVE  p[t][i] # p[u][j]
  <2>1. PICK a \in 1..Len(q[t]) : p[t][i] = q[t][a]
    BY <1>4
  <2>2. PICK b \in 1..Len(q[u]) : p[u][j] = q[u][b]
    BY <1>4
  <2>. QED BY <1>7, <2>1, <2>2 DEF Spread
<1>8. ASSUME NEW t \in Services, NEW i \in 1..Len(p[t]), NEW j \in 1..(m + n) PROVE p[t][i] # y[j].value
  <2>1. PICK a \in 1..Len(q[t]) : p[t][i] = q[t][a] /\ a = IF t = s THEN n + i ELSE i
    BY <1>4
  <2>2. CASE j \in 1..m /\ y[j] = z[j]
    BY <1>1, <2>1, <2>2 DEF Spread
  <2>3. CASE j - m \in 1..n /\ j - m \in 1..l /\ y[j].value = q[s][j - m]
    <3>1. CASE t = s
      <4>1. a # j - m
        BY <2>1, <2>3, <3>1
      <4>. QED BY <1>2, <2>1, <2>3, <3>1, <4>1 DEF Spread
    <3>2. CASE t # s
      BY <1>2, <2>1, <2>3, <3>2 DEF Spread
    <3>. QED BY <3>1, <3>2
  <2>. QED BY <1>3, <2>2, <2>3
<1>9. /\ \A i, j \in 1..Len(y) : i # j => y[i].value # y[j].value
      /\ \A t \in Services : \A i \in 1..Len(p[t]), j \in 1..Len(y) : p[t][i] # y[j].value
  BY <1>1, <1>5, <1>8
<1>. QED BY <1>6, <1>7, <1>9 DEF Spread

(* No value is lost between the queues and what was sent. *)
LEMMA MovedCovers ==
  ASSUME NEW q, \A t \in Services : Len(q[t]) \in Nat, NEW z, Len(z) \in Nat, NEW s \in Services,
         NEW n \in 0..Len(q[s]), NEW ok \in BOOLEAN, NEW p, NEW y, Moved(q, z, s, n, ok, p, y)
  PROVE  /\ \A v : Answered(v, z) => Answered(v, y)
         /\ ok /\ Covered(q, z) => Covered(p, y)
<1>1. PICK m \in Nat : m = Len(z) /\ Len(y) = m + n
  BY DEF Moved
<1>2. ASSUME NEW v, Answered(v, z) PROVE Answered(v, y)
  <2>1. PICK i \in 1..m : z[i].value = v /\ z[i].ok
    BY <1>1, <1>2 DEF Answered
  <2>2. i \in 1..Len(y) /\ y[i] = z[i]
    BY <1>1 DEF Moved
  <2>. QED BY <2>1, <2>2 DEF Answered
<1>3. ASSUME ok, Covered(q, z), NEW v \in FieldValues PROVE Answered(v, y) \/ Waiting(v, p)
  <2>1. CASE Answered(v, z)
    BY <1>2, <2>1
  <2>2. ASSUME NEW t \in Services, NEW i \in 1..Len(q[t]), q[t][i] = v PROVE Answered(v, y) \/ Waiting(v, p)
    <3>1. CASE t # s
      <4>1. p[t] = q[t]
        BY <3>1 DEF Moved
      <4>. QED BY <2>2, <4>1 DEF Waiting
    <3>2. CASE t = s /\ i <= n
      <4>1. i \in 1..n /\ m + i \in 1..Len(y)
        BY <1>1, <2>2, <3>2
      <4>2. y[m + i].value = q[s][i] /\ y[m + i].ok = ok
        BY <1>1, <4>1 DEF Moved
      <4>. QED BY <1>3, <2>2, <3>2, <4>1, <4>2 DEF Answered
    <3>3. CASE t = s /\ ~(i <= n)
      <4>1. i - n \in 1..(Len(q[s]) - n) /\ n + (i - n) = i
        BY <2>2, <3>3
      <4>2. i - n \in 1..Len(p[s]) /\ p[s][i - n] = q[s][i]
        BY <1>3, <4>1 DEF Moved
      <4>. QED BY <2>2, <3>3, <4>2 DEF Waiting
    <3>. QED BY <3>1, <3>2, <3>3
  <2>. QED BY <1>3, <2>1, <2>2 DEF Covered, Waiting
<1>. QED BY <1>2, <1>3 DEF Covered
(* What a chunk does. *)
LEMMA SendMoves ==
  ASSUME CallTypes, NEW s \in Services, NEW ok \in BOOLEAN, Call!Send(s, ok)
  PROVE  /\ calls' \in [Services -> [values : Seq(FieldValues), channel : {None} \cup Nat]]
         /\ sent' \in Seq(Parts)
         /\ \E n \in 0..Len(Queue[s]) : Moved(Queue, sent, s, n, ok, Queue', sent')
<1>1. /\ calls \in [Services -> [values : Seq(FieldValues), channel : {None} \cup Nat]]
      /\ sent \in Seq(Parts) /\ tries \in Nat
  BY DEF CallTypes
<1>2. PICK vs \in Seq(FieldValues) : vs = calls[s].values
  BY <1>1
<1>3. PICK l \in Nat : l = Len(vs) /\ \A k \in 1..l : vs[k] \in FieldValues
  BY <1>2
<1>4. PICK n \in 0..l : n = IF l < ChunkSize THEN l ELSE ChunkSize
  BY <1>3, ServicesAssumption
<1>5. PICK now, rest : now = SubSeq(vs, 1, n) /\ rest = SubSeq(vs, n + 1, l)
  OBVIOUS
<1>6. Call!Chunk(s) = [now |-> now, rest |-> rest]
  BY <1>2, <1>3, <1>4, <1>5 DEF Call!Chunk
<1>7. Call!Chunk(s).now = now /\ Call!Chunk(s).rest = rest
  BY <1>6
<1>8. now \in Seq(FieldValues) /\ Len(now) = n /\ \A k \in 1..n : now[k] = vs[k]
  <2>1. \A k \in 1..n : vs[k] \in FieldValues
    BY <1>3
  <2>2. FirstOf(now, FieldValues, vs, n)
    BY <1>4, <1>5, <2>1, First
  <2>. QED BY <2>2 DEF FirstOf
<1>9. PICK r \in Nat : n + r = l
  <2>1. l - n \in Nat /\ n + (l - n) = l
    BY <1>4
  <2>. QED BY <2>1
<1>10. rest \in Seq(FieldValues) /\ Len(rest) = r /\ \A k \in 1..r : rest[k] = vs[n + k]
  <2>1. \A k \in 1..l : k > n => vs[k] \in FieldValues
    BY <1>3
  <2>2. RestOf(rest, FieldValues, vs, n, r)
    <3>1. n \in Nat /\ n <= l
      BY <1>4
    <3>. QED BY <1>5, <1>9, <2>1, <3>1, Rest
  <2>. QED BY <2>2 DEF RestOf
<1>11. PICK b : b = [i \in 1..Len(now) |-> [value |-> now[i], to |-> s, try |-> tries, ok |-> ok]]
  OBVIOUS
<1>12. b \in Seq(Parts) /\ Len(b) = n /\ \A i \in 1..n : b[i].value = vs[i] /\ b[i].ok = ok
  <2>1. \A i \in 1..n : now[i] \in FieldValues
    BY <1>8
  <2>2. b \in [1..n -> Parts] /\ \A i \in 1..n : b[i].value = now[i] /\ b[i].ok = ok
    BY <1>1, <1>8, <1>11, <2>1 DEF Parts
  <2>. QED BY <1>4, <1>8, <2>2
<1>13. PICK z, y : z = sent /\ y = sent'
  OBVIOUS
<1>14. y = z \o b
  BY <1>7, <1>11, <1>13, Zenon DEF Call!Send
<1>15. PICK m \in Nat : m = Len(z) /\ z \in Seq(Parts)
  BY <1>1, <1>13
<1>16. JoinOf(y, Parts, z, m, b, n)
  <2>1. n \in Nat /\ Len(z) = m /\ z \in Seq(Parts)
    BY <1>4, <1>15
  <2>2. JoinOf(z \o b, Parts, z, m, b, n)
    BY <1>12, <2>1, Joined
  <2>. QED BY <1>14, <2>2
<1>17. y \in Seq(Parts) /\ Len(y) = m + n /\ (\A k \in 1..m : y[k] = z[k]) /\ \A k \in 1..n : y[m + k] = b[k]
  BY <1>16 DEF JoinOf
<1>18. PICK new : new = IF ok /\ rest # <<>> THEN [calls[s] EXCEPT !.values = rest] ELSE Call!Idle
  OBVIOUS
<1>19. calls' = [calls EXCEPT ![s] = new]
  BY <1>7, <1>18, Zenon DEF Call!Send
<1>20. /\ new \in [values : Seq(FieldValues), channel : {None} \cup Nat]
       /\ new.values = IF ok THEN rest ELSE <<>>
  <2>1. calls[s] \in [values : Seq(FieldValues), channel : {None} \cup Nat]
    BY <1>1
  <2>2. CASE ok /\ rest # <<>>
    <3>1. new = [calls[s] EXCEPT !.values = rest]
      BY <1>18, <2>2
    <3>. QED BY <1>10, <2>1, <2>2, <3>1
  <2>3. CASE ~(ok /\ rest # <<>>)
    <3>1. new = Call!Idle
      BY <1>18, <2>3
    <3>. QED BY <1>10, <2>3, <3>1 DEF Call!Idle
  <2>. QED BY <2>2, <2>3
<1>21. /\ calls' \in [Services -> [values : Seq(FieldValues), channel : {None} \cup Nat]]
       /\ \A t \in Services : calls'[t] = IF t = s THEN new ELSE calls[t]
  BY <1>1, <1>19, <1>20
<1>22. PICK q, p : q = Queue /\ p = Queue'
  OBVIOUS
<1>23. q[s] = vs /\ p[s] = (IF ok THEN rest ELSE <<>>) /\ \A t \in Services : t # s => p[t] = q[t]
  BY <1>2, <1>20, <1>21, <1>22 DEF Queue
<1>24. Moved(q, z, s, n, ok, p, y)
  <2>1. \A i \in 1..n : y[m + i].value = q[s][i] /\ y[m + i].ok = ok
    BY <1>12, <1>17, <1>23
  <2>2. ok => Len(p[s]) = l - n /\ \A i \in 1..(l - n) : p[s][i] = q[s][n + i]
    <3>1. l - n = r
      BY <1>9, <1>4
    <3>. QED BY <1>10, <1>23, <3>1
  <2>3. ~ok => Len(p[s]) = 0
    BY <1>23
  <2>. QED BY <1>3, <1>15, <1>17, <1>23, <2>1, <2>2, <2>3 DEF Moved
<1>. QED BY <1>3, <1>13, <1>17, <1>21, <1>22, <1>23, <1>24

(* One chunk is sent to its service, and succeeds or fails. *)
LEMMA SendKeeps ==
  ASSUME CallInv, NEW s \in Services, NEW ok \in BOOLEAN, Call!Send(s, ok)
  PROVE  CallInv'
<1>1. UNCHANGED <<routing, field, up, client, closed, opened, tries, rpcError, result>>
      /\ failed' = (failed \/ ~ok) /\ calls[s].values # <<>>
  BY DEF Call!Send
<1>2. CallTypes /\ ClientInv /\ OutcomeInv /\ ChunkedInv
  BY DEF CallInv
<1>3. /\ calls' \in [Services -> [values : Seq(FieldValues), channel : {None} \cup Nat]]
      /\ sent' \in Seq(Parts)
      /\ \E n \in 0..Len(Queue[s]) : Moved(Queue, sent, s, n, ok, Queue', sent')
  BY <1>2, SendMoves
<1>4. CallTypes'
  <2>1. failed' \in BOOLEAN
    BY <1>1
  <2>. QED BY <1>1, <1>2, <1>3, <2>1 DEF CallTypes
<1>5. ClientInv'
  BY <1>1, <1>2 DEF ClientInv
<1>6. ~Quiet
  BY <1>1 DEF Quiet
<1>7. OutcomeInv'
  BY <1>1, <1>2, <1>6 DEF OutcomeInv
<1>8. ChunkedInv'
  <2>. SUFFICES ASSUME routing' = "chunked"
                PROVE  /\ field' = <<>>
                       /\ Spread(Queue', sent')
                       /\ result' = "sending" /\ ~failed' => Covered(Queue', sent')
                       /\ result' = "ok" => \A v \in FieldValues : Answered(v, sent')
    BY DEF ChunkedInv
  <2>1. routing = "chunked"
    BY <1>1
  <2>2. /\ field = <<>> /\ Spread(Queue, sent)
        /\ result = "sending" /\ ~failed => Covered(Queue, sent)
        /\ result = "ok" => \A v \in FieldValues : Answered(v, sent)
    BY <1>2, <1>6, <2>1 DEF ChunkedInv
  <2>3. PICK q, z, p, y : q = Queue /\ z = sent /\ p = Queue' /\ y = sent'
    OBVIOUS
  <2>4. Len(z) \in Nat /\ \A t \in Services : Len(q[t]) \in Nat
    BY <1>2, <2>3 DEF CallTypes, Queue
  <2>5. PICK n \in 0..Len(q[s]) : Moved(q, z, s, n, ok, p, y)
    BY <1>3, <2>3
  <2>6. Spread(p, y)
    BY <2>2, <2>3, <2>4, <2>5, MovedSpread
  <2>7. (\A v : Answered(v, z) => Answered(v, y)) /\ (ok /\ Covered(q, z) => Covered(p, y))
    BY <2>4, <2>5, MovedCovers
  <2>8. ~failed' => ~failed /\ ok
    BY <1>1
  <2>. QED BY <1>1, <2>2, <2>3, <2>6, <2>7, <2>8
<1>. QED BY <1>4, <1>5, <1>7, <1>8 DEF CallInv
(* The requests of a call are the values of each service. *)
LEMMA ConnectCalls ==
  ASSUME ClientInv, NEW values \in Queues, Call!Connect(values), closed' = closed
  PROVE  /\ calls' \in [Services -> [values : Seq(FieldValues), channel : {None} \cup Nat]]
         /\ \A s \in Services : calls'[s].values = values[s]
<1>1. ClientInv'
  BY ConnectOpens
<1>2. calls' = [s \in Services |-> IF values[s] = <<>> THEN Call!Idle ELSE [values |-> values[s], channel |-> client'[s]]]
  BY Zenon DEF Call!Connect
<1>3. \A s \in Services : client'[s] \in {None} \cup Nat /\ values[s] \in Seq(FieldValues)
  BY <1>1 DEF ClientInv, Queues
<1>4. Call!Idle \in [values : Seq(FieldValues), channel : {None} \cup Nat] /\ Call!Idle.values = <<>>
  BY DEF Call!Idle
<1>5. ASSUME NEW s \in Services
      PROVE  calls'[s] \in [values : Seq(FieldValues), channel : {None} \cup Nat] /\ calls'[s].values = values[s]
  <2>1. CASE values[s] = <<>>
    BY <1>2, <1>4, <2>1
  <2>2. CASE values[s] # <<>>
    <3>1. PICK r : r = [values |-> values[s], channel |-> client'[s]]
      OBVIOUS
    <3>2. r \in [values : Seq(FieldValues), channel : {None} \cup Nat] /\ r.values = values[s]
      BY <1>3, <3>1
    <3>3. calls'[s] = r
      BY <1>2, <2>2, <3>1
    <3>. QED BY <3>2, <3>3
  <2>. QED BY <2>1, <2>2
<1>. QED BY <1>2, <1>5

(* Grouping puts every value in one queue. *)
LEMMA GroupsSpread ==
  ASSUME NEW f, NEW g \in Queues, \A v \in FieldValues : f[v] \in Services,
         \A s \in Services : Once(g[s], {v \in FieldValues : f[v] = s})
  PROVE  Spread(g, <<>>) /\ Covered(g, <<>>)
<1>1. ASSUME NEW s \in Services
      PROVE  /\ \A i \in 1..Len(g[s]) : g[s][i] \in FieldValues /\ f[g[s][i]] = s
             /\ \A i, j \in 1..Len(g[s]) : i # j => g[s][i] # g[s][j]
             /\ \A v \in FieldValues : f[v] = s => \E i \in 1..Len(g[s]) : g[s][i] = v
  <2>1. PICK S : S = {v \in FieldValues : f[v] = s} /\ Once(g[s], S)
    OBVIOUS
  <2>2. \A i \in 1..Len(g[s]) : g[s][i] \in S
    BY <2>1 DEF Once
  <2>3. (\A i, j \in 1..Len(g[s]) : g[s][i] = g[s][j] => i = j) /\ \A v \in S : \E i \in 1..Len(g[s]) : g[s][i] = v
    BY <2>1 DEF Once
  <2>. QED BY <2>1, <2>2, <2>3
<1>2. \A i : i \notin 1..Len(<<>>)
  OBVIOUS
<1>3. Spread(g, <<>>)
  BY <1>1, <1>2 DEF Spread
<1>4. Covered(g, <<>>)
  BY <1>1 DEF Covered, Waiting
<1>. QED BY <1>3, <1>4

(* The values of a chunked call are grouped by the service of each. *)
LEMMA RouteChunkedKeeps == ASSUME CallInv, Call!RouteChunked PROVE CallInv'
<1>1. UNCHANGED <<routing, up, closed, failed, tries, sent, rpcError>> /\ result = "routing" /\ routing = "chunked"
  BY DEF Call!RouteChunked
<1>2. CallTypes /\ ClientInv /\ OutcomeInv /\ ChunkedInv
  BY DEF CallInv
<1>3. ASSUME UNCHANGED <<field, client, opened, calls>>,
             result' = "invalid" \/ result' = IF rpcError THEN "error" ELSE "unavailable"
      PROVE  CallInv'
  <2>1. Queue' = Queue /\ (Quiet' <=> Quiet)
    BY <1>1, <1>3 DEF Queue, Quiet
  <2>2. CallTypes' /\ ClientInv'
    BY <1>1, <1>2, <1>3 DEF CallTypes, ClientInv
  <2>3. OutcomeInv'
    BY <1>1, <1>2, <1>3, <2>1 DEF OutcomeInv
  <2>4. ChunkedInv'
    <3>1. result' \notin {"sending", "ok"}
      BY <1>3
    <3>. QED BY <1>1, <1>2, <1>3, <2>1, <3>1 DEF ChunkedInv
  <2>. QED BY <2>2, <2>3, <2>4 DEF CallInv
<1>. DEFINE G == [s \in Services |-> Call!SetToSeq({v \in Call!ToSet(field) : Call!Selected(v, 0) = s})]
<1>4. ASSUME field # <<>>, \A i \in 1..Len(field) : Call!Selected(field[i], 0) # None,
             Call!Connect(G), field' = <<>>, result' = "sending"
      PROVE  CallInv'
  <2>1. Quiet /\ Once(field, FieldValues)
    BY <1>1, <1>2, <1>4 DEF ChunkedInv
  <2>2. Call!ToSet(field) = FieldValues
    <3>1. DOMAIN field = 1..Len(field) /\ \A i \in 1..Len(field) : field[i] \in FieldValues
      BY <2>1 DEF Once
    <3>2. \A v \in FieldValues : \E i \in 1..Len(field) : field[i] = v
      BY <2>1 DEF Once
    <3>. QED BY <3>1, <3>2 DEF Call!ToSet
  <2>3. PICK f : f = [v \in FieldValues |-> Call!Selected(v, 0)]
    OBVIOUS
  <2>4. \A v \in FieldValues : f[v] = Call!Selected(v, 0) /\ f[v] \in Services
    <3>1. ASSUME NEW v \in FieldValues PROVE Call!Selected(v, 0) \in Services
      <4>1. PICK i \in 1..Len(field) : field[i] = v
        BY <2>1 DEF Once
      <4>2. Call!Selected(v, 0) # None
        BY <1>4, <4>1
      <4>. QED BY <1>2, <4>2, SelectedIsUp DEF CallTypes
    <3>. QED BY <2>3, <3>1
  <2>5. \A s : {v \in Call!ToSet(field) : Call!Selected(v, 0) = s} = {v \in FieldValues : f[v] = s}
    BY <2>2, <2>4
  <2>6. PICK g : g = G
    OBVIOUS
  <2>7. ASSUME NEW s \in Services PROVE Once(g[s], {v \in FieldValues : f[v] = s})
    <3>1. g[s] = Call!SetToSeq({v \in FieldValues : f[v] = s})
      BY <2>5, <2>6
    <3>2. IsFiniteSet({v \in FieldValues : f[v] = s})
      BY ServicesAssumption, FS_Subset
    <3>. QED BY <3>1, <3>2, CallSetToSeqOnce
  <2>8. g \in Queues
    <3>1. ASSUME NEW s \in Services PROVE g[s] \in Seq(FieldValues)
      <4>1. PICK S : S = {v \in FieldValues : f[v] = s} /\ S \subseteq FieldValues
        OBVIOUS
      <4>2. g[s] \in Seq(S)
        BY <2>7, <4>1 DEF Once
      <4>. QED BY <4>1, <4>2
    <3>. QED BY <2>6, <3>1 DEF Queues
  <2>. HIDE DEF G
  <2>9. ClientInv'
    BY <1>1, <1>2, <1>4, ConnectOpens
  <2>10. /\ calls' \in [Services -> [values : Seq(FieldValues), channel : {None} \cup Nat]]
         /\ \A s \in Services : calls'[s].values = g[s]
    BY <1>1, <1>2, <1>4, <2>6, <2>8, ConnectCalls
  <2>11. Queue' = g /\ sent' = <<>>
    <3>1. g = [s \in Services |-> g[s]]
      BY <2>8 DEF Queues
    <3>. QED BY <1>1, <2>1, <2>10, <3>1 DEF Queue, Quiet
  <2>12. Spread(g, <<>>) /\ Covered(g, <<>>)
    BY <2>4, <2>7, <2>8, GroupsSpread
  <2>13. CallTypes'
    BY <1>1, <1>2, <1>4, <2>10 DEF CallTypes
  <2>14. OutcomeInv'
    BY <1>4 DEF OutcomeInv
  <2>15. ChunkedInv'
    <3>1. Spread(Queue', sent') /\ Covered(Queue', sent')
      BY <2>11, <2>12
    <3>. QED BY <1>4, <3>1 DEF ChunkedInv
  <2>. QED BY <2>9, <2>13, <2>14, <2>15 DEF CallInv
<1>. QED BY <1>3, <1>4 DEF Call!RouteChunked, Call!EndUnavailable

(* A call of one value goes to the service of it. *)
LEMMA RouteScalarKeeps == ASSUME CallInv, Call!RouteScalar PROVE CallInv'
<1>1. UNCHANGED <<routing, field, up, closed, failed, tries, sent, rpcError>> /\ result = "routing" /\ routing = "scalar"
  BY DEF Call!RouteScalar
<1>2. CallTypes /\ ClientInv /\ OutcomeInv
  BY DEF CallInv
<1>3. ChunkedInv'
  BY <1>1 DEF ChunkedInv
<1>4. PICK s : s = Call!Selected(field[1], tries)
  OBVIOUS
<1>5. CASE s = None
  <2>1. UNCHANGED <<client, opened, calls>> /\ result' = IF rpcError THEN "error" ELSE "unavailable"
    BY <1>4, <1>5 DEF Call!RouteScalar, Call!EndUnavailable
  <2>2. CallTypes' /\ ClientInv'
    BY <1>1, <1>2, <2>1 DEF CallTypes, ClientInv
  <2>3. OutcomeInv'
    BY <1>1, <1>2, <2>1 DEF OutcomeInv, Quiet
  <2>. QED BY <1>3, <2>2, <2>3 DEF CallInv
<1>6. CASE s # None
  <2>1. PICK g : g = [t \in Services |-> IF t = s THEN field ELSE <<>>]
    OBVIOUS
  <2>2. Call!Connect(g) /\ result' = "sending"
    BY <1>4, <1>6, <2>1 DEF Call!RouteScalar
  <2>3. g \in Queues
    BY <1>2, <2>1 DEF Queues, CallTypes
  <2>4. ClientInv' /\ calls' \in [Services -> [values : Seq(FieldValues), channel : {None} \cup Nat]]
    BY <1>1, <1>2, <2>2, <2>3, ConnectOpens, ConnectCalls
  <2>5. CallTypes'
    BY <1>1, <1>2, <2>4 DEF CallTypes
  <2>6. OutcomeInv'
    BY <2>2 DEF OutcomeInv
  <2>. QED BY <1>3, <2>4, <2>5, <2>6 DEF CallInv
<1>. QED BY <1>5, <1>6

(* The call ends, or is routed again. *)
LEMMA EndKeeps == ASSUME CallInv, Call!Return \/ \E retryable \in BOOLEAN : Call!Raise(retryable) PROVE CallInv'
<1>1. /\ UNCHANGED <<routing, field, up, client, closed, opened, calls, sent>>
      /\ result = "sending"
  BY DEF Call!Return, Call!Raise
<1>2. CallTypes /\ ClientInv /\ OutcomeInv /\ ChunkedInv
  BY DEF CallInv
<1>3. Queue' = Queue /\ (Quiet' <=> Quiet)
  BY <1>1 DEF Queue, Quiet
<1>4. ClientInv'
  BY <1>1, <1>2 DEF ClientInv
<1>5. CASE Call!Return
  <2>1. result' = "ok" /\ ~failed /\ UNCHANGED <<failed, tries, rpcError>> /\ \A s \in Services : calls[s] = Call!Idle
    BY <1>5 DEF Call!Return
  <2>2. CallTypes'
    BY <1>1, <1>2, <2>1 DEF CallTypes
  <2>3. OutcomeInv'
    BY <2>1 DEF OutcomeInv
  <2>4. ChunkedInv'
    <3>1. \A v : ~Waiting(v, Queue)
      <4>1. \A s \in Services : Len(Queue[s]) = 0
        BY <2>1 DEF Queue, Call!Idle
      <4>. QED BY <4>1 DEF Waiting
    <3>2. routing = "chunked" => \A v \in FieldValues : Answered(v, sent)
      BY <1>1, <1>2, <2>1, <3>1 DEF ChunkedInv, Covered
    <3>. QED BY <1>1, <1>2, <1>3, <2>1, <3>2 DEF ChunkedInv
  <2>. QED BY <1>4, <2>2, <2>3, <2>4 DEF CallInv
<1>6. CASE \E retryable \in BOOLEAN : Call!Raise(retryable)
  <2>1. rpcError' = TRUE /\ result' \in {"routing", "error"}
    BY <1>6 DEF Call!Raise
  <2>2. tries' \in Nat /\ failed' \in BOOLEAN
    <3>1. tries \in Nat /\ failed \in BOOLEAN
      BY <1>2 DEF CallTypes
    <3>2. (tries' = tries + 1 /\ failed' = FALSE) \/ (tries' = tries /\ failed' = failed)
      BY <1>6, Zenon DEF Call!Raise
    <3>3. tries' = tries + 1 \/ tries' = tries
      BY <3>2, Zenon
    <3>4. tries' \in Nat
      BY <3>1, <3>3
    <3>5. failed' = FALSE \/ failed' = failed
      BY <3>2, Zenon
    <3>6. failed' \in BOOLEAN
      BY <3>1, <3>5, Zenon
    <3>. QED BY <3>4, <3>6
  <2>3. CallTypes'
    BY <1>1, <1>2, <2>1, <2>2 DEF CallTypes
  <2>4. OutcomeInv'
    BY <2>1 DEF OutcomeInv
  <2>5. ChunkedInv'
    BY <1>1, <1>2, <1>3, <2>1 DEF ChunkedInv
  <2>. QED BY <1>4, <2>3, <2>4, <2>5 DEF CallInv
<1>. QED BY <1>5, <1>6

(* Services come and go. *)
LEMMA ChangesKeep == ASSUME CallInv, NEW s \in Services, Call!Down(s) \/ Call!Up(s) PROVE CallInv'
<1>1. UNCHANGED <<routing, field, opened, calls, failed, tries, sent, rpcError, result>>
  BY DEF Call!Down, Call!Up
<1>2. CallTypes /\ ClientInv /\ OutcomeInv /\ ChunkedInv
  BY DEF CallInv
<1>3. up' \subseteq Services
  BY <1>2 DEF CallTypes, Call!Down, Call!Up
<1>4. CallTypes'
  BY <1>1, <1>2, <1>3 DEF CallTypes
<1>5. Queue' = Queue /\ (Quiet' <=> Quiet)
  BY <1>1 DEF Queue, Quiet
<1>6. OutcomeInv' /\ ChunkedInv'
  BY <1>1, <1>2, <1>5 DEF OutcomeInv, ChunkedInv
<1>7. ClientInv'
  <2>1. CASE Call!Up(s)
    BY <1>2, <2>1 DEF ClientInv, Call!Up
  <2>2. CASE Call!Down(s)
    <3>1. closed' = closed \cup ({client[s]} \ {None}) /\ client' = [client EXCEPT ![s] = None] /\ opened' = opened
      BY <2>2 DEF Call!Down
    <3>2. /\ opened \in Nat /\ closed \subseteq 1..opened /\ client \in [Services -> {None} \cup 1..opened]
          /\ (\A t \in Services : client[t] \notin closed)
          /\ \A t, u \in Services : t # u /\ client[t] # None => client[t] # client[u]
      BY <1>2 DEF ClientInv
    <3>3. closed' \subseteq 1..opened
      BY <3>1, <3>2
    <3>4. client' \in [Services -> {None} \cup 1..opened] /\ \A t \in Services : client'[t] = IF t = s THEN None ELSE client[t]
      BY <3>1, <3>2
    <3>5. None \notin closed'
      <4>1. 1..opened \subseteq Nat
        BY <3>2
      <4>2. None \notin Nat
        BY ServicesAssumption
      <4>. QED BY <3>3, <4>1, <4>2
    <3>6. \A t \in Services : client'[t] \notin closed'
      BY <3>1, <3>2, <3>4, <3>5
    <3>7. \A t, u \in Services : t # u /\ client'[t] # None => client'[t] # client'[u]
      BY <3>2, <3>4
    <3>. QED BY <3>1, <3>2, <3>3, <3>4, <3>6, <3>7 DEF ClientInv
  <2>. QED BY <2>1, <2>2
<1>. QED BY <1>4, <1>6, <1>7 DEF CallInv

(* Every step of a call and of the services, and every step that leaves    *)
(* them alone.                                                             *)
LEMMA CallNextKeepsInv == ASSUME CallInv, [Call!Next]_callVars PROVE CallInv'
<1>1. CASE UNCHANGED callVars
  <2>1. UNCHANGED <<routing, field, up, client, closed, opened, calls, failed, tries, sent, rpcError, result>>
    BY <1>1 DEF callVars
  <2>2. CallTypes /\ ClientInv /\ OutcomeInv /\ ChunkedInv
    BY DEF CallInv
  <2>3. Queue' = Queue /\ (Quiet' <=> Quiet)
    BY <2>1 DEF Queue, Quiet
  <2>4. CallTypes' /\ ClientInv'
    BY <2>1, <2>2 DEF CallTypes, ClientInv
  <2>5. OutcomeInv' /\ ChunkedInv'
    BY <2>1, <2>2, <2>3 DEF OutcomeInv, ChunkedInv
  <2>. QED BY <2>4, <2>5 DEF CallInv
<1>. QED BY <1>1, RouteChunkedKeeps, RouteScalarKeeps, EndKeeps, ChangesKeep, SendKeeps DEF Call!Next

(* The invariant gives what is promised of a call. *)
LEMMA CallInvGives == ASSUME CallInv PROVE Call!EveryValueOnce /\ Call!CauseReported /\ Call!CachedClientsOpen
<1>1. CallTypes /\ ClientInv /\ OutcomeInv /\ ChunkedInv
  BY DEF CallInv
<1>2. Call!EveryValueOnce
  BY <1>1 DEF ChunkedInv, Spread, Answered, Call!EveryValueOnce
<1>3. Call!CauseReported
  BY <1>1 DEF OutcomeInv, Quiet, Call!CauseReported
<1>4. Call!CachedClientsOpen
  BY <1>1 DEF ClientInv, Call!CachedClientsOpen
<1>. QED BY <1>2, <1>3, <1>4
=============================================================================
