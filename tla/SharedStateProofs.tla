-------------------------- MODULE SharedStateProofs --------------------------
(***************************************************************************)
(* Proofs about the state that processes or greenlets share, for any       *)
(* number of them: the objects at etcd, the accessor of an external        *)
(* service, the bulk label task and the labels of an entity.               *)
(***************************************************************************)
EXTENDS SharedState, EtcdProofs, FollowerProofs

-----------------------------------------------------------------------------
(* The subjects together: a behaviour is about one of them, and the others *)
(* stay as they began.                                                     *)

(* A step is one of the subject's, or leaves what the subject is about.    *)
LEMMA StepOfSubject ==
  ASSUME [Next]_vars
  PROVE  /\ [Lock!Next]_lockVars /\ [Collection!Next]_dictVars /\ (Ring!Next \/ UNCHANGED ringVars)
         /\ [Tree!Next]_treeVars /\ [Service!Next]_discoveryVars /\ [Call!Next]_callVars
BY DEF Next, vars

(* Init fixes the variables of every subject. *)
LEMMA SubjectsInit == Init => Lock!Init /\ Collection!Init /\ Ring!Init /\ Tree!Init /\ Service!Init /\ Call!Init
BY DEF Init

EtcdInv == LockInv /\ DictInv /\ RingInv /\ SelectInv /\ TreeInv /\ ServiceInv /\ CallInv

(* The invariants hold together in every behaviour. *)
LEMMA EtcdInvHolds == Spec => []EtcdInv
<1>1. Init => EtcdInv
  BY SubjectsInit, LockInitInv, DictInitInv, RingInitInv, SelectInitInv, TreeInitInv, ServiceInitInv, CallInitInv DEF EtcdInv
<1>2. EtcdInv /\ [Next]_vars => EtcdInv'
  BY StepOfSubject, LockNextKeepsInv, DictNextKeepsInv, RingNextKeepsInv, RingNextKeepsSelectInv, TreeNextKeepsInv,
     ServiceNextKeepsInv, CallNextKeepsInv DEF EtcdInv
<1>. QED BY <1>1, <1>2, PTL DEF Spec

(* What is kept at etcd is shared safely, whatever the processes, values,  *)
(* members and keys are and however long a behaviour is: two processes     *)
(* hold the lock only after an expiry, no update of a collection is lost   *)
(* or answered wrongly, and readers that have seen all events have what    *)
(* etcd has.                                                               *)
THEOREM EtcdObjectsAreSafe == Spec => []EtcdObjectsSafe
<1>1. EtcdInv => EtcdObjectsSafe
  BY LockInvGives, DictInvGives, RingInvGives DEF EtcdInv, EtcdObjectsSafe
<1>. QED BY <1>1, EtcdInvHolds, PTL

(* Whatever the keys and values of a tree are, and however often its watch *)
(* is stopped, fails or falls behind: unless a directory was removed, a    *)
(* watcher that has seen all events has left the tree as etcd has it, and  *)
(* the last call of every node watcher had the value the tree has now      *)
(* (RecursiveWatchMux, ReadOnlyEtcdTree).  No key has its own name as its  *)
(* value (KeysAssumption), and none is a prefix of another's name.         *)
THEOREM TreesFollow == Spec => []TreeFollows
<1>1. EtcdInv => TreeFollows
  BY TreeInvGives DEF EtcdInv, TreeFollows
<1>. QED BY <1>1, EtcdInvHolds, PTL

(* Services that are registered are reached, whatever the instances,       *)
(* services, values and chunk size are, and however often watchers are     *)
(* killed, calls fail and services leave: a watcher that has seen all      *)
(* changes knows exactly the registered instances, its rotation holds each *)
(* once and selects each within a round (ServiceWatcher); a chunked call   *)
(* sends no value twice and, if it succeeds, sent all; it reports the      *)
(* error of an RPC it made, and uses no closed channel (RoutedClient); and *)
(* select() returns no member of a ring twice (EtcdHashRing).              *)
THEOREM ServicesAreReached == Spec => []ServicesReached
<1>1. EtcdInv => ServicesReached
  BY ServiceInvGives, CallInvGives, SelectInvGives DEF EtcdInv, ServicesReached
<1>. QED BY <1>1, EtcdInvHolds, PTL

(* A release of the lock deletes the key only while it holds the uuid of   *)
(* the process that releases (release, delete_if_value).                   *)
THEOREM ReleasesTakeTheirOwn == Spec => Lock!ReleaseTakesOwn
<1>. DEFINE TakesOwn == \A p \in Procs : lockAt[p] = "holding" /\ lockAt'[p] # "holding" /\ lockNode # NoValue
                                          /\ lockNode' = NoValue => lockNode.value = lockValue[p]
<1>1. EtcdInv /\ [Next]_vars => [TakesOwn]_lockVars
  BY StepOfSubject, ReleaseStepTakesOwn DEF EtcdInv
<1>2. [TakesOwn]_lockVars => [TakesOwn]_(Lock!vars)
  BY DEF lockVars, Lock!vars
<1>3. Spec => [][TakesOwn]_(Lock!vars)
  BY <1>1, <1>2, EtcdInvHolds, PTL DEF Spec
<1>. QED BY <1>3 DEF Lock!ReleaseTakesOwn

-----------------------------------------------------------------------------
(* The labels of an entity.                                                *)

(* The merges of one worker, with the bulk label task, and of several.     *)
TP == INSTANCE LabelProofs WITH Results <- {<<"a", "b">>}, Expected <- 3, Excluded <- 1, MAX_ATTEMPTS <- 3,
        NumQueries <- 1, LabelRetries <- 1, MaxCrashes <- 1,
        LabelNames <- {"good"}, NoName <- "", Reasons <- {"r1", "r2"}, Slop <- 1
WP == INSTANCE LabelProofs WITH Results <- {<<"a", "b">>}, Expected <- 3, Excluded <- 1, MAX_ATTEMPTS <- 3,
        NumQueries <- 1, LabelRetries <- 1, MaxCrashes <- 1,
        LabelNames <- {"good", "bad"}, NoName <- "", Reasons <- {"r1"}, Slop <- 1

(* The state of a label; one that is not known has no history. *)
StateFields == {"status", "reasons", "previous", "known"}
StateOk(x) ==
  /\ DOMAIN x = StateFields
  /\ \E S : x.previous \in Seq(S)
  /\ ~x.known => DOMAIN x.reasons = {} /\ x.previous = <<>>

(* A shift puts the reasons into the history. *)
LEMMA ShiftKeeps ==
  ASSUME NEW b, StateOk(b), b.known, NEW e, e = Labels!Shift(b)
  PROVE  /\ StateOk(e) /\ e.known /\ e.status = b.status /\ DOMAIN e.reasons = {}
         /\ Labels!Trail(b) \subseteq Labels!Trail(e)
<1>1. PICK h, p : h = [status |-> b.status, reasons |-> b.reasons] /\ p = <<h>> \o b.previous
  OBVIOUS
<1>2. e = [b EXCEPT !.previous = p, !.reasons = <<>>]
  BY <1>1 DEF Labels!Shift
<1>3. DOMAIN e = StateFields /\ e.previous = p /\ e.reasons = <<>> /\ e.status = b.status /\ e.known = b.known
  BY <1>2 DEF StateOk, StateFields
<1>4. PICK S : b.previous \in Seq(S)
  BY DEF StateOk
<1>5. /\ p \in Seq(S \cup {h}) /\ Len(p) = Len(b.previous) + 1 /\ p[1] = h
      /\ \A i \in 1..Len(b.previous) : p[i + 1] = b.previous[i]
  <2>1. <<h>> \in Seq(S \cup {h}) /\ b.previous \in Seq(S \cup {h}) /\ Len(<<h>>) = 1
    BY <1>4
  <2>2. /\ p \in Seq(S \cup {h}) /\ Len(p) = Len(b.previous) + 1
        /\ \A i \in 1..Len(p) : p[i] = IF i <= 1 THEN <<h>>[i] ELSE b.previous[i - 1]
    BY <1>1, <2>1, ConcatProperties
  <2>3. Len(b.previous) \in Nat
    BY <1>4
  <2>. QED BY <2>1, <2>2, <2>3
<1>6. h \in Labels!ToSet(p) /\ Labels!ToSet(b.previous) \subseteq Labels!ToSet(p)
  <2>1. DOMAIN p = 1..Len(p) /\ DOMAIN b.previous = 1..Len(b.previous) /\ Len(b.previous) \in Nat
    BY <1>4, <1>5
  <2>2. 1 \in DOMAIN p /\ \A i \in DOMAIN b.previous : i + 1 \in DOMAIN p
    BY <1>5, <2>1
  <2>. QED BY <1>5, <2>1, <2>2 DEF Labels!ToSet
<1>7. h.status = b.status /\ h.reasons = b.reasons
  BY <1>1
<1>8. Labels!Trail(b) \subseteq Labels!Trail(e)
  BY <1>3, <1>6, <1>7 DEF Labels!Trail
<1>9. DOMAIN e.reasons = {} /\ StateOk(e)
  BY <1>3, <1>5 DEF StateOk
<1>. QED BY <1>3, <1>8, <1>9

(* Reasons may be added to a state, and a state without reasons may get    *)
(* another status.                                                         *)
LEMMA UpdateKeeps ==
  ASSUME NEW b, StateOk(b), NEW e, DOMAIN e = StateFields, e.previous = b.previous, b.known, e.known,
         DOMAIN b.reasons = {} \/ (e.status = b.status /\ DOMAIN b.reasons \subseteq DOMAIN e.reasons)
  PROVE  StateOk(e) /\ Labels!Trail(b) \subseteq Labels!Trail(e)
BY DEF StateOk, Labels!Trail

(* Applying a desired state to a known label keeps its history. *)
LEMMA ApplyKeeps ==
  ASSUME NEW x, StateOk(x), x.known, NEW d, NEW t
  PROVE  LET y == Labels!TryApply(x, d, t).state
         IN  StateOk(y) /\ y.known /\ Labels!Trail(x) \subseteq Labels!Trail(y)
<1>1. PICK y, shifted : y = Labels!TryApply(x, d, t).state /\ shifted = Labels!Shift(x)
  OBVIOUS
<1>2. StateOk(shifted) /\ shifted.known /\ shifted.status = x.status /\ DOMAIN shifted.reasons = {}
      /\ Labels!Trail(x) \subseteq Labels!Trail(shifted)
  BY <1>1, ShiftKeeps
<1>3. \/ y = [shifted EXCEPT !.status = d.status, !.reasons = d.reasons]
      \/ y = x
      \/ y = Labels!MergeDesired(x, d)
  BY <1>1 DEF Labels!TryApply
<1>4. CASE y = [shifted EXCEPT !.status = d.status, !.reasons = d.reasons]
  <2>1. StateOk(y) /\ y.known /\ Labels!Trail(shifted) \subseteq Labels!Trail(y)
    <3>1. DOMAIN y = StateFields /\ y.previous = shifted.previous /\ y.known = shifted.known
      BY <1>2, <1>4 DEF StateOk, StateFields
    <3>. QED BY <1>2, <3>1, UpdateKeeps
  <2>. QED BY <1>1, <1>2, <2>1
<1>5. CASE y = Labels!MergeDesired(x, d)
  <2>1. PICK base, rs : /\ base = (IF x.status # d.status THEN shifted ELSE x)
                        /\ rs = [r \in DOMAIN base.reasons \cup DOMAIN d.reasons |->
                                   IF r \in DOMAIN d.reasons
                                   THEN Labels!InsertOrUpdate(base.reasons, r, d.reasons[r])[r] ELSE base.reasons[r]]
    OBVIOUS
  <2>2. y = [base EXCEPT !.status = d.status, !.reasons = rs]
    BY <1>1, <1>5, <2>1 DEF Labels!MergeDesired
  <2>3. StateOk(base) /\ base.known /\ Labels!Trail(x) \subseteq Labels!Trail(base)
    BY <1>2, <2>1
  <2>4. DOMAIN base.reasons = {} \/ (d.status = base.status /\ DOMAIN base.reasons \subseteq DOMAIN rs)
    BY <1>2, <2>1
  <2>5. StateOk(y) /\ y.known /\ Labels!Trail(base) \subseteq Labels!Trail(y)
    <3>1. DOMAIN y = StateFields /\ y.previous = base.previous /\ y.known = base.known /\ y.status = d.status
          /\ y.reasons = rs
      BY <2>2, <2>3 DEF StateOk, StateFields
    <3>. QED BY <2>3, <2>4, <3>1, UpdateKeeps
  <2>. QED BY <1>1, <2>3, <2>5
<1>. QED BY <1>1, <1>3, <1>4, <1>5

(* A label that was not known has no history to lose. *)
LEMMA NewLabelKeeps ==
  ASSUME NEW x, StateOk(x), ~x.known, NEW d
  PROVE  LET y == Labels!FromInner(d)
         IN  StateOk(y) /\ y.known /\ Labels!Trail(x) \subseteq Labels!Trail(y)
<1>1. PICK y : y = Labels!FromInner(d)
  OBVIOUS
<1>2. DOMAIN y = StateFields /\ y.previous = <<>> /\ y.known
  BY <1>1 DEF Labels!FromInner, StateFields
<1>3. StateOk(y)
  <2>1. <<>> \in Seq({})
    OBVIOUS
  <2>. QED BY <1>2, <2>1 DEF StateOk
<1>4. Labels!Trail(x) = {}
  BY DEF Labels!Trail, Labels!ToSet, StateOk
<1>. QED BY <1>1, <1>2, <1>3, <1>4

(* The merge of a request keeps the history of the label. *)
LEMMA MergeKeeps ==
  ASSUME NEW rows, StateOk(rows["good"]), NEW q, NEW t
  PROVE  LET new == Labels!ComputeNewLabels(rows, q, t).labels
         IN  StateOk(new["good"]) /\ Labels!Trail(rows["good"]) \subseteq Labels!Trail(new["good"])
<1>1. PICK new : new = Labels!ComputeNewLabels(rows, q, t).labels
  OBVIOUS
<1>2. \/ new["good"] = rows["good"]
      \/ rows["good"].known /\ \E d : new["good"] = Labels!TryApply(rows["good"], d, t).state
      \/ ~rows["good"].known /\ \E d : new["good"] = Labels!FromInner(d)
  BY <1>1 DEF Labels!ComputeNewLabels
<1>. QED BY <1>1, <1>2, ApplyKeeps, NewLabelKeeps

(* Two writers merge as one does. *)
LEMMA WritersMergeKeeps ==
  ASSUME NEW rows, StateOk(rows["good"]), NEW q, NEW t
  PROVE  LET new == TwoWriters!ComputeNewLabels(rows, q, t).labels
         IN  StateOk(new["good"]) /\ Labels!Trail(rows["good"]) \subseteq Labels!Trail(new["good"])
<1>1. PICK new : new = TwoWriters!ComputeNewLabels(rows, q, t).labels
  OBVIOUS
<1>2. \/ new["good"] = rows["good"]
      \/ rows["good"].known /\ \E d : new["good"] = TwoWriters!TryApply(rows["good"], d, t).state
      \/ ~rows["good"].known /\ \E d : new["good"] = TwoWriters!FromInner(d)
  BY <1>1 DEF TwoWriters!ComputeNewLabels
<1>3. ASSUME NEW x, NEW d PROVE TwoWriters!TryApply(x, d, t) = Labels!TryApply(x, d, t)
  BY Zenon DEF TwoWriters!TryApply, Labels!TryApply, TwoWriters!IsExpired, Labels!IsExpired, TwoWriters!ExpiresAt,
    Labels!ExpiresAt, TwoWriters!Max, Labels!Max, TwoWriters!Shift, Labels!Shift, TwoWriters!MergeDesired,
    Labels!MergeDesired, TwoWriters!InsertOrUpdate, Labels!InsertOrUpdate, TwoWriters!IsManual, Labels!IsManual,
    TwoWriters!MANUALLY_ADDED, Labels!MANUALLY_ADDED, TwoWriters!MANUALLY_REMOVED, Labels!MANUALLY_REMOVED
<1>4. ASSUME NEW d PROVE TwoWriters!FromInner(d) = Labels!FromInner(d)
  BY Zenon DEF TwoWriters!FromInner, Labels!FromInner
<1>. QED BY <1>1, <1>2, <1>3, <1>4, ApplyKeeps, NewLabelKeeps

(* The definitions that the proofs about labels use are those of the one   *)
(* worker.                                                                 *)
LEMMA LabelsSame ==
  /\ \A q : Labels!DropConflicts(q) = TP!DropConflicts(q)
  /\ \A k, t : Labels!DesiredState(k, t) = TP!DesiredState(k, t)
  /\ \A x, d, t : Labels!TryApply(x, d, t) = TP!TryApply(x, d, t)
  /\ \A d : Labels!FromInner(d) = TP!FromInner(d)
  /\ \A s : Labels!FlattenSeq(s) = TP!FlattenSeq(s)
  /\ \A S : Labels!SetToSeq(S) = TP!SetToSeq(S) /\ Labels!Cardinality(S) = TP!Cardinality(S)
  /\ \A x, t : Labels!IsExpired(x, t) <=> TP!IsExpired(x, t)
  /\ \A q : TP!SplitByStrength(q) => Labels!SplitByStrength(q)
  /\ \A x, t : TP!OneView(x, t) => Labels!OneView(x, t)
<1>1. ASSUME NEW q PROVE Labels!DropConflicts(q) = TP!DropConflicts(q)
  BY Zenon DEF Labels!DropConflicts, TP!DropConflicts, Labels!FoldLeft, TP!FoldLeft, Labels!MapThenFoldSet,
    TP!MapThenFoldSet, Labels!Max, TP!Max, Labels!AddMutation, TP!AddMutation, Labels!Dropped, TP!Dropped
<1>2. ASSUME NEW k, NEW t PROVE Labels!DesiredState(k, t) = TP!DesiredState(k, t)
  BY Zenon DEF Labels!DesiredState, TP!DesiredState, Labels!FoldLeft, TP!FoldLeft, Labels!MapThenFoldSet,
    TP!MapThenFoldSet, Labels!Max, TP!Max, Labels!InsertOrUpdate, TP!InsertOrUpdate
<1>3. ASSUME NEW x, NEW d, NEW t PROVE Labels!TryApply(x, d, t) = TP!TryApply(x, d, t)
  BY Zenon DEF TP!TryApply, Labels!TryApply, TP!IsExpired, Labels!IsExpired, TP!ExpiresAt,
    Labels!ExpiresAt, TP!Max, Labels!Max, TP!Shift, Labels!Shift, TP!MergeDesired,
    Labels!MergeDesired, TP!InsertOrUpdate, Labels!InsertOrUpdate, TP!IsManual, Labels!IsManual,
    TP!MANUALLY_ADDED, Labels!MANUALLY_ADDED, TP!MANUALLY_REMOVED, Labels!MANUALLY_REMOVED
<1>4. ASSUME NEW d PROVE Labels!FromInner(d) = TP!FromInner(d)
  BY Zenon DEF Labels!FromInner, TP!FromInner
<1>5. ASSUME NEW s PROVE Labels!FlattenSeq(s) = TP!FlattenSeq(s)
  BY Zenon DEF Labels!FlattenSeq, TP!FlattenSeq
<1>6. ASSUME NEW S PROVE Labels!SetToSeq(S) = TP!SetToSeq(S) /\ Labels!Cardinality(S) = TP!Cardinality(S)
  BY Zenon DEF Labels!SetToSeq, TP!SetToSeq, Labels!IsInjective, TP!IsInjective, Labels!Cardinality, TP!Cardinality
<1>7. ASSUME NEW x, NEW t PROVE Labels!IsExpired(x, t) <=> TP!IsExpired(x, t)
  BY Zenon DEF TP!IsExpired, Labels!IsExpired, TP!ExpiresAt, Labels!ExpiresAt, TP!Max, Labels!Max
<1>8. ASSUME NEW q, TP!SplitByStrength(q) PROVE Labels!SplitByStrength(q)
  BY <1>8, Zenon DEF TP!SplitByStrength, Labels!SplitByStrength, TP!Strongest, Labels!Strongest,
    Labels!DropConflicts, TP!DropConflicts, Labels!FoldLeft, TP!FoldLeft, Labels!MapThenFoldSet,
    TP!MapThenFoldSet, Labels!Max, TP!Max, Labels!AddMutation, TP!AddMutation, Labels!Dropped, TP!Dropped
<1>9. ASSUME NEW x, NEW t, TP!OneView(x, t) PROVE Labels!OneView(x, t)
  BY <1>9, Zenon DEF TP!OneView, Labels!OneView, TP!HasLabel, Labels!HasLabel, TP!Standing, Labels!Standing,
    TP!SimpleStatuses, Labels!SimpleStatuses, TP!SimpleStatus, Labels!SimpleStatus, TP!ManualType, Labels!ManualType,
    TP!IsExpired, Labels!IsExpired, TP!ExpiresAt, Labels!ExpiresAt, TP!Max, Labels!Max, TP!Min, Labels!Min,
    TP!IsManual, Labels!IsManual, TP!ADDED, Labels!ADDED, TP!MANUALLY_ADDED, Labels!MANUALLY_ADDED,
    TP!MANUALLY_REMOVED, Labels!MANUALLY_REMOVED
<1>. QED BY <1>1, <1>2, <1>3, <1>4, <1>5, <1>6, <1>7, <1>8, <1>9, Zenon

(* Those of several workers are, too. *)
LEMMA WritersSame ==
  /\ \A q : TwoWriters!DropConflicts(q) = WP!DropConflicts(q)
  /\ \A k, t : TwoWriters!DesiredState(k, t) = WP!DesiredState(k, t)
  /\ \A x, d, t : TwoWriters!TryApply(x, d, t) = WP!TryApply(x, d, t)
  /\ \A d : TwoWriters!FromInner(d) = WP!FromInner(d)
<1>1. ASSUME NEW q PROVE TwoWriters!DropConflicts(q) = WP!DropConflicts(q)
  BY Zenon DEF TwoWriters!DropConflicts, WP!DropConflicts, TwoWriters!FoldLeft, WP!FoldLeft, TwoWriters!MapThenFoldSet,
    WP!MapThenFoldSet, TwoWriters!Max, WP!Max, TwoWriters!AddMutation, WP!AddMutation, TwoWriters!Dropped, WP!Dropped
<1>2. ASSUME NEW k, NEW t PROVE TwoWriters!DesiredState(k, t) = WP!DesiredState(k, t)
  BY Zenon DEF TwoWriters!DesiredState, WP!DesiredState, TwoWriters!FoldLeft, WP!FoldLeft, TwoWriters!MapThenFoldSet,
    WP!MapThenFoldSet, TwoWriters!Max, WP!Max, TwoWriters!InsertOrUpdate, WP!InsertOrUpdate
<1>3. ASSUME NEW x, NEW d, NEW t PROVE TwoWriters!TryApply(x, d, t) = WP!TryApply(x, d, t)
  BY Zenon DEF WP!TryApply, TwoWriters!TryApply, WP!IsExpired, TwoWriters!IsExpired, WP!ExpiresAt,
    TwoWriters!ExpiresAt, WP!Max, TwoWriters!Max, WP!Shift, TwoWriters!Shift, WP!MergeDesired,
    TwoWriters!MergeDesired, WP!InsertOrUpdate, TwoWriters!InsertOrUpdate, WP!IsManual, TwoWriters!IsManual,
    WP!MANUALLY_ADDED, TwoWriters!MANUALLY_ADDED, WP!MANUALLY_REMOVED, TwoWriters!MANUALLY_REMOVED
<1>4. ASSUME NEW d PROVE TwoWriters!FromInner(d) = WP!FromInner(d)
  BY Zenon DEF TwoWriters!FromInner, WP!FromInner
<1>. QED BY <1>1, <1>2, <1>3, <1>4, Zenon

(* The merge of one worker's request is as they say. *)
LEMMA MergeIs ==
  ASSUME NEW ls, NEW q, NEW t
  PROVE  TP!MergedTo(Labels!ComputeNewLabels(ls, q, t).labels["good"], ls["good"], TP!DropConflicts(q).kept["good"], t)
<1>1. PICK k : k = TP!DropConflicts(q).kept["good"] /\ k = Labels!DropConflicts(q).kept["good"]
  BY LabelsSame
<1>2. PICK y, x : y = Labels!ComputeNewLabels(ls, q, t).labels["good"] /\ x = ls["good"]
  OBVIOUS
<1>3. /\ k = <<>> => y = x
      /\ k # <<>> /\ x.known => y = Labels!TryApply(x, Labels!DesiredState(k, t), t).state
      /\ k # <<>> /\ ~x.known => y = Labels!FromInner(Labels!DesiredState(k, t))
  BY <1>1, <1>2 DEF Labels!ComputeNewLabels
<1>4. TP!MergedTo(y, x, k, t)
  BY <1>3, LabelsSame DEF TP!MergedTo
<1>. QED BY <1>1, <1>2, <1>4

(* So is the merge of one of several workers'. *)
LEMMA WritersMergeIs ==
  ASSUME NEW ls, NEW q, NEW t
  PROVE  WP!MergedTo(TwoWriters!ComputeNewLabels(ls, q, t).labels["good"], ls["good"],
                     WP!DropConflicts(q).kept["good"], t)
<1>1. PICK k : k = WP!DropConflicts(q).kept["good"] /\ k = TwoWriters!DropConflicts(q).kept["good"]
  BY WritersSame
<1>2. PICK y, x : y = TwoWriters!ComputeNewLabels(ls, q, t).labels["good"] /\ x = ls["good"]
  OBVIOUS
<1>3. /\ k = <<>> => y = x
      /\ k # <<>> /\ x.known => y = TwoWriters!TryApply(x, TwoWriters!DesiredState(k, t), t).state
      /\ k # <<>> /\ ~x.known => y = TwoWriters!FromInner(TwoWriters!DesiredState(k, t))
  BY <1>1, <1>2 DEF TwoWriters!ComputeNewLabels
<1>4. WP!MergedTo(y, x, k, t)
  BY <1>3, WritersSame DEF WP!MergedTo
<1>. QED BY <1>1, <1>2, <1>4

(* What the one worker reports as dropped is, too. *)
LEMMA ReportSame ==
  ASSUME NEW ls, NEW q, NEW t
  PROVE  \E B : TP!ReportOf(Labels!ComputeNewLabels(ls, q, t).dropped, ls, q, t, B)
<1>. DEFINE split == Labels!DropConflicts(q)
            wanted == {l \in {"good"} : split.kept[l] # <<>>}
            desired == [l \in wanted |-> Labels!DesiredState(split.kept[l], t)]
            tried == [l \in wanted |->
                     IF ls[l].known THEN Labels!TryApply(ls[l], desired[l], t)
                     ELSE [state |-> Labels!FromInner(desired[l]), drop |-> FALSE]]
            blocked == {l \in wanted : tried[l].drop}
<1>1. Labels!ComputeNewLabels(ls, q, t).dropped =
        split.dropped \o
            Labels!FlattenSeq([i \in 1..Labels!Cardinality(blocked) |->
                LET kept == split.kept[Labels!SetToSeq(blocked)[i]]
                IN [j \in DOMAIN kept |-> Labels!Dropped(kept[j], "CANNOT_OVERRIDE_MANUAL")]])
  BY DEF Labels!ComputeNewLabels
<1>2. \A j \in {"good"} : split.kept[j] # <<>> /\ ls[j].known
                           /\ Labels!TryApply(ls[j], Labels!DesiredState(split.kept[j], t), t).drop => j \in blocked
  OBVIOUS
<1>3. blocked \in SUBSET {"good"}
  OBVIOUS
<1>4. PICK B : B = blocked
  OBVIOUS
<1>. HIDE DEF blocked
<1>5. PICK s : s = TP!DropConflicts(q) /\ s = split
  BY LabelsSame
<1>6. \A k : [j \in DOMAIN k |-> Labels!Dropped(k[j], "CANNOT_OVERRIDE_MANUAL")] = TP!Blocked(k)
  BY DEF TP!Blocked, Labels!Dropped, TP!Dropped
<1>7. PICK z, n : z = Labels!SetToSeq(B) /\ z = TP!SetToSeq(B) /\ n = Labels!Cardinality(B) /\ n = TP!Cardinality(B)
  BY LabelsSame
<1>8. PICK ss : ss = [i \in 1..n |-> TP!Blocked(s.kept[z[i]])]
  OBVIOUS
<1>9. Labels!ComputeNewLabels(ls, q, t).dropped = s.dropped \o Labels!FlattenSeq(ss)
  BY <1>1, <1>4, <1>5, <1>6, <1>7, <1>8
<1>10. Labels!ComputeNewLabels(ls, q, t).dropped = s.dropped \o TP!FlattenSeq(ss)
  BY <1>9, LabelsSame
<1>11. \A j \in {"good"} : s.kept[j] # <<>> /\ ls[j].known
                           /\ TP!TryApply(ls[j], TP!DesiredState(s.kept[j], t), t).drop => j \in B
  BY <1>2, <1>4, <1>5, LabelsSame
<1>. QED BY <1>3, <1>4, <1>5, <1>7, <1>8, <1>10, <1>11 DEF TP!ReportOf

(* The requests are made of mutations. *)
LEMMA RequestsAsk == (\A q \in MergeRequests : TP!Asks(q)) /\ \A q \in SmallRequests : WP!Asks(q)
<1>1. ASSUME NEW names, NEW reasons, NEW statuses \in SUBSET (0..3), NEW m \in Mutations(names, reasons, statuses)
      PROVE  m \in [label : names, reason : reasons, status : 0..3, expires : 1..9]
  <2>1. 1 \in 1..9 /\ 9 \in 1..9
    OBVIOUS
  <2>2. m \in [label : names, reason : reasons, status : statuses, expires : {1, 9}]
    BY Zenon DEF Mutations, Never
  <2>. QED BY <2>1, <2>2
<1>2. ASSUME NEW q \in MergeRequests PROVE TP!Asks(q)
  <2>1. PICK M : M = Mutations({"good", ""}, {"r1", "r2"}, 0..3)
    OBVIOUS
  <2>9. MergeMutations \subseteq M
    BY <2>1 DEF MergeMutations
  <2>2. \/ \E m \in M : q = <<m>>
        \/ \E m, n \in M : q = <<m, n>>
    <3>0. \/ q \in {<<m>> : m \in MergeMutations}
          \/ q \in {<<m, n>> : m \in {k \in MergeMutations : k.expires = Never}, n \in MergeMutations}
      BY DEF MergeRequests
    <3>1. CASE q \in {<<m>> : m \in MergeMutations}
      BY <2>9, <3>1
    <3>2. CASE q \in {<<m, n>> : m \in {k \in MergeMutations : k.expires = Never}, n \in MergeMutations}
      <4>1. PICK m \in {k \in MergeMutations : k.expires = Never}, n \in MergeMutations : q = <<m, n>>
        BY <3>2
      <4>. QED BY <2>9, <4>1
    <3>. QED BY <3>0, <3>1, <3>2
  <2>3. PICK T : T = TP!Mutated /\ T = [label : {"good"} \cup {""}, reason : {"r1", "r2"}, status : 0..3, expires : 1..9]
    BY Zenon DEF TP!Mutated, TP!LabelStatus, TP!REMOVED, TP!MANUALLY_ADDED, Never
  <2>4. M \subseteq T
    <3>1. {"good"} \cup {""} = {"good", ""}
      OBVIOUS
    <3>. QED BY <1>1, <2>1, <2>3, <3>1
  <2>10. \A m, n \in T : <<m>> \in Seq(T) /\ <<m, n>> \in Seq(T)
    OBVIOUS
  <2>5. q \in Seq(T)
    BY <2>2, <2>4, <2>10, Zenon
  <2>11. \A x \in T : x.label \in {"good"} \cup {""}
    BY <2>3
  <2>6. ASSUME NEW i \in 1..Len(q) PROVE q[i].label \in {"good"} \cup {""}
    <3>1. PICK x \in T : x = q[i]
      BY <2>5
    <3>2. x.label \in {"good"} \cup {""}
      BY <2>11, Zenon
    <3>. QED BY <3>1, <3>2, Zenon
  <2>7. q \in Seq(TP!Mutated)
    BY <2>3, <2>5
  <2>. QED BY <2>6, <2>7 DEF TP!Asks
<1>3. ASSUME NEW q \in SmallRequests PROVE WP!Asks(q)
  <2>1. PICK m \in Mutations({"good", "bad"}, {"r1"}, {0, 1, 3}) : q = <<m>>
    BY DEF SmallRequests
  <2>3. PICK T : T = WP!Mutated /\ T = [label : {"good", "bad"} \cup {""}, reason : {"r1"}, status : 0..3, expires : 1..9]
    BY Zenon DEF WP!Mutated, WP!LabelStatus, WP!REMOVED, WP!MANUALLY_ADDED, Never
  <2>4. m \in T
    <3>1. {0, 1, 3} \in SUBSET (0..3)
      OBVIOUS
    <3>2. m \in [label : {"good", "bad"}, reason : {"r1"}, status : 0..3, expires : 1..9]
      BY <1>1, <2>1, <3>1
    <3>. QED BY <2>3, <3>2
  <2>5. q \in Seq(T)
    BY <2>1, <2>4
  <2>11. \A x \in T : x.label \in {"good", "bad"} \cup {""}
    BY <2>3
  <2>6. ASSUME NEW i \in 1..Len(q) PROVE q[i].label \in {"good", "bad"} \cup {""}
    <3>1. PICK x \in T : x = q[i]
      BY <2>5
    <3>2. x.label \in {"good", "bad"} \cup {""}
      BY <2>11, Zenon
    <3>. QED BY <3>1, <3>2, Zenon
  <2>7. q \in Seq(WP!Mutated)
    BY <2>3, <2>5
  <2>. QED BY <2>6, <2>7 DEF WP!Asks
<1>. QED BY <1>2, <1>3

(* The merge of a request keeps a label that is known from being without   *)
(* reasons.                                                                *)
LEMMA MergesGiveReasons ==
  ASSUME NEW ls, StateOk(ls["good"]), TP!KnownOk(ls["good"]), NEW q, NEW t \in Nat
  PROVE  /\ q \in MergeRequests => TP!KnownOk(Labels!ComputeNewLabels(ls, q, t).labels["good"])
         /\ q \in SmallRequests => TP!KnownOk(TwoWriters!ComputeNewLabels(ls, q, t).labels["good"])
<1>1. PICK x : x = ls["good"] /\ TP!KnownOk(x) /\ DOMAIN x = StateFields
  BY DEF StateOk
<1>2. TP!IsState(x) /\ WP!IsState(x)
  BY <1>1 DEF TP!IsState, WP!IsState, StateFields
<1>3. \A y : TP!KnownOk(y) <=> WP!KnownOk(y)
  BY DEF TP!KnownOk, WP!KnownOk, TP!ReasonsOk, WP!ReasonsOk
<1>4. ASSUME q \in MergeRequests PROVE TP!KnownOk(Labels!ComputeNewLabels(ls, q, t).labels["good"])
  <2>1. PICK y : y = Labels!ComputeNewLabels(ls, q, t).labels["good"] /\ TP!MergedTo(y, x, TP!DropConflicts(q).kept["good"], t)
    BY <1>1, MergeIs
  <2>2. TP!MergedTo(y, x, TP!DropConflicts(q).kept["good"], t)
    BY <2>1
  <2>3. TP!Asks(q) /\ "good" \in {"good"} /\ TP!KnownOk(x)
    BY <1>1, <1>4, RequestsAsk
  <2>4. TP!KnownOk(y)
    BY <1>2, <2>2, <2>3, TP!MergeKeepsReasons
  <2>. QED BY <2>1, <2>4
<1>5. ASSUME q \in SmallRequests PROVE TP!KnownOk(TwoWriters!ComputeNewLabels(ls, q, t).labels["good"])
  <2>1. PICK y : y = TwoWriters!ComputeNewLabels(ls, q, t).labels["good"] /\ WP!MergedTo(y, x, WP!DropConflicts(q).kept["good"], t)
    BY <1>1, WritersMergeIs
  <2>2. WP!MergedTo(y, x, WP!DropConflicts(q).kept["good"], t)
    BY <2>1
  <2>3. WP!Asks(q) /\ "good" \in {"good", "bad"} /\ WP!KnownOk(x)
    BY <1>1, <1>3, <1>5, RequestsAsk
  <2>4. WP!KnownOk(y)
    BY <1>2, <2>2, <2>3, WP!MergeKeepsReasons
  <2>. QED BY <1>3, <2>1, <2>4
<1>. QED BY <1>4, <1>5

(* A label that is known has reasons.  What a transaction has read is the  *)
(* row, for one worker because no other writes, for several because it     *)
(* holds the row's lock, which exists from the start.                      *)
LabelsInv ==
  /\ StateOk(labels["good"]) /\ TP!KnownOk(labels["good"]) /\ now \in Nat
  /\ subject = "labels" =>
       /\ DOMAIN txn = {Ahead}
       /\ \A w \in {Ahead} : txn[w].state = "read" => txn[w].labels = labels /\ txn[w].mutations \in MergeRequests
  /\ subject = "writers" =>
       /\ exists /\ DOMAIN txn = Workers
       /\ \A w \in Workers : txn[w] # TwoWriters!Idle =>
            lock = w /\ txn[w].labels = labels /\ txn[w].mutations \in SmallRequests

(* A step of the labels is one of the subject's. *)
LEMMA LabelsStepOfSubject ==
  ASSUME [Next]_vars
  PROVE  /\ subject' = subject
         /\ subject = "labels" => Labels!Next \/ UNCHANGED labelVars
         /\ subject = "writers" => TwoWriters!Next \/ UNCHANGED labelVars
         /\ subject \notin {"labels", "writers"} => UNCHANGED labelVars
BY DEF Next, vars

(* Every entity begins without labels. *)
LEMMA LabelsInitInv == ASSUME Init PROVE LabelsInv
<1>1. labels["good"] = [status |-> 0, reasons |-> <<>>, previous |-> <<>>, known |-> FALSE]
  BY DEF Init, Labels!Init, TwoWriters!Init, Labels!NoLabels, TwoWriters!NoLabels, Labels!Absent, TwoWriters!Absent,
    Labels!REMOVED, TwoWriters!REMOVED
<1>2. StateOk(labels["good"])
  <2>1. <<>> \in Seq({}) /\ DOMAIN <<>> = {}
    OBVIOUS
  <2>. QED BY <1>1, <2>1 DEF StateOk, StateFields
<1>3. subject = "labels" => txn = [w \in {Ahead} |-> Labels!Idle]
  BY DEF Init, Labels!Init
<1>4. subject = "writers" => exists = TRUE /\ txn = [w \in Workers |-> TwoWriters!Idle]
  BY DEF Init, TwoWriters!Init
<1>5. TP!KnownOk(labels["good"])
  BY <1>1 DEF TP!KnownOk
<1>6. now \in Nat
  BY DEF Init, Labels!Init, TwoWriters!Init
<1>. QED BY <1>2, <1>3, <1>4, <1>5, <1>6 DEF LabelsInv, Labels!Idle

(* What a step does to the labels. *)
Spared ==
  /\ Labels!Trail(labels["good"]) \subseteq Labels!Trail(labels'["good"])
  /\ subject = "writers" /\ labels' # labels =>
       \E w \in Workers, q \in SmallRequests : TwoWriters!Merges(w, q)

(* A step of the one worker. *)
LEMMA OneWorkerKeeps ==
  ASSUME LabelsInv, subject = "labels", subject' = subject, Labels!Next
  PROVE  LabelsInv' /\ Spared
<1>1. ASSUME labels' = labels, now' = now, NEW w \in {Ahead}, NEW x, txn' = [txn EXCEPT ![w] = x],
             x.state = "read" => x.labels = labels /\ x.mutations \in MergeRequests
      PROVE  LabelsInv' /\ Spared
  <2>1. w = Ahead /\ DOMAIN txn = {Ahead}
    BY DEF LabelsInv
  <2>2. DOMAIN txn' = {Ahead} /\ txn'[Ahead] = x
    BY <1>1, <2>1
  <2>3. \A v \in {Ahead} : txn'[v].state = "read" => txn'[v].labels = labels' /\ txn'[v].mutations \in MergeRequests
    BY <1>1, <2>2
  <2>. QED BY <1>1, <2>2, <2>3 DEF LabelsInv, Spared
<1>2. ASSUME NEW w \in {Ahead}, Labels!WriteBack(w) PROVE LabelsInv' /\ Spared
  <2>1. /\ labels' = Labels!ComputeNewLabels(labels, txn[w].mutations, Labels!Clock(w)).labels
        /\ txn' = [txn EXCEPT ![w] = Labels!Idle] /\ now' = now /\ txn[w].mutations \in MergeRequests
    BY <1>2 DEF Labels!WriteBack, LabelsInv
  <2>2. PICK rows, q, t, new : /\ rows = labels /\ q = txn[w].mutations /\ t = Labels!Clock(w)
                               /\ new = Labels!ComputeNewLabels(rows, q, t).labels
    OBVIOUS
  <2>3. labels' = new
    BY <2>1, <2>2
  <2>4. StateOk(new["good"]) /\ Labels!Trail(rows["good"]) \subseteq Labels!Trail(new["good"])
    BY <2>2, MergeKeeps DEF LabelsInv
  <2>5. DOMAIN txn' = {Ahead} /\ txn'[Ahead].state # "read"
    BY <2>1 DEF LabelsInv, Labels!Idle
  <2>6. t \in Nat
    BY <2>2 DEF LabelsInv, Labels!Clock
  <2>7. TP!KnownOk(new["good"])
    BY <2>1, <2>2, <2>6, MergesGiveReasons DEF LabelsInv
  <2>. QED BY <2>1, <2>2, <2>3, <2>4, <2>5, <2>7 DEF LabelsInv, Spared
<1>3. ASSUME NEW w \in {Ahead}, NEW q \in MergeRequests, Labels!Read(w, q) PROVE LabelsInv' /\ Spared
  <2>1. PICK x : x = [state |-> "read", labels |-> labels, mutations |-> q]
    OBVIOUS
  <2>2. labels' = labels /\ now' = now /\ txn' = [txn EXCEPT ![w] = x] /\ x.labels = labels /\ x.mutations = q
    BY <1>3, <2>1 DEF Labels!Read
  <2>. QED BY <1>1, <2>2
<1>4. ASSUME NEW w \in {Ahead}, Labels!Rollback(w) PROVE LabelsInv' /\ Spared
  <2>1. PICK x : x = Labels!Idle
    OBVIOUS
  <2>2. labels' = labels /\ now' = now /\ txn' = [txn EXCEPT ![w] = x] /\ x.state # "read"
    BY <1>4, <2>1 DEF Labels!Rollback, Labels!Idle
  <2>. QED BY <1>1, <2>2
<1>5. CASE Labels!Tick
  <2>1. UNCHANGED <<labels, txn>> /\ now' \in Nat
    BY <1>5 DEF Labels!Tick, LabelsInv
  <2>. QED BY <2>1 DEF LabelsInv, Spared
<1>. QED BY <1>2, <1>3, <1>4, <1>5 DEF Labels!Next

(* A step of one of several workers: whoever has read holds the lock. *)
LEMMA WriterKeeps ==
  ASSUME LabelsInv, subject = "writers", subject' = subject, TwoWriters!Next
  PROVE  LabelsInv' /\ Spared
<1>. DEFINE Reading(x) == x.labels = labels /\ x.mutations \in SmallRequests
<1>1. /\ exists /\ DOMAIN txn = Workers /\ StateOk(labels["good"]) /\ TP!KnownOk(labels["good"]) /\ now \in Nat
      /\ \A w \in Workers : txn[w] # TwoWriters!Idle => lock = w /\ Reading(txn[w])
  BY DEF LabelsInv
<1>2. ASSUME NEW w \in Workers, NEW q \in SmallRequests, TwoWriters!Read(w, q) PROVE LabelsInv' /\ Spared
  <2>1. PICK x : x = [state |-> "read", labels |-> labels, mutations |-> q]
    OBVIOUS
  <2>2. labels' = labels /\ now' = now /\ exists' = exists /\ lock' = w /\ txn' = [txn EXCEPT ![w] = x] /\ lock = None
    BY <1>1, <1>2, <2>1 DEF TwoWriters!Read
  <2>3. \A v \in Workers : txn[v] = TwoWriters!Idle
    BY <1>1, <2>2, NoneAssumption
  <2>4. x.labels = labels /\ x.mutations = q
    BY <2>1
  <2>. QED BY <1>1, <2>2, <2>3, <2>4 DEF LabelsInv, Spared, TwoWriters!Idle
<1>3. ASSUME NEW w \in Workers, TwoWriters!WriteBack(w) PROVE LabelsInv' /\ Spared
  <2>1. txn[w] # TwoWriters!Idle
    BY <1>3 DEF TwoWriters!WriteBack, TwoWriters!Idle
  <2>2. lock = w /\ txn[w].labels = labels /\ txn[w].mutations \in SmallRequests
    BY <1>1, <2>1
  <2>3. /\ labels' = TwoWriters!ComputeNewLabels(labels, txn[w].mutations, TwoWriters!Clock(w)).labels
        /\ txn' = [txn EXCEPT ![w] = TwoWriters!Idle] /\ exists' /\ now' = now
    BY <1>3, <2>2 DEF TwoWriters!WriteBack
  <2>4. TwoWriters!Merges(w, txn[w].mutations)
    BY <2>3 DEF TwoWriters!Merges
  <2>5. PICK rows, q, t, new : /\ rows = labels /\ q = txn[w].mutations /\ t = TwoWriters!Clock(w)
                               /\ new = TwoWriters!ComputeNewLabels(rows, q, t).labels
    OBVIOUS
  <2>6. labels' = new
    BY <2>3, <2>5
  <2>7. StateOk(new["good"]) /\ Labels!Trail(rows["good"]) \subseteq Labels!Trail(new["good"])
    BY <1>1, <2>5, WritersMergeKeeps
  <2>8. DOMAIN txn' = Workers /\ \A v \in Workers : txn'[v] = TwoWriters!Idle
    BY <1>1, <2>2, <2>3
  <2>9. t \in Nat
    BY <1>1, <2>5 DEF TwoWriters!Clock
  <2>10. TP!KnownOk(new["good"])
    BY <1>1, <2>2, <2>5, <2>9, MergesGiveReasons
  <2>11. now' \in Nat
    BY <1>1, <2>3
  <2>. QED BY <2>2, <2>3, <2>4, <2>5, <2>6, <2>7, <2>8, <2>10, <2>11 DEF LabelsInv, Spared
<1>4. ASSUME NEW w \in Workers, TwoWriters!Rollback(w) PROVE LabelsInv' /\ Spared
  <2>1. txn[w] # TwoWriters!Idle
    BY <1>4 DEF TwoWriters!Rollback, TwoWriters!Idle
  <2>2. labels' = labels /\ now' = now /\ exists' = exists /\ txn' = [txn EXCEPT ![w] = TwoWriters!Idle]
    BY <1>4 DEF TwoWriters!Rollback
  <2>3. DOMAIN txn' = Workers /\ \A v \in Workers : txn'[v] = TwoWriters!Idle
    BY <1>1, <2>1, <2>2
  <2>. QED BY <1>1, <2>2, <2>3 DEF LabelsInv, Spared
<1>5. CASE TwoWriters!Tick
  <2>1. UNCHANGED <<labels, exists, lock, txn>> /\ now' \in Nat
    BY <1>1, <1>5 DEF TwoWriters!Tick
  <2>. QED BY <2>1 DEF LabelsInv, Spared
<1>. QED BY <1>2, <1>3, <1>4, <1>5 DEF TwoWriters!Next

(* Every step keeps the invariant and spares what labels hold. *)
LEMMA LabelsNextKeepsInv == ASSUME LabelsInv, [Next]_vars PROVE LabelsInv' /\ Spared
<1>1. subject' = subject
  BY LabelsStepOfSubject
<1>2. CASE UNCHANGED labelVars
  BY <1>1, <1>2 DEF LabelsInv, Spared, labelVars
<1>3. CASE subject = "labels" /\ Labels!Next
  BY <1>1, <1>3, OneWorkerKeeps
<1>4. CASE subject = "writers" /\ TwoWriters!Next
  BY <1>1, <1>4, WriterKeeps
<1>. QED BY <1>2, <1>3, <1>4, LabelsStepOfSubject

(* The labels' invariant holds in every behaviour. *)
LEMMA LabelsInvHolds == Spec => []LabelsInv
<1>1. Init => LabelsInv
  BY LabelsInitInv
<1>2. LabelsInv /\ [Next]_vars => LabelsInv'
  BY LabelsNextKeepsInv
<1>. QED BY <1>1, <1>2, PTL DEF Spec

(* What the one worker's requests do, and what rules see. *)
LEMMA LabelsInvGives == ASSUME LabelsInv PROVE LabelsSound
<1>1. Labels!KnownLabelHasReason
  BY DEF LabelsInv, Labels!KnownLabelHasReason, TP!KnownOk, TP!ReasonsOk
<1>2. ASSUME subject = "labels" PROVE Labels!StrongestSurvive
  <2>1. ASSUME NEW w \in {Ahead}, txn[w].state = "read" PROVE Labels!SplitByStrength(txn[w].mutations)
    <3>1. PICK q : q = txn[w].mutations /\ TP!Asks(q)
      BY <1>2, <2>1, RequestsAsk DEF LabelsInv
    <3>2. TP!SplitByStrength(q)
      BY <3>1, TP!RequestsSplitByStrength
    <3>. QED BY <3>1, <3>2, LabelsSame
  <2>. QED BY <2>1 DEF Labels!StrongestSurvive
<1>3. ASSUME NEW w \in {Ahead} PROVE Labels!Clock(w) \in Nat
  BY DEF LabelsInv, Labels!Clock
<1>4. Labels!SeenConsistently
  <2>1. ASSUME NEW l \in {"good"}, NEW w \in {Ahead} PROVE Labels!OneView(labels[l], Labels!Clock(w))
    <3>1. PICK x : x = labels[l] /\ TP!KnownOk(x)
      BY DEF LabelsInv
    <3>2. PICK t \in Nat : t = Labels!Clock(w)
      BY <1>3
    <3>3. Never \in Nat /\ 1 \in Nat
      BY DEF Never
    <3>4. TP!OneView(x, t)
      BY <3>1, <3>2, <3>3, TP!StatesHaveOneView
    <3>. QED BY <3>1, <3>2, <3>4, LabelsSame
  <2>. QED BY <2>1 DEF Labels!SeenConsistently
<1>5. Labels!ManualHolds
  <2>1. ASSUME NEW q \in MergeRequests, NEW w \in {Ahead}, NEW l \in {"good"}
        PROVE  Labels!ManualStays(labels, q, l, Labels!Clock(w))
    <3>1. PICK ls, t : ls = labels /\ t = Labels!Clock(w)
      OBVIOUS
    <3>. SUFFICES Labels!ManualStays(ls, q, "good", t)
      BY <3>1
    <3>. SUFFICES ASSUME ls["good"].known, Labels!IsManual(ls["good"].status), ~Labels!IsExpired(ls["good"], t),
                         \A i \in DOMAIN q : ~Labels!IsManual(q[i].status)
                  PROVE  /\ Labels!ComputeNewLabels(ls, q, t).labels["good"] = ls["good"]
                         /\ \A i \in DOMAIN q : q[i].label = "good" =>
                              \E d \in Labels!ToSet(Labels!ComputeNewLabels(ls, q, t).dropped) : d.mutation = q[i]
      BY Zenon DEF Labels!ManualStays
    <3>2. \A st : Labels!IsManual(st) <=> TP!IsManual(st)
      BY Zenon DEF Labels!IsManual, TP!IsManual, TP!MANUALLY_ADDED, Labels!MANUALLY_ADDED, TP!MANUALLY_REMOVED,
        Labels!MANUALLY_REMOVED
    <3>3. TP!Refuses(ls, q, "good", t)
      BY <3>2, LabelsSame, Zenon DEF TP!Refuses
    <3>4. PICK y : y = Labels!ComputeNewLabels(ls, q, t).labels["good"]
                   /\ TP!MergedTo(y, ls["good"], TP!DropConflicts(q).kept["good"], t)
      BY MergeIs
    <3>5. PICK rep, B : rep = Labels!ComputeNewLabels(ls, q, t).dropped /\ TP!ReportOf(rep, ls, q, t, B)
      BY ReportSame
    <3>6. TP!MergedTo(y, ls["good"], TP!DropConflicts(q).kept["good"], t) /\ TP!ReportOf(rep, ls, q, t, B)
      BY <3>4, <3>5
    <3>7. TP!Asks(q) /\ "good" \in {"good"}
      BY RequestsAsk
    <3>8. TP!IsFiniteSet({"good"})
      <4>1. IsFiniteSet({"good"})
        BY FS_Singleton
      <4>. QED BY <4>1, Zenon DEF TP!IsFiniteSet, IsFiniteSet
    <3>9. TP!Untouched(y, rep, ls, q, "good")
      BY <3>3, <3>6, <3>7, <3>8, TP!ManualStatesHold
    <3>10. TP!ToSet(rep) = Labels!ToSet(rep)
      BY Zenon DEF TP!ToSet, Labels!ToSet
    <3>. QED BY <3>4, <3>5, <3>9, <3>10 DEF TP!Untouched
  <2>. QED BY <2>1 DEF Labels!ManualHolds
<1>. QED BY <1>1, <1>2, <1>4, <1>5 DEF LabelsSound

(* Labels are sound however long a behaviour is: a label that is known has *)
(* a reason, a state that a human set stays until it expires and what      *)
(* rules asked of it is reported, of a request the strongest mutations of  *)
(* a label survive, and a rule sees a label as added or as removed         *)
(* (LabelState.try_apply_desired_state, LabelsProvider, HasLabel).         *)
THEOREM LabelsAreSound == Spec => []LabelsSound
BY LabelsInvHolds, LabelsInvGives, PTL

-----------------------------------------------------------------------------
(* The bulk label task.                                                    *)

(* The subject "task" takes the steps of the module its proofs are about. *)
LEMMA TaskSame == Task!Next => TP!Next
<1>1. ASSUME NEW s, NEW o, NEW st PROVE Task!Release(s, o, st) => TP!Release(s, o, st)
  BY Zenon DEF Task!Release, TP!Release, Task!Saved, TP!Saved, Task!Idle, TP!Idle
<1>2. ASSUME NEW s, NEW o, NEW r PROVE Task!Fail(s, o, r) => TP!Fail(s, o, r)
  BY <1>1 DEF Task!Fail, TP!Fail
<1>3. ASSUME NEW s, NEW o, NEW r PROVE Task!Save(s, o, r) => TP!Save(s, o, r)
  BY Zenon DEF Task!Save, TP!Save, Task!Saved, TP!Saved
<1>4. ASSUME NEW s, NEW st, NEW c, NEW n PROVE Task!Heartbeat(s, st, c, n) => TP!Heartbeat(s, st, c, n)
  BY <1>3, Zenon DEF Task!Heartbeat, TP!Heartbeat
<1>5. ASSUME NEW s PROVE Task!Claim(s) => TP!Claim(s)
  BY Zenon DEF Task!Claim, TP!Claim, Task!TakeUp, TP!TakeUp, Task!Idle, TP!Idle, Task!non_final_statuses,
    TP!non_final_statuses
<1>6. ASSUME NEW s PROVE Task!Start(s) => TP!Start(s)
  BY <1>1, <1>4, Zenon DEF Task!Start, TP!Start
<1>7. ASSUME NEW s PROVE Task!Query(s) => TP!Query(s)
  BY <1>2, <1>4, Zenon DEF Task!Query, TP!Query
<1>8. ASSUME NEW s PROVE Task!Check(s) => TP!Check(s)
  BY <1>2, Zenon DEF Task!Check, TP!Check, Task!InMargin, TP!InMargin
<1>9. ASSUME NEW s PROVE Task!Label(s) => TP!Label(s)
  BY <1>2, <1>4, Zenon DEF Task!Label, TP!Label, Task!WithBulkLabel, TP!WithBulkLabel
<1>10. ASSUME NEW s PROVE Task!Advance(s) => TP!Advance(s)
  BY <1>4, Zenon DEF Task!Advance, TP!Advance
<1>11. ASSUME NEW s PROVE Task!Finish(s) => TP!Finish(s)
  BY <1>4, Zenon DEF Task!Finish, TP!Finish
<1>12. ASSUME NEW s PROVE Task!Complete(s) => TP!Complete(s)
  BY <1>3, Zenon DEF Task!Complete, TP!Complete
<1>13. ASSUME NEW s PROVE Task!SendAnalytics(s) => TP!SendAnalytics(s)
  BY <1>2, Zenon DEF Task!SendAnalytics, TP!SendAnalytics, Task!Idle, TP!Idle
<1>14. ASSUME NEW s PROVE Task!Crash(s) => TP!Crash(s)
  BY Zenon DEF Task!Crash, TP!Crash, Task!Idle, TP!Idle
<1>15. Task!Expire \/ Task!BackoffEnds \/ Task!StartRollback => TP!Expire \/ TP!BackoffEnds \/ TP!StartRollback
  BY Zenon DEF Task!Expire, TP!Expire, Task!BackoffEnds, TP!BackoffEnds, Task!StartRollback, TP!StartRollback,
    Task!final_statuses, TP!final_statuses
<1>16. ASSUME NEW e PROVE /\ Task!AddOtherReason(e) => TP!AddOtherReason(e)
                          /\ Task!RollbackReads(e) => TP!RollbackReads(e)
                          /\ Task!RollbackWrites(e) => TP!RollbackWrites(e)
  <2>1. Task!AddOtherReason(e) => TP!AddOtherReason(e)
    BY Zenon DEF Task!AddOtherReason, TP!AddOtherReason, Task!WithOtherReason, TP!WithOtherReason
  <2>2. Task!RollbackReads(e) => TP!RollbackReads(e)
    BY Zenon DEF Task!RollbackReads, TP!RollbackReads
  <2>3. Task!RollbackWrites(e) => TP!RollbackWrites(e)
    BY Zenon DEF Task!RollbackWrites, TP!RollbackWrites
  <2>. QED BY <2>1, <2>2, <2>3
<1>17. Task!Entities = TP!Entities
  BY Zenon DEF Task!Entities, TP!Entities, Task!ToSet, TP!ToSet
<1>18. ASSUME NEW s PROVE Task!SinkStep(s) => TP!SinkStep(s)
  BY <1>5, <1>6, <1>7, <1>8, <1>9, <1>10, <1>11, <1>12, <1>13, Zenon DEF Task!SinkStep, TP!SinkStep
<1>. QED BY <1>14, <1>15, <1>16, <1>17, <1>18, Zenon DEF Task!Next, TP!Next

(* The constants of the subject are as the proofs need them. *)
LEMMA TaskParameters == TP!Parameters
<1>1. TP!The = <<"a", "b">>
  BY DEF TP!The
<1>2. <<"a", "b">> \in Seq(TP!ToSet(<<"a", "b">>))
  <2>1. TP!ToSet(<<"a", "b">>) = {"a", "b"}
    BY DEF TP!ToSet
  <2>. QED BY <2>1
<1>. QED BY <1>1, <1>2 DEF TP!Parameters

(* The task's invariants hold in every behaviour. *)
LEMMA TaskInvHolds == Spec => []TP!TaskInv /\ []TP!RollbackInv
<1>1. Init => TP!TaskInv /\ TP!RollbackInv
  <2>1. Task!Init => TP!Init
    <3>1. Task!Entities = TP!Entities
      BY Zenon DEF Task!Entities, TP!Entities, Task!ToSet, TP!ToSet
    <3>. QED BY <3>1, Zenon DEF Task!Init, TP!Init, Task!Idle, TP!Idle
  <2>2. TP!Init => TP!RollbackInv
    BY DEF TP!Init, TP!RollbackInv
  <2>. QED BY <2>1, <2>2, TaskParameters, TP!TaskInitInv DEF Init
<1>2. TP!TaskInv /\ TP!RollbackInv /\ [Next]_vars => TP!TaskInv' /\ TP!RollbackInv'
  <2>. SUFFICES ASSUME TP!TaskInv, TP!RollbackInv, [Next]_vars PROVE TP!TaskInv' /\ TP!RollbackInv'
    OBVIOUS
  <2>1. Task!Next \/ UNCHANGED taskVars
    BY DEF Next, vars
  <2>2. TP!Next \/ UNCHANGED TP!vars
    BY <2>1, TaskSame DEF taskVars, TP!vars
  <2>. QED BY <2>2, TaskParameters, TP!TaskNextKeepsInv, TP!RollbackKeeps
<1>. QED BY <1>1, <1>2, PTL DEF Spec

(* The definitions of the properties are the same. *)
LEMMA TaskPropertiesSame == TP!TaskSafe => TaskSound
<1>1. TP!PrefixLabelled => Task!PrefixLabelled
  BY Zenon DEF TP!PrefixLabelled, Task!PrefixLabelled, TP!Stable, Task!Stable
<1>2. TP!CompleteMeansLabelled => Task!CompleteMeansLabelled
  BY Zenon DEF TP!CompleteMeansLabelled, Task!CompleteMeansLabelled, TP!ToSet, Task!ToSet
<1>3. TP!ExpectedAdjustedOnce => Task!ExpectedAdjustedOnce
  BY Zenon DEF TP!ExpectedAdjustedOnce, Task!ExpectedAdjustedOnce, TP!InMargin, Task!InMargin, TP!Stable, Task!Stable
<1>4. TP!BoundedRuns => Task!BoundedRuns
  BY Zenon DEF TP!BoundedRuns, Task!BoundedRuns
<1>. QED BY <1>1, <1>2, <1>3, <1>4 DEF TP!TaskSafe, TaskSound

(* Resuming a bulk label task skips no entity, one that says COMPLETE has  *)
(* labelled all, the excluded are subtracted once and it is processed      *)
(* fewer than MAX_ATTEMPTS times, for any number of sinks that take it     *)
(* over (BulkLabelSink, BulkLabelTask.claim).                              *)
THEOREM TaskIsSound == Spec => []TaskSound
<1>1. TP!TaskInv => TaskSound
  BY TaskParameters, TP!TaskInvGives, TaskPropertiesSame
<1>. QED BY <1>1, TaskInvHolds, PTL

-----------------------------------------------------------------------------
(* No step takes away what another has put there: a release of the lock    *)
(* leaves the key of another process, a write of a row of labels is the    *)
(* merge of one request into the row it replaces, for any number of        *)
(* workers, no label's history loses a reason, and a rollback of a bulk    *)
(* label task takes from a label no other reason than one that came after  *)
(* it had read the label.                                                  *)
THEOREM OthersAreSpared == Spec => OthersSpared
<1>. DEFINE Atomic == subject = "writers" /\ labels' # labels =>
                        \E w \in Workers, q \in SmallRequests : TwoWriters!Merges(w, q)
            Kept == \A l \in {"good"} : Labels!Trail(labels[l]) \subseteq Labels!Trail(labels'[l])
            Late == \A e \in Task!Entities : label[e] \in {"other", "mixed"} /\ label'[e] = "removed" => e \in rollback.late
<1>1. LabelsInv /\ [Next]_vars => [Atomic]_labelVars /\ [Kept]_(Labels!vars)
  BY LabelsNextKeepsInv DEF Spared
<1>2. TP!TaskInv /\ TP!RollbackInv /\ [Next]_vars => [Late]_(Task!vars)
  <2>. SUFFICES ASSUME TP!TaskInv, TP!RollbackInv, [Next]_vars PROVE Late
    OBVIOUS
  <2>1. Task!Next \/ UNCHANGED taskVars
    BY DEF Next, vars
  <2>2. TP!Next \/ UNCHANGED TP!vars
    BY <2>1, TaskSame DEF taskVars, TP!vars
  <2>3. \A e \in TP!Entities : label[e] \in {"other", "mixed"} /\ label'[e] = "removed" => e \in rollback.late
    BY <2>2, TP!RollbackKeeps DEF TP!Spares
  <2>4. Task!Entities = TP!Entities
    BY Zenon DEF Task!Entities, TP!Entities, Task!ToSet, TP!ToSet
  <2>. QED BY <2>3, <2>4
<1>3. Spec => [][Atomic]_labelVars /\ [][Kept]_(Labels!vars)
  BY <1>1, LabelsInvHolds, PTL DEF Spec
<1>4. Spec => [][Late]_(Task!vars)
  BY <1>2, TaskInvHolds, PTL DEF Spec
<1>5. Spec => Labels!ReasonsNeverForgotten
  BY <1>3 DEF Labels!ReasonsNeverForgotten
<1>6. Spec => Task!RollbackSparesOthers
  BY <1>4 DEF Task!RollbackSparesOthers
<1>. QED BY <1>3, <1>5, <1>6, ReleasesTakeTheirOwn DEF OthersSpared

-----------------------------------------------------------------------------
(* The accessor of an external service, used in three ways.                *)

CG == INSTANCE ServiceCacheProofs WITH Keys <- {"k", "l"}, Ops <- {"get"}, HasTTL <- TRUE, CountErrorOnce <- TRUE, NoEntry <- None
CB == INSTANCE ServiceCacheProofs WITH Keys <- {"k", "l"}, Ops <- {"get", "batch_get"}, HasTTL <- FALSE, CountErrorOnce <- FALSE, NoEntry <- None
CT == INSTANCE ServiceCacheProofs WITH Keys <- {"k", "l"}, Ops <- {"get", "get_without_cache"}, HasTTL <- TRUE, CountErrorOnce <- FALSE, NoEntry <- None

(* The subject "get" takes the steps of the module its proofs are about. *)
LEMMA GetsSame == Gets!Next => CG!Next
<1>1. Gets!Start => CG!Start
  <2>1. ASSUME NEW c, NEW ks PROVE Gets!StartBatch(c, ks) => CG!StartBatch(c, ks)
    BY Zenon DEF Gets!StartBatch, Gets!Missing, Gets!Idle, Gets!Cardinality, CG!StartBatch, CG!Missing,
      CG!Idle, CG!Cardinality
  <2>2. ASSUME NEW c, NEW k
        PROVE  /\ Gets!StartGet(c, k) => CG!StartGet(c, k)
               /\ Gets!StartGetCached(c, k) => CG!StartGetCached(c, k)
               /\ Gets!StartGetWithoutCache(c, k) => CG!StartGetWithoutCache(c, k)
    BY Zenon DEF Gets!StartGet, Gets!StartGetCached, Gets!StartGetWithoutCache, Gets!Place, Gets!Missing,
      Gets!Idle, CG!StartGet, CG!StartGetCached, CG!StartGetWithoutCache, CG!Place, CG!Missing,
      CG!Idle
  <2>. QED BY <2>1, <2>2, Zenon DEF Gets!Start, CG!Start
<1>2. Gets!Steps \/ Gets!Expire => CG!Steps \/ CG!Expire
  BY Zenon DEF Gets!Steps, Gets!Expire, Gets!Answer, Gets!AnswerBatch, Gets!CollectBatch, Gets!Wake,
      Gets!Entries, Gets!GetError, CG!Steps, CG!Expire, CG!Answer, CG!AnswerBatch,
      CG!CollectBatch, CG!Wake, CG!Entries, CG!GetError
<1>. QED BY <1>1, <1>2 DEF Gets!Next, CG!Next

(* The subject "batch" takes the steps of the module its proofs are about. *)
LEMMA BatchSame == Batch!Next => CB!Next
<1>1. Batch!Start => CB!Start
  <2>1. ASSUME NEW c, NEW ks PROVE Batch!StartBatch(c, ks) => CB!StartBatch(c, ks)
    BY Zenon DEF Batch!StartBatch, Batch!Missing, Batch!Idle, Batch!Cardinality, CB!StartBatch, CB!Missing,
      CB!Idle, CB!Cardinality
  <2>2. ASSUME NEW c, NEW k
        PROVE  /\ Batch!StartGet(c, k) => CB!StartGet(c, k)
               /\ Batch!StartGetCached(c, k) => CB!StartGetCached(c, k)
               /\ Batch!StartGetWithoutCache(c, k) => CB!StartGetWithoutCache(c, k)
    BY Zenon DEF Batch!StartGet, Batch!StartGetCached, Batch!StartGetWithoutCache, Batch!Place,
      Batch!Missing, Batch!Idle, CB!StartGet, CB!StartGetCached, CB!StartGetWithoutCache,
      CB!Place, CB!Missing, CB!Idle
  <2>. QED BY <2>1, <2>2, Zenon DEF Batch!Start, CB!Start
<1>2. Batch!Steps \/ Batch!Expire => CB!Steps \/ CB!Expire
  BY Zenon DEF Batch!Steps, Batch!Expire, Batch!Answer, Batch!AnswerBatch, Batch!CollectBatch, Batch!Wake,
      Batch!Entries, Batch!GetError, CB!Steps, CB!Expire, CB!Answer, CB!AnswerBatch,
      CB!CollectBatch, CB!Wake, CB!Entries, CB!GetError
<1>. QED BY <1>1, <1>2 DEF Batch!Next, CB!Next

(* The subject "through" takes the steps of the module its proofs are about. *)
LEMMA ThroughSame == Through!Next => CT!Next
<1>1. Through!Start => CT!Start
  <2>1. ASSUME NEW c, NEW ks PROVE Through!StartBatch(c, ks) => CT!StartBatch(c, ks)
    BY Zenon DEF Through!StartBatch, Through!Missing, Through!Idle, Through!Cardinality, CT!StartBatch,
      CT!Missing, CT!Idle, CT!Cardinality
  <2>2. ASSUME NEW c, NEW k
        PROVE  /\ Through!StartGet(c, k) => CT!StartGet(c, k)
               /\ Through!StartGetCached(c, k) => CT!StartGetCached(c, k)
               /\ Through!StartGetWithoutCache(c, k) => CT!StartGetWithoutCache(c, k)
    BY Zenon DEF Through!StartGet, Through!StartGetCached, Through!StartGetWithoutCache, Through!Place,
      Through!Missing, Through!Idle, CT!StartGet, CT!StartGetCached, CT!StartGetWithoutCache,
      CT!Place, CT!Missing, CT!Idle
  <2>. QED BY <2>1, <2>2, Zenon DEF Through!Start, CT!Start
<1>2. Through!Steps \/ Through!Expire => CT!Steps \/ CT!Expire
  BY Zenon DEF Through!Steps, Through!Expire, Through!Answer, Through!AnswerBatch, Through!CollectBatch,
      Through!Wake, Through!Entries, Through!GetError, CT!Steps, CT!Expire, CT!Answer,
      CT!AnswerBatch, CT!CollectBatch, CT!Wake, CT!Entries, CT!GetError
<1>. QED BY <1>1, <1>2 DEF Through!Next, CT!Next

(* The constants of the three subjects are as the proofs need them. *)
LEMMA CacheParameters == CG!Parameters /\ CB!Parameters /\ CT!Parameters
<1>1. IsFiniteSet({"k", "l"})
  <2>1. IsFiniteSet({"k"} \cup {"l"})
    BY FS_Singleton, FS_AddElement
  <2>2. {"k"} \cup {"l"} = {"k", "l"}
    OBVIOUS
  <2>. QED BY <2>1, <2>2
<1>2. \A S : /\ IsFiniteSet(S) => CG!IsFiniteSet(S)
             /\ IsFiniteSet(S) => CB!IsFiniteSet(S)
             /\ IsFiniteSet(S) => CT!IsFiniteSet(S)
  BY DEF IsFiniteSet, CG!IsFiniteSet, CB!IsFiniteSet, CT!IsFiniteSet
<1>3. CG!BatchKeepsEntries /\ CB!BatchKeepsEntries /\ CT!BatchKeepsEntries
  BY DEF CG!BatchKeepsEntries, CB!BatchKeepsEntries, CT!BatchKeepsEntries
<1>. QED BY <1>1, <1>2, <1>3, NoneAssumption DEF CG!Parameters, CB!Parameters, CT!Parameters

(* The invariant of the subject at hand; of the others, the cache stays    *)
(* empty.                                                                  *)
CachesInv ==
  /\ subject = "batch" => CB!CacheInv
  /\ subject = "through" => CT!CacheInv
  /\ subject \notin {"batch", "through"} => CG!CacheInv

(* A step of the cache is one of the subject's. *)
LEMMA CacheStepOfSubject ==
  ASSUME [Next]_vars
  PROVE  /\ subject' = subject
         /\ subject = "batch" => Batch!Next \/ UNCHANGED cacheVars
         /\ subject = "through" => Through!Next \/ UNCHANGED cacheVars
         /\ subject \notin {"batch", "through"} => Gets!Next \/ UNCHANGED cacheVars
BY DEF Next, vars

(* The invariants of the three subjects are kept. *)
LEMMA CachesInvHolds == Spec => []CachesInv
<1>1. Init => CachesInv
  <2>. SUFFICES ASSUME Init PROVE CachesInv
    OBVIOUS
  <2>1. Gets!Init
    BY DEF Init
  <2>2. CG!Init /\ CB!Init /\ CT!Init
    BY <2>1 DEF Gets!Init, CG!Init, CB!Init, CT!Init, Gets!Idle, CG!Idle, CB!Idle, CT!Idle
  <2>. QED BY <2>2, CacheParameters, CG!CacheInitInv, CB!CacheInitInv, CT!CacheInitInv DEF CachesInv
<1>2. CachesInv /\ [Next]_vars => CachesInv'
  <2>. SUFFICES ASSUME CachesInv, [Next]_vars PROVE CachesInv'
    OBVIOUS
  <2>1. CASE subject = "batch"
    <3>1. [CB!Next]_(CB!vars)
      BY <2>1, CacheStepOfSubject, BatchSame DEF cacheVars, CB!vars
    <3>2. CB!CacheInv'
      BY <2>1, <3>1, CacheParameters, CB!CacheNextKeepsInv DEF CachesInv
    <3>. QED BY <2>1, <3>2, CacheStepOfSubject DEF CachesInv
  <2>2. CASE subject = "through"
    <3>1. [CT!Next]_(CT!vars)
      BY <2>2, CacheStepOfSubject, ThroughSame DEF cacheVars, CT!vars
    <3>2. CT!CacheInv'
      BY <2>2, <3>1, CacheParameters, CT!CacheNextKeepsInv DEF CachesInv
    <3>. QED BY <2>2, <3>2, CacheStepOfSubject DEF CachesInv
  <2>3. CASE subject \notin {"batch", "through"}
    <3>1. [CG!Next]_(CG!vars)
      BY <2>3, CacheStepOfSubject, GetsSame DEF cacheVars, CG!vars
    <3>2. CG!CacheInv'
      BY <2>3, <3>1, CacheParameters, CG!CacheNextKeepsInv DEF CachesInv
    <3>. QED BY <2>3, <3>2, CacheStepOfSubject DEF CachesInv
  <2>. QED BY <2>1, <2>2, <2>3
<1>. QED BY <1>1, <1>2, PTL DEF Spec

(* Callers of an external service share a request while its entry is       *)
(* fresh, nobody waits for an AsyncResult that is never set, and with      *)
(* count_error_once only the maker of a request raises, for any number of  *)
(* callers (ExternalServiceAccessor.get, get_without_cache, batch_get).    *)
THEOREM CachesAreSound == Spec => []CacheSound
<1>1. CachesInv => CacheSound
  <2>. SUFFICES ASSUME CachesInv PROVE CacheSound
    OBVIOUS
  <2>1. Gets!WaitersAreAnswered <=> CB!WaitersAreAnswered
    BY Zenon DEF Gets!WaitersAreAnswered, CB!WaitersAreAnswered
  <2>2. Gets!WaitersAreAnswered <=> CT!WaitersAreAnswered
    BY Zenon DEF Gets!WaitersAreAnswered, CT!WaitersAreAnswered
  <2>3. Gets!WaitersAreAnswered <=> CG!WaitersAreAnswered
    BY Zenon DEF Gets!WaitersAreAnswered, CG!WaitersAreAnswered
  <2>4. Gets!Debounced <=> CB!Debounced
    BY Zenon DEF Gets!Debounced, CB!Debounced, Gets!Cardinality, CB!Cardinality
  <2>5. Gets!Debounced <=> CG!Debounced
    BY Zenon DEF Gets!Debounced, CG!Debounced, Gets!Cardinality, CG!Cardinality
  <2>6. Gets!OnlyInitiatorRaises <=> CG!OnlyInitiatorRaises
    BY Zenon DEF Gets!OnlyInitiatorRaises, CG!OnlyInitiatorRaises
  <2>7. CASE subject = "batch"
    <3>1. CB!WaitersAreAnswered /\ CB!Debounced
      BY <2>7, CB!CacheInvGives DEF CachesInv
    <3>. QED BY <2>1, <2>4, <2>7, <3>1 DEF CacheSound
  <2>8. CASE subject = "through"
    <3>1. CT!WaitersAreAnswered
      BY <2>8, CT!CacheInvGives DEF CachesInv
    <3>. QED BY <2>2, <2>8, <3>1 DEF CacheSound
  <2>9. CASE subject \notin {"batch", "through"}
    <3>1. CG!WaitersAreAnswered /\ CG!Debounced /\ CG!OnlyInitiatorRaises
      BY <2>9, CG!CacheInvGives DEF CachesInv
    <3>. QED BY <2>3, <2>5, <2>6, <2>9, <3>1 DEF CacheSound
  <2>. QED BY <2>7, <2>8, <2>9
<1>. QED BY <1>1, CachesInvHolds, PTL
==============================================================================
