------------------------ MODULE PriorityQueueProofs ------------------------
(***************************************************************************)
(* Proofs of the safety properties of PriorityQueue for any number of      *)
(* actions and receivers.                                                  *)
(***************************************************************************)
EXTENDS PriorityQueue, TLAPS

-----------------------------------------------------------------------------
(* Sequences used as queues: which elements a queue has after an element   *)
(* was appended or the oldest one was removed, and that neither makes an   *)
(* element appear twice.                                                   *)

(* Appending adds exactly the appended element. *)
LEMMA AppendToSet ==
    ASSUME NEW S, NEW q \in Seq(S), NEW a \in S
    PROVE  /\ Append(q, a) \in Seq(S)
           /\ ToSet(Append(q, a)) = ToSet(q) \cup {a}
<1>1. /\ Append(q, a) \in Seq(S)
      /\ Len(Append(q, a)) = Len(q) + 1
      /\ \A i \in 1..Len(q) : Append(q, a)[i] = q[i]
      /\ Append(q, a)[Len(q) + 1] = a
  OBVIOUS
<1>2. DOMAIN Append(q, a) = 1..(Len(q) + 1) /\ DOMAIN q = 1..Len(q) /\ Len(q) \in Nat
  BY <1>1
<1>3. ToSet(Append(q, a)) = {Append(q, a)[i] : i \in 1..(Len(q) + 1)}
  BY <1>2 DEF ToSet
<1>4. ToSet(q) = {q[i] : i \in 1..Len(q)}
  BY <1>2 DEF ToSet
<1>5. \A x : x \in ToSet(Append(q, a)) => x \in ToSet(q) \cup {a}
  BY <1>1, <1>2, <1>3, <1>4
<1>6. \A x : x \in ToSet(q) \cup {a} => x \in ToSet(Append(q, a))
  BY <1>1, <1>2, <1>3, <1>4
<1>. QED BY <1>1, <1>5, <1>6

(* Appending an element the queue does not have keeps it free of repeats. *)
LEMMA AppendKeepsInjective ==
    ASSUME NEW S, NEW q \in Seq(S), NEW a \in S, IsInjective(q), a \notin ToSet(q)
    PROVE  IsInjective(Append(q, a))
<1>1. /\ DOMAIN Append(q, a) = 1..(Len(q) + 1)
      /\ DOMAIN q = 1..Len(q) /\ Len(q) \in Nat
      /\ \A i \in 1..Len(q) : Append(q, a)[i] = q[i]
      /\ Append(q, a)[Len(q) + 1] = a
  OBVIOUS
<1>2. \A i \in 1..Len(q) : q[i] # a
  BY <1>1 DEF ToSet
<1>3. \A i, j \in 1..Len(q) : q[i] = q[j] => i = j
  BY <1>1 DEF IsInjective
<1>. QED BY <1>1, <1>2, <1>3 DEF IsInjective

(* The oldest element of a queue is one of its elements. *)
LEMMA HeadInSet ==
    ASSUME NEW S, NEW q \in Seq(S), q # <<>>
    PROVE  Head(q) \in ToSet(q) /\ Head(q) \in S
<1>1. Len(q) \in Nat /\ Len(q) >= 1 /\ DOMAIN q = 1..Len(q) /\ Head(q) = q[1]
  OBVIOUS
<1>. QED BY <1>1 DEF ToSet

(* Removing the oldest element of a queue without repeats removes exactly  *)
(* that element.                                                           *)
LEMMA TailOfInjective ==
    ASSUME NEW S, NEW q \in Seq(S), q # <<>>, IsInjective(q)
    PROVE  /\ Tail(q) \in Seq(S)
           /\ ToSet(Tail(q)) = ToSet(q) \ {Head(q)}
           /\ IsInjective(Tail(q))
<1>1. /\ Tail(q) \in Seq(S)
      /\ Len(q) \in Nat /\ Len(q) >= 1
      /\ Len(Tail(q)) = Len(q) - 1
      /\ DOMAIN q = 1..Len(q) /\ DOMAIN Tail(q) = 1..(Len(q) - 1)
      /\ \A i \in 1..(Len(q) - 1) : Tail(q)[i] = q[i + 1]
      /\ Head(q) = q[1]
  OBVIOUS
<1>2. \A i, j \in 1..Len(q) : q[i] = q[j] => i = j
  BY <1>1 DEF IsInjective
<1>3. IsInjective(Tail(q))
  BY <1>1, <1>2 DEF IsInjective
<1>4. \A x : x \in ToSet(Tail(q)) => x \in ToSet(q) \ {Head(q)}
  <2>1. SUFFICES ASSUME NEW i \in 1..(Len(q) - 1)
                 PROVE  Tail(q)[i] \in ToSet(q) \ {Head(q)}
    BY <1>1 DEF ToSet
  <2>2. i + 1 \in 1..Len(q) /\ 1 \in 1..Len(q) /\ i + 1 # 1
    BY <1>1
  <2>. QED BY <1>1, <1>2, <2>2 DEF ToSet
<1>5. \A x : x \in ToSet(q) \ {Head(q)} => x \in ToSet(Tail(q))
  <2>1. SUFFICES ASSUME NEW i \in 1..Len(q), q[i] # q[1]
                 PROVE  q[i] \in ToSet(Tail(q))
    BY <1>1 DEF ToSet
  <2>2. i - 1 \in 1..(Len(q) - 1) /\ (i - 1) + 1 = i
    BY <1>1, <2>1
  <2>3. q[i] = Tail(q)[i - 1]
    BY <1>1, <2>2
  <2>. QED BY <1>1, <2>2, <2>3 DEF ToSet
<1>. QED BY <1>1, <1>3, <1>4, <1>5

-----------------------------------------------------------------------------
(* The inductive invariant.                                                *)

Queued == ToSet(syncQueue) \cup ToSet(asyncQueue)

(* An action that was not created yet is nowhere and was not overtaken. *)
FreshIsNowhere ==
    \A a \in Actions : oneshot[a] = "none" =>
        /\ a \notin Queued
        /\ \A r \in Receivers : held[r] # a

FreshNotOvertaken ==
    \A a \in SyncActions : oneshot[a] = "none" =>
        \A r \in Receivers : overtaken[a][r] = 0

(* A receiver that is about to poll the async channel has not overtaken    *)
(* anything that is queued: it found the sync channel empty since.         *)
OvertakerLookedSince ==
    \A a \in SyncActions, r \in Receivers :
        a \in ToSet(syncQueue) /\ recvState[r] = "pollAsync" => overtaken[a][r] = 0

(* recv() is only running for a receiver that owns no action. *)
RecvOwnsNothing ==
    \A r \in Receivers : recvState[r] # "idle" => held[r] = None

(* The async channel is closed last. *)
CloseOrder ==
    /\ shutdown \in {"closing", "closed"} => syncClosed
    /\ asyncClosed => shutdown = "closed"

IInv ==
    /\ TypeOK
    /\ OwnedOnce
    /\ WaiterHasAcker
    /\ FreshIsNowhere
    /\ RecvOwnsNothing
    /\ OvertakenOnce
    /\ FreshNotOvertaken
    /\ OvertakerLookedSince
    /\ FallbackNeverParks
    /\ CloseOrder

-----------------------------------------------------------------------------
(* The initial state satisfies the inductive invariant. *)
LEMMA InitIInv == Init => IInv
<1>. SUFFICES ASSUME Init PROVE IInv
  OBVIOUS
<1>1. syncQueue = <<>> /\ asyncQueue = <<>> /\ ToSet(syncQueue) = {} /\ ToSet(asyncQueue) = {}
  BY DEF Init, ToSet
<1>2. TypeOK
  <2>1. syncQueue \in Seq(SyncActions) /\ asyncQueue \in Seq(AsyncActions)
    BY <1>1
  <2>2. overtaken \in [SyncActions -> [Receivers -> Nat]]
    BY DEF Init
  <2>3. /\ oneshot \in [Actions -> OneshotStates]
        /\ recvState \in [Receivers -> RecvStates]
        /\ held \in [Receivers -> Actions \cup {None}]
    BY DEF Init, OneshotStates, RecvStates
  <2>. QED BY <2>1, <2>2, <2>3 DEF Init, TypeOK, ShutdownStates
<1>3. OwnedOnce
  BY <1>1 DEF Init, OwnedOnce, IsInjective
<1>4. WaiterHasAcker /\ FreshIsNowhere
  BY <1>1, QueueAssumption DEF Init, WaiterHasAcker, FreshIsNowhere, Queued
<1>5. OvertakenOnce /\ FreshNotOvertaken /\ OvertakerLookedSince
  BY DEF Init, OvertakenOnce, FreshNotOvertaken, OvertakerLookedSince
<1>6. RecvOwnsNothing /\ FallbackNeverParks /\ CloseOrder
  BY DEF Init, RecvOwnsNothing, FallbackNeverParks, CloseOrder
<1>. QED BY <1>2, <1>3, <1>4, <1>5, <1>6 DEF IInv

(* Creating an action and queueing it on the sync channel. *)
LEMMA SendSyncKeepsIInv ==
    ASSUME IInv, NEW a \in Actions, SendSync(a)
    PROVE  IInv'
<1>. USE DEF IInv
<1>1. /\ a \in SyncActions /\ oneshot[a] = "none"
      /\ a \notin ToSet(syncQueue) /\ a \notin ToSet(asyncQueue)
      /\ \A r \in Receivers : held[r] # a
  BY DEF SendSync, FreshIsNowhere, Queued
<1>2. /\ syncQueue' \in Seq(SyncActions)
      /\ ToSet(syncQueue)' = ToSet(syncQueue) \cup {a}
  BY <1>1, AppendToSet DEF SendSync, TypeOK
<1>3. IsInjective(syncQueue)'
  BY <1>1, AppendKeepsInjective DEF SendSync, TypeOK, OwnedOnce
<1>4. TypeOK'
  BY <1>2 DEF SendSync, TypeOK, OneshotStates
<1>5. OwnedOnce'
  BY <1>1, <1>2, <1>3 DEF SendSync, OwnedOnce
<1>6. WaiterHasAcker'
  BY <1>2 DEF SendSync, WaiterHasAcker, TypeOK
<1>7. FreshIsNowhere'
  BY <1>2 DEF SendSync, FreshIsNowhere, Queued, TypeOK
<1>8. OvertakenOnce' /\ FreshNotOvertaken'
  BY DEF SendSync, OvertakenOnce, FreshNotOvertaken, TypeOK
<1>9. OvertakerLookedSince'
  BY <1>1, <1>2 DEF SendSync, OvertakerLookedSince, FreshNotOvertaken
<1>10. RecvOwnsNothing' /\ FallbackNeverParks' /\ CloseOrder'
  BY DEF SendSync, RecvOwnsNothing, FallbackNeverParks, CloseOrder
<1>. QED BY <1>4, <1>5, <1>6, <1>7, <1>8, <1>9, <1>10

(* Creating an action and queueing it on the async channel. *)
LEMMA SendAsyncKeepsIInv ==
    ASSUME IInv, NEW a \in Actions, SendAsync(a)
    PROVE  IInv'
<1>. USE DEF IInv
<1>1. /\ a \in AsyncActions /\ a \notin SyncActions /\ oneshot[a] = "none"
      /\ a \notin ToSet(syncQueue) /\ a \notin ToSet(asyncQueue)
      /\ \A r \in Receivers : held[r] # a
  BY DEF SendAsync, FreshIsNowhere, Queued, AsyncActions
<1>2. /\ asyncQueue' \in Seq(AsyncActions)
      /\ ToSet(asyncQueue)' = ToSet(asyncQueue) \cup {a}
  BY <1>1, AppendToSet DEF SendAsync, TypeOK
<1>3. IsInjective(asyncQueue)'
  BY <1>1, AppendKeepsInjective DEF SendAsync, TypeOK, OwnedOnce
<1>4. TypeOK'
  BY <1>2 DEF SendAsync, TypeOK, OneshotStates
<1>5. OwnedOnce'
  BY <1>1, <1>2, <1>3 DEF SendAsync, OwnedOnce
<1>6. WaiterHasAcker'
  BY <1>2 DEF SendAsync, WaiterHasAcker, TypeOK
<1>7. FreshIsNowhere'
  BY <1>2 DEF SendAsync, FreshIsNowhere, Queued, TypeOK
<1>8. OvertakenOnce' /\ FreshNotOvertaken' /\ OvertakerLookedSince'
  BY <1>1, QueueAssumption
  DEF SendAsync, OvertakenOnce, FreshNotOvertaken, OvertakerLookedSince, TypeOK
<1>9. RecvOwnsNothing' /\ FallbackNeverParks' /\ CloseOrder'
  BY DEF SendAsync, RecvOwnsNothing, FallbackNeverParks, CloseOrder
<1>. QED BY <1>4, <1>5, <1>6, <1>7, <1>8, <1>9

(* A step that ends the waiting of one caller, or answers one on a closed  *)
(* channel, and moves no action.                                           *)
LEMMA OneshotChangeKeepsIInv ==
    ASSUME IInv, NEW a \in Actions, NEW st \in {"dropped", "closed"},
           oneshot' = [oneshot EXCEPT ![a] = st],
           UNCHANGED <<syncQueue, asyncQueue, syncClosed, asyncClosed, recvState,
                       held, shutdown, overtaken>>
    PROVE  IInv'
<1>. USE DEF IInv
<1>1. \A b \in Actions : oneshot'[b] = IF b = a THEN st ELSE oneshot[b]
  BY DEF TypeOK
<1>2. TypeOK'
  BY DEF TypeOK, OneshotStates
<1>3. OwnedOnce' /\ RecvOwnsNothing' /\ FallbackNeverParks' /\ CloseOrder'
  BY DEF OwnedOnce, RecvOwnsNothing, FallbackNeverParks, CloseOrder
<1>4. WaiterHasAcker'
  BY <1>1 DEF WaiterHasAcker
<1>5. FreshIsNowhere'
  BY <1>1 DEF FreshIsNowhere, Queued
<1>6. OvertakenOnce' /\ FreshNotOvertaken' /\ OvertakerLookedSince'
  BY <1>1, QueueAssumption DEF OvertakenOnce, FreshNotOvertaken, OvertakerLookedSince
<1>. QED BY <1>2, <1>3, <1>4, <1>5, <1>6

(* A recv() future that moves on without taking an action. *)
LEMMA RecvMoveKeepsIInv ==
    ASSUME IInv, NEW r \in Receivers, NEW st \in RecvStates,
           held[r] = None,
           st = "pollAsync" => syncQueue = <<>>,
           st = "await" => syncClosed,
           recvState' = [recvState EXCEPT ![r] = st],
           UNCHANGED <<syncQueue, asyncQueue, syncClosed, asyncClosed, oneshot,
                       held, shutdown, overtaken>>
    PROVE  IInv'
<1>. USE DEF IInv
<1>1. \A q \in Receivers : recvState'[q] = IF q = r THEN st ELSE recvState[q]
  BY DEF TypeOK
<1>2. syncQueue = <<>> => ToSet(syncQueue) = {}
  BY DEF ToSet
<1>3. TypeOK'
  BY DEF TypeOK
<1>4. OwnedOnce' /\ WaiterHasAcker' /\ FreshIsNowhere' /\ CloseOrder'
  BY DEF OwnedOnce, WaiterHasAcker, FreshIsNowhere, Queued, CloseOrder
<1>5. OvertakenOnce' /\ FreshNotOvertaken'
  BY DEF OvertakenOnce, FreshNotOvertaken
<1>6. OvertakerLookedSince'
  BY <1>1, <1>2 DEF OvertakerLookedSince
<1>7. RecvOwnsNothing' /\ FallbackNeverParks'
  BY <1>1 DEF RecvOwnsNothing, FallbackNeverParks
<1>. QED BY <1>3, <1>4, <1>5, <1>6, <1>7

(* Taking the oldest sync action: it is dropped or handed to the receiver. *)
LEMMA TakeSyncKeepsIInv ==
    ASSUME IInv, NEW r \in Receivers, recvState[r] \in {"pollSync", "await"}, TakeSync(r)
    PROVE  IInv'
<1>. USE DEF IInv
<1>. DEFINE a == Head(syncQueue)
<1>1. /\ a \in SyncActions /\ a \in Actions /\ a # None /\ a \in ToSet(syncQueue)
      /\ syncQueue' \in Seq(SyncActions)
      /\ ToSet(syncQueue)' = ToSet(syncQueue) \ {a}
      /\ IsInjective(syncQueue)'
  BY HeadInSet, TailOfInjective, QueueAssumption DEF TakeSync, TypeOK, OwnedOnce
<1>2. a \notin ToSet(asyncQueue)
  BY <1>1 DEF TypeOK, AsyncActions, ToSet
<1>3. held[r] = None /\ oneshot[a] # "none"
  BY <1>1 DEF RecvOwnsNothing, FreshIsNowhere, Queued
<1>4. UNCHANGED <<asyncQueue, syncClosed, asyncClosed, oneshot, shutdown, overtaken>>
  BY DEF TakeSync
<1>5. \/ /\ oneshot[a] = "closed"
         /\ recvState' = [recvState EXCEPT ![r] = "pollSync"] /\ held' = held
      \/ /\ recvState' = [recvState EXCEPT ![r] = "idle"]
         /\ held' = [held EXCEPT ![r] = a]
  BY DEF TakeSync, Deliver, NobodyWaits
<1>6. TypeOK'
  BY <1>1, <1>4, <1>5 DEF TypeOK, RecvStates
<1>7. OwnedOnce'
  <2>1. held' = held \/ \A q \in Receivers : held'[q] = IF q = r THEN a ELSE held[q]
    BY <1>5 DEF TypeOK
  <2>2. \A q \in Receivers : held[q] # a
    BY <1>1 DEF OwnedOnce
  <2>3. \A q \in Receivers : held'[q] \notin ToSet(syncQueue)' \cup ToSet(asyncQueue)'
    BY <1>1, <1>2, <1>4, <2>1 DEF OwnedOnce
  <2>4. \A r1, r2 \in Receivers : held'[r1] = held'[r2] => r1 = r2 \/ held'[r1] = None
    BY <2>1, <2>2 DEF OwnedOnce
  <2>. QED BY <1>1, <1>4, <2>3, <2>4 DEF OwnedOnce
<1>8. WaiterHasAcker'
  <2>. SUFFICES ASSUME NEW b \in Actions, oneshot[b] = "waiting"
                PROVE  \/ b \in ToSet(syncQueue)' \cup ToSet(asyncQueue)'
                       \/ \E q \in Receivers : held'[q] = b
    BY <1>4 DEF WaiterHasAcker
  <2>1. CASE b = a
    BY <1>5, <2>1 DEF TypeOK
  <2>2. CASE b # a /\ b \in Queued
    BY <1>1, <1>4, <2>2 DEF Queued
  <2>3. CASE b \notin Queued
    <3>1. PICK q \in Receivers : held[q] = b
      BY <2>3 DEF WaiterHasAcker, Queued
    <3>2. q # r
      BY <1>3, <3>1, QueueAssumption
    <3>3. held'[q] = b
      BY <1>5, <3>1, <3>2 DEF TypeOK
    <3>. QED BY <3>3
  <2>. QED BY <2>1, <2>2, <2>3
<1>9. FreshIsNowhere'
  BY <1>1, <1>3, <1>4, <1>5 DEF FreshIsNowhere, Queued, TypeOK
<1>10. OvertakenOnce' /\ FreshNotOvertaken'
  BY <1>4 DEF OvertakenOnce, FreshNotOvertaken
<1>11. OvertakerLookedSince'
  BY <1>1, <1>4, <1>5 DEF OvertakerLookedSince, TypeOK
<1>12. RecvOwnsNothing' /\ FallbackNeverParks' /\ CloseOrder'
  BY <1>3, <1>4, <1>5 DEF RecvOwnsNothing, FallbackNeverParks, CloseOrder, TypeOK
<1>. QED BY <1>6, <1>7, <1>8, <1>9, <1>10, <1>11, <1>12

(* Taking the oldest async action: the only step that overtakes anything. *)
LEMMA TakeAsyncKeepsIInv ==
    ASSUME IInv, NEW r \in Receivers, recvState[r] = "pollAsync", TakeAsync(r)
    PROVE  IInv'
<1>. USE DEF IInv
<1>. DEFINE a == Head(asyncQueue)
<1>1. /\ a \in AsyncActions /\ a \in Actions /\ a # None /\ a \in ToSet(asyncQueue)
      /\ asyncQueue' \in Seq(AsyncActions)
      /\ ToSet(asyncQueue)' = ToSet(asyncQueue) \ {a}
      /\ IsInjective(asyncQueue)'
  BY HeadInSet, TailOfInjective, QueueAssumption
  DEF TakeAsync, TypeOK, OwnedOnce, AsyncActions
<1>2. a \notin ToSet(syncQueue)
  BY <1>1 DEF TypeOK, AsyncActions, ToSet
<1>3. held[r] = None /\ oneshot[a] # "none"
  BY <1>1 DEF RecvOwnsNothing, FreshIsNowhere, Queued
<1>4. UNCHANGED <<syncQueue, syncClosed, asyncClosed, oneshot, shutdown>>
  BY DEF TakeAsync
<1>5. \/ /\ oneshot[a] = "closed"
         /\ recvState' = [recvState EXCEPT ![r] = "pollSync"] /\ held' = held
      \/ /\ recvState' = [recvState EXCEPT ![r] = "idle"]
         /\ held' = [held EXCEPT ![r] = a]
  BY DEF TakeAsync, Deliver, NobodyWaits
<1>6. /\ overtaken' \in [SyncActions -> [Receivers -> Nat]]
      /\ \A b \in SyncActions, q \in Receivers :
            overtaken'[b][q] = IF b \in ToSet(syncQueue) /\ q = r
                               THEN overtaken[b][q] + 1 ELSE overtaken[b][q]
  BY DEF TakeAsync, TypeOK
<1>7. \A b \in ToSet(syncQueue) : b \in SyncActions /\ oneshot[b] # "none"
  BY QueueAssumption DEF TypeOK, ToSet, FreshIsNowhere, Queued
<1>8. TypeOK'
  BY <1>1, <1>4, <1>5, <1>6 DEF TypeOK, RecvStates
<1>9. OwnedOnce'
  <2>1. held' = held \/ \A q \in Receivers : held'[q] = IF q = r THEN a ELSE held[q]
    BY <1>5 DEF TypeOK
  <2>2. \A q \in Receivers : held[q] # a
    BY <1>1 DEF OwnedOnce
  <2>3. \A q \in Receivers : held'[q] \notin ToSet(syncQueue)' \cup ToSet(asyncQueue)'
    BY <1>1, <1>2, <1>4, <2>1 DEF OwnedOnce
  <2>4. \A r1, r2 \in Receivers : held'[r1] = held'[r2] => r1 = r2 \/ held'[r1] = None
    BY <2>1, <2>2 DEF OwnedOnce
  <2>. QED BY <1>1, <1>4, <2>3, <2>4 DEF OwnedOnce
<1>10. WaiterHasAcker'
  <2>. SUFFICES ASSUME NEW b \in Actions, oneshot[b] = "waiting"
                PROVE  \/ b \in ToSet(syncQueue)' \cup ToSet(asyncQueue)'
                       \/ \E q \in Receivers : held'[q] = b
    BY <1>4 DEF WaiterHasAcker
  <2>1. CASE b = a
    BY <1>5, <2>1 DEF TypeOK
  <2>2. CASE b # a /\ b \in Queued
    BY <1>1, <1>4, <2>2 DEF Queued
  <2>3. CASE b \notin Queued
    <3>1. PICK q \in Receivers : held[q] = b
      BY <2>3 DEF WaiterHasAcker, Queued
    <3>2. q # r
      BY <1>3, <3>1, QueueAssumption
    <3>3. held'[q] = b
      BY <1>5, <3>1, <3>2 DEF TypeOK
    <3>. QED BY <3>3
  <2>. QED BY <2>1, <2>2, <2>3
<1>11. FreshIsNowhere'
  BY <1>1, <1>3, <1>4, <1>5 DEF FreshIsNowhere, Queued, TypeOK
<1>12. OvertakenOnce'
  <2>. SUFFICES ASSUME NEW b \in SyncActions, NEW q \in Receivers
                PROVE  overtaken'[b][q] <= 1
    BY DEF OvertakenOnce
  <2>1. CASE b \in ToSet(syncQueue) /\ q = r
    <3>1. overtaken[b][q] = 0
      BY <2>1 DEF OvertakerLookedSince
    <3>. QED BY <1>6, <2>1, <3>1
  <2>2. CASE ~(b \in ToSet(syncQueue) /\ q = r)
    BY <1>6, <2>2 DEF OvertakenOnce
  <2>. QED BY <2>1, <2>2
<1>13. FreshNotOvertaken'
  BY <1>4, <1>6, <1>7 DEF FreshNotOvertaken
<1>14. OvertakerLookedSince'
  <2>1. recvState'[r] # "pollAsync"
        /\ \A q \in Receivers \ {r} : recvState'[q] = recvState[q]
    BY <1>5 DEF TypeOK
  <2>. QED BY <1>4, <1>6, <2>1 DEF OvertakerLookedSince
<1>15. RecvOwnsNothing' /\ FallbackNeverParks' /\ CloseOrder'
  BY <1>3, <1>4, <1>5 DEF RecvOwnsNothing, FallbackNeverParks, CloseOrder, TypeOK
<1>. QED BY <1>8, <1>9, <1>10, <1>11, <1>12, <1>13, <1>14, <1>15

(* Answering or dropping an owned action. *)
LEMMA ResolveKeepsIInv ==
    ASSUME IInv, NEW r \in Receivers, NEW answer \in Answers, Resolve(r, answer)
    PROVE  IInv'
<1>. USE DEF IInv
<1>. DEFINE a == held[r]
<1>1. a \in Actions /\ a # None
  BY DEF Resolve, TypeOK
<1>2. /\ oneshot' = [oneshot EXCEPT ![a] = IF @ = "waiting" THEN answer ELSE @]
      /\ held' = [held EXCEPT ![r] = None]
      /\ UNCHANGED <<syncQueue, asyncQueue, syncClosed, asyncClosed, recvState,
                     shutdown, overtaken>>
  BY DEF Resolve, AnswerOneshot, channels
<1>3. \A b \in Actions :
        /\ b # a => oneshot'[b] = oneshot[b]
        /\ b = a => oneshot'[b] \in OneshotStates \ {"waiting"}
        /\ oneshot'[b] = "none" => oneshot[b] = "none"
  BY <1>2 DEF TypeOK, Answers, OneshotStates
<1>4. TypeOK'
  BY <1>1, <1>2 DEF TypeOK, Answers, OneshotStates
<1>5. OwnedOnce'
  <2>1. None \notin ToSet(syncQueue) \cup ToSet(asyncQueue)
    BY QueueAssumption DEF TypeOK, ToSet, AsyncActions
  <2>2. \A q \in Receivers : held'[q] = IF q = r THEN None ELSE held[q]
    BY <1>2 DEF TypeOK
  <2>. QED BY <1>2, <2>1, <2>2 DEF OwnedOnce
<1>6. WaiterHasAcker'
  BY <1>1, <1>2, <1>3 DEF WaiterHasAcker, TypeOK
<1>7. FreshIsNowhere'
  BY <1>2, <1>3, QueueAssumption DEF FreshIsNowhere, Queued, TypeOK
<1>8. OvertakenOnce' /\ FreshNotOvertaken' /\ OvertakerLookedSince'
  BY <1>2, <1>3, QueueAssumption DEF OvertakenOnce, FreshNotOvertaken, OvertakerLookedSince
<1>9. RecvOwnsNothing' /\ FallbackNeverParks' /\ CloseOrder'
  BY <1>2 DEF RecvOwnsNothing, FallbackNeverParks, CloseOrder, TypeOK
<1>. QED BY <1>4, <1>5, <1>6, <1>7, <1>8, <1>9

(* nack_all_async pops the oldest async action and answers it. *)
LEMMA NackOneKeepsIInv ==
    ASSUME IInv, NackOne
    PROVE  IInv'
<1>. USE DEF IInv
<1>. DEFINE a == Head(asyncQueue)
<1>1. /\ a \in AsyncActions /\ a \in Actions /\ a \in ToSet(asyncQueue)
      /\ asyncQueue' \in Seq(AsyncActions)
      /\ ToSet(asyncQueue)' = ToSet(asyncQueue) \ {a}
      /\ IsInjective(asyncQueue)'
  BY HeadInSet, TailOfInjective DEF NackOne, TypeOK, OwnedOnce, AsyncActions
<1>2. /\ oneshot' = [oneshot EXCEPT ![a] = IF @ = "waiting" THEN "nacked" ELSE @]
      /\ UNCHANGED <<syncQueue, syncClosed, asyncClosed, recvState, held,
                     shutdown, overtaken>>
  BY DEF NackOne, AnswerOneshot
<1>3. \A b \in Actions :
        /\ b # a => oneshot'[b] = oneshot[b]
        /\ b = a => oneshot'[b] # "waiting"
        /\ oneshot'[b] = "none" => oneshot[b] = "none"
  BY <1>2 DEF TypeOK, OneshotStates
<1>4. TypeOK'
  BY <1>1, <1>2 DEF TypeOK, OneshotStates
<1>5. OwnedOnce'
  BY <1>1, <1>2 DEF OwnedOnce
<1>6. WaiterHasAcker'
  BY <1>1, <1>2, <1>3 DEF WaiterHasAcker
<1>7. FreshIsNowhere'
  BY <1>1, <1>2, <1>3 DEF FreshIsNowhere, Queued
<1>8. OvertakenOnce' /\ FreshNotOvertaken' /\ OvertakerLookedSince'
  BY <1>2, <1>3, QueueAssumption DEF OvertakenOnce, FreshNotOvertaken, OvertakerLookedSince
<1>9. RecvOwnsNothing' /\ FallbackNeverParks' /\ CloseOrder'
  BY <1>2 DEF RecvOwnsNothing, FallbackNeverParks, CloseOrder
<1>. QED BY <1>4, <1>5, <1>6, <1>7, <1>8, <1>9

(* The other steps of the shutdown handler: they move no action and keep   *)
(* the order in which the channels are closed.                             *)
LEMMA ShutdownPhaseKeepsIInv ==
    ASSUME IInv, ExitSignal \/ NackAllDone \/ CloseSync \/ CloseAsync
    PROVE  IInv'
<1>. USE DEF IInv
<1>1. /\ UNCHANGED <<syncQueue, asyncQueue, oneshot, recvState, held, overtaken>>
      /\ shutdown' \in ShutdownStates
      /\ syncClosed' \in BOOLEAN /\ asyncClosed' \in BOOLEAN
      /\ syncClosed => syncClosed'
  BY DEF ExitSignal, NackAllDone, CloseSync, CloseAsync, channels, TypeOK, ShutdownStates
<1>2. CloseOrder'
  BY DEF ExitSignal, NackAllDone, CloseSync, CloseAsync, channels, CloseOrder, TypeOK
<1>3. TypeOK'
  BY <1>1 DEF TypeOK
<1>4. OwnedOnce' /\ WaiterHasAcker' /\ FreshIsNowhere' /\ RecvOwnsNothing'
  BY <1>1 DEF OwnedOnce, WaiterHasAcker, FreshIsNowhere, Queued, RecvOwnsNothing
<1>5. OvertakenOnce' /\ FreshNotOvertaken' /\ OvertakerLookedSince'
  BY <1>1 DEF OvertakenOnce, FreshNotOvertaken, OvertakerLookedSince
<1>6. FallbackNeverParks'
  BY <1>1 DEF FallbackNeverParks
<1>. QED BY <1>2, <1>3, <1>4, <1>5, <1>6

(* A step of recv(): it takes an action or only moves the future on. *)
LEMMA RecvKeepsIInv ==
    ASSUME IInv, NEW r \in Receivers, RecvStart(r) \/ Recv(r) \/ RecvTimeout(r)
    PROVE  IInv'
<1>. DEFINE Move(st) == /\ recvState' = [recvState EXCEPT ![r] = st]
                        /\ UNCHANGED <<syncQueue, asyncQueue, syncClosed, asyncClosed,
                                       oneshot, held, shutdown, overtaken>>
<1>1. recvState[r] # "idle" => held[r] = None
  BY DEF IInv, RecvOwnsNothing
<1>2. asyncClosed => syncClosed
  BY DEF IInv, CloseOrder
<1>3. CASE recvState[r] \in {"pollSync", "await"} /\ TakeSync(r)
  BY <1>3, TakeSyncKeepsIInv
<1>4. CASE recvState[r] = "pollAsync" /\ TakeAsync(r)
  BY <1>4, TakeAsyncKeepsIInv
<1>5. CASE RecvStart(r)
  <2>1. held[r] = None /\ Move("pollSync") /\ "pollSync" \in RecvStates
    BY <1>5 DEF RecvStart, channels, RecvStates
  <2>. QED BY <2>1, RecvMoveKeepsIInv
<1>6. CASE recvState[r] # "idle" /\ (RecvClosed(r) \/ RecvTimeout(r))
  <2>1. held[r] = None /\ Move("idle") /\ "idle" \in RecvStates
    BY <1>1, <1>6 DEF RecvClosed, RecvTimeout, channels, RecvStates
  <2>. QED BY <2>1, RecvMoveKeepsIInv
<1>7. CASE recvState[r] = "pollSync" /\ SyncPending(r)
  <2>1. /\ held[r] = None /\ Move("pollAsync") /\ "pollAsync" \in RecvStates
        /\ syncQueue = <<>>
    BY <1>1, <1>7 DEF SyncPending, channels, RecvStates
  <2>. QED BY <2>1, RecvMoveKeepsIInv
<1>8. CASE recvState[r] = "pollAsync" /\ AsyncNotReady(r)
  <2>1. held[r] = None /\ "await" \in RecvStates /\ "parked" \in RecvStates
    BY <1>1, <1>8 DEF RecvStates
  <2>2. CASE asyncClosed
    <3>1. Move("await") /\ syncClosed
      BY <1>2, <1>8, <2>2 DEF AsyncNotReady, channels
    <3>. QED BY <2>1, <3>1, RecvMoveKeepsIInv
  <2>3. CASE ~asyncClosed
    <3>1. Move("parked")
      BY <1>8, <2>3 DEF AsyncNotReady, channels
    <3>. QED BY <2>1, <3>1, RecvMoveKeepsIInv
  <2>. QED BY <2>2, <2>3
<1>9. CASE RecvWake(r)
  <2>1. held[r] = None /\ Move("pollSync") /\ "pollSync" \in RecvStates
    BY <1>1, <1>9 DEF RecvWake, channels, RecvStates
  <2>. QED BY <2>1, RecvMoveKeepsIInv
<1>10. RecvTimeout(r) => recvState[r] # "idle"
  BY DEF RecvTimeout
<1>. QED BY <1>3, <1>4, <1>5, <1>6, <1>7, <1>8, <1>9, <1>10
     DEF Recv, RecvPollSync, RecvPollAsync, RecvAwaitSync

(* Every step of the queue preserves the inductive invariant. *)
LEMMA NextKeepsIInv == IInv /\ [Next]_vars => IInv'
<1>. SUFFICES ASSUME IInv, [Next]_vars PROVE IInv'
  OBVIOUS
<1>1. CASE \E a \in Actions : Send(a) \/ CallerGone(a)
  <2>1. PICK a \in Actions : Send(a) \/ CallerGone(a)
    BY <1>1
  <2>2. CASE SendSync(a)
    BY <2>2, SendSyncKeepsIInv
  <2>3. CASE SendAsync(a)
    BY <2>3, SendAsyncKeepsIInv
  <2>4. CASE SendToClosed(a)
    <3>1. /\ oneshot' = [oneshot EXCEPT ![a] = "dropped"]
          /\ UNCHANGED <<syncQueue, asyncQueue, syncClosed, asyncClosed, recvState,
                         held, shutdown, overtaken>>
      BY <2>4 DEF SendToClosed, channels
    <3>. QED BY <3>1, OneshotChangeKeepsIInv
  <2>5. CASE CallerGone(a)
    <3>1. /\ oneshot' = [oneshot EXCEPT ![a] = "closed"]
          /\ UNCHANGED <<syncQueue, asyncQueue, syncClosed, asyncClosed, recvState,
                         held, shutdown, overtaken>>
      BY <2>5 DEF CallerGone, channels
    <3>. QED BY <3>1, OneshotChangeKeepsIInv
  <2>. QED BY <2>1, <2>2, <2>3, <2>4, <2>5 DEF Send
<1>2. CASE \E r \in Receivers : RecvStart(r) \/ Recv(r) \/ RecvTimeout(r)
  BY <1>2, RecvKeepsIInv
<1>3. CASE \E r \in Receivers : \E answer \in Answers : Resolve(r, answer)
  BY <1>3, ResolveKeepsIInv
<1>4. CASE NackOne
  BY <1>4, NackOneKeepsIInv
<1>5. CASE ExitSignal \/ NackAllDone \/ CloseSync \/ CloseAsync
  BY <1>5, ShutdownPhaseKeepsIInv
<1>6. CASE UNCHANGED vars
  BY <1>6 DEF vars, IInv, TypeOK, OwnedOnce, WaiterHasAcker, FreshIsNowhere, Queued,
     RecvOwnsNothing, OvertakenOnce, FreshNotOvertaken, OvertakerLookedSince,
     FallbackNeverParks, CloseOrder
<1>. QED BY <1>1, <1>2, <1>3, <1>4, <1>5, <1>6 DEF Next, ShutdownStep

(* The inductive invariant holds in every reachable state. *)
LEMMA Invariance == Spec => []IInv
BY InitIInv, NextKeepsIInv, PTL DEF Spec

(* Both channels, every oneshot, every recv() future and the shutdown      *)
(* handler stay in the states priority_queue.rs gives them; in particular  *)
(* a channel only ever carries the actions of its own priority.            *)
THEOREM TypeCorrect == Spec => []TypeOK
<1>1. IInv => TypeOK
  BY DEF IInv
<1>. QED BY <1>1, Invariance, PTL

(* send_sync/send_async, recv() and nack_all_async move an AckableAction   *)
(* and never leave it with two owners, for any number of streams.          *)
THEOREM SingleOwner == Spec => []OwnedOnce
<1>1. IInv => OwnedOnce
  BY DEF IInv
<1>. QED BY <1>1, Invariance, PTL

(* No step of the queue, of its users or of the shutdown loses the sending *)
(* half of a oneshot somebody waits on.                                    *)
THEOREM WaiterCanBeAnswered == Spec => []WaiterHasAcker
<1>1. IInv => WaiterHasAcker
  BY DEF IInv
<1>. QED BY <1>1, Invariance, PTL

(* The biased select! lets each stream overtake a queued sync action with  *)
(* at most one async action, for any number of actions and streams.        *)
THEOREM BoundedOvertaking == Spec => []OvertakenOnce
<1>1. IInv => OvertakenOnce
  BY DEF IInv
<1>. QED BY <1>1, Invariance, PTL

(* close() closes the sync channel first, so recv()'s fallback to the sync *)
(* channel alone never waits on an open channel.                           *)
THEOREM FallbackOnlyWhenClosed == Spec => []FallbackNeverParks
<1>1. IInv => FallbackNeverParks
  BY DEF IInv
<1>. QED BY <1>1, Invariance, PTL
=============================================================================
