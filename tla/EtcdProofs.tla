----------------------------- MODULE EtcdProofs -----------------------------
(***************************************************************************)
(* Proofs about the objects that processes share through etcd, for any     *)
(* number of processes, values, members and keys: the lock, the dictionary *)
(* or set, and the hash ring.                                              *)
(***************************************************************************)
EXTENDS EtcdObjects, FiniteSetTheorems, SequenceTheorems, TLAPS

-----------------------------------------------------------------------------
(* The lock.                                                               *)

LockTypes ==
  /\ lockIndex \in Nat
  /\ lockNode \in {NoValue} \cup [value : 1..lockIndex, modified : 1..lockIndex]
  /\ lockAt \in [Procs -> {"idle", "created", "holding", "raised"}]
  /\ lockSent \in [Procs -> {NoValue} \cup (1..lockIndex)]
  /\ lockValue \in [Procs -> {NoValue} \cup (1..lockIndex)]

(* No two processes have sent the same uuid, and a process believes to     *)
(* hold the one it has sent.                                               *)
UuidsDistinct ==
  /\ \A p, q \in Procs : lockSent[p] = lockSent[q] /\ lockSent[p] # NoValue => p = q
  /\ \A p \in Procs : lockValue[p] # NoValue => lockValue[p] = lockSent[p]
  /\ \A p \in Procs : lockAt[p] \in {"holding", "raised"} => lockValue[p] # NoValue
  /\ \A p \in Procs : lockAt[p] = "created" => lockSent[p] # NoValue /\ lockValue[p] = NoValue

(* The uuid of a process that holds the lock, or is about to, is in the    *)
(* key, has expired, or was deleted by a release that raised.              *)
LiveAtEtcd ==
  \A p \in Procs : lockAt[p] = "created" \/ lockValue[p] # NoValue =>
    lockSent[p] \in lockExpired \cup lockDeleted \/ (lockNode # NoValue /\ lockNode.value = lockSent[p])

LockInv == LockTypes /\ UuidsDistinct /\ LiveAtEtcd

-----------------------------------------------------------------------------
(* The dictionary or set.                                                  *)

DictEvents == [value : SUBSET Words, by : Procs \cup {"nobody"}, op : Collection!Ops]
DictNodes == {NoValue} \cup [value : SUBSET Words, modified : Nat]

DictTypes ==
  /\ dictNode \in DictNodes
  /\ dictLog \in Seq(DictEvents)
  /\ dictAt \in [Procs -> {"idle", "read", "written", "retry", "raised", "returned"}]
  /\ op \in [Procs -> {NoValue} \cup Collection!Ops]
  /\ got \in [Procs -> DictNodes]
  /\ local \in [Procs -> SUBSET Words]
  /\ seen \in [Procs -> SUBSET Words]
  /\ dictIndex \in [Procs -> Nat]
  /\ \A p \in Procs : dictIndex[p] <= Len(dictLog)
  /\ \A p \in Procs : dictAt[p] # "idle" => op[p] \in Collection!Ops
  /\ \A p \in Procs \ Updaters : dictAt[p] = "idle"
  /\ DOMAIN ret = Procs

(* The key holds what its last event says, and an index names one value:   *)
(* a node that was read and has the key's index is the key's node.         *)
IndexNamesValue ==
  /\ Collection!Value(dictNode) = Collection!Before(Len(dictLog) + 1)
  /\ dictNode # NoValue => dictNode.modified <= Len(dictLog)
  /\ \A p \in Procs : got[p] # NoValue =>
       /\ got[p].modified <= Len(dictLog)
       /\ dictNode # NoValue /\ dictNode.modified = got[p].modified => dictNode = got[p]

(* The answer of an update was decided from the value it read. *)
AnswerFitsRead ==
  \A p \in Procs : dictAt[p] = "read" => ret[p] = Collection!before_state(op[p], Collection!Value(got[p]))

(* A process that only reads has the value of the last event it has seen. *)
ReadersAtIndex ==
  \A p \in Procs \ Updaters :
    local[p] = Collection!Before(dictIndex[p] + 1) /\ seen[p] = Collection!Before(dictIndex[p] + 1)

DictInv ==
  /\ DictTypes /\ IndexNamesValue /\ AnswerFitsRead /\ ReadersAtIndex
  /\ Collection!NoLostUpdate /\ Collection!AnswersTruthful

-----------------------------------------------------------------------------
(* The hash ring.                                                          *)

(* A topology has members and overrides. *)
IsTopology(t) == t = Ring!Topology(t.members, t.overrides)

(* The topology etcd's key had after so many writes. *)
TopologyAt(i) == IF i = 0 THEN Ring!Empty ELSE ringLog[i]

RingTypes ==
  /\ ringLog \in Seq({ringLog[i] : i \in 1..Len(ringLog)})
  /\ \A i \in 1..Len(ringLog) : IsTopology(ringLog[i])
  /\ DOMAIN mine = RingProcs /\ DOMAIN ring = RingProcs /\ DOMAIN ringWatching = RingProcs
  /\ DOMAIN busy = RingProcs /\ DOMAIN pending = RingProcs
  /\ ringIndex \in [RingProcs -> Nat]

(* What a process has of the ring: topologies that were stored at etcd,    *)
(* and nothing pending when it does not watch.                             *)
RingHeld(p) ==
  /\ IsTopology(mine[p]) /\ ringIndex[p] <= Len(ringLog)
  /\ pending[p] # <<>> => ringWatching[p] /\ IsTopology(pending[p][1])
  /\ busy[p] # <<>> => \E i \in 1..Len(ringLog) : busy[p][1] = ringLog[i]
  /\ p \notin RingWriters => busy[p] = <<>>

(* A process that only reads has applied the last event it has received,   *)
(* or sleeps on it.                                                        *)
RingReader(p) ==
  p \notin RingWriters /\ ringWatching[p] =>
    IF pending[p] = <<>>
    THEN /\ mine[p].members = TopologyAt(ringIndex[p]).members
         /\ ring[p] = TopologyAt(ringIndex[p]).members
    ELSE pending[p][1] = TopologyAt(ringIndex[p])

(* A process without a write under way has a ring of its members, unless   *)
(* something no process can read was stored.                               *)
RingBuilt(p) ==
  (\A i \in 1..Len(ringLog) : Ring!Readable(ringLog[i])) /\ busy[p] = <<>> => ring[p] = mine[p].members

RingInv == RingTypes /\ \A p \in RingProcs : RingHeld(p) /\ RingReader(p) /\ RingBuilt(p)

-----------------------------------------------------------------------------
(* Nobody has asked for the lock. *)
LEMMA LockInitInv == Lock!Init => LockInv
<1>. SUFFICES ASSUME Lock!Init PROVE LockInv
  OBVIOUS
<1>1. LockTypes
  BY DEF Lock!Init, LockTypes
<1>2. UuidsDistinct /\ LiveAtEtcd
  BY DEF Lock!Init, UuidsDistinct, LiveAtEtcd
<1>. QED BY <1>1, <1>2 DEF LockInv

(* A process that has the lock takes it again, an answer arrives, or comes *)
(* too late: etcd is not asked.                                            *)
LEMMA LocalStepKeepsLockInv ==
  ASSUME LockInv, NEW p \in Procs, Lock!AcquireAgain(p) \/ Lock!Created(p) \/ Lock!AcquireTimeout(p)
  PROVE  LockInv'
<1>. USE DEF LockInv
<1>1. UNCHANGED <<lockNode, lockIndex, lockExpired, lockDeleted, lockSent>>
  BY DEF Lock!AcquireAgain, Lock!Created, Lock!AcquireTimeout
<1>2. CASE Lock!AcquireAgain(p)
  <2>1. lockAt' = [lockAt EXCEPT ![p] = "holding"] /\ lockValue' = lockValue /\ lockValue[p] # NoValue
    BY <1>2 DEF Lock!AcquireAgain
  <2>. QED BY <1>1, <2>1 DEF LockTypes, UuidsDistinct, LiveAtEtcd
<1>3. CASE Lock!Created(p)
  <2>1. /\ lockAt' = [lockAt EXCEPT ![p] = "holding"] /\ lockAt[p] = "created"
        /\ lockValue' = [lockValue EXCEPT ![p] = lockSent[p]]
    BY <1>3 DEF Lock!Created
  <2>2. LockTypes'
    BY <1>1, <2>1 DEF LockTypes
  <2>. QED BY <1>1, <2>1, <2>2 DEF LockTypes, UuidsDistinct, LiveAtEtcd
<1>4. CASE Lock!AcquireTimeout(p)
  <2>1. lockAt' = [lockAt EXCEPT ![p] = "idle"] /\ lockAt[p] = "created" /\ lockValue' = lockValue
    BY <1>4 DEF Lock!AcquireTimeout
  <2>. QED BY <1>1, <2>1 DEF LockTypes, UuidsDistinct, LiveAtEtcd
<1>. QED BY <1>2, <1>3, <1>4

(* A key that etcd does not have is made, with a fresh uuid. *)
LEMMA TryCreateKeepsLockInv ==
  ASSUME LockInv, NEW p \in Procs, Lock!TryCreate(p)
  PROVE  LockInv'
<1>. USE DEF LockInv
<1>. DEFINE new == lockIndex + 1
<1>1. /\ lockNode = NoValue /\ lockNode' = [value |-> new, modified |-> new]
      /\ lockAt[p] = "idle" /\ lockValue[p] = NoValue
      /\ lockIndex' = new /\ lockSent' = [lockSent EXCEPT ![p] = new]
      /\ lockAt' = [lockAt EXCEPT ![p] = "created"] /\ UNCHANGED <<lockExpired, lockDeleted, lockValue>>
  BY DEF Lock!TryCreate, Lock!create, Lock!Reply, Lock!Node
<1>2. /\ lockIndex \in Nat /\ new \in Nat /\ new \in 1..new /\ 1..lockIndex \subseteq 1..new
      /\ new \notin 1..lockIndex
  BY DEF LockTypes
<1>3. LockTypes'
  BY <1>1, <1>2 DEF LockTypes
<1>4. /\ lockSent'[p] = new /\ new # NoValue
      /\ \A q \in Procs \ {p} : lockSent'[q] = lockSent[q] /\ lockSent[q] # new /\ lockAt'[q] = lockAt[q]
      /\ lockAt'[p] = "created"
  BY <1>1, <1>2, NoValueAssumption DEF LockTypes
<1>. HIDE DEF new
<1>5. UuidsDistinct'
  BY <1>1, <1>4 DEF UuidsDistinct
<1>6. lockNode' # NoValue /\ lockNode'.value = new
  BY <1>1, <1>2, NoValueAssumption
<1>7. LiveAtEtcd'
  BY <1>1, <1>4, <1>6 DEF LiveAtEtcd
<1>. QED BY <1>3, <1>5, <1>7

(* A release takes the key only if it has the holder's uuid. *)
LEMMA ReleaseKeepsLockInv ==
  ASSUME LockInv, NEW p \in Procs, Lock!Release(p)
  PROVE  LockInv'
<1>. USE DEF LockInv
<1>1. lockAt[p] = "holding" /\ UNCHANGED <<lockIndex, lockExpired, lockDeleted, lockSent>>
  BY DEF Lock!Release
<1>2. lockValue[p] # NoValue /\ lockValue[p] = lockSent[p]
  BY <1>1 DEF UuidsDistinct
<1>3. CASE lockNode # NoValue /\ lockNode.value # lockValue[p]
  <2>1. /\ lockNode' = lockNode /\ lockValue' = [lockValue EXCEPT ![p] = lockValue[p]]
        /\ lockAt' = [lockAt EXCEPT ![p] = "raised"]
    BY <1>3 DEF Lock!Release, Lock!delete_if_value, Lock!Reply
  <2>2. lockValue' = lockValue
    BY <2>1 DEF LockTypes
  <2>. QED BY <1>1, <1>2, <2>1, <2>2 DEF LockTypes, UuidsDistinct, LiveAtEtcd
<1>4. CASE lockNode = NoValue \/ lockNode.value = lockValue[p]
  <2>1. /\ lockNode' = NoValue /\ lockValue' = [lockValue EXCEPT ![p] = NoValue]
        /\ lockAt' = [lockAt EXCEPT ![p] = "idle"]
    BY <1>4 DEF Lock!Release, Lock!delete_if_value, Lock!Reply
  <2>2. LockTypes'
    BY <1>1, <2>1 DEF LockTypes
  <2>3. /\ lockValue'[p] = NoValue /\ lockAt'[p] = "idle"
        /\ \A q \in Procs \ {p} : lockValue'[q] = lockValue[q] /\ lockAt'[q] = lockAt[q]
    BY <2>1 DEF LockTypes
  <2>4. UuidsDistinct'
    BY <1>1, <2>3 DEF UuidsDistinct
  <2>5. \A q \in Procs \ {p} : lockNode # NoValue /\ lockNode.value = lockSent[q] => lockSent[q] = NoValue
    BY <1>2, <1>4 DEF UuidsDistinct
  <2>6. \A q \in Procs : lockAt[q] = "created" \/ lockValue[q] # NoValue => lockSent[q] # NoValue
    BY DEF UuidsDistinct
  <2>7. LiveAtEtcd'
    BY <1>1, <2>1, <2>3, <2>5, <2>6 DEF LiveAtEtcd
  <2>. QED BY <2>2, <2>4, <2>7
<1>. QED BY <1>3, <1>4

(* A release that raises leaves the key, or takes it with its own uuid,    *)
(* which then counts as deleted.                                           *)
LEMMA ReleaseRaisesKeepsLockInv ==
  ASSUME LockInv, NEW p \in Procs, Lock!ReleaseRaises(p)
  PROVE  LockInv'
<1>. USE DEF LockInv
<1>1. /\ lockAt[p] = "holding" /\ UNCHANGED <<lockIndex, lockExpired, lockSent, lockValue>>
      /\ lockAt' = [lockAt EXCEPT ![p] = "raised"]
      /\ lockDeleted' = IF lockNode' # lockNode THEN lockDeleted \cup {lockValue[p]} ELSE lockDeleted
  BY DEF Lock!ReleaseRaises
<1>2. lockValue[p] # NoValue /\ lockValue[p] = lockSent[p]
  BY <1>1 DEF UuidsDistinct
<1>3. lockNode' = lockNode \/ (lockNode # NoValue /\ lockNode.value = lockValue[p] /\ lockNode' = NoValue)
  BY DEF Lock!ReleaseRaises, Lock!delete_if_value, Lock!Reply
<1>4. LockTypes' /\ UuidsDistinct'
  BY <1>1, <1>2, <1>3 DEF LockTypes, UuidsDistinct
<1>5. CASE lockNode' = lockNode
  BY <1>1, <1>4, <1>5, <1>2 DEF LiveAtEtcd, LockTypes
<1>6. CASE lockNode # NoValue /\ lockNode.value = lockValue[p] /\ lockNode' = NoValue
  <2>1. lockDeleted' = lockDeleted \cup {lockSent[p]}
    BY <1>1, <1>2, <1>6
  <2>2. \A q \in Procs : lockNode.value = lockSent[q] => lockSent[q] \in lockDeleted'
    BY <1>2, <1>6, <2>1
  <2>3. \A q \in Procs : lockAt'[q] = "created" \/ lockValue'[q] # NoValue =>
          lockAt[q] = "created" \/ lockValue[q] # NoValue
    BY <1>1 DEF LockTypes
  <2>4. LiveAtEtcd'
    BY <1>1, <2>1, <2>2, <2>3 DEF LiveAtEtcd
  <2>. QED BY <1>4, <2>4
<1>. QED BY <1>3, <1>5, <1>6

(* The uuid of a key whose time has passed counts as expired. *)
LEMMA ExpireKeepsLockInv ==
  ASSUME LockInv, Lock!Expire
  PROVE  LockInv'
<1>1. /\ lockNode' = NoValue /\ lockExpired' = lockExpired \cup {lockNode.value}
      /\ UNCHANGED <<lockIndex, lockDeleted, lockAt, lockSent, lockValue>>
  BY DEF Lock!Expire
<1>. QED BY <1>1 DEF LockInv, LockTypes, UuidsDistinct, LiveAtEtcd

(* Every step of the lock preserves its invariant. *)
LEMMA LockNextKeepsInv == LockInv /\ [Lock!Next]_lockVars => LockInv'
<1>. SUFFICES ASSUME LockInv, [Lock!Next]_lockVars PROVE LockInv'
  OBVIOUS
<1>1. CASE Lock!Expire
  BY <1>1, ExpireKeepsLockInv
<1>2. ASSUME NEW p \in Procs, Lock!AcquireAgain(p) \/ Lock!Created(p) \/ Lock!AcquireTimeout(p) PROVE LockInv'
  BY <1>2, LocalStepKeepsLockInv
<1>3. ASSUME NEW p \in Procs, Lock!TryCreate(p) PROVE LockInv'
  BY <1>3, TryCreateKeepsLockInv
<1>4. ASSUME NEW p \in Procs, Lock!Release(p) PROVE LockInv'
  BY <1>4, ReleaseKeepsLockInv
<1>5. ASSUME NEW p \in Procs, Lock!ReleaseRaises(p) PROVE LockInv'
  BY <1>5, ReleaseRaisesKeepsLockInv
<1>6. CASE UNCHANGED lockVars
  BY <1>6 DEF lockVars, LockInv, LockTypes, UuidsDistinct, LiveAtEtcd
<1>. QED BY <1>1, <1>2, <1>3, <1>4, <1>5, <1>6 DEF Lock!Next

(* Of two holders one has a lost uuid: the key has one value. *)
LEMMA LockInvGives == LockInv => Lock!ExclusiveUnlessLost
<1>. SUFFICES ASSUME LockInv, NEW p \in Procs, NEW q \in Procs, p # q,
                     lockAt[p] = "holding", lockAt[q] = "holding"
              PROVE  lockValue[p] \in lockExpired \cup lockDeleted \/ lockValue[q] \in lockExpired \cup lockDeleted
  BY DEF Lock!ExclusiveUnlessLost, Lock!Holding
<1>1. /\ lockValue[p] # NoValue /\ lockValue[p] = lockSent[p]
      /\ lockValue[q] # NoValue /\ lockValue[q] = lockSent[q]
      /\ lockSent[p] # lockSent[q]
  BY DEF LockInv, UuidsDistinct
<1>. QED BY <1>1 DEF LockInv, LiveAtEtcd

(* A step that ends a process's hold and empties the key was its release,  *)
(* which found its own uuid there.                                         *)
LEMMA ReleaseStepTakesOwn ==
  ASSUME LockInv, [Lock!Next]_lockVars, NEW p \in Procs, lockAt[p] = "holding", lockAt'[p] # "holding",
         lockNode # NoValue, lockNode' = NoValue
  PROVE  lockNode.value = lockValue[p]
<1>1. lockAt' # lockAt /\ ~UNCHANGED lockVars
  BY DEF lockVars
<1>2. ~Lock!Expire
  BY <1>1 DEF Lock!Expire
<1>3. PICK q \in Procs : Lock!AcquireAgain(q) \/ Lock!TryCreate(q) \/ Lock!Created(q)
                         \/ Lock!AcquireTimeout(q) \/ Lock!Release(q) \/ Lock!ReleaseRaises(q)
  BY <1>1, <1>2 DEF Lock!Next
<1>4. Lock!Release(q) \/ Lock!ReleaseRaises(q)
  BY <1>3 DEF Lock!AcquireAgain, Lock!TryCreate, Lock!create, Lock!Reply, Lock!Created, Lock!AcquireTimeout
<1>5. q = p
  BY <1>4 DEF Lock!Release, Lock!ReleaseRaises, LockInv, LockTypes
<1>. QED BY <1>4, <1>5 DEF Lock!Release, Lock!ReleaseRaises, Lock!delete_if_value, Lock!Reply

-----------------------------------------------------------------------------
(* A node with a value is not the absence of one. *)
LEMMA NodesArePresent ==
  ASSUME NEW v \in SUBSET Words, NEW i \in Nat
  PROVE  /\ Collection!Node(v, i) \in DictNodes /\ Collection!Node(v, i) # NoValue
         /\ Collection!Node(v, i).value = v /\ Collection!Node(v, i).modified = i
         /\ Collection!Value(Collection!Node(v, i)) = v
BY NoValueAssumption DEF Collection!Node, Collection!Value, DictNodes

(* What etcd has is a set of items. *)
LEMMA ValuesAreSets ==
  ASSUME NEW n \in DictNodes
  PROVE  Collection!Value(n) \in SUBSET Words
BY DEF Collection!Value, DictNodes

(* An operation makes a set of items of one; a clear makes it empty. *)
LEMMA UpdatesAreSets ==
  ASSUME NEW o \in Collection!Ops, NEW s \in SUBSET Words
  PROVE  /\ Collection!updater(o, s) \in SUBSET Words
         /\ o = [kind |-> "clear"] => Collection!updater(o, s) = {}
<1>1. CASE o \in [kind : {"add", "discard"}, item : Words]
  BY <1>1 DEF Collection!updater
<1>2. CASE o = [kind |-> "clear"]
  BY <1>2 DEF Collection!updater
<1>. QED BY <1>1, <1>2 DEF Collection!Ops

(* There are no events yet, and the collection is empty. *)
LEMMA DictInitInv == Collection!Init => DictInv
<1>. SUFFICES ASSUME Collection!Init PROVE DictInv
  OBVIOUS
<1>1. /\ dictNode \in DictNodes /\ Collection!Value(dictNode) = {}
      /\ dictNode # NoValue => dictNode.modified = 0
  BY NodesArePresent DEF Collection!Init, DictNodes, Collection!Value
<1>2. dictLog = <<>> /\ dictLog \in Seq(DictEvents) /\ Len(dictLog) = 0
  BY DEF Collection!Init
<1>3. DictTypes
  BY <1>1, <1>2 DEF Collection!Init, DictTypes, DictNodes
<1>4. Collection!Before(1) = {}
  BY DEF Collection!Before
<1>5. IndexNamesValue
  BY <1>1, <1>2, <1>4 DEF Collection!Init, IndexNamesValue
<1>6. AnswerFitsRead /\ ReadersAtIndex
  BY <1>1, <1>2, <1>4 DEF Collection!Init, AnswerFitsRead, ReadersAtIndex
<1>7. Collection!NoLostUpdate /\ Collection!AnswersTruthful
  BY <1>2, WritersAssumption DEF Collection!Init, Collection!NoLostUpdate, Collection!AnswersTruthful
<1>. QED BY <1>3, <1>5, <1>6, <1>7 DEF DictInv

(* A writer reads the key, and decides what it will answer. *)
LEMMA ReadKeepsDictInv ==
  ASSUME DictInv, NEW p \in Procs, Collection!Read(p)
  PROVE  DictInv'
<1>. USE DEF DictInv
<1>1. /\ UNCHANGED <<dictNode, dictLog, local, dictIndex, seen>> /\ p \in Updaters
      /\ got' = [got EXCEPT ![p] = dictNode] /\ dictAt' = [dictAt EXCEPT ![p] = "read"]
      /\ ret' = [ret EXCEPT ![p] = Collection!before_state(op'[p], Collection!Value(dictNode))]
      /\ dictAt[p] \in {"idle", "retry"}
  BY DEF Collection!Read
<1>2. /\ op' \in [Procs -> {NoValue} \cup Collection!Ops] /\ op'[p] \in Collection!Ops
      /\ \A q \in Procs \ {p} : op'[q] = op[q]
  <2>1. CASE dictAt[p] = "retry"
    BY <2>1 DEF Collection!Read, DictTypes
  <2>2. CASE dictAt[p] = "idle"
    <3>1. PICK o \in Collection!Ops : op' = [op EXCEPT ![p] = o]
      BY <2>2 DEF Collection!Read
    <3>. QED BY <3>1 DEF DictTypes
  <2>. QED BY <1>1, <2>1, <2>2
<1>3. /\ got'[p] = dictNode /\ dictAt'[p] = "read"
      /\ ret'[p] = Collection!before_state(op'[p], Collection!Value(dictNode))
      /\ \A q \in Procs \ {p} : got'[q] = got[q] /\ dictAt'[q] = dictAt[q] /\ ret'[q] = ret[q]
  BY <1>1 DEF DictTypes
<1>4. DictTypes'
  BY <1>1, <1>2, <1>3 DEF DictTypes
<1>5. IndexNamesValue'
  BY <1>1, <1>3 DEF IndexNamesValue, Collection!Before, Collection!Value
<1>6. AnswerFitsRead'
  BY <1>2, <1>3 DEF AnswerFitsRead
<1>7. ReadersAtIndex' /\ Collection!NoLostUpdate'
  BY <1>1 DEF ReadersAtIndex, Collection!NoLostUpdate, Collection!Before
<1>8. Collection!AnswersTruthful'
  BY <1>1, <1>2, <1>3, WritersAssumption DEF Collection!AnswersTruthful, Collection!Before
<1>. QED BY <1>4, <1>5, <1>6, <1>7, <1>8

(* An event is appended: those before it, and what they replaced, stay. *)
LEMMA EventAppended ==
  ASSUME dictLog \in Seq(DictEvents), NEW e \in DictEvents, dictLog' = Append(dictLog, e)
  PROVE  /\ dictLog' \in Seq(DictEvents) /\ Len(dictLog) \in Nat /\ Len(dictLog') = Len(dictLog) + 1
         /\ \A i \in 1..Len(dictLog) : dictLog'[i] = dictLog[i]
         /\ dictLog'[Len(dictLog) + 1] = e
         /\ \A i \in 1..(Len(dictLog) + 1) : Collection!Before(i)' = Collection!Before(i)
         /\ \A i : i = Len(dictLog) + 2 => Collection!Before(i)' = e.value
<1>1. /\ dictLog' \in Seq(DictEvents) /\ Len(dictLog) \in Nat /\ Len(dictLog') = Len(dictLog) + 1
      /\ \A i \in 1..Len(dictLog) : dictLog'[i] = dictLog[i]
      /\ dictLog'[Len(dictLog) + 1] = e
  OBVIOUS
<1>2. \A i \in 1..(Len(dictLog) + 1) : Collection!Before(i)' = Collection!Before(i)
  BY <1>1 DEF Collection!Before
<1>3. \A i : i = Len(dictLog) + 2 => Collection!Before(i)' = e.value
  BY <1>1 DEF Collection!Before
<1>. QED BY <1>1, <1>2, <1>3

(* An event that is its operation applied to what the key had keeps what   *)
(* is known of the log and of the readers.                                 *)
LEMMA EventKeepsLog ==
  ASSUME DictInv, NEW e \in DictEvents, dictLog' = Append(dictLog, e),
         e.value = Collection!updater(e.op, Collection!Value(dictNode)),
         UNCHANGED <<local, dictIndex, seen>>
  PROVE  /\ Collection!NoLostUpdate' /\ ReadersAtIndex'
         /\ dictLog' \in Seq(DictEvents) /\ \A p \in Procs : dictIndex'[p] <= Len(dictLog')
<1>. USE DEF DictInv
<1>1. dictLog \in Seq(DictEvents) /\ \A p \in Procs : dictIndex[p] \in Nat /\ dictIndex[p] <= Len(dictLog)
  BY DEF DictTypes
<1>2. /\ dictLog' \in Seq(DictEvents) /\ Len(dictLog) \in Nat /\ Len(dictLog') = Len(dictLog) + 1
      /\ \A i \in 1..Len(dictLog) : dictLog'[i] = dictLog[i]
      /\ dictLog'[Len(dictLog) + 1] = e
      /\ \A i \in 1..(Len(dictLog) + 1) : Collection!Before(i)' = Collection!Before(i)
  BY <1>1, EventAppended
<1>3. ASSUME NEW i \in 1..Len(dictLog')
      PROVE  dictLog'[i].value = Collection!updater(dictLog'[i].op, Collection!Before(i)')
  <2>1. CASE i \in 1..Len(dictLog)
    <3>1. dictLog'[i] = dictLog[i] /\ Collection!Before(i)' = Collection!Before(i)
      BY <1>2, <2>1
    <3>. QED BY <2>1, <3>1 DEF Collection!NoLostUpdate
  <2>2. CASE i = Len(dictLog) + 1
    <3>1. dictLog'[i] = e /\ Collection!Before(i)' = Collection!Value(dictNode)
      BY <1>2, <2>2 DEF IndexNamesValue
    <3>. QED BY <3>1
  <2>. QED BY <1>2, <2>1, <2>2
<1>4. Collection!NoLostUpdate'
  BY <1>3 DEF Collection!NoLostUpdate
<1>5. ReadersAtIndex'
  <2>1. ASSUME NEW p \in Procs \ Updaters PROVE Collection!Before(dictIndex[p] + 1)' = Collection!Before(dictIndex[p] + 1)
    <3>1. dictIndex[p] + 1 \in 1..(Len(dictLog) + 1) /\ dictIndex'[p] = dictIndex[p]
      BY <1>1, <1>2
    <3>. QED BY <1>1, <1>2, <3>1 DEF Collection!Before
  <2>. QED BY <2>1 DEF ReadersAtIndex
<1>. QED BY <1>1, <1>2, <1>4, <1>5

(* The answers that were true of an event stay true when others follow. *)
LEMMA AnswerStaysTrue ==
  ASSUME DictInv, NEW e \in DictEvents, dictLog' = Append(dictLog, e), NEW p \in Updaters,
         op'[p] = op[p], ret'[p] = ret[p],
         NEW j \in 1..Len(dictLog), dictLog[j].by = p,
         ret[p] = Collection!before_state(op[p], IF j = 1 THEN {} ELSE Collection!Before(j))
  PROVE  \E k \in 1..Len(dictLog') : /\ dictLog'[k].by = p
             /\ ret'[p] = Collection!before_state(op'[p], IF k = 1 THEN {} ELSE Collection!Before(k)')
<1>1. /\ Len(dictLog) \in Nat /\ Len(dictLog') = Len(dictLog) + 1
      /\ dictLog'[j] = dictLog[j] /\ Collection!Before(j)' = Collection!Before(j)
  BY EventAppended DEF DictInv, DictTypes
<1>. QED BY <1>1

(* The conditional write: it succeeds only on the node that was read. *)
LEMMA CasWriteKeepsDictInv ==
  ASSUME DictInv, NEW p \in Procs, Collection!CasWrite(p)
  PROVE  DictInv'
<1>. USE DEF DictInv
<1>. DEFINE new == Collection!updater(op[p], Collection!Value(got[p]))
            at == Len(dictLog) + 1
            node == Collection!Node(new, at)
            event == Collection!Event(node, p, op[p])
<1>1. /\ dictAt[p] = "read" /\ UNCHANGED <<op, got, ret, local, dictIndex, seen>>
      /\ op[p] \in Collection!Ops /\ got[p] \in DictNodes /\ dictNode \in DictNodes
      /\ dictLog \in Seq(DictEvents) /\ Len(dictLog) \in Nat /\ at \in Nat
  BY DEF Collection!CasWrite, DictTypes
<1>2. new \in SUBSET Words /\ Collection!Value(got[p]) \in SUBSET Words
  BY <1>1, ValuesAreSets, UpdatesAreSets
<1>3. /\ node \in DictNodes /\ node # NoValue /\ node.value = new /\ node.modified = at
      /\ Collection!Value(node) = new
  BY <1>1, <1>2, NodesArePresent
<1>4. \/ /\ dictNode' = dictNode /\ dictLog' = dictLog
         /\ \E a \in {"retry", "raised"} : dictAt' = [dictAt EXCEPT ![p] = a]
      \/ /\ dictNode' = node /\ dictLog' = Append(dictLog, event)
         /\ dictAt' = [dictAt EXCEPT ![p] = "written"]
         /\ \/ got[p] = NoValue /\ dictNode = NoValue
            \/ got[p] # NoValue /\ dictNode # NoValue /\ dictNode.modified = got[p].modified
  BY DEF Collection!CasWrite, Collection!Cas, Collection!create, Collection!set_if_index, Collection!Reply
<1>5. CASE dictNode' = dictNode /\ dictLog' = dictLog /\ \E a \in {"retry", "raised"} : dictAt' = [dictAt EXCEPT ![p] = a]
  <2>1. PICK a \in {"retry", "raised"} : dictAt' = [dictAt EXCEPT ![p] = a]
    BY <1>5
  <2>2. p \in Updaters /\ dictAt'[p] = a /\ \A q \in Procs \ {p} : dictAt'[q] = dictAt[q]
    BY <1>1, <2>1 DEF DictTypes
  <2>3. DictTypes'
    BY <1>1, <1>5, <2>1, <2>2 DEF DictTypes
  <2>4. IndexNamesValue' /\ ReadersAtIndex' /\ Collection!NoLostUpdate'
    BY <1>1, <1>5 DEF IndexNamesValue, ReadersAtIndex, Collection!NoLostUpdate, Collection!Before, Collection!Value
  <2>5. AnswerFitsRead'
    BY <1>1, <2>2 DEF AnswerFitsRead, Collection!Value
  <2>6. Collection!AnswersTruthful'
    BY <1>1, <1>5, <2>2, WritersAssumption DEF Collection!AnswersTruthful, Collection!Before
  <2>. QED BY <2>3, <2>4, <2>5, <2>6
<1>6. CASE /\ dictNode' = node /\ dictLog' = Append(dictLog, event)
           /\ dictAt' = [dictAt EXCEPT ![p] = "written"]
           /\ \/ got[p] = NoValue /\ dictNode = NoValue
              \/ got[p] # NoValue /\ dictNode # NoValue /\ dictNode.modified = got[p].modified
  <2>1. got[p] = dictNode
    BY <1>6 DEF IndexNamesValue
  <2>2. event \in DictEvents /\ event.value = new /\ event.by = p /\ event.op = op[p]
    BY <1>1, <1>2, <1>3 DEF Collection!Event, DictEvents
  <2>. HIDE DEF event
  <2>3. p \in Updaters /\ dictAt'[p] = "written" /\ \A q \in Procs \ {p} : dictAt'[q] = dictAt[q]
    BY <1>1, <1>6 DEF DictTypes
  <2>4. /\ Collection!NoLostUpdate' /\ ReadersAtIndex'
        /\ dictLog' \in Seq(DictEvents) /\ \A q \in Procs : dictIndex'[q] <= Len(dictLog')
    BY <1>1, <1>6, <2>1, <2>2, EventKeepsLog
  <2>5. /\ Len(dictLog') = at
        /\ dictLog'[at] = event /\ \A i \in 1..at : Collection!Before(i)' = Collection!Before(i)
        /\ \A i : i = at + 1 => Collection!Before(i)' = new
    BY <1>1, <1>6, <2>2, EventAppended
  <2>. HIDE DEF node, new
  <2>6. DictTypes'
    BY <1>1, <1>3, <1>6, <2>3, <2>4 DEF DictTypes
  <2>7. IndexNamesValue'
    <3>1. Collection!Value(dictNode)' = new /\ dictNode'.modified = at
      BY <1>3, <1>6 DEF Collection!Value
    <3>2. Collection!Before(Len(dictLog) + 1)' = new
      BY <1>1, <2>5 DEF Collection!Before
    <3>3. \A q \in Procs : got[q] # NoValue => got[q].modified <= Len(dictLog) /\ got[q].modified \in Nat
      BY DEF IndexNamesValue, DictTypes, DictNodes
    <3>. QED BY <1>1, <2>5, <3>1, <3>2, <3>3 DEF IndexNamesValue
  <2>8. AnswerFitsRead'
    BY <1>1, <2>3 DEF AnswerFitsRead, Collection!Value
  <2>9. Collection!AnswersTruthful'
    <3>1. ASSUME NEW q \in Updaters, dictAt'[q] \in {"written", "returned"}
          PROVE  \E k \in 1..Len(dictLog') : /\ dictLog'[k].by = q
                   /\ ret'[q] = Collection!before_state(op'[q], IF k = 1 THEN {} ELSE Collection!Before(k)')
      <4>1. CASE q = p
        <5>1. PICK n \in Nat : n = at
          BY <1>1
        <5>2. ret[p] = Collection!before_state(op[p], Collection!Before(n))
          BY <1>1, <2>1, <5>1 DEF AnswerFitsRead, IndexNamesValue
        <5>3. /\ Collection!Before(n)' = Collection!Before(n) /\ n \in 1..Len(dictLog')
              /\ dictLog'[n].by = p
          BY <1>1, <2>2, <2>5, <5>1
        <5>4. Collection!Before(n) = IF n = 1 THEN {} ELSE Collection!Before(n)'
          BY <5>3 DEF Collection!Before
        <5>. QED BY <1>1, <4>1, <5>2, <5>3, <5>4
      <4>2. CASE q # p
        <5>1. PICK j \in 1..Len(dictLog) :
                /\ dictLog[j].by = q
                /\ ret[q] = Collection!before_state(op[q], IF j = 1 THEN {} ELSE Collection!Before(j))
          BY <2>3, <3>1, <4>2, WritersAssumption DEF Collection!AnswersTruthful
        <5>. QED BY <1>1, <1>6, <2>2, <5>1, AnswerStaysTrue
      <4>. QED BY <4>1, <4>2
    <3>. QED BY <3>1 DEF Collection!AnswersTruthful
  <2>. QED BY <2>4, <2>6, <2>7, <2>8, <2>9
<1>. QED BY <1>4, <1>5, <1>6

(* Somebody deletes the key, which clears the collection. *)
LEMMA DeleteKeepsDictInv ==
  ASSUME DictInv, Collection!DeleteKey
  PROVE  DictInv'
<1>. USE DEF DictInv
<1>. DEFINE event == Collection!Event(NoValue, "nobody", [kind |-> "clear"])
<1>1. /\ dictNode # NoValue /\ dictNode' = NoValue /\ dictLog' = Append(dictLog, event)
      /\ UNCHANGED <<dictAt, op, got, ret, local, dictIndex, seen>>
      /\ dictLog \in Seq(DictEvents) /\ dictNode \in DictNodes
  BY DEF Collection!DeleteKey, DictTypes
<1>2. event \in DictEvents /\ event.value = {} /\ event.op = [kind |-> "clear"]
  <2>1. [kind |-> "clear"] \in Collection!Ops
    BY DEF Collection!Ops
  <2>. QED BY <2>1 DEF Collection!Event, Collection!Value, DictEvents
<1>. HIDE DEF event
<1>3. event.value = Collection!updater(event.op, Collection!Value(dictNode))
  <2>1. event.op \in Collection!Ops
    BY <1>2 DEF Collection!Ops
  <2>. QED BY <1>1, <1>2, <2>1, ValuesAreSets, UpdatesAreSets
<1>4. /\ Collection!NoLostUpdate' /\ ReadersAtIndex'
      /\ dictLog' \in Seq(DictEvents) /\ \A q \in Procs : dictIndex'[q] <= Len(dictLog')
  BY <1>1, <1>2, <1>3, EventKeepsLog
<1>5. /\ Len(dictLog) \in Nat /\ Len(dictLog') = Len(dictLog) + 1
      /\ \A i : i = Len(dictLog) + 2 => Collection!Before(i)' = {}
  BY <1>1, <1>2, EventAppended
<1>6. DictTypes'
  BY <1>1, <1>4 DEF DictTypes, DictNodes
<1>7. IndexNamesValue'
  <2>1. Collection!Value(dictNode)' = {} /\ Collection!Before(Len(dictLog) + 1)' = {}
    BY <1>1, <1>5 DEF Collection!Value, Collection!Before
  <2>2. \A q \in Procs : got[q] # NoValue => got[q].modified <= Len(dictLog) /\ got[q].modified \in Nat
    BY DEF IndexNamesValue, DictTypes, DictNodes
  <2>. QED BY <1>1, <1>5, <2>1, <2>2 DEF IndexNamesValue
<1>8. AnswerFitsRead'
  BY <1>1 DEF AnswerFitsRead, Collection!Value
<1>9. Collection!AnswersTruthful'
  <2>1. ASSUME NEW q \in Updaters, dictAt'[q] \in {"written", "returned"}
        PROVE  \E k \in 1..Len(dictLog') : /\ dictLog'[k].by = q
                 /\ ret'[q] = Collection!before_state(op'[q], IF k = 1 THEN {} ELSE Collection!Before(k)')
    <3>1. PICK j \in 1..Len(dictLog) :
            /\ dictLog[j].by = q
            /\ ret[q] = Collection!before_state(op[q], IF j = 1 THEN {} ELSE Collection!Before(j))
      BY <1>1, <2>1 DEF Collection!AnswersTruthful
    <3>. QED BY <1>1, <1>2, <3>1, AnswerStaysTrue
  <2>. QED BY <2>1 DEF Collection!AnswersTruthful
<1>. QED BY <1>4, <1>6, <1>7, <1>8, <1>9

(* The answer arrives at a writer, which takes over what it wrote. *)
LEMMA WrittenKeepsDictInv ==
  ASSUME DictInv, NEW p \in Procs, Collection!Written(p)
  PROVE  DictInv'
<1>. USE DEF DictInv
<1>. DEFINE new == Collection!updater(op[p], Collection!Value(got[p]))
<1>1. /\ dictAt[p] = "written" /\ local' = [local EXCEPT ![p] = new]
      /\ dictAt' = [dictAt EXCEPT ![p] = "returned"]
      /\ UNCHANGED <<dictNode, dictLog, op, got, ret, dictIndex, seen>>
  BY DEF Collection!Written
<1>2. new \in SUBSET Words
  BY <1>1, ValuesAreSets, UpdatesAreSets DEF DictTypes
<1>. HIDE DEF new
<1>3. /\ p \in Updaters /\ dictAt'[p] = "returned"
      /\ \A q \in Procs \ {p} : dictAt'[q] = dictAt[q] /\ local'[q] = local[q]
  BY <1>1 DEF DictTypes
<1>4. DictTypes'
  BY <1>1, <1>2, <1>3 DEF DictTypes
<1>5. IndexNamesValue' /\ Collection!NoLostUpdate'
  BY <1>1 DEF IndexNamesValue, Collection!NoLostUpdate, Collection!Before, Collection!Value
<1>6. AnswerFitsRead' /\ ReadersAtIndex'
  BY <1>1, <1>3 DEF AnswerFitsRead, ReadersAtIndex, Collection!Before, Collection!Value
<1>7. Collection!AnswersTruthful'
  BY <1>1, <1>3, WritersAssumption DEF Collection!AnswersTruthful, Collection!Before
<1>. QED BY <1>4, <1>5, <1>6, <1>7

(* A watcher has seen an event, or has read the key again. *)
LEMMA WatcherKeepsDictInv ==
  ASSUME DictInv, NEW p \in Procs, Collection!Watch(p) \/ Collection!Resync(p)
  PROVE  DictInv'
<1>. USE DEF DictInv
<1>1. UNCHANGED <<dictNode, dictLog, dictAt, op, got, ret>> /\ dictIndex[p] < Len(dictLog)
  BY DEF Collection!Watch, Collection!Resync
<1>2. dictLog \in Seq(DictEvents) /\ Len(dictLog) \in Nat /\ dictIndex[p] \in Nat
  BY DEF DictTypes
<1>3. PICK i \in 1..Len(dictLog), v \in SUBSET Words :
        /\ v = Collection!Before(i + 1) /\ dictIndex' = [dictIndex EXCEPT ![p] = i]
        /\ local' = IF v = seen[p] THEN local ELSE [local EXCEPT ![p] = v]
        /\ seen' = [seen EXCEPT ![p] = v]
  <2>1. CASE Collection!Watch(p)
    <3>1. dictIndex[p] + 1 \in 1..Len(dictLog)
      BY <1>1, <1>2
    <3>2. /\ dictLog[dictIndex[p] + 1].value \in SUBSET Words
          /\ dictLog[dictIndex[p] + 1].value = Collection!Before((dictIndex[p] + 1) + 1)
      <4>1. \A j \in 1..Len(dictLog) : j + 1 # 1 /\ (j + 1) - 1 = j
        BY <1>2
      <4>2. \A j \in 1..Len(dictLog) : Collection!Before(j + 1) = dictLog[j].value
        BY <4>1 DEF Collection!Before
      <4>3. \A j \in 1..Len(dictLog) : dictLog[j].value \in SUBSET Words
        <5>1. \A j \in 1..Len(dictLog) : dictLog[j] \in DictEvents
          BY <1>2, ElementOfSeq
        <5>2. \A e \in DictEvents : e.value \in SUBSET Words
          BY DEF DictEvents
        <5>. QED BY <5>1, <5>2
      <4>. QED BY <3>1, <4>2, <4>3
    <3>. QED BY <2>1, <3>1, <3>2 DEF Collection!Watch
  <2>2. CASE Collection!Resync(p)
    <3>1. Len(dictLog) \in 1..Len(dictLog)
      BY <1>1, <1>2
    <3>2. Collection!Value(dictNode) \in SUBSET Words /\ Collection!Value(dictNode) = Collection!Before(Len(dictLog) + 1)
      BY ValuesAreSets DEF DictTypes, IndexNamesValue
    <3>. QED BY <2>2, <3>1, <3>2 DEF Collection!Resync
  <2>. QED BY <2>1, <2>2
<1>4. /\ local' \in [Procs -> SUBSET Words] /\ seen' \in [Procs -> SUBSET Words] /\ dictIndex' \in [Procs -> Nat]
      /\ dictIndex'[p] = i /\ seen'[p] = v /\ (seen[p] = local[p] => local'[p] = v)
      /\ \A q \in Procs \ {p} : dictIndex'[q] = dictIndex[q] /\ seen'[q] = seen[q] /\ local'[q] = local[q]
  BY <1>2, <1>3 DEF DictTypes
<1>5. DictTypes'
  BY <1>1, <1>2, <1>4 DEF DictTypes
<1>6. \A k : Collection!Before(k)' = Collection!Before(k)
  BY <1>1 DEF Collection!Before
<1>7. ReadersAtIndex'
  <2>1. ASSUME NEW q \in Procs \ Updaters
        PROVE  /\ local'[q] = Collection!Before(dictIndex'[q] + 1)
               /\ seen'[q] = Collection!Before(dictIndex'[q] + 1)
    <3>1. CASE q = p
      BY <1>3, <1>4, <2>1, <3>1 DEF ReadersAtIndex
    <3>2. CASE q # p
      BY <1>4, <2>1, <3>2 DEF ReadersAtIndex
    <3>. QED BY <3>1, <3>2
  <2>. QED BY <1>1, <2>1 DEF ReadersAtIndex, Collection!Before
<1>8. IndexNamesValue' /\ AnswerFitsRead'
  BY <1>1 DEF IndexNamesValue, AnswerFitsRead, Collection!Before, Collection!Value
<1>9. Collection!NoLostUpdate' /\ Collection!AnswersTruthful'
  BY <1>1, <1>6 DEF Collection!NoLostUpdate, Collection!AnswersTruthful
<1>. QED BY <1>5, <1>7, <1>8, <1>9

(* Every step of the collection preserves its invariant. *)
LEMMA DictNextKeepsInv == DictInv /\ [Collection!Next]_dictVars => DictInv'
<1>. SUFFICES ASSUME DictInv, [Collection!Next]_dictVars PROVE DictInv'
  OBVIOUS
<1>1. CASE Collection!DeleteKey
  BY <1>1, DeleteKeepsDictInv
<1>2. ASSUME NEW p \in Procs, Collection!Read(p) PROVE DictInv'
  BY <1>2, ReadKeepsDictInv
<1>3. ASSUME NEW p \in Procs, Collection!CasWrite(p) PROVE DictInv'
  BY <1>3, CasWriteKeepsDictInv
<1>4. ASSUME NEW p \in Procs, Collection!Written(p) PROVE DictInv'
  BY <1>4, WrittenKeepsDictInv
<1>5. ASSUME NEW p \in Procs, Collection!Watch(p) \/ Collection!Resync(p) PROVE DictInv'
  BY <1>5, WatcherKeepsDictInv
<1>6. CASE UNCHANGED dictVars
  <2>1. UNCHANGED <<dictNode, dictLog, dictAt, op, got, ret, local, dictIndex, seen>>
    BY <1>6 DEF dictVars
  <2>2. \A k : Collection!Before(k)' = Collection!Before(k)
    BY <2>1 DEF Collection!Before
  <2>3. DictTypes'
    BY <2>1 DEF DictInv, DictTypes
  <2>4. IndexNamesValue' /\ AnswerFitsRead' /\ ReadersAtIndex'
    BY <2>1 DEF DictInv, IndexNamesValue, AnswerFitsRead, ReadersAtIndex, Collection!Before, Collection!Value
  <2>5. Collection!NoLostUpdate' /\ Collection!AnswersTruthful'
    BY <2>1, <2>2 DEF DictInv, Collection!NoLostUpdate, Collection!AnswersTruthful
  <2>. QED BY <2>3, <2>4, <2>5 DEF DictInv
<1>. QED BY <1>1, <1>2, <1>3, <1>4, <1>5, <1>6 DEF Collection!Next

(* A reader at the end of the log has what the key has. *)
LEMMA DictInvGives ==
  DictInv => Collection!NoLostUpdate /\ Collection!AnswersTruthful /\ Collection!ReadersFollow
BY DEF DictInv, ReadersAtIndex, IndexNamesValue, Collection!ReadersFollow

-----------------------------------------------------------------------------
(* Taking over a topology takes over its members. *)
LEMMA TopologyFields ==
  /\ IsTopology(Ring!Empty)
  /\ \A t : IsTopology(t) => \A n, r : /\ IsTopology([t EXCEPT !.members[n] = r])
                                       /\ IsTopology([t EXCEPT !.overrides[n] = r])
                                       /\ [t EXCEPT !.overrides[n] = r].members = t.members
<1>1. IsTopology(Ring!Empty)
  BY DEF IsTopology, Ring!Empty, Ring!Topology
<1>2. ASSUME NEW t, IsTopology(t), NEW n, NEW r
      PROVE  /\ IsTopology([t EXCEPT !.members[n] = r])
             /\ IsTopology([t EXCEPT !.overrides[n] = r])
             /\ [t EXCEPT !.overrides[n] = r].members = t.members
  <2>1. PICK a, b : t = [members |-> a, overrides |-> b]
    BY <1>2 DEF IsTopology, Ring!Topology
  <2>. QED BY <2>1 DEF IsTopology, Ring!Topology
<1>. QED BY <1>1, <1>2

(* Nothing is stored, and nobody watches. *)
LEMMA RingInitInv == Ring!Init => RingInv
<1>. SUFFICES ASSUME Ring!Init PROVE RingInv
  OBVIOUS
<1>1. ringLog = <<>> /\ Len(ringLog) = 0 /\ ringLog \in Seq({ringLog[i] : i \in 1..Len(ringLog)})
  BY DEF Ring!Init
<1>2. RingTypes
  BY <1>1 DEF Ring!Init, RingTypes
<1>3. ASSUME NEW p \in RingProcs PROVE RingHeld(p) /\ RingReader(p) /\ RingBuilt(p)
  <2>1. /\ mine[p] = Ring!Empty /\ ring[p] = Ring!Empty.members /\ ~ringWatching[p] /\ ringIndex[p] = 0
        /\ busy[p] = <<>> /\ pending[p] = <<>>
    BY DEF Ring!Init
  <2>. QED BY <1>1, <2>1, TopologyFields DEF RingHeld, RingReader, RingBuilt
<1>. QED BY <1>2, <1>3 DEF RingInv

(* A topology is stored behind those that were stored before. *)
LEMMA RingLogGrows ==
  ASSUME RingTypes, NEW t, IsTopology(t), ringLog' = Append(ringLog, t)
  PROVE  /\ Len(ringLog) \in Nat /\ Len(ringLog') = Len(ringLog) + 1
         /\ \A i \in 1..Len(ringLog) : ringLog'[i] = ringLog[i]
         /\ ringLog'[Len(ringLog) + 1] = t
         /\ ringLog' \in Seq({ringLog'[i] : i \in 1..Len(ringLog')})
         /\ \A i \in 1..Len(ringLog') : IsTopology(ringLog'[i])
         /\ \A i \in 0..Len(ringLog) : TopologyAt(i)' = TopologyAt(i)
<1>. DEFINE S == {ringLog[i] : i \in 1..Len(ringLog)} \cup {t}
            R == {ringLog'[i] : i \in 1..Len(ringLog')}
<1>1. ringLog \in Seq(S) /\ t \in S
  <2>1. ringLog \in Seq({ringLog[i] : i \in 1..Len(ringLog)})
    BY DEF RingTypes
  <2>. QED BY <2>1, SeqMonotonic
<1>. HIDE DEF S
<1>2. /\ ringLog' \in Seq(S) /\ Len(ringLog) \in Nat /\ Len(ringLog') = Len(ringLog) + 1
      /\ \A i \in 1..Len(ringLog) : ringLog'[i] = ringLog[i]
      /\ ringLog'[Len(ringLog) + 1] = t
  BY <1>1
<1>3. ringLog' \in Seq(R)
  <2>1. \A s \in Seq(S) : s \in Seq({s[i] : i \in 1..Len(s)})
    BY SeqOfRange, RangeEquality
  <2>. QED BY <1>2, <2>1
<1>4. \A i \in 1..Len(ringLog') : IsTopology(ringLog'[i])
  <2>1. \A i \in 1..Len(ringLog') : i \in 1..Len(ringLog) \/ i = Len(ringLog) + 1
    BY <1>2
  <2>. QED BY <1>2, <2>1 DEF RingTypes
<1>5. \A i \in 0..Len(ringLog) : TopologyAt(i)' = TopologyAt(i)
  BY <1>2 DEF TopologyAt, Ring!Empty
<1>. QED BY <1>2, <1>3, <1>4, <1>5

RingSame(q) ==
  /\ mine'[q] = mine[q] /\ ring'[q] = ring[q] /\ ringWatching'[q] = ringWatching[q]
  /\ ringIndex'[q] = ringIndex[q] /\ busy'[q] = busy[q] /\ pending'[q] = pending[q]

(* What another process does to the log leaves a process's invariants. *)
LEMMA OtherProcKept ==
  ASSUME RingInv, NEW q \in RingProcs, RingSame(q),
         ringLog' = ringLog \/ \E t : IsTopology(t) /\ ringLog' = Append(ringLog, t)
  PROVE  RingHeld(q)' /\ RingReader(q)' /\ RingBuilt(q)'
<1>1. /\ Len(ringLog) \in Nat /\ Len(ringLog') \in Nat /\ Len(ringLog) <= Len(ringLog')
      /\ \A i \in 1..Len(ringLog) : ringLog'[i] = ringLog[i]
      /\ \A i \in 0..Len(ringLog) : TopologyAt(i)' = TopologyAt(i)
  <2>1. CASE ringLog' = ringLog
    BY <2>1 DEF RingInv, RingTypes, TopologyAt, Ring!Empty
  <2>2. CASE \E t : IsTopology(t) /\ ringLog' = Append(ringLog, t)
    <3>1. PICK t : IsTopology(t) /\ ringLog' = Append(ringLog, t)
      BY <2>2
    <3>2. /\ Len(ringLog) \in Nat /\ Len(ringLog') = Len(ringLog) + 1
          /\ \A i \in 1..Len(ringLog) : ringLog'[i] = ringLog[i]
          /\ \A i \in 0..Len(ringLog) : TopologyAt(i)' = TopologyAt(i)
      BY <3>1, RingLogGrows DEF RingInv
    <3>. QED BY <3>2
  <2>. QED BY <2>1, <2>2
<1>2. ringIndex[q] \in 0..Len(ringLog) /\ RingHeld(q) /\ RingReader(q) /\ RingBuilt(q)
  BY <1>1 DEF RingInv, RingTypes, RingHeld
<1>3. PICK i \in 0..Len(ringLog) : i = ringIndex[q]
  BY <1>2
<1>4. TopologyAt(ringIndex[q])' = TopologyAt(ringIndex[q])
  BY <1>1, <1>3 DEF RingSame, TopologyAt
<1>5. RingHeld(q)'
  BY <1>1, <1>2 DEF RingHeld, RingSame, IsTopology, Ring!Topology
<1>6. RingReader(q)'
  BY <1>2, <1>4 DEF RingReader, RingSame
<1>7. RingBuilt(q)'
  BY <1>1, <1>2 DEF RingBuilt, RingSame, Ring!Readable
<1>. QED BY <1>5, <1>6, <1>7

(* A step of one process that leaves the log: the others keep theirs. *)
LEMMA OneProcStep ==
  ASSUME RingInv, NEW p \in RingProcs,
         \A q \in RingProcs \ {p} : RingSame(q),
         ringLog' = ringLog \/ \E t : IsTopology(t) /\ ringLog' = Append(ringLog, t),
         /\ DOMAIN mine' = RingProcs /\ DOMAIN ring' = RingProcs /\ DOMAIN ringWatching' = RingProcs
         /\ DOMAIN busy' = RingProcs /\ DOMAIN pending' = RingProcs
         /\ ringIndex' \in [RingProcs -> Nat],
         RingHeld(p)' /\ RingReader(p)' /\ RingBuilt(p)'
  PROVE  RingInv'
<1>1. \A q \in RingProcs : RingHeld(q)' /\ RingReader(q)' /\ RingBuilt(q)'
  BY OtherProcKept
<1>2. RingTypes'
  <2>1. CASE ringLog' = ringLog
    BY <2>1 DEF RingInv, RingTypes, IsTopology, Ring!Topology
  <2>2. CASE \E t : IsTopology(t) /\ ringLog' = Append(ringLog, t)
    BY <2>2, RingLogGrows DEF RingInv, RingTypes, IsTopology, Ring!Topology
  <2>. QED BY <2>1, <2>2
<1>. QED BY <1>1, <1>2 DEF RingInv

(* What the functions of the ring's processes look like. *)
LEMMA RingDomains ==
  ASSUME RingInv
  PROVE  /\ DOMAIN mine = RingProcs /\ DOMAIN ring = RingProcs /\ DOMAIN ringWatching = RingProcs
         /\ DOMAIN busy = RingProcs /\ DOMAIN pending = RingProcs
         /\ ringIndex \in [RingProcs -> Nat] /\ Len(ringLog) \in Nat
         /\ \A i \in 1..Len(ringLog) : IsTopology(ringLog[i])
BY DEF RingInv, RingTypes

(* A process loads what is stored, or takes over its own write, or an      *)
(* event it slept on: it then has a topology and the ring of it.           *)
LEMMA UpdateSound ==
  ASSUME RingInv, NEW p \in RingProcs, NEW t, IsTopology(t), Ring!Update(p, t)
  PROVE  /\ mine'[p] = t /\ ring'[p] = t.members
         /\ DOMAIN mine' = RingProcs /\ DOMAIN ring' = RingProcs
         /\ \A q \in RingProcs \ {p} : mine'[q] = mine[q] /\ ring'[q] = ring[q]
BY RingDomains DEF Ring!Update

(* The value that is stored is the last one, or the empty topology. *)
LEMMA StoredIsLast ==
  ASSUME RingInv
  PROVE  Ring!Stored = TopologyAt(Len(ringLog)) /\ IsTopology(Ring!Stored)
<1>1. /\ ringLog \in Seq({ringLog[i] : i \in 1..Len(ringLog)}) /\ Len(ringLog) \in Nat
      /\ \A i \in 1..Len(ringLog) : IsTopology(ringLog[i])
  BY DEF RingInv, RingTypes
<1>2. CASE ringLog = <<>>
  BY <1>2, TopologyFields DEF Ring!Stored, TopologyAt
<1>3. CASE ringLog # <<>>
  <2>1. Len(ringLog) # 0 /\ Len(ringLog) \in 1..Len(ringLog)
    BY <1>1, <1>3
  <2>. QED BY <1>1, <1>3, <2>1 DEF Ring!Stored, TopologyAt
<1>. QED BY <1>2, <1>3

(* _ensure_watching *)
LEMMA EnsureWatchingKeepsRingInv ==
  ASSUME RingInv, NEW p \in RingProcs, Ring!EnsureWatching(p)
  PROVE  RingInv'
<1>1. /\ ~ringWatching[p] /\ busy[p] = <<>> /\ Ring!Update(p, Ring!Stored)
      /\ ringWatching' = [ringWatching EXCEPT ![p] = TRUE]
      /\ ringIndex' = [ringIndex EXCEPT ![p] = Len(ringLog)]
      /\ UNCHANGED <<ringLog, busy, pending, chosen>>
  BY DEF Ring!EnsureWatching
<1>2. PICK t : t = Ring!Stored /\ IsTopology(t) /\ t = TopologyAt(Len(ringLog))
  BY StoredIsLast
<1>3. /\ mine'[p] = t /\ ring'[p] = t.members
      /\ DOMAIN mine' = RingProcs /\ DOMAIN ring' = RingProcs
      /\ \A q \in RingProcs \ {p} : mine'[q] = mine[q] /\ ring'[q] = ring[q]
  BY <1>1, <1>2, UpdateSound
<1>4. /\ ringWatching'[p] /\ ringIndex'[p] = Len(ringLog) /\ Len(ringLog) \in Nat
      /\ DOMAIN ringWatching' = RingProcs /\ ringIndex' \in [RingProcs -> Nat]
      /\ DOMAIN busy' = RingProcs /\ DOMAIN pending' = RingProcs
      /\ \A q \in RingProcs \ {p} : ringWatching'[q] = ringWatching[q] /\ ringIndex'[q] = ringIndex[q]
  BY <1>1, RingDomains
<1>5. pending[p] = <<>> /\ RingHeld(p)
  BY <1>1 DEF RingInv, RingHeld
<1>6. RingHeld(p)'
  BY <1>1, <1>2, <1>3, <1>4, <1>5 DEF RingHeld, IsTopology, Ring!Topology
<1>7. RingReader(p)' /\ RingBuilt(p)'
  BY <1>1, <1>2, <1>3, <1>4, <1>5 DEF RingReader, RingBuilt, TopologyAt, Ring!Empty
<1>8. \A q \in RingProcs \ {p} : RingSame(q)
  BY <1>1, <1>3, <1>4 DEF RingSame
<1>. QED BY <1>1, <1>3, <1>4, <1>6, <1>7, <1>8, OneProcStep

(* A write stores a topology and leaves the ring until it is answered. *)
LEMMA PersistKeepsRingInv ==
  ASSUME RingInv, NEW p \in RingProcs, p \in RingWriters, NEW t, IsTopology(t), Ring!Persist(p, t)
  PROVE  RingInv'
<1>1. /\ mine' = [mine EXCEPT ![p] = t] /\ ringLog' = Append(ringLog, t)
      /\ busy' = [busy EXCEPT ![p] = <<t>>]
      /\ UNCHANGED <<ring, ringWatching, ringIndex, pending, chosen>>
  BY DEF Ring!Persist
<1>2. /\ mine'[p] = t /\ busy'[p] = <<t>> /\ busy'[p] # <<>> /\ busy'[p][1] = t
      /\ DOMAIN mine' = RingProcs /\ DOMAIN busy' = RingProcs
      /\ \A q \in RingProcs \ {p} : mine'[q] = mine[q] /\ busy'[q] = busy[q]
  BY <1>1, RingDomains
<1>3. Len(ringLog) \in Nat /\ Len(ringLog') = Len(ringLog) + 1 /\ ringLog'[Len(ringLog) + 1] = t
  BY <1>1, RingLogGrows DEF RingInv
<1>4. ringIndex[p] \in Nat /\ ringIndex[p] <= Len(ringLog') /\ RingHeld(p)
      /\ Len(ringLog) + 1 \in 1..Len(ringLog')
  BY <1>3, RingDomains DEF RingInv, RingHeld
<1>5. RingHeld(p)'
  BY <1>1, <1>2, <1>3, <1>4 DEF RingHeld, IsTopology, Ring!Topology
<1>6. RingReader(p)' /\ RingBuilt(p)'
  BY <1>2 DEF RingReader, RingBuilt
<1>7. \A q \in RingProcs \ {p} : RingSame(q)
  BY <1>1, <1>2 DEF RingSame
<1>8. /\ DOMAIN ring' = RingProcs /\ DOMAIN ringWatching' = RingProcs /\ DOMAIN pending' = RingProcs
      /\ ringIndex' \in [RingProcs -> Nat]
  BY <1>1, RingDomains
<1>. QED BY <1>1, <1>2, <1>5, <1>6, <1>7, <1>8, OneProcStep

(* add, update, remove and the setting of an override. *)
LEMMA ChangeKeepsRingInv ==
  ASSUME RingInv, NEW p \in RingProcs, Ring!Change(p)
  PROVE  RingInv'
<1>1. p \in RingWriters /\ IsTopology(mine[p])
  BY DEF Ring!Change, RingInv, RingHeld
<1>. DEFINE Stores == \E t : IsTopology(t) /\ Ring!Persist(p, t)
<1>2. Stores
  <2>1. ASSUME NEW n, NEW r, Ring!Persist(p, [mine[p] EXCEPT !.members[n] = r]) PROVE Stores
    BY <1>1, <2>1, TopologyFields
  <2>2. ASSUME NEW k, NEW s, Ring!Persist(p, [mine[p] EXCEPT !.overrides[k] = s]) PROVE Stores
    BY <1>1, <2>2, TopologyFields
  <2>3. \/ \E n \in Words, r \in 1..MaxReplicas : Ring!Add(p, n, r) \/ Ring!UpdateMember(p, n, r)
        \/ \E n \in Words : Ring!Remove1(p, n)
        \/ \E k \in RingKeys, s \in Ring!OverrideValues : Ring!SetOverride(p, k, s)
    BY DEF Ring!Change
  <2>4. ASSUME NEW n, NEW r, Ring!Add(p, n, r) PROVE Stores
    BY <2>1, <2>4 DEF Ring!Add
  <2>5. ASSUME NEW n, NEW r, Ring!UpdateMember(p, n, r) PROVE Stores
    BY <2>1, <2>5 DEF Ring!UpdateMember
  <2>6. ASSUME NEW n, Ring!Remove1(p, n) PROVE Stores
    BY <2>1, <2>6 DEF Ring!Remove1
  <2>7. ASSUME NEW k, NEW s, Ring!SetOverride(p, k, s) PROVE Stores
    BY <2>2, <2>7 DEF Ring!SetOverride
  <2>. QED BY <2>3, <2>4, <2>5, <2>6, <2>7
<1>. QED BY <1>1, <1>2, PersistKeepsRingInv

(* The answer of a write. *)
LEMMA AnswerKeepsRingInv ==
  ASSUME RingInv, NEW p \in RingProcs, Ring!Answer(p)
  PROVE  RingInv'
<1>1. /\ busy[p] # <<>> /\ busy' = [busy EXCEPT ![p] = <<>>]
      /\ UNCHANGED <<ringLog, ringWatching, ringIndex, pending, chosen>>
      /\ IF Ring!Readable(busy[p][1]) THEN Ring!Update(p, busy[p][1]) ELSE UNCHANGED <<ring, mine>>
  BY DEF Ring!Answer
<1>2. PICK i \in 1..Len(ringLog) : busy[p][1] = ringLog[i] /\ IsTopology(ringLog[i])
  BY <1>1, RingDomains DEF RingInv, RingHeld
<1>3. /\ DOMAIN mine' = RingProcs /\ DOMAIN ring' = RingProcs /\ IsTopology(mine'[p])
      /\ \A q \in RingProcs \ {p} : mine'[q] = mine[q] /\ ring'[q] = ring[q]
      /\ Ring!Readable(ringLog[i]) => ring'[p] = mine'[p].members
  <2>1. CASE Ring!Readable(busy[p][1])
    <3>1. PICK t : t = busy[p][1]
      OBVIOUS
    <3>2. IsTopology(t) /\ Ring!Update(p, t)
      BY <1>1, <1>2, <2>1, <3>1
    <3>. QED BY <3>2, UpdateSound
  <2>2. CASE ~Ring!Readable(busy[p][1])
    BY <1>1, <1>2, <2>2, RingDomains DEF RingInv, RingHeld, Ring!Readable
  <2>. QED BY <2>1, <2>2
<1>4. /\ busy'[p] = <<>> /\ DOMAIN busy' = RingProcs /\ \A q \in RingProcs \ {p} : busy'[q] = busy[q]
      /\ DOMAIN ringWatching' = RingProcs /\ DOMAIN pending' = RingProcs /\ ringIndex' \in [RingProcs -> Nat]
  BY <1>1, RingDomains
<1>5. p \in RingWriters /\ RingHeld(p)
  BY <1>1 DEF RingInv, RingHeld
<1>6. RingHeld(p)'
  BY <1>1, <1>3, <1>4, <1>5 DEF RingHeld, IsTopology, Ring!Topology
<1>7. RingReader(p)' /\ RingBuilt(p)'
  BY <1>1, <1>3, <1>5 DEF RingReader, RingBuilt, Ring!Readable
<1>8. \A q \in RingProcs \ {p} : RingSame(q)
  BY <1>1, <1>3, <1>4 DEF RingSame
<1>. QED BY <1>1, <1>3, <1>4, <1>6, <1>7, <1>8, OneProcStep

(* _watch gets an event. *)
LEMMA ReceiveKeepsRingInv ==
  ASSUME RingInv, NEW p \in RingProcs, Ring!Receive(p)
  PROVE  RingInv'
<1>1. /\ ringWatching[p] /\ pending[p] = <<>> /\ ringIndex[p] < Len(ringLog)
      /\ ringIndex' = [ringIndex EXCEPT ![p] = @ + 1]
      /\ UNCHANGED <<ringLog, mine, ring, busy, chosen>>
      /\ \/ /\ pending' = [pending EXCEPT ![p] = <<ringLog[ringIndex[p] + 1]>>] /\ UNCHANGED ringWatching
         \/ /\ ringWatching' = [ringWatching EXCEPT ![p] = FALSE] /\ UNCHANGED pending
  BY DEF Ring!Receive
<1>2. PICK i \in 1..Len(ringLog) : i = ringIndex[p] + 1 /\ i # 0 /\ IsTopology(ringLog[i])
  <2>1. ringIndex[p] \in Nat /\ Len(ringLog) \in Nat
    BY RingDomains
  <2>2. ringIndex[p] + 1 \in 1..Len(ringLog) /\ ringIndex[p] + 1 # 0
    BY <1>1, <2>1
  <2>. QED BY <2>2, RingDomains
<1>3. /\ ringIndex'[p] = i /\ ringIndex' \in [RingProcs -> Nat]
      /\ \A q \in RingProcs \ {p} : ringIndex'[q] = ringIndex[q]
  BY <1>1, <1>2, RingDomains
<1>4. /\ DOMAIN ringWatching' = RingProcs /\ DOMAIN pending' = RingProcs
      /\ \A q \in RingProcs \ {p} : ringWatching'[q] = ringWatching[q] /\ pending'[q] = pending[q]
      /\ \/ ringWatching'[p] /\ pending'[p] = <<ringLog[i]>>
         \/ ~ringWatching'[p] /\ pending'[p] = <<>>
  BY <1>1, <1>2, RingDomains
<1>5. RingHeld(p) /\ RingBuilt(p)
  BY DEF RingInv
<1>6. RingHeld(p)'
  BY <1>1, <1>2, <1>3, <1>4, <1>5 DEF RingHeld, IsTopology, Ring!Topology
<1>7. RingReader(p)'
  BY <1>1, <1>2, <1>3, <1>4 DEF RingReader, TopologyAt
<1>8. RingBuilt(p)'
  BY <1>1, <1>5 DEF RingBuilt, Ring!Readable
<1>9. \A q \in RingProcs \ {p} : RingSame(q)
  BY <1>1, <1>3, <1>4 DEF RingSame
<1>10. DOMAIN mine' = RingProcs /\ DOMAIN ring' = RingProcs /\ DOMAIN busy' = RingProcs
  BY <1>1, RingDomains
<1>. QED BY <1>1, <1>3, <1>4, <1>6, <1>7, <1>8, <1>9, <1>10, OneProcStep

(* ... and applies it. *)
LEMMA ApplyKeepsRingInv ==
  ASSUME RingInv, NEW p \in RingProcs, Ring!Apply(p)
  PROVE  RingInv'
<1>1. /\ pending[p] # <<>> /\ Ring!Update(p, pending[p][1])
      /\ pending' = [pending EXCEPT ![p] = <<>>]
      /\ UNCHANGED <<ringLog, ringWatching, ringIndex, busy, chosen>>
  BY DEF Ring!Apply
<1>2. RingHeld(p) /\ RingReader(p) /\ ringWatching[p]
  BY <1>1 DEF RingInv, RingHeld
<1>3. PICK t : t = pending[p][1] /\ IsTopology(t) /\ Ring!Update(p, t)
  BY <1>1, <1>2 DEF RingHeld
<1>4. /\ mine'[p] = t /\ ring'[p] = t.members
      /\ DOMAIN mine' = RingProcs /\ DOMAIN ring' = RingProcs
      /\ \A q \in RingProcs \ {p} : mine'[q] = mine[q] /\ ring'[q] = ring[q]
  BY <1>3, UpdateSound
<1>5. /\ pending'[p] = <<>> /\ DOMAIN pending' = RingProcs /\ \A q \in RingProcs \ {p} : pending'[q] = pending[q]
      /\ DOMAIN ringWatching' = RingProcs /\ DOMAIN busy' = RingProcs /\ ringIndex' \in [RingProcs -> Nat]
  BY <1>1, RingDomains
<1>6. RingHeld(p)'
  BY <1>1, <1>2, <1>3, <1>4, <1>5 DEF RingHeld, IsTopology, Ring!Topology
<1>7. p \notin RingWriters => t = TopologyAt(ringIndex[p])
  BY <1>1, <1>2, <1>3 DEF RingReader
<1>8. RingReader(p)' /\ RingBuilt(p)'
  BY <1>1, <1>4, <1>5, <1>7 DEF RingReader, RingBuilt, TopologyAt, Ring!Empty
<1>9. \A q \in RingProcs \ {p} : RingSame(q)
  BY <1>1, <1>4, <1>5 DEF RingSame
<1>. QED BY <1>1, <1>4, <1>5, <1>6, <1>8, <1>9, OneProcStep

(* A selection changes the overrides a process has at most, never its      *)
(* members.                                                                *)
LEMMA SelectKeepsRingInv ==
  ASSUME RingInv, NEW p \in RingProcs, NEW k \in RingKeys, Ring!SelectOne(p, k) \/ Ring!SelectMany(p, k)
  PROVE  RingInv'
<1>1. UNCHANGED <<ringLog, ring, ringWatching, ringIndex, busy, pending>>
  BY DEF Ring!SelectOne, Ring!SelectMany
<1>2. mine' = mine \/ \E o : mine' = [mine EXCEPT ![p] = [mine[p] EXCEPT !.overrides[k] = o]]
  BY DEF Ring!SelectOne, Ring!SelectMany
<1>3. IsTopology(mine[p]) /\ RingHeld(p) /\ RingReader(p) /\ RingBuilt(p)
  BY DEF RingInv, RingHeld
<1>4. /\ DOMAIN mine' = RingProcs /\ \A q \in RingProcs \ {p} : mine'[q] = mine[q]
      /\ IsTopology(mine'[p]) /\ mine'[p].members = mine[p].members
  <2>1. CASE mine' = mine
    BY <1>3, <2>1, RingDomains DEF IsTopology
  <2>2. CASE \E o : mine' = [mine EXCEPT ![p] = [mine[p] EXCEPT !.overrides[k] = o]]
    <3>1. PICK o : mine' = [mine EXCEPT ![p] = [mine[p] EXCEPT !.overrides[k] = o]]
      BY <2>2
    <3>2. PICK t : t = [mine[p] EXCEPT !.overrides[k] = o] /\ IsTopology(t) /\ t.members = mine[p].members
      BY <1>3, TopologyFields
    <3>3. mine' = [mine EXCEPT ![p] = t]
      BY <3>1, <3>2
    <3>. QED BY <3>2, <3>3, RingDomains DEF IsTopology
  <2>. QED BY <1>2, <2>1, <2>2
<1>5. RingHeld(p)'
  BY <1>1, <1>3, <1>4 DEF RingHeld, IsTopology, Ring!Topology
<1>6. RingReader(p)' /\ RingBuilt(p)'
  BY <1>1, <1>3, <1>4 DEF RingReader, RingBuilt, TopologyAt, Ring!Empty, Ring!Readable
<1>7. \A q \in RingProcs \ {p} : RingSame(q)
  BY <1>1, <1>4 DEF RingSame
<1>8. /\ DOMAIN ring' = RingProcs /\ DOMAIN ringWatching' = RingProcs
      /\ DOMAIN busy' = RingProcs /\ DOMAIN pending' = RingProcs /\ ringIndex' \in [RingProcs -> Nat]
  BY <1>1, RingDomains
<1>. QED BY <1>1, <1>4, <1>5, <1>6, <1>7, <1>8, OneProcStep

(* Every step of a process, and every step that leaves the ring alone.     *)
LEMMA RingNextKeepsInv ==
  ASSUME RingInv, Ring!Next \/ UNCHANGED ringVars
  PROVE  RingInv'
<1>1. CASE Ring!Next
  <2>1. PICK p \in RingProcs :
          \/ Ring!EnsureWatching(p) \/ Ring!Change(p) \/ Ring!Answer(p) \/ Ring!Receive(p) \/ Ring!Apply(p)
          \/ \E k \in RingKeys : Ring!SelectOne(p, k) \/ Ring!SelectMany(p, k)
    BY <1>1 DEF Ring!Next
  <2>. QED BY <2>1, EnsureWatchingKeepsRingInv, ChangeKeepsRingInv, AnswerKeepsRingInv,
              ReceiveKeepsRingInv, ApplyKeepsRingInv, SelectKeepsRingInv
<1>2. CASE UNCHANGED ringVars
  <2>1. RingTypes'
    BY <1>2 DEF ringVars, RingInv, RingTypes, IsTopology, Ring!Topology
  <2>2. ASSUME NEW q \in RingProcs PROVE RingHeld(q)' /\ RingReader(q)' /\ RingBuilt(q)'
    BY <1>2, OtherProcKept DEF ringVars, RingSame
  <2>. QED BY <2>1, <2>2 DEF RingInv
<1>. QED BY <1>1, <1>2

(* Readers that have seen all events have etcd's members and their ring,   *)
(* and everybody selects from the members he lists.                        *)
LEMMA RingInvGives == RingInv => Ring!RingFollows /\ Ring!RingOfMembers
<1>. SUFFICES ASSUME RingInv PROVE Ring!RingFollows /\ Ring!RingOfMembers
  OBVIOUS
<1>1. Ring!RingFollows
  BY StoredIsLast DEF RingInv, RingReader, Ring!RingFollows
<1>2. Ring!RingOfMembers
  BY DEF RingInv, RingBuilt, Ring!RingOfMembers
<1>. QED BY <1>1, <1>2

-----------------------------------------------------------------------------
(* What a process selects from the ring.                                   *)

(* A list of members has none twice. *)
NoneTwice(s) == \A i, j \in 1..Len(s) : i # j => s[i] # s[j]
Listed(s) == s \in Seq(Words) /\ NoneTwice(s)

(* The overrides of a topology: none for a key, or a list of members. *)
OverridesListed(t) ==
  DOMAIN t.overrides = RingKeys /\ \A k \in RingKeys : t.overrides[k] = NoValue \/ Listed(t.overrides[k])

(* Overrides are lists wherever a topology is, however often a selection   *)
(* has extended them, and so are selections.                               *)
SelectInv ==
  /\ \A i \in 1..Len(ringLog) : OverridesListed(ringLog[i])
  /\ DOMAIN chosen = RingProcs
  /\ \A p \in RingProcs :
       /\ OverridesListed(mine[p]) /\ Listed(chosen[p])
       /\ pending[p] # <<>> => OverridesListed(pending[p][1])

(* The first elements of a list. *)
LEMMA TakeListed ==
  ASSUME NEW s, Listed(s), NEW n \in Nat
  PROVE  Listed(Ring!Take(s, n)) /\ Len(Ring!Take(s, n)) <= n /\ Len(Ring!Take(s, n)) \in Nat
<1>1. s \in Seq(Words) /\ Len(s) \in Nat /\ NoneTwice(s)
  BY DEF Listed
<1>2. PICK m \in Nat : m = (IF Len(s) < n THEN Len(s) ELSE n) /\ m <= n /\ m <= Len(s)
  BY <1>1
<1>3. PICK t : t = SubSeq(s, 1, m)
  OBVIOUS
<1>4. Ring!Take(s, n) = t
  BY <1>2, <1>3 DEF Ring!Take
<1>5. t \in Seq(Words) /\ Len(t) = m /\ \A i \in 1..m : t[i] = s[i]
  <2>1. \A i \in 1..m : s[i] \in Words
    BY <1>1, <1>2
  <2>2. /\ SubSeq(s, 1, m) \in Seq(Words)
        /\ Len(SubSeq(s, 1, m)) = IF 1 <= m THEN m - 1 + 1 ELSE 0
        /\ \A i \in 1..(m - 1 + 1) : SubSeq(s, 1, m)[i] = s[1 + i - 1]
    BY <2>1, SubSeqProperties
  <2>3. m - 1 + 1 = m /\ (IF 1 <= m THEN m - 1 + 1 ELSE 0) = m
    BY <1>2
  <2>4. \A i \in 1..m : s[1 + i - 1] = s[i]
    OBVIOUS
  <2>. QED BY <1>3, <2>2, <2>3, <2>4
<1>6. NoneTwice(t)
  BY <1>1, <1>2, <1>5 DEF NoneTwice
<1>. QED BY <1>2, <1>4, <1>5, <1>6 DEF Listed

(* The ring lists its members, each once. *)
LEMMA NodesListed ==
  ASSUME NEW p
  PROVE  Listed(Ring!find_nodes(p))
<1>1. PICK S : S = {n \in Words : ring[p][n] # 0} /\ IsFiniteSet(S) /\ S \subseteq Words
  BY WordsAssumption, FS_Subset
<1>2. PICK c \in Nat : c = Cardinality(S)
  BY <1>1, FS_CardinalityType
<1>3. Ring!Cardinality(S) = c
  BY <1>2, Zenon DEF Ring!Cardinality, Cardinality
<1>4. PICK f \in [1..c -> S] : Ring!IsInjective(f)
  <2>1. PICK f : f \in Bijection(1..Cardinality(S), S)
    BY <1>1, FS_CardinalityType DEF ExistsBijection
  <2>2. f \in [1..c -> S] /\ \A a, b \in DOMAIN f : f[a] = f[b] => a = b
    BY <1>2, <2>1 DEF Bijection, Injection, IsInjective
  <2>. QED BY <2>2 DEF Ring!IsInjective
<1>5. PICK g : g = Ring!SetToSeq(S) /\ g \in [1..c -> S] /\ Ring!IsInjective(g)
  BY <1>3, <1>4, Zenon DEF Ring!SetToSeq
<1>6. Ring!find_nodes(p) = g
  BY <1>1, <1>5 DEF Ring!find_nodes
<1>7. g \in Seq(Words) /\ Len(g) = c
  <2>1. g \in [1..c -> Words]
    BY <1>1, <1>5
  <2>. QED BY <1>2, <2>1, SeqDef
<1>8. NoneTwice(g)
  BY <1>5, <1>7 DEF NoneTwice, Ring!IsInjective
<1>. QED BY <1>6, <1>7, <1>8 DEF Listed

Extended(s, x) == IF Ring!Contains(s, x) THEN s ELSE Append(s, x)

(* A list extended by a member it does not have. *)
LEMMA ExtendedListed ==
  ASSUME NEW s, Listed(s), NEW x \in Words
  PROVE  Listed(Extended(s, x))
<1>1. s \in Seq(Words) /\ Len(s) \in Nat /\ NoneTwice(s)
  BY DEF Listed
<1>2. CASE Ring!Contains(s, x)
  BY <1>2 DEF Extended
<1>3. CASE ~Ring!Contains(s, x)
  <2>1. \A i \in 1..Len(s) : s[i] # x
    BY <1>3 DEF Ring!Contains
  <2>2. /\ Append(s, x) \in Seq(Words) /\ Len(Append(s, x)) = Len(s) + 1
        /\ Append(s, x)[Len(s) + 1] = x /\ \A i \in 1..Len(s) : Append(s, x)[i] = s[i]
    BY <1>1, AppendProperties
  <2>3. PICK t : t = Append(s, x) /\ t \in Seq(Words) /\ Len(t) = Len(s) + 1
                 /\ t[Len(s) + 1] = x /\ \A i \in 1..Len(s) : t[i] = s[i]
    BY <2>2, Zenon
  <2>4. \A i \in 1..Len(t) : i \in 1..Len(s) \/ i = Len(s) + 1
    BY <1>1, <2>3
  <2>5. NoneTwice(t)
    BY <1>1, <2>1, <2>3, <2>4 DEF NoneTwice
  <2>. QED BY <1>3, <2>3, <2>5 DEF Extended, Listed
<1>. QED BY <1>2, <1>3

(* What the loop of select() makes of a list and at most two nodes. *)
LEMMA FilledListed ==
  ASSUME NEW over, Listed(over), NEW nodes, Listed(nodes), Len(nodes) <= 2
  PROVE  Listed(Ring!Filled(over, nodes))
<1>. DEFINE Loop(f) == [i \in 0..Len(nodes) |->
              IF i = 0 THEN over
              ELSE IF Ring!Contains(f[i - 1], nodes[i]) THEN f[i - 1]
              ELSE Append(f[i - 1], nodes[i])]
            a == Extended(over, nodes[1])
            b == Extended(a, nodes[2])
            g == [i \in 0..Len(nodes) |-> IF i = 0 THEN over ELSE IF i = 1 THEN a ELSE b]
<1>1. nodes \in Seq(Words) /\ Len(nodes) \in 0..2
  <2>1. nodes \in Seq(Words)
    BY DEF Listed
  <2>2. Len(nodes) \in Nat
    BY <2>1
  <2>3. PICK l \in Nat : l = Len(nodes)
    BY <2>2
  <2>4. l \in 0..2
    BY <2>3
  <2>. QED BY <2>1, <2>3, <2>4
<1>2. g = Loop(g)
  <2>1. ASSUME NEW i \in 0..Len(nodes) PROVE g[i] = Loop(g)[i]
    <3>1. i = 0 \/ i = 1 \/ i = 2
      BY <1>1
    <3>2. CASE i = 0
      BY <3>2
    <3>3. CASE i = 1
      <4>1. 0 \in 0..Len(nodes) /\ 1 - 1 = 0
        BY <1>1
      <4>. QED BY <3>3, <4>1 DEF Extended
    <3>4. CASE i = 2
      <4>1. 1 \in 0..Len(nodes) /\ 2 - 1 = 1
        BY <1>1, <3>4
      <4>2. g[1] = a /\ g[2] = b
        BY <4>1, <3>4
      <4>. QED BY <3>4, <4>1, <4>2 DEF Extended
    <3>. QED BY <3>1, <3>2, <3>3, <3>4
  <2>. QED BY <2>1
<1>. HIDE DEF g
<1>3. PICK f : f = Loop(f) /\ Ring!Filled(over, nodes) = f[Len(nodes)]
  BY <1>2, Zenon DEF Ring!Filled
<1>4. f[0] = over
  BY <1>1, <1>3
<1>5. \A i \in 1..Len(nodes) : f[i] = Extended(f[i - 1], nodes[i])
  <2>1. ASSUME NEW i \in 1..Len(nodes) PROVE f[i] = Extended(f[i - 1], nodes[i])
    <3>1. i \in 0..Len(nodes) /\ i # 0
      BY <1>1
    <3>2. Loop(f)[i] = Extended(f[i - 1], nodes[i])
      BY <3>1 DEF Extended
    <3>. HIDE DEF Loop
    <3>. QED BY <1>3, <3>2
  <2>. QED BY <2>1
<1>. HIDE DEF Loop
<1>6. CASE Len(nodes) = 0
  BY <1>3, <1>4, <1>6
<1>7. ASSUME Len(nodes) >= 1 PROVE Listed(f[1])
  <2>1. 1 \in 1..Len(nodes) /\ nodes[1] \in Words /\ 1 - 1 = 0
    BY <1>1, <1>7
  <2>2. f[1] = Extended(over, nodes[1])
    BY <1>4, <1>5, <2>1
  <2>. QED BY <2>1, <2>2, ExtendedListed
<1>8. CASE Len(nodes) = 1
  BY <1>3, <1>7, <1>8
<1>9. CASE Len(nodes) = 2
  <2>1. 2 \in 1..Len(nodes) /\ nodes[2] \in Words /\ 2 - 1 = 1
    BY <1>1, <1>9
  <2>2. f[2] = Extended(f[1], nodes[2]) /\ Listed(f[1])
    BY <1>5, <1>7, <1>9, <2>1
  <2>. QED BY <1>3, <1>9, <2>1, <2>2, ExtendedListed
<1>. QED BY <1>1, <1>6, <1>8, <1>9

(* Nothing has been stored or selected. *)
LEMMA SelectInitInv == Ring!Init => SelectInv
<1>. SUFFICES ASSUME Ring!Init PROVE SelectInv
  OBVIOUS
<1>1. /\ Len(ringLog) = 0 /\ mine = [p \in RingProcs |-> Ring!Empty]
      /\ pending = [p \in RingProcs |-> <<>>] /\ chosen = [p \in RingProcs |-> <<>>]
  BY DEF Ring!Init
<1>2. OverridesListed(Ring!Empty)
  BY DEF OverridesListed, Ring!Empty, Ring!Topology
<1>3. Listed(<<>>)
  BY DEF Listed, NoneTwice
<1>. QED BY <1>1, <1>2, <1>3 DEF SelectInv

(* A step of one process that keeps lists, and perhaps stores one. *)
LEMMA ListsKept ==
  ASSUME RingInv, SelectInv, NEW p \in RingProcs, DOMAIN chosen' = RingProcs,
         \A q \in RingProcs \ {p} : mine'[q] = mine[q] /\ chosen'[q] = chosen[q] /\ pending'[q] = pending[q],
         OverridesListed(mine'[p]), Listed(chosen'[p]), pending'[p] # <<>> => OverridesListed(pending'[p][1]),
         ringLog' = ringLog \/ \E t : IsTopology(t) /\ OverridesListed(t) /\ ringLog' = Append(ringLog, t)
  PROVE  SelectInv'
<1>1. \A i \in 1..Len(ringLog') : OverridesListed(ringLog'[i])
  <2>1. CASE ringLog' = ringLog
    BY <2>1 DEF SelectInv
  <2>2. CASE \E t : IsTopology(t) /\ OverridesListed(t) /\ ringLog' = Append(ringLog, t)
    <3>1. PICK t : IsTopology(t) /\ OverridesListed(t) /\ ringLog' = Append(ringLog, t)
      BY <2>2
    <3>2. /\ Len(ringLog) \in Nat /\ Len(ringLog') = Len(ringLog) + 1
          /\ \A i \in 1..Len(ringLog) : ringLog'[i] = ringLog[i]
          /\ ringLog'[Len(ringLog) + 1] = t
      BY <3>1, RingLogGrows DEF RingInv
    <3>3. \A i \in 1..Len(ringLog') : i \in 1..Len(ringLog) \/ i = Len(ringLog) + 1
      BY <3>2
    <3>. QED BY <3>1, <3>2, <3>3 DEF SelectInv
  <2>. QED BY <2>1, <2>2
<1>2. ASSUME NEW q \in RingProcs
      PROVE  /\ OverridesListed(mine'[q]) /\ Listed(chosen'[q])
             /\ pending'[q] # <<>> => OverridesListed(pending'[q][1])
  BY DEF SelectInv
<1>. QED BY <1>1, <1>2 DEF SelectInv, OverridesListed, Listed, NoneTwice

(* What etcd's key has are lists. *)
LEMMA StoredListed ==
  ASSUME RingInv, SelectInv
  PROVE  OverridesListed(Ring!Stored)
<1>1. OverridesListed(Ring!Empty)
  BY DEF OverridesListed, Ring!Empty, Ring!Topology
<1>2. CASE Len(ringLog) = 0
  BY <1>1, <1>2, StoredIsLast DEF TopologyAt
<1>3. CASE Len(ringLog) # 0
  <2>1. Len(ringLog) \in 1..Len(ringLog)
    BY <1>3, RingDomains
  <2>. QED BY <1>3, <2>1, StoredIsLast DEF TopologyAt, SelectInv
<1>. QED BY <1>2, <1>3

(* A process takes over what etcd has, its own write, or an event. *)
LEMMA TakesOverKeepsSelectInv ==
  ASSUME RingInv, SelectInv, NEW p \in RingProcs, Ring!EnsureWatching(p) \/ Ring!Answer(p) \/ Ring!Apply(p)
  PROVE  SelectInv'
<1>. DEFINE Takes == /\ UNCHANGED <<ringLog, chosen>>
                     /\ pending' = pending \/ pending' = [pending EXCEPT ![p] = <<>>]
                     /\ UNCHANGED mine \/ \E t : IsTopology(t) /\ OverridesListed(t) /\ Ring!Update(p, t)
<1>1. ASSUME Ring!EnsureWatching(p) PROVE Takes
  BY <1>1, StoredIsLast, StoredListed DEF Ring!EnsureWatching
<1>2. ASSUME Ring!Answer(p) PROVE Takes
  <2>1. busy[p] # <<>> /\ UNCHANGED <<ringLog, pending, chosen>> /\ (UNCHANGED mine \/ Ring!Update(p, busy[p][1]))
    BY <1>2 DEF Ring!Answer
  <2>2. PICK i \in 1..Len(ringLog) : busy[p][1] = ringLog[i]
    BY <2>1 DEF RingInv, RingHeld
  <2>3. IsTopology(ringLog[i]) /\ OverridesListed(ringLog[i])
    BY RingDomains DEF SelectInv
  <2>. QED BY <2>1, <2>2, <2>3
<1>3. ASSUME Ring!Apply(p) PROVE Takes
  <2>1. /\ pending[p] # <<>> /\ UNCHANGED <<ringLog, chosen>> /\ Ring!Update(p, pending[p][1])
        /\ pending' = [pending EXCEPT ![p] = <<>>]
    BY <1>3 DEF Ring!Apply
  <2>2. IsTopology(pending[p][1]) /\ OverridesListed(pending[p][1])
    BY <2>1 DEF RingInv, RingHeld, SelectInv
  <2>. QED BY <2>1, <2>2
<1>4. Takes
  BY <1>1, <1>2, <1>3
<1>5. /\ \A q \in RingProcs \ {p} : pending'[q] = pending[q]
      /\ pending'[p] # <<>> => OverridesListed(pending'[p][1])
  BY <1>4, RingDomains DEF SelectInv
<1>6. OverridesListed(mine'[p]) /\ \A q \in RingProcs \ {p} : mine'[q] = mine[q]
  BY <1>4, UpdateSound DEF SelectInv
<1>7. DOMAIN chosen' = RingProcs /\ Listed(chosen'[p]) /\ ringLog' = ringLog /\ chosen' = chosen
  BY <1>4 DEF SelectInv
<1>. QED BY <1>5, <1>6, <1>7, ListsKept

(* _watch gets an event. *)
LEMMA ReceiveKeepsSelectInv ==
  ASSUME RingInv, SelectInv, NEW p \in RingProcs, Ring!Receive(p)
  PROVE  SelectInv'
<1>1. /\ ringIndex[p] < Len(ringLog) /\ UNCHANGED <<ringLog, mine, chosen>>
      /\ UNCHANGED pending \/ pending' = [pending EXCEPT ![p] = <<ringLog[ringIndex[p] + 1]>>]
  BY DEF Ring!Receive
<1>2. PICK i \in 1..Len(ringLog) : i = ringIndex[p] + 1
  BY <1>1, RingDomains
<1>3. OverridesListed(ringLog[i])
  BY DEF SelectInv
<1>4. /\ \A q \in RingProcs \ {p} : pending'[q] = pending[q]
      /\ pending'[p] # <<>> => OverridesListed(pending'[p][1])
  BY <1>1, <1>2, <1>3, RingDomains DEF SelectInv
<1>5. OverridesListed(mine'[p]) /\ DOMAIN chosen' = RingProcs /\ Listed(chosen'[p]) /\ chosen' = chosen /\ mine' = mine
  BY <1>1 DEF SelectInv
<1>. QED BY <1>1, <1>4, <1>5, ListsKept

(* The fields of a topology whose overrides of a key, or members, change. *)
LEMMA OverridesChanged ==
  ASSUME NEW t, IsTopology(t), OverridesListed(t)
  PROVE  /\ \A n, r : OverridesListed([t EXCEPT !.members[n] = r])
         /\ \A k \in RingKeys : \A s : Listed(s) => OverridesListed([t EXCEPT !.overrides[k] = s])
<1>1. PICK a, b : t = [members |-> a, overrides |-> b]
  BY DEF IsTopology, Ring!Topology
<1>2. t.overrides = b /\ DOMAIN b = RingKeys /\ \A k \in RingKeys : b[k] = NoValue \/ Listed(b[k])
  BY <1>1 DEF OverridesListed
<1>3. ASSUME NEW n, NEW r PROVE OverridesListed([t EXCEPT !.members[n] = r])
  <2>1. PICK u : u = [t EXCEPT !.members[n] = r]
    OBVIOUS
  <2>2. u.overrides = b
    BY <1>1, <2>1
  <2>. QED BY <1>2, <2>1, <2>2 DEF OverridesListed
<1>4. ASSUME NEW k \in RingKeys, NEW s, Listed(s) PROVE OverridesListed([t EXCEPT !.overrides[k] = s])
  <2>1. PICK u : u = [t EXCEPT !.overrides[k] = s]
    OBVIOUS
  <2>2. u.overrides = [b EXCEPT ![k] = s]
    BY <1>1, <2>1
  <2>3. PICK o : o = [b EXCEPT ![k] = s]
    OBVIOUS
  <2>4. DOMAIN o = RingKeys /\ \A l \in RingKeys : o[l] = NoValue \/ Listed(o[l])
    BY <1>2, <1>4, <2>3
  <2>. QED BY <2>1, <2>2, <2>3, <2>4 DEF OverridesListed
<1>. QED BY <1>3, <1>4

(* A write stores lists. *)
LEMMA ChangeKeepsSelectInv ==
  ASSUME RingInv, SelectInv, NEW p \in RingProcs, Ring!Change(p)
  PROVE  SelectInv'
<1>1. IsTopology(mine[p]) /\ OverridesListed(mine[p])
  BY DEF RingInv, RingHeld, SelectInv
<1>. DEFINE Stores == \E t : IsTopology(t) /\ OverridesListed(t) /\ Ring!Persist(p, t)
<1>2. Stores
  <2>1. ASSUME NEW n, NEW r, Ring!Persist(p, [mine[p] EXCEPT !.members[n] = r]) PROVE Stores
    BY <1>1, <2>1, TopologyFields, OverridesChanged
  <2>2. ASSUME NEW k \in RingKeys, NEW s, Listed(s), Ring!Persist(p, [mine[p] EXCEPT !.overrides[k] = s]) PROVE Stores
    BY <1>1, <2>2, TopologyFields, OverridesChanged
  <2>3. \/ \E n \in Words, r \in 1..MaxReplicas : Ring!Add(p, n, r) \/ Ring!UpdateMember(p, n, r)
        \/ \E n \in Words : Ring!Remove1(p, n)
        \/ \E k \in RingKeys, s \in Ring!OverrideValues : Ring!SetOverride(p, k, s)
    BY DEF Ring!Change
  <2>4. ASSUME NEW n, NEW r, Ring!Add(p, n, r) PROVE Stores
    BY <2>1, <2>4 DEF Ring!Add
  <2>5. ASSUME NEW n, NEW r, Ring!UpdateMember(p, n, r) PROVE Stores
    BY <2>1, <2>5 DEF Ring!UpdateMember
  <2>6. ASSUME NEW n, Ring!Remove1(p, n) PROVE Stores
    BY <2>1, <2>6 DEF Ring!Remove1
  <2>7. ASSUME NEW k \in RingKeys, NEW s \in Ring!OverrideValues, Ring!SetOverride(p, k, s) PROVE Stores
    <3>1. s = <<>> \/ \E n \in Words : s = <<n>>
      BY <2>7, Zenon DEF Ring!OverrideValues
    <3>2. Listed(<<>>)
      BY DEF Listed, NoneTwice
    <3>3. ASSUME NEW n \in Words PROVE Listed(<<n>>)
      BY DEF Listed, NoneTwice
    <3>4. Listed(s)
      BY <3>1, <3>2, <3>3, Zenon
    <3>. QED BY <2>2, <2>7, <3>4 DEF Ring!SetOverride
  <2>. QED BY <2>3, <2>4, <2>5, <2>6, <2>7
<1>3. PICK t : IsTopology(t) /\ OverridesListed(t) /\ Ring!Persist(p, t)
  BY <1>2
<1>4. mine' = [mine EXCEPT ![p] = t] /\ ringLog' = Append(ringLog, t) /\ pending' = pending /\ chosen' = chosen
  BY <1>3 DEF Ring!Persist
<1>5. mine'[p] = t /\ \A q \in RingProcs \ {p} : mine'[q] = mine[q]
  BY <1>4, RingDomains
<1>6. /\ DOMAIN chosen' = RingProcs /\ Listed(chosen'[p])
      /\ pending'[p] # <<>> => OverridesListed(pending'[p][1])
  BY <1>4 DEF SelectInv
<1>. QED BY <1>3, <1>4, <1>5, <1>6, ListsKept

(* A selection: a list, and an override extended to one. *)
LEMMA SelectKeepsSelectInv ==
  ASSUME RingInv, SelectInv, NEW p \in RingProcs, NEW k \in RingKeys, Ring!SelectOne(p, k) \/ Ring!SelectMany(p, k)
  PROVE  SelectInv'
<1>1. PICK over : over = mine[p].overrides[k] /\ (over = NoValue \/ Listed(over))
  BY DEF SelectInv, OverridesListed
<1>2. PICK all : all = Ring!find_nodes(p) /\ Listed(all)
  BY NodesListed
<1>3. PICK nodes : nodes = Ring!Take(all, 2) /\ Listed(nodes) /\ Len(nodes) <= 2
  BY <1>2, TakeListed
<1>. DEFINE Selects == \E c : Listed(c) /\ chosen' = [chosen EXCEPT ![p] = c]
            Keeps == mine' = mine \/ \E s : Listed(s) /\ mine' = [mine EXCEPT ![p] = [mine[p] EXCEPT !.overrides[k] = s]]
<1>4. ringLog' = ringLog /\ pending' = pending
  BY DEF Ring!SelectOne, Ring!SelectMany
<1>5. ASSUME Ring!SelectOne(p, k) PROVE Selects /\ Keeps
  <2>1. /\ chosen' = [chosen EXCEPT ![p] = Ring!Take(IF over \in {NoValue, <<>>} THEN all ELSE over, 1)]
        /\ mine' = mine
    BY <1>1, <1>2, <1>5 DEF Ring!SelectOne
  <2>2. PICK s : s = (IF over \in {NoValue, <<>>} THEN all ELSE over) /\ Listed(s)
    BY <1>1, <1>2
  <2>3. Listed(Ring!Take(s, 1))
    BY <2>2, TakeListed
  <2>. QED BY <2>1, <2>2, <2>3
<1>6. ASSUME Ring!SelectMany(p, k) PROVE Selects /\ Keeps
  <2>1. IF over = NoValue
        THEN chosen' = [chosen EXCEPT ![p] = nodes] /\ mine' = mine
        ELSE /\ chosen' = [chosen EXCEPT ![p] = Ring!Take(Ring!Filled(over, nodes), 2)]
             /\ mine' = [mine EXCEPT ![p].overrides[k] = Ring!Filled(over, nodes)]
    BY <1>1, <1>2, <1>3, <1>6 DEF Ring!SelectMany
  <2>2. CASE over = NoValue
    BY <1>3, <2>1, <2>2
  <2>3. CASE over # NoValue
    <3>1. PICK s : s = Ring!Filled(over, nodes) /\ Listed(s)
      BY <1>1, <1>3, <2>3, FilledListed
    <3>2. chosen' = [chosen EXCEPT ![p] = Ring!Take(s, 2)] /\ mine' = [mine EXCEPT ![p].overrides[k] = s]
      BY <2>1, <2>3, <3>1
    <3>3. Listed(Ring!Take(s, 2))
      BY <3>1, TakeListed
    <3>. QED BY <3>1, <3>2, <3>3
  <2>. QED BY <2>2, <2>3
<1>7. Selects /\ Keeps
  BY <1>5, <1>6
<1>8. DOMAIN chosen' = RingProcs /\ Listed(chosen'[p]) /\ \A q \in RingProcs \ {p} : chosen'[q] = chosen[q]
  BY <1>7 DEF SelectInv
<1>9. OverridesListed(mine'[p]) /\ \A q \in RingProcs \ {p} : mine'[q] = mine[q]
  <2>1. IsTopology(mine[p]) /\ OverridesListed(mine[p])
    BY DEF RingInv, RingHeld, SelectInv
  <2>2. CASE mine' = mine
    BY <2>1, <2>2
  <2>3. CASE \E s : Listed(s) /\ mine' = [mine EXCEPT ![p] = [mine[p] EXCEPT !.overrides[k] = s]]
    <3>1. PICK s : Listed(s) /\ mine' = [mine EXCEPT ![p] = [mine[p] EXCEPT !.overrides[k] = s]]
      BY <2>3
    <3>2. PICK t : t = [mine[p] EXCEPT !.overrides[k] = s] /\ OverridesListed(t)
      BY <2>1, <3>1, OverridesChanged
    <3>3. mine' = [mine EXCEPT ![p] = t]
      BY <3>1, <3>2
    <3>. QED BY <3>2, <3>3, RingDomains
  <2>. QED BY <1>7, <2>2, <2>3
<1>10. pending'[p] # <<>> => OverridesListed(pending'[p][1])
  BY <1>4 DEF SelectInv
<1>. QED BY <1>4, <1>8, <1>9, <1>10, ListsKept

(* Every step of a process, and every step that leaves the ring alone. *)
LEMMA RingNextKeepsSelectInv ==
  ASSUME RingInv, SelectInv, Ring!Next \/ UNCHANGED ringVars
  PROVE  SelectInv'
<1>1. CASE Ring!Next
  <2>1. PICK p \in RingProcs :
          \/ Ring!EnsureWatching(p) \/ Ring!Change(p) \/ Ring!Answer(p) \/ Ring!Receive(p) \/ Ring!Apply(p)
          \/ \E k \in RingKeys : Ring!SelectOne(p, k) \/ Ring!SelectMany(p, k)
    BY <1>1 DEF Ring!Next
  <2>. QED BY <2>1, TakesOverKeepsSelectInv, ChangeKeepsSelectInv, ReceiveKeepsSelectInv, SelectKeepsSelectInv
<1>2. CASE UNCHANGED ringVars
  BY <1>2 DEF ringVars, SelectInv, OverridesListed, Listed, NoneTwice
<1>. QED BY <1>1, <1>2

(* What a process has selected has no member twice. *)
LEMMA SelectInvGives == SelectInv => Ring!SelectionDistinct
BY DEF SelectInv, Listed, NoneTwice, Ring!SelectionDistinct
=============================================================================
