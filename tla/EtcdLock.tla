------------------------------ MODULE EtcdLock ------------------------------
(***************************************************************************)
(* worker/lib/etcd/locking.py: DistributedLock.  Processes compete for one *)
(* key with a time to live.  A request takes effect at etcd and its answer *)
(* reaches the process later; a timeout or an error may strike in between. *)
(***************************************************************************)
EXTENDS EtcdStore, FiniteSets

CONSTANTS Procs, MaxIndex

VARIABLES node,    \* the lock's key at etcd
          index,   \* etcd's index, also the source of fresh uuids
          expired, \* uuids whose key has expired
          deleted, \* uuids whose key was deleted by a release() that raised
          at,      \* where a process is
          sent,    \* the uuid of its last create
          value    \* self.value: the uuid it believes to hold, or Absent

vars == <<node, index, expired, deleted, at, sent, value>>

Init ==
    /\ node = Absent
    /\ index = 0
    /\ expired = {} /\ deleted = {}
    /\ at = [p \in Procs |-> "idle"]
    /\ sent = [p \in Procs |-> Absent]
    /\ value = [p \in Procs |-> Absent]

(* acquire() when self.value is set: True at once. *)
AcquireAgain(p) ==
    /\ at[p] \in {"idle", "raised"}
    /\ value[p] # Absent
    /\ at' = [at EXCEPT ![p] = "holding"]
    /\ UNCHANGED <<node, index, expired, deleted, sent, value>>

(* Faulty variant: the key is set, not created. *)
TryCreateOverwrites(p) ==
    /\ at[p] = "idle"
    /\ value[p] = Absent
    /\ index < MaxIndex
    /\ node' = Node(index + 1, index + 1)
    /\ index' = index + 1
    /\ sent' = [sent EXCEPT ![p] = index + 1]
    /\ at' = [at EXCEPT ![p] = "created"]
    /\ UNCHANGED <<expired, deleted, value>>

(* One turn of acquire()'s loop reaches etcd; NodeExists means sleeping    *)
(* and trying again, or returning False.                                   *)
TryCreate(p) ==
    LET r == create(node, index + 1, index + 1) IN
    /\ at[p] = "idle"
    /\ value[p] = Absent
    /\ index < MaxIndex
    /\ node' = r.node
    /\ r.error = "none"
    /\ index' = index + 1
    /\ sent' = [sent EXCEPT ![p] = index + 1]
    /\ at' = [at EXCEPT ![p] = "created"]
    /\ UNCHANGED <<expired, deleted, value>>

(* The answer arrives: the lock is held. *)
Created(p) ==
    /\ at[p] = "created"
    /\ value' = [value EXCEPT ![p] = sent[p]]
    /\ at' = [at EXCEPT ![p] = "holding"]
    /\ UNCHANGED <<node, index, expired, deleted, sent>>

(* with_timeout: acquire() returns False although etcd made the key; or    *)
(* the request raises, and acquire() with it.                              *)
AcquireTimeout(p) ==
    /\ at[p] = "created"
    /\ at' = [at EXCEPT ![p] = "idle"]
    /\ UNCHANGED <<node, index, expired, deleted, sent, value>>

(* Faulty variant: the key is deleted whoever holds it. *)
ReleaseAny(p) ==
    /\ at[p] = "holding"
    /\ node' = Absent
    /\ value' = [value EXCEPT ![p] = Absent]
    /\ at' = [at EXCEPT ![p] = "idle"]
    /\ UNCHANGED <<index, expired, deleted, sent>>

(* release(): KeyNotFound is ignored, CompareFailed is raised and leaves   *)
(* self.value set.                                                         *)
Release(p) ==
    LET r == delete_if_value(node, value[p]) IN
    /\ at[p] = "holding"
    /\ node' = r.node
    /\ value' = [value EXCEPT ![p] = IF r.error = "CompareFailed" THEN @ ELSE Absent]
    /\ at' = [at EXCEPT ![p] = IF r.error = "CompareFailed" THEN "raised" ELSE "idle"]
    /\ UNCHANGED <<index, expired, deleted, sent>>

(* release() when the request raises: a Timeout or RequestError leaves     *)
(* self.value set, whether or not etcd has deleted the key.                *)
ReleaseRaises(p) ==
    /\ at[p] = "holding"
    /\ node' \in {node, delete_if_value(node, value[p]).node}
    /\ deleted' = IF node' # node THEN deleted \cup {value[p]} ELSE deleted
    /\ at' = [at EXCEPT ![p] = "raised"]
    /\ UNCHANGED <<index, expired, sent, value>>

(* The time to live of the key passes. *)
Expire ==
    /\ node # Absent
    /\ node' = Absent
    /\ expired' = expired \cup {node.value}
    /\ UNCHANGED <<index, deleted, at, sent, value>>

Next == Expire \/ \E p \in Procs : AcquireAgain(p) \/ TryCreate(p) \/ Created(p)
                                  \/ AcquireTimeout(p) \/ Release(p) \/ ReleaseRaises(p)
Spec == Init /\ [][Next]_vars

-----------------------------------------------------------------------------
Holding == {p \in Procs : at[p] = "holding"}

(* Two processes hold the lock only if the key of one of them is lost: its *)
(* time to live has passed, or a release() of it deleted the key at etcd   *)
(* and raised, so that the next acquire() returned True at once.  A late   *)
(* answer, a timeout of acquire() or another process never causes it.      *)
ExclusiveUnlessLost ==
    \A p, q \in Holding : p # q => value[p] \in expired \cup deleted \/ value[q] \in expired \cup deleted

(* A release never takes the key away from another process that has it. *)
ReleaseTakesOwn ==
    [][\A p \in Procs : at[p] = "holding" /\ at'[p] # "holding" /\ node # Absent /\ node' = Absent
                        => node.value = value[p]]_vars
=============================================================================
