---------------------------- MODULE EtcdObjects ----------------------------
(***************************************************************************)
(* What processes share through keys of etcd: the distributed lock, a      *)
(* dictionary or set, and the hash ring.                                   *)
(***************************************************************************)
EXTENDS Naturals, Sequences, FiniteSets

CONSTANTS NoValue, Procs, Words,
          Updaters,                \* processes that change the collection
          RingProcs, RingWriters,  \* processes of the ring, and those that change it
          RingKeys, MaxReplicas,   \* keys with overrides, and replicas of a member
          MaxLockIndex, MaxDictIndex, MaxRingWrites  \* bounds on the events of etcd's keys

ASSUME WritersAssumption == Updaters \subseteq Procs /\ RingWriters \subseteq RingProcs

(* NoValue stands for a key that etcd does not have. *)
ASSUME NoValueAssumption ==
  /\ NoValue \notin Nat
  /\ NoValue \notin [value : Nat, modified : Nat]
  /\ NoValue \notin [value : SUBSET Words, modified : Nat]

(* The members a ring can have, like the items of a collection, are finite. *)
ASSUME WordsAssumption == IsFiniteSet(Words)

VARIABLES
  lockNode, lockIndex, lockExpired, lockDeleted, lockAt, lockSent, lockValue,
  dictNode, dictLog, dictAt, op, got, ret, local, dictIndex, seen,
  ringLog, mine, ring, ringWatching, ringIndex, busy, pending, chosen

lockVars == <<lockNode, lockIndex, lockExpired, lockDeleted, lockAt, lockSent, lockValue>>
dictVars == <<dictNode, dictLog, dictAt, op, got, ret, local, dictIndex, seen>>
ringVars == <<ringLog, mine, ring, ringWatching, ringIndex, busy, pending, chosen>>

Lock == INSTANCE EtcdLock WITH Absent <- NoValue, MaxIndex <- MaxLockIndex, node <- lockNode, index <- lockIndex,
          expired <- lockExpired, deleted <- lockDeleted, at <- lockAt, sent <- lockSent, value <- lockValue
Collection == INSTANCE EtcdDict WITH Absent <- NoValue, Writers <- Updaters, Items <- Words, MaxIndex <- MaxDictIndex,
          node <- dictNode, log <- dictLog, at <- dictAt, index <- dictIndex
Ring == INSTANCE EtcdRing WITH None <- NoValue, Procs <- RingProcs, Writers <- RingWriters, Names <- Words,
          Keys <- RingKeys, MaxWrites <- MaxRingWrites, log <- ringLog, watching <- ringWatching, index <- ringIndex
============================================================================
