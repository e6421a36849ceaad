--------------------------- MODULE EtcdFollowers ---------------------------
(***************************************************************************)
(* What a process follows at etcd: a tree of keys, the instances of a      *)
(* service, and the services that a routed call goes to.                   *)
(***************************************************************************)
EXTENDS Naturals, Sequences, FiniteSets

CONSTANTS None,
          RootKeys, DirKeys,       \* keys of the tree, those in a directory apart
          Prefixed,                \* key or "dir" -> the keys whose path starts with its path
          TreeValues,
          Instances, Services,     \* of a service, and services of a call
          FieldValues, ChunkSize,  \* of a call's routing field, and as many as are sent at once
          MaxRetries,              \* max_secondaries_to_retry
          MaxWatchers, MaxChanges, \* bounds on watcher greenlets, and on changes during a call
          MaxTreeWrites, MaxRegistrations  \* bounds on the events of etcd's keys

TreeKeys == RootKeys \cup DirKeys

(* None, which stands for a key without a value, is no value, no key and   *)
(* no directory of a mux.  No key has its own name as its value: after a   *)
(* full sync the mux has names for values (_mux.py), and would take an     *)
(* event with that value for a duplicate.  A path starts with itself, and  *)
(* what starts with the path of a key in the directory starts with that of *)
(* the directory.                                                          *)
ASSUME KeysAssumption ==
  /\ IsFiniteSet(TreeKeys)
  /\ "dir" \notin TreeKeys
  /\ None \notin TreeValues \cup TreeKeys \cup {"dir"}
  /\ TreeKeys \cap TreeValues = {}
  /\ None \notin [TreeKeys -> TreeValues \cup TreeKeys \cup {None}]
  /\ Prefixed \in [TreeKeys \cup {"dir"} -> SUBSET TreeKeys]
  /\ \A k \in TreeKeys : k \in Prefixed[k]
  /\ \A k \in DirKeys : Prefixed[k] \subseteq Prefixed["dir"]

(* None stands for an instance without a registration, and for a channel   *)
(* that is not open.  A call's field has values.                           *)
ASSUME ServicesAssumption ==
  /\ IsFiniteSet(Instances) /\ IsFiniteSet(Services) /\ IsFiniteSet(FieldValues) /\ FieldValues # {}
  /\ MaxWatchers \in Nat /\ ChunkSize \in Nat
  /\ None \notin {"serving", "draining"} /\ None \notin [draining : BOOLEAN, visible : BOOLEAN]
  /\ None \notin Nat

VARIABLES
  watcherd, store, treeLog, cleared, state, treeIndex, directory, dict, told,
  registered, watcher, handle, loading, inst, rot, since,
  routing, field, up, client, closed, opened, calls, failed, tries, sent, rpcError, result, changes

treeVars == <<watcherd, store, treeLog, cleared, state, treeIndex, directory, dict, told>>
discoveryVars == <<registered, watcher, handle, loading, inst, rot, since>>
callVars == <<routing, field, up, client, closed, opened, calls, failed, tries, sent, rpcError, result, changes>>

Tree == INSTANCE EtcdTree WITH Leaves <- TreeKeys, Dirs <- {"dir"}, Under <- [d \in {"dir"} |-> DirKeys],
          StartsWith <- Prefixed, Values <- TreeValues, MaxWrites <- MaxTreeWrites, log <- treeLog, index <- treeIndex
Service == INSTANCE Discovery WITH Ids <- Instances, MaxEvents <- MaxRegistrations,
          log <- registered, lock <- loading
Call == INSTANCE RoutedClient WITH Values <- FieldValues
=============================================================================
