------------------------------ MODULE EtcdDict ------------------------------
(***************************************************************************)
(* worker/lib/etcd: dict.py and set.py.  Processes keep a copy of a        *)
(* collection that is stored under one etcd key: they change it by         *)
(* compare-and-swap and follow it with a watcher.  A collection is the set *)
(* of its items.  An update is two requests; the answer to the second      *)
(* reaches the process after it took effect, and the watcher's greenlet    *)
(* runs in between.                                                        *)
(***************************************************************************)
EXTENDS EtcdStore, Sequences, FiniteSets

CONSTANTS Procs, Writers,  \* processes, and those that change the collection
          Items,
          MaxIndex

VARIABLES node, log,     \* the key at etcd, and all its events
          at, op, got,   \* an update: its step, what it does, what it read
          ret,           \* what it is going to return
          local,         \* _internal_set, _internal_dict
          index,         \* the watcher's _index
          seen           \* the last event of the watcher's mux

vars == <<node, log, at, op, got, ret, local, index, seen>>

Ops == [kind : {"add", "discard"}, item : Items] \cup {[kind |-> "clear"]}
Value(n) == IF n = Absent THEN {} ELSE n.value

Init ==
    /\ node \in {Absent, Node({}, 0)}
    /\ log = <<>>
    /\ at = [p \in Procs |-> "idle"]
    /\ op = [p \in Procs |-> Absent]
    /\ got = [p \in Procs |-> Absent]
    /\ ret = [p \in Procs |-> FALSE]
    /\ local = [p \in Procs |-> Value(node)]      \* _load: begin_watching
    /\ index = [p \in Procs |-> 0]
    /\ seen = [p \in Procs |-> Value(node)]

Event(n, p, o) == [value |-> Value(n), by |-> p, op |-> o]

(* EtcdSet.add, discard, clear; EtcdDict.__setitem__, __delitem__, clear. *)
updater(o, s) == CASE o.kind = "add" -> s \cup {o.item}
                   [] o.kind = "discard" -> s \ {o.item}
                   [] o.kind = "clear" -> {}
before_state(o, s) == CASE o.kind = "add" -> o.item \notin s
                        [] o.kind = "discard" -> o.item \in s
                        [] o.kind = "clear" -> s # {}

(* _cas_atomic_update: the read. *)
(* Faulty variant: a retry takes the new index but keeps the old value. *)
ReadKeepsValue(p) ==
    /\ p \in Writers
    /\ at[p] = "idle" \/ at[p] = "retry"
    /\ op' \in IF at[p] = "retry" THEN {op} ELSE {[op EXCEPT ![p] = o] : o \in Ops}
    /\ got' = [got EXCEPT ![p] = IF at[p] = "retry" /\ node # Absent
                                THEN Node(Value(got[p]), node.modified) ELSE node]
    /\ ret' = [ret EXCEPT ![p] = before_state(op'[p], Value(node))]
    /\ at' = [at EXCEPT ![p] = "read"]
    /\ UNCHANGED <<node, log, local, index, seen>>

(* Faulty variant: a retry keeps the first answer. *)
ReadKeepsAnswer(p) ==
    /\ p \in Writers
    /\ at[p] = "idle" \/ at[p] = "retry"
    /\ op' \in IF at[p] = "retry" THEN {op} ELSE {[op EXCEPT ![p] = o] : o \in Ops}
    /\ got' = [got EXCEPT ![p] = node]
    /\ ret' = IF at[p] = "retry" THEN ret ELSE [ret EXCEPT ![p] = before_state(op'[p], Value(node))]
    /\ at' = [at EXCEPT ![p] = "read"]
    /\ UNCHANGED <<node, log, local, index, seen>>

Read(p) ==
    /\ p \in Writers
    /\ at[p] = "idle" \/ at[p] = "retry"
    /\ op' \in IF at[p] = "retry" THEN {op} ELSE {[op EXCEPT ![p] = o] : o \in Ops}
    /\ got' = [got EXCEPT ![p] = node]
    /\ ret' = [ret EXCEPT ![p] = before_state(op'[p], Value(node))]
    /\ at' = [at EXCEPT ![p] = "read"]
    /\ UNCHANGED <<node, log, local, index, seen>>

Cas(n, g, v, i) == IF g = Absent THEN create(n, v, i) ELSE set_if_index(n, v, i, g.modified)

(* The conditional write: only CompareFailed leads to another attempt. *)
CasWrite(p) ==
    LET new == updater(op[p], Value(got[p]))
        r   == Cas(node, got[p], new, Len(log) + 1)
    IN  /\ at[p] = "read"
        /\ Len(log) < MaxIndex
        /\ node' = r.node
        /\ log' = IF r.error = "none" THEN Append(log, Event(r.node, p, op[p])) ELSE log
        /\ at' = [at EXCEPT ![p] = CASE r.error = "none" -> "written"
                                     [] r.error = "CompareFailed" -> "retry"
                                     [] OTHER -> "raised"]
        /\ UNCHANGED <<op, got, ret, local, index, seen>>

(* The answer arrives: the local copy becomes what was written. *)
Written(p) ==
    /\ at[p] = "written"
    /\ local' = [local EXCEPT ![p] = updater(op[p], Value(got[p]))]
    /\ at' = [at EXCEPT ![p] = "returned"]
    /\ UNCHANGED <<node, log, op, got, ret, index, seen>>

(* Somebody deletes the key. *)
DeleteKey ==
    /\ node # Absent
    /\ Len(log) < MaxIndex
    /\ node' = Absent
    /\ log' = Append(log, Event(Absent, "nobody", [kind |-> "clear"]))
    /\ UNCHANGED <<at, op, got, ret, local, index, seen>>

(* Faulty variant: the mux drops an event that repeats the local copy of   *)
(* an earlier time.                                                        *)
WatchForgetful(p) ==
    /\ index[p] < Len(log)
    /\ LET v == log[index[p] + 1].value
       IN  local' = IF v = seen[p] THEN local ELSE [local EXCEPT ![p] = v]
    /\ index' = [index EXCEPT ![p] = @ + 1]
    /\ UNCHANGED <<node, log, at, op, got, ret, seen>>

(* _loop: the next event of the watcher, unless WatchMux has seen it, goes *)
(* to _handle_event.                                                       *)
Watch(p) ==
    /\ index[p] < Len(log)
    /\ LET v == log[index[p] + 1].value
       IN  /\ local' = IF v = seen[p] THEN local ELSE [local EXCEPT ![p] = v]
           /\ seen' = [seen EXCEPT ![p] = v]
    /\ index' = [index EXCEPT ![p] = @ + 1]
    /\ UNCHANGED <<node, log, at, op, got, ret>>

(* The watcher reads the key again, after an error or when it is behind. *)
Resync(p) ==
    /\ index[p] < Len(log)
    /\ local' = IF Value(node) = seen[p] THEN local ELSE [local EXCEPT ![p] = Value(node)]
    /\ seen' = [seen EXCEPT ![p] = Value(node)]
    /\ index' = [index EXCEPT ![p] = Len(log)]
    /\ UNCHANGED <<node, log, at, op, got, ret>>

Next == DeleteKey \/ \E p \in Procs : Read(p) \/ CasWrite(p) \/ Written(p) \/ Watch(p) \/ Resync(p)

Spec == Init /\ [][Next]_vars

-----------------------------------------------------------------------------
Before(i) == IF i = 1 THEN {} ELSE log[i - 1].value

(* No update is lost: every event is its operation applied to the value    *)
(* just before it, whatever other processes did between read and write.    *)
NoLostUpdate == \A i \in 1..Len(log) : log[i].value = updater(log[i].op, Before(i))

(* An update returns whether it changed the collection, and a retry        *)
(* decides that anew: the answer fits the value its own write replaced.    *)
AnswersTruthful ==
    \A p \in Writers : at[p] \in {"written", "returned"} =>
        \E j \in 1..Len(log) : /\ log[j].by = p
                               /\ ret[p] = before_state(op[p], IF j = 1 THEN {} ELSE Before(j))

(* A process that only reads has etcd's value once its watcher has seen    *)
(* all events.                                                             *)
ReadersFollow == \A p \in Procs \ Writers : index[p] = Len(log) => local[p] = Value(node)
=============================================================================
