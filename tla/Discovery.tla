------------------------------ MODULE Discovery ------------------------------
(***************************************************************************)
(* worker/lib/discovery: Directory, Service, ServiceWatcher.  Instances of *)
(* one service register at etcd; a process keeps its list of them current  *)
(* with a watcher greenlet and hands them out in rotation.  Greenlets of   *)
(* the process call select() and stop().                                   *)
(***************************************************************************)
EXTENDS Naturals, Sequences, SequencesExt, FiniteSets

CONSTANTS Ids,          \* instances
          MaxEvents,    \* changes at etcd
          MaxWatchers,  \* watcher greenlets over time
          None

VARIABLES log,      \* changes at etcd: an instance and what it registered
          watcher,  \* greenlets: state and position in log
          handle,   \* _watcher_greenlet, 0 for None
          lock,     \* a caller is loading, holding _lock
          inst,     \* _instances: None or [draining, visible]
          rot,      \* _rotation
          since     \* selections since an instance was last selected

vars == <<log, watcher, handle, lock, inst, rot, since>>

Registrations == {None, "serving", "draining"}
WatcherIds == 1..MaxWatchers
Running == {w \in WatcherIds : watcher[w].state = "running"}

(* What etcd has after the first n changes. *)
Registered(n) == [i \in Ids |->
    LET mine == {j \in 1..n : log[j].id = i}
    IN  IF mine = {} THEN None ELSE log[CHOOSE j \in mine : \A k \in mine : k <= j].is]

Eligible(i) == inst[i] # None /\ ~inst[i].draining /\ inst[i].visible
Reset == since' = [i \in Ids |-> 0]

Init ==
    /\ log = <<>>
    /\ watcher = [w \in WatcherIds |-> [state |-> "new", index |-> 0]]
    /\ handle = 0
    /\ lock = FALSE
    /\ inst = [i \in Ids |-> None]
    /\ rot = <<>>
    /\ since = [i \in Ids |-> 0]

(* Directory.register, unregister, or the time to live passes. *)
Register(i, r) ==
    /\ Len(log) < MaxEvents
    /\ Registered(Len(log))[i] # r
    /\ log' = Append(log, [id |-> i, is |-> r])
    /\ UNCHANGED <<watcher, handle, lock, inst, rot, since>>

(* Faulty variant: a known instance is left as it is. *)
AddInstanceNoMerge(i, is, delay) ==
    IF inst[i] = None
    THEN /\ inst' = [inst EXCEPT ![i] = [draining |-> is = "draining", visible |-> ~delay]]
         /\ \E n \in 0..Len(rot) : rot' = InsertAt(rot, n + 1, i)
    ELSE UNCHANGED <<inst, rot>>

(* _add_instance: a new one enters at a random place, visible after a      *)
(* delay; a known one is merged.                                           *)
AddInstance(i, is, delay) ==
    IF inst[i] = None
    THEN /\ inst' = [inst EXCEPT ![i] = [draining |-> is = "draining", visible |-> ~delay]]
         /\ \E n \in 0..Len(rot) : rot' = InsertAt(rot, n + 1, i)
    ELSE inst' = [inst EXCEPT ![i].draining = is = "draining"] /\ UNCHANGED rot

(* Faulty variant: the rotation keeps the identifier. *)
RemoveInstanceKeepsId(i) == inst' = [inst EXCEPT ![i] = None] /\ UNCHANGED rot

(* _remove_instance. *)
RemoveInstance(i) ==
    /\ inst' = [inst EXCEPT ![i] = None]
    /\ rot' = RemoveFirst(rot, i)

(* The instances in both rotations are in the same order. *)
SameOrder(s, t) ==
    \A i, j \in ToSet(s) \cap ToSet(t) : (\E m, n \in DOMAIN s : m < n /\ s[m] = i /\ s[n] = j)
                                     => \E m, n \in DOMAIN t : m < n /\ t[m] = i /\ t[n] = j

(* _handle_full_sync of what etcd has: removals, then additions at random  *)
(* places.                                                                 *)
FullSync(reg, delay) ==
    /\ inst' = [i \in Ids |->
         IF reg[i] = None THEN None
         ELSE [draining |-> reg[i] = "draining",
               visible  |-> IF inst[i] = None THEN ~delay ELSE inst[i].visible]]
    /\ rot' \in {s \in SetToSeqs({i \in Ids : reg[i] # None}) : SameOrder(s, rot)}

(* ensure_watching: a caller takes the lock and asks etcd ... *)
EnsureWatching ==
    /\ handle = 0
    /\ ~lock
    /\ \E w \in WatcherIds : watcher[w].state = "new"
    /\ lock' = TRUE
    /\ UNCHANGED <<log, watcher, handle, inst, rot, since>>

(* ... and on the answer syncs, spawns the watcher and releases the lock. *)
Loaded ==
    /\ lock
    /\ FullSync(Registered(Len(log)), FALSE)
    /\ LET w == CHOOSE v \in WatcherIds : watcher[v].state = "new" /\ \A u \in 1..(v - 1) : watcher[u].state # "new"
       IN  /\ watcher' = [watcher EXCEPT ![w] = [state |-> "running", index |-> Len(log)]]
           /\ handle' = w
    /\ lock' = FALSE
    /\ Reset
    /\ UNCHANGED log

(* _watch: the next event, or a full sync when the watcher fell behind. *)
Watch(w) ==
    /\ w \in Running
    /\ watcher[w].index < Len(log)
    /\ LET e == log[watcher[w].index + 1]
       IN  IF e.is = None THEN RemoveInstance(e.id) ELSE AddInstance(e.id, e.is, TRUE)
    /\ watcher' = [watcher EXCEPT ![w].index = @ + 1]
    /\ Reset
    /\ UNCHANGED <<log, handle, lock>>

WatchResync(w) ==
    /\ w \in Running
    /\ watcher[w].index < Len(log)
    /\ FullSync(Registered(Len(log)), TRUE)
    /\ watcher' = [watcher EXCEPT ![w].index = Len(log)]
    /\ Reset
    /\ UNCHANGED <<log, handle, lock>>

(* stop(): the handle is cleared under the lock, then the greenlet killed. *)
Stop ==
    /\ ~lock
    /\ handle # 0
    /\ watcher' = [watcher EXCEPT ![handle].state = "killed"]
    /\ handle' = 0
    /\ UNCHANGED <<log, lock, inst, rot, since>>

(* The finally of _watch. *)
Exit(w) ==
    /\ watcher[w].state = "killed"
    /\ ~lock
    /\ watcher' = [watcher EXCEPT ![w].state = "dead"]
    /\ handle' = 0
    /\ UNCHANGED <<log, lock, inst, rot, since>>

(* The time of visible_at passes. *)
BecomeVisible(i) ==
    /\ inst[i] # None
    /\ ~inst[i].visible
    /\ inst' = [inst EXCEPT ![i].visible = TRUE]
    /\ Reset
    /\ UNCHANGED <<log, watcher, handle, lock, rot>>

(* Faulty variant: the rotation does not turn. *)
RotateStuck(s) == s

Rotate(s) == <<s[Len(s)]>> \o SubSeq(s, 1, Len(s) - 1)

FirstEligible(s) == {s[n] : n \in {m \in 1..Len(s) : Eligible(s[m]) /\ \A k \in 1..(m - 1) : ~Eligible(s[k])}}

(* select() without a selector: the first visible instance of the turned   *)
(* rotation, else any that is not draining, else ServiceUnavailable.       *)
Select ==
    /\ handle # 0
    /\ rot # <<>>
    /\ rot' = Rotate(rot)
    /\ LET first == FirstEligible(rot')
           spare == {i \in Ids : inst[i] # None /\ ~inst[i].draining}
       IN  \E got \in IF first # {} THEN first ELSE IF spare # {} THEN spare ELSE {None} :
             since' = [i \in Ids |-> IF Eligible(i) /\ i # got THEN since[i] + 1 ELSE 0]
    /\ UNCHANGED <<log, watcher, handle, lock, inst>>

Next ==
    \/ \E i \in Ids : BecomeVisible(i) \/ \E r \in Registrations : Register(i, r)
    \/ \E w \in WatcherIds : Watch(w) \/ WatchResync(w) \/ Exit(w)
    \/ EnsureWatching \/ Loaded \/ Stop \/ Select

Spec == Init /\ [][Next]_vars

-----------------------------------------------------------------------------
(* Whatever the order of events, full syncs and restarts, the rotation     *)
(* holds every known instance once and nothing else, so that select()      *)
(* never looks up an instance that is gone.                                *)
RotationHoldsInstances ==
    /\ ToSet(rot) = {i \in Ids : inst[i] # None}
    /\ Len(rot) = Cardinality(ToSet(rot))

(* Once the only running watcher has seen every change, the process knows  *)
(* exactly the registered instances, with their draining flags: also after *)
(* changes it missed while it was stopped.                                 *)
KnowsRegistered ==
    \A w \in Running : Running = {w} /\ handle = w /\ watcher[w].index = Len(log) =>
        \A i \in Ids : LET r == Registered(Len(log))[i]
                       IN  IF r = None THEN inst[i] = None
                           ELSE inst[i] # None /\ inst[i].draining = (r = "draining")

(* Round robin: while nothing changes, an instance that can be selected is *)
(* selected within as many calls as there are instances.                   *)
NoStarvation == \A i \in Ids : since[i] < Cardinality(Ids)
=============================================================================
