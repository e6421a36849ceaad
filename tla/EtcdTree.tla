------------------------------ MODULE EtcdTree ------------------------------
(***************************************************************************)
(* worker/lib/etcd: a ReadOnlyEtcdTree that follows an etcd directory      *)
(* through a recursive watcher (EtcdWatcher, or EtcdWatcherdWatcher when   *)
(* watcherd) and its RecursiveWatchMux.  etcd keeps a bounded history of   *)
(* events: a watcher that falls behind it must read everything again.      *)
(***************************************************************************)
EXTENDS Naturals, Sequences, FiniteSets, SequencesExt, Functions

CONSTANTS Leaves,      \* the keys with a value below the root
          Dirs,        \* the directories below the root
          Under,       \* directory -> the leaves below it
          StartsWith,  \* key -> the leaves whose path has it as a string prefix
          Values,
          None,        \* no value
          MaxWrites

VARIABLES watcherd,   \* which of the two watchers is used
          store,      \* etcd: leaf -> value or None
          log,        \* etcd: all events so far, the index is the length
          cleared,    \* etcd: events up to here are no longer in the history
          state,      \* EtcdWatcherState (STREAMING and RESET are WAIT and SYNC)
          index,      \* _index: the last event seen
          directory,  \* _mux._directory, None before the first full sync
          dict,       \* the tree's _dict
          told        \* per leaf: what its node watcher was last called with

etcd == <<store, log, cleared>>
vars == <<watcherd, store, log, cleared, state, index, directory, dict, told>>

Nothing == [k \in Leaves |-> None]
Event(type, key, value) == [type |-> type, key |-> key, value |-> value]

Init ==
    /\ watcherd \in BOOLEAN
    /\ store \in {Nothing} \cup [Leaves -> Values]
    /\ log = <<>>
    /\ cleared = 0
    /\ state = "UNLOADED"
    /\ index = None
    /\ directory = None
    /\ dict = Nothing
    /\ told = Nothing

-----------------------------------------------------------------------------
(* etcd: writes by others, and its history that forgets. *)
Write(type, key, value, ks) ==
    /\ Len(log) < MaxWrites
    /\ store' = [k \in Leaves |-> IF k \in ks THEN value ELSE store[k]]
    /\ log' = Append(log, Event(type, key, value))
    /\ UNCHANGED <<watcherd, cleared, state, index, directory, dict, told>>

Put == \E k \in Leaves, v \in Values : Write("set", k, v, {k})
Delete == \E k \in Leaves : store[k] # None /\ Write("delete", k, None, {k})
DeleteDir == \E d \in Dirs : (\E k \in Under[d] : store[k] # None) /\ Write("delete", d, None, Under[d])
DeleteRoot == store # Nothing /\ Write("root", None, None, Leaves)

Forget == /\ cleared < Len(log)
          /\ cleared' = Len(log)
          /\ UNCHANGED <<watcherd, store, log, state, index, directory, dict, told>>

-----------------------------------------------------------------------------
(* Faulty variant: node watchers are told of what a full sync brings only. *)
handle_event_untold(t, e) ==
    CASE e.type = "full" ->
           [dict |-> e.value,
            told |-> [k \in Leaves |-> IF e.value[k] # None THEN e.value[k] ELSE t.told[k]]]
      [] e.type = "upsert" ->
           [dict |-> [t.dict EXCEPT ![e.key] = e.value], told |-> [t.told EXCEPT ![e.key] = e.value]]
      [] e.type = "delete" ->
           [dict |-> [k \in Leaves |-> IF k \in StartsWith[e.key] THEN None ELSE t.dict[k]],
            told |-> [k \in Leaves |-> IF k \in StartsWith[e.key] THEN None ELSE t.told[k]]]

(* ReadOnlyEtcdTree._handle_event on [dict, told], one event. *)
handle_event(t, e) ==
    CASE e.type = "full" ->
           [dict |-> e.value,
            told |-> [k \in Leaves |-> IF e.value = Nothing \/ e.value[k] # None \/ t.dict[k] # None
                                       THEN e.value[k] ELSE t.told[k]]]
      [] e.type = "upsert" ->
           [dict |-> [t.dict EXCEPT ![e.key] = e.value], told |-> [t.told EXCEPT ![e.key] = e.value]]
      [] e.type = "delete" ->
           [dict |-> [k \in Leaves |-> IF k \in StartsWith[e.key] THEN None ELSE t.dict[k]],
            told |-> [k \in Leaves |-> IF k \in StartsWith[e.key] THEN None ELSE t.told[k]]]

(* The events a full sync with the items of s is turned into. *)
Changed(d, s) == {k \in Leaves : s[k] # None /\ d[k] # s[k]}
Unvisited(d, s) == {k \in Leaves : s[k] = None /\ d[k] # None}

(* Faulty variant: keys that are gone are not deleted. *)
synthesize_no_deletes(d, s) ==
    IF s = Nothing THEN IF d = Nothing THEN <<>> ELSE <<Event("full", None, s)>>
    ELSE [i \in 1..Cardinality(Changed(d, s)) |->
            LET k == SetToSeq(Changed(d, s))[i] IN Event("upsert", k, s[k])]

synthesize_incremental_events_from_full_sync(d, s) ==
    IF s = Nothing THEN IF d = Nothing THEN <<>> ELSE <<Event("full", None, s)>>
    ELSE LET ups == SetToSeq(Changed(d, s))
             del == SetToSeq(Unvisited(d, s))
         IN  [i \in 1..Len(ups) |-> Event("upsert", ups[i], s[ups[i]])]
             \o [i \in 1..Len(del) |-> Event("delete", del[i], None)]

(* The mux's directory after it: a changed key is entered with its own     *)
(* name as its value.                                                      *)
synced_directory(d, s) ==
    IF s = Nothing THEN Nothing
    ELSE [k \in Leaves |-> IF s[k] = None THEN None ELSE IF s[k] # d[k] THEN k ELSE d[k]]

(* RecursiveWatchMux.dedupe_event of an incremental event. *)
dedupe_event(d, e) ==
    CASE e.type = "upsert" -> IF d[e.key] = e.value THEN <<>> ELSE <<e>>
      [] e.type = "delete" -> <<e>>

deduped_directory(d, e) ==
    CASE e.type = "upsert" -> [d EXCEPT ![e.key] = e.value]
      [] e.type = "delete" -> IF e.key \in Leaves THEN [d EXCEPT ![e.key] = None] ELSE d

(* The tree handles each event the mux lets through. *)
Handle(es) ==
    LET t == FoldLeft(handle_event, [dict |-> dict, told |-> told], es)
    IN  dict' = t.dict /\ told' = t.told

(* A full sync through the mux, to what etcd holds. *)
FullSync ==
    IF directory = None
    THEN directory' = store /\ Handle(<<Event("full", None, store)>>)
    ELSE /\ directory' = synced_directory(directory, store)
         /\ Handle(synthesize_incremental_events_from_full_sync(directory, store))

-----------------------------------------------------------------------------
(* _load: begin_watching and its event, then the greenlet continues. *)
Load ==
    /\ state = "UNLOADED"
    /\ directory' = store
    /\ Handle(<<Event("full", None, store)>>)
    /\ index' = Len(log)
    /\ state' = "WAIT"
    /\ UNCHANGED <<watcherd, etcd>>

(* _do_sync (_reset_stream): read all, with the index of that read. *)
Sync ==
    /\ state = "SYNC"
    /\ FullSync
    /\ index' = Len(log)
    /\ state' = "WAIT"
    /\ UNCHANGED <<watcherd, etcd>>

(* _translate_event. *)
translate_event(e) ==
    CASE e.type = "set" -> Event("upsert", e.key, e.value)
      [] e.type = "delete" -> e

(* _do_watch_key: the next event after _index. *)
Watch ==
    /\ state = "WAIT"
    /\ index < Len(log)
    /\ watcherd \/ index >= cleared
    /\ index' = index + 1
    /\ LET e == log[index + 1] IN
         IF e.type = "root"
         THEN /\ directory' = Nothing
              /\ Handle(synthesize_incremental_events_from_full_sync(directory, Nothing))
         ELSE /\ directory' = deduped_directory(directory, translate_event(e))
              /\ Handle(dedupe_event(directory, translate_event(e)))
    /\ UNCHANGED <<watcherd, store, log, cleared, state>>

(* Faulty variant: 401 is retried like any other error. *)
IndexClearedRetries ==
    /\ state = "WAIT"
    /\ ~watcherd
    /\ index < cleared
    /\ UNCHANGED vars

(* Error 401: the history no longer reaches back to _index. *)
IndexCleared ==
    /\ state = "WAIT"
    /\ ~watcherd
    /\ index < cleared
    /\ state' = "SYNC"
    /\ UNCHANGED <<watcherd, store, log, cleared, index, directory, dict, told>>

(* _consume_stream: the stream fails and is opened anew. *)
StreamFails ==
    /\ watcherd
    /\ state = "WAIT"
    /\ state' = "SYNC"
    /\ UNCHANGED <<watcherd, store, log, cleared, index, directory, dict, told>>

(* The stream ends without an error: the loop asks it again and again. *)
StreamEnds ==
    /\ watcherd
    /\ state = "WAIT"
    /\ state' = "EXHAUSTED"
    /\ UNCHANGED <<watcherd, store, log, cleared, index, directory, dict, told>>

(* stop_watching kills the greenlet; the mux and the index start afresh. *)
Stop ==
    /\ state \in {"WAIT", "SYNC"}
    /\ state' = "STOPPED"
    /\ index' = None
    /\ directory' = None
    /\ UNCHANGED <<watcherd, store, log, cleared, dict, told>>

(* watch() again: _loop makes a new watcher, which begins with a sync. *)
Resume ==
    /\ state = "STOPPED"
    /\ state' = "SYNC"
    /\ UNCHANGED <<watcherd, store, log, cleared, index, directory, dict, told>>

Writers == Put \/ Delete \/ DeleteDir \/ DeleteRoot
Follow == Load \/ Sync \/ Watch \/ IndexCleared
Next == Writers \/ Forget \/ Follow \/ StreamFails \/ StreamEnds \/ Stop \/ Resume

(* The watcher's greenlet runs; a sync is retried until it succeeds.  A    *)
(* stopped watcher is started again, and streams do not fail for ever.     *)
Fairness == WF_vars(Load \/ Resume) /\ SF_vars(Sync \/ Watch) /\ WF_vars(IndexCleared)
Spec == Init /\ [][Next]_vars /\ Fairness

-----------------------------------------------------------------------------
(* The removal e takes key k out of the tree, or makes a later full sync   *)
(* take it out, although it is about another key: _delete_subtree goes by  *)
(* the start of the path.  The mux goes by the key, so that k stays away   *)
(* until its value changes; it forgets what a removed directory held.      *)
Sweeps(e, k) ==
    \/ e.type = "delete" /\ e.key # k /\ k \in StartsWith[e.key]
    \/ e.type = "root" /\ \E p \in Leaves \ {k} : k \in StartsWith[p]
Unswept(k) == \A i \in 1..Len(log) : ~Sweeps(log[i], k)

(* A watcher that has seen all events left its tree as etcd has it, but    *)
(* for the keys that a removal of another key or of a directory has swept  *)
(* away: no event is lost between a full sync and the wait that follows,   *)
(* nor dropped as a duplicate although the tree needs it.                  *)
TreeMirrorsEtcd ==
    state = "WAIT" /\ index = Len(log) => \A k \in Leaves : Unswept(k) => dict[k] = store[k]

(* Every node watcher's last call had the value the tree has now. *)
NodeWatchersInformed == told = dict

(* Once the writes stop the tree becomes and stays what etcd holds, but    *)
(* for keys swept away, as long as someone watches; a stream that ended    *)
(* without an error is asked for ever and brings nothing.                  *)
Mirrored == state = "WAIT" /\ \A k \in Leaves : Unswept(k) => dict[k] = store[k]
Mirrors == []<>(Mirrored \/ state = "EXHAUSTED")
=============================================================================
