------------------------------ MODULE Progress ------------------------------
(***************************************************************************)
(* What a worker has to bring to an end, on small instances, under the     *)
(* fairness of its scheduling.  A behaviour is about one subject: a pool   *)
(* of rules sinks, the rules engine and its sources, a bulk label task     *)
(* that two sinks take from each other ("task") or one sink resumes after  *)
(* a reboot ("reboot"), callers of an external service, or a tree of keys  *)
(* followed by polling or through etcd-watcherd.                           *)
(***************************************************************************)
EXTENDS RulesSink, OspreyEngine

CONSTANTS Sinks, Callers, None, MaxWrites

VARIABLES
  subject,
  row, claimed, waiting, sink, label, done, processed, rollback, reboots,
  cache, expired, value, caller,
  watcherd, store, log, cleared, state, index, directory, dict, told

taskVars == <<row, claimed, waiting, sink, label, done, processed, rollback, reboots>>
cacheVars == <<cache, expired, value, caller>>
treeVars == <<watcherd, store, log, cleared, state, index, directory, dict, told>>

Task == INSTANCE BulkLabel WITH Results <- {<<"a", "b">>}, Expected <- 0, Excluded <- 0, MAX_ATTEMPTS <- 3,
          NumQueries <- 1, LabelRetries <- 1, MaxCrashes <- 0, runs <- processed, crashes <- reboots
OneSink == CHOOSE s \in Sinks : TRUE
Reboot == INSTANCE BulkLabel WITH Sinks <- {OneSink}, Results <- {<<"a", "b">>},
          Expected <- 0, Excluded <- 0, MAX_ATTEMPTS <- 3,
          NumQueries <- 2, LabelRetries <- 1, MaxCrashes <- 1, runs <- processed, crashes <- reboots
Cache == INSTANCE ServiceCache WITH Keys <- {"k", "l"}, Ops <- {"get"}, HasTTL <- TRUE,
          CountErrorOnce <- TRUE, NoEntry <- None

(* The path of one key starts with that of the other. *)
Leaves == {"foo", "foobar"}
Tree == INSTANCE EtcdTree WITH Dirs <- {}, Under <- <<>>, Values <- {"v", "w"},
          StartsWith <- [k \in Leaves |-> IF k = "foo" THEN Leaves ELSE {k}]

MCSetups == {[source |-> "pubsub", store |-> "bigtable"]} \cup [source : {"kafka"}, store : {"gcs", "minio", "postgres"}]
MCKindOf == <<"bad", "ok">>
MCEffectsOf == <<{}, {SynthesizeEffect("u", FALSE, "none"), SynthesizeEffect("v", TRUE, "false"), SynthesizeEffect("w", TRUE, "none")}>>

Init ==
  /\ subject \in {"sinks", "engine", "task", "reboot", "cache", "tree"}
  /\ EngineInit /\ Cache!Init
  /\ SinkInit /\ (subject # "sinks" => setup = [source |-> "pubsub", store |-> "bigtable"])
  /\ IF subject = "reboot" THEN Reboot!Init ELSE Task!Init
  /\ label = [e \in {"a", "b"} |-> IF e = "a" THEN "other" ELSE "none"]
  /\ Tree!Init /\ (subject # "tree" => store = Tree!Nothing /\ ~watcherd)

Next ==
  /\ UNCHANGED subject
  /\ \/ subject = "sinks" /\ SinkNext /\ UNCHANGED <<engineVars, taskVars, cacheVars, treeVars>>
     \/ subject = "engine" /\ EngineNext /\ UNCHANGED <<sinkVars, taskVars, cacheVars, treeVars>>
     \/ subject = "task" /\ Task!Next /\ UNCHANGED <<sinkVars, engineVars, cacheVars, treeVars>>
     \/ subject = "reboot" /\ Reboot!Next /\ UNCHANGED <<sinkVars, engineVars, cacheVars, treeVars>>
     \/ subject = "cache" /\ Cache!Next /\ UNCHANGED <<sinkVars, engineVars, taskVars, treeVars>>
     \/ subject = "tree" /\ Tree!Next /\ UNCHANGED <<sinkVars, engineVars, taskVars, cacheVars>>

(* gevent runs every greenlet, every request returns or times out, clocks  *)
(* go on and Pub/Sub delivers what was not acknowledged; a stopped watcher *)
(* is started again, and its syncs and streams do not fail for ever.       *)
Fairness ==
  /\ SF_sinkVars(subject = "sinks" /\ \E m \in Messages : KindOf[m] = "ok" /\ Deliver(m))
  /\ \A m \in Messages : WF_sinkVars(subject = "sinks" /\ ~InHand(m) /\ EndLease(m))
  /\ \A g \in Greenlets : WF_sinkVars(subject = "sinks" /\ SinkStep(g))
  /\ WF_engineVars(subject = "engine" /\ EngineStep)
  /\ \A s \in Sinks : WF_taskVars(subject = "task" /\ Task!SinkStep(s))
  /\ WF_taskVars(subject = "reboot" /\ Reboot!SinkStep(OneSink))
  /\ WF_taskVars(subject \in {"task", "reboot"} /\ Task!Expire)
  /\ WF_taskVars(subject \in {"task", "reboot"} /\ Task!BackoffEnds)
  /\ \A c \in Callers : WF_cacheVars(subject = "cache" /\ (Cache!Answer(c) \/ Cache!Wake(c)))
  /\ WF_treeVars(subject = "tree" /\ (Tree!Load \/ Tree!Resume))
  /\ WF_treeVars(subject = "tree" /\ Tree!IndexCleared)
  /\ SF_treeVars(subject = "tree" /\ (Tree!Sync \/ Tree!Watch))

vars == <<subject, sinkVars, engineVars, taskVars, cacheVars, treeVars>>
Spec == Init /\ [][Next]_vars /\ Fairness

-----------------------------------------------------------------------------
(* The work of a worker comes to an end: each action that decodes is       *)
(* executed and brought to every output sink (RulesSink.run,               *)
(* MultiOutputSink.push), unless a worker crashes while it has it and the  *)
(* Kafka consumer has already committed behind it; new sources are         *)
(* compiled and the input stream resumes (OspreyEngine); a bulk label task *)
(* ends up in a final status, takeovers and a reboot included              *)
(* (BulkLabelTask.claim); every call of the cached accessor returns        *)
(* (ExternalServiceAccessor.get); and once writes stop, a tree that is     *)
(* watched becomes what etcd holds, but for keys that the removal of a key *)
(* they begin with has swept away and for a stream that etcd-watcherd has  *)
(* ended without an error (ReadOnlyEtcdTree).                              *)
WorkEnds ==
  /\ []<>(subject = "sinks" => AllHandled)
  /\ ReloadEnds
  /\ <>[](subject \in {"task", "reboot"} => Task!Settled)
  /\ Cache!CallsReturn
  /\ []<>(subject = "tree" => Tree!Mirrored \/ state = "EXHAUSTED")

(* The engine's graph follows its sources, and its configuration is that   *)
(* of the graph in use (OspreyEngine._handle_updated_sources).             *)
EngineConsistent == GraphFollowsSources /\ ConfigMatchesGraph
=============================================================================
