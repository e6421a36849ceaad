--------------------------- MODULE ProgressProofs ---------------------------
(***************************************************************************)
(* Proofs about the rules engine (OspreyEngine) and the pool of rules      *)
(* sinks (RulesSink), for any number of versions, messages, greenlets,     *)
(* crashes and executions, any effects of the rules and any store.         *)
(***************************************************************************)
EXTENDS Progress, TLAPS

(* The rules engine on its own. *)
EngineSpec == EngineInit /\ [][EngineNext]_engineVars

(* The pool of rules sinks on its own. *)
SinkSpec == SinkInit /\ [][SinkNext]_sinkVars

-----------------------------------------------------------------------------
(* The rules engine.                                                       *)

EngineTypes ==
  /\ latest \in 1..MaxVersion
  /\ pushed \in [1..MaxVersion -> {"good", "invalid", "gone"}]
  /\ provider \in [current : 1..MaxVersion, watched : BOOLEAN, missed : Nat]
  /\ reload \in [step : {"watch", "jitter", "load", "compile", "resume", "dead"}, version : 1..MaxVersion]
  /\ engine \in [step : {"new", "compile", "ready", "failed"}, compiling : Nat, graph : Nat, config : Nat]

(* The provider only has sources, and only such as the key has held. *)
ProviderLoaded ==
  /\ provider.current <= reload.version /\ reload.version <= latest
  /\ pushed[provider.current] # "gone"
  /\ provider.watched <=> engine.step = "ready"

(* The constructor compiles what the provider has, or what it has passed   *)
(* over is what the provider has.                                          *)
ConstructorFollows ==
  engine.step = "compile" => engine.compiling = provider.current \/ provider.missed = provider.current

(* Outside a compilation the engine has dealt with the provider's sources. *)
EngineSettled ==
  engine.step = "ready" /\ reload.step # "compile" =>
    \/ engine.graph = provider.current
    \/ pushed[provider.current] = "invalid"
    \/ provider.missed = provider.current

EngineInv == EngineTypes /\ ProviderLoaded /\ ConstructorFollows /\ EngineSettled /\ ConfigMatchesGraph

-----------------------------------------------------------------------------
(* The pool of rules sinks.                                                *)

SinkNames == {"labels", "store"}
Hows == {"untried", "nothing", "error", "timeout"}
Jobs == [msg : Nat, step : {"idle", "enter", "push", "exit"}, sink : 1..2, attempt : Nat]

SinkTypes ==
  /\ setup \in [source : {"pubsub", "kafka"}, store : {"bigtable", "gcs", "minio", "postgres"}]
  /\ broker \in [Messages -> {"ready", "leased", "acked"}]
  /\ offset \in [position : Nat \ {0}, committed : Nat \ {0}]
  /\ received \in Seq(Messages)
  /\ job \in [Greenlets -> Jobs]
  /\ labelled \in [Messages -> SUBSET UNION {LabelledEntities(m) : m \in Messages}]
  /\ fate \in [Messages -> [SinkNames -> [how : Hows, attempts : Nat]]]
  /\ \A m \in Messages : labelled[m] \subseteq LabelledEntities(m)

(* A sink with work for a message has ended a push of its result. *)
Tried(m, s) == WillDoWork(m, s) => fate[m][s].how # "untried"

(* What the end of a push says is true, and stays true when the message is *)
(* delivered and pushed again.                                             *)
FateSound(m) ==
  /\ \A s \in SinkNames : fate[m][s].how = "error" => fate[m][s].attempts = Allowed[s]
  /\ fate[m]["labels"].how = "nothing" => labelled[m] = LabelledEntities(m)
  /\ labelled[m] # {} => fate[m]["store"].how # "untried"

(* A rules sink that is past an output sink has tried it. *)
JobInv(g) ==
  LET j == job[g]
  IN  /\ j.step # "idle" => j.msg \in Messages
      /\ j.step = "enter" => j.sink = 1 /\ j.attempt = 1
      /\ j.step = "push" => /\ KindOf[j.msg] = "ok"
                            /\ j.attempt \in 1..Allowed[OutputSinks[j.sink]]
                            /\ j.sink = 2 => Tried(j.msg, "store")
      /\ j.step = "exit" /\ KindOf[j.msg] = "ok" => \A s \in SinkNames : Tried(j.msg, s)

(* What was acknowledged was tried. *)
AckedTried ==
  \A m \in Messages : broker[m] = "acked" /\ KindOf[m] = "ok" => \A s \in SinkNames : Tried(m, s)

SinkInv ==
  /\ SinkTypes
  /\ \A m \in Messages : FateSound(m)
  /\ \A g \in Greenlets : JobInv(g)
  /\ AckedTried
-----------------------------------------------------------------------------
(* The engine has not started, and the provider has version 1. *)
LEMMA EngineInitInv == EngineInit => EngineInv
<1>. SUFFICES ASSUME EngineInit PROVE EngineInv
  OBVIOUS
<1>. USE VersionAssumption
<1>1. 1 \in 1..MaxVersion
  OBVIOUS
<1>2. EngineTypes
  BY <1>1 DEF EngineInit, EngineTypes
<1>. QED BY <1>1, <1>2 DEF EngineInit, EngineInv, ProviderLoaded, ConstructorFollows,
          EngineSettled, ConfigMatchesGraph

(* A push takes a new version and leaves the others. *)
LEMMA PushKeepsEngineInv ==
  ASSUME EngineInv, NEW kind \in {"good", "invalid", "gone"}, ValidateAndPush(kind)
  PROVE  EngineInv'
<1>. USE VersionAssumption DEF EngineInv
<1>1. latest \in 1..MaxVersion /\ latest + 1 \in 1..MaxVersion
  BY DEF EngineTypes, ValidateAndPush
<1>2. EngineTypes'
  BY <1>1 DEF EngineTypes, ValidateAndPush
<1>3. /\ provider.current \in 1..MaxVersion /\ provider.current < latest + 1
      /\ reload.version \in 1..MaxVersion
  BY <1>1 DEF EngineTypes, ProviderLoaded
<1>4. pushed'[provider.current] = pushed[provider.current]
  BY <1>1, <1>3 DEF ValidateAndPush, EngineTypes
<1>. QED BY <1>1, <1>2, <1>3, <1>4
      DEF ValidateAndPush, ProviderLoaded, ConstructorFollows,
          EngineSettled, ConfigMatchesGraph

(* The watcher takes up a version and pauses the stream. *)
LEMMA WatcherKeepsEngineInv ==
  ASSUME EngineInv, HandleEvent \/ Pause \/ Resume
  PROVE  EngineInv'
<1>. USE VersionAssumption DEF EngineInv
<1>1. UNCHANGED <<pushed, latest, provider, engine>>
  BY DEF HandleEvent, Pause, Resume
<1>2. /\ reload'.version \in 1..latest /\ reload.version <= reload'.version
      /\ reload.step \in {"watch", "jitter", "resume"} /\ reload'.step \in {"jitter", "load", "watch"}
      /\ reload' \in [step : {"jitter", "load", "watch"}, version : 1..MaxVersion]
  <2>0. /\ latest \in 1..MaxVersion /\ reload.version \in 1..latest
        /\ reload \in [step : {"watch", "jitter", "load", "compile", "resume", "dead"}, version : 1..MaxVersion]
    BY DEF EngineTypes, ProviderLoaded
  <2>1. CASE HandleEvent
    <3>1. PICK v \in (reload.version + 1)..latest : reload' = [step |-> "jitter", version |-> v]
      BY <2>1 DEF HandleEvent
    <3>. QED BY <2>0, <2>1, <3>1 DEF HandleEvent
  <2>2. CASE Pause \/ Resume
    BY <2>0, <2>2 DEF Pause, Resume
  <2>. QED BY <2>1, <2>2
<1>3. EngineTypes'
  BY <1>1, <1>2 DEF EngineTypes
<1>4. ProviderLoaded'
  BY <1>1, <1>2 DEF EngineTypes, ProviderLoaded
<1>. QED BY <1>1, <1>2, <1>3, <1>4 DEF ConstructorFollows, EngineSettled, ConfigMatchesGraph

(* The provider takes over sources, which the engine will compile if it    *)
(* watches and which wait otherwise.                                       *)
LEMMA LoadKeepsEngineInv ==
  ASSUME EngineInv, Load
  PROVE  EngineInv'
<1>. USE VersionAssumption DEF EngineInv
<1>1. UNCHANGED <<pushed, latest, engine>> /\ reload.step = "load"
  BY DEF Load
<1>2. CASE pushed[reload.version] = "gone"
  <2>1. provider' = provider /\ reload' = [reload EXCEPT !.step = "dead"]
    BY <1>2 DEF Load
  <2>. QED BY <1>1, <2>1
        DEF EngineTypes, ProviderLoaded, ConstructorFollows,
          EngineSettled, ConfigMatchesGraph
<1>3. CASE pushed[reload.version] # "gone"
  <2>1. /\ provider' = [provider EXCEPT !.current = reload.version,
                          !.missed = IF engine.step = "ready" THEN @ ELSE reload.version]
        /\ reload' = [reload EXCEPT !.step = IF provider.watched THEN "compile" ELSE "resume"]
    BY <1>3 DEF Load
  <2>2. EngineTypes'
    <3>1. provider.current \in Nat /\ reload.version \in Nat
      BY DEF EngineTypes
    <3>. QED BY <1>1, <2>1, <3>1 DEF EngineTypes
  <2>3. /\ provider'.current = reload.version /\ provider'.watched = provider.watched
        /\ reload'.version = reload.version
        /\ reload'.step = IF provider.watched THEN "compile" ELSE "resume"
        /\ engine.step # "ready" => provider'.missed = reload.version
    BY <2>1 DEF EngineTypes
  <2>4. ProviderLoaded'
    BY <1>1, <1>3, <2>3 DEF EngineTypes, ProviderLoaded
  <2>. QED BY <1>1, <2>2, <2>3, <2>4 DEF ProviderLoaded, ConstructorFollows,
          EngineSettled, ConfigMatchesGraph
<1>. QED BY <1>2, <1>3

(* Sources that compile become the graph; those that do not are invalid. *)
LEMMA CompileKeepsEngineInv ==
  ASSUME EngineInv, HandleUpdatedSources
  PROVE  EngineInv'
<1>. USE VersionAssumption DEF EngineInv
<1>1. /\ UNCHANGED <<pushed, latest, provider>> /\ engine' = Compiled(engine)
      /\ reload' = [reload EXCEPT !.step = "resume"]
  BY DEF HandleUpdatedSources
<1>2. /\ pushed[provider.current] \in {"good", "invalid"} /\ provider.current \in 1..MaxVersion
      /\ reload'.version = reload.version /\ reload'.step = "resume"
  BY <1>1 DEF EngineTypes, ProviderLoaded
<1>3. CASE pushed[provider.current] = "good"
  <2>1. engine' = [engine EXCEPT !.graph = provider.current, !.config = provider.current]
    BY <1>1, <1>3 DEF Compiled
  <2>2. EngineTypes'
    <3>1. provider.current \in Nat /\ reload.version \in Nat
      BY DEF EngineTypes
    <3>. QED BY <1>1, <2>1, <3>1 DEF EngineTypes
  <2>3. /\ engine'.graph = provider.current /\ engine'.config = provider.current
        /\ engine'.step = engine.step /\ engine'.compiling = engine.compiling
    BY <2>1 DEF EngineTypes
  <2>. QED BY <1>1, <1>2, <2>2, <2>3 DEF ProviderLoaded, ConstructorFollows,
          EngineSettled, ConfigMatchesGraph
<1>4. CASE pushed[provider.current] = "invalid"
  <2>1. engine' = engine
    BY <1>1, <1>4 DEF Compiled
  <2>2. EngineTypes'
    BY <1>1, <2>1 DEF EngineTypes
  <2>. QED BY <1>1, <1>2, <1>4, <2>1, <2>2 DEF ProviderLoaded, ConstructorFollows,
          EngineSettled, ConfigMatchesGraph
<1>. QED BY <1>2, <1>3, <1>4

(* The engine comes up with the sources it has read, or not at all. *)
LEMMA ConstructorKeepsEngineInv ==
  ASSUME EngineInv, ReadSources \/ Construct \/ ConstructFails
  PROVE  EngineInv'
<1>. USE VersionAssumption DEF EngineInv
<1>1. UNCHANGED <<pushed, latest, reload>>
  BY DEF ReadSources, Construct, ConstructFails
<1>2. CASE ReadSources
  <2>1. /\ engine' = [engine EXCEPT !.step = "compile", !.compiling = provider.current]
        /\ provider' = provider /\ engine.step = "new"
    BY <1>2 DEF ReadSources
  <2>2. /\ engine'.step = "compile" /\ engine'.compiling = provider.current
        /\ engine'.graph = engine.graph /\ engine'.config = engine.config
    BY <2>1 DEF EngineTypes
  <2>3. EngineTypes'
    <3>1. provider.current \in Nat /\ reload.version \in Nat
      BY DEF EngineTypes
    <3>. QED BY <1>1, <2>1, <3>1 DEF EngineTypes
  <2>. QED BY <1>1, <2>1, <2>2, <2>3 DEF ProviderLoaded, ConstructorFollows,
          EngineSettled, ConfigMatchesGraph
<1>3. CASE Construct
  <2>1. /\ engine.step = "compile" /\ provider' = [provider EXCEPT !.watched = TRUE]
        /\ engine' = [step |-> "ready", compiling |-> 0, graph |-> engine.compiling, config |-> engine.compiling]
    BY <1>3 DEF Construct
  <2>2. /\ provider'.watched = TRUE /\ provider'.current = provider.current
        /\ provider'.missed = provider.missed
    BY <2>1 DEF EngineTypes
  <2>3. EngineTypes'
    BY <1>1, <2>1 DEF EngineTypes
  <2>. QED BY <1>1, <2>1, <2>2, <2>3 DEF ProviderLoaded, ConstructorFollows,
          EngineSettled, ConfigMatchesGraph
<1>4. CASE ConstructFails
  <2>1. engine' = [engine EXCEPT !.step = "failed"] /\ provider' = provider /\ engine.step = "compile"
    BY <1>4 DEF ConstructFails
  <2>2. engine'.step = "failed" /\ engine'.graph = engine.graph /\ engine'.config = engine.config
    BY <2>1 DEF EngineTypes
  <2>3. EngineTypes'
    BY <1>1, <2>1 DEF EngineTypes
  <2>. QED BY <1>1, <2>1, <2>2, <2>3 DEF ProviderLoaded, ConstructorFollows,
          EngineSettled, ConfigMatchesGraph
<1>. QED BY <1>2, <1>3, <1>4

(* Every step of the engine, its sources and its watcher keeps EngineInv,  *)
(* and so does a step of another subject.                                  *)
LEMMA EngineNextKeepsInv == EngineInv /\ [EngineNext]_engineVars => EngineInv'
<1>. SUFFICES ASSUME EngineInv, [EngineNext]_engineVars PROVE EngineInv'
  OBVIOUS
<1>1. CASE \E kind \in {"good", "invalid", "gone"} : ValidateAndPush(kind)
  BY <1>1, PushKeepsEngineInv
<1>2. CASE HandleEvent \/ Pause \/ Resume
  BY <1>2, WatcherKeepsEngineInv
<1>3. CASE Load
  BY <1>3, LoadKeepsEngineInv
<1>4. CASE HandleUpdatedSources
  BY <1>4, CompileKeepsEngineInv
<1>5. CASE ReadSources \/ Construct \/ ConstructFails
  BY <1>5, ConstructorKeepsEngineInv
<1>6. CASE UNCHANGED engineVars
  BY <1>6 DEF engineVars, EngineInv, EngineTypes, ProviderLoaded, ConstructorFollows,
          EngineSettled, ConfigMatchesGraph
<1>. QED BY <1>1, <1>2, <1>3, <1>4, <1>5, <1>6 DEF EngineNext, EngineStep

(* The inductive invariant says at least what the property says. *)
LEMMA EngineInvGives == EngineInv => EngineConsistent
BY DEF EngineInv, EngineSettled, EngineConsistent, GraphFollowsSources, Newest

(* However pushes, reloads and the constructor interleave, a worker that   *)
(* has caught up runs the newest rules that it can compile and did not get *)
(* before it watched, and its config is that of its rules                  *)
(* (OspreyEngine.__init__, _handle_updated_sources).                       *)
THEOREM EngineIsConsistent == EngineSpec => []EngineConsistent
<1>1. EngineSpec => []EngineInv
  BY EngineInitInv, EngineNextKeepsInv, PTL DEF EngineSpec
<1>. QED BY <1>1, EngineInvGives, PTL

-----------------------------------------------------------------------------
USE DEF Jobs

(* What the tables of the output sinks say. *)
LEMMA SinkTables ==
  /\ Len(OutputSinks) = 2 /\ OutputSinks[1] = "store" /\ OutputSinks[2] = "labels"
  /\ MaxRetries["labels"] = 0 /\ MaxRetries["store"] = 2
  /\ Allowed["labels"] = 1 /\ Allowed["store"] = 3
  /\ \A m : WillDoWork(m, "store")
BY DEF OutputSinks, MaxRetries, Allowed, WillDoWork

(* Nothing is acknowledged and nothing was tried. *)
LEMMA SinkInitInv == SinkInit => SinkInv
<1>. SUFFICES ASSUME SinkInit PROVE SinkInv
  OBVIOUS
<1>1. NoJob \in Jobs /\ NoJob.step = "idle"
  BY DEF NoJob
<1>2. [s \in SinkNames |-> Untried] \in [SinkNames -> [how : Hows, attempts : Nat]] /\ Untried.how = "untried"
  BY DEF Untried, Hows
<1>3. /\ fate = [m \in Messages |-> [s \in SinkNames |-> Untried]]
      /\ labelled = [m \in Messages |-> {}] /\ job = [g \in Greenlets |-> NoJob]
      /\ broker = [m \in Messages |-> "ready"]
  BY DEF SinkInit, SinkNames
<1>4. SinkTypes
  <2>1. setup \in [source : {"pubsub", "kafka"}, store : {"bigtable", "gcs", "minio", "postgres"}]
    BY SinkAssumption DEF SinkInit
  <2>2. broker \in [Messages -> {"ready", "leased", "acked"}] /\ received \in Seq(Messages)
    BY <1>3 DEF SinkInit
  <2>3. offset \in [position : Nat \ {0}, committed : Nat \ {0}]
    BY DEF SinkInit
  <2>4. job \in [Greenlets -> Jobs]
    BY <1>1, <1>3
  <2>5. fate \in [Messages -> [SinkNames -> [how : Hows, attempts : Nat]]]
    BY <1>2, <1>3
  <2>6. /\ labelled \in [Messages -> SUBSET UNION {LabelledEntities(m) : m \in Messages}]
        /\ \A m \in Messages : labelled[m] \subseteq LabelledEntities(m)
    BY <1>3
  <2>. QED BY <2>1, <2>2, <2>3, <2>4, <2>5, <2>6 DEF SinkTypes
<1>5. ASSUME NEW m \in Messages PROVE FateSound(m)
  <2>1. \A s \in SinkNames : fate[m][s] = Untried
    BY <1>3
  <2>. QED BY <2>1, <1>2, <1>3 DEF FateSound, SinkNames
<1>6. ASSUME NEW g \in Greenlets PROVE JobInv(g)
  BY <1>1, <1>3 DEF JobInv
<1>7. AckedTried
  BY <1>3 DEF AckedTried
<1>. QED BY <1>4, <1>5, <1>6, <1>7 DEF SinkInv

(* A rules sink that does not move keeps its invariant as long as what was *)
(* tried stays tried.                                                      *)
LEMMA JobKept ==
  ASSUME NEW g \in Greenlets, JobInv(g), job'[g] = job[g],
         \A m \in Messages, s \in SinkNames : Tried(m, s) => Tried(m, s)'
  PROVE  JobInv(g)'
<1>1. "store" \in SinkNames
  BY DEF SinkNames
<1>. QED BY <1>1 DEF JobInv

(* A step that pushes nothing: the messages keep what is known of them. *)
LEMMA QuietKeepsSinkInv ==
  ASSUME SinkInv, UNCHANGED <<setup, labelled, held, fate>>, SinkTypes',
         \A g \in Greenlets : job'[g] = job[g] \/ JobInv(g)',
         \A m \in Messages : broker'[m] = "acked" /\ KindOf[m] = "ok" =>
            broker[m] = "acked" \/ \A s \in SinkNames : Tried(m, s)
  PROVE  SinkInv'
<1>1. \A m, s : Tried(m, s) <=> Tried(m, s)'
  BY DEF Tried, WillDoWork
<1>2. ASSUME NEW g \in Greenlets PROVE JobInv(g)'
  BY <1>1, JobKept DEF SinkInv
<1>3. \A m \in Messages : FateSound(m)'
  BY DEF SinkInv, FateSound
<1>4. AckedTried'
  BY <1>1 DEF SinkInv, AckedTried
<1>. QED BY <1>2, <1>3, <1>4 DEF SinkInv

(* The broker, the subscriber and the commit of an offset. *)
LEMMA BrokerKeepsSinkInv ==
  ASSUME SinkInv, AutoCommit \/ \E m \in Messages : Deliver(m) \/ EndLease(m)
  PROVE  SinkInv'
<1>. USE DEF SinkInv
<1>1. UNCHANGED <<setup, labelled, held, fate, job>>
  BY DEF AutoCommit, Deliver, EndLease
<1>2. /\ broker' \in [Messages -> {"ready", "leased", "acked"}] /\ received' \in Seq(Messages)
      /\ offset' \in [position : Nat \ {0}, committed : Nat \ {0}]
      /\ \A m \in Messages : broker'[m] = "acked" => broker[m] = "acked"
  <2>0. /\ broker \in [Messages -> {"ready", "leased", "acked"}] /\ received \in Seq(Messages)
        /\ offset \in [position : Nat \ {0}, committed : Nat \ {0}]
    BY DEF SinkTypes
  <2>1. CASE AutoCommit
    BY <2>0, <2>1 DEF AutoCommit
  <2>2. ASSUME NEW m \in Messages, Deliver(m) PROVE <1>2
    BY <2>0, <2>2 DEF Deliver
  <2>3. ASSUME NEW m \in Messages, EndLease(m) PROVE <1>2
    BY <2>0, <2>3 DEF EndLease
  <2>. QED BY <2>1, <2>2, <2>3
<1>3. SinkTypes'
  BY <1>1, <1>2 DEF SinkTypes, LabelledEntities
<1>. QED BY <1>1, <1>2, <1>3, QuietKeepsSinkInv

(* A crash makes every rules sink idle. *)
LEMMA CrashKeepsSinkInv ==
  ASSUME SinkInv, Crash
  PROVE  SinkInv'
<1>. USE DEF SinkInv
<1>1. /\ UNCHANGED <<setup, labelled, held, fate, broker>> /\ received' = <<>>
      /\ job' = [g \in Greenlets |-> NoJob] /\ offset' = [offset EXCEPT !.position = offset.committed]
  BY DEF Crash
<1>2. NoJob \in Jobs /\ NoJob.step = "idle"
  BY DEF NoJob
<1>3. offset' \in [position : Nat \ {0}, committed : Nat \ {0}] /\ received' \in Seq(Messages)
  <2>1. <<>> \in Seq(Messages)
    OBVIOUS
  <2>. QED BY <1>1, <2>1 DEF SinkTypes
<1>4. job' \in [Greenlets -> Jobs]
  BY <1>1, <1>2
<1>5. SinkTypes'
  BY <1>1, <1>3, <1>4 DEF SinkTypes, LabelledEntities
<1>6. \A g \in Greenlets : JobInv(g)'
  BY <1>1, <1>2 DEF JobInv
<1>. QED BY <1>1, <1>5, <1>6, QuietKeepsSinkInv

(* A rules sink takes the next message that decodes. *)
LEMMA NextKeepsSinkInv ==
  ASSUME SinkInv, NEW g \in Greenlets, NextFromPubSub(g) \/ NextFromKafka(g)
  PROVE  SinkInv'
<1>. USE DEF SinkInv
<1>1. UNCHANGED <<setup, labelled, held, fate, broker>>
  BY DEF NextFromPubSub, NextFromKafka
<1>2. PICK m \in Messages : job' = IF Decodes(m) THEN [job EXCEPT ![g] = [NoJob EXCEPT !.msg = m, !.step = "enter"]] ELSE job
  <2>1. CASE NextFromPubSub(g)
    <3>1. Head(received) \in Messages
      BY <2>1 DEF NextFromPubSub, SinkTypes
    <3>. QED BY <2>1, <3>1 DEF NextFromPubSub
  <2>2. CASE NextFromKafka(g)
    <3>1. offset.position \in Messages
      BY <2>2, SinkAssumption DEF NextFromKafka, SinkTypes, Messages
    <3>. QED BY <2>2, <3>1 DEF NextFromKafka
  <2>. QED BY <2>1, <2>2
<1>3. received' \in Seq(Messages) /\ offset' \in [position : Nat \ {0}, committed : Nat \ {0}]
  <2>1. CASE NextFromPubSub(g)
    <3>1. received' = Tail(received) /\ received # <<>> /\ offset' = offset
      BY <2>1 DEF NextFromPubSub
    <3>. QED BY <3>1 DEF SinkTypes
  <2>2. CASE NextFromKafka(g)
    <3>1. offset' = [offset EXCEPT !.position = offset.position + 1] /\ received' = received
      BY <2>2 DEF NextFromKafka
    <3>. QED BY <3>1 DEF SinkTypes
  <2>. QED BY <2>1, <2>2
<1>. DEFINE new == [NoJob EXCEPT !.msg = m, !.step = "enter"]
<1>4. /\ new \in Jobs
      /\ new.msg = m /\ new.step = "enter" /\ new.sink = 1 /\ new.attempt = 1
  <2>1. m \in Nat /\ 1 \in 1..2
    BY SinkAssumption DEF Messages
  <2>. QED BY <2>1 DEF NoJob
<1>5. /\ job' \in [Greenlets -> Jobs]
      /\ \A h \in Greenlets : job'[h] = job[h] \/ job'[h] = new
  <2>. HIDE DEF new
  <2>. QED BY <1>2, <1>4 DEF new, SinkTypes
<1>6. SinkTypes'
  BY <1>1, <1>3, <1>5 DEF SinkTypes, LabelledEntities
<1>. HIDE DEF new
<1>7. ASSUME NEW h \in Greenlets PROVE job'[h] = job[h] \/ JobInv(h)'
  BY <1>4, <1>5 DEF JobInv
<1>. QED BY <1>1, <1>6, <1>7, QuietKeepsSinkInv

(* A rules sink moves on with its message. *)
LEMMA MoveKeepsSinkInv ==
  ASSUME SinkInv, NEW g \in Greenlets, NEW j, job' = [job EXCEPT ![g] = j],
         j \in Jobs,
         UNCHANGED <<setup, labelled, held, fate, offset, received>>, JobInv(g)',
         broker' \in [Messages -> {"ready", "leased", "acked"}],
         \A m \in Messages : broker'[m] = "acked" /\ KindOf[m] = "ok" =>
            broker[m] = "acked" \/ \A s \in SinkNames : Tried(m, s)
  PROVE  SinkInv'
<1>1. /\ job' \in [Greenlets -> Jobs]
      /\ \A h \in Greenlets \ {g} : job'[h] = job[h]
  BY DEF SinkInv, SinkTypes
<1>2. SinkTypes'
  BY <1>1 DEF SinkInv, SinkTypes, LabelledEntities
<1>. QED BY <1>1, <1>2, QuietKeepsSinkInv

(* A message that is executed is pushed, others are passed over. *)
LEMMA ClassifyKeepsSinkInv ==
  ASSUME SinkInv, NEW g \in Greenlets, Classify(g)
  PROVE  SinkInv'
<1>. DEFINE step == IF KindOf[job[g].msg] = "ok" THEN "push" ELSE "exit"
            j == [job[g] EXCEPT !.step = step]
<1>1. /\ job' = [job EXCEPT ![g] = j] /\ job[g].step = "enter"
      /\ UNCHANGED <<setup, labelled, held, fate, offset, received, broker>>
  BY DEF Classify
<1>2. /\ job[g] \in Jobs
      /\ job[g].msg \in Messages /\ job[g].sink = 1 /\ job[g].attempt = 1
  BY <1>1 DEF SinkInv, SinkTypes, JobInv
<1>3. /\ j \in Jobs
      /\ j.msg = job[g].msg /\ j.step = step /\ j.sink = 1 /\ j.attempt = 1
  BY <1>2
<1>. HIDE DEF j
<1>4. job'[g] = j
  BY <1>1 DEF SinkInv, SinkTypes
<1>5. JobInv(g)'
  BY <1>2, <1>3, <1>4, SinkTables DEF JobInv
<1>6. broker' \in [Messages -> {"ready", "leased", "acked"}]
  BY <1>1 DEF SinkInv, SinkTypes
<1>. QED BY <1>1, <1>3, <1>5, <1>6, MoveKeepsSinkInv

(* The job behind an output sink that was tried or has no work. *)
LEMMA NextSinkSound ==
  ASSUME SinkInv, NEW g \in Greenlets, job[g].step = "push",
         job' = [job EXCEPT ![g] = NextSink(job[g])],
         NEW m \in Messages, m = job[g].msg, NEW s, s = OutputSinks[job[g].sink],
         Tried(m, "store") => Tried(m, "store")', Tried(m, s)'
  PROVE  /\ NextSink(job[g]) \in Jobs
         /\ JobInv(g)'
<1>1. /\ job[g] \in Jobs
      /\ job[g].sink = 2 => Tried(m, "store")
  BY DEF SinkInv, SinkTypes, JobInv
<1>2. KindOf[m] = "ok" /\ SinkNames = {"labels", "store"} /\ job'[g] = NextSink(job[g])
  BY DEF SinkInv, SinkTypes, JobInv, SinkNames
<1>3. CASE job[g].sink = 2
  <2>1. NextSink(job[g]) = [job[g] EXCEPT !.step = "exit"]
    BY <1>3, SinkTables DEF NextSink
  <2>2. Tried(m, "labels")' /\ Tried(m, "store")'
    BY <1>1, <1>2, <1>3, SinkTables
  <2>3. job'[g].msg = m /\ job'[g].step = "exit"
    BY <1>1, <1>2, <2>1
  <2>. QED BY <1>1, <1>2, <2>1, <2>2, <2>3 DEF JobInv
<1>4. CASE job[g].sink = 1
  <2>1. NextSink(job[g]) = [job[g] EXCEPT !.sink = 2, !.attempt = 1]
    BY <1>4, SinkTables DEF NextSink
  <2>2. Tried(m, "store")'
    BY <1>4, SinkTables
  <2>3. job'[g].msg = m /\ job'[g].step = "push" /\ job'[g].sink = 2 /\ job'[g].attempt = 1
    BY <1>1, <1>2, <2>1
  <2>4. 1 \in 1..Allowed[OutputSinks[2]]
    BY SinkTables
  <2>5. NextSink(job[g]) \in Jobs
    <3>1. 2 \in 1..2 /\ 1 \in Nat
      OBVIOUS
    <3>. QED BY <1>1, <2>1, <3>1
  <2>. QED BY <1>1, <1>2, <2>2, <2>3, <2>4, <2>5 DEF JobInv
<1>. QED BY <1>1, <1>3, <1>4

(* A sink without work is passed over. *)
LEMMA SkipKeepsSinkInv ==
  ASSUME SinkInv, NEW g \in Greenlets, SkipSink(g)
  PROVE  SinkInv'
<1>1. /\ job[g].step = "push" /\ ~WillDoWork(job[g].msg, OutputSinks[job[g].sink])
      /\ job' = [job EXCEPT ![g] = NextSink(job[g])]
      /\ UNCHANGED <<setup, labelled, held, fate, offset, received, broker>>
  BY DEF SkipSink
<1>2. PICK m, s : m \in Messages /\ m = job[g].msg /\ s = OutputSinks[job[g].sink]
  BY <1>1 DEF SinkInv, JobInv
<1>3. Tried(m, s)' /\ (Tried(m, "store") => Tried(m, "store")')
  BY <1>1, <1>2 DEF Tried, WillDoWork
<1>4. /\ NextSink(job[g]) \in Jobs
      /\ JobInv(g)'
  BY <1>1, <1>2, <1>3, NextSinkSound
<1>5. broker' \in [Messages -> {"ready", "leased", "acked"}]
  BY <1>1 DEF SinkInv, SinkTypes
<1>. QED BY <1>1, <1>4, <1>5, MoveKeepsSinkInv

(* A message is acknowledged, or not, when its rules sink is done with it. *)
LEMMA ExitKeepsSinkInv ==
  ASSUME SinkInv, NEW g \in Greenlets, Exit(g)
  PROVE  SinkInv'
<1>. DEFINE m == job[g].msg
<1>1. /\ job' = [job EXCEPT ![g] = NoJob] /\ job[g].step = "exit"
      /\ UNCHANGED <<setup, labelled, held, fate, offset, received>>
      /\ broker' = broker \/ broker' = [broker EXCEPT ![m] = "acked"]
  BY DEF Exit
<1>2. NoJob \in Jobs /\ NoJob.step = "idle"
  BY DEF NoJob
<1>3. JobInv(g)'
  BY <1>1, <1>2 DEF SinkInv, SinkTypes, JobInv
<1>4. m \in Messages /\ (KindOf[m] = "ok" => \A s \in SinkNames : Tried(m, s))
  BY <1>1 DEF SinkInv, JobInv
<1>5. /\ broker' \in [Messages -> {"ready", "leased", "acked"}]
      /\ \A k \in Messages : broker'[k] = "acked" /\ KindOf[k] = "ok" =>
            broker[k] = "acked" \/ \A s \in SinkNames : Tried(k, s)
  <2>1. CASE broker' = broker
    BY <2>1 DEF SinkInv, SinkTypes
  <2>2. CASE broker' = [broker EXCEPT ![m] = "acked"]
    <3>1. broker \in [Messages -> {"ready", "leased", "acked"}]
      BY DEF SinkInv, SinkTypes
    <3>. HIDE DEF m
    <3>. QED BY <1>4, <2>2, <3>1
  <2>. QED BY <1>1, <2>1, <2>2
<1>. QED BY <1>1, <1>2, <1>3, <1>5, MoveKeepsSinkInv

(* An attempt at an output sink ends: the sink is tried again, or its fate *)
(* is written down and the next one has its turn.                          *)
LEMMA PushKeepsSinkInv ==
  ASSUME SinkInv, NEW g \in Greenlets, job[g].step = "push",
         NEW m \in Messages, m = job[g].msg,
         NEW s \in SinkNames, s = OutputSinks[job[g].sink],
         NEW raises \in {"nothing", "error", "timeout"}, Ended(g, m, s, raises),
         UNCHANGED <<setup, broker, offset, received>>,
         labelled' \in [Messages -> SUBSET UNION {LabelledEntities(k) : k \in Messages}],
         \A k \in Messages : labelled[k] \subseteq labelled'[k] /\ labelled'[k] \subseteq LabelledEntities(k),
         \A k \in Messages : labelled'[k] = labelled[k] \/ (k = m /\ s = "labels"),
         raises = "nothing" /\ s = "labels" => labelled'[m] = LabelledEntities(m)
  PROVE  SinkInv'
<1>. USE DEF SinkInv
<1>1. /\ job[g] \in Jobs
      /\ job \in [Greenlets -> Jobs]
      /\ fate \in [Messages -> [SinkNames -> [how : Hows, attempts : Nat]]]
      /\ KindOf[m] = "ok" /\ job[g].attempt \in 1..Allowed[s] /\ Allowed[s] = MaxRetries[s] + 1
      /\ MaxRetries[s] \in Nat
  BY SinkTables DEF SinkTypes, JobInv, SinkNames
<1>. DEFINE end == [how |-> raises, attempts |-> job[g].attempt]
<1>2. \/ /\ raises = "error" /\ job[g].attempt <= MaxRetries[s]
         /\ job' = [job EXCEPT ![g] = [job[g] EXCEPT !.attempt = @ + 1]] /\ fate' = fate
      \/ /\ ~(raises = "error" /\ job[g].attempt <= MaxRetries[s])
         /\ job' = [job EXCEPT ![g] = NextSink(job[g])] /\ fate' = [fate EXCEPT ![m][s] = end]
  BY DEF Ended, AfterAttempt
<1>3. /\ fate' \in [Messages -> [SinkNames -> [how : Hows, attempts : Nat]]]
      /\ \A k \in Messages, t \in SinkNames :
           fate'[k][t] = fate[k][t] \/ (k = m /\ t = s /\ fate'[k][t] = end)
  <2>1. end \in [how : Hows, attempts : Nat]
    BY <1>1 DEF Hows
  <2>. HIDE DEF end
  <2>2. CASE fate' = fate
    BY <1>1, <2>2
  <2>3. CASE fate' = [fate EXCEPT ![m][s] = end]
    <3>1. fate' = [fate EXCEPT ![m] = [fate[m] EXCEPT ![s] = end]]
      BY <2>3
    <3>2. fate[m] \in [SinkNames -> [how : Hows, attempts : Nat]]
      BY <1>1
    <3>. DEFINE after == [fate[m] EXCEPT ![s] = end]
    <3>3. /\ after \in [SinkNames -> [how : Hows, attempts : Nat]]
          /\ \A t \in SinkNames : after[t] = fate[m][t] \/ (t = s /\ after[t] = end)
      BY <2>1, <3>2
    <3>. HIDE DEF after
    <3>. QED BY <1>1, <3>1, <3>3 DEF after
  <2>. QED BY <1>2, <2>2, <2>3
<1>4. end.how = raises /\ end.attempts = job[g].attempt
  OBVIOUS
<1>5. ASSUME raises = "error", fate' # fate PROVE job[g].attempt = Allowed[s]
  <2>1. ~(job[g].attempt <= MaxRetries[s])
    BY <1>2, <1>5
  <2>2. \A a \in Nat, r \in Nat : a <= r + 1 /\ ~(a <= r) => a = r + 1
    OBVIOUS
  <2>3. job[g].attempt \in Nat /\ job[g].attempt <= MaxRetries[s] + 1
    BY <1>1
  <2>. QED BY <1>1, <2>1, <2>2, <2>3
<1>. HIDE DEF end
<1>6. \A k \in Messages, t \in SinkNames : Tried(k, t) => Tried(k, t)'
  BY <1>3, <1>4 DEF Tried, WillDoWork, LabelledEntities
<1>7. ASSUME NEW k \in Messages PROVE FateSound(k)'
  <2>1. ASSUME NEW t \in SinkNames, fate'[k][t].how = "error" PROVE fate'[k][t].attempts = Allowed[t]
    <3>1. CASE fate'[k][t] = fate[k][t]
      BY <2>1, <3>1 DEF FateSound
    <3>2. CASE fate'[k][t] # fate[k][t]
      BY <1>3, <1>4, <1>5, <2>1, <3>2
    <3>. QED BY <3>1, <3>2
  <2>2. ASSUME fate'[k]["labels"].how = "nothing" PROVE labelled'[k] = LabelledEntities(k)
    <3>1. CASE fate'[k]["labels"] = fate[k]["labels"]
      BY <2>2, <3>1 DEF FateSound
    <3>2. CASE fate'[k]["labels"] # fate[k]["labels"]
      BY <1>3, <1>4, <2>2, <3>2 DEF SinkNames
    <3>. QED BY <3>1, <3>2
  <2>3. ASSUME labelled'[k] # {} PROVE fate'[k]["store"].how # "untried"
    <3>1. fate[k]["store"].how # "untried" => fate'[k]["store"].how # "untried"
      BY <1>3, <1>4 DEF SinkNames
    <3>2. CASE labelled'[k] = labelled[k]
      BY <2>3, <3>1, <3>2 DEF FateSound
    <3>3. CASE k = m /\ s = "labels"
      <4>0. job[g].sink \in 1..2 /\ OutputSinks[job[g].sink] = "labels"
        BY <1>1, <3>3
      <4>2. job[g].sink = 2
        BY <4>0, SinkTables
      <4>1. Tried(m, "store")
        BY <4>2 DEF JobInv
      <4>. QED BY <3>1, <3>3, <4>1, SinkTables DEF Tried
    <3>. QED BY <3>2, <3>3
  <2>. QED BY <2>1, <2>2, <2>3 DEF FateSound, LabelledEntities
<1>8. /\ job' \in [Greenlets -> Jobs]
      /\ JobInv(g)' /\ \A h \in Greenlets \ {g} : job'[h] = job[h]
  <2>1. CASE raises = "error" /\ job[g].attempt <= MaxRetries[s]
    <3>. DEFINE j == [job[g] EXCEPT !.attempt = @ + 1]
    <3>1. job' = [job EXCEPT ![g] = j]
      BY <1>2, <2>1
    <3>2. /\ j \in Jobs
          /\ j.msg = m /\ j.step = "push" /\ j.sink = job[g].sink /\ j.attempt \in 1..Allowed[s]
      BY <1>1, <2>1
    <3>. HIDE DEF j
    <3>3. job'[g] = j /\ (job[g].sink = 2 => Tried(m, "store")')
      BY <1>1, <1>6, <3>1 DEF JobInv, SinkNames
    <3>4. JobInv(g)'
      BY <1>1, <3>2, <3>3 DEF JobInv
    <3>. QED BY <1>1, <3>1, <3>2, <3>4
  <2>2. CASE ~(raises = "error" /\ job[g].attempt <= MaxRetries[s])
    <3>1. job' = [job EXCEPT ![g] = NextSink(job[g])] /\ fate'[m][s] = end
      BY <1>1, <1>2, <2>2
    <3>2. Tried(m, s)' /\ (Tried(m, "store") => Tried(m, "store")')
      BY <1>4, <1>6, <3>1 DEF Tried, SinkNames
    <3>3. /\ NextSink(job[g]) \in Jobs
          /\ JobInv(g)'
      BY <3>1, <3>2, NextSinkSound
    <3>. QED BY <1>1, <3>1, <3>3
  <2>. QED BY <2>1, <2>2
<1>9. \A h \in Greenlets : JobInv(h)'
  BY <1>6, <1>8, JobKept
<1>10. SinkTypes'
  BY <1>3, <1>8 DEF SinkTypes, LabelledEntities
<1>11. AckedTried'
  BY <1>6 DEF AckedTried
<1>. QED BY <1>7, <1>9, <1>10, <1>11

(* The labels service is called for some of the entities, or for all. *)
LEMMA LabelsKeepSinkInv ==
  ASSUME SinkInv, NEW g \in Greenlets, PushLabels(g)
  PROVE  SinkInv'
<1>1. PICK m \in Messages : m = job[g].msg
  BY DEF PushLabels, SinkInv, JobInv
<1>2. PICK work \in SUBSET LabelledEntities(m), raises \in {"nothing", "error", "timeout"} :
        /\ raises = "nothing" => work = LabelledEntities(m)
        /\ labelled' = [labelled EXCEPT ![m] = @ \cup work]
        /\ Ended(g, m, "labels", raises)
  BY <1>1 DEF PushLabels
<1>3. /\ job[g].step = "push" /\ OutputSinks[job[g].sink] = "labels"
      /\ UNCHANGED <<setup, broker, offset, received, held>>
  BY DEF PushLabels
<1>4. /\ labelled \in [Messages -> SUBSET UNION {LabelledEntities(k) : k \in Messages}]
      /\ \A k \in Messages : labelled[k] \subseteq LabelledEntities(k)
  BY DEF SinkInv, SinkTypes
<1>5. /\ labelled' \in [Messages -> SUBSET UNION {LabelledEntities(k) : k \in Messages}]
      /\ \A k \in Messages : labelled[k] \subseteq labelled'[k] /\ labelled'[k] \subseteq LabelledEntities(k)
      /\ \A k \in Messages : labelled'[k] = labelled[k] \/ k = m
      /\ raises = "nothing" => labelled'[m] = LabelledEntities(m)
  BY <1>2, <1>4
<1>. QED BY <1>1, <1>2, <1>3, <1>5, PushKeepsSinkInv DEF SinkNames

(* The result is put into the store, which may or may not take it. *)
LEMMA ResultKeepsSinkInv ==
  ASSUME SinkInv, NEW g \in Greenlets, PushResult(g)
  PROVE  SinkInv'
<1>1. PICK m \in Messages : m = job[g].msg
  BY DEF PushResult, SinkInv, JobInv
<1>2. PICK i \in Insert(setup.store, m \in held) :
        held' = (IF i.held THEN held \cup {m} ELSE held) /\ Ended(g, m, "store", i.raises)
  BY <1>1 DEF PushResult
<1>3. /\ job[g].step = "push" /\ OutputSinks[job[g].sink] = "store"
      /\ UNCHANGED <<setup, broker, offset, received, labelled>>
  BY DEF PushResult
<1>4. /\ labelled \in [Messages -> SUBSET UNION {LabelledEntities(k) : k \in Messages}]
      /\ \A k \in Messages : labelled[k] \subseteq LabelledEntities(k)
      /\ setup.store \in {"bigtable", "gcs", "minio", "postgres"}
  BY DEF SinkInv, SinkTypes
<1>5. i.raises \in {"nothing", "error", "timeout"}
  BY <1>4 DEF Insert, BigTableInsert, GcsInsert, MinioInsert, PostgresInsert, Insertions
<1>. QED BY <1>1, <1>2, <1>3, <1>4, <1>5, PushKeepsSinkInv DEF SinkNames

(* Every step of the sink, its greenlets and its broker keeps SinkInv, and *)
(* so does a step of another subject.                                      *)
LEMMA SinkNextKeepsInv == SinkInv /\ [SinkNext]_sinkVars => SinkInv'
<1>. SUFFICES ASSUME SinkInv, [SinkNext]_sinkVars PROVE SinkInv'
  OBVIOUS
<1>1. CASE AutoCommit \/ \E m \in Messages : Deliver(m) \/ EndLease(m)
  BY <1>1, BrokerKeepsSinkInv
<1>2. CASE Crash
  BY <1>2, CrashKeepsSinkInv
<1>3. ASSUME NEW g \in Greenlets, SinkStep(g) PROVE SinkInv'
  <2>1. CASE NextFromPubSub(g) \/ NextFromKafka(g)
    BY <2>1, NextKeepsSinkInv
  <2>2. CASE Classify(g)
    BY <2>2, ClassifyKeepsSinkInv
  <2>3. CASE SkipSink(g)
    BY <2>3, SkipKeepsSinkInv
  <2>4. CASE PushLabels(g)
    BY <2>4, LabelsKeepSinkInv
  <2>5. CASE PushResult(g)
    BY <2>5, ResultKeepsSinkInv
  <2>6. CASE Exit(g)
    BY <2>6, ExitKeepsSinkInv
  <2>. QED BY <1>3, <2>1, <2>2, <2>3, <2>4, <2>5, <2>6 DEF SinkStep
<1>4. CASE UNCHANGED sinkVars
  <2>1. UNCHANGED <<setup, broker, offset, received, job, labelled, held, fate>>
    BY <1>4 DEF sinkVars
  <2>2. SinkTypes'
    BY <2>1 DEF SinkInv, SinkTypes, LabelledEntities
  <2>. QED BY <2>1, <2>2, QuietKeepsSinkInv
<1>. QED BY <1>1, <1>2, <1>3, <1>4 DEF SinkNext

(* What is acked was given up by its greenlet, which had tried all sinks. *)
LEMMA SinkInvGives == SinkInv => AckedAfterPushed
<1>. SUFFICES ASSUME SinkInv, NEW m \in Messages, KindOf[m] = "ok"
              PROVE  FateSound(m) /\ (broker[m] = "acked" => Handled(m))
  BY DEF AckedAfterPushed, FateSound, SinkNames
<1>1. FateSound(m)
  BY DEF SinkInv
<1>2. broker[m] = "acked" => \A s \in SinkNames : Tried(m, s)
  BY DEF SinkInv, AckedTried
<1>. QED BY <1>1, <1>2 DEF Tried, Handled, SinkNames

(* Whatever fails, times out, is delivered twice or is lost in a crash, an *)
(* action is acknowledged only after each output sink with work for it was *)
(* tried as often as it may be, the store before the labels; a push that   *)
(* raised nothing has labelled every entity, though it says nothing of the *)
(* store (RulesSink.run, MultiOutputSink.push).                            *)
THEOREM SinkAcksAfterPushes == SinkSpec => []AckedAfterPushed
<1>1. SinkSpec => []SinkInv
  BY SinkInitInv, SinkNextKeepsInv, PTL DEF SinkSpec
<1>. QED BY <1>1, SinkInvGives, PTL

-----------------------------------------------------------------------------
(* In a worker the engine and the sinks take the steps they take alone. *)
LEMMA WorkerRunsComponents == Spec => EngineSpec /\ SinkSpec
<1>1. Init => EngineInit /\ SinkInit
  BY DEF Init
<1>2. [Next]_vars => [EngineNext]_engineVars
  BY DEF Next, vars, engineVars
<1>3. [Next]_vars => [SinkNext]_sinkVars
  BY DEF Next, vars, sinkVars
<1>. QED BY <1>1, <1>2, <1>3, PTL DEF Spec, EngineSpec, SinkSpec

(* The rules a worker runs, and what it acknowledges, are sound in every   *)
(* behaviour of Progress (OspreyEngine, RulesSink.run).                    *)
THEOREM WorkerIsSafe == Spec => [](EngineConsistent /\ AckedAfterPushed)
BY WorkerRunsComponents, EngineIsConsistent, SinkAcksAfterPushes, PTL
=============================================================================
