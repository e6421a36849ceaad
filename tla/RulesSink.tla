----------------------------- MODULE RulesSink -----------------------------
(***************************************************************************)
(* A pool of rules sinks (sinks/sink/rules_sink.py, base_sink.py) that     *)
(* share one stream of actions, from Pub/Sub or from a Kafka topic         *)
(* (input_stream.py), execute each and push its result to the output       *)
(* sinks, first the store and then the labels (output_sink.py).            *)
(*                                                                         *)
(* An attempt at a sink succeeds, raises an error, which is retried as     *)
(* often as the sink allows, or times out, which is not: gevent's Timeout  *)
(* is not an Exception, the only thing tenacity retries.  Whatever is      *)
(* raised is swallowed, and the message acknowledged.  A message that      *)
(* cannot be decoded is neither acknowledged nor refused: its lease ends.  *)
(***************************************************************************)
EXTENDS ResultStores, Naturals, Sequences, FiniteSets

CONSTANTS
  Setups,        \* a source, "pubsub" or "kafka", and a store
  LastMessage,   \* the messages are 1..LastMessage, for Kafka in this order
  KindOf,        \* KindOf[m]: "ok", "bad" (does not decode), "skip", "sampled", "raises"
  EffectsOf,     \* EffectsOf[m]: the label effects of executing it
  Greenlets,     \* the rules sinks of the pool
  MaxLeases,     \* the subscriber's flow control
  MaxRuns, MaxCrashes

ASSUME SinkAssumption ==
  /\ Setups \subseteq [source : {"pubsub", "kafka"}, store : {"bigtable", "gcs", "minio", "postgres"}]
  /\ LastMessage \in Nat

VARIABLES
  setup,
  broker,    \* broker[m]: "ready", "leased" or "acked" (Pub/Sub)
  offset,    \* the consumer's position and its committed offset (Kafka)
  received,  \* the messages the subscriber has put into the stream's queue
  job,       \* job[g]: what a rules sink is at
  runs,      \* runs[m]: how often a message was executed
  labelled,  \* labelled[m]: the entities its effects were applied to
  held,      \* the messages whose result the store holds
  fate,      \* fate[m][s]: how the last push to a sink that ended has ended
  lost,      \* history: the messages a crash has left behind the committed offset (Kafka)
  crashes

sinkVars == <<setup, broker, offset, received, job, runs, labelled, held, fate, lost, crashes>>

Messages == 1..LastMessage
\* The stored result sink is a plugin's; the label sink is appended behind those.
OutputSinks == <<"store", "labels">>
MaxRetries == [labels |-> 0, store |-> 2]

NoJob == [msg |-> 0, step |-> "idle", sink |-> 1, attempt |-> 1]
Untried == [how |-> "untried", attempts |-> 0]

SinkInit ==
  /\ setup \in Setups
  /\ broker = [m \in Messages |-> "ready"] /\ offset = [position |-> 1, committed |-> 1]
  /\ received = <<>> /\ job = [g \in Greenlets |-> NoJob]
  /\ runs = [m \in Messages |-> 0] /\ labelled = [m \in Messages |-> {}] /\ held = {}
  /\ fate = [m \in Messages |-> [s \in {"labels", "store"} |-> Untried]]
  /\ lost = {} /\ crashes = 0

-----------------------------------------------------------------------------
(* What an execution asks of the output sinks.                             *)

\* synthesize_effect of LabelAdd and LabelRemove: an apply_if that was written but
\* could not be resolved suppresses the effect.
SynthesizeEffect(entity, hasApplyIf, rule) ==
  [entity |-> entity, suppressed |-> hasApplyIf /\ rule = "none", dependent |-> rule]
\* _get_label_effects_from_result: the entities of the effects that take place.
LabelledEntities(m) ==
  {e.entity : e \in {x \in EffectsOf[m] : ~x.suppressed /\ x.dependent # "false"}}
WillDoWork(m, s) == s = "labels" => LabelledEntities(m) # {}
\* Each output sink with work for it has ended a push of its result.
Handled(m) == \A s \in {"labels", "store"} : WillDoWork(m, s) => fate[m][s].how # "untried"

-----------------------------------------------------------------------------
(* The broker and the subscriber.                                          *)

Leased == {m \in Messages : broker[m] = "leased"}
Queued(m) == \E i \in DOMAIN received : received[i] = m
InHand(m) == Queued(m) \/ \E g \in Greenlets : job[g].msg = m

\* stream_callback puts a message that was delivered into the queue.
Deliver(m) ==
  /\ setup.source = "pubsub" /\ broker[m] = "ready" /\ Cardinality(Leased) < MaxLeases
  /\ broker' = [broker EXCEPT ![m] = "leased"] /\ received' = Append(received, m)
  /\ UNCHANGED <<setup, offset, job, runs, labelled, held, fate, lost, crashes>>
\* The lease of a message ends, of one nobody has any more or of one being executed.
EndLease(m) ==
  /\ broker[m] = "leased" /\ ~Queued(m) /\ (InHand(m) => runs[m] < MaxRuns)
  /\ broker' = [broker EXCEPT ![m] = "ready"]
  /\ UNCHANGED <<setup, offset, received, job, runs, labelled, held, fate, lost, crashes>>
\* The Kafka consumer commits its position every now and then.
AutoCommit ==
  /\ setup.source = "kafka" /\ offset.committed # offset.position
  /\ offset' = [offset EXCEPT !.committed = offset.position]
  /\ UNCHANGED <<setup, broker, received, job, runs, labelled, held, fate, lost, crashes>>
\* The process dies and is started again.
Crash ==
  /\ crashes < MaxCrashes /\ crashes' = crashes + 1 /\ \A m \in Messages : runs[m] < MaxRuns
  /\ received' = <<>> /\ job' = [g \in Greenlets |-> NoJob]
  /\ offset' = [offset EXCEPT !.position = offset.committed]
  /\ lost' = IF setup.source = "pubsub" THEN lost ELSE lost \cup {m \in Messages : m < offset.committed /\ ~Handled(m)}
  /\ UNCHANGED <<setup, broker, runs, labelled, held, fate>>

-----------------------------------------------------------------------------
(* A rules sink.                                                           *)

Decodes(m) == KindOf[m] # "bad"

\* The generators go on behind a message they cannot make an action of.
NextFromPubSub(g) ==
  /\ setup.source = "pubsub" /\ job[g].step = "idle" /\ received # <<>>
  /\ received' = Tail(received)
  /\ job' = IF Decodes(Head(received)) THEN [job EXCEPT ![g] = [NoJob EXCEPT !.msg = Head(received), !.step = "enter"]] ELSE job
  /\ UNCHANGED <<setup, broker, offset, runs, labelled, held, fate, lost, crashes>>
\* Faulty variant: the offset moves only behind what decodes.
NextFromKafkaStuck(g) ==
  /\ setup.source = "kafka" /\ job[g].step = "idle" /\ offset.position <= LastMessage
  /\ Decodes(offset.position)
  /\ offset' = [offset EXCEPT !.position = @ + 1]
  /\ job' = [job EXCEPT ![g] = [NoJob EXCEPT !.msg = offset.position, !.step = "enter"]]
  /\ UNCHANGED <<setup, broker, received, runs, labelled, held, fate, lost, crashes>>
NextFromKafka(g) ==
  /\ setup.source = "kafka" /\ job[g].step = "idle" /\ offset.position <= LastMessage
  /\ offset' = [offset EXCEPT !.position = @ + 1]
  /\ job' = IF Decodes(offset.position) THEN [job EXCEPT ![g] = [NoJob EXCEPT !.msg = offset.position, !.step = "enter"]] ELSE job
  /\ UNCHANGED <<setup, broker, received, runs, labelled, held, fate, lost, crashes>>

\* RulesSink.run and classify_one: an action that asks for it, or is sampled, is not
\* executed; an execution that raises has no result to push.
Classify(g) ==
  LET m == job[g].msg
  IN  /\ job[g].step = "enter"
      /\ IF KindOf[m] = "ok"
         THEN /\ runs' = [runs EXCEPT ![m] = @ + 1]
              /\ job' = [job EXCEPT ![g].step = "push"]
         ELSE job' = [job EXCEPT ![g].step = "exit"] /\ UNCHANGED runs
      /\ UNCHANGED <<setup, broker, offset, received, labelled, held, fate, lost, crashes>>

\* The sink after this one, or the end of the message.
NextSink(j) == IF j.sink = Len(OutputSinks) THEN [j EXCEPT !.step = "exit"] ELSE [j EXCEPT !.sink = @ + 1, !.attempt = 1]
\* Faulty variant: what a sink raises ends the push to the sinks behind it.
AfterAttemptRaised(j, raises) ==
  CASE raises = "nothing" -> NextSink(j)
    [] raises = "error" /\ j.attempt <= MaxRetries[OutputSinks[j.sink]] -> [j EXCEPT !.attempt = @ + 1]
    [] OTHER -> [j EXCEPT !.step = "exit"]
\* push_with_retry, and what MultiOutputSink.push catches.
AfterAttempt(j, raises) ==
  IF raises = "error" /\ j.attempt <= MaxRetries[OutputSinks[j.sink]]
  THEN [j EXCEPT !.attempt = @ + 1] ELSE NextSink(j)

Ended(g, m, s, raises) ==
  /\ job' = [job EXCEPT ![g] = AfterAttempt(@, raises)]
  /\ fate' = IF raises = "error" /\ job[g].attempt <= MaxRetries[s] THEN fate
             ELSE [fate EXCEPT ![m][s] = [how |-> raises, attempts |-> job[g].attempt]]

SkipSink(g) ==
  /\ job[g].step = "push" /\ ~WillDoWork(job[g].msg, OutputSinks[job[g].sink])
  /\ job' = [job EXCEPT ![g] = NextSink(@)]
  /\ UNCHANGED <<setup, broker, offset, received, runs, labelled, held, fate, lost, crashes>>
\* LabelOutputSink.push: one call of the labels service for each entity.
PushLabels(g) ==
  LET m == job[g].msg
  IN  /\ job[g].step = "push" /\ OutputSinks[job[g].sink] = "labels" /\ WillDoWork(m, "labels")
      /\ \E done \in SUBSET LabelledEntities(m), raises \in {"nothing", "error", "timeout"} :
           /\ raises = "nothing" => done = LabelledEntities(m)
           /\ labelled' = [labelled EXCEPT ![m] = @ \cup done]
           /\ Ended(g, m, "labels", raises)
      /\ UNCHANGED <<setup, broker, offset, received, runs, held, lost, crashes>>
\* StoredExecutionResultOutputSink.push
PushResult(g) ==
  LET m == job[g].msg
  IN  /\ job[g].step = "push" /\ OutputSinks[job[g].sink] = "store"
      /\ \E i \in Insert(setup.store, m \in held) :
           held' = (IF i.held THEN held \cup {m} ELSE held) /\ Ended(g, m, "store", i.raises)
      /\ UNCHANGED <<setup, broker, offset, received, runs, labelled, lost, crashes>>

\* BaseAckingContext.__exit__ acknowledges, whatever was raised; the acknowledgement
\* may be lost.  Kafka's contexts do nothing.
Exit(g) ==
  LET m == job[g].msg
  IN  /\ job[g].step = "exit"
      /\ job' = [job EXCEPT ![g] = NoJob]
      /\ IF setup.source = "kafka" THEN UNCHANGED broker
         ELSE broker' \in {[broker EXCEPT ![m] = "acked"]} \cup (IF runs[m] < MaxRuns THEN {broker} ELSE {})
      /\ UNCHANGED <<setup, offset, received, runs, labelled, held, fate, lost, crashes>>

SinkStep(g) == NextFromPubSub(g) \/ NextFromKafka(g) \/ Classify(g) \/ SkipSink(g) \/ PushLabels(g) \/ PushResult(g) \/ Exit(g)

SinkNext ==
  \/ \E m \in Messages : Deliver(m) \/ EndLease(m)
  \/ \E g \in Greenlets : SinkStep(g)
  \/ AutoCommit \/ Crash

-----------------------------------------------------------------------------
Allowed == [labels |-> 1, store |-> 3]
AllHandled == \A m \in Messages : KindOf[m] = "ok" => Handled(m) \/ m \in lost

\* An action is acknowledged only after each output sink with work for it has taken
\* its result, has timed out, or has failed as often as it may be tried: no sink is
\* passed over because another fails.  The labels service has what it took, and is
\* asked only after the push to the store has ended (MultiOutputSink.push,
\* RulesSink.run).  Of what the store took nothing is known: its statuses are ignored
\* or its errors swallowed.
AckedAfterPushed ==
  \A m \in Messages : KindOf[m] = "ok" =>
    /\ broker[m] = "acked" => Handled(m)
    /\ \A s \in {"labels", "store"} : fate[m][s].how = "error" => fate[m][s].attempts = Allowed[s]
    /\ fate[m]["labels"].how = "nothing" => labelled[m] = LabelledEntities(m)
    /\ labelled[m] # {} => fate[m]["store"].how # "untried"
=============================================================================
