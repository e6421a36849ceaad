# Osprey: a TLA+ verification project

Osprey is a rules engine for trust-and-safety work. Producers hand it *actions*; a Rust
**coordinator** (`osprey_coordinator/`) queues them and spreads them over Python **workers**
(`osprey_worker/`), which compile rules written in the SML language, execute them for each action,
write labels and execution results, and answer the coordinator. A **console** (`ui_api/`) searches
the results and changes labels, one by one or in bulk. This directory models the path of an action
from its producer to its answer, the language from source text to evaluation, what workers share
through etcd and Postgres, and the console's decisions; it checks them with TLC and proves what it
can with TLAPS.

## 1. Inventory

Paths below `osprey_worker/src/osprey/` unless they end in `.rs` (`osprey_coordinator/src/`).

| Component | State | Operations | Hard behaviour | What makes it correct |
|---|---|---|---|---|
| Priority queue (`priority_queue.rs`) | sync and async channel, a oneshot per action | `send_sync`, `send_async`, `recv`, `close`, `nack_all_async`, `ack_or_nack` | a biased `select!` polls two channels in two steps; closing is two steps | one owner per action; nobody waits on a lost oneshot; sync before async; no lost wake-up |
| Shutdown handler (`shutdown_handler.rs`) | its progress | signal, nack backlog, sleep 15 s, close | races with senders and receivers | backlog nacked, pending `recv()` released |
| Sync RPC (`sync_action_rpc.rs`) | the attempt of a request | try, retry once, cancel | waits with no timeout | every call returns; the answer is its own |
| Pub/Sub handler (`consumer/pubsub.rs`) | the delivery of a message | decode, send, wait with timeout | timeout against a late answer, redelivery | acked only after execution |
| Bidirectional stream (`osprey_bidirectional_stream.rs`) | outstanding action per stream | initial, ack/nack, disconnect, recv, send | answers are matched by order; connections break | the answer reaches the right action; drops only on faults |
| Coordinator input stream (`worker/sinks/sink/osprey_coordinator_input_stream.py`) | outgoing queue, generator position | connect, nack, yield, ack, pause, reconnect, soft stop | a generator shared by greenlets | acks after execution; protocol order; stopping ends |
| Kafka consumer (`consumer/kafka.rs`) | position, committed offset | receive, decode, send, wait, commit, exit | lost commits, restarts, a signal listener recreated in a loop | commits follow acks, nothing skipped |
| Rules sink, other input streams, output sinks (`worker/sinks/`) | jobs of greenlets, leases, offsets | next, classify, push, retry, exit | failing sinks, timeouts, leases that end, crashes | acked only after every sink ended; every action handled |
| Execution result stores (`lib/storage/stored_execution_result.py`) | what each backend holds | insert, select_many | backends swallow errors or pass them on | an error is passed on, or known to be swallowed |
| Rules engine and sources (`lib/osprey_engine.py`, `lib/sources_*.py`) | graph, configuration, paused stream | construct, watch, pause, compile, dispatch, resume | sources change while a graph compiles | graph, configuration and sources agree; the stream resumes |
| Rule executor (`engine/executor/`) | sorter counts, pools, results | enqueue, get_ready, run, batch, done | nodes added while others run, failures of batch members | each node once, after its inputs; root causes reported; it ends |
| Parser and grammar (`engine/ast/`) | syntax trees | transform, extractability | Python constructs outside the language | a tree of the grammar or a refusal; nothing lost; secrets stay secret |
| Validators and types (`engine/ast_validator/`, `engine/language_types/`) | results and messages of validators | run in dependency order, type, narrow, coerce | validators that need others' results; eager evaluation under narrowing | every error reported; accepted programs compile and are typed soundly |
| Standard library (`engine/stdlib/udfs/`) | none | experiments, labels, JSON, strings | shares that do not divide evenly | exact shares that grow in place |
| Query language (`engine/query_language/`) | none | validate, translate to Druid filters | None and missing columns | a filter selects what the query, as the translator reads it, says |
| External service cache (`engine/executor/external_service_utils.py`) | entries with a TTL, waiters | get, batch_get, get_without_cache | expiry and failure under way | one request per fresh entry; every waiter answered |
| Labels (`lib/osprey_shared/labels.py`, `lib/storage/labels.py`, example `labels_service.py`) | states, reasons, history per entity | drop conflicts, merge, expire, read-modify-write | order of mutations, expiry, concurrent writers | strongest status, manual states hold, history complete, no lost write |
| Bulk label tasks (`lib/storage/bulk_label_task.py`, `bulk_label_sink.py`) | task rows, claims, counters | claim, heartbeat, label, finish, retry, roll back | expired claims, reboots | no entity skipped, bounded attempts, settles |
| etcd lock, collections, ring, trees (`lib/etcd/`) | keys, cached values, waiting indices | acquire, release, compare-and-swap, watch, sync | expiry, history that is cleared, late answers | one holder; no lost update; caches converge |
| Discovery and routed client (`lib/discovery/`, `lib/pigeon/`) | instance table, rotation, clients, channels | watch, sync, select, call, chunk, retry | dead and successor watchers, channels closed under a call | every instance in turn; every value sent once |
| UI API (`worker/ui_api/`) | tokens, saved queries, pages of a scan | merge abilities, censor, consume, save, scan, export | concurrent users, deadlines, page cuts | only allowed data and labels; histories and pages complete |
| Streaming pull, Rust etcd and ring, bulk action tasks, browser UI, clients, logging | - | - | - | not modelled (section 8) |

The pieces meet at the queue and the oneshot of every action, at the gRPC stream, at the execution
graph the engine hands to the sinks, at the label store (rules, console and bulk tasks write it) and
at etcd. The hazards, each with its line and the properties aimed at it, are in `PROJECT.json`.

## 2. Modules

| Module | Models |
|---|---|
| `PriorityQueue` | priority queue, shutdown handler; also the abstract specification of the queue in `Coordinator` |
| `Coordinator` | RPC, Pub/Sub handler, stream task, worker input stream, sink greenlets, faults; `PQ == INSTANCE PriorityQueue WITH ...` |
| `KafkaConsumer` | Kafka consumer loop, commits, restarts, exit signal |
| `RulesSink`, `ResultStores` | a pool of rules sinks on Pub/Sub or Kafka, output sinks with retries, leases, crashes; the four result stores |
| `OspreyEngine` | sources in etcd, the provider's watcher, compiling, configuration, pausing and resuming the input stream |
| `ExecutionGraph`, `Executor` | dependency chains and their sorting; the executor's loop with its sorter, async pool and batches |
| `PyAst`, `Grammar` | the transformer from Python syntax, the language's nodes, extraction |
| `TypeSystem`, `StaticTypes`, `Evaluation` | types, compatibility, annotations, JSON coercion; the static type validator; evaluation of expressions by the node executors |
| `Validation` | the validation context and ten validators over several files |
| `Queries` | query validation and translation into Druid filters, with what filters select |
| `Experiments` | experiments, their buckets, `ExperimentWhen` |
| `Labels`, `LabelsService` | conflicts, merging, expiry, `HasLabel`; the Postgres service under concurrent workers |
| `BulkLabel` | a bulk label task, the sinks that claim it, its rollback |
| `ServiceCache` | the external service accessor |
| `EtcdStore`, `EtcdLock`, `EtcdDict`, `EtcdRing`, `EtcdTree` | etcd's compare operations; lock, dictionary and set, hash ring, recursive tree with both watchers and the mux |
| `EtcdObjects` | lock, collection and ring together, the part of `SharedState` that `EtcdProofs` speaks of |
| `EtcdFollowers` | tree, discovery and routed client together, the part of `SharedState` that `FollowerProofs` speaks of |
| `Discovery`, `RoutedClient` | service watcher and rotation; routed calls with chunks, secondaries and closed channels |
| `Abilities`, `AbilityTokens`, `SavedQueries`, `EventSearch` | the console: abilities and censoring, temporary tokens, saved queries; the paginated scan, and counts compared and exported |
| `SharedState`, `Progress`, `MCLanguage`, `Console` | suites: the components above on small instances (see below); `MCLanguage` also holds some 400 small programs for the executor |
| `MCPriorityQueue` | symmetry for TLC |
| `PriorityQueueProofs`, `CoordinatorProofs` (with the Kafka consumer), `ProgressProofs`, `EtcdProofs`, `FollowerProofs`, `ServiceCacheProofs`, `LabelProofs`, `SharedStateProofs` | lemmas, inductive invariants and theorems (section 6) |

**Suites.** The worker's components are many and mostly independent. A suite module INSTANCEs
several of them with constants of their own and adds one variable, `subject`, chosen in `Init` and
never changed: a behaviour is about one subject, whose component takes its own steps while the
variables of the others keep their initial values. The state space is therefore the sum of the
components', not their product, and nothing is assumed about one component by another. The sets of
processes, workers, sinks and callers are constants of the suite, so a theorem about a suite is about
any number of them. Components
that do act on each other are composed in one module instead: queue, callers, streams and workers in
`Coordinator`; input stream, execution, output sinks and stores in `RulesSink`; etcd, watchers and the
tree in `EtcdTree`; parser, validators, types and compiler in `Validation`; ingestion, stores and
abilities in `EventSearch`.

Operators whose comment says *Faulty variant* are not part of any specification. Each is a
plausible mistake in the definition that follows it; substituted for that definition it must make
TLC find the violation listed with it in `PROJECT.json`.

### PriorityQueue

`syncQueue`/`asyncQueue` are the two unbounded `async_channel`s; `oneshot[a]` is the channel on
which action `a`'s caller waits; `held[r]` the action a receiver got from `recv()` and has not
answered; `recvState[r]` where its `recv()` future is. `recv()` is cut where another task can act:
`RecvPollSync` (first branch), `RecvPollAsync` (second branch), `RecvWake` (a parked future polls
again from the top, because the `select!` is `biased`), `RecvAwaitSync` (the fallback after the async
channel closed). `Deliver` is the match behind the `select!`: an action whose caller is gone is
dropped and the loop continues. `nack_all_async` is one step per `try_recv`; `close()` is two steps.
`overtaken` is a history variable: how often a receiver took an async action past a queued sync one.

### Coordinator

An *attempt* `<<call, n>>` or `<<message, n>>` is one `AckableAction`: the RPC retries once, Pub/Sub
redelivers. `server[s]` is the position of the stream's task (`reading` a request, `requesting`,
`receiving` from the queue, `sending`); the outstanding action of `ClientState` is the queue's
`held[s]`. `client[s]` is the worker's generator: `waiting` for a response, `yielded` while the sink
works on its action, `paused` in `wait_until_resume()`. `requests[s]` is the worker's outgoing queue
together with the transport, `Stop` the sentinel that ends its iterator: what is put behind it is
never read. Requests carry the action whose verdicts they hold (`of`) and no `ack_id`, because the
coordinator never reads it. Decoding, encryption and rule execution are outcomes (success or
failure). The error branches of `handle_action_request` (an answer with nothing outstanding, a
second initial request) have no action: `RequestsFollowProtocol` shows that the worker never
reaches them.

### KafkaConsumer

`position` is the offset of the next message, `committed` the group's offset at the broker. `Ack`
commits `position` asynchronously (it arrives or not); nack, drop, timeout, decode error and send
error pass the message over. `listening`/`notified` describe the `exit_signal()` future of the
current iteration, which is dropped whenever a message arrives. The partition is a fixed log; the
priority queue is reduced to whether it is closed.

### RulesSink and OspreyEngine

`job[g]` is a greenlet's position in `RulesSink.run`: `enter` before `classify_one`, `push` at output
sink `sink` on its `attempt`, `exit` in the acking context. An attempt ends with nothing raised, an
error (retried up to `max_retries`) or gevent's `Timeout`, which tenacity does not retry because it is
not an `Exception`. The stored result sink, a plugin's, comes before the label sink, which
`bootstrap_output_sinks` appends. A push to BigTable that raises nothing may have stored nothing,
because the statuses `mutate_rows` returns are not looked at; the other stores swallow their errors.
Pub/Sub messages are leased and come back unless acked; Kafka's position is
committed by a timer, independent of what was done, so that a crash can lose a message behind it:
`lost` is the history variable that records those. `OspreyEngine` cuts the reload where greenlets
switch: the push of new sources, the pause of the input stream, the compilation (which may fail and
keeps the old graph), the dispatch of the configuration, and the resumption.

### The language

A tree is a record of a kind, a value and its children; text is a small set of tokens with the
classes (a number, an identifier, a local name) that the code tells apart. `PyAst` maps each Python
node to a node of `Grammar` or a refusal. `Validation` runs the validators in every order in which the
registry could hold them, with the results and the suppression of dependents as
`ValidationContext.run_validator` has them, and compiles what was accepted. `StaticTypes` gives an
expression its type, errors and the places where an entity or rule is unwrapped; `Evaluation` gives
its value twice, as the executor computes it (all operands first) and as written (stopping at the
operand that decides). `Executor` is about order and failure, not values: a chain's result is `Ok` or
`Err`, chosen freely for every call. Texts are tokens; what is modelled of them is whether
one contains another and whether two differ in case only. `Queries` translates a query into a filter,
says what Druid selects by that filter, and has an independent reference, `Holds`, that evaluates the
query as a rule's condition is and looks calls up in the event itself. Sizes in `Experiments` are tenths of a bucket unit.

### Shared state

Time is a counter, an index of etcd a position in its log. A request to etcd is two steps, what
etcd does and the arrival of its answer, wherever other processes can act in between. In
`EtcdRing`, `busy` is what a process has sent until the answer is handled, `pending` the event its watch
greenlet sleeps on. In `EtcdLock`, `deleted` records the uuids whose key a `release()` deleted although
its request raised. `EtcdTree` tells keys apart as the code does: by name in the mux, by the start of
the path (`StartsWith`) in `_delete_subtree`; a stream of etcd-watcherd may fail, or end without an
error, after which the watcher asks an iterator that brings nothing (`EXHAUSTED`). `LabelsService`
gives workers skewed clocks, and cuts `read_modify_write_labels_atomically` at the locked read, the
upsert with its commit, and the rollback. `BulkLabel` counts attempts and entities as the row does;
`row` is what is stored, `sink[s]` what a sink believes. A rollback reads a label and removes it in two
transactions, and others add reasons at any time; `rollback.late` records an entity that got another
reason in between.

## 3. Runs

| Run | Instance | Shows |
|---|---|---|
| `queue` | 2 receivers, 2 sync + 2 async actions | type, `OwnedOnce`, `WaiterHasAcker`, `OvertakenOnce`, `FallbackNeverParks` |
| `queue_live` | 2 receivers, 1 sync + 2 async actions, no symmetry | `SyncServed`, `BacklogNacked`, `ClosedReleasesRecv` |
| `two_workers` | 1 RPC (2 attempts), 1 message, 2 workers, 1 fault | `StreamSound` (`AckedAfterExecution`, `ExecutedOnce`, `RequestsFollowProtocol`, `NoMutualWait`), `DropsOnlyOnFaults`, refinement `QueueSpec` |
| `shutdown` | 1 worker that may stop, 2 deliveries, exit of the coordinator | the same while everything shuts down |
| `calls_return` | 1 RPC, 2 workers of which one may stop, 1 fault, exit, fair scheduling | `CallsReturn`, `StopCompletes` |
| `pooled_sink` | 2 sink greenlets on one stream | **violation** of `AckedAfterExecution` |
| `kafka` | 3 messages, 2 restarts | `CommitFollowsAck`, `NoGapBehindPosition`, `EveryMessageTakenUp` |
| `kafka_exit` | the same without restarts | **violation** of `SignalStopsConsumer` |
| `shared_state` | 12 subjects, about two million states | `EtcdObjectsSafe`, `TreeFollows`, `ServicesReached`, `LabelsSound`, `TaskSound`, `CacheSound`, `OthersSpared` |
| `progress` | 6 subjects under fairness | `AckedAfterPushed`, `EngineConsistent`, `WorkEnds` |
| `language` | sources of up to 3 files, expressions of depth 2, queries, types, JSON values, experiments, 400 programs | `SourcesJudged`, `TypesAndValuesAgree`, `QueriesSelect`, `ExperimentsFair`, `ExecutionSound`, `Terminates` |
| `console` | scans of 3 events, 2 users and tokens, 2 concurrent requests, abilities over 3 names | `ScanFaithful`, `RecordsKept`, `AnswersEntitled` |

The properties of the suites are conjunctions of named parts, which are stated and explained in
the component's module:

| Property | Parts | Modules |
|---|---|---|
| `EtcdObjectsSafe` | `ExclusiveUnlessLost`; `NoLostUpdate`, `AnswersTruthful`, `ReadersFollow`; `RingFollows`, `RingOfMembers` | `EtcdLock`, `EtcdDict`, `EtcdRing` |
| `TreeFollows` | `TreeMirrorsEtcd`, `NodeWatchersInformed` | `EtcdTree` |
| `ServicesReached` | `RotationHoldsInstances`, `KnowsRegistered`, `NoStarvation`; `EveryValueOnce`, `CauseReported`, `CachedClientsOpen`; `SelectionDistinct` | `Discovery`, `RoutedClient`, `EtcdRing` |
| `LabelsSound` | `KnownLabelHasReason`, `ManualHolds`, `StrongestSurvive`, `SeenConsistently` | `LabelsService` |
| `TaskSound` | `PrefixLabelled`, `CompleteMeansLabelled`, `ExpectedAdjustedOnce`, `BoundedRuns` | `BulkLabel` |
| `CacheSound` | `Debounced`, `WaitersAreAnswered`, `OnlyInitiatorRaises` | `ServiceCache` |
| `OthersSpared` (action property) | `ReleaseTakesOwn`; writes are merges, `ReasonsNeverForgotten`; `RollbackSparesOthers` | `EtcdLock`, `LabelsService`, `BulkLabel` |
| `EngineConsistent` | `GraphFollowsSources`, `ConfigMatchesGraph` | `OspreyEngine` |
| `WorkEnds` (liveness) | every action handled, `ReloadEnds`, tasks settle, `CallsReturn`, trees become what etcd holds | `Progress` |
| `SourcesJudged` | `ParsedInGrammar`, `NothingLost`, `EveryErrorReported`, `AcceptedCompiles`, `SecretsNotExtracted` | `MCLanguage`, `Validation` |
| `TypesAndValuesAgree` | `TypesSound`, `ExecutedAsWritten`, `FailuresPassedOn`, `CompatibleSound`, `CheckMatchesType`, `JsonValueTyped` | `MCLanguage` |
| `ExperimentsFair` | `SharesExact`, `GrowsInPlace`, `Answers` | `Experiments` |
| `ExecutionSound` | `DependenciesFirst`, `ExecutedOnce`, `NothingForgotten`, `ErrorsAreRootCauses`, `FeaturesComplete` | `Executor` |
| `ScanFaithful` | `ShownIsAllowed`, `ShownOnce`, `MissedOnlyAtCuts` | `EventSearch` |
| `RecordsKept` | `SuccessIsKept`, `AbilitiesLapse`; `HistoryReachesOrigin`, `PagesComplete` | `AbilityTokens`, `SavedQueries` |
| `AnswersEntitled` | `GrantsAdd`, `OnlyAllowedLabels`, `CensoredExactly`, `CsvHasEachValue` | `Console` |

`PROJECT.json` lists a mutant for each part, so that no part holds whatever the code does.

**Bounds.** Two receivers are what it takes to race for one action, two async actions what it takes
to overtake twice, two sync actions what it takes for the order in the channel to matter. One call
already is two elements of the queue; one fault can hit any step of either worker; a second
delivery is a redelivery. In `shared_state` two processes contend for the lock through expiry and a
third index change, two writers and a reader share a collection, three events and two watchers let a
dead watcher and its successor overlap, three values in chunks of one let a middle chunk fail, and two
requests of up to two mutations with a clock of 3 let a label expire, be replaced and be merged
(the mutation's expiry is 1, the skew allowed 1). A bulk task has two entities and three attempts, so
that a takeover can happen at each entity and the last attempt is reached; any entity may get another
reason at any step. The tree has the keys `/foo`, `/foobar` and `/dir/key` (in `progress` the first
two), so that one key is a string prefix of another and a directory holds a key; three writes of two
values are what it takes to delete the prefix and write the other key again. A scan asks for periods
that begin on a whole second or between two. Data to censor has dicts within dicts, an empty one, and
a list whose items have different keys; each ability names up to two of twelve paths. `language`
enumerates its inputs: an operator of every kind with operands of every class (entities of texts and of numbers
included), programs that pass a secret on through names, calls, lists, texts, arithmetic and comparisons
over several files, queries over null, text and number columns, both orders of every comparison and
every call against events with exact, resembling and other labels, every annotation over scalars, every import
shape of two and three files including cycles, every experiment of up to three buckets with a
granularity of 10, which three does not divide. `MaxFaults`, `MaxDeliveries`, `MaxRestarts`,
`LogLength`, `MaxLockIndex`, `MaxDictIndex`, `MaxRingWrites`, `MaxReplicas`, `MaxEvents`, `MaxWatchers`, `MaxChanges`, `MaxTime`, `MaxRequests`,
`MaxRuns` and `MaxCrashes` are the named bounds. Termination is allowed (`CHECK_DEADLOCK FALSE`)
where stopping is the end of the work or the bounds are used up: `shutdown`, the Kafka runs and the
suites. In the suites that work does not stop early is shown by the liveness properties instead.

### Findings

* `pooled_sink`. `BaseInputStream.__next__` locks the generator only while `next()` runs, and the
  coordinator input stream acks an action when the generator is *resumed*. `cli/sinks.py` gives one
  input stream to all greenlets of a `PooledSink`, so with `OSPREY_RULES_SINK_NUM_WORKERS` above 1
  the second greenlet's `next()` acks the action the first one still executes, with no verdicts. With
  one greenlet per stream (`SinkWorkers = 1`, all other runs) the property holds.
* `kafka_exit`. The consumer's loop creates a new `exit_signal()` per iteration. A signal that
  arrives while a message is decoded or awaited is lost, and the consumer keeps running although
  the shutdown handler saw the signal and closed the queue; `main` joins on it.

Behaviour the models show and no document contradicts: an async action sent between
`nack_all_async` and `close()` can stay queued until its caller's timeout; a Kafka message that was
nacked is passed over and covered by the next commit; both attempts of one RPC may be executed;
an idle worker notices a soft stop only after its next action.

### Deviations met on the way

Properties are stated so that they hold of the code as it is; what had to be excepted is listed
here, because a maintainer will want to know.

* *Labels.* `SELECT ... FOR UPDATE` locks nothing while an entity has no row: of two first writers the
  second overwrites the first (`OthersSpared` is checked for an entity with a row). An
  unexpired status gives way to one of lower weight unless it is manual and the other automatic,
  although the comment at `labels.py:285` speaks of weights. `HasLabel` allows no clock skew, merging
  allows five seconds, so for that long a rule sees an expired label merging still honours.
* *etcd.* `release()` catches `KeyNotFoundError` only (`locking.py:85-90`). A release that fails with
  `EtcdCompareFailed` still believes it holds the lock, and so does one whose request raises after etcd
  deleted the key: the next `acquire()` of that object returns True at once while another process makes
  the key. `ExclusiveUnlessLost` excepts exactly expiry and this. A tree deletes by string prefix
  (`tree.py:90`, `:119`): deleting `/foo` also drops `/foobar`, which the mux believes to be known and
  which stays away until its value changes. `TreeMirrorsEtcd` is about keys no such deletion has swept
  (`Unswept`). A stream of etcd-watcherd that ends without an error is asked for ever and brings nothing
  (`watcherd_impl.py:131-136`): the tree then stays as it is, which `WorkEnds` excepts. The
  dictionary's late answer may overwrite a newer value it learnt from a watch. `EtcdHashRing.select`
  extends the override list it shares, and an empty override cannot be read back. The mux forgets what
  a removed directory held.
* *Bulk labels.* A rollback reads a label's reasons and removes the label in another transaction
  (`bulk_label_sink.py:455-494`): a reason that is added in between is lost with the label, and
  `RollbackSparesOthers` excepts exactly that window. A task that is taken over often enough for its attempts to pass the maximum is claimed
  by nobody and keeps its non-final status. A late event shifts the indices of a re-run query. The
  excluded are subtracted from the expected number before the two are compared again, and the
  subtraction is stored even if they still differ: with 5 expected, 1 excluded and a list of 3, a task
  that failed this way is taken over with 4 expected, 3 after a second subtraction, and labels its
  three entities. `ExpectedAdjustedOnce` is therefore stated for tasks whose list is within the margin
  of the adjusted number; the proof of `TaskIsSound` showed the need.
* *Service cache, discovery, routed calls.* Batch errors ignore `count_error_once`. `batch_get` sets
  the entries it finds in the cache when its request ends: if one of its own was replaced meanwhile
  (it expired during the request, or `get_without_cache` was called), who waits for the replaced one is
  never answered. `CacheSound` is about batches without a TTL and without `get_without_cache`. Two watchers can run after a stop
  and restart. A chunked call that is retried finds its field emptied.
* *Sinks.* A `Timeout` is not retried although the comment says so; GCS, MinIO and Postgres inserts
  swallow errors, so their `max_retries` never applies; BigTable's insert ignores the statuses
  `mutate_rows` returns (`stored_execution_result.py:234`). An action may therefore be acked with no result
  in the store, and `AckedAfterPushed` claims of the store only that a push to it has ended. A message that
  cannot be decoded is neither acked nor nacked. Kafka's timer may commit an action that a crash then
  loses; the part of `WorkEnds` about actions excepts exactly those (`lost`).
* *Engine.* An update that arrives before the watcher is set is compiled only at the next push;
  deleting the key ends the watcher with the input stream paused.
* *Secrets.* Arithmetic can always be extracted (`can_extract` is True, `grammar.py:562` and `:612`), so
  `B = A + 'a'` or `B = -A` of a `Secret` A is accepted and written to the action's output, although names,
  calls, lists and texts of a secret are not (`grammar.py:374`, `:863`). The tests sanction bools made of a secret
  (`test_secret_data.py:42`), nothing else. `SecretsNotExtracted` says so: what a secret reaches without arithmetic
  stays out, what it reaches through arithmetic alone is extracted.
* *Language.* `int ** int` is typed `int` also for negative exponents, and a negative base with a
  fractional exponent is complex. The minus of an `Entity[int]` is accepted (`validate_static_types.py:424-441`)
  and always raises a `TypeError`, because the operand is not unwrapped (`unary_operation_executor.py:24-25`).
  `TypesSound` names both. `**kwargs` are dropped silently;
  a method call as a function, a `Name` where `WhenRules` expects a list and an `Optional` of a list as an
  annotation fail an assertion rather than validation; `Experiment` without buckets divides by zero,
  and the check of their number, `1 < n > 10`, has no lower end.
* *Queries.* Some comparisons are translated into others (`Misread`, `TakenFor`): `1 < N` becomes `N < 1` (a test
  snapshot records it), `column in "text"` becomes a search of the text in the column, and a column
  compared with an expression, as in `B == (N < 1)`, is compared with None
  (`ast_druid_translator.py:149-155`). `QueriesSelect` is about every query that is translated, and says of these
  that they select what they are taken for. A text in a column is searched without regard to case, which a
  rule's `in` is not. `DidAddLabel` and `DidRemoveLabel` are a `like '%type/label/status%'` on one
  dimension (`did_mutate_label.py:36-45`): a type that ends with the one asked for (SuperUser for User) and
  any character in the place of an underscore match too; events with such a lookalike (`Resembles`) are
  excepted.
* *Console.* A descending scan skips events of the second its page ended in (`MissedOnlyAtCuts`), an
  ascending one repeats them, and from its second page on may reach back to the whole second its period
  begins in. A descending page whose token's second begins before the period is a `ValueError`
  (`druid.py:86-90`), with which the scan ends. Merging two "all except" abilities unites the exceptions.
  Censoring raises `KeyError` when a dict on an excepted path lacks the next key, also in one item of a list
  whose other items have it (`abilities.py:376-381`), and the error fails the whole page: `CensoredExactly`
  says that this is the only way it fails. The export of counts asks for `CanViewEventsByEntity` only and
  applies no filter of actions (`events.py:145-152`), so `AnswersEntitled` claims nothing about whose events
  it counts; concurrent updates of a saved query leave one of
  them out of the history.

## 4. Fairness

`PriorityQueue`: weak fairness of each receiver's `recv()` (the runtime polls woken futures), of
asking for more and of answering (a stream's loop), and of the shutdown task. `Coordinator`: weak
fairness of each call, each stream task, each worker and of the shutdown task once it was
signalled; rule execution is assumed to end. `KafkaConsumer`: weak fairness of the loop, strong
fairness of `Receive` (receive errors do not go on for ever while there are messages). `Progress`: weak
fairness of every greenlet (gevent runs what is ready, and calls have timeouts), of the clock that
ends claims, leases and back-offs, and of restarting a stopped watcher; strong fairness of Pub/Sub's
delivery of what was not acked, and of a tree's sync and watch, whose requests fail now and then but
not for ever. `MCLanguage`: weak fairness of the executor's loop and of each user function, which
returns or raises. Never fair: senders, writers, cancellations, caller timeouts, faults, signals,
crashes. `StopCompletes` starts from a worker that has an action, since only then does the code look
at the stop flag.

## 5. Refinement

`Coordinator` implements `PriorityQueue` under the mapping `Actions <- Attempts`, `SyncActions <-
CallAttempts`, `Receivers <- Streams` (`QueueSpec == PQ!Spec`, a PROPERTY of two runs): every step of
the callers, streams and workers changes the queue by one of its own operations or not at all.
`ImplementsQueue` proves it, so the safety theorems about the queue hold for the composed system.

## 6. Proofs

Eight modules hold some 12,900 obligations, all checked by `tlapm`. Theorems about suites are stated of the
suite's `Spec`, so they speak of what the runs check; sets of processes, workers, sinks, callers,
streams, actions, words and versions are arbitrary. Every inductive invariant was first checked
by TLC as an invariant of the corresponding run (`IInv` of `Coordinator` on 2 workers and during a
shutdown; `LockInv`, `DictInv`, `RingInv` and `CacheInv` on the whole of `shared_state`; `TaskInv` on 2
sinks, 3 entities and 3 attempts).

**PriorityQueueProofs.** From `QueueAssumption` (sync actions are actions, `None` is none):
`[]TypeOK`, `[]OwnedOnce`, `[]WaiterHasAcker`, `[]OvertakenOnce`, `[]FallbackNeverParks`. `IInv` adds what these
lack:

* `FreshIsNowhere`, `FreshNotOvertaken`: an action that was not created is in no channel and no hand
  (else sending it would duplicate it) and has no overtakers;
* `RecvOwnsNothing`: `recv()` runs only for a receiver with empty hands (else `Deliver` would
  overwrite, and lose, the action in hand);
* `OvertakerLookedSince`: a receiver about to poll the async channel has overtaken nothing that is
  still queued, since it saw the sync channel empty. This is the whole reason `OvertakenOnce` holds;
* `CloseOrder`: the async channel is closed last, which is why the fallback never parks.

One lemma per operation shows that it preserves `IInv`, over lemmas on what appending to and popping
from a sequence without repetition does to the set of its elements.

**CoordinatorProofs.** From `CoordinatorAssumption`: `[]TypeOK` and the refinement `QueueSpec`, for any
number of sink greenlets; and, under the hypothesis `SinkWorkers = 1`, `[]StreamSound` and
`DropsOnlyOnFaults`. The hypothesis is the difference between `two_workers` and the finding
`pooled_sink`: without it the theorem is false. `TypeInv` carries the queue's own `IInv` through the
refinement (a step of the queue keeps it by the lemmas above). `IInv` adds, per stream, what each side
may assume of the other:

* `ServerInv`: while the task reads, the next request is the one the protocol allows in its state;
* `ResponseInv`: at most one action is on its way to the worker, the outstanding one;
* `LinkInv`: on an intact connection the two ends agree whose turn it is. `NoMutualWait` and the matching
  of answers by order follow from it;
* `ClientInv`: the greenlet works on the generator's current action or is done with it;
* `AttemptInv`: an attempt no worker was sent is not executed, one at a worker is at one worker only.

The same module has the Kafka consumer. From `KafkaAssumption`: `[]KafkaTypeOK`, `[]CommitFollowsAck` and
`[]NoGapBehindPosition`, by `CommitBehindPosition` (a restart never resumes behind what was reached) and
`HandlingUncommitted` (the message in hand is not committed yet).

**ProgressProofs.** From `VersionAssumption` (there is a version): `[]EngineConsistent`, by `EngineInv`: what
the engine compiled is the provider's current version unless a reload is under way, the version is
invalid, or it came before the watcher was set (`missed`). From `SinkAssumption` (setups, and messages
numbered by naturals): `[]AckedAfterPushed`, by `SinkInv`: a greenlet past an output sink has tried it
(`JobInv`), the store before the labels; what was tried ended with success, a timeout or all allowed
attempts, and stays so when the message is delivered and pushed again (`FateSound`); what was acknowledged
was tried (`AckedTried`). Both are proved of the component's own specification and of `Spec`.

**EtcdProofs** has the lemmas for `EtcdObjectsSafe`, from `WritersAssumption` (writers are processes)
and `NoValueAssumption` (an absent key is no value).

* `LockInv`: uuids of different processes differ, and whoever believes to hold the lock wrote the uuid
  that is at etcd, unless it expired or was deleted by a `release()` that raised (`LiveAtEtcd`).
* `DictInv`: an index names one value (`IndexNamesValue`), so a compare-and-swap that succeeds replaces the
  value it was computed from; an answer under way fits what was read; readers have the value at their
  index.
* `RingInv`: a reader has applied the last event it received, or sleeps on it; a process with no write
  under way has the ring of its members while everything stored is readable. `SelectInv`: override
  lists name nobody twice, also after `select()` has extended them (from `WordsAssumption`: finitely many
  members).

**FollowerProofs** has the lemmas for `TreeFollows` and `ServicesReached`.

* `TreeInv`, from `KeysAssumption` (finitely many keys, none of which is a value, and what "the path starts
  with" means; nothing excludes keys that are prefixes of others). Node watchers know what the tree has
  (`ToldInv`); and for each key that no deletion has swept (`MirrorInv`): etcd has the value of the key's last
  event (`LastEventCounts`), the mux knows whether the tree has the key (`MuxKnows`), the tree has what etcd
  has unless an event for the key is still to come (`RestIsCurrent`), and a key whose removal would
  sweep it is still there, so that a full sync has no reason to remove it (`PrefixStays`).
* `ServiceInv`, from `ServicesAssumption` (finitely many instances, services and values): the rotation holds
  each visible instance once and each is due within a round (`InTurn`); a watcher that runs alone agrees
  with the log up to its index (`FollowsInv`).
* `CallInv`: every value of a chunked call was answered or waits for one service (`ChunkedInv`), a client in
  use has an open channel (`ClientInv`), and an outcome is that of an RPC that was made (`OutcomeInv`).

**ServiceCacheProofs.** `CacheInv`: every `AsyncResult` that is not set belongs to a request under way
(`UnsetRequested`), a fresh request's entry is the cached one (`OneRequest`), and with `count_error_once`
`get()` stores no exception. `Parameters` asks for finitely many keys, and that `batch_get` is used on
services without a TTL and without `get_without_cache`: `batch_get` sets the entries that are in the
cache when its request ends, so without this its own entry may have been replaced (section 3,
deviations). `get` and `get_without_cache` are covered with and without a TTL.

**LabelProofs.** What a request makes of labels, for requests of any length: `RequestsSplitByStrength` (exactly the
mutations of the strongest status are kept, in their order, each other one is dropped once) and
`ManualStatesStay`. Both are about folds over the request; since the library's induction theorems cannot be
instantiated, induction is done in first-order form: the library's `FoldLeft` is a recursive function chosen
to satisfy its equation, `FoldExists` shows that a solution exists, by the least number without one, and
the lemmas after it carry a family of sets, one per prefix, through the steps of the fold.

For the bulk task, `TaskInv`, for tasks whose query always has the same answer (`Parameters`): the row and
each sink's copies, whichever columns were written last, count only labelled entities (`RowOk`); a sink
has labelled everything it has passed (`Phase`); and executions plus claims that will still be
processed are bounded by the attempts (`Counted`), which is why a reboot between claim and execution
cannot add an execution. `TaskIsSafe` gives the four safety properties. `RollbackSpares` gives the action
property, by `RollbackInv`: a label that was read, and has another reason by now, is known to be late.

**SharedStateProofs** brings these to the suite: `EtcdObjectsSafe`, `TreeFollows`, `ServicesReached`, `LabelsSound`,
`TaskSound`, `CacheSound`, and the action property `OthersSpared`. Labels have an argument of their own (`LabelsInv`):
a known label has reasons, and what a transaction read is still the row when it writes, because it
holds the lock of a row that exists; merging (`MergeKeeps`, `ShiftKeeps`, `UpdateKeeps`) keeps every reason in the
label's state or history. `NoneAssumption` says that `None` is no number and no worker.

**Only model-checked**, and why:

* all liveness (`SyncServed`, `BacklogNacked`, `ClosedReleasesRecv`, `CallsReturn`, `StopCompletes`,
  `EveryMessageTakenUp`, `WorkEnds`, `Terminates`): fairness and `ENABLED` are out of the prover's reach;
* `language` (`SourcesJudged`, `TypesAndValuesAgree`, `QueriesSelect`, `ExecutionSound`) and the abilities of `console`: the
  modules below `MCLanguage` and `Console` are recursive over trees and use RECURSIVE operators, and what
  recursion computes for every input needs induction over data;
* the scans, tokens and saved queries of `console` (`ScanFaithful`, `RecordsKept`) and the experiments: stated in, or
  reached through, modules with RECURSIVE operators.

## 7. Plan

Modelled: everything in the table of section 2. Proved: all safety properties of `queue`, `two_workers`, `shutdown`,
`kafka`, `shared_state` and `progress`. What is left needs modules split or the prover extended:

1. `AbilityTokens` does not recurse: stated in a suite without the other parts of the console,
   `SuccessIsKept` and `AbilitiesLapse` can be proved, and, once the history of a saved query is a
   recursive function, `HistoryReachesOrigin`.
2. `Experiments`: `SharesExact` for any number of buckets, by arithmetic on prefix sums.
3. The Rust streaming pull below the Pub/Sub handler, with ordering keys and flow control.

## 8. Not modelled

* The streaming pull (`pub_sub_streaming_pull/`), a port of Google's client library below the Pub/Sub
  handler. Its leases and redeliveries appear as external actions; its ordering keys and flow control do not.
* The coordinator's own etcd watcher, discovery and ring in Rust: counterparts of the worker's, used
  to announce the coordinator. The protocol is modelled from the Python side.
* Pull and bulk Pub/Sub streams, `ProcessPoolSink` and bulk action tasks: nothing in the repository
  runs them, and the endpoints of the latter answer 501.
* Most functions of the standard library (strings, lists, times, regular expressions): pure functions,
  in the executor's model any function of its type that returns or raises.
* Console handlers that only read and serialise; the browser UI; the printer of syntax trees and the
  wording and spans of messages.
* ROUND_ROBIN and ENVOY routing of the routed client (the model routes by hash ring, in chunks or by one value);
  `HasLabel`'s `error_on_empty`; and more than one sink greenlet per coordinator stream outside
  `pooled_sink`, which shows what goes wrong there.
* gRPC, KMS, snowflake and Pub/Sub clients, whose outcomes are nondeterministic choices; generated
  protobuf code; logging, tracing, metrics, profiling, command lines and example data.
