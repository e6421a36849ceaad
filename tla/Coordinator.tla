---------------------------- MODULE Coordinator ----------------------------
(***************************************************************************)
(* The path of an action through the coordinator and a worker: a caller    *)
(* (the sync RPC of sync_action_rpc.rs or the Pub/Sub message handler of   *)
(* consumer/pubsub.rs) queues an AckableAction and waits on its oneshot; a *)
(* bidirectional stream (osprey_bidirectional_stream.rs) takes it from the *)
(* PriorityQueue and sends it to a worker; the worker's input stream       *)
(* (osprey_coordinator_input_stream.py) hands it to a sink greenlet and    *)
(* sends the Ack or Nack that the stream applies to its outstanding        *)
(* action.                                                                 *)
(*                                                                         *)
(* Every attempt of a caller is an element of the queue of its own: the    *)
(* sync RPC retries once, Pub/Sub redelivers a message that was nacked.    *)
(***************************************************************************)
EXTENDS Naturals, FiniteSets, SequencesExt

CONSTANTS
    Calls,          \* process_action requests
    Messages,       \* Pub/Sub messages
    Streams,        \* connections between a worker and the coordinator
    SinkWorkers,    \* greenlets that share one worker's input stream
    MaxDeliveries,  \* bound: deliveries of one Pub/Sub message
    MaxFaults,      \* bound: worker crashes and broken connections
    Stoppable,      \* streams whose worker may be told to shut down
    MayExit,        \* whether the coordinator may be told to exit
    None

RpcAttempts == 2   \* process_action calls try_process_action at most twice

CallAttempts == Calls \X (1..RpcAttempts)
Attempts == CallAttempts \cup (Messages \X (1..MaxDeliveries))

ASSUME CoordinatorAssumption ==
    /\ SinkWorkers \in Nat \ {0}
    /\ MaxDeliveries \in Nat
    /\ MaxFaults \in Nat
    /\ Stoppable \subseteq Streams
    /\ MayExit \in BOOLEAN
    /\ Calls \cap Messages = {}
    /\ None \notin Attempts

VARIABLES
    syncQueue, asyncQueue, syncClosed, asyncClosed, oneshot, recvState, held,
    shutdown, overtaken,  \* the PriorityQueue
    call,      \* every RPC: its current attempt and its state
    message,   \* every Pub/Sub message: its current delivery and its state
    verdict,   \* the action whose execution an answer's verdicts come from
    server,    \* where the coordinator's task of every stream is
    link,      \* the connection is intact
    requests,  \* requests of the worker the coordinator has not read yet
    responses, \* actions sent to the worker that it has not read yet
    client,    \* where the worker's input stream generator is
    current,   \* the action the generator is handling, while it is
    executing, \* actions the worker's sink greenlets are working on
    executed,  \* how often the rules were run for an attempt
    shouldRun, \* the generator's should_run
    stopping,  \* the worker's _soft_shutdown_signal_received
    faults     \* crashes and broken connections so far

queueVars == <<syncQueue, asyncQueue, syncClosed, asyncClosed, oneshot,
               recvState, held, shutdown, overtaken>>
callerVars == <<call, message>>
clientVars == <<client, current, executing, executed, shouldRun, stopping>>
streamVars == <<server, link, requests, responses>>
vars == <<queueVars, callerVars, verdict, streamVars, clientVars, faults>>

PQ == INSTANCE PriorityQueue
        WITH Actions <- Attempts, SyncActions <- CallAttempts, Receivers <- Streams

(***************************************************************************)
(* Requests of the worker.  "of" is the action whose execution produced    *)
(* the verdicts an Ack carries (None: no verdicts); the ack_id is left out *)
(* because the coordinator never looks at it.  Stop is the sentinel that   *)
(* ends the iterator over the worker's outgoing queue: what is put behind  *)
(* it is never sent.                                                       *)
(***************************************************************************)
Initial == [type |-> "initial", of |-> None]
Ack(v) == [type |-> "ack", of |-> v]
Nack == [type |-> "nack", of |-> None]
Disconnect(v) == [type |-> "disconnect", of |-> v]
Stop == [type |-> "stop", of |-> None]

Requests == [type : {"initial", "ack", "nack", "disconnect", "stop"},
             of : Attempts \cup {None}]

CallStates == {"try", "await", "ok", "error", "gone"}
MessageStates == {"pending", "await", "acked"}
ServerStates == {"none", "reading", "requesting", "receiving", "sending"}
ClientStates == {"off", "waiting", "yielded", "paused", "stopped"}

TypeOK ==
    /\ PQ!TypeOK
    /\ call \in [Calls -> [attempt : 1..RpcAttempts, state : CallStates]]
    /\ message \in [Messages -> [delivery : 1..(MaxDeliveries + 1), state : MessageStates]]
    /\ verdict \in [Attempts -> Attempts \cup {None}]
    /\ server \in [Streams -> ServerStates]
    /\ link \in [Streams -> BOOLEAN]
    /\ requests \in [Streams -> Seq(Requests)]
    /\ responses \in [Streams -> Seq(Attempts)]
    /\ client \in [Streams -> ClientStates]
    /\ current \in [Streams -> Attempts \cup {None}]
    /\ executing \in [Streams -> SUBSET Attempts]
    /\ executed \in [Attempts -> Nat]
    /\ shouldRun \in [Streams -> BOOLEAN]
    /\ stopping \in [Streams -> BOOLEAN]
    /\ faults \in 0..MaxFaults

Init ==
    /\ PQ!Init
    /\ call = [c \in Calls |-> [attempt |-> 1, state |-> "try"]]
    /\ message = [m \in Messages |-> [delivery |-> 1, state |-> "pending"]]
    /\ verdict = [a \in Attempts |-> None]
    /\ server = [s \in Streams |-> "none"]
    /\ link = [s \in Streams |-> FALSE]
    /\ requests = [s \in Streams |-> <<>>]
    /\ responses = [s \in Streams |-> <<>>]
    /\ client = [s \in Streams |-> "off"]
    /\ current = [s \in Streams |-> None]
    /\ executing = [s \in Streams |-> {}]
    /\ executed = [a \in Attempts |-> 0]
    /\ shouldRun = [s \in Streams |-> TRUE]
    /\ stopping = [s \in Streams |-> FALSE]
    /\ faults = 0

-----------------------------------------------------------------------------
(***************************************************************************)
(* process_action: try_process_action, and once more whatever the error.   *)
(***************************************************************************)

CallAttempt(c) == <<c, call[c].attempt>>

(* Faulty variant: one retry too many. *)
AttemptFailedOffByOne(c) ==
    call' = [call EXCEPT ![c] =
                IF @.attempt <= RpcAttempts
                THEN [attempt |-> @.attempt + 1, state |-> "try"]
                ELSE [@ EXCEPT !.state = "error"]]

AttemptFailed(c) ==
    call' = [call EXCEPT ![c] =
                IF @.attempt < RpcAttempts
                THEN [attempt |-> @.attempt + 1, state |-> "try"]
                ELSE [@ EXCEPT !.state = "error"]]

callOthers == <<message, verdict, streamVars, clientVars, faults>>

(* Generating the action id fails, or the request is malformed. *)
CreateActionFails(c) ==
    /\ call[c].state = "try"
    /\ AttemptFailed(c)
    /\ UNCHANGED <<queueVars, callOthers>>

CallSends(c) ==
    /\ call[c].state = "try"
    /\ PQ!SendSync(CallAttempt(c))
    /\ call' = [call EXCEPT ![c].state = "await"]
    /\ UNCHANGED callOthers

CallFindsClosed(c) ==
    /\ call[c].state = "try"
    /\ PQ!SendToClosed(CallAttempt(c))
    /\ AttemptFailed(c)
    /\ UNCHANGED callOthers

CallGetsAck(c) ==
    /\ call[c].state = "await"
    /\ oneshot[CallAttempt(c)] = "acked"
    /\ call' = [call EXCEPT ![c].state = "ok"]
    /\ UNCHANGED <<queueVars, callOthers>>

CallGetsNackOrDrop(c) ==
    /\ call[c].state = "await"
    /\ oneshot[CallAttempt(c)] \in {"nacked", "dropped"}
    /\ AttemptFailed(c)
    /\ UNCHANGED <<queueVars, callOthers>>

(* The RPC's client cancels: the handler's future is dropped. *)
CallCancelled(c) ==
    /\ call[c].state = "await"
    /\ PQ!CallerGone(CallAttempt(c))
    /\ call' = [call EXCEPT ![c].state = "gone"]
    /\ UNCHANGED callOthers

CallStep(c) == \/ CreateActionFails(c) \/ CallSends(c) \/ CallFindsClosed(c)
               \/ CallGetsAck(c) \/ CallGetsNackOrDrop(c)

-----------------------------------------------------------------------------
(***************************************************************************)
(* The Pub/Sub handler: one task per delivery.  Its result is the ack or   *)
(* the nack of the message; a nacked message is delivered again.  (The     *)
(* 500 ms timeout around send_async cannot fire on an unbounded channel;   *)
(* a message that cannot be decoded is nacked without touching any state.) *)
(***************************************************************************)

Delivery(m) == <<m, message[m].delivery>>

Redeliver(m) ==
    message' = [message EXCEPT ![m] = [delivery |-> @.delivery + 1, state |-> "pending"]]

messageOthers == <<call, verdict, streamVars, clientVars, faults>>

HandlerSends(m) ==
    /\ message[m].state = "pending"
    /\ message[m].delivery <= MaxDeliveries
    /\ PQ!SendAsync(Delivery(m))
    /\ message' = [message EXCEPT ![m].state = "await"]
    /\ UNCHANGED messageOthers

HandlerFindsClosed(m) ==
    /\ message[m].state = "pending"
    /\ message[m].delivery <= MaxDeliveries
    /\ PQ!SendToClosed(Delivery(m))
    /\ Redeliver(m)
    /\ UNCHANGED messageOthers

HandlerGetsAck(m) ==
    /\ message[m].state = "await"
    /\ oneshot[Delivery(m)] = "acked"
    /\ message' = [message EXCEPT ![m].state = "acked"]
    /\ UNCHANGED <<queueVars, messageOthers>>

HandlerGetsNackOrDrop(m) ==
    /\ message[m].state = "await"
    /\ oneshot[Delivery(m)] \in {"nacked", "dropped"}
    /\ Redeliver(m)
    /\ UNCHANGED <<queueVars, messageOthers>>

(* max_acking_receiver_wait_time elapses. *)
HandlerTimesOut(m) ==
    /\ message[m].state = "await"
    /\ PQ!CallerGone(Delivery(m))
    /\ Redeliver(m)
    /\ UNCHANGED messageOthers

MessageStep(m) ==
    \/ HandlerSends(m) \/ HandlerFindsClosed(m) \/ HandlerGetsAck(m)
    \/ HandlerGetsNackOrDrop(m) \/ HandlerTimesOut(m)

-----------------------------------------------------------------------------
(***************************************************************************)
(* The coordinator's task of a stream: read a request, apply its answer to *)
(* the outstanding action (held), take the next action from the queue and  *)
(* send it.  Leaving the loop drops an outstanding action.                 *)
(***************************************************************************)

NextRequest(s) == Head(requests[s])

ReadsRequest(s, types) ==
    /\ server[s] = "reading"
    /\ requests[s] # <<>>
    /\ NextRequest(s).type \in types

serverOthers == <<callerVars, clientVars, link, faults>>

(* The task leaves its loop; requests it has not read are dropped with it. *)
ServerEnds(s) ==
    /\ server' = [server EXCEPT ![s] = "none"]
    /\ requests' = [requests EXCEPT ![s] = <<>>]

ServerReadsInitial(s) ==
    /\ ReadsRequest(s, {"initial"})
    /\ held[s] = None
    /\ requests' = [requests EXCEPT ![s] = Tail(@)]
    /\ server' = [server EXCEPT ![s] = "requesting"]
    /\ UNCHANGED <<queueVars, verdict, responses, serverOthers>>

(* The answer goes to whatever action is outstanding on the stream. *)
AnswerOutstanding(s, answer) ==
    /\ verdict' = [verdict EXCEPT ![held[s]] =
                      IF oneshot[held[s]] = "waiting" THEN NextRequest(s).of ELSE @]
    /\ PQ!Resolve(s, answer)

ServerReadsAckOrNack(s) ==
    /\ ReadsRequest(s, {"ack", "nack"})
    /\ held[s] # None
    /\ AnswerOutstanding(s, IF NextRequest(s).type = "ack" THEN "acked" ELSE "nacked")
    /\ requests' = [requests EXCEPT ![s] = Tail(@)]
    /\ server' = [server EXCEPT ![s] = "requesting"]
    /\ UNCHANGED <<responses, serverOthers>>

ServerReadsDisconnect(s) ==
    /\ ReadsRequest(s, {"disconnect"})
    /\ IF held[s] = None THEN UNCHANGED <<queueVars, verdict>>
                         ELSE AnswerOutstanding(s, "acked")
    /\ ServerEnds(s)
    /\ UNCHANGED <<responses, serverOthers>>

ServerCallsRecv(s) ==
    /\ server[s] = "requesting"
    /\ PQ!RecvStart(s)
    /\ server' = [server EXCEPT ![s] = "receiving"]
    /\ UNCHANGED <<verdict, requests, responses, serverOthers>>

(* recv() runs; when it times out or finds the queue closed the loop ends. *)
ServerReceives(s) ==
    /\ server[s] = "receiving"
    /\ PQ!Recv(s) \/ PQ!RecvTimeout(s)
    /\ IF recvState'[s] = "idle" /\ held'[s] = None
       THEN ServerEnds(s)
       ELSE /\ server' = [server EXCEPT ![s] = IF held'[s] = None THEN @ ELSE "sending"]
            /\ UNCHANGED requests
    /\ UNCHANGED <<verdict, responses, serverOthers>>

ServerSendsAction(s) ==
    /\ server[s] = "sending"
    /\ responses' = [responses EXCEPT ![s] = Append(@, held[s])]
    /\ server' = [server EXCEPT ![s] = "reading"]
    /\ UNCHANGED <<queueVars, verdict, requests, serverOthers>>

(* Faulty variant: the action of an ended stream is queued again. *)
RequeueOutstanding(s) ==
    IF held[s] = None
    THEN UNCHANGED queueVars
    ELSE /\ syncQueue' = Append(syncQueue, held[s])
         /\ held' = [held EXCEPT ![s] = None]
         /\ UNCHANGED <<asyncQueue, syncClosed, asyncClosed, oneshot, recvState,
                        shutdown, overtaken>>

DropOutstanding(s) ==
    IF held[s] = None THEN UNCHANGED queueVars ELSE PQ!Resolve(s, "dropped")

(* The response half of a broken connection is gone: sender.send fails. *)
ServerSendFails(s) ==
    /\ server[s] = "sending"
    /\ ~link[s]
    /\ DropOutstanding(s)
    /\ ServerEnds(s)
    /\ UNCHANGED <<verdict, responses, serverOthers>>

(* Faulty variant: a broken connection is not noticed. *)
ServerReadsStopOnly(s) ==
    /\ server[s] = "reading"
    /\ requests[s] # <<>> /\ NextRequest(s) = Stop
    /\ DropOutstanding(s)
    /\ ServerEnds(s)
    /\ UNCHANGED <<verdict, responses, serverOthers>>

(* in_stream is exhausted or fails. *)
ServerReadsEnd(s) ==
    /\ server[s] = "reading"
    /\ IF requests[s] = <<>> THEN ~link[s] ELSE NextRequest(s) = Stop
    /\ DropOutstanding(s)
    /\ ServerEnds(s)
    /\ UNCHANGED <<verdict, responses, serverOthers>>

ServerStep(s) ==
    \/ ServerReadsInitial(s) \/ ServerReadsAckOrNack(s) \/ ServerReadsDisconnect(s)
    \/ ServerCallsRecv(s) \/ ServerReceives(s) \/ ServerSendsAction(s)
    \/ ServerSendFails(s) \/ ServerReadsEnd(s)

-----------------------------------------------------------------------------
(***************************************************************************)
(* The worker: OspreyCoordinatorInputStream._gen and the sink greenlets    *)
(* that share it.  The generator is suspended at its yield ("yielded")     *)
(* until a greenlet that has no action asks it for the next one.           *)
(***************************************************************************)

(* Requests put while the stream cannot carry them any more are lost. *)
Put(s, new) ==
    requests' = IF link[s] /\ server[s] # "none"
                THEN [requests EXCEPT ![s] = @ \o new]
                ELSE requests

clientOthers == <<queueVars, callerVars, verdict, faults>>

ClientConnects(s) ==
    /\ client[s] = "off"
    /\ server[s] = "none"
    /\ client' = [client EXCEPT ![s] = "waiting"]
    /\ server' = [server EXCEPT ![s] = "reading"]
    /\ link' = [link EXCEPT ![s] = TRUE]
    /\ requests' = [requests EXCEPT ![s] = <<Initial>>]
    /\ responses' = [responses EXCEPT ![s] = <<>>]
    /\ UNCHANGED <<current, executing, executed, shouldRun, stopping, clientOthers>>

ClientTakesResponse(s) ==
    /\ client[s] = "waiting"
    /\ responses[s] # <<>>
    /\ responses' = [responses EXCEPT ![s] = Tail(@)]

ClientYields(s) ==
    /\ ClientTakesResponse(s)
    /\ client' = [client EXCEPT ![s] = "yielded"]
    /\ current' = [current EXCEPT ![s] = Head(responses[s])]
    /\ executing' = [executing EXCEPT ![s] = @ \cup {Head(responses[s])}]
    /\ UNCHANGED <<requests, server, link, executed, shouldRun, stopping, clientOthers>>

(* Faulty variants: the "continue" after the nack is missing, so an ack    *)
(* follows; the nack is not sent.                                          *)
ClientNacksAndAcks(s) ==
    /\ ClientTakesResponse(s)
    /\ Put(s, <<Nack, Ack(Head(responses[s]))>>)
    /\ UNCHANGED <<server, link, client, current, executing, executed, shouldRun,
                   stopping, clientOthers>>

ClientSkips(s) ==
    /\ ClientTakesResponse(s)
    /\ UNCHANGED <<requests, server, link, client, current, executing, executed,
                   shouldRun, stopping, clientOthers>>

(* The action cannot be turned into an OspreyEngineAction. *)
ClientNacks(s) ==
    /\ ClientTakesResponse(s)
    /\ Put(s, <<Nack>>)
    /\ UNCHANGED <<server, link, client, current, executing, executed, shouldRun,
                   stopping, clientOthers>>

SinkExecutes(s, a) ==
    /\ a \in executing[s]
    /\ executing' = [executing EXCEPT ![s] = @ \ {a}]
    /\ executed' = [executed EXCEPT ![a] = @ + 1]
    /\ UNCHANGED <<streamVars, client, current, shouldRun, stopping, clientOthers>>

(* Faulty variant: the next action is asked for while this one executes. *)
SinkAsksTooEarly(s) == client[s] = "yielded"

SinkAsksForNext(s) ==
    /\ client[s] = "yielded"
    /\ Cardinality(executing[s]) < SinkWorkers

(* context.get_verdicts(): set by the greenlet that executed the action. *)
Verdicts(s) == IF current[s] \in executing[s] THEN None ELSE current[s]

(* Faulty variant: the sentinel is put before the disconnect. *)
StopBeforeDisconnect(s) == <<Stop, Disconnect(Verdicts(s))>>

GracefulDisconnect(s) == <<Disconnect(Verdicts(s)), Stop>>

ClientWaits(s) ==
    /\ client' = [client EXCEPT ![s] = "waiting"]
    /\ current' = [current EXCEPT ![s] = None]

(* Faulty variant: should_run stays true. *)
ClientDisconnectsOnly(s) ==
    /\ SinkAsksForNext(s)
    /\ stopping[s]
    /\ Put(s, GracefulDisconnect(s))
    /\ ClientWaits(s)
    /\ UNCHANGED <<server, link, responses, executing, executed, shouldRun, stopping,
                   clientOthers>>

ClientStops(s) ==
    /\ SinkAsksForNext(s)
    /\ stopping[s]
    /\ shouldRun' = [shouldRun EXCEPT ![s] = FALSE]
    /\ Put(s, GracefulDisconnect(s))
    /\ ClientWaits(s)
    /\ UNCHANGED <<server, link, responses, executing, executed, stopping, clientOthers>>

ClientPauses(s) ==
    /\ SinkAsksForNext(s)
    /\ ~stopping[s]
    /\ Put(s, GracefulDisconnect(s))
    /\ client' = [client EXCEPT ![s] = "paused"]
    /\ UNCHANGED <<server, link, responses, current, executing, executed, shouldRun,
                   stopping, clientOthers>>

(* Uptime is over max_uptime_allowed: disconnect; otherwise ack. *)
DisconnectOrAck(s) ==
    /\ Put(s, GracefulDisconnect(s)) \/ Put(s, <<Ack(Verdicts(s))>>)
    /\ ClientWaits(s)
    /\ UNCHANGED <<server, link, responses, executing, executed, shouldRun, stopping,
                   clientOthers>>

ClientAcks(s) ==
    /\ SinkAsksForNext(s)
    /\ ~stopping[s]
    /\ DisconnectOrAck(s)

(* wait_until_resume() returns and the generator falls through. *)
ClientResumes(s) ==
    /\ client[s] = "paused"
    /\ DisconnectOrAck(s)

(* The loop over the incoming stream ends; reconnect unless shutting down. *)
ClientSeesEnd(s) ==
    /\ client[s] = "waiting"
    /\ ~link[s] \/ (server[s] = "none" /\ responses[s] = <<>>)
    /\ client' = [client EXCEPT ![s] = IF shouldRun[s] THEN "off" ELSE "stopped"]
    /\ responses' = [responses EXCEPT ![s] = <<>>]
    /\ link' = [link EXCEPT ![s] = FALSE]
    /\ UNCHANGED <<server, requests, current, executing, executed, shouldRun,
                   stopping, clientOthers>>

StopSignal(s) ==
    /\ s \in Stoppable
    /\ ~stopping[s]
    /\ stopping' = [stopping EXCEPT ![s] = TRUE]
    /\ UNCHANGED <<streamVars, client, current, executing, executed, shouldRun,
                   clientOthers>>

ClientStep(s) ==
    \/ ClientConnects(s) \/ ClientYields(s) \/ ClientNacks(s)
    \/ (\E a \in executing[s] : SinkExecutes(s, a))
    \/ ClientStops(s) \/ ClientPauses(s) \/ ClientAcks(s) \/ ClientResumes(s)
    \/ ClientSeesEnd(s)

-----------------------------------------------------------------------------
(***************************************************************************)
(* Faults: a connection breaks or a worker dies.  Requests in transit are  *)
(* lost or still reach the coordinator.                                    *)
(***************************************************************************)

Fault(s) ==
    /\ faults < MaxFaults
    /\ faults' = faults + 1
    /\ link[s]
    /\ client[s] \in {"waiting", "yielded", "paused"}
    /\ link' = [link EXCEPT ![s] = FALSE]
    /\ \/ UNCHANGED requests
       \/ requests' = [requests EXCEPT ![s] = <<>>]
    /\ UNCHANGED <<queueVars, callerVars, verdict, server, executed>>

ConnectionBreaks(s) ==
    /\ Fault(s)
    /\ UNCHANGED <<responses, client, current, executing, shouldRun, stopping>>

WorkerCrashes(s) ==
    /\ Fault(s)
    /\ responses' = [responses EXCEPT ![s] = <<>>]
    /\ client' = [client EXCEPT ![s] = "off"]
    /\ current' = [current EXCEPT ![s] = None]
    /\ executing' = [executing EXCEPT ![s] = {}]
    /\ shouldRun' = [shouldRun EXCEPT ![s] = TRUE]
    /\ stopping' = [stopping EXCEPT ![s] = FALSE]

(* Faulty variant: the exit signal closes the queue and nacks nothing. *)
ShutdownClosesOnly ==
    /\ MayExit
    /\ shutdown = "running"
    /\ shutdown' = "closed"
    /\ syncClosed' = TRUE
    /\ asyncClosed' = TRUE
    /\ UNCHANGED <<syncQueue, asyncQueue, oneshot, recvState, held, overtaken>>
    /\ UNCHANGED <<callerVars, verdict, streamVars, clientVars, faults>>

(* The coordinator is told to exit; its shutdown handler works on the queue. *)
CoordinatorStops ==
    /\ (MayExit /\ PQ!ExitSignal) \/ PQ!ShutdownStep
    /\ UNCHANGED <<callerVars, verdict, streamVars, clientVars, faults>>

Next ==
    \/ \E c \in Calls : CallStep(c) \/ CallCancelled(c)
    \/ \E m \in Messages : MessageStep(m)
    \/ \E s \in Streams :
          \/ ServerStep(s) \/ ClientStep(s) \/ StopSignal(s)
          \/ ConnectionBreaks(s) \/ WorkerCrashes(s)
    \/ CoordinatorStops

Spec == Init /\ [][Next]_vars

(***************************************************************************)
(* The runtimes schedule every task that can run, the shutdown task's      *)
(* sleep ends, and a sink greenlet finishes the action it executes.        *)
(* Nothing obliges callers to cancel, timeouts to fire first or faults and *)
(* signals to happen.                                                      *)
(***************************************************************************)
Fairness ==
    /\ \A c \in Calls : WF_vars(CallStep(c))
    /\ \A s \in Streams : WF_vars(ServerStep(s)) /\ WF_vars(ClientStep(s))
    /\ WF_vars(CoordinatorStops /\ shutdown # "running")

FairSpec == Spec /\ Fairness

-----------------------------------------------------------------------------
(***************************************************************************)
(* An Ack means the work is done: an attempt that was acked was run        *)
(* through the rules, and the verdicts its caller gets are those of that   *)
(* very action.  The coordinator matches an Ack to an action only by the   *)
(* order of the messages on the stream, never by its ack_id.               *)
(***************************************************************************)
AckedAfterExecution ==
    \A a \in Attempts : oneshot[a] = "acked" => executed[a] = 1 /\ verdict[a] = a

(***************************************************************************)
(* No attempt is run through the rules twice, whatever connections break   *)
(* and workers die: the coordinator forgets an action whose stream ended   *)
(* instead of handing it to another worker.  (A retried call or a          *)
(* redelivered message is a new attempt.)                                  *)
(***************************************************************************)
ExecutedOnce ==
    \A a \in Attempts :
        /\ executed[a] <= 1
        /\ \A s \in Streams : a \in executing[s] =>
              executed[a] = 0 /\ \A t \in Streams \ {s} : a \notin executing[t]

(***************************************************************************)
(* What the comment at osprey_bidirectional_stream.rs:199 asks for: the    *)
(* first request on a stream is the initial one, every later one answers   *)
(* the action that is outstanding then.  The error branches of             *)
(* handle_action_request are not reachable for the real worker.            *)
(***************************************************************************)
RequestsFollowProtocol ==
    \A s \in Streams : server[s] = "reading" /\ requests[s] # <<>> =>
        CASE NextRequest(s).type = "initial" -> held[s] = None
          [] NextRequest(s).type \in {"ack", "disconnect"} ->
                held[s] # None /\ NextRequest(s).of = held[s]
          [] OTHER -> held[s] # None

(***************************************************************************)
(* Worker and coordinator never wait for each other: on an intact stream   *)
(* one of them has something to read or to do.                             *)
(***************************************************************************)
NoMutualWait ==
    \A s \in Streams :
        ~ /\ link[s]
          /\ server[s] = "reading" /\ requests[s] = <<>>
          /\ client[s] = "waiting" /\ responses[s] = <<>>

(***************************************************************************)
(* The stream between coordinator and worker is sound: acks follow the     *)
(* execution of the action they answer, no attempt is executed twice,      *)
(* requests come in the order handle_action_request expects, and neither   *)
(* side waits for the other.                                               *)
(***************************************************************************)
StreamSound == AckedAfterExecution /\ ExecutedOnce /\ RequestsFollowProtocol /\ NoMutualWait

(***************************************************************************)
(* A caller's oneshot is dropped unanswered only if the stream that held   *)
(* the action broke: pausing, reconnecting, stopping a worker and shutting *)
(* the coordinator down all answer the action they interrupt.              *)
(***************************************************************************)
DropsOnlyOnFaults ==
    [][\A a \in Attempts : oneshot[a] = "waiting" /\ oneshot'[a] = "dropped" =>
          \E s \in Streams : held[s] = a /\ ~link[s]]_vars

(***************************************************************************)
(* The streams and the callers use the queue as PriorityQueue says, so its *)
(* properties hold here too.                                               *)
(***************************************************************************)
QueueSpec == PQ!Spec

(***************************************************************************)
(* Every process_action call returns although it awaits its oneshot with   *)
(* no timeout: as long as one worker keeps running, each attempt ends in   *)
(* an answer or a drop, and there are two attempts.                        *)
(***************************************************************************)
CallsReturn ==
    \A c \in Calls : call[c].state \in {"try", "await"} ~>
                       call[c].state \in {"ok", "error", "gone"}

(***************************************************************************)
(* A worker told to stop while it handles an action answers it, leaves the *)
(* stream and ends (or was killed in the meantime).                        *)
(***************************************************************************)
StopCompletes ==
    \A s \in Stoppable : stopping[s] /\ client[s] = "yielded" ~>
                           client[s] = "stopped" \/ ~stopping[s]
=============================================================================
