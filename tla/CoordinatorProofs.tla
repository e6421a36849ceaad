------------------------- MODULE CoordinatorProofs -------------------------
(***************************************************************************)
(* Proofs about the path of an action for any number of calls, messages    *)
(* and streams: the specification is well typed and uses the queue as      *)
(* PriorityQueue says, whose proved inductive invariant therefore holds    *)
(* here as well; with one sink greenlet per worker the stream protocol is  *)
(* sound and a caller is dropped only by a broken stream.  The consumer of *)
(* Kafka follows, for a log of any length and any number of restarts.      *)
(***************************************************************************)
EXTENDS Coordinator, KafkaConsumer, FiniteSetTheorems, TLAPS

Q == INSTANCE PriorityQueueProofs
       WITH Actions <- Attempts, SyncActions <- CallAttempts, Receivers <- Streams

(* What PriorityQueue assumes of its constants holds of the attempts. *)
LEMMA QueueConstants == CallAttempts \subseteq Attempts /\ None \notin Attempts
BY CoordinatorAssumption DEF Attempts

(* The two instances of the queue have the same steps. *)
LEMMA SameNext == PQ!Next => Q!Next
<1>1. ASSUME NEW a
      PROVE  PQ!Send(a) \/ PQ!CallerGone(a) => Q!Send(a) \/ Q!CallerGone(a)
  BY DEF PQ!Send, PQ!SendSync, PQ!SendAsync, PQ!SendToClosed, PQ!CallerGone, PQ!channels,
         PQ!AsyncActions, Q!Send, Q!SendSync, Q!SendAsync, Q!SendToClosed, Q!CallerGone,
         Q!channels, Q!AsyncActions
<1>2. ASSUME NEW r, NEW a PROVE PQ!Deliver(r, a) => Q!Deliver(r, a)
  BY DEF PQ!Deliver, PQ!NobodyWaits, Q!Deliver, Q!NobodyWaits
<1>3. ASSUME NEW r PROVE PQ!TakeSync(r) => Q!TakeSync(r)
  BY <1>2 DEF PQ!TakeSync, Q!TakeSync
<1>4. ASSUME NEW r, PQ!TakeAsync(r) PROVE Q!TakeAsync(r)
  <2>1. Q!Deliver(r, Head(asyncQueue))
    BY <1>2, <1>4 DEF PQ!TakeAsync
  <2>. QED BY <1>4, <2>1, Zenon DEF PQ!TakeAsync, Q!TakeAsync, PQ!ToSet, Q!ToSet
<1>5. ASSUME NEW r
      PROVE  /\ PQ!RecvStart(r) => Q!RecvStart(r)
             /\ PQ!RecvTimeout(r) => Q!RecvTimeout(r)
             /\ PQ!RecvWake(r) => Q!RecvWake(r)
             /\ PQ!RecvClosed(r) => Q!RecvClosed(r)
             /\ PQ!SyncPending(r) => Q!SyncPending(r)
             /\ PQ!AsyncNotReady(r) => Q!AsyncNotReady(r)
  BY DEF PQ!RecvStart, PQ!RecvTimeout, PQ!RecvWake, PQ!RecvClosed, PQ!SyncPending,
         PQ!AsyncNotReady, PQ!channels, Q!RecvStart, Q!RecvTimeout, Q!RecvWake,
         Q!RecvClosed, Q!SyncPending, Q!AsyncNotReady, Q!channels
<1>6. ASSUME NEW r PROVE PQ!Recv(r) => Q!Recv(r)
  BY <1>3, <1>4, <1>5
  DEF PQ!Recv, PQ!RecvPollSync, PQ!RecvPollAsync, PQ!RecvAwaitSync,
      Q!Recv, Q!RecvPollSync, Q!RecvPollAsync, Q!RecvAwaitSync
<1>7. ASSUME NEW r, NEW answer PROVE PQ!Resolve(r, answer) => Q!Resolve(r, answer)
  BY DEF PQ!Resolve, PQ!AnswerOneshot, PQ!channels, Q!Resolve, Q!AnswerOneshot, Q!channels
<1>8. PQ!ExitSignal \/ PQ!ShutdownStep => Q!ExitSignal \/ Q!ShutdownStep
  BY DEF PQ!ExitSignal, PQ!ShutdownStep, PQ!NackOne, PQ!NackAllDone, PQ!CloseSync,
         PQ!CloseAsync, PQ!AnswerOneshot, PQ!channels, Q!ExitSignal, Q!ShutdownStep,
         Q!NackOne, Q!NackAllDone, Q!CloseSync, Q!CloseAsync, Q!AnswerOneshot, Q!channels
<1>. QED BY <1>1, <1>5, <1>6, <1>7, <1>8 DEF PQ!Next, Q!Next, PQ!Answers, Q!Answers

-----------------------------------------------------------------------------
(***************************************************************************)
(* Types, and the implementation of the queue's specification.             *)
(***************************************************************************)

(* A delivery that a handler waits for is within the bound. *)
AwaitedIsNumbered ==
    \A m \in Messages : message[m].state = "await" => message[m].delivery <= MaxDeliveries

(* A stream that is about to send an action has one. *)
SendingHolds == \A s \in Streams : server[s] = "sending" => held[s] # None

TypeInv == TypeOK /\ Q!IInv /\ AwaitedIsNumbered /\ SendingHolds

(* A call's current attempt is an element of the queue of its own. *)
LEMMA CallAttemptType ==
    ASSUME TypeOK, NEW c \in Calls
    PROVE  CallAttempt(c) \in CallAttempts /\ CallAttempt(c) \in Attempts
BY QueueConstants DEF TypeOK, CallAttempt, CallAttempts

(* So is a delivery of a message within the bound. *)
LEMMA DeliveryType ==
    ASSUME TypeOK, NEW m \in Messages, message[m].delivery <= MaxDeliveries
    PROVE  Delivery(m) \in Attempts
<1>1. message[m].delivery \in 1..(MaxDeliveries + 1) /\ MaxDeliveries \in Nat
  BY CoordinatorAssumption DEF TypeOK
<1>2. message[m].delivery \in 1..MaxDeliveries
  BY <1>1
<1>. QED BY <1>2 DEF Delivery, Attempts


(* Every step of the coordinator is a step of its queue or leaves it alone. *)
LEMMA QueueRefined ==
    ASSUME TypeOK, AwaitedIsNumbered, [Next]_vars
    PROVE  [PQ!Next]_(PQ!vars)
<1>. USE DEF PQ!Next
<1>1. UNCHANGED queueVars => UNCHANGED PQ!vars
  BY DEF queueVars, PQ!vars
<1>2. \A answer \in {"acked", "nacked", "dropped"}, s \in Streams :
         PQ!Resolve(s, answer) => PQ!Next
  BY DEF PQ!Answers
<1>3. ASSUME NEW c \in Calls, CallStep(c) \/ CallCancelled(c)
      PROVE  [PQ!Next]_(PQ!vars)
  <2>1. CASE CreateActionFails(c) \/ CallGetsAck(c) \/ CallGetsNackOrDrop(c)
    BY <1>1, <2>1 DEF CreateActionFails, CallGetsAck, CallGetsNackOrDrop
  <2>2. CASE CallSends(c) \/ CallFindsClosed(c) \/ CallCancelled(c)
    BY <2>2, CallAttemptType DEF CallSends, CallFindsClosed, CallCancelled, PQ!Send
  <2>. QED BY <1>3, <2>1, <2>2 DEF CallStep
<1>4. ASSUME NEW m \in Messages, MessageStep(m)
      PROVE  [PQ!Next]_(PQ!vars)
  <2>1. CASE HandlerGetsAck(m) \/ HandlerGetsNackOrDrop(m)
    BY <1>1, <2>1 DEF HandlerGetsAck, HandlerGetsNackOrDrop
  <2>2. CASE HandlerSends(m) \/ HandlerFindsClosed(m) \/ HandlerTimesOut(m)
    <3>1. message[m].delivery <= MaxDeliveries
      BY <2>2 DEF HandlerSends, HandlerFindsClosed, HandlerTimesOut, AwaitedIsNumbered
    <3>. QED BY <2>2, <3>1, DeliveryType DEF HandlerSends, HandlerFindsClosed, HandlerTimesOut, PQ!Send
  <2>. QED BY <1>4, <2>1, <2>2 DEF MessageStep
<1>5. ASSUME NEW s \in Streams, ServerStep(s)
      PROVE  [PQ!Next]_(PQ!vars)
  <2>1. CASE ServerReadsInitial(s) \/ ServerSendsAction(s)
    BY <1>1, <2>1 DEF ServerReadsInitial, ServerSendsAction
  <2>2. CASE ServerCallsRecv(s) \/ ServerReceives(s)
    BY <2>2 DEF ServerCallsRecv, ServerReceives
  <2>3. CASE ServerReadsAckOrNack(s) \/ ServerReadsDisconnect(s)
    BY <1>1, <1>2, <2>3 DEF ServerReadsAckOrNack, ServerReadsDisconnect, AnswerOutstanding
  <2>4. CASE ServerSendFails(s) \/ ServerReadsEnd(s)
    BY <1>1, <1>2, <2>4 DEF ServerSendFails, ServerReadsEnd, DropOutstanding
  <2>. QED BY <1>5, <2>1, <2>2, <2>3, <2>4 DEF ServerStep
<1>6. ASSUME NEW s \in Streams, \/ ClientStep(s) \/ StopSignal(s)
                                \/ ConnectionBreaks(s) \/ WorkerCrashes(s)
      PROVE  [PQ!Next]_(PQ!vars)
  <2>1. UNCHANGED queueVars
    BY <1>6 DEF ClientStep, ClientConnects, ClientYields, ClientNacks, SinkExecutes,
       ClientStops, ClientPauses, ClientAcks, ClientResumes, DisconnectOrAck,
       ClientSeesEnd, StopSignal, ConnectionBreaks, WorkerCrashes, Fault, clientOthers
  <2>. QED BY <1>1, <2>1
<1>7. CASE CoordinatorStops
  BY <1>7 DEF CoordinatorStops
<1>8. CASE UNCHANGED vars
  BY <1>1, <1>8 DEF vars
<1>. QED BY <1>3, <1>4, <1>5, <1>6, <1>7, <1>8 DEF Next

(* The inductive invariant of the queue holds in the next state. *)
LEMMA QueueStepKept ==
    ASSUME TypeInv, [Next]_vars
    PROVE  Q!IInv' /\ PQ!TypeOK'
<1>1. [Q!Next]_(Q!vars)
  BY QueueRefined, SameNext DEF TypeInv, PQ!vars, Q!vars
<1>2. Q!IInv'
  BY <1>1, QueueConstants, Q!NextKeepsIInv DEF TypeInv
<1>3. Q!TypeOK'
  BY <1>2 DEF Q!IInv
<1>. QED BY <1>2, <1>3
     DEF PQ!TypeOK, PQ!AsyncActions, PQ!OneshotStates, PQ!RecvStates, PQ!ShutdownStates,
         Q!TypeOK, Q!AsyncActions, Q!OneshotStates, Q!RecvStates, Q!ShutdownStates

(* What a caller's step does to the state of the callers. *)
LEMMA CallerStepTypes ==
    ASSUME TypeInv, PQ!TypeOK',
           \/ \E c \in Calls : CallStep(c) \/ CallCancelled(c)
           \/ \E m \in Messages : MessageStep(m)
    PROVE  /\ TypeOK' /\ AwaitedIsNumbered'
           /\ UNCHANGED <<held, server>>
<1>. USE DEF TypeInv
<1>1. ASSUME NEW c \in Calls, AttemptFailed(c)
      PROVE  call' \in [Calls -> [attempt : 1..RpcAttempts, state : CallStates]]
  <2>. DEFINE k == call[c].attempt
  <2>1. call[c] \in [attempt : 1..RpcAttempts, state : CallStates]
    BY DEF TypeOK
  <2>2. CASE k < RpcAttempts
    <3>1. k + 1 \in 1..RpcAttempts
      BY <2>1, <2>2 DEF RpcAttempts
    <3>2. [attempt |-> k + 1, state |-> "try"] \in [attempt : 1..RpcAttempts, state : CallStates]
      BY <3>1 DEF CallStates
    <3>3. call' = [call EXCEPT ![c] = [attempt |-> k + 1, state |-> "try"]]
      BY <1>1, <2>2 DEF AttemptFailed
    <3>. QED BY <3>2, <3>3 DEF TypeOK
  <2>3. CASE ~(k < RpcAttempts)
    <3>1. call' = [call EXCEPT ![c] = [call[c] EXCEPT !.state = "error"]]
      BY <1>1, <2>3 DEF AttemptFailed
    <3>2. [call[c] EXCEPT !.state = "error"] \in [attempt : 1..RpcAttempts, state : CallStates]
      BY <2>1 DEF CallStates
    <3>. QED BY <3>1, <3>2 DEF TypeOK
  <2>. QED BY <2>2, <2>3
<1>2. ASSUME NEW c \in Calls, NEW st \in CallStates, call' = [call EXCEPT ![c].state = st]
      PROVE  call' \in [Calls -> [attempt : 1..RpcAttempts, state : CallStates]]
  BY <1>2 DEF TypeOK
<1>3. ASSUME NEW c \in Calls, CallStep(c) \/ CallCancelled(c)
      PROVE  /\ call' \in [Calls -> [attempt : 1..RpcAttempts, state : CallStates]]
             /\ UNCHANGED <<held, callOthers>>
  <2>1. CASE CreateActionFails(c) \/ CallFindsClosed(c) \/ CallGetsNackOrDrop(c)
    BY <1>1, <2>1 DEF CreateActionFails, CallFindsClosed, CallGetsNackOrDrop, queueVars,
       PQ!SendToClosed
  <2>2. CASE CallSends(c) \/ CallGetsAck(c) \/ CallCancelled(c)
    BY <1>2, <2>2 DEF CallSends, CallGetsAck, CallCancelled, CallStates, queueVars,
       PQ!SendSync, PQ!CallerGone
  <2>. QED BY <1>3, <2>1, <2>2 DEF CallStep
<1>4. ASSUME NEW m \in Messages, MessageStep(m)
      PROVE  /\ message' \in [Messages -> [delivery : 1..(MaxDeliveries + 1), state : MessageStates]]
             /\ AwaitedIsNumbered'
             /\ UNCHANGED <<held, messageOthers>>
  <2>1. UNCHANGED <<held, messageOthers>>
    BY <1>4 DEF MessageStep, HandlerSends, HandlerFindsClosed, HandlerGetsAck,
       HandlerGetsNackOrDrop, HandlerTimesOut, queueVars, PQ!SendAsync, PQ!SendToClosed,
       PQ!CallerGone
  <2>2. message[m].delivery \in 1..(MaxDeliveries + 1) /\ MaxDeliveries \in Nat
    BY CoordinatorAssumption DEF TypeOK
  <2>3. CASE /\ message[m].delivery <= MaxDeliveries
             /\ Redeliver(m)
    <3>1. message[m].delivery + 1 \in 1..(MaxDeliveries + 1)
      BY <2>2, <2>3
    <3>. QED BY <2>1, <2>3, <3>1 DEF Redeliver, TypeOK, MessageStates, AwaitedIsNumbered
  <2>4. CASE \E st \in {"await", "acked"} :
               /\ message' = [message EXCEPT ![m].state = st]
               /\ message[m].delivery <= MaxDeliveries
    BY <2>1, <2>4 DEF TypeOK, MessageStates, AwaitedIsNumbered
  <2>. QED BY <1>4, <2>3, <2>4 DEF MessageStep, HandlerSends, HandlerFindsClosed,
       HandlerGetsAck, HandlerGetsNackOrDrop, HandlerTimesOut, AwaitedIsNumbered
<1>5. CASE \E c \in Calls : CallStep(c) \/ CallCancelled(c)
  BY <1>3, <1>5 DEF callOthers, streamVars, clientVars, TypeOK, AwaitedIsNumbered
<1>6. CASE \E m \in Messages : MessageStep(m)
  BY <1>4, <1>6 DEF messageOthers, streamVars, clientVars, TypeOK
<1>. QED BY <1>5, <1>6

(* recv() answers nobody, hands the stream nothing but what was queued and *)
(* leaves the other streams alone.                                         *)
LEMMA RecvEffect ==
    ASSUME Q!IInv, NEW s \in Streams, PQ!RecvStart(s) \/ PQ!Recv(s) \/ PQ!RecvTimeout(s)
    PROVE  /\ oneshot' = oneshot
           /\ \A t \in Streams \ {s} : held'[t] = held[t]
           /\ held'[s] = held[s] \/ held'[s] \in Q!Queued
           /\ \A a \in Q!Queued' : a \in Q!Queued
<1>. USE DEF Q!IInv, Q!TypeOK
<1>1. CASE PQ!TakeSync(s)
  <2>1. /\ Head(syncQueue) \in Q!ToSet(syncQueue)
        /\ Q!ToSet(syncQueue') \subseteq Q!ToSet(syncQueue)
    <3>1. /\ syncQueue \in Seq(CallAttempts) /\ syncQueue # <<>> /\ Q!IsInjective(syncQueue)
          /\ syncQueue' = Tail(syncQueue)
      BY <1>1 DEF PQ!TakeSync, Q!OwnedOnce
    <3>. HIDE DEF Q!IInv, Q!TypeOK
    <3>. QED BY <3>1, Q!HeadInSet, Q!TailOfInjective, QueueConstants
  <2>. QED BY <1>1, <2>1 DEF PQ!TakeSync, PQ!Deliver, Q!Queued
<1>2. CASE PQ!TakeAsync(s)
  <2>1. /\ Head(asyncQueue) \in Q!ToSet(asyncQueue)
        /\ Q!ToSet(asyncQueue') \subseteq Q!ToSet(asyncQueue)
    <3>1. /\ asyncQueue \in Seq(Q!AsyncActions) /\ asyncQueue # <<>> /\ Q!IsInjective(asyncQueue)
          /\ asyncQueue' = Tail(asyncQueue)
      BY <1>2 DEF PQ!TakeAsync, Q!OwnedOnce
    <3>. HIDE DEF Q!IInv, Q!TypeOK
    <3>. QED BY <3>1, Q!HeadInSet, Q!TailOfInjective, QueueConstants
  <2>. QED BY <1>2, <2>1 DEF PQ!TakeAsync, PQ!Deliver, Q!Queued
<1>3. CASE UNCHANGED <<syncQueue, asyncQueue, oneshot, held>>
  BY <1>3 DEF Q!Queued
<1>. QED BY <1>1, <1>2, <1>3
     DEF PQ!RecvStart, PQ!RecvTimeout, PQ!Recv, PQ!RecvPollSync, PQ!RecvPollAsync,
         PQ!RecvWake, PQ!RecvAwaitSync, PQ!RecvClosed, PQ!SyncPending, PQ!AsyncNotReady,
         PQ!channels

(* Answering an outstanding action touches no other stream and no other    *)
(* caller, and a caller that is gone stays gone.                           *)
LEMMA ResolveEffect ==
    ASSUME Q!IInv, NEW s \in Streams, NEW answer \in {"acked", "nacked", "dropped"},
           PQ!Resolve(s, answer)
    PROVE  /\ held[s] \in Attempts /\ held'[s] = None
           /\ \A t \in Streams \ {s} : held'[t] = held[t]
           /\ \A a \in Attempts : oneshot'[a] =
                 IF a = held[s] /\ oneshot[a] = "waiting" THEN answer ELSE oneshot[a]
           /\ Q!Queued' = Q!Queued
BY DEF PQ!Resolve, PQ!AnswerOneshot, PQ!channels, Q!IInv, Q!TypeOK, Q!Queued

(* A server's step leaves the other streams and everything of the worker   *)
(* alone; the stream itself then has an action when it is about to send.   *)
LEMMA ServerFrame ==
    ASSUME TypeInv, NEW s \in Streams, ServerStep(s)
    PROVE  /\ UNCHANGED serverOthers
           /\ \A t \in Streams \ {s} :
                 /\ server'[t] = server[t] /\ requests'[t] = requests[t]
                 /\ responses'[t] = responses[t] /\ held'[t] = held[t]
           /\ server' \in [Streams -> ServerStates]
           /\ server'[s] = "sending" => held'[s] # None
<1>. USE DEF TypeInv, TypeOK
<1>1. CASE ServerReadsInitial(s)
  BY <1>1 DEF ServerReadsInitial, queueVars, ServerStates
<1>2. CASE ServerReadsAckOrNack(s)
  BY <1>2, ResolveEffect DEF ServerReadsAckOrNack, AnswerOutstanding, ServerStates
<1>3. CASE ServerReadsDisconnect(s)
  BY <1>3, ResolveEffect DEF ServerReadsDisconnect, AnswerOutstanding, ServerEnds,
     ServerStates, queueVars
<1>4. CASE ServerCallsRecv(s)
  BY <1>4, RecvEffect DEF ServerCallsRecv, ServerStates
<1>5. CASE ServerReceives(s)
  <2>1. \A t \in Streams \ {s} : held'[t] = held[t]
    BY <1>5, RecvEffect DEF ServerReceives
  <2>. QED BY <1>5, <2>1 DEF ServerReceives, ServerEnds, ServerStates
<1>6. CASE ServerSendsAction(s)
  BY <1>6 DEF ServerSendsAction, queueVars, ServerStates
<1>7. CASE ServerSendFails(s) \/ ServerReadsEnd(s)
  BY <1>7, ResolveEffect DEF ServerSendFails, ServerReadsEnd, DropOutstanding, ServerEnds,
     ServerStates, queueVars
<1>. QED BY <1>1, <1>2, <1>3, <1>4, <1>5, <1>6, <1>7 DEF ServerStep

(* A server's step keeps the types of the streams. *)
LEMMA ServerStepTypes ==
    ASSUME TypeInv, PQ!TypeOK', NEW s \in Streams, ServerStep(s)
    PROVE  TypeOK'
<1>. USE DEF TypeInv
<1>1. /\ requests[s] \in Seq(Requests) /\ responses[s] \in Seq(Attempts)
      /\ held[s] \in Attempts \cup {None}
  BY DEF TypeOK, PQ!TypeOK
<1>2. requests' \in [Streams -> Seq(Requests)]
  <2>1. requests[s] # <<>> => Tail(requests[s]) \in Seq(Requests)
    BY <1>1
  <2>2. <<>> \in Seq(Requests)
    OBVIOUS
  <2>3. \/ UNCHANGED requests
        \/ requests' = [requests EXCEPT ![s] = <<>>]
        \/ requests[s] # <<>> /\ requests' = [requests EXCEPT ![s] = Tail(@)]
    BY DEF ServerStep, ServerReadsInitial, ServerReadsAckOrNack, ServerReadsDisconnect,
       ServerCallsRecv, ServerReceives, ServerSendsAction, ServerSendFails,
       ServerReadsEnd, ServerEnds, ReadsRequest
  <2>. QED BY <2>1, <2>2, <2>3 DEF TypeOK
<1>3. responses' \in [Streams -> Seq(Attempts)]
  <2>1. CASE ServerSendsAction(s)
    <3>1. Append(responses[s], held[s]) \in Seq(Attempts)
      BY <1>1, <2>1 DEF ServerSendsAction, SendingHolds
    <3>. QED BY <2>1, <3>1 DEF ServerSendsAction, TypeOK
  <2>2. CASE UNCHANGED responses
    BY <2>2 DEF TypeOK
  <2>. QED BY <2>1, <2>2 DEF ServerStep, ServerReadsInitial, ServerReadsAckOrNack,
       ServerReadsDisconnect, ServerCallsRecv, ServerReceives, ServerSendFails, ServerReadsEnd
<1>4. verdict' \in [Attempts -> Attempts \cup {None}]
  <2>1. requests[s] # <<>> => NextRequest(s).of \in Attempts \cup {None}
    <3>1. requests[s] # <<>> => NextRequest(s) \in Requests
      BY <1>1 DEF NextRequest
    <3>. QED BY <3>1 DEF Requests
  <2>2. \/ UNCHANGED verdict
        \/ /\ requests[s] # <<>>
           /\ verdict' = [verdict EXCEPT ![held[s]] =
                             IF oneshot[held[s]] = "waiting" THEN NextRequest(s).of ELSE @]
    BY DEF ServerStep, ServerReadsInitial, ServerReadsAckOrNack, ServerReadsDisconnect,
       ServerCallsRecv, ServerReceives, ServerSendsAction, ServerSendFails,
       ServerReadsEnd, AnswerOutstanding, ReadsRequest
  <2>. QED BY <2>1, <2>2 DEF TypeOK
<1>5. server' \in [Streams -> ServerStates] /\ UNCHANGED serverOthers
  BY ServerFrame
<1>. QED BY <1>2, <1>3, <1>4, <1>5 DEF TypeOK, serverOthers, callerVars, clientVars

(* The requests a worker puts on its stream reach only that stream. *)
LEMMA PutEffect ==
    ASSUME TypeOK, NEW s \in Streams, NEW new \in Seq(Requests), Put(s, new)
    PROVE  /\ requests' \in [Streams -> Seq(Requests)]
           /\ \A t \in Streams \ {s} : requests'[t] = requests[t]
           /\ requests'[s] = IF link[s] /\ server[s] # "none"
                             THEN requests[s] \o new ELSE requests[s]
<1>1. requests[s] \o new \in Seq(Requests)
  BY DEF TypeOK
<1>. QED BY <1>1 DEF Put, TypeOK

(* What a worker puts on its stream are requests. *)
LEMMA PutTypes ==
    ASSUME TypeOK, NEW s \in Streams
    PROVE  /\ <<Initial>> \in Seq(Requests) /\ <<Nack>> \in Seq(Requests)
           /\ GracefulDisconnect(s) \in Seq(Requests)
           /\ <<Ack(Verdicts(s))>> \in Seq(Requests)
<1>1. Verdicts(s) \in Attempts \cup {None}
  BY DEF Verdicts, TypeOK
<1>2. /\ Initial \in Requests /\ Nack \in Requests /\ Stop \in Requests
      /\ Disconnect(Verdicts(s)) \in Requests /\ Ack(Verdicts(s)) \in Requests
  BY <1>1 DEF Initial, Nack, Stop, Disconnect, Ack, Requests
<1>. QED BY <1>2 DEF GracefulDisconnect

(* A worker's step keeps the types, touches neither the queue nor another  *)
(* stream's server.                                                        *)
LEMMA ClientStepTypes ==
    ASSUME TypeInv, PQ!TypeOK', NEW s \in Streams, ClientStep(s)
    PROVE  /\ TypeOK'
           /\ UNCHANGED clientOthers
           /\ \A t \in Streams : server'[t] = "sending" => server[t] = "sending"
<1>. USE DEF TypeInv
<1>1. CASE ClientConnects(s)
  BY <1>1, PutTypes DEF ClientConnects, TypeOK, ClientStates, ServerStates, clientOthers,
     callerVars
<1>2. CASE ClientYields(s)
  <2>1. Head(responses[s]) \in Attempts /\ Tail(responses[s]) \in Seq(Attempts)
    BY <1>2 DEF ClientYields, ClientTakesResponse, TypeOK
  <2>. QED BY <1>2, <2>1 DEF ClientYields, ClientTakesResponse, TypeOK, ClientStates,
       clientOthers, callerVars
<1>3. CASE ClientNacks(s)
  <2>1. Tail(responses[s]) \in Seq(Attempts)
    BY <1>3 DEF ClientNacks, ClientTakesResponse, TypeOK
  <2>2. requests' \in [Streams -> Seq(Requests)]
    BY <1>3, PutEffect, PutTypes DEF ClientNacks
  <2>. QED BY <1>3, <2>1, <2>2 DEF ClientNacks, ClientTakesResponse, TypeOK,
       clientOthers, callerVars
<1>4. CASE \E a \in executing[s] : SinkExecutes(s, a)
  <2>1. PICK a \in executing[s] : SinkExecutes(s, a)
    BY <1>4
  <2>2. a \in Attempts /\ executing[s] \ {a} \in SUBSET Attempts
    BY <2>1 DEF TypeOK
  <2>3. /\ executing' \in [Streams -> SUBSET Attempts]
        /\ executed' \in [Attempts -> Nat]
    BY <2>1, <2>2 DEF SinkExecutes, TypeOK
  <2>. QED BY <2>1, <2>3 DEF SinkExecutes, TypeOK, clientOthers, callerVars, streamVars
<1>5. CASE ClientStops(s) \/ ClientPauses(s)
  <2>1. requests' \in [Streams -> Seq(Requests)]
    BY <1>5, PutEffect, PutTypes DEF ClientStops, ClientPauses
  <2>. QED BY <1>5, <2>1 DEF ClientStops, ClientPauses, ClientWaits, TypeOK, ClientStates,
       clientOthers, callerVars
<1>6. CASE ClientAcks(s) \/ ClientResumes(s)
  <2>1. requests' \in [Streams -> Seq(Requests)]
    BY <1>6, PutEffect, PutTypes DEF ClientAcks, ClientResumes, DisconnectOrAck
  <2>. QED BY <1>6, <2>1 DEF ClientAcks, ClientResumes, DisconnectOrAck, ClientWaits,
       TypeOK, ClientStates, clientOthers, callerVars
<1>7. CASE ClientSeesEnd(s)
  BY <1>7 DEF ClientSeesEnd, TypeOK, ClientStates, clientOthers, callerVars
<1>. QED BY <1>1, <1>2, <1>3, <1>4, <1>5, <1>6, <1>7 DEF ClientStep

(* So do signals and faults. *)
LEMMA FaultStepTypes ==
    ASSUME TypeInv, PQ!TypeOK', NEW s \in Streams,
           StopSignal(s) \/ ConnectionBreaks(s) \/ WorkerCrashes(s)
    PROVE  TypeOK' /\ UNCHANGED <<queueVars, callerVars, verdict, server>>
<1>. USE DEF TypeInv
<1>1. CASE StopSignal(s)
  BY <1>1 DEF StopSignal, TypeOK, clientOthers, callerVars, streamVars
<1>2. CASE ConnectionBreaks(s) \/ WorkerCrashes(s)
  <2>1. Fault(s)
    BY <1>2 DEF ConnectionBreaks, WorkerCrashes
  <2>2. <<>> \in Seq(Requests) /\ <<>> \in Seq(Attempts)
    OBVIOUS
  <2>3. requests' \in [Streams -> Seq(Requests)] /\ link' \in [Streams -> BOOLEAN]
    BY <2>1, <2>2 DEF Fault, TypeOK
  <2>4. faults' \in 0..MaxFaults
    BY <2>1, CoordinatorAssumption DEF Fault, TypeOK
  <2>5. UNCHANGED <<queueVars, callerVars, verdict, server, executed>>
    BY <2>1 DEF Fault
  <2>6. /\ responses' \in [Streams -> Seq(Attempts)]
        /\ client' \in [Streams -> ClientStates]
        /\ current' \in [Streams -> Attempts \cup {None}]
        /\ executing' \in [Streams -> SUBSET Attempts]
        /\ shouldRun' \in [Streams -> BOOLEAN] /\ stopping' \in [Streams -> BOOLEAN]
    <3>1. CASE ConnectionBreaks(s)
      BY <3>1 DEF ConnectionBreaks, TypeOK
    <3>2. CASE WorkerCrashes(s)
      <4>1. responses' = [responses EXCEPT ![s] = <<>>]
        BY <3>2 DEF WorkerCrashes
      <4>2. responses' \in [Streams -> Seq(Attempts)]
        BY <2>2, <4>1 DEF TypeOK
      <4>3. executing' \in [Streams -> SUBSET Attempts]
        BY <3>2 DEF WorkerCrashes, TypeOK
      <4>. QED BY <3>2, <4>2, <4>3 DEF WorkerCrashes, TypeOK, ClientStates
    <3>. QED BY <1>2, <3>1, <3>2
  <2>. QED BY <2>3, <2>4, <2>5, <2>6 DEF TypeOK, callerVars
<1>. QED BY <1>1, <1>2

(* Every step keeps the type invariant and what it rests on. *)
LEMMA TypeStep == TypeInv /\ [Next]_vars => TypeInv'
<1>. SUFFICES ASSUME TypeInv, [Next]_vars PROVE TypeInv'
  OBVIOUS
<1>1. Q!IInv' /\ PQ!TypeOK'
  BY QueueStepKept
<1>2. CASE \/ \E c \in Calls : CallStep(c) \/ CallCancelled(c)
           \/ \E m \in Messages : MessageStep(m)
  BY <1>1, <1>2, CallerStepTypes DEF TypeInv, SendingHolds
<1>3. ASSUME NEW s \in Streams, ServerStep(s)
      PROVE  TypeInv'
  <2>1. SendingHolds'
    BY <1>3, ServerFrame DEF TypeInv, SendingHolds
  <2>2. AwaitedIsNumbered'
    BY <1>3, ServerFrame DEF TypeInv, AwaitedIsNumbered, serverOthers, callerVars
  <2>. QED BY <1>1, <1>3, <2>1, <2>2, ServerStepTypes DEF TypeInv
<1>4. ASSUME NEW s \in Streams, ClientStep(s)
      PROVE  TypeInv'
  BY <1>1, <1>4, ClientStepTypes
  DEF TypeInv, SendingHolds, AwaitedIsNumbered, clientOthers, callerVars, queueVars
<1>5. ASSUME NEW s \in Streams, StopSignal(s) \/ ConnectionBreaks(s) \/ WorkerCrashes(s)
      PROVE  TypeInv'
  BY <1>1, <1>5, FaultStepTypes
  DEF TypeInv, SendingHolds, AwaitedIsNumbered, callerVars, queueVars
<1>6. CASE CoordinatorStops
  <2>1. held' = held
    BY <1>6 DEF CoordinatorStops, PQ!ExitSignal, PQ!ShutdownStep, PQ!NackOne,
       PQ!NackAllDone, PQ!CloseSync, PQ!CloseAsync
  <2>. QED BY <1>1, <1>6, <2>1 DEF CoordinatorStops, TypeInv, TypeOK, SendingHolds,
       AwaitedIsNumbered, callerVars, streamVars, clientVars
<1>7. CASE UNCHANGED vars
  BY <1>1, <1>7 DEF vars, TypeInv, TypeOK, SendingHolds, AwaitedIsNumbered, callerVars,
     streamVars, clientVars, queueVars
<1>. QED BY <1>2, <1>3, <1>4, <1>5, <1>6, <1>7 DEF Next

(* The initial states satisfy the type invariant. *)
LEMMA TypeInit == Init => TypeInv
<1>. SUFFICES ASSUME Init PROVE TypeInv
  OBVIOUS
<1>1. Q!Init
  BY Zenon DEF Init, PQ!Init, Q!Init
<1>2. Q!IInv
  BY <1>1, QueueConstants, Q!InitIInv
<1>3. PQ!TypeOK
  BY <1>2 DEF Q!IInv,
         PQ!TypeOK, PQ!AsyncActions, PQ!OneshotStates, PQ!RecvStates, PQ!ShutdownStates,
         Q!TypeOK, Q!AsyncActions, Q!OneshotStates, Q!RecvStates, Q!ShutdownStates
<1>4. TypeOK
  <2>1. /\ call \in [Calls -> [attempt : 1..RpcAttempts, state : CallStates]]
        /\ message \in [Messages -> [delivery : 1..(MaxDeliveries + 1), state : MessageStates]]
    BY CoordinatorAssumption DEF Init, RpcAttempts, CallStates, MessageStates
  <2>2. /\ requests \in [Streams -> Seq(Requests)]
        /\ responses \in [Streams -> Seq(Attempts)]
    BY DEF Init
  <2>. QED BY <1>3, <2>1, <2>2, CoordinatorAssumption
       DEF Init, TypeOK, ServerStates, ClientStates
<1>. QED BY <1>2, <1>4 DEF Init, TypeInv, AwaitedIsNumbered, SendingHolds

(***************************************************************************)
(* Type correctness of the coordinator: the numbering of attempts and      *)
(* deliveries stays within process_action's two tries and the bound on     *)
(* deliveries, and a stream only ever sends an action it owns.             *)
(***************************************************************************)
THEOREM TypeCorrect == Spec => []TypeOK
<1>1. TypeInv => TypeOK
  BY DEF TypeInv
<1>. QED BY <1>1, TypeInit, TypeStep, PTL DEF Spec

(***************************************************************************)
(* The coordinator implements the queue's specification: whatever callers, *)
(* streams, workers and the shutdown handler do to the shared queue is one *)
(* step of PriorityQueue, so its theorems hold of the whole system.        *)
(***************************************************************************)
THEOREM ImplementsQueue == Spec => QueueSpec
<1>1. Init => PQ!Init
  BY DEF Init
<1>2. TypeInv /\ [Next]_vars => [PQ!Next]_(PQ!vars)
  BY QueueRefined DEF TypeInv
<1>. QED BY <1>1, <1>2, TypeInit, TypeStep, PTL DEF Spec, QueueSpec, PQ!Spec

-----------------------------------------------------------------------------
(***************************************************************************)
(* The stream protocol.  What is in transit on a stream is fixed by where  *)
(* its two ends are, so that an answer, which carries no usable ack_id,    *)
(* still belongs to the outstanding action.                                *)
(***************************************************************************)

(* The request the server is about to read answers what it holds. *)
Reading(s) ==
    IF requests[s] = <<>>
    THEN held[s] # None \/ ~link[s]
    ELSE \/ requests[s] = <<Initial>> /\ held[s] = None
         \/ requests[s] = <<Nack>> /\ held[s] # None
         \/ /\ held[s] # None /\ executed[held[s]] = 1
            /\ requests[s] = <<Ack(held[s])>> \/ NextRequest(s) = Disconnect(held[s])

ServerInv(s) ==
    /\ server[s] # "reading" => requests[s] = <<>>
    /\ server[s] \in {"none", "requesting", "receiving"} => held[s] = None
    /\ server[s] = "reading" => Reading(s)

(* At most one action is on its way to the worker, the outstanding one. *)
ResponseInv(s) ==
    responses[s] # <<>> =>
        /\ \E a \in Attempts : responses[s] = <<a>>
        /\ \/ server[s] = "none" /\ ~link[s]
           \/ server[s] = "reading" /\ requests[s] = <<>> /\ responses[s] = <<held[s]>>

(* On an intact connection the two ends agree whose turn it is. *)
LinkInv(s) ==
    link[s] =>
        /\ client[s] \in {"waiting", "yielded", "paused"}
        /\ client[s] = "waiting" =>
              ~(server[s] = "reading" /\ requests[s] = <<>> /\ responses[s] = <<>>)
        /\ client[s] = "yielded" =>
              /\ server[s] = "reading" /\ requests[s] = <<>> /\ responses[s] = <<>>
              /\ held[s] = current[s]
        /\ client[s] = "paused" =>
              /\ responses[s] = <<>>
              /\ \/ server[s] = "none"
                 \/ /\ server[s] = "reading" /\ requests[s] # <<>>
                    /\ NextRequest(s) = Disconnect(held[s])

(* The one sink greenlet works on the generator's current action or is     *)
(* done with it.                                                           *)
ClientInv(s) ==
    /\ client[s] \in {"off", "stopped", "waiting", "paused"} => executing[s] = {}
    /\ client[s] \in {"yielded", "paused"} => current[s] # None
    /\ client[s] = "yielded" =>
          /\ executing[s] \subseteq {current[s]}
          /\ current[s] \in executing[s] \/ executed[current[s]] = 1
    /\ client[s] = "paused" => executed[current[s]] = 1

StreamInv(s) == ServerInv(s) /\ ResponseInv(s) /\ LinkInv(s) /\ ClientInv(s)

(* No worker was sent the attempt yet. *)
Unsent(a) ==
    \/ oneshot[a] = "none"
    \/ a \in Q!Queued
    \/ \E s \in Streams : held[s] = a /\ server[s] = "sending"

AtWorker(a, s) == responses[s] = <<a>> \/ a \in executing[s]

AttemptInv(a) ==
    /\ executed[a] \in {0, 1}
    /\ Unsent(a) => executed[a] = 0 /\ \A s \in Streams : ~AtWorker(a, s)
    /\ \A s \in Streams : AtWorker(a, s) =>
          /\ executed[a] = 0
          /\ \A t \in Streams : AtWorker(a, t) => t = s
          /\ ~(responses[s] = <<a>> /\ a \in executing[s])
    /\ oneshot[a] = "acked" => executed[a] = 1 /\ verdict[a] = a

IInv ==
    /\ TypeInv
    /\ \A s \in Streams : StreamInv(s)
    /\ \A a \in Attempts : AttemptInv(a)

(* Sequences of one element. *)
LEMMA Singletons ==
    /\ \A x : <<x>> # <<>> /\ Head(<<x>>) = x /\ Tail(<<x>>) = <<>>
    /\ \A x, y : <<x>> = <<y>> => x = y
  OBVIOUS

(* What the next request on a stream says, by its type. *)
LEMMA NextRequestKinds ==
    ASSUME NEW s \in Streams, Reading(s), requests[s] # <<>>
    PROVE  /\ NextRequest(s).type \in {"initial", "ack", "nack", "disconnect"}
           /\ NextRequest(s).type = "initial" =>
                 requests[s] = <<Initial>> /\ held[s] = None
           /\ NextRequest(s).type = "nack" => requests[s] = <<Nack>> /\ held[s] # None
           /\ NextRequest(s).type \in {"ack", "disconnect"} =>
                 /\ NextRequest(s).of = held[s]
                 /\ held[s] # None /\ executed[held[s]] = 1
           /\ NextRequest(s).type # "disconnect" => Tail(requests[s]) = <<>>
           /\ NextRequest(s) = Disconnect(held[s]) => NextRequest(s).type = "disconnect"
<1>1. CASE requests[s] = <<Initial>> /\ held[s] = None
  BY <1>1, Singletons DEF NextRequest, Initial, Disconnect
<1>2. CASE requests[s] = <<Nack>> /\ held[s] # None
  BY <1>2, Singletons DEF NextRequest, Nack, Disconnect
<1>3. CASE /\ held[s] # None /\ executed[held[s]] = 1
           /\ requests[s] = <<Ack(held[s])>>
  BY <1>3, Singletons DEF NextRequest, Ack, Disconnect
<1>4. CASE /\ held[s] # None /\ executed[held[s]] = 1
           /\ NextRequest(s) = Disconnect(held[s])
  BY <1>4 DEF Disconnect
<1>. QED BY <1>1, <1>2, <1>3, <1>4 DEF Reading

(* A stream none of whose state changes stays as it is, also when rules    *)
(* are run on another one.                                                 *)
LEMMA StreamKept ==
    ASSUME NEW t \in Streams, StreamInv(t), TypeOK,
           server'[t] = server[t], link'[t] = link[t], requests'[t] = requests[t],
           responses'[t] = responses[t], held'[t] = held[t], client'[t] = client[t],
           current'[t] = current[t], executing'[t] = executing[t],
           \A a \in Attempts : executed[a] = 1 => executed'[a] = 1
    PROVE  StreamInv(t)'
<1>1. held[t] \in Attempts \cup {None} /\ current[t] \in Attempts \cup {None}
  BY DEF TypeOK, PQ!TypeOK
<1>2. ServerInv(t)'
  BY <1>1 DEF StreamInv, ServerInv, Reading, NextRequest
<1>3. ResponseInv(t)'
  BY DEF StreamInv, ResponseInv
<1>4. LinkInv(t)'
  BY DEF StreamInv, LinkInv, NextRequest
<1>5. ClientInv(t)'
  BY <1>1 DEF StreamInv, ClientInv
<1>. QED BY <1>2, <1>3, <1>4, <1>5 DEF StreamInv

(* An attempt that comes no closer to a worker and is not executed. *)
LEMMA AttemptKept ==
    ASSUME NEW a \in Attempts, AttemptInv(a),
           executed'[a] = executed[a],
           Unsent(a)' => Unsent(a),
           \A s \in Streams : responses'[s] = <<a>> => responses[s] = <<a>>,
           \A s \in Streams : a \in executing'[s] => a \in executing[s],
           oneshot'[a] = "acked" =>
              \/ oneshot[a] = "acked" /\ verdict'[a] = verdict[a]
              \/ executed[a] = 1 /\ verdict'[a] = a
    PROVE  AttemptInv(a)'
<1>1. \A s \in Streams : AtWorker(a, s)' => AtWorker(a, s)
  BY DEF AtWorker
<1>. QED BY <1>1 DEF AttemptInv

(* A step that leaves every stream alone, and neither unsends an attempt   *)
(* nor acks one.                                                           *)
LEMMA StreamsAlone ==
    ASSUME IInv, TypeInv',
           UNCHANGED <<held, verdict, streamVars, client, current, executing, executed>>,
           \A a \in Attempts : Unsent(a)' => Unsent(a),
           \A a \in Attempts : oneshot'[a] = "acked" => oneshot[a] = "acked"
    PROVE  IInv'
<1>1. /\ UNCHANGED <<held, verdict, server, link, requests, responses>>
      /\ UNCHANGED <<client, current, executing, executed>>
  BY DEF streamVars
<1>2. ASSUME NEW s \in Streams PROVE StreamInv(s)'
  BY <1>1, StreamKept DEF IInv, TypeInv
<1>3. ASSUME NEW a \in Attempts PROVE AttemptInv(a)'
  BY <1>1, AttemptKept DEF IInv
<1>. QED BY <1>2, <1>3 DEF IInv

-----------------------------------------------------------------------------
(* Callers and the shutdown handler never touch a stream. *)
LEMMA CallerStepKeeps ==
    ASSUME IInv, TypeInv',
           \/ \E c \in Calls : CallStep(c) \/ CallCancelled(c)
           \/ \E m \in Messages : MessageStep(m)
           \/ CoordinatorStops
    PROVE  IInv'
<1>. DEFINE Kept == /\ UNCHANGED <<held, verdict, streamVars, clientVars>>
                    /\ \A a \in Attempts : Unsent(a)' => Unsent(a)
                    /\ \A a \in Attempts : oneshot'[a] = "acked" => oneshot[a] = "acked"
<1>1. oneshot \in [Attempts -> Q!OneshotStates] /\ Q!IInv
  BY DEF IInv, TypeInv, Q!IInv, Q!TypeOK
<1>2. ASSUME UNCHANGED <<queueVars, verdict, streamVars, clientVars>> PROVE Kept
  BY <1>2 DEF queueVars, streamVars, Unsent, Q!Queued
<1>3. ASSUME NEW a \in Attempts, PQ!SendSync(a) \/ PQ!SendAsync(a),
             UNCHANGED <<verdict, streamVars, clientVars>>
      PROVE  Kept
  <2>1. /\ UNCHANGED <<held, server>> /\ oneshot[a] = "none"
        /\ oneshot' = [oneshot EXCEPT ![a] = "waiting"]
    BY <1>3 DEF PQ!SendSync, PQ!SendAsync, streamVars
  <2>2. \A b : b \in Q!Queued' => b \in Q!Queued \/ b = a
    <3>1. CASE PQ!SendSync(a)
      <4>1. /\ syncQueue \in Seq(CallAttempts) /\ a \in CallAttempts
            /\ syncQueue' = Append(syncQueue, a) /\ asyncQueue' = asyncQueue
        BY <1>1, <3>1 DEF PQ!SendSync, Q!IInv, Q!TypeOK
      <4>. QED BY <4>1, Q!AppendToSet, QueueConstants DEF Q!Queued
    <3>2. CASE PQ!SendAsync(a)
      <4>1. /\ asyncQueue \in Seq(Q!AsyncActions) /\ a \in Q!AsyncActions
            /\ asyncQueue' = Append(asyncQueue, a) /\ syncQueue' = syncQueue
        BY <1>1, <3>2 DEF PQ!SendAsync, Q!IInv, Q!TypeOK, Q!AsyncActions, PQ!AsyncActions
      <4>. QED BY <4>1, Q!AppendToSet, QueueConstants DEF Q!Queued
    <3>. QED BY <1>3, <3>1, <3>2
  <2>. QED BY <1>1, <1>3, <2>1, <2>2 DEF Unsent
<1>4. ASSUME NEW a \in Attempts, PQ!SendToClosed(a) \/ PQ!CallerGone(a),
             UNCHANGED <<verdict, streamVars, clientVars>>
      PROVE  Kept
  <2>1. /\ UNCHANGED <<held, server>> /\ Q!Queued' = Q!Queued
        /\ \E st \in {"dropped", "closed"} : oneshot' = [oneshot EXCEPT ![a] = st]
    BY <1>4 DEF PQ!SendToClosed, PQ!CallerGone, PQ!channels, streamVars, Q!Queued
  <2>. QED BY <1>1, <1>4, <2>1 DEF Unsent
<1>5. CASE \E c \in Calls : CallStep(c) \/ CallCancelled(c)
  <2>1. PICK c \in Calls : CallStep(c) \/ CallCancelled(c)
    BY <1>5
  <2>2. CallAttempt(c) \in Attempts /\ UNCHANGED <<verdict, streamVars, clientVars>>
    BY <2>1, CallAttemptType DEF IInv, TypeInv, CallStep, CreateActionFails, CallSends,
       CallFindsClosed, CallGetsAck, CallGetsNackOrDrop, CallCancelled, callOthers
  <2>3. Kept
    BY <1>2, <1>3, <1>4, <2>1, <2>2 DEF CallStep, CreateActionFails, CallSends,
       CallFindsClosed, CallGetsAck, CallGetsNackOrDrop, CallCancelled
  <2>. QED BY <2>3, StreamsAlone DEF clientVars
<1>6. CASE \E m \in Messages : MessageStep(m)
  <2>1. PICK m \in Messages : MessageStep(m)
    BY <1>6
  <2>2. UNCHANGED <<verdict, streamVars, clientVars>>
    BY <2>1 DEF MessageStep, HandlerSends, HandlerFindsClosed, HandlerGetsAck,
       HandlerGetsNackOrDrop, HandlerTimesOut, messageOthers
  <2>3. message[m].delivery <= MaxDeliveries
    BY <2>1 DEF MessageStep, HandlerSends, HandlerFindsClosed, HandlerGetsAck,
       HandlerGetsNackOrDrop, HandlerTimesOut, IInv, TypeInv, AwaitedIsNumbered
  <2>4. Delivery(m) \in Attempts
    BY <2>3, DeliveryType DEF IInv, TypeInv
  <2>5. Kept
    BY <1>2, <1>3, <1>4, <2>1, <2>2, <2>4 DEF MessageStep, HandlerSends,
       HandlerFindsClosed, HandlerGetsAck, HandlerGetsNackOrDrop, HandlerTimesOut
  <2>. QED BY <2>5, StreamsAlone DEF clientVars
<1>7. CASE CoordinatorStops
  <2>1. UNCHANGED <<held, verdict, streamVars, clientVars>>
    BY <1>7 DEF CoordinatorStops, PQ!ExitSignal, PQ!ShutdownStep, PQ!NackOne,
       PQ!NackAllDone, PQ!CloseSync, PQ!CloseAsync
  <2>2. Kept
    <3>1. CASE PQ!NackOne
      <4>. DEFINE a == Head(asyncQueue)
      <4>1. /\ asyncQueue \in Seq(Q!AsyncActions) /\ asyncQueue # <<>>
            /\ asyncQueue' = Tail(asyncQueue) /\ syncQueue' = syncQueue
            /\ Q!IsInjective(asyncQueue)
            /\ oneshot' = [oneshot EXCEPT ![a] = IF @ = "waiting" THEN "nacked" ELSE @]
        BY <1>1, <3>1 DEF PQ!NackOne, PQ!AnswerOneshot, Q!IInv, Q!TypeOK, Q!OwnedOnce
      <4>2. \A b : b \in Q!Queued' => b \in Q!Queued
        BY <4>1, Q!TailOfInjective, QueueConstants DEF Q!Queued
      <4>3. \A b \in Attempts : oneshot'[b] \in {"none", "acked"} => oneshot'[b] = oneshot[b]
        BY <1>1, <4>1
      <4>. QED BY <2>1, <4>2, <4>3 DEF Unsent, streamVars
    <3>2. CASE UNCHANGED <<syncQueue, asyncQueue, oneshot>>
      BY <2>1, <3>2 DEF Unsent, Q!Queued, streamVars
    <3>. QED BY <1>7, <3>1, <3>2 DEF CoordinatorStops, PQ!ExitSignal, PQ!ShutdownStep,
         PQ!NackAllDone, PQ!CloseSync, PQ!CloseAsync, PQ!channels
  <2>. QED BY <2>2, StreamsAlone DEF clientVars
<1>. QED BY <1>5, <1>6, <1>7

(* The stream of a server's step: everything of its worker is unchanged,   *)
(* so only the server's phase, the requests, the responses and the         *)
(* outstanding action matter.                                              *)
LEMMA ServerStepStream ==
    ASSUME IInv, TypeInv', NEW s \in Streams, ServerStep(s)
    PROVE  StreamInv(s)'
<1>. DEFINE Quiet == requests'[s] = <<>> /\ responses'[s] = <<>>
<1>1. /\ link' = link /\ client' = client /\ current' = current
      /\ executing' = executing /\ executed' = executed
      /\ ServerInv(s) /\ ResponseInv(s) /\ LinkInv(s) /\ ClientInv(s)
      /\ TypeOK /\ Q!IInv
  BY ServerFrame DEF IInv, TypeInv, StreamInv, serverOthers, clientVars
<1>2. /\ server \in [Streams -> ServerStates] /\ requests \in [Streams -> Seq(Requests)]
      /\ responses \in [Streams -> Seq(Attempts)]
      /\ held[s] \in Attempts \cup {None} /\ held'[s] \in Attempts \cup {None}
  BY DEF IInv, TypeInv, TypeOK, PQ!TypeOK
<1>3. ClientInv(s)'
  BY <1>1 DEF ClientInv
<1>4. requests[s] # <<>> => responses[s] = <<>>
  BY <1>1 DEF ResponseInv, ServerInv
(* Phases in which nothing is in transit. *)
<1>5. ASSUME Quiet, server'[s] \in {"none", "requesting", "receiving", "sending"},
             server'[s] # "sending" => held'[s] = None,
             link[s] => client[s] = "waiting" \/ (client[s] = "paused" /\ server'[s] = "none")
      PROVE  StreamInv(s)'
  <2>1. ServerInv(s)' /\ ResponseInv(s)'
    BY <1>5 DEF ServerInv, ResponseInv
  <2>2. LinkInv(s)'
    BY <1>1, <1>5 DEF LinkInv
  <2>. QED BY <1>3, <2>1, <2>2 DEF StreamInv
<1>6. CASE ServerReadsInitial(s) \/ ServerReadsAckOrNack(s)
  <2>1. /\ server[s] = "reading" /\ requests[s] # <<>>
        /\ NextRequest(s).type \in {"initial", "ack", "nack"}
        /\ requests'[s] = Tail(requests[s]) /\ server'[s] = "requesting"
        /\ responses' = responses
    BY <1>2, <1>6 DEF ServerReadsInitial, ServerReadsAckOrNack, ReadsRequest
  <2>2. Reading(s)
    BY <1>1, <2>1 DEF ServerInv
  <2>3. Tail(requests[s]) = <<>> /\ NextRequest(s) # Disconnect(held[s])
    BY <2>1, <2>2, NextRequestKinds
  <2>4. held'[s] = None
    BY <1>1, <1>6, ResolveEffect DEF ServerReadsInitial, ServerReadsAckOrNack, AnswerOutstanding,
       queueVars
  <2>5. link[s] => client[s] = "waiting"
    BY <1>1, <2>1, <2>3 DEF LinkInv
  <2>. QED BY <1>4, <1>5, <2>1, <2>3, <2>4, <2>5
<1>7. CASE ServerReadsDisconnect(s)
  <2>1. /\ server[s] = "reading" /\ requests[s] # <<>>
        /\ requests'[s] = <<>> /\ server'[s] = "none" /\ responses' = responses
    BY <1>2, <1>7 DEF ServerReadsDisconnect, ReadsRequest, ServerEnds
  <2>2. held'[s] = None
    BY <1>1, <1>7, ResolveEffect DEF ServerReadsDisconnect, AnswerOutstanding, queueVars
  <2>3. link[s] => client[s] \in {"waiting", "paused"}
    BY <1>1, <2>1 DEF LinkInv
  <2>. QED BY <1>4, <1>5, <2>1, <2>2, <2>3
<1>8. CASE ServerCallsRecv(s) \/ ServerReceives(s)
  <2>1. server[s] \in {"requesting", "receiving"} /\ responses' = responses
    BY <1>8 DEF ServerCallsRecv, ServerReceives
  <2>2. /\ requests[s] = <<>> /\ responses[s] = <<>> /\ held[s] = None
        /\ link[s] => client[s] = "waiting"
    BY <1>1, <2>1 DEF ServerInv, ResponseInv, LinkInv
  <2>3. /\ requests'[s] = <<>>
        /\ server'[s] \in {"none", "receiving", "sending"}
        /\ server'[s] # "sending" => held'[s] = None
    <3>1. CASE ServerCallsRecv(s)
      BY <1>2, <2>2, <3>1 DEF ServerCallsRecv, PQ!RecvStart
    <3>2. CASE ServerReceives(s)
      BY <1>2, <2>2, <3>2 DEF ServerReceives, ServerEnds
    <3>. QED BY <1>8, <3>1, <3>2
  <2>. QED BY <1>5, <2>1, <2>2, <2>3
<1>9. CASE ServerSendsAction(s)
  <2>1. /\ server[s] = "sending" /\ server'[s] = "reading"
        /\ responses'[s] = Append(responses[s], held[s])
        /\ requests' = requests /\ held' = held
    BY <1>2, <1>9 DEF ServerSendsAction, queueVars
  <2>2. /\ requests[s] = <<>> /\ responses[s] = <<>> /\ held[s] # None
        /\ link[s] => client[s] = "waiting"
    BY <1>1, <2>1 DEF ServerInv, ResponseInv, LinkInv, IInv, TypeInv, SendingHolds
  <2>3. responses'[s] = <<held[s]>> /\ responses'[s] # <<>>
    BY <2>1, <2>2, Singletons
  <2>4. ServerInv(s)'
    BY <2>1, <2>2 DEF ServerInv, Reading
  <2>5. ResponseInv(s)'
    BY <1>2, <2>1, <2>2, <2>3 DEF ResponseInv
  <2>6. LinkInv(s)'
    BY <1>1, <2>2, <2>3 DEF LinkInv
  <2>. QED BY <1>3, <2>4, <2>5, <2>6 DEF StreamInv
<1>10. CASE ServerSendFails(s) \/ ServerReadsEnd(s)
  <2>1. /\ server[s] \in {"sending", "reading"} /\ server'[s] = "none"
        /\ requests'[s] = <<>> /\ responses' = responses
    BY <1>2, <1>10 DEF ServerSendFails, ServerReadsEnd, ServerEnds
  <2>2. ~link[s]
    <3>1. server[s] = "reading" /\ requests[s] # <<>> => NextRequest(s) # Stop
      BY <1>1, NextRequestKinds DEF ServerInv, Stop
    <3>. QED BY <1>10, <3>1 DEF ServerSendFails, ServerReadsEnd
  <2>3. held'[s] = None
    BY <1>1, <1>10, ResolveEffect DEF ServerSendFails, ServerReadsEnd, DropOutstanding, queueVars
  <2>4. ServerInv(s)' /\ LinkInv(s)'
    BY <1>1, <2>1, <2>2, <2>3 DEF ServerInv, LinkInv
  <2>5. ResponseInv(s)'
    BY <1>1, <2>1, <2>2 DEF ResponseInv
  <2>. QED BY <1>3, <2>4, <2>5 DEF StreamInv
<1>. QED BY <1>6, <1>7, <1>8, <1>9, <1>10 DEF ServerStep

(* The outstanding action of a stream is nowhere else. *)
LEMMA HeldNowhereElse ==
    ASSUME Q!IInv, NEW s \in Streams, held[s] # None
    PROVE  /\ held[s] \in Attempts /\ oneshot[held[s]] # "none" /\ held[s] \notin Q!Queued
           /\ \A t \in Streams : held[t] = held[s] => t = s
BY DEF Q!IInv, Q!TypeOK, Q!OwnedOnce, Q!FreshIsNowhere, Q!Queued

(* The attempts after a server's step: sending moves the outstanding       *)
(* action to the worker, an ack finds it executed.                         *)
LEMMA ServerStepAttempts ==
    ASSUME IInv, TypeInv', NEW s \in Streams, ServerStep(s), NEW a \in Attempts
    PROVE  AttemptInv(a)'
<1>1. /\ executing' = executing /\ executed' = executed
      /\ AttemptInv(a) /\ StreamInv(s) /\ TypeOK /\ Q!IInv
      /\ \A t \in Streams \ {s} :
            server'[t] = server[t] /\ responses'[t] = responses[t] /\ held'[t] = held[t]
  BY ServerFrame DEF IInv, TypeInv, serverOthers, clientVars
<1>2. /\ server \in [Streams -> ServerStates] /\ responses \in [Streams -> Seq(Attempts)]
      /\ oneshot \in [Attempts -> Q!OneshotStates]
      /\ verdict \in [Attempts -> Attempts \cup {None}]
      /\ held[s] \in Attempts \cup {None}
  BY <1>1 DEF TypeOK, PQ!TypeOK, Q!IInv, Q!TypeOK
<1>3. CASE ServerReadsInitial(s)
  <2>1. /\ UNCHANGED <<oneshot, held, verdict, responses>> /\ Q!Queued' = Q!Queued
        /\ server'[s] = "requesting"
    BY <1>2, <1>3 DEF ServerReadsInitial, queueVars, Q!Queued
  <2>2. Unsent(a)' => Unsent(a)
    BY <1>1, <2>1 DEF Unsent
  <2>. QED BY <1>1, <2>1, <2>2, AttemptKept
<1>4. CASE \/ ServerReadsAckOrNack(s) \/ ServerReadsDisconnect(s)
  <2>1. /\ server[s] = "reading" /\ requests[s] # <<>>
        /\ NextRequest(s).type \in {"ack", "nack", "disconnect"}
        /\ server'[s] # "sending" /\ responses' = responses
    BY <1>2, <1>4 DEF ServerReadsAckOrNack, ServerReadsDisconnect, ReadsRequest, ServerEnds
  <2>2. /\ held[s] # None
        /\ NextRequest(s).type # "nack" => NextRequest(s).of = held[s] /\ executed[held[s]] = 1
    BY <1>1, <2>1, NextRequestKinds DEF StreamInv, ServerInv
  <2>. DEFINE answer == IF NextRequest(s).type = "nack" THEN "nacked" ELSE "acked"
  <2>3. AnswerOutstanding(s, answer)
    <3>1. CASE ServerReadsAckOrNack(s)
      <4>1. CASE NextRequest(s).type = "ack"
        BY <3>1, <4>1 DEF ServerReadsAckOrNack
      <4>2. CASE NextRequest(s).type = "nack"
        BY <3>1, <4>2 DEF ServerReadsAckOrNack
      <4>. QED BY <3>1, <4>1, <4>2 DEF ServerReadsAckOrNack, ReadsRequest
    <3>2. CASE ServerReadsDisconnect(s)
      BY <2>2, <3>2 DEF ServerReadsDisconnect, ReadsRequest
    <3>. QED BY <1>4, <3>1, <3>2
  <2>4. PQ!Resolve(s, answer)
    BY <2>3 DEF AnswerOutstanding
  <2>5. /\ held'[s] = None /\ Q!Queued' = Q!Queued
        /\ oneshot'[a] = IF a = held[s] /\ oneshot[a] = "waiting" THEN answer ELSE oneshot[a]
    BY <1>1, <2>4, ResolveEffect
  <2>6. Unsent(a)' => Unsent(a)
    BY <1>1, <2>1, <2>5 DEF Unsent
  <2>7. verdict'[a] = IF a = held[s] /\ oneshot[a] = "waiting"
                      THEN NextRequest(s).of ELSE verdict[a]
    BY <1>2, <2>3 DEF AnswerOutstanding
  <2>8. oneshot'[a] = "acked" => \/ oneshot[a] = "acked" /\ verdict'[a] = verdict[a]
                                 \/ executed[a] = 1 /\ verdict'[a] = a
    BY <2>2, <2>3, <2>5, <2>7
  <2>. QED BY <1>1, <2>1, <2>6, <2>8, AttemptKept
<1>5. CASE ServerCallsRecv(s) \/ ServerReceives(s)
  <2>1. /\ server[s] \in {"requesting", "receiving"}
        /\ PQ!RecvStart(s) \/ PQ!Recv(s) \/ PQ!RecvTimeout(s)
        /\ UNCHANGED <<verdict, responses>>
    BY <1>5 DEF ServerCallsRecv, ServerReceives
  <2>2. held[s] = None
    BY <1>1, <2>1 DEF StreamInv, ServerInv
  <2>3. /\ oneshot' = oneshot
        /\ held'[s] = None \/ held'[s] \in Q!Queued
        /\ \A b \in Q!Queued' : b \in Q!Queued
    BY <1>1, <2>1, <2>2, RecvEffect
  <2>4. Unsent(a)' => Unsent(a)
    BY <1>1, <2>3, QueueConstants DEF Unsent
  <2>. QED BY <1>1, <2>1, <2>3, <2>4, AttemptKept
<1>6. CASE ServerSendsAction(s)
  <2>1. /\ server[s] = "sending" /\ server'[s] = "reading"
        /\ responses'[s] = Append(responses[s], held[s])
        /\ UNCHANGED <<oneshot, held, verdict>> /\ Q!Queued' = Q!Queued
    BY <1>2, <1>6 DEF ServerSendsAction, queueVars, Q!Queued
  <2>2. responses[s] = <<>> /\ held[s] # None
    BY <1>1, <2>1 DEF StreamInv, ResponseInv, IInv, TypeInv, SendingHolds
  <2>3. responses'[s] = <<held[s]>>
    BY <2>1, <2>2
  <2>4. Unsent(a)' => Unsent(a)
    BY <1>1, <2>1 DEF Unsent
  <2>5. CASE a # held[s]
    <3>1. \A t \in Streams : responses'[t] = <<a>> => responses[t] = <<a>>
      BY <1>1, <2>3, <2>5, Singletons
    <3>. QED BY <1>1, <2>1, <2>4, <3>1, AttemptKept
  <2>6. CASE a = held[s]
    <3>1. Unsent(a)
      BY <2>1, <2>6 DEF Unsent
    <3>2. executed[a] = 0 /\ \A t \in Streams : ~AtWorker(a, t)
      BY <1>1, <3>1 DEF AttemptInv
    <3>3. ~Unsent(a)'
      BY <1>1, <2>1, <2>2, <2>6, HeldNowhereElse DEF Unsent
    <3>4. \A t \in Streams : AtWorker(a, t)' => t = s /\ a \notin executing[t]
      BY <1>1, <3>2 DEF AtWorker
    <3>. QED BY <1>1, <2>1, <3>2, <3>3, <3>4 DEF AttemptInv
  <2>. QED BY <2>5, <2>6
<1>7. CASE ServerSendFails(s) \/ ServerReadsEnd(s)
  <2>1. /\ server'[s] = "none" /\ UNCHANGED <<verdict, responses>> /\ DropOutstanding(s)
    BY <1>2, <1>7 DEF ServerSendFails, ServerReadsEnd, ServerEnds
  <2>2. /\ Q!Queued' = Q!Queued
        /\ oneshot'[a] \in {oneshot[a], "dropped"}
    BY <1>1, <2>1, ResolveEffect DEF DropOutstanding, queueVars, Q!Queued
  <2>3. Unsent(a)' => Unsent(a)
    BY <1>1, <2>1, <2>2 DEF Unsent
  <2>. QED BY <1>1, <2>1, <2>2, <2>3, AttemptKept
<1>. QED BY <1>3, <1>4, <1>5, <1>6, <1>7 DEF ServerStep

(* A server's step keeps the inductive invariant. *)
LEMMA ServerStepKeeps ==
    ASSUME IInv, TypeInv', NEW s \in Streams, ServerStep(s)
    PROVE  IInv'
<1>1. ASSUME NEW t \in Streams PROVE StreamInv(t)'
  <2>1. CASE t = s
    BY <2>1, ServerStepStream
  <2>2. CASE t # s
    BY <2>2, ServerFrame, StreamKept DEF IInv, TypeInv, serverOthers, clientVars
  <2>. QED BY <2>1, <2>2
<1>. QED BY <1>1, ServerStepAttempts DEF IInv

(* The generator is asked for the next action only when the sink greenlet  *)
(* is done with the current one: this is where one greenlet per worker is  *)
(* needed.                                                                 *)
LEMMA AskedAfterExecution ==
    ASSUME SinkWorkers = 1, IInv, NEW s \in Streams, SinkAsksForNext(s)
    PROVE  executing[s] = {} /\ executed[current[s]] = 1
<1>1. /\ executing[s] \subseteq {current[s]}
      /\ current[s] \in executing[s] \/ executed[current[s]] = 1
  BY DEF IInv, StreamInv, ClientInv, SinkAsksForNext
<1>2. executing[s] # {current[s]}
  <2>1. Cardinality({current[s]}) = 1
    BY FS_Singleton
  <2>2. Cardinality(executing[s]) < 1
    BY DEF SinkAsksForNext
  <2>. QED BY <2>1, <2>2
<1>. QED BY <1>1, <1>2

(* An answer the worker puts on its stream, once it executed the current   *)
(* action, answers that action.                                            *)
LEMMA AnswerPut ==
    ASSUME IInv, NEW s \in Streams, client[s] \in {"yielded", "paused"},
           executing[s] = {}, executed[current[s]] = 1,
           NEW new \in {GracefulDisconnect(s), <<Ack(Verdicts(s))>>}, Put(s, new),
           held' = held, server' = server, link' = link, responses' = responses,
           executed' = executed
    PROVE  /\ ServerInv(s)' /\ ResponseInv(s)'
           /\ \A t \in Streams \ {s} : requests'[t] = requests[t]
           /\ link[s] => /\ responses[s] = <<>>
                         /\ \/ server[s] = "none"
                            \/ server[s] = "reading" /\ requests'[s] # <<>>
           /\ link[s] /\ client[s] = "yielded" /\ new = GracefulDisconnect(s) =>
                 server[s] = "reading" /\ NextRequest(s)' = Disconnect(held[s])
<1>1. TypeOK /\ ServerInv(s) /\ ResponseInv(s) /\ LinkInv(s) /\ ClientInv(s)
  BY DEF IInv, TypeInv, StreamInv
<1>2. /\ current[s] # None /\ current[s] \in Attempts /\ Verdicts(s) = current[s]
      /\ requests[s] \in Seq(Requests)
  BY <1>1 DEF ClientInv, TypeOK, Verdicts
<1>3. new \in Seq(Requests) /\ new # <<>>
  BY <1>1, PutTypes, Singletons DEF GracefulDisconnect
<1>4. /\ \A t \in Streams \ {s} : requests'[t] = requests[t]
      /\ requests'[s] = IF link[s] /\ server[s] # "none"
                        THEN requests[s] \o new ELSE requests[s]
  BY <1>1, <1>3, PutEffect
<1>5. CASE ~link[s] \/ server[s] = "none"
  <2>1. requests'[s] = requests[s]
    BY <1>4, <1>5
  <2>2. ServerInv(s)' /\ ResponseInv(s)'
    BY <1>1, <2>1 DEF ServerInv, ResponseInv, Reading, NextRequest
  <2>3. link[s] => server[s] = "none" /\ client[s] = "paused" /\ responses[s] = <<>>
    BY <1>1, <1>5 DEF LinkInv
  <2>. QED BY <1>4, <2>2, <2>3
<1>6. CASE link[s] /\ client[s] = "yielded"
  <2>1. /\ server[s] = "reading" /\ requests[s] = <<>> /\ responses[s] = <<>>
        /\ held[s] = current[s]
    BY <1>1, <1>6 DEF LinkInv
  <2>2. requests'[s] = new
    BY <1>3, <1>4, <1>6, <2>1
  <2>3. CASE new = GracefulDisconnect(s)
    <3>1. Head(new) = Disconnect(held[s])
      BY <1>2, <2>1, <2>3 DEF GracefulDisconnect
    <3>. QED BY <1>2, <1>3, <1>4, <2>1, <2>2, <3>1
         DEF ServerInv, ResponseInv, Reading, NextRequest
  <2>4. CASE new = <<Ack(Verdicts(s))>>
    <3>1. new = <<Ack(held[s])>> /\ new # GracefulDisconnect(s)
      BY <1>2, <2>1, <2>4 DEF GracefulDisconnect
    <3>. QED BY <1>2, <1>3, <1>4, <2>1, <2>2, <3>1 DEF ServerInv, ResponseInv, Reading
  <2>. QED BY <2>3, <2>4
<1>7. CASE link[s] /\ client[s] = "paused" /\ server[s] # "none"
  <2>1. /\ server[s] = "reading" /\ requests[s] # <<>> /\ responses[s] = <<>>
        /\ NextRequest(s) = Disconnect(held[s])
    BY <1>1, <1>7 DEF LinkInv
  <2>2. requests'[s] = requests[s] \o new
    BY <1>4, <1>7, <2>1
  <2>3. requests'[s] # <<>> /\ Head(requests'[s]) = Head(requests[s])
    BY <1>2, <1>3, <2>1, <2>2
  <2>4. held[s] # None /\ executed[held[s]] = 1
    <3>1. NextRequest(s).type = "disconnect"
      BY <2>1 DEF Disconnect
    <3>. QED BY <1>1, <2>1, <3>1, NextRequestKinds DEF ServerInv
  <2>5. NextRequest(s)' = Disconnect(held[s])
    BY <2>1, <2>3 DEF NextRequest
  <2>6. ServerInv(s)' /\ ResponseInv(s)'
    BY <2>1, <2>3, <2>4, <2>5 DEF ServerInv, ResponseInv, Reading
  <2>. QED BY <1>4, <1>7, <2>1, <2>3, <2>6
<1>. QED BY <1>5, <1>6, <1>7

(* The stream of a worker's step. *)
LEMMA ClientStepStream ==
    ASSUME SinkWorkers = 1, IInv, TypeInv', NEW s \in Streams, ClientStep(s)
    PROVE  /\ StreamInv(s)'
           /\ \A t \in Streams \ {s} :
                 /\ server'[t] = server[t] /\ link'[t] = link[t]
                 /\ requests'[t] = requests[t] /\ responses'[t] = responses[t]
                 /\ client'[t] = client[t] /\ current'[t] = current[t]
                 /\ executing'[t] = executing[t]
           /\ \A a \in Attempts : executed[a] = 1 => executed'[a] = 1
<1>. DEFINE Frame ==
        /\ \A t \in Streams \ {s} :
              /\ server'[t] = server[t] /\ link'[t] = link[t]
              /\ requests'[t] = requests[t] /\ responses'[t] = responses[t]
              /\ client'[t] = client[t] /\ current'[t] = current[t]
              /\ executing'[t] = executing[t]
        /\ \A a \in Attempts : executed[a] = 1 => executed'[a] = 1
<1>1. /\ TypeOK /\ TypeOK' /\ held' = held
      /\ ServerInv(s) /\ ResponseInv(s) /\ LinkInv(s) /\ ClientInv(s)
  BY ClientStepTypes DEF IInv, TypeInv, TypeOK, StreamInv, clientOthers, queueVars
<1>2. /\ server \in [Streams -> ServerStates] /\ link \in [Streams -> BOOLEAN]
      /\ requests \in [Streams -> Seq(Requests)] /\ responses \in [Streams -> Seq(Attempts)]
      /\ client \in [Streams -> ClientStates] /\ current \in [Streams -> Attempts \cup {None}]
      /\ executing \in [Streams -> SUBSET Attempts] /\ executed \in [Attempts -> Nat]
      /\ held[s] \in Attempts \cup {None}
  BY <1>1 DEF TypeOK, PQ!TypeOK
<1>3. CASE ClientConnects(s)
  <2>1. /\ Frame
        /\ client[s] = "off" /\ server[s] = "none" /\ client'[s] = "waiting"
        /\ server'[s] = "reading" /\ requests'[s] = <<Initial>> /\ responses'[s] = <<>>
        /\ executing' = executing
    BY <1>2, <1>3 DEF ClientConnects
  <2>2. held[s] = None /\ executing[s] = {} /\ requests'[s] # <<>>
    BY <1>1, <2>1, Singletons DEF ServerInv, ClientInv
  <2>3. ServerInv(s)' /\ ResponseInv(s)' /\ LinkInv(s)' /\ ClientInv(s)'
    BY <1>1, <2>1, <2>2 DEF ServerInv, Reading, ResponseInv, LinkInv, ClientInv
  <2>. QED BY <2>1, <2>3 DEF StreamInv
<1>4. CASE ClientYields(s)
  <2>1. /\ Frame
        /\ client[s] = "waiting" /\ responses[s] # <<>> /\ client'[s] = "yielded"
        /\ responses'[s] = Tail(responses[s]) /\ current'[s] = Head(responses[s])
        /\ executing'[s] = executing[s] \cup {Head(responses[s])}
        /\ UNCHANGED <<requests, server, link, executed>>
    BY <1>2, <1>4 DEF ClientYields, ClientTakesResponse
  <2>2. PICK a \in Attempts : responses[s] = <<a>>
    BY <1>1, <2>1 DEF ResponseInv
  <2>3. /\ responses'[s] = <<>> /\ current'[s] = a /\ executing'[s] = {a} /\ a # None
        /\ link[s] => server[s] = "reading" /\ requests[s] = <<>> /\ held[s] = a
    BY <1>1, <2>1, <2>2, Singletons, QueueConstants DEF ResponseInv, ClientInv
  <2>4. ServerInv(s)'
    BY <1>1, <2>1 DEF ServerInv, Reading, NextRequest
  <2>5. ResponseInv(s)' /\ LinkInv(s)' /\ ClientInv(s)'
    BY <1>1, <2>1, <2>3 DEF ResponseInv, LinkInv, ClientInv
  <2>. QED BY <2>1, <2>4, <2>5 DEF StreamInv
<1>5. CASE ClientNacks(s)
  <2>1. /\ client[s] = "waiting" /\ responses[s] # <<>>
        /\ responses' = [responses EXCEPT ![s] = Tail(responses[s])]
        /\ Put(s, <<Nack>>)
        /\ UNCHANGED <<server, link, client, current, executing, executed>>
    BY <1>5 DEF ClientNacks, ClientTakesResponse
  <2>2. /\ \A t \in Streams \ {s} : requests'[t] = requests[t]
        /\ requests'[s] = IF link[s] /\ server[s] # "none"
                          THEN requests[s] \o <<Nack>> ELSE requests[s]
    BY <1>1, <2>1, PutEffect, PutTypes
  <2>3. Frame /\ responses'[s] = <<>>
    <3>1. Tail(responses[s]) = <<>>
      BY <1>1, <2>1, Singletons DEF ResponseInv
    <3>. QED BY <1>2, <2>1, <2>2, <3>1
  <2>4. CASE link[s]
    <3>1. server[s] = "reading" /\ requests[s] = <<>> /\ responses[s] = <<held[s]>>
      BY <1>1, <2>1, <2>4 DEF ResponseInv
    <3>2. requests'[s] = <<Nack>> /\ requests'[s] # <<>>
      BY <2>2, <2>4, <3>1, Singletons
    <3>3. held[s] # None
      BY <1>1, <3>1, Singletons, QueueConstants DEF ResponseInv
    <3>4. ServerInv(s)' /\ ResponseInv(s)' /\ LinkInv(s)' /\ ClientInv(s)'
      BY <1>1, <2>1, <2>3, <3>1, <3>2, <3>3
      DEF ServerInv, Reading, ResponseInv, LinkInv, ClientInv
    <3>. QED BY <2>3, <3>4 DEF StreamInv
  <2>5. CASE ~link[s]
    <3>1. requests'[s] = requests[s]
      BY <2>2, <2>5
    <3>2. ServerInv(s)'
      BY <1>1, <2>1, <3>1 DEF ServerInv, Reading, NextRequest
    <3>3. ResponseInv(s)' /\ LinkInv(s)' /\ ClientInv(s)'
      BY <1>1, <2>1, <2>3, <2>5 DEF ResponseInv, LinkInv, ClientInv
    <3>. QED BY <2>3, <3>2, <3>3 DEF StreamInv
  <2>. QED BY <2>4, <2>5
<1>6. CASE \E a \in executing[s] : SinkExecutes(s, a)
  <2>1. PICK a \in executing[s] : SinkExecutes(s, a)
    BY <1>6
  <2>2. a \in Attempts /\ executed[a] = 0
    BY <1>2 DEF IInv, AttemptInv, AtWorker
  <2>3. client[s] = "yielded" /\ a = current[s]
    BY <1>1, <1>2 DEF ClientInv, ClientStates
  <2>4. /\ Frame /\ executed'[a] = 1 /\ executing'[s] = {}
        /\ UNCHANGED <<server, link, requests, responses, client, current>>
        /\ \A b \in Attempts : executed[b] = 1 => executed'[b] = 1
    <3>1. executing'[s] = executing[s] \ {a}
      BY <1>2, <2>1 DEF SinkExecutes
    <3>2. executing[s] \subseteq {a}
      BY <1>1, <2>3 DEF ClientInv
    <3>3. executed'[a] = 1 /\ \A b \in Attempts : b # a => executed'[b] = executed[b]
      BY <1>2, <2>1, <2>2 DEF SinkExecutes
    <3>. QED BY <1>2, <2>1, <2>2, <3>1, <3>2, <3>3 DEF SinkExecutes, streamVars
  <2>5. ServerInv(s)'
    BY <1>1, <1>2, <2>4 DEF ServerInv, Reading, NextRequest
  <2>6. ResponseInv(s)' /\ LinkInv(s)' /\ ClientInv(s)'
    BY <1>1, <2>3, <2>4 DEF ResponseInv, LinkInv, NextRequest, ClientInv
  <2>. QED BY <2>4, <2>5, <2>6 DEF StreamInv
<1>7. CASE ClientPauses(s)
  <2>1. /\ client[s] = "yielded" /\ client'[s] = "paused"
        /\ Put(s, GracefulDisconnect(s))
        /\ \A t \in Streams \ {s} : client'[t] = client[t]
        /\ UNCHANGED <<server, link, responses, current, executing, executed>>
    BY <1>2, <1>7 DEF ClientPauses, SinkAsksForNext
  <2>2. executing[s] = {} /\ executed[current[s]] = 1
    BY <1>7, AskedAfterExecution DEF ClientPauses
  <2>3. /\ ServerInv(s)' /\ ResponseInv(s)'
        /\ \A t \in Streams \ {s} : requests'[t] = requests[t]
        /\ link[s] => /\ responses[s] = <<>> /\ server[s] = "reading"
                      /\ requests'[s] # <<>> /\ NextRequest(s)' = Disconnect(held[s])
    BY <1>1, <2>1, <2>2, AnswerPut
  <2>4. LinkInv(s)' /\ ClientInv(s)'
    BY <1>1, <2>1, <2>2, <2>3 DEF LinkInv, ClientInv
  <2>. QED BY <2>1, <2>3, <2>4 DEF StreamInv
<1>8. CASE ClientStops(s) \/ ClientAcks(s) \/ ClientResumes(s)
  <2>1. /\ client[s] \in {"yielded", "paused"} /\ client'[s] = "waiting"
        /\ \A t \in Streams \ {s} : client'[t] = client[t] /\ current'[t] = current[t]
        /\ UNCHANGED <<server, link, responses, executing, executed>>
    BY <1>2, <1>8 DEF ClientStops, ClientAcks, ClientResumes, DisconnectOrAck, ClientWaits,
       SinkAsksForNext
  <2>2. executing[s] = {} /\ executed[current[s]] = 1
    BY <1>1, <1>8, AskedAfterExecution DEF ClientStops, ClientAcks, ClientResumes, ClientInv
  <2>3. \E new \in {GracefulDisconnect(s), <<Ack(Verdicts(s))>>} : Put(s, new)
    BY <1>8 DEF ClientStops, ClientAcks, ClientResumes, DisconnectOrAck
  <2>4. /\ ServerInv(s)' /\ ResponseInv(s)'
        /\ \A t \in Streams \ {s} : requests'[t] = requests[t]
        /\ link[s] => server[s] = "none" \/ requests'[s] # <<>>
    BY <1>1, <2>1, <2>2, <2>3, AnswerPut
  <2>5. LinkInv(s)' /\ ClientInv(s)'
    BY <1>1, <2>1, <2>2, <2>4 DEF LinkInv, ClientInv
  <2>. QED BY <2>1, <2>4, <2>5 DEF StreamInv
<1>9. CASE ClientSeesEnd(s)
  <2>1. /\ Frame
        /\ client[s] = "waiting" /\ client'[s] \in {"off", "stopped"}
        /\ responses'[s] = <<>> /\ ~link'[s]
        /\ UNCHANGED <<server, requests, executing, executed>>
    BY <1>2, <1>9 DEF ClientSeesEnd
  <2>2. ServerInv(s)'
    BY <1>1, <2>1 DEF ServerInv, Reading, NextRequest
  <2>3. ResponseInv(s)' /\ LinkInv(s)' /\ ClientInv(s)'
    BY <1>1, <2>1 DEF ResponseInv, LinkInv, ClientInv
  <2>. QED BY <2>1, <2>2, <2>3 DEF StreamInv
<1>. QED BY <1>3, <1>4, <1>5, <1>6, <1>7, <1>8, <1>9 DEF ClientStep

(* The attempts after a worker's step: yielding starts the execution of    *)
(* the action that arrived, the sink greenlet ends it.                     *)
LEMMA ClientStepAttempts ==
    ASSUME SinkWorkers = 1, IInv, NEW s \in Streams, ClientStep(s),
           NEW a \in Attempts
    PROVE  AttemptInv(a)'
<1>1. /\ TypeOK /\ AttemptInv(a) /\ ResponseInv(s) /\ ClientInv(s)
  BY DEF IInv, TypeInv, StreamInv
<1>2. /\ server \in [Streams -> ServerStates] /\ responses \in [Streams -> Seq(Attempts)]
      /\ executing \in [Streams -> SUBSET Attempts] /\ executed \in [Attempts -> Nat]
  BY <1>1 DEF TypeOK
<1>3. UNCHANGED <<oneshot, held, verdict>> /\ Q!Queued' = Q!Queued
  BY DEF ClientStep, ClientConnects, ClientYields, ClientNacks, SinkExecutes,
     ClientStops, ClientPauses, ClientAcks, ClientResumes, DisconnectOrAck, ClientSeesEnd,
     clientOthers, queueVars, Q!Queued
<1>4. Unsent(a)' => Unsent(a)
  <2>1. \A t \in Streams : server'[t] = "sending" => server[t] = "sending"
    BY <1>2 DEF ClientStep, ClientConnects, ClientYields, ClientNacks, SinkExecutes,
       ClientStops, ClientPauses, ClientAcks, ClientResumes, DisconnectOrAck,
       ClientSeesEnd, streamVars
  <2>. QED BY <1>3, <2>1 DEF Unsent
<1>5. CASE ClientYields(s)
  <2>1. /\ client[s] = "waiting" /\ responses[s] # <<>> /\ executed' = executed
        /\ responses' = [responses EXCEPT ![s] = Tail(responses[s])]
        /\ executing' = [executing EXCEPT ![s] = executing[s] \cup {Head(responses[s])}]
    BY <1>5 DEF ClientYields, ClientTakesResponse
  <2>2. PICK b \in Attempts : responses[s] = <<b>>
    BY <1>1, <2>1 DEF ResponseInv
  <2>3. /\ responses'[s] = <<>> /\ executing'[s] = {b} /\ executing[s] = {}
        /\ \A t \in Streams \ {s} :
              responses'[t] = responses[t] /\ executing'[t] = executing[t]
    BY <1>1, <1>2, <2>1, <2>2, Singletons DEF ClientInv
  <2>4. CASE a # b
    <3>1. \A t \in Streams : /\ responses'[t] = <<a>> => responses[t] = <<a>>
                             /\ a \in executing'[t] => a \in executing[t]
      BY <2>3, <2>4, Singletons
    <3>. QED BY <1>1, <1>3, <1>4, <2>1, <3>1, AttemptKept
  <2>5. CASE a = b
    <3>1. AtWorker(a, s) /\ \A t \in Streams : AtWorker(a, t) => t = s
      BY <1>1, <2>2, <2>5 DEF AtWorker, AttemptInv
    <3>2. \A t \in Streams : AtWorker(a, t)' => t = s /\ responses'[t] # <<a>>
      BY <2>3, <3>1, Singletons DEF AtWorker
    <3>3. ~Unsent(a)' /\ executed[a] = 0
      BY <1>1, <1>4, <3>1 DEF AttemptInv
    <3>. QED BY <1>1, <1>3, <2>1, <3>2, <3>3 DEF AttemptInv
  <2>. QED BY <2>4, <2>5
<1>6. CASE \E b \in executing[s] : SinkExecutes(s, b)
  <2>1. PICK b \in executing[s] : SinkExecutes(s, b)
    BY <1>6
  <2>2. /\ b \in Attempts /\ executing'[s] = executing[s] \ {b} /\ responses' = responses
        /\ \A t \in Streams \ {s} : executing'[t] = executing[t]
        /\ executed'[b] = executed[b] + 1
        /\ \A c \in Attempts : c # b => executed'[c] = executed[c]
    BY <1>2, <2>1 DEF SinkExecutes, streamVars
  <2>3. CASE a # b
    BY <1>1, <1>3, <1>4, <2>2, <2>3, AttemptKept
  <2>4. CASE a = b
    <3>1. AtWorker(a, s)
      BY <2>4 DEF AtWorker
    <3>2. /\ executed[a] = 0 /\ ~(responses[s] = <<a>> /\ a \in executing[s])
          /\ \A t \in Streams : AtWorker(a, t) => t = s
      BY <1>1, <3>1 DEF AttemptInv
    <3>3. \A t \in Streams : ~AtWorker(a, t)'
      BY <2>1, <2>2, <2>4, <3>2 DEF AtWorker
    <3>4. ~Unsent(a)' /\ oneshot[a] # "acked"
      BY <1>1, <1>4, <3>1, <3>2 DEF AttemptInv
    <3>5. executed'[a] = 1
      BY <2>2, <2>4, <3>2
    <3>. QED BY <1>3, <3>3, <3>4, <3>5 DEF AttemptInv
  <2>. QED BY <2>3, <2>4
<1>7. CASE \/ ClientConnects(s) \/ ClientNacks(s) \/ ClientStops(s) \/ ClientPauses(s)
           \/ ClientAcks(s) \/ ClientResumes(s) \/ ClientSeesEnd(s)
  <2>1. UNCHANGED <<executing, executed>>
    BY <1>7 DEF ClientConnects, ClientNacks, ClientStops, ClientPauses, ClientAcks,
       ClientResumes, DisconnectOrAck, ClientSeesEnd
  <2>2. \A t \in Streams : responses'[t] = <<a>> => responses[t] = <<a>>
    <3>1. CASE UNCHANGED responses
      BY <3>1
    <3>2. CASE responses' = [responses EXCEPT ![s] = <<>>]
      BY <1>2, <3>2, Singletons
    <3>3. CASE ClientNacks(s)
      <4>1. responses[s] # <<>> /\ responses' = [responses EXCEPT ![s] = Tail(responses[s])]
        BY <3>3 DEF ClientNacks, ClientTakesResponse
      <4>2. Tail(responses[s]) = <<>>
        BY <1>1, <4>1, Singletons DEF ResponseInv
      <4>. QED BY <1>2, <4>1, <4>2, Singletons
    <3>. QED BY <1>7, <3>1, <3>2, <3>3 DEF ClientConnects, ClientStops, ClientPauses,
         ClientAcks, ClientResumes, DisconnectOrAck, ClientSeesEnd
  <2>. QED BY <1>1, <1>3, <1>4, <2>1, <2>2, AttemptKept
<1>. QED BY <1>5, <1>6, <1>7 DEF ClientStep

(* A worker's step keeps the inductive invariant. *)
LEMMA ClientStepKeeps ==
    ASSUME SinkWorkers = 1, IInv, TypeInv', NEW s \in Streams, ClientStep(s)
    PROVE  IInv'
<1>1. held' = held
  BY DEF ClientStep, ClientConnects, ClientYields, ClientNacks, SinkExecutes,
     ClientStops, ClientPauses, ClientAcks, ClientResumes, DisconnectOrAck, ClientSeesEnd,
     clientOthers, queueVars
<1>2. ASSUME NEW t \in Streams PROVE StreamInv(t)'
  <2>1. CASE t = s
    BY <2>1, ClientStepStream
  <2>2. CASE t # s
    BY <1>1, <2>2, ClientStepStream, StreamKept DEF IInv, TypeInv
  <2>. QED BY <2>1, <2>2
<1>. QED BY <1>2, ClientStepAttempts DEF IInv

(* Signals, broken connections and crashes lose messages, and never make   *)
(* one.                                                                    *)
LEMMA FaultStepKeeps ==
    ASSUME IInv, TypeInv', NEW s \in Streams,
           StopSignal(s) \/ ConnectionBreaks(s) \/ WorkerCrashes(s)
    PROVE  IInv'
<1>1. TypeOK /\ ServerInv(s) /\ ResponseInv(s) /\ LinkInv(s) /\ ClientInv(s)
  BY DEF IInv, TypeInv, StreamInv
<1>2. /\ link \in [Streams -> BOOLEAN] /\ requests \in [Streams -> Seq(Requests)]
      /\ responses \in [Streams -> Seq(Attempts)] /\ client \in [Streams -> ClientStates]
      /\ current \in [Streams -> Attempts \cup {None}]
      /\ executing \in [Streams -> SUBSET Attempts]
  BY <1>1 DEF TypeOK
<1>3. CASE StopSignal(s)
  <2>1. /\ UNCHANGED <<queueVars, verdict, streamVars, client, current, executing, executed>>
        /\ UNCHANGED <<syncQueue, asyncQueue, oneshot, held, server>>
    BY <1>3 DEF StopSignal, clientOthers, queueVars, streamVars
  <2>. QED BY <2>1, StreamsAlone DEF Unsent, Q!Queued
<1>4. CASE ConnectionBreaks(s) \/ WorkerCrashes(s)
  <2>1. /\ UNCHANGED <<oneshot, held, verdict, server, executed>> /\ Q!Queued' = Q!Queued
        /\ ~link'[s] /\ requests'[s] \in {requests[s], <<>>}
        /\ \A t \in Streams \ {s} : link'[t] = link[t] /\ requests'[t] = requests[t]
    BY <1>2, <1>4 DEF ConnectionBreaks, WorkerCrashes, Fault, queueVars, Q!Queued
  <2>2. /\ \/ /\ UNCHANGED <<responses, client, current, executing>>
           \/ responses'[s] = <<>> /\ client'[s] = "off" /\ executing'[s] = {}
        /\ \A t \in Streams \ {s} :
              /\ responses'[t] = responses[t] /\ client'[t] = client[t]
              /\ current'[t] = current[t] /\ executing'[t] = executing[t]
    BY <1>2, <1>4 DEF ConnectionBreaks, WorkerCrashes
  <2>3. ServerInv(s)'
    BY <1>1, <2>1 DEF ServerInv, Reading, NextRequest
  <2>4. ResponseInv(s)' /\ LinkInv(s)'
    BY <1>1, <2>1, <2>2 DEF ResponseInv, LinkInv
  <2>5. ClientInv(s)'
    BY <1>1, <2>1, <2>2 DEF ClientInv
  <2>6. ASSUME NEW t \in Streams PROVE StreamInv(t)'
    <3>1. CASE t = s
      BY <2>3, <2>4, <2>5, <3>1 DEF StreamInv
    <3>2. CASE t # s
      BY <2>1, <2>2, <3>2, StreamKept DEF IInv, TypeInv
    <3>. QED BY <3>1, <3>2
  <2>7. ASSUME NEW a \in Attempts PROVE AttemptInv(a)'
    <3>1. \A t \in Streams : /\ responses'[t] = <<a>> => responses[t] = <<a>>
                             /\ a \in executing'[t] => a \in executing[t]
      BY <2>2, Singletons
    <3>2. Unsent(a)' => Unsent(a)
      BY <2>1 DEF Unsent
    <3>. QED BY <2>1, <3>1, <3>2, AttemptKept DEF IInv
  <2>. QED BY <2>6, <2>7 DEF IInv
<1>. QED BY <1>3, <1>4

(* With one sink greenlet per worker every step keeps the invariant. *)
LEMMA NextKeepsIInv ==
    ASSUME SinkWorkers = 1
    PROVE  IInv /\ [Next]_vars => IInv'
<1>. SUFFICES ASSUME IInv, [Next]_vars PROVE IInv'
  OBVIOUS
<1>1. TypeInv'
  BY TypeStep DEF IInv
<1>2. CASE UNCHANGED vars
  BY <1>1, <1>2, StreamsAlone DEF vars, queueVars, streamVars, clientVars, Unsent,
     Q!Queued
<1>. QED BY <1>1, <1>2, CallerStepKeeps, ServerStepKeeps, ClientStepKeeps, FaultStepKeeps
     DEF Next

(* The initial states satisfy the invariant. *)
LEMMA InitIInv == Init => IInv
<1>. SUFFICES ASSUME Init PROVE IInv
  OBVIOUS
<1>1. TypeInv
  BY TypeInit
<1>2. held = [s \in Streams |-> None] /\ oneshot = [a \in Attempts |-> "none"]
  BY DEF Init, PQ!Init
<1>3. ASSUME NEW s \in Streams PROVE StreamInv(s)
  BY <1>2, <1>3 DEF Init, StreamInv, ServerInv, ResponseInv, LinkInv, ClientInv
<1>4. ASSUME NEW a \in Attempts PROVE AttemptInv(a)
  BY <1>2, <1>4, Singletons DEF Init, AttemptInv, AtWorker
<1>. QED BY <1>1, <1>3, <1>4 DEF IInv

(* The invariant says all that StreamSound says. *)
LEMMA IInvImpliesSound == IInv => StreamSound
<1>. SUFFICES ASSUME IInv PROVE StreamSound
  OBVIOUS
<1>1. AckedAfterExecution
  BY DEF IInv, AttemptInv, AckedAfterExecution
<1>2. ExecutedOnce
  BY DEF IInv, AttemptInv, AtWorker, ExecutedOnce
<1>3. RequestsFollowProtocol
  <2>1. SUFFICES ASSUME NEW s \in Streams, server[s] = "reading", requests[s] # <<>>
                 PROVE  CASE NextRequest(s).type = "initial" -> held[s] = None
                          [] NextRequest(s).type \in {"ack", "disconnect"} ->
                                held[s] # None /\ NextRequest(s).of = held[s]
                          [] OTHER -> held[s] # None
    BY DEF RequestsFollowProtocol
  <2>2. Reading(s)
    BY <2>1 DEF IInv, StreamInv, ServerInv
  <2>. QED BY <2>1, <2>2, NextRequestKinds
<1>4. NoMutualWait
  BY DEF IInv, StreamInv, LinkInv, NoMutualWait
<1>. QED BY <1>1, <1>2, <1>3, <1>4 DEF StreamSound

(***************************************************************************)
(* The stream between coordinator and worker is sound for any number of    *)
(* calls, messages, streams, deliveries and faults, provided one sink      *)
(* greenlet shares the worker's input stream (with two of them it is not:  *)
(* run pooled_sink).                                                       *)
(***************************************************************************)
THEOREM StreamIsSound ==
    ASSUME SinkWorkers = 1
    PROVE  Spec => []StreamSound
<1>1. Init => IInv
  BY InitIInv
<1>2. IInv /\ [Next]_vars => IInv'
  BY NextKeepsIInv
<1>3. IInv => StreamSound
  BY IInvImpliesSound
<1>. QED BY <1>1, <1>2, <1>3, PTL DEF Spec

(* A step drops a caller that waits only when its stream broke. *)
LEMMA DropStep ==
    ASSUME IInv, [Next]_vars, NEW a \in Attempts,
           oneshot[a] = "waiting", oneshot'[a] = "dropped"
    PROVE  \E s \in Streams : held[s] = a /\ ~link[s]
<1>1. /\ Q!IInv /\ TypeOK /\ oneshot \in [Attempts -> Q!OneshotStates]
      /\ oneshot' # oneshot
  BY DEF IInv, TypeInv, Q!IInv, Q!TypeOK
<1>2. ASSUME NEW b \in Attempts,
             \/ PQ!SendSync(b) \/ PQ!SendAsync(b) \/ PQ!SendToClosed(b) \/ PQ!CallerGone(b)
      PROVE  FALSE
  BY <1>1, <1>2 DEF PQ!SendSync, PQ!SendAsync, PQ!SendToClosed, PQ!CallerGone
<1>3. ASSUME NEW c \in Calls, CallStep(c) \/ CallCancelled(c)
      PROVE  FALSE
  <2>1. CallAttempt(c) \in Attempts
    BY <1>1, CallAttemptType
  <2>. QED BY <1>1, <1>2, <1>3, <2>1 DEF CallStep, CreateActionFails, CallSends,
       CallFindsClosed, CallGetsAck, CallGetsNackOrDrop, CallCancelled, queueVars
<1>4. ASSUME NEW m \in Messages, MessageStep(m)
      PROVE  FALSE
  <2>1. message[m].delivery <= MaxDeliveries
    BY <1>4 DEF MessageStep, HandlerSends, HandlerFindsClosed, HandlerGetsAck,
       HandlerGetsNackOrDrop, HandlerTimesOut, IInv, TypeInv, AwaitedIsNumbered
  <2>2. Delivery(m) \in Attempts
    BY <1>1, <2>1, DeliveryType
  <2>. QED BY <1>1, <1>2, <1>4, <2>2 DEF MessageStep, HandlerSends, HandlerFindsClosed,
       HandlerGetsAck, HandlerGetsNackOrDrop, HandlerTimesOut, queueVars
<1>5. ASSUME NEW s \in Streams, ServerStep(s)
      PROVE  held[s] = a /\ ~link[s]
  <2>1. ASSUME NEW answer \in {"acked", "nacked", "dropped"}, PQ!Resolve(s, answer)
        PROVE  held[s] = a /\ answer = "dropped"
    BY <1>1, <2>1, ResolveEffect
  <2>2. \/ ServerSendFails(s) \/ ServerReadsEnd(s)
    BY <1>1, <1>5, <2>1, RecvEffect DEF ServerStep, ServerReadsInitial,
       ServerReadsAckOrNack, ServerReadsDisconnect, AnswerOutstanding, ServerCallsRecv,
       ServerReceives, ServerSendsAction, queueVars
  <2>3. held[s] = a
    BY <1>1, <2>1, <2>2 DEF ServerSendFails, ServerReadsEnd, DropOutstanding, queueVars
  <2>4. server[s] = "reading" /\ requests[s] # <<>> => NextRequest(s) # Stop
    BY NextRequestKinds DEF IInv, StreamInv, ServerInv, Stop
  <2>. QED BY <2>2, <2>3, <2>4 DEF ServerSendFails, ServerReadsEnd
<1>6. ASSUME NEW s \in Streams, \/ ClientStep(s) \/ StopSignal(s)
                                \/ ConnectionBreaks(s) \/ WorkerCrashes(s)
      PROVE  FALSE
  <2>1. UNCHANGED queueVars
    BY <1>6 DEF ClientStep, ClientConnects, ClientYields, ClientNacks, SinkExecutes,
       ClientStops, ClientPauses, ClientAcks, ClientResumes, DisconnectOrAck,
       ClientSeesEnd, StopSignal, ConnectionBreaks, WorkerCrashes, Fault, clientOthers
  <2>. QED BY <1>1, <2>1 DEF queueVars
<1>7. ~CoordinatorStops
  <2>1. ~PQ!NackOne
    <3>1. SUFFICES ASSUME PQ!NackOne PROVE FALSE
      OBVIOUS
    <3>2. oneshot' = [oneshot EXCEPT ![Head(asyncQueue)] =
                         IF @ = "waiting" THEN "nacked" ELSE @]
      BY <3>1 DEF PQ!NackOne, PQ!AnswerOneshot
    <3>. QED BY <1>1, <3>2
  <2>. QED BY <1>1, <2>1 DEF CoordinatorStops, PQ!ExitSignal, PQ!ShutdownStep,
       PQ!NackAllDone, PQ!CloseSync, PQ!CloseAsync
<1>8. ~UNCHANGED vars
  BY <1>1 DEF vars, queueVars
<1>. QED BY <1>3, <1>4, <1>5, <1>6, <1>7, <1>8 DEF Next

(***************************************************************************)
(* A caller that still waits loses its oneshot only to a stream whose      *)
(* connection is broken; pausing, reconnecting, stopping and shutting down *)
(* answer it.                                                              *)
(***************************************************************************)
THEOREM DropsNeedFaults ==
    ASSUME SinkWorkers = 1
    PROVE  Spec => DropsOnlyOnFaults
<1>1. Init => IInv
  BY InitIInv
<1>2. IInv /\ [Next]_vars => IInv'
  BY NextKeepsIInv
<1>3. IInv /\ [Next]_vars =>
        [\A a \in Attempts : oneshot[a] = "waiting" /\ oneshot'[a] = "dropped" =>
            \E s \in Streams : held[s] = a /\ ~link[s]]_vars
  BY DropStep
<1>. QED BY <1>1, <1>2, <1>3, PTL DEF Spec, DropsOnlyOnFaults

-----------------------------------------------------------------------------
(* The coordinator's other source of actions: the Kafka consumer.          *)

(* The consumer never works behind what is committed: a restart resumes at *)
(* the committed offset and only the message in hand can be committed.     *)
CommitBehindPosition == committed <= position

(* Inside the handler the message in hand exists and is not committed yet. *)
HandlingUncommitted ==
    pc \in {"decode", "await"} => position > 1 /\ committed < position

KafkaInv ==
    /\ KafkaTypeOK
    /\ CommitFollowsAck
    /\ NoGapBehindPosition
    /\ CommitBehindPosition
    /\ HandlingUncommitted

(* The initial state satisfies the inductive invariant. *)
LEMMA KafkaInitInv == ASSUME KafkaInit PROVE KafkaInv
<1>. USE KafkaAssumption
<1>1. 1 \in 1..(LogLength + 1) /\ 0 \in 0..MaxRestarts
  OBVIOUS
<1>2. outcome \in [Offsets -> Outcomes]
  BY DEF KafkaInit, Outcomes
<1>3. KafkaTypeOK
  BY <1>1, <1>2 DEF KafkaInit, KafkaTypeOK, PCs
<1>4. CommitFollowsAck /\ NoGapBehindPosition
  BY DEF KafkaInit, CommitFollowsAck, NoGapBehindPosition, Offsets
<1>5. CommitBehindPosition /\ HandlingUncommitted
  BY DEF KafkaInit, CommitBehindPosition, HandlingUncommitted
<1>. QED BY <1>3, <1>4, <1>5 DEF KafkaInv

(* Steps of the loop, the signal and the queue that leave the log's        *)
(* bookkeeping alone.                                                      *)
LEMMA QuietStepKeepsKafkaInv ==
    ASSUME KafkaInv, Listen \/ Exit \/ ReceiveError \/ Send \/ Signal \/ CloseQueue
                 \/ UNCHANGED kafkaVars
    PROVE  KafkaInv'
<1>. USE KafkaAssumption DEF Listen, Exit, ReceiveError, Send, Signal, CloseQueue, kafkaVars, DropListener
<1>1. UNCHANGED <<position, committed, outcome, restarts>>
  OBVIOUS
<1>2. pc' \in {"decode", "await"} <=> pc \in {"decode", "await"}
  OBVIOUS
<1>3. KafkaTypeOK'
  BY DEF KafkaInv, KafkaTypeOK, PCs
<1>. QED
  BY <1>1, <1>2, <1>3
  DEF KafkaInv, CommitFollowsAck, NoGapBehindPosition, CommitBehindPosition,
      HandlingUncommitted, InHand

(* Taking the next message. *)
LEMMA ReceiveKeepsKafkaInv ==
    ASSUME KafkaInv, Receive
    PROVE  KafkaInv'
<1>. USE KafkaAssumption DEF KafkaInv
<1>1. /\ position \in 1..(LogLength + 1) /\ committed \in 1..(LogLength + 1)
      /\ position <= LogLength /\ position' = position + 1 /\ pc = "select" /\ pc' = "decode"
      /\ committed' = committed /\ outcome' = outcome
  BY DEF Receive, KafkaTypeOK
<1>2. KafkaTypeOK'
  <2>1. position' \in 1..(LogLength + 1)
    BY <1>1
  <2>. QED BY <1>1, <2>1 DEF Receive, DropListener, KafkaTypeOK, PCs
<1>3. CommitFollowsAck'
  BY <1>1 DEF CommitFollowsAck
<1>4. NoGapBehindPosition'
  BY <1>1 DEF NoGapBehindPosition, InHand, Offsets
<1>5. CommitBehindPosition' /\ HandlingUncommitted'
  BY <1>1 DEF CommitBehindPosition, HandlingUncommitted
<1>. QED BY <1>2, <1>3, <1>4, <1>5

(* A message that is passed over: decode error, closed queue, nack, drop   *)
(* or timeout.                                                             *)
LEMMA PassOverKeepsKafkaInv ==
    ASSUME KafkaInv, pc \in {"decode", "await"}, PassOver
    PROVE  KafkaInv'
<1>. USE KafkaAssumption DEF KafkaInv
<1>1. /\ position \in 2..(LogLength + 1) /\ committed \in 1..(LogLength + 1)
      /\ committed < position /\ InHand \in Offsets /\ InHand' = InHand
      /\ position' = position /\ committed' = committed /\ pc' = "select"
      /\ outcome \in [Offsets -> Outcomes]
      /\ outcome' = [outcome EXCEPT ![InHand] = "passedOver"]
  BY DEF PassOver, KafkaTypeOK, HandlingUncommitted, InHand, Offsets
<1>2. \A o \in Offsets : outcome'[o] = IF o = InHand THEN "passedOver" ELSE outcome[o]
  BY <1>1
<1>3. KafkaTypeOK'
  BY <1>1 DEF PassOver, KafkaTypeOK, PCs, Outcomes
<1>4. CommitFollowsAck'
  <2>1. committed > 1 => committed - 1 \in Offsets /\ committed - 1 # InHand
    BY <1>1 DEF InHand, Offsets
  <2>. QED BY <1>1, <1>2, <2>1 DEF CommitFollowsAck
<1>5. NoGapBehindPosition'
  BY <1>1, <1>2 DEF NoGapBehindPosition
<1>6. CommitBehindPosition' /\ HandlingUncommitted'
  BY <1>1 DEF CommitBehindPosition, HandlingUncommitted
<1>. QED BY <1>3, <1>4, <1>5, <1>6

(* A message that is acked; its commit arrives or is lost. *)
LEMMA AckKeepsKafkaInv ==
    ASSUME KafkaInv, AckAndCommit
    PROVE  KafkaInv'
<1>. USE KafkaAssumption DEF KafkaInv
<1>1. /\ position \in 2..(LogLength + 1) /\ committed \in 1..(LogLength + 1)
      /\ committed < position /\ InHand \in Offsets /\ InHand' = InHand
      /\ position' = position /\ committed' \in {committed, position} /\ pc' = "select"
      /\ outcome \in [Offsets -> Outcomes]
      /\ outcome' = [outcome EXCEPT ![InHand] = "acked"]
  BY DEF AckAndCommit, KafkaTypeOK, HandlingUncommitted, InHand, Offsets
<1>2. \A o \in Offsets : outcome'[o] = IF o = InHand THEN "acked" ELSE outcome[o]
  BY <1>1
<1>3. KafkaTypeOK'
  BY <1>1 DEF AckAndCommit, KafkaTypeOK, PCs, Outcomes
<1>4. NoGapBehindPosition'
  BY <1>1, <1>2 DEF NoGapBehindPosition
<1>5. CommitFollowsAck'
  <2>1. committed > 1 => committed - 1 \in Offsets /\ committed - 1 # InHand
    BY <1>1 DEF InHand, Offsets
  <2>2. CASE committed' = committed
    BY <1>1, <1>2, <2>1, <2>2 DEF CommitFollowsAck
  <2>3. CASE committed' = position
    <3>1. outcome'[position - 1] = "acked"
      BY <1>1, <1>2 DEF InHand
    <3>2. \A o \in Offsets : o < position => outcome'[o] # "none"
      BY <1>1, <1>4 DEF NoGapBehindPosition
    <3>. QED BY <2>3, <3>1, <3>2 DEF CommitFollowsAck
  <2>. QED BY <1>1, <2>2, <2>3
<1>6. CommitBehindPosition' /\ HandlingUncommitted'
  BY <1>1 DEF CommitBehindPosition, HandlingUncommitted
<1>. QED BY <1>3, <1>4, <1>5, <1>6

(* A new process resumes at the committed offset. *)
LEMMA RestartKeepsKafkaInv ==
    ASSUME KafkaInv, Restart
    PROVE  KafkaInv'
<1>. USE KafkaAssumption DEF KafkaInv
<1>1. /\ committed \in 1..(LogLength + 1) /\ committed' = committed
      /\ position' = committed /\ outcome' = outcome /\ pc' = "select"
  BY DEF Restart, KafkaTypeOK
<1>2. KafkaTypeOK'
  <2>1. restarts' \in 0..MaxRestarts
    BY DEF Restart, KafkaTypeOK
  <2>. QED BY <1>1, <2>1 DEF Restart, DropListener, KafkaTypeOK, PCs
<1>3. CommitFollowsAck' /\ NoGapBehindPosition'
  BY <1>1 DEF CommitFollowsAck, NoGapBehindPosition
<1>4. CommitBehindPosition' /\ HandlingUncommitted'
  BY <1>1 DEF CommitBehindPosition, HandlingUncommitted
<1>. QED BY <1>2, <1>3, <1>4

(* Every step of the consumer preserves the inductive invariant. *)
LEMMA KafkaNextKeepsInv ==
    ASSUME KafkaInv, [KafkaNext]_kafkaVars
    PROVE  KafkaInv'
<1>1. CASE Listen \/ Exit \/ ReceiveError \/ Send \/ Signal \/ CloseQueue \/ UNCHANGED kafkaVars
  BY <1>1, QuietStepKeepsKafkaInv
<1>2. CASE Receive
  BY <1>2, ReceiveKeepsKafkaInv
<1>3. CASE DecodeError \/ SendError \/ NackDropOrTimeout
  <2>1. pc \in {"decode", "await"} /\ PassOver
    BY <1>3 DEF DecodeError, SendError, NackDropOrTimeout
  <2>. QED BY <2>1, PassOverKeepsKafkaInv
<1>4. CASE AckAndCommit
  BY <1>4, AckKeepsKafkaInv
<1>5. CASE Restart
  BY <1>5, RestartKeepsKafkaInv
<1>. QED BY <1>1, <1>2, <1>3, <1>4, <1>5 DEF KafkaNext, Loop

(* The inductive invariant holds in every reachable state. *)
LEMMA KafkaInvHolds == KafkaSpec => []KafkaInv
<1>1. KafkaInit => KafkaInv
  BY KafkaInitInv
<1>2. KafkaInv /\ [KafkaNext]_kafkaVars => KafkaInv'
  BY KafkaNextKeepsInv
<1>. QED BY <1>1, <1>2, PTL DEF KafkaSpec

(* The consumer of kafka.rs is always at one of its steps, with offsets    *)
(* that lie in the partition and an outcome for each message in it.        *)
THEOREM KafkaTypeCorrect == KafkaSpec => []KafkaTypeOK
<1>1. KafkaInv => KafkaTypeOK
  BY DEF KafkaInv
<1>. QED BY <1>1, KafkaInvHolds, PTL

(* Whatever is nacked, lost or restarted, the offset the broker holds      *)
(* stands for an acked message and for no message the consumer of kafka.rs *)
(* did not take up.                                                        *)
THEOREM CommitsAreAcked == KafkaSpec => []CommitFollowsAck
<1>1. KafkaInv => CommitFollowsAck
  BY DEF KafkaInv
<1>. QED BY <1>1, KafkaInvHolds, PTL

(* Lost commits and restarts make the consumer of kafka.rs read messages   *)
(* again and never make it skip one.                                       *)
THEOREM RestartsSkipNothing == KafkaSpec => []NoGapBehindPosition
<1>1. KafkaInv => NoGapBehindPosition
  BY DEF KafkaInv
<1>. QED BY <1>1, KafkaInvHolds, PTL
=============================================================================
