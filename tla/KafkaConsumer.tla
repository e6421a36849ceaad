--------------------------- MODULE KafkaConsumer ---------------------------
(***************************************************************************)
(* The coordinator's Kafka consumer (consumer/kafka.rs): one task that     *)
(* takes the messages of a partition one at a time, queues each as an      *)
(* async action and waits for the answer.  Only an Ack commits, and it     *)
(* commits the consumer's position; nack() does nothing, so a message that *)
(* was nacked, dropped or timed out is passed over.                        *)
(*                                                                         *)
(* The loop selects between the next message and an exit_signal() future   *)
(* that is created anew in every iteration: a signal is only seen by a     *)
(* future that had been polled before it arrived.                          *)
(***************************************************************************)
EXTENDS Naturals

CONSTANTS LogLength,    \* messages in the partition
          MaxRestarts   \* bound: crashes of the coordinator

ASSUME KafkaAssumption == LogLength \in Nat /\ MaxRestarts \in Nat

Offsets == 1..LogLength

VARIABLES
    pc,          \* where the loop is
    position,    \* offset of the next message the consumer gets
    committed,   \* the group's committed offset, at the broker
    outcome,     \* history: how the latest delivery of a message ended
    signalled,   \* an exit signal was sent to this process
    listening,   \* this iteration's exit_signal() future has been polled
    notified,    \* ... and the signal arrived after that
    queueClosed, \* the shutdown handler has closed the priority queue
    restarts

kafkaVars == <<pc, position, committed, outcome, signalled, listening, notified,
               queueClosed, restarts>>

PCs == {"select", "decode", "await", "stopped"}
Outcomes == {"none", "acked", "passedOver"}

KafkaTypeOK ==
    /\ pc \in PCs
    /\ position \in 1..(LogLength + 1)
    /\ committed \in 1..(LogLength + 1)
    /\ outcome \in [Offsets -> Outcomes]
    /\ signalled \in BOOLEAN
    /\ listening \in BOOLEAN
    /\ notified \in BOOLEAN
    /\ queueClosed \in BOOLEAN
    /\ restarts \in 0..MaxRestarts

KafkaInit ==
    /\ pc = "select"
    /\ position = 1
    /\ committed = 1
    /\ outcome = [o \in Offsets |-> "none"]
    /\ signalled = FALSE
    /\ listening = FALSE
    /\ notified = FALSE
    /\ queueClosed = FALSE
    /\ restarts = 0

InHand == position - 1   \* the message being handled

(* select! polls exit_signal() and it is pending. *)
Listen ==
    /\ pc = "select"
    /\ ~listening
    /\ listening' = TRUE
    /\ UNCHANGED <<pc, position, committed, outcome, signalled, notified,
                   queueClosed, restarts>>

(* Completing the other branch drops the exit_signal() future. *)
DropListener == listening' = FALSE /\ notified' = FALSE

Exit ==
    /\ pc = "select"
    /\ notified
    /\ pc' = "stopped"
    /\ DropListener
    /\ UNCHANGED <<position, committed, outcome, signalled, queueClosed, restarts>>

(* Faulty variant: the last message of the log is never read. *)
ReceiveStopsShort ==
    /\ pc = "select"
    /\ position < LogLength
    /\ pc' = "decode"
    /\ position' = position + 1
    /\ DropListener
    /\ UNCHANGED <<committed, outcome, signalled, queueClosed, restarts>>

Receive ==
    /\ pc = "select"
    /\ position <= LogLength
    /\ pc' = "decode"
    /\ position' = position + 1
    /\ DropListener
    /\ UNCHANGED <<committed, outcome, signalled, queueClosed, restarts>>

(* Faulty variant: an error moves the consumer past the message. *)
ReceiveErrorSkips ==
    /\ pc = "select"
    /\ listening
    /\ position <= LogLength
    /\ position' = position + 1
    /\ DropListener
    /\ UNCHANGED <<pc, committed, outcome, signalled, queueClosed, restarts>>

ReceiveError ==
    /\ pc = "select"
    /\ listening
    /\ DropListener
    /\ UNCHANGED <<pc, position, committed, outcome, signalled, queueClosed, restarts>>

Send ==
    /\ pc = "decode"
    /\ ~queueClosed
    /\ pc' = "await"
    /\ UNCHANGED <<position, committed, outcome, signalled, listening, notified,
                   queueClosed, restarts>>

(* Faulty variant: nack commits the position like ack does. *)
PassOverAndCommit ==
    /\ pc' = "select"
    /\ outcome' = [outcome EXCEPT ![InHand] = "passedOver"]
    /\ committed' = position
    /\ UNCHANGED <<position, signalled, listening, notified, queueClosed, restarts>>

(* nack() and on to the next message. *)
PassOver ==
    /\ pc' = "select"
    /\ outcome' = [outcome EXCEPT ![InHand] = "passedOver"]
    /\ UNCHANGED <<position, committed, signalled, listening, notified,
                   queueClosed, restarts>>

DecodeError == pc = "decode" /\ PassOver
SendError == pc = "decode" /\ queueClosed /\ PassOver
NackDropOrTimeout == pc = "await" /\ PassOver

(* Faulty variant: one is added to an offset that already is the next one. *)
AckOffByOne ==
    /\ pc = "await"
    /\ pc' = "select"
    /\ outcome' = [outcome EXCEPT ![InHand] = "acked"]
    /\ committed' \in {committed, position + 1}
    /\ UNCHANGED <<position, signalled, listening, notified, queueClosed, restarts>>

(* ack() starts a commit of the consumer's position in the background; it  *)
(* reaches the broker or is lost.                                          *)
AckAndCommit ==
    /\ pc = "await"
    /\ pc' = "select"
    /\ outcome' = [outcome EXCEPT ![InHand] = "acked"]
    /\ committed' \in {committed, position}
    /\ UNCHANGED <<position, signalled, listening, notified, queueClosed, restarts>>

Signal ==
    /\ ~signalled
    /\ signalled' = TRUE
    /\ notified' = listening
    /\ UNCHANGED <<pc, position, committed, outcome, listening, queueClosed, restarts>>

(* The shutdown handler, which did see the signal, closes the queue. *)
CloseQueue ==
    /\ signalled
    /\ ~queueClosed
    /\ queueClosed' = TRUE
    /\ UNCHANGED <<pc, position, committed, outcome, signalled, listening, notified,
                   restarts>>

(* The process ends and a new one resumes at the committed offset. *)
Restart ==
    /\ restarts < MaxRestarts
    /\ restarts' = restarts + 1
    /\ pc' = "select"
    /\ position' = committed
    /\ DropListener
    /\ signalled' = FALSE
    /\ queueClosed' = FALSE
    /\ UNCHANGED <<committed, outcome>>

Loop == \/ Listen \/ Exit \/ Receive \/ Send \/ DecodeError \/ SendError
        \/ NackDropOrTimeout \/ AckAndCommit

KafkaNext == Loop \/ ReceiveError \/ Signal \/ CloseQueue \/ Restart

KafkaSpec == KafkaInit /\ [][KafkaNext]_kafkaVars

(* The runtime keeps polling the loop, the shutdown handler's sleep ends,  *)
(* and receive errors do not go on for ever while there are messages.      *)
KafkaFairness == WF_kafkaVars(Loop) /\ SF_kafkaVars(Receive) /\ WF_kafkaVars(CloseQueue)

KafkaFairSpec == KafkaSpec /\ KafkaFairness

-----------------------------------------------------------------------------
(***************************************************************************)
(* What a commit stands for: the newest committed message was acked by a   *)
(* worker, and every committed message was taken up by the consumer.  (It  *)
(* does not say that each of them was acked: see PassOver.)                *)
(***************************************************************************)
CommitFollowsAck ==
    /\ committed > 1 => outcome[committed - 1] = "acked"
    /\ \A o \in Offsets : o < committed => outcome[o] # "none"

(***************************************************************************)
(* A restart never skips a message: the messages the consumer has not      *)
(* taken up yet are exactly those at and behind its position, apart from   *)
(* the one in hand and those an earlier process had reached.               *)
(***************************************************************************)
NoGapBehindPosition ==
    \A o \in Offsets : o < position =>
        outcome[o] # "none" \/ (o = InHand /\ pc \in {"decode", "await"})

(***************************************************************************)
(* The consumer never stalls on a message: each one is answered or passed  *)
(* over, or the consumer was told to exit and did.                         *)
(***************************************************************************)
EveryMessageTakenUp ==
    \A o \in Offsets : <>(outcome[o] # "none" \/ pc = "stopped")

(***************************************************************************)
(* signals/mod.rs promises a future that resolves when SIGINT or SIGTERM   *)
(* is sent to the process, and the loop is written to leave on it: a       *)
(* signalled consumer stops (or the process is restarted).                 *)
(***************************************************************************)
SignalStopsConsumer == signalled ~> pc = "stopped" \/ ~signalled
=============================================================================
