--------------------------- MODULE PriorityQueue ---------------------------
(***************************************************************************)
(* The coordinator's two-level priority queue (priority_queue.rs) and the  *)
(* shutdown handler that empties and closes it (shutdown_handler.rs).      *)
(*                                                                         *)
(* An element is an AckableAction: an action together with the sending     *)
(* half of a oneshot channel.  Whoever owns the element owns the only way  *)
(* to answer the caller that waits on the receiving half.  The model is at *)
(* the granularity at which tasks on different threads interleave: recv()  *)
(* is a biased select! that polls the sync channel and then the async one, *)
(* so another task may act between the two polls.                          *)
(***************************************************************************)
EXTENDS Naturals, SequencesExt

CONSTANTS
    Actions,      \* the AckableActions that are ever created
    SyncActions,  \* the ones handed to send_sync; the rest go to send_async
    Receivers,    \* the tasks that call recv(): one per worker stream
    None          \* no action

ASSUME QueueAssumption == /\ SyncActions \subseteq Actions
                          /\ None \notin Actions

VARIABLES
    syncQueue,    \* content of the unbounded sync channel, oldest first
    asyncQueue,   \* content of the unbounded async channel, oldest first
    syncClosed,   \* close() was called on the sync channel
    asyncClosed,  \* close() was called on the async channel
    oneshot,      \* state of the oneshot channel of every action
    recvState,    \* where every receiver's recv() future is
    held,         \* the action a receiver was given and has not answered yet
    shutdown,     \* progress of the shutdown handler's task
    overtaken     \* history: how often a receiver took an async action while
                  \* a sync action was queued

vars == <<syncQueue, asyncQueue, syncClosed, asyncClosed, oneshot, recvState,
          held, shutdown, overtaken>>

AsyncActions == Actions \ SyncActions

(***************************************************************************)
(* "none": not created yet; "waiting": both halves exist and nothing was   *)
(* sent; "closed": the receiving half was dropped first (the caller timed  *)
(* out or went away); "dropped": the sending half was dropped unanswered.  *)
(***************************************************************************)
OneshotStates == {"none", "waiting", "acked", "nacked", "dropped", "closed"}
Answers == {"acked", "nacked", "dropped"}

(***************************************************************************)
(* "idle": no recv() future; "pollSync"/"pollAsync": about to poll that    *)
(* branch of the select!; "parked": both branches were pending; "await":   *)
(* awaiting the sync channel alone because the async one is closed.        *)
(***************************************************************************)
RecvStates == {"idle", "pollSync", "pollAsync", "parked", "await"}

ShutdownStates == {"running", "nacking", "sleeping", "closing", "closed"}

TypeOK ==
    /\ syncQueue \in Seq(SyncActions)
    /\ asyncQueue \in Seq(AsyncActions)
    /\ syncClosed \in BOOLEAN
    /\ asyncClosed \in BOOLEAN
    /\ oneshot \in [Actions -> OneshotStates]
    /\ recvState \in [Receivers -> RecvStates]
    /\ held \in [Receivers -> Actions \cup {None}]
    /\ shutdown \in ShutdownStates
    /\ overtaken \in [SyncActions -> [Receivers -> Nat]]

Init ==
    /\ syncQueue = <<>>
    /\ asyncQueue = <<>>
    /\ syncClosed = FALSE
    /\ asyncClosed = FALSE
    /\ oneshot = [a \in Actions |-> "none"]
    /\ recvState = [r \in Receivers |-> "idle"]
    /\ held = [r \in Receivers |-> None]
    /\ shutdown = "running"
    /\ overtaken = [a \in SyncActions |-> [r \in Receivers |-> 0]]

channels == <<syncQueue, asyncQueue, syncClosed, asyncClosed>>

-----------------------------------------------------------------------------
(***************************************************************************)
(* Producers: AckableAction::new followed by send_sync / send_async.  The  *)
(* channels are unbounded, so a send never waits; on a closed channel the  *)
(* action comes back inside the error and is dropped with it.              *)
(***************************************************************************)

SendSync(a) ==
    /\ a \in SyncActions
    /\ oneshot[a] = "none"
    /\ ~syncClosed
    /\ syncQueue' = Append(syncQueue, a)
    /\ oneshot' = [oneshot EXCEPT ![a] = "waiting"]
    /\ UNCHANGED <<asyncQueue, syncClosed, asyncClosed, recvState, held,
                   shutdown, overtaken>>

(* Faulty variant: the priorities are mixed up. *)
SendAsyncToSyncChannel(a) ==
    /\ a \in AsyncActions
    /\ oneshot[a] = "none"
    /\ ~asyncClosed
    /\ syncQueue' = Append(syncQueue, a)
    /\ oneshot' = [oneshot EXCEPT ![a] = "waiting"]
    /\ UNCHANGED <<asyncQueue, syncClosed, asyncClosed, recvState, held,
                   shutdown, overtaken>>

SendAsync(a) ==
    /\ a \in AsyncActions
    /\ oneshot[a] = "none"
    /\ ~asyncClosed
    /\ asyncQueue' = Append(asyncQueue, a)
    /\ oneshot' = [oneshot EXCEPT ![a] = "waiting"]
    /\ UNCHANGED <<syncQueue, syncClosed, asyncClosed, recvState, held,
                   shutdown, overtaken>>

SendToClosed(a) ==
    /\ oneshot[a] = "none"
    /\ IF a \in SyncActions THEN syncClosed ELSE asyncClosed
    /\ oneshot' = [oneshot EXCEPT ![a] = "dropped"]
    /\ UNCHANGED <<channels, recvState, held, shutdown, overtaken>>

(* The caller stops waiting: its timeout fires or its request is cancelled. *)
CallerGone(a) ==
    /\ oneshot[a] = "waiting"
    /\ oneshot' = [oneshot EXCEPT ![a] = "closed"]
    /\ UNCHANGED <<channels, recvState, held, shutdown, overtaken>>

-----------------------------------------------------------------------------
(***************************************************************************)
(* recv().  Deliver is the match after the select!: an action nobody waits *)
(* for any more is dropped and the loop starts again, any other action is  *)
(* returned to the caller of recv().                                       *)
(***************************************************************************)

NobodyWaits(a) == oneshot[a] = "closed"

(* Faulty variant: after a dropped action only the async branch is retried. *)
DeliverRetriesAsync(r, a) ==
    IF NobodyWaits(a)
    THEN /\ recvState' = [recvState EXCEPT ![r] = "pollAsync"]
         /\ UNCHANGED held
    ELSE /\ recvState' = [recvState EXCEPT ![r] = "idle"]
         /\ held' = [held EXCEPT ![r] = a]

Deliver(r, a) ==
    IF NobodyWaits(a)
    THEN /\ recvState' = [recvState EXCEPT ![r] = "pollSync"]
         /\ UNCHANGED held
    ELSE /\ recvState' = [recvState EXCEPT ![r] = "idle"]
         /\ held' = [held EXCEPT ![r] = a]

RecvStart(r) ==
    /\ recvState[r] = "idle"
    /\ held[r] = None
    /\ recvState' = [recvState EXCEPT ![r] = "pollSync"]
    /\ UNCHANGED <<channels, oneshot, held, shutdown, overtaken>>

(* Faulty variant: the action is read but not removed. *)
TakeSyncPeeks(r) ==
    /\ syncQueue # <<>>
    /\ Deliver(r, Head(syncQueue))
    /\ UNCHANGED <<channels, oneshot, shutdown, overtaken>>

TakeSync(r) ==
    /\ syncQueue # <<>>
    /\ syncQueue' = Tail(syncQueue)
    /\ Deliver(r, Head(syncQueue))
    /\ UNCHANGED <<asyncQueue, syncClosed, asyncClosed, oneshot, shutdown, overtaken>>

(* recv() returns Err: the sync channel is closed and empty. *)
RecvClosed(r) ==
    /\ syncQueue = <<>>
    /\ syncClosed
    /\ recvState' = [recvState EXCEPT ![r] = "idle"]
    /\ UNCHANGED <<channels, oneshot, held, shutdown, overtaken>>

SyncPending(r) ==
    /\ syncQueue = <<>>
    /\ ~syncClosed
    /\ recvState' = [recvState EXCEPT ![r] = "pollAsync"]
    /\ UNCHANGED <<channels, oneshot, held, shutdown, overtaken>>

RecvPollSync(r) ==
    /\ recvState[r] = "pollSync"
    /\ TakeSync(r) \/ RecvClosed(r) \/ SyncPending(r)

TakeAsync(r) ==
    /\ asyncQueue # <<>>
    /\ asyncQueue' = Tail(asyncQueue)
    /\ Deliver(r, Head(asyncQueue))
    /\ overtaken' = [a \in SyncActions |->
                        IF a \in ToSet(syncQueue)
                        THEN [overtaken[a] EXCEPT ![r] = @ + 1]
                        ELSE overtaken[a]]
    /\ UNCHANGED <<syncQueue, syncClosed, asyncClosed, oneshot, shutdown>>

(* Faulty variant: an empty async channel is polled again by itself. *)
AsyncNotReadySpins(r) ==
    /\ asyncQueue = <<>>
    /\ recvState' = [recvState EXCEPT ![r] = IF asyncClosed THEN "await" ELSE "pollAsync"]
    /\ UNCHANGED <<channels, oneshot, held, shutdown, overtaken>>

AsyncNotReady(r) ==
    /\ asyncQueue = <<>>
    /\ recvState' = [recvState EXCEPT ![r] = IF asyncClosed THEN "await" ELSE "parked"]
    /\ UNCHANGED <<channels, oneshot, held, shutdown, overtaken>>

RecvPollAsync(r) ==
    /\ recvState[r] = "pollAsync"
    /\ TakeAsync(r) \/ AsyncNotReady(r)

(* A send or a close on either channel wakes a parked future: it polls the *)
(* whole select! again, the sync channel first.                            *)
RecvWake(r) ==
    /\ recvState[r] = "parked"
    /\ syncQueue # <<>> \/ asyncQueue # <<>> \/ syncClosed \/ asyncClosed
    /\ recvState' = [recvState EXCEPT ![r] = "pollSync"]
    /\ UNCHANGED <<channels, oneshot, held, shutdown, overtaken>>

RecvAwaitSync(r) ==
    /\ recvState[r] = "await"
    /\ TakeSync(r) \/ RecvClosed(r)

(* The caller's timeout drops a pending recv() future. *)
RecvTimeout(r) ==
    /\ recvState[r] \in {"parked", "await"}
    /\ recvState' = [recvState EXCEPT ![r] = "idle"]
    /\ UNCHANGED <<channels, oneshot, held, shutdown, overtaken>>

-----------------------------------------------------------------------------
(***************************************************************************)
(* The owner of a received action answers it (ActionAcker::ack_or_nack) or *)
(* drops it.  Sending into a channel whose receiver is gone has no effect. *)
(***************************************************************************)

AnswerOneshot(a, answer) ==
    oneshot' = [oneshot EXCEPT ![a] = IF @ = "waiting" THEN answer ELSE @]

(* Faulty variant: a nacked action is put aside with its oneshot unanswered. *)
ResolveKeepsNacked(r, answer) ==
    /\ held[r] # None
    /\ IF answer = "nacked" THEN UNCHANGED oneshot ELSE AnswerOneshot(held[r], answer)
    /\ held' = [held EXCEPT ![r] = None]
    /\ UNCHANGED <<channels, recvState, shutdown, overtaken>>

Resolve(r, answer) ==
    /\ held[r] # None
    /\ AnswerOneshot(held[r], answer)
    /\ held' = [held EXCEPT ![r] = None]
    /\ UNCHANGED <<channels, recvState, shutdown, overtaken>>

-----------------------------------------------------------------------------
(***************************************************************************)
(* The shutdown handler: exit signal, nack_all_async (a try_recv loop), 15 *)
(* seconds of sleep, close() of the sync and then of the async channel.    *)
(***************************************************************************)

ExitSignal ==
    /\ shutdown = "running"
    /\ shutdown' = "nacking"
    /\ UNCHANGED <<channels, oneshot, recvState, held, overtaken>>

NackOne ==
    /\ shutdown = "nacking"
    /\ asyncQueue # <<>>
    /\ asyncQueue' = Tail(asyncQueue)
    /\ AnswerOneshot(Head(asyncQueue), "nacked")
    /\ UNCHANGED <<syncQueue, syncClosed, asyncClosed, recvState, held,
                   shutdown, overtaken>>

(* Faulty variant: nack_all_async stops before the channel is empty. *)
NackAllDoneEarly ==
    /\ shutdown = "nacking"
    /\ shutdown' = "sleeping"
    /\ UNCHANGED <<channels, oneshot, recvState, held, overtaken>>

NackAllDone ==
    /\ shutdown = "nacking"
    /\ asyncQueue = <<>>
    /\ shutdown' = "sleeping"
    /\ UNCHANGED <<channels, oneshot, recvState, held, overtaken>>

(* Faulty variants: the async channel is closed first; the sync channel is *)
(* not closed at all.                                                      *)
CloseAsyncFirst ==
    /\ shutdown = "sleeping"
    /\ shutdown' = "closing"
    /\ asyncClosed' = TRUE
    /\ UNCHANGED <<syncQueue, asyncQueue, syncClosed, oneshot, recvState,
                   held, overtaken>>

CloseSyncForgotten ==
    /\ shutdown = "sleeping"
    /\ shutdown' = "closing"
    /\ UNCHANGED <<channels, oneshot, recvState, held, overtaken>>

CloseSync ==
    /\ shutdown = "sleeping"
    /\ shutdown' = "closing"
    /\ syncClosed' = TRUE
    /\ UNCHANGED <<syncQueue, asyncQueue, asyncClosed, oneshot, recvState,
                   held, overtaken>>

CloseAsync ==
    /\ shutdown = "closing"
    /\ shutdown' = "closed"
    /\ asyncClosed' = TRUE
    /\ UNCHANGED <<syncQueue, asyncQueue, syncClosed, oneshot, recvState,
                   held, overtaken>>

Send(a) == SendSync(a) \/ SendAsync(a) \/ SendToClosed(a)

Recv(r) == \/ RecvPollSync(r) \/ RecvPollAsync(r) \/ RecvWake(r)
           \/ RecvAwaitSync(r)

ShutdownStep == NackOne \/ NackAllDone \/ CloseSync \/ CloseAsync

Next ==
    \/ \E a \in Actions : Send(a) \/ CallerGone(a)
    \/ \E r \in Receivers :
          \/ RecvStart(r) \/ Recv(r) \/ RecvTimeout(r)
          \/ \E answer \in Answers : Resolve(r, answer)
    \/ ExitSignal
    \/ ShutdownStep

Spec == Init /\ [][Next]_vars

(***************************************************************************)
(* The runtime polls every woken future and the shutdown task (its sleep   *)
(* ends); a stream's worker answers what it was given and asks for more.   *)
(* No fairness on senders, timeouts or the exit signal.                    *)
(***************************************************************************)
Fairness ==
    /\ \A r \in Receivers :
          /\ WF_vars(Recv(r))
          /\ WF_vars(RecvStart(r))
          /\ WF_vars(\E answer \in Answers : Resolve(r, answer))
    /\ WF_vars(ShutdownStep)

FairSpec == Spec /\ Fairness

-----------------------------------------------------------------------------
(***************************************************************************)
(* An AckableAction is moved, never copied: it is at one position of one   *)
(* channel or owned by one receiver.  Two owners would be two workers that *)
(* execute the action and two answers for one caller.                      *)
(***************************************************************************)
OwnedOnce ==
    /\ IsInjective(syncQueue)
    /\ IsInjective(asyncQueue)
    /\ \A r \in Receivers : held[r] \notin ToSet(syncQueue) \cup ToSet(asyncQueue)
    /\ \A r1, r2 \in Receivers : held[r1] = held[r2] => r1 = r2 \/ held[r1] = None

(***************************************************************************)
(* A caller that still waits on its oneshot can still be answered: the     *)
(* action is queued or owned by a receiver.  process_action awaits its     *)
(* oneshot with no timeout, so an action that left every channel without   *)
(* its sender being used or dropped would hang the RPC for good.           *)
(***************************************************************************)
WaiterHasAcker ==
    \A a \in Actions : oneshot[a] = "waiting" =>
        \/ a \in ToSet(syncQueue) \cup ToSet(asyncQueue)
        \/ \E r \in Receivers : held[r] = a

(***************************************************************************)
(* The priority the biased select! gives: while a sync action is queued,   *)
(* each receiver overtakes it with at most one async action (the one whose *)
(* poll had already found the sync channel empty).                         *)
(***************************************************************************)
OvertakenOnce ==
    \A a \in SyncActions, r \in Receivers : overtaken[a][r] <= 1

(***************************************************************************)
(* The fallback "async channel closed, so await the sync one" of recv() is *)
(* only reached once the sync channel is closed too, so it never parks:    *)
(* close() closes the sync channel first.                                  *)
(***************************************************************************)
FallbackNeverParks ==
    \A r \in Receivers : recvState[r] = "await" => syncClosed

(***************************************************************************)
(* A queued sync action is eventually taken by a receiver, whatever the    *)
(* async load, the timeouts of recv() and the shutdown do.                 *)
(***************************************************************************)
SyncServed ==
    \A a \in SyncActions : a \in ToSet(syncQueue) ~> a \notin ToSet(syncQueue)

(***************************************************************************)
(* nack_all_async empties the backlog: every async action queued when it   *)
(* runs leaves the queue.  (An action sent after it returned and before    *)
(* close() may stay queued for ever: recv() errors out on the sync channel *)
(* before it looks at the async one.)                                      *)
(***************************************************************************)
BacklogNacked ==
    \A a \in AsyncActions :
        shutdown = "nacking" /\ a \in ToSet(asyncQueue) ~> a \notin ToSet(asyncQueue)

(***************************************************************************)
(* Once the queue is closed no stream stays inside recv(): the recv() that *)
(* is pending returns, so its stream can end.                              *)
(***************************************************************************)
ClosedReleasesRecv ==
    \A r \in Receivers : shutdown = "closed" ~> recvState[r] = "idle"
=============================================================================
