---------------------------- MODULE LabelsService ----------------------------
(***************************************************************************)
(* Workers that change the labels of one entity through the Postgres       *)
(* labels service: SELECT ... FOR UPDATE of the entity's row, the merge of *)
(* Labels in memory, an upsert of the whole row, commit or rollback.       *)
(* A row lock only exists for a row that exists.                           *)
(***************************************************************************)
EXTENDS Labels

CONSTANTS Workers,
          Nobody,       \* no worker
          Requests,     \* the sequences of mutations workers may ask for
          RowAtStart,   \* whether the entity has a row to begin with
          Skew,         \* how far a worker's clock is ahead of the slowest
          MaxTime,      \* bound on the clock
          MaxRequests   \* bound on committed requests

Idle == [state |-> "idle"]

VARIABLES row,      \* the committed labels of the entity
          exists,   \* whether the row exists
          lock,     \* the worker whose transaction holds the row's lock
          txn,      \* each worker's transaction
          now,      \* time
          requests  \* requests committed so far
vars == <<row, exists, lock, txn, now, requests>>

Clock(w) == now + Skew[w]

ReasonRecords == [created : 0..(2 * MaxTime), expires : 0..Never]
TypeOK ==
    /\ exists \in BOOLEAN
    /\ lock \in Workers \cup {Nobody}
    /\ now \in 0..MaxTime
    /\ requests \in 0..MaxRequests
    /\ \A l \in LabelNames :
        /\ row[l].known \in BOOLEAN
        /\ row[l].status \in LabelStatus
        /\ DOMAIN row[l].reasons \subseteq Reasons
        /\ \A r \in DOMAIN row[l].reasons : row[l].reasons[r] \in ReasonRecords
    /\ lock # Nobody => exists /\ txn[lock] # Idle

Init ==
    /\ row = NoLabels
    /\ exists = RowAtStart
    /\ lock = Nobody
    /\ txn = [w \in Workers |-> Idle]
    /\ now = 0
    /\ requests = 0

(* Faulty variant: the row is read without FOR UPDATE.                     *)
ReadWithoutLock(w, mutations) ==
    /\ txn[w] = Idle
    /\ requests < MaxRequests
    /\ txn' = [txn EXCEPT ![w] = [state |-> "read", labels |-> row, mutations |-> mutations]]
    /\ UNCHANGED <<row, exists, lock, now, requests>>

(* SELECT FOR UPDATE waits for the lock of an existing row; without a row  *)
(* it reads nothing and locks nothing.                                     *)
Read(w, mutations) ==
    /\ txn[w] = Idle
    /\ requests < MaxRequests
    /\ exists => lock = Nobody
    /\ lock' = IF exists THEN w ELSE lock
    /\ txn' = [txn EXCEPT ![w] = [state |-> "read", labels |-> row, mutations |-> mutations]]
    /\ UNCHANGED <<row, exists, now, requests>>

Unlock(w) == lock' = IF lock = w THEN Nobody ELSE lock

(* The provider merges in place; the upsert waits for another's lock.      *)
WriteBack(w) ==
    /\ txn[w].state = "read"
    /\ requests < MaxRequests
    /\ lock \in {w, Nobody}
    /\ row' = ComputeNewLabels(txn[w].labels, txn[w].mutations, Clock(w)).labels
    /\ exists' = TRUE
    /\ txn' = [txn EXCEPT ![w] = Idle]
    /\ requests' = requests + 1
    /\ Unlock(w)
    /\ UNCHANGED now

(* An exception anywhere in the block: rollback, and the caller sees it.   *)
Rollback(w) ==
    /\ txn[w].state = "read"
    /\ txn' = [txn EXCEPT ![w] = Idle]
    /\ Unlock(w)
    /\ UNCHANGED <<row, exists, now, requests>>

Tick ==
    /\ now < MaxTime
    /\ now' = now + 1
    /\ UNCHANGED <<row, exists, lock, txn, requests>>

Next ==
    \/ \E w \in Workers :
        \/ \E mutations \in Requests : Read(w, mutations)
        \/ WriteBack(w)
        \/ Rollback(w)
    \/ Tick

Spec == Init /\ [][Next]_vars

-----------------------------------------------------------------------------
Merges(w, q) == row' = ComputeNewLabels(row, q, Clock(w)).labels

(* Every write of the row is the merge of one request into the row it      *)
(* replaces: no other worker's committed mutations are overwritten         *)
(* (read_modify_write_labels_atomically).                                  *)
AtomicReadModifyWrite == [][row' # row => \E w \in Workers, q \in Requests : Merges(w, q)]_vars

(* What is known of a label: the statuses it had and the reasons given.    *)
Trail(state) ==
    {<<state.status, r>> : r \in DOMAIN state.reasons} \cup
    UNION {{<<p.status, r>> : r \in DOMAIN p.reasons} : p \in ToSet(state.previous)}

(* A label's history is append-only: a status change or an expiry moves    *)
(* the reasons to previous_states, it never loses one.                     *)
ReasonsNeverForgotten ==
    [][\A l \in LabelNames : Trail(row[l]) \subseteq Trail(row'[l])]_vars

(* A known label always has a reason, which LabelState.expires_at asserts  *)
(* whenever a later request looks whether the state has expired.           *)
KnownLabelHasReason ==
    \A l \in LabelNames : row[l].known => DOMAIN row[l].reasons # {}

(* What a human set stays, reasons included, until it expires: requests of *)
(* rules are dropped and reported as such, whatever order they come in.    *)
(* It is asked of the rows between transactions.                           *)
ManualHolds == (\A w \in Workers : txn[w] = Idle) =>
    \A q \in Requests, w \in Workers, l \in LabelNames : ManualStays(row, q, l, Clock(w))

(* Of a request's mutations of one label exactly those of the strongest    *)
(* status survive, in their order and whatever order they come in, and     *)
(* each of the others is dropped, once                                     *)
(* (_get_mutations_by_label_name_and_drop_conflicts).                      *)
StrongestSurvive ==
    \A w \in Workers : txn[w].state = "read" => SplitByStrength(txn[w].mutations)

(* Rules on any worker see a label as added or as removed, never both and  *)
(* never neither, an age asked for only narrows that, and what they see as *)
(* set by hand has not expired for a rule's mutation either (HasLabel,     *)
(* LabelState.is_expired).                                                 *)
SeenConsistently ==
    \A l \in LabelNames, w \in Workers : OneView(row[l], Clock(w))
=============================================================================
