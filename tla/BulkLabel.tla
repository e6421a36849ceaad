----------------------------- MODULE BulkLabel -----------------------------
(***************************************************************************)
(* A bulk label task (storage/bulk_label_task.py) and the sinks that work  *)
(* on it (bulk_label_sink.py).  A sink claims the task's row for a while,  *)
(* extends the claim with heartbeats and releases the task when it is      *)
(* done; a claim that expires lets another sink take the task over while   *)
(* the first may still be running.  A sink works on an ORM object: a save  *)
(* writes only the columns it changed since it last read the row.          *)
(***************************************************************************)
EXTENDS Naturals, Sequences, SequencesExt, FiniteSets

CONSTANTS Sinks,
          Results,        \* the sorted entity lists Druid may answer with
          Expected,       \* expected_total_entities_to_label
          Excluded,       \* number of excluded entities
          MAX_ATTEMPTS,
          NumQueries,     \* topN queries a no_limit task is split into
          LabelRetries,   \* bound: MAX_LABEL_SERVICE_RETRIES
          MaxCrashes      \* bound: sinks that are rebooted

Entities == UNION {ToSet(r) : r \in Results}
final_statuses == {"COMPLETE", "FAILED"}
non_final_statuses == {"QUEUED", "COLLECTING", "LABELLING", "RETRYING"}

VARIABLES row,      \* the task's row
          claimed,  \* claim_until lies in the future
          waiting,  \* the backoff since updated_at is not over
          sink,     \* each sink's position and objects
          label,    \* the label of each entity
          done,     \* history: entities the task has labelled
          runs,     \* history: how often the task was processed
          rollback, \* the rollback command: started, the entities whose label it has read
                    \* and will remove, and those of them that got another reason since
          crashes
vars == <<row, claimed, waiting, sink, label, done, runs, rollback, crashes>>

Rows == [status : final_statuses \cup non_final_statuses, attempts : 0..(MAX_ATTEMPTS + 1),
         labeled : 0..Cardinality(Entities), total : 0..Cardinality(Entities),
         expected : 0..Expected]
Idle == [pc |-> "idle"]

TypeOK ==
    /\ row \in Rows
    /\ claimed \in BOOLEAN /\ waiting \in BOOLEAN
    /\ rollback \in [started : BOOLEAN, read : SUBSET Entities, late : SUBSET Entities]
    /\ label \in [Entities -> {"none", "bulk", "other", "mixed", "removed"}]
    /\ \A s \in Sinks : sink[s] # Idle =>
        sink[s].obj \in Rows /\ sink[s].base \in Rows /\ sink[s].errs \in Nat

(* enqueue: the claim of a new task has just expired.                      *)
Init ==
    /\ row = [status |-> "QUEUED", attempts |-> 0, labeled |-> 0, total |-> 0,
              expected |-> Expected]
    /\ claimed = FALSE /\ waiting = FALSE
    /\ sink = [s \in Sinks |-> Idle]
    /\ label \in [Entities -> {"none", "other"}]
    /\ done = {} /\ runs = 0 /\ crashes = 0
    /\ rollback = [started |-> FALSE, read |-> {}, late |-> {}]

(* Commit an ORM object: only changed columns are written, then it is      *)
(* expired and read again.                                                 *)
Saved(s, obj) == [f \in DOMAIN row |-> IF obj[f] # sink[s].base[f] THEN obj[f] ELSE row[f]]
Save(s, obj, rest) ==
    /\ row' = Saved(s, obj)
    /\ sink' = [sink EXCEPT ![s] = [rest EXCEPT !.obj = Saved(s, obj), !.base = Saved(s, obj)]]

(* The claimed row, and the sink that goes to work on it.                  *)
TakeUp(s, new) ==
    /\ row' = new
    /\ sink' = [sink EXCEPT ![s] = [pc |-> "run", obj |-> new, base |-> new, q |-> 0,
                                    errs |-> 0, list |-> <<>>, idx |-> 0]]
    /\ claimed' = TRUE /\ waiting' = TRUE
    /\ UNCHANGED <<label, done, runs, rollback, crashes>>

(* Faulty variants: the attempt is not counted; a task at the maximum is   *)
(* left alone.                                                             *)
ClaimForgetsAttempt(s) ==
    /\ sink[s] = Idle /\ ~claimed
    /\ row.status \in non_final_statuses
    /\ row.status = "RETRYING" => ~waiting
    /\ TakeUp(s, [row EXCEPT !.status = "COLLECTING"])
ClaimBelowMax(s) ==
    /\ sink[s] = Idle /\ ~claimed
    /\ row.status \in non_final_statuses
    /\ row.attempts < MAX_ATTEMPTS
    /\ row.status = "RETRYING" => ~waiting
    /\ TakeUp(s, [row EXCEPT !.status = "COLLECTING", !.attempts = @ + 1])

Claim(s) ==
    /\ sink[s] = Idle /\ ~claimed
    /\ row.status \in non_final_statuses
    /\ row.attempts <= MAX_ATTEMPTS
    /\ row.status = "RETRYING" => ~waiting
    /\ TakeUp(s, [row EXCEPT !.status = "COLLECTING", !.attempts = @ + 1])

Heartbeat(s, status, count, next) ==
    /\ Save(s, [sink[s].obj EXCEPT !.status = status,
                    !.labeled = IF status = "LABELLING" THEN count ELSE @], next)
    /\ claimed' = TRUE

(* release, and on to the next task.                                       *)
Release(s, obj, status) ==
    /\ row' = Saved(s, [obj EXCEPT !.status = status])
    /\ sink' = [sink EXCEPT ![s] = Idle]
    /\ waiting' = TRUE
    /\ UNCHANGED claimed

(* run's except branch.                                                    *)
Fail(s, obj, retryable) ==
    Release(s, obj, IF retryable /\ obj.attempts < MAX_ATTEMPTS THEN "RETRYING" ELSE "FAILED")

(* run: too many attempts, or _build_top_n_queries' first heartbeat.       *)
Start(s) ==
    /\ sink[s].pc = "run"
    /\ IF sink[s].obj.attempts >= MAX_ATTEMPTS
       THEN Release(s, sink[s].obj, "FAILED") /\ UNCHANGED runs
       ELSE /\ Heartbeat(s, "COLLECTING", 0, [sink[s] EXCEPT !.pc = "query"])
            /\ runs' = runs + 1
            /\ UNCHANGED waiting
    /\ UNCHANGED <<label, done, rollback, crashes>>

(* _collect_entity_ids: a query of the split answers, and the last one     *)
(* completes the list; a 500 is retried; anything else is not.             *)
Query(s) ==
    /\ sink[s].pc = "query"
    /\ \/ /\ sink[s].q + 1 < NumQueries
          /\ Heartbeat(s, "COLLECTING", 0, [sink[s] EXCEPT !.q = @ + 1, !.errs = 0])
          /\ UNCHANGED waiting
       \/ /\ sink[s].q + 1 = NumQueries
          /\ \E list \in Results :
                sink' = [sink EXCEPT ![s] = [@ EXCEPT !.pc = "check", !.list = list, !.errs = 0]]
          /\ UNCHANGED <<row, claimed, waiting>>
       \/ /\ sink[s].errs + 1 < MAX_ATTEMPTS
          /\ Heartbeat(s, "COLLECTING", 0, [sink[s] EXCEPT !.errs = @ + 1])
          /\ UNCHANGED waiting
       \/ sink[s].errs + 1 = MAX_ATTEMPTS /\ Fail(s, sink[s].obj, TRUE)
       \/ Fail(s, sink[s].obj, FALSE)
    /\ UNCHANGED <<label, done, runs, rollback, crashes>>

InMargin(expected, actual) ==
    LET gap == IF expected > actual THEN expected - actual ELSE actual - expected
    IN expected > 0 => 10 * gap <= expected

(* Faulty variant: the excluded entities are always subtracted.            *)
CheckAlwaysAdjusts(s) ==
    LET obj == sink[s].obj IN
    /\ sink[s].pc = "check"
    /\ sink' = [sink EXCEPT ![s] = [@ EXCEPT !.pc = "label", !.idx = obj.labeled,
            !.obj = [obj EXCEPT !.total = IF @ = 0 THEN Len(sink[s].list) ELSE @,
                                !.expected = IF @ > Excluded THEN @ - Excluded ELSE 0]]]
    /\ UNCHANGED <<row, claimed, waiting, label, done, runs, rollback, crashes>>

(* _process_task: the count of entities has to match what was expected, or *)
(* what was expected less the excluded ones.  The object is only saved     *)
(* with the next heartbeat or release.                                     *)
Check(s) ==
    LET obj == [sink[s].obj EXCEPT !.total = IF @ = 0 THEN Len(sink[s].list) ELSE @]
        adjusted == [obj EXCEPT !.expected = IF @ > Excluded THEN @ - Excluded ELSE 0]
        Proceed(o) == /\ sink' = [sink EXCEPT ![s] = [@ EXCEPT !.pc = "label", !.obj = o,
                                                               !.idx = o.labeled]]
                      /\ UNCHANGED <<row, claimed, waiting>>
    IN /\ sink[s].pc = "check"
       /\ \/ InMargin(obj.expected, obj.total) /\ Proceed(obj)
          \/ /\ ~InMargin(obj.expected, obj.total)
             /\ Excluded > 0
             /\ IF InMargin(adjusted.expected, obj.total) THEN Proceed(adjusted)
                                                          ELSE Fail(s, adjusted, FALSE)
          \/ ~InMargin(obj.expected, obj.total) /\ Excluded = 0 /\ Fail(s, obj, FALSE)
       /\ UNCHANGED <<label, done, runs, rollback, crashes>>

(* MANUALLY_ADDED with the bulk reason joins another manual reason.        *)
WithBulkLabel(state) == IF state \in {"other", "mixed"} THEN "mixed" ELSE "bulk"

(* _apply_label_mutations of the entity at the current index; the list of  *)
(* this attempt may be too short for the total of an earlier one.          *)
Label(s) ==
    /\ sink[s].pc = "label" /\ sink[s].idx < sink[s].obj.total
    /\ \/ /\ sink[s].idx < Len(sink[s].list)
          /\ LET e == sink[s].list[sink[s].idx + 1] IN
                label' = [label EXCEPT ![e] = WithBulkLabel(@)] /\ done' = done \cup {e}
          /\ sink' = [sink EXCEPT ![s] = [@ EXCEPT !.pc = "labelled", !.errs = 0]]
          /\ UNCHANGED <<row, claimed, waiting>>
       \/ /\ sink[s].idx < Len(sink[s].list) /\ sink[s].errs < LabelRetries
          /\ Heartbeat(s, "LABELLING", sink[s].obj.labeled, [sink[s] EXCEPT !.errs = @ + 1])
          /\ UNCHANGED <<waiting, label, done>>
       \/ Fail(s, sink[s].obj, TRUE) /\ UNCHANGED <<label, done>>
    /\ UNCHANGED <<runs, rollback, crashes>>

(* Faulty variant: the heartbeat claims one entity too many.               *)
AdvanceTooFar(s) ==
    /\ sink[s].pc = "labelled"
    /\ sink[s].idx + 1 < sink[s].obj.total
    /\ Heartbeat(s, "LABELLING", sink[s].idx + 2,
                 [sink[s] EXCEPT !.pc = "label", !.idx = @ + 1])
    /\ UNCHANGED <<waiting, label, done, runs, rollback, crashes>>

(* iterate_entity_indices after the yield: a heartbeat once a second.      *)
Advance(s) ==
    /\ sink[s].pc = "labelled"
    /\ LET next == [sink[s] EXCEPT !.pc = "label", !.idx = @ + 1] IN
        \/ sink' = [sink EXCEPT ![s] = next] /\ UNCHANGED <<row, claimed>>
        \/ Heartbeat(s, "LABELLING", next.idx, next)
    /\ UNCHANGED <<waiting, label, done, runs, rollback, crashes>>

(* Faulty variant: the last entity is left out.                            *)
FinishEarly(s) ==
    /\ sink[s].pc = "label"
    /\ sink[s].idx + 1 >= sink[s].obj.total
    /\ Heartbeat(s, "COLLECTING", 0, [sink[s] EXCEPT !.pc = "finish"])
    /\ UNCHANGED <<waiting, label, done, runs, rollback, crashes>>

(* The last heartbeat, release(COMPLETE), and the analytics event whose    *)
(* failure makes run release the task once more.                           *)
Finish(s) ==
    /\ sink[s].pc = "label"
    /\ sink[s].idx >= sink[s].obj.total
    /\ Heartbeat(s, "LABELLING", sink[s].obj.total, [sink[s] EXCEPT !.pc = "finish"])
    /\ UNCHANGED <<waiting, label, done, runs, rollback, crashes>>
Complete(s) ==
    /\ sink[s].pc = "finish"
    /\ Save(s, [sink[s].obj EXCEPT !.status = "COMPLETE"], [sink[s] EXCEPT !.pc = "analytics"])
    /\ waiting' = TRUE
    /\ UNCHANGED <<claimed, label, done, runs, rollback, crashes>>
SendAnalytics(s) ==
    /\ sink[s].pc = "analytics"
    /\ \/ sink' = [sink EXCEPT ![s] = Idle] /\ UNCHANGED <<row, claimed, waiting>>
       \/ Fail(s, sink[s].obj, TRUE)
    /\ UNCHANGED <<label, done, runs, rollback, crashes>>

(* A sink is rebooted: its task keeps the row it had.                      *)
Crash(s) ==
    /\ sink[s] # Idle /\ crashes < MaxCrashes
    /\ sink' = [sink EXCEPT ![s] = Idle]
    /\ crashes' = crashes + 1
    /\ UNCHANGED <<row, claimed, waiting, label, done, runs, rollback>>

(* Time passes: the claim or the backoff ends.                             *)
Expire ==
    /\ claimed /\ claimed' = FALSE
    /\ UNCHANGED <<row, waiting, sink, label, done, runs, rollback, crashes>>
BackoffEnds ==
    /\ waiting /\ waiting' = FALSE
    /\ UNCHANGED <<row, claimed, sink, label, done, runs, rollback, crashes>>

(* Others add a reason of their own to the label by hand.  It joins manual *)
(* reasons for the label, and replaces a manual removal.                   *)
WithOtherReason(state) == IF state \in {"bulk", "mixed"} THEN "mixed" ELSE "other"
AddOtherReason(e) ==
    /\ label[e] # WithOtherReason(label[e])
    /\ label' = [label EXCEPT ![e] = WithOtherReason(@)]
    /\ rollback' = [rollback EXCEPT !.late = @ \cup ({e} \cap rollback.read)]
    /\ UNCHANGED <<row, claimed, waiting, sink, done, runs, crashes>>

(* rollback_task_effects of a task in a final status. *)
StartRollback ==
    /\ row.status \in final_statuses /\ ~rollback.started
    /\ rollback' = [rollback EXCEPT !.started = TRUE]
    /\ UNCHANGED <<row, claimed, waiting, sink, label, done, runs, crashes>>

(* Faulty variant: other reasons for the label are not looked at. *)
RollbackReadsAny(e) ==
    /\ rollback.started /\ rollback.read = {} /\ label[e] \in {"bulk", "mixed"}
    /\ rollback' = [rollback EXCEPT !.read = {e}]
    /\ UNCHANGED <<row, claimed, waiting, sink, label, done, runs, crashes>>

(* get_from_service: one entity at a time, and only one whose label has no *)
(* other reason than the task.                                             *)
RollbackReads(e) ==
    /\ rollback.started /\ rollback.read = {} /\ label[e] = "bulk"
    /\ rollback' = [rollback EXCEPT !.read = {e}]
    /\ UNCHANGED <<row, claimed, waiting, sink, label, done, runs, crashes>>

(* apply_entity_label_mutations, in a transaction of its own: the manual   *)
(* removal replaces whatever manual reasons the label has by now.          *)
RollbackWrites(e) ==
    /\ e \in rollback.read
    /\ label' = [label EXCEPT ![e] = "removed"]
    /\ rollback' = [rollback EXCEPT !.read = {}, !.late = {}]
    /\ UNCHANGED <<row, claimed, waiting, sink, done, runs, crashes>>

SinkStep(s) ==
    \/ Claim(s) \/ Start(s) \/ Query(s) \/ Check(s) \/ Label(s) \/ Advance(s)
    \/ Finish(s) \/ Complete(s) \/ SendAnalytics(s)

Next ==
    \/ \E s \in Sinks : SinkStep(s) \/ Crash(s)
    \/ Expire \/ BackoffEnds \/ StartRollback
    \/ \E e \in Entities : AddOtherReason(e) \/ RollbackReads(e) \/ RollbackWrites(e)

Fairness == (\A s \in Sinks : WF_vars(SinkStep(s))) /\ WF_vars(Expire) /\ WF_vars(BackoffEnds)
Spec == Init /\ [][Next]_vars
FairSpec == Spec /\ Fairness

-----------------------------------------------------------------------------
Settled == row.status \in final_statuses
Stable == \A r1, r2 \in Results : r1 = r2

(* Resuming skips nothing: every entity before entities_labeled has been   *)
(* labelled, also when an expired claim lets two sinks write the counter.  *)
PrefixLabelled ==
    Stable => \A r \in Results : \A i \in 1..row.labeled : r[i] \in done

(* A task that says COMPLETE has labelled every entity the query returned, *)
(* whichever sink completed it and however often it was taken over.        *)
CompleteMeansLabelled ==
    row.status = "COMPLETE" => \E r \in Results : ToSet(r) \subseteq done

(* The excluded entities are subtracted from the expectation once, however *)
(* many attempts the task takes: the adjusted count is kept in the row.    *)
(* Only if the adjusted count is no match either can it happen twice: the  *)
(* task fails with it in the row while a sink that took over checks it.    *)
ExpectedAdjustedOnce ==
    LET adjusted == IF Expected > Excluded THEN Expected - Excluded ELSE 0
    IN  Stable /\ (\A r \in Results : InMargin(adjusted, Len(r))) => row.expected + Excluded >= Expected

(* A task is processed fewer than MAX_ATTEMPTS times, takeovers included.  *)
BoundedRuns == runs < MAX_ATTEMPTS

(* A rollback takes away a label that has another reason only if that      *)
(* reason came between its read of the label and its write: a reason that  *)
(* was there before, and one added while other entities are rolled back,   *)
(* keeps the label.                                                        *)
RollbackSparesOthers ==
    [][\A e \in Entities : label[e] \in {"other", "mixed"} /\ label'[e] = "removed" => e \in rollback.late]_vars

(* A task ends up in a final status, takeovers included, unless a sink is  *)
(* rebooted in its last attempts.                                          *)
TaskSettles == <>[]Settled
=============================================================================
