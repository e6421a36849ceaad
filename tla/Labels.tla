------------------------------- MODULE Labels -------------------------------
(***************************************************************************)
(* How a request of label mutations changes the labels of one entity       *)
(* (osprey_shared/labels.py and LabelsProvider of storage/labels.py).      *)
(* Descriptions and features are left out; times are numbers, and the      *)
(* expiry None is Never, larger than every time.                           *)
(***************************************************************************)
EXTENDS Naturals, Sequences, FiniteSetsExt, SequencesExt

CONSTANTS LabelNames,  \* valid label names
          NoName,      \* the empty label name
          Reasons,     \* reason names
          Never,       \* the expiry None
          Slop         \* the 5 s allowed for execution time and clock skew

REMOVED == 0
ADDED == 1
MANUALLY_REMOVED == 2
MANUALLY_ADDED == 3
LabelStatus == REMOVED..MANUALLY_ADDED

IsManual(status) == status \in {MANUALLY_ADDED, MANUALLY_REMOVED}

Absent == [status |-> REMOVED, reasons |-> <<>>, previous |-> <<>>, known |-> FALSE]
NoLabels == [l \in LabelNames |-> Absent]

(* LabelState.expires_at and is_expired: all reasons have to expire. *)
ExpiresAt(state) == Max({state.reasons[r].expires : r \in DOMAIN state.reasons})
IsExpired(state, now) ==
    /\ ExpiresAt(state) # Never
    /\ ExpiresAt(state) + Slop < now

(* LabelReasons.insert_or_update: an older reason is dropped, a newer one  *)
(* keeps the first creation time.                                          *)
InsertOrUpdate(reasons, name, reason) ==
    IF name \notin DOMAIN reasons
    THEN [r \in DOMAIN reasons \cup {name} |-> IF r = name THEN reason ELSE reasons[r]]
    ELSE IF reasons[name].created > reason.created + Slop THEN reasons
    ELSE [reasons EXCEPT ![name] = [created |-> @.created, expires |-> reason.expires]]

Dropped(mutation, why) == [mutation |-> mutation, why |-> why]

(* Faulty variant: the last status wins instead of the strongest.          *)
KeepLastMutation(acc, m) ==
    IF m.label = NoName
    THEN [acc EXCEPT !.dropped = Append(@, Dropped(m, "INVALID_LABEL_NAME"))]
    ELSE LET others == acc.kept[m.label] IN
         IF others # <<>> /\ m.status # others[1].status
         THEN [kept |-> [acc.kept EXCEPT ![m.label] = <<m>>],
               dropped |-> acc.dropped \o
                   [i \in DOMAIN others |-> Dropped(others[i], "CONFLICTING_MUTATION")]]
         ELSE [acc EXCEPT !.kept[m.label] = Append(@, m)]

(* One iteration of _get_mutations_by_label_name_and_drop_conflicts.       *)
AddMutation(acc, m) ==
    IF m.label = NoName
    THEN [acc EXCEPT !.dropped = Append(@, Dropped(m, "INVALID_LABEL_NAME"))]
    ELSE LET others == acc.kept[m.label] IN
         CASE others # <<>> /\ m.status > others[1].status ->
                [kept |-> [acc.kept EXCEPT ![m.label] = <<m>>],
                 dropped |-> acc.dropped \o
                     [i \in DOMAIN others |-> Dropped(others[i], "CONFLICTING_MUTATION")]]
           [] others # <<>> /\ m.status < others[1].status ->
                [acc EXCEPT !.dropped = Append(@, Dropped(m, "CONFLICTING_MUTATION"))]
           [] OTHER -> [acc EXCEPT !.kept[m.label] = Append(@, m)]

DropConflicts(mutations) ==
    FoldLeft(AddMutation, [kept |-> [l \in LabelNames |-> <<>>], dropped |-> <<>>], mutations)

(* _get_desired_states_by_label_name for the mutations kept of one label.  *)
DesiredState(kept, now) ==
    [status |-> kept[1].status,
     reasons |-> FoldLeft(LAMBDA rs, m : InsertOrUpdate(rs, m.reason,
                              [created |-> now, expires |-> m.expires]),
                          <<>>, kept)]

(* Faulty variant of the shift: the state is not kept.                      *)
ShiftDropsState(state) == [state EXCEPT !.reasons = <<>>]

Shift(state) ==
    [state EXCEPT !.previous = <<[status |-> state.status, reasons |-> state.reasons]>> \o @,
                  !.reasons = <<>>]

(* The desired state replaces a state of another status, or joins it.      *)
MergeDesired(state, desired) ==
    LET base == IF state.status # desired.status THEN Shift(state) ELSE state
        new == DOMAIN desired.reasons
    IN [base EXCEPT !.status = desired.status,
            !.reasons = [r \in DOMAIN @ \cup new |->
                           IF r \in new THEN InsertOrUpdate(@, r, desired.reasons[r])[r] ELSE @[r]]]

(* Faulty variants of try_apply_desired_state: manual states give way; the *)
(* new reasons are forgotten when the old state has expired.               *)
TryApplyOverManual(state, desired, now) ==
    [state |-> MergeDesired(state, desired), drop |-> FALSE]

TryApplyForgetsReasons(state, desired, now) ==
    IF IsExpired(state, now)
    THEN [state |-> [Shift(state) EXCEPT !.status = desired.status], drop |-> FALSE]
    ELSE IF IsManual(state.status) /\ ~IsManual(desired.status)
    THEN [state |-> state, drop |-> TRUE]
    ELSE [state |-> MergeDesired(state, desired), drop |-> FALSE]

(* LabelState.try_apply_desired_state: the new state, or drop.             *)
TryApply(state, desired, now) ==
    IF IsExpired(state, now)
    THEN [state |-> [Shift(state) EXCEPT !.status = desired.status,
                                         !.reasons = desired.reasons],
          drop |-> FALSE]
    ELSE IF IsManual(state.status) /\ ~IsManual(desired.status)
    THEN [state |-> state, drop |-> TRUE]
    ELSE [state |-> MergeDesired(state, desired), drop |-> FALSE]

FromInner(desired) ==
    [status |-> desired.status, reasons |-> desired.reasons, previous |-> <<>>, known |-> TRUE]

(* _compute_new_labels_from_mutations: the new labels, what is reported of *)
(* each label, and the mutations dropped.                                  *)
ComputeNewLabels(labels, mutations, now) ==
    LET split == DropConflicts(mutations)
        wanted == {l \in LabelNames : split.kept[l] # <<>>}
        desired == [l \in wanted |-> DesiredState(split.kept[l], now)]
        tried == [l \in wanted |->
                     IF labels[l].known THEN TryApply(labels[l], desired[l], now)
                     ELSE [state |-> FromInner(desired[l]), drop |-> FALSE]]
        blocked == {l \in wanted : tried[l].drop}
        updated == {l \in wanted \ blocked : labels[l].known /\ labels[l].status = desired[l].status}
        changed == wanted \ (blocked \cup updated)
    IN [labels |-> [l \in LabelNames |-> IF l \in wanted THEN tried[l].state ELSE labels[l]],
        added |-> {l \in changed : desired[l].status \in {ADDED, MANUALLY_ADDED}},
        removed |-> {l \in changed : desired[l].status \in {REMOVED, MANUALLY_REMOVED}},
        updated |-> updated,
        dropped |-> split.dropped \o
            FlattenSeq([i \in 1..Cardinality(blocked) |->
                LET kept == split.kept[SetToSeq(blocked)[i]]
                IN [j \in DOMAIN kept |-> Dropped(kept[j], "CANNOT_OVERRIDE_MANUAL")]])]
(* HasLabel of a rule (stdlib/udfs/labels.py): a status to ask for, and    *)
(* whether it has to be set by hand, by a rule, or either.                 *)
SimpleStatuses == {"added", "removed"}
SimpleStatus(status) == IF status \in {ADDED, MANUALLY_ADDED} THEN "added" ELSE "removed"
ManualType(status) == IF IsManual(status) THEN "yes" ELSE "no"

(* The reasons that still hold; here no time is allowed for skew.          *)
Standing(state, now) == {r \in DOMAIN state.reasons : state.reasons[r].expires > now}

(* Faulty variant: an expired state counts.                                *)
HasLabelForever(state, status, manual, minAge, now) ==
    IF ~state.known THEN status = "removed" /\ manual # "yes"
    ELSE status = SimpleStatus(state.status) /\ manual \in {"either", ManualType(state.status)}
(* _execute: of a label that is unknown or has expired nothing but an      *)
(* automatic removal can be said; minAge 0 stands for None.                *)
HasLabel(state, status, manual, minAge, now) ==
    LET standing == Standing(state, now) IN
    IF ~state.known \/ standing = {} THEN status = "removed" /\ manual # "yes"
    ELSE /\ status = SimpleStatus(state.status)
         /\ manual \in {"either", ManualType(state.status)}
         /\ minAge > 0 => now > Min({state.reasons[r].created : r \in standing}) + minAge

-----------------------------------------------------------------------------
(* What LabelsService promises of a request and of a label's state.        *)

(* The mutations of one label with the strongest status of the request. *)
Strongest(q, l) ==
    {i \in DOMAIN q : q[i].label = l /\ \A j \in DOMAIN q : q[j].label = l => q[j].status <= q[i].status}

(* Exactly the strongest are kept, in their order, and each of the others  *)
(* is dropped, once.                                                       *)
SplitByStrength(q) ==
    LET result == DropConflicts(q)
        others == {i \in DOMAIN q : \A l \in LabelNames : i \notin Strongest(q, l)}
    IN /\ \A l \in LabelNames : \E at \in [DOMAIN result.kept[l] -> Strongest(q, l)] :
            /\ \A a, b \in DOMAIN at : a < b => at[a] < at[b]
            /\ \A i \in Strongest(q, l) : \E a \in DOMAIN at : at[a] = i
            /\ \A a \in DOMAIN at : result.kept[l][a] = q[at[a]]
       /\ \E at \in [DOMAIN result.dropped -> others] :
            /\ \A a, b \in DOMAIN at : at[a] = at[b] => a = b
            /\ \A i \in others : \E a \in DOMAIN at : at[a] = i
            /\ \A a \in DOMAIN at : result.dropped[a].mutation = q[at[a]]

(* A request of rules leaves a state set by hand that has not expired, and *)
(* what it asked of that label is reported as dropped.                     *)
ManualStays(labels, q, l, now) ==
    /\ labels[l].known /\ IsManual(labels[l].status) /\ ~IsExpired(labels[l], now)
    /\ \A i \in DOMAIN q : ~IsManual(q[i].status)
    => LET result == ComputeNewLabels(labels, q, now)
       IN /\ result.labels[l] = labels[l]
          /\ \A i \in DOMAIN q : q[i].label = l =>
                \E d \in ToSet(result.dropped) : d.mutation = q[i]

(* A rule sees a state as added or as removed, an age asked for narrows    *)
(* that, and what it sees as set by hand has not expired.                  *)
OneView(state, now) ==
    LET Seen(status, manual, minAge) == HasLabel(state, status, manual, minAge, now)
    IN /\ Seen("added", "either", 0) # Seen("removed", "either", 0)
       /\ \A s \in SimpleStatuses :
            /\ Seen(s, "either", 0) <=> Seen(s, "yes", 0) \/ Seen(s, "no", 0)
            /\ Seen(s, "either", 1) => Seen(s, "either", 0)
            /\ Seen(s, "yes", 0) => ~IsExpired(state, now)
=============================================================================
