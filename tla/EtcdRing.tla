------------------------------ MODULE EtcdRing ------------------------------
(***************************************************************************)
(* worker/lib/etcd/ring.py: EtcdHashRing.  Processes share a topology      *)
(* (the replicas of each member, and overrides) under one etcd key, keep a *)
(* hash ring of it and select members.  The ring itself is external: it    *)
(* lists its members in some order.  Calls of one process do not overlap.  *)
(***************************************************************************)
EXTENDS Naturals, Sequences, SequencesExt

CONSTANTS Procs, Writers,  \* processes, and those that change the topology
          Names, Keys,
          MaxReplicas,
          MaxWrites,
          None

VARIABLES log,       \* the values etcd's key has had, the last one current
          mine,      \* _members and _overrides of each process
          ring,      \* its _ring, by the members it was built from
          watching,  \* _is_watching
          index,     \* the position of its watcher in log
          busy,      \* <<the value its write sent>> until the answer is handled, else <<>>
          pending,   \* <<the event its watch greenlet sleeps on>>, else <<>>
          chosen     \* its last selection

vars == <<log, mine, ring, watching, index, busy, pending, chosen>>

Topology(members, overrides) == [members |-> members, overrides |-> overrides]
Empty == Topology([n \in Names |-> 0], [k \in Keys |-> None])
Stored == IF log = <<>> THEN Empty ELSE log[Len(log)]
OverrideValues == {<<>>} \cup {<<n>> : n \in Names}

(* from_value: read_override asserts that every override names a member. *)
Readable(t) == \A k \in Keys : t.overrides[k] # <<>>

Init ==
    /\ log = <<>>
    /\ mine = [p \in Procs |-> Empty]
    /\ ring = [p \in Procs |-> Empty.members]
    /\ watching = [p \in Procs |-> FALSE]
    /\ index = [p \in Procs |-> 0]
    /\ busy = [p \in Procs |-> <<>>]
    /\ pending = [p \in Procs |-> <<>>]
    /\ chosen = [p \in Procs |-> <<>>]

(* _update: the ring is built first, then all three are replaced together. *)
Update(p, t) ==
    /\ ring' = [ring EXCEPT ![p] = t.members]
    /\ mine' = [mine EXCEPT ![p] = t]

(* _ensure_watching; an unreadable value raises and leaves it not watching. *)
EnsureWatching(p) ==
    /\ ~watching[p]
    /\ busy[p] = <<>>
    /\ Readable(Stored)
    /\ Update(p, Stored)
    /\ watching' = [watching EXCEPT ![p] = TRUE]
    /\ index' = [index EXCEPT ![p] = Len(log)]
    /\ UNCHANGED <<log, busy, pending, chosen>>

(* _persist_topology sends what the process has, without a condition. *)
Persist(p, t) ==
    /\ Len(log) < MaxWrites
    /\ mine' = [mine EXCEPT ![p] = t]
    /\ log' = Append(log, t)
    /\ busy' = [busy EXCEPT ![p] = <<t>>]
    /\ UNCHANGED <<ring, watching, index, pending, chosen>>

(* add() of a member that is new or has other replicas; update() of one    *)
(* that is there; remove().                                                *)
Add(p, n, r) == mine[p].members[n] # r /\ Persist(p, [mine[p] EXCEPT !.members[n] = r])
UpdateMember(p, n, r) == mine[p].members[n] # 0 /\ Persist(p, [mine[p] EXCEPT !.members[n] = r])
Remove1(p, n) == mine[p].members[n] # 0 /\ Persist(p, [mine[p] EXCEPT !.members[n] = 0])
SetOverride(p, k, s) == mine[p].overrides[k] # s /\ Persist(p, [mine[p] EXCEPT !.overrides[k] = s])

Change(p) ==
    /\ p \in Writers
    /\ watching[p]
    /\ busy[p] = <<>>
    /\ \/ \E n \in Names, r \in 1..MaxReplicas : Add(p, n, r) \/ UpdateMember(p, n, r)
       \/ \E n \in Names : Remove1(p, n)
       \/ \E k \in Keys, s \in OverrideValues : SetOverride(p, k, s)

(* Faulty variant: the ring is left as it was. *)
AnswerMembersOnly(p) ==
    /\ busy[p] # <<>>
    /\ mine' = [mine EXCEPT ![p] = IF Readable(busy[p][1]) THEN busy[p][1] ELSE @]
    /\ busy' = [busy EXCEPT ![p] = <<>>]
    /\ UNCHANGED <<log, ring, watching, index, pending, chosen>>

(* The answer of a write: the process takes over what it sent, or raises. *)
Answer(p) ==
    /\ busy[p] # <<>>
    /\ IF Readable(busy[p][1]) THEN Update(p, busy[p][1]) ELSE UNCHANGED <<ring, mine>>
    /\ busy' = [busy EXCEPT ![p] = <<>>]
    /\ UNCHANGED <<log, watching, index, pending, chosen>>

(* Faulty variant: an event that comes during the sleep is dropped. *)
ReceiveDropping(p) ==
    /\ watching[p]
    /\ index[p] < Len(log)
    /\ index' = [index EXCEPT ![p] = @ + 1]
    /\ pending' = [pending EXCEPT ![p] = IF @ = <<>> THEN <<log[index[p] + 1]>> ELSE @]
    /\ UNCHANGED <<log, mine, ring, watching, busy, chosen>>

(* _watch gets an event; it dies of one it cannot read. *)
Receive(p) ==
    /\ watching[p]
    /\ pending[p] = <<>>
    /\ index[p] < Len(log)
    /\ index' = [index EXCEPT ![p] = @ + 1]
    /\ IF Readable(log[index[p] + 1])
       THEN pending' = [pending EXCEPT ![p] = <<log[index[p] + 1]>>] /\ UNCHANGED watching
       ELSE watching' = [watching EXCEPT ![p] = FALSE] /\ UNCHANGED pending
    /\ UNCHANGED <<log, mine, ring, busy, chosen>>

(* ... and applies it after a random sleep. *)
Apply(p) ==
    /\ pending[p] # <<>>
    /\ Update(p, pending[p][1])
    /\ pending' = [pending EXCEPT ![p] = <<>>]
    /\ UNCHANGED <<log, watching, index, busy, chosen>>

Take(s, n) == SubSeq(s, 1, IF Len(s) < n THEN Len(s) ELSE n)

find_nodes(p) == SetToSeq({n \in Names : ring[p][n] # 0})

(* select(k): the first override, or the ring's member. *)
SelectOne(p, k) ==
    LET over == mine[p].overrides[k] IN
    /\ chosen' = [chosen EXCEPT ![p] =
         Take(IF over \in {None, <<>>} THEN find_nodes(p) ELSE over, 1)]
    /\ UNCHANGED <<log, mine, ring, watching, index, busy, pending>>

(* Faulty variant: the ring's nodes are added unseen. *)
FilledPlain(over, nodes) == over \o nodes

(* The loop of select(): the override list itself is extended by the nodes *)
(* it does not have.                                                       *)
Filled(over, nodes) ==
    LET extended[i \in 0..Len(nodes)] ==
          IF i = 0 THEN over
          ELSE IF Contains(extended[i - 1], nodes[i]) THEN extended[i - 1]
          ELSE Append(extended[i - 1], nodes[i])
    IN  extended[Len(nodes)]

(* select(k, secondaries=1). *)
SelectMany(p, k) ==
    LET nodes == Take(find_nodes(p), 2)
        over  == mine[p].overrides[k]
    IN  /\ IF over = None
           THEN chosen' = [chosen EXCEPT ![p] = nodes] /\ UNCHANGED mine
           ELSE /\ chosen' = [chosen EXCEPT ![p] = Take(Filled(over, nodes), 2)]
                /\ mine' = [mine EXCEPT ![p].overrides[k] = Filled(over, nodes)]
        /\ UNCHANGED <<log, ring, watching, index, busy, pending>>

Next == \E p \in Procs :
    \/ EnsureWatching(p) \/ Change(p) \/ Answer(p) \/ Receive(p) \/ Apply(p)
    \/ watching[p] /\ \E k \in Keys : SelectOne(p, k) \/ SelectMany(p, k)

Spec == Init /\ [][Next]_vars

-----------------------------------------------------------------------------
(* A process that only reads has etcd's members, and a ring of exactly     *)
(* them, once its watcher has applied every event.                         *)
RingFollows ==
    \A p \in Procs \ Writers : watching[p] /\ index[p] = Len(log) /\ pending[p] = <<>> =>
        mine[p].members = Stored.members /\ ring[p] = Stored.members

(* Between calls a process selects from the members it lists: no order of  *)
(* answers and events leaves a ring of other members behind, unless an     *)
(* override without members was stored, which no process can read.         *)
RingOfMembers ==
    (\A i \in 1..Len(log) : Readable(log[i])) =>
        \A p \in Procs : busy[p] = <<>> => ring[p] = mine[p].members

(* select() never returns one member twice, however overrides and ring     *)
(* overlap and however often it was called before.                         *)
SelectionDistinct == \A p \in Procs : \A i, j \in 1..Len(chosen[p]) : i # j => chosen[p][i] # chosen[p][j]
=============================================================================
