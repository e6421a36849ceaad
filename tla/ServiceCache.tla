---------------------------- MODULE ServiceCache ----------------------------
(***************************************************************************)
(* engine/executor/external_service_utils.py: the accessor that caches and *)
(* debounces the requests of one execution's greenlets to an external      *)
(* service.  A greenlet yields only during a request and while it waits    *)
(* for an AsyncResult.                                                     *)
(***************************************************************************)
EXTENDS Naturals, Sequences, FiniteSets

CONSTANTS Callers, Keys,
          Ops,             \* the methods the callers use
          HasTTL,          \* whether cache_ttl() returns a time
          CountErrorOnce,  \* count_error_once()
          NoEntry

VARIABLES cache,     \* _cache: key -> the current AsyncResult
          expired,   \* the entries past their expiration
          value,     \* AsyncResults, numbered: what was set
          caller     \* per caller: the call it is in, and its outcome

vars == <<cache, expired, value, caller>>

Entries == 1..Len(value)
Values == {"unset", "ok", "None", "exception"}
Idle == [op |-> "idle", at |-> "start", keys |-> {}, own |-> {}, entry |-> NoEntry, out |-> "none"]

Init ==
    /\ cache = [k \in Keys |-> NoEntry]
    /\ expired = {}
    /\ value = <<>>
    /\ caller = [c \in Callers |-> Idle]

Missing(k) == cache[k] = NoEntry \/ cache[k] \in expired

(* A new AsyncResult for key k, before the request is made. *)
Place(k) == /\ cache' = [cache EXCEPT ![k] = Len(value) + 1]
            /\ value' = Append(value, "unset")

(* Faulty variant: the entry is put into the cache after the request. *)
StartGetLate(c, k) ==
    /\ "get" \in Ops
    /\ caller[c] = Idle
    /\ Missing(k)
    /\ value' = Append(value, "unset")
    /\ caller' = [caller EXCEPT ![c] = [Idle EXCEPT !.op = "get", !.at = "request", !.keys = {k},
                                        !.own = {k}, !.entry = Len(value) + 1]]
    /\ UNCHANGED <<cache, expired>>

StartGet(c, k) ==
    /\ "get" \in Ops
    /\ caller[c] = Idle
    /\ Missing(k)
    /\ Place(k)
    /\ caller' = [caller EXCEPT ![c] = [Idle EXCEPT !.op = "get", !.at = "request", !.keys = {k},
                                        !.own = {k}, !.entry = Len(value) + 1]]
    /\ UNCHANGED expired

StartGetCached(c, k) ==
    /\ "get" \in Ops
    /\ caller[c] = Idle
    /\ ~Missing(k)
    /\ caller' = [caller EXCEPT ![c] = [Idle EXCEPT !.op = "get", !.at = "wait", !.keys = {k},
                                        !.entry = cache[k]]]
    /\ UNCHANGED <<cache, expired, value>>

StartGetWithoutCache(c, k) ==
    /\ "get_without_cache" \in Ops
    /\ caller[c] = Idle
    /\ Place(k)
    /\ caller' = [caller EXCEPT ![c] = [Idle EXCEPT !.op = "get_without_cache", !.at = "request",
                                        !.keys = {k}, !.own = {k}, !.entry = Len(value) + 1]]
    /\ UNCHANGED expired

(* batch_get(ks): new entries for all the keys that are not cached. *)
StartBatch(c, ks) ==
    LET new == {k \in ks : Missing(k)} IN
    /\ "batch_get" \in Ops
    /\ caller[c] = Idle
    /\ \E num \in [new -> (Len(value) + 1)..(Len(value) + Cardinality(new))] :
         /\ \A j, k \in new : num[j] = num[k] => j = k
         /\ cache' = [k \in Keys |-> IF k \in new THEN num[k] ELSE cache[k]]
         /\ value' = value \o [i \in 1..Cardinality(new) |-> "unset"]
    /\ caller' = [caller EXCEPT ![c] = [Idle EXCEPT !.op = "batch_get", !.keys = ks, !.own = new,
                                        !.at = IF new = {} THEN "collect" ELSE "request"]]
    /\ UNCHANGED expired

Start == \E c \in Callers : \/ \E k \in Keys : StartGet(c, k)
                            \/ \E k \in Keys : StartGetCached(c, k)
                            \/ \E k \in Keys : StartGetWithoutCache(c, k)
                            \/ \E ks \in SUBSET Keys : ks # {} /\ StartBatch(c, ks)

(* Faulty variant: everyone gets the exception. *)
GetErrorForAll(op) == "exception"

(* What an exception leaves in the entry, by the method that met it. *)
GetError(op) == IF op = "get" /\ CountErrorOnce THEN "None" ELSE "exception"

(* Faulty variant: a failed request is made again without end. *)
AnswerRetries(c) ==
    /\ caller[c].at \in {"request", "retry"}
    /\ caller[c].op # "batch_get"
    /\ \/ /\ value' = [value EXCEPT ![caller[c].entry] = "ok"]
          /\ caller' = [caller EXCEPT ![c].at = "end", ![c].out = "ok"]
       \/ /\ caller' = [caller EXCEPT ![c].at = IF @ = "retry" THEN "request" ELSE "retry"]
          /\ UNCHANGED value
    /\ UNCHANGED <<cache, expired>>

(* Faulty variant: a failed request leaves its entry unset. *)
AnswerOkOnly(c) ==
    /\ caller[c].at = "request"
    /\ caller[c].op # "batch_get"
    /\ \E v \in {"ok", "exception"} :
         /\ value' = [value EXCEPT ![caller[c].entry] = IF v = "ok" THEN v ELSE @]
         /\ caller' = [caller EXCEPT ![c].at = "end", ![c].out = v]
    /\ UNCHANGED <<cache, expired>>

(* The request of get or get_without_cache ends: the caller's own entry is *)
(* set and the caller returns or raises.                                   *)
Answer(c) ==
    /\ caller[c].at = "request"
    /\ caller[c].op # "batch_get"
    /\ \E v \in {"ok", "exception"} :
         /\ value' = [value EXCEPT ![caller[c].entry] = IF v = "ok" THEN v ELSE GetError(caller[c].op)]
         /\ caller' = [caller EXCEPT ![c].at = "end", ![c].out = v]
    /\ UNCHANGED <<cache, expired>>

(* The request of batch_get ends, with a result for each key: it is set on *)
(* the entries that are in the cache now.                                  *)
AnswerBatch(c) ==
    /\ caller[c].at = "request"
    /\ caller[c].op = "batch_get"
    /\ \E vs \in [caller[c].own -> {"ok", "exception"}] :
         value' = [e \in Entries |->
                     IF \E k \in caller[c].own : cache[k] = e
                     THEN vs[CHOOSE k \in caller[c].own : cache[k] = e] ELSE value[e]]
    /\ caller' = [caller EXCEPT ![c].at = "collect"]
    /\ UNCHANGED <<cache, expired>>

(* batch_get reads the entries of its keys one after the other, as they    *)
(* are in the cache then, and waits for each.                              *)
CollectBatch(c) ==
    /\ caller[c].at = "collect"
    /\ \E k \in caller[c].keys :
         caller' = [caller EXCEPT ![c].at = "wait", ![c].entry = cache[k], ![c].keys = @ \ {k}]
    /\ UNCHANGED <<cache, expired, value>>

(* A waiter is woken by its AsyncResult; an exception is what a batch has  *)
(* met if any of its keys has one.                                         *)
Wake(c) ==
    /\ caller[c].at = "wait"
    /\ value[caller[c].entry] # "unset"
    /\ caller' = [caller EXCEPT
         ![c].at = IF caller[c].op = "batch_get" /\ caller[c].keys # {} THEN "collect" ELSE "end",
         ![c].out = IF @ = "exception" THEN @ ELSE value[caller[c].entry]]
    /\ UNCHANGED <<cache, expired, value>>

(* The clock passes an entry's expiration, whether or not it was answered. *)
Expire ==
    /\ HasTTL
    /\ \E e \in Entries \ expired : expired' = expired \cup {e}
    /\ UNCHANGED <<cache, value, caller>>

Steps == \E c \in Callers : Answer(c) \/ AnswerBatch(c) \/ CollectBatch(c) \/ Wake(c)
Next == Start \/ Steps \/ Expire

(* Every request ends, by an answer or a timeout, and greenlets run. *)
Fairness == \A c \in Callers : WF_vars(Answer(c) \/ AnswerBatch(c) \/ CollectBatch(c) \/ Wake(c))
Spec == Init /\ [][Next]_vars /\ Fairness

-----------------------------------------------------------------------------
(* At most one request per key is under way for the entry in the cache:    *)
(* callers that come while it is fresh share it.                           *)
Debounced ==
    \A k \in Keys : Cardinality({c \in Callers : /\ caller[c].at = "request"
                                                 /\ k \in caller[c].own
                                                 /\ caller[c].entry \notin expired}) <= 1

(* An AsyncResult that someone waits for is set, or a request under way    *)
(* will set it, also when the key's entry has expired and was replaced.    *)
WaitersAreAnswered ==
    \A w \in Callers : caller[w].at = "wait" /\ value[caller[w].entry] = "unset" =>
        \E c \in Callers : /\ caller[c].at = "request"
                           /\ \/ caller[c].entry = caller[w].entry
                              \/ caller[c].op = "batch_get"
                                 /\ \E k \in caller[c].own : cache[k] = caller[w].entry

(* count_error_once: only the caller that made the request gets its        *)
(* exception; the others get None.                                         *)
OnlyInitiatorRaises ==
    CountErrorOnce => \A c \in Callers : caller[c].out = "exception" => caller[c].own # {}

(* Every call returns: again and again all calls that began have ended. *)
CallsReturn == []<>(\A c \in Callers : caller[c].at \in {"start", "end"})
=============================================================================
