---------------------------- MODULE RoutedClient ----------------------------
(***************************************************************************)
(* worker/lib/pigeon/client.py: one call of an RPC through RoutedClient.   *)
(* A chunked call splits the values of its routing field by the service    *)
(* the hash ring names for each, and sends every service its values chunk  *)
(* by chunk, in greenlets of their own; a scalar call goes to one service  *)
(* and may be repeated on the next ones.  Services appear and disappear    *)
(* meanwhile, and a DOWN event closes the channel to one.                  *)
(***************************************************************************)
EXTENDS Naturals, Sequences, SequencesExt, FiniteSets

CONSTANTS Services, Values, ChunkSize,
          MaxRetries,   \* max_secondaries_to_retry
          MaxChanges,   \* services going up and down
          None

VARIABLES routing,   \* "chunked" or "scalar"
          field,     \* values in the message's routing field
          up,        \* services the watcher knows and that do not drain
          client,    \* _clients: a channel number, or None
          closed,    \* closed channels
          opened,    \* channels opened so far
          calls,     \* routed requests: values to send and their channel
          failed,    \* a chunk of the present try has failed
          tries,     \* try_count
          sent,      \* sent values, in order: value, service, try
          rpcError,  \* last_exception
          result,    \* how the call ended
          changes

vars == <<routing, field, up, client, closed, opened, calls, failed, tries, sent, rpcError, result, changes>>

(* The ring: the services for a value, primary first. *)
members(v) == LET all == SetToSeq(Services)
                  n   == CHOOSE i \in 0..Cardinality(Values) : SetToSeq(Values)[i + 1] = v
              IN  [i \in 1..Len(all) |-> all[((i + n - 1) % Len(all)) + 1]]

Idle == [values |-> <<>>, channel |-> None]

Init ==
    /\ routing \in {"chunked", "scalar"}
    /\ field = IF routing = "chunked" THEN SetToSeq(Values) ELSE <<SetToSeq(Values)[1]>>
    /\ up \in SUBSET Services
    /\ client = [s \in Services |-> None]
    /\ closed = {}
    /\ opened = 0
    /\ calls = [s \in Services |-> Idle]
    /\ failed = FALSE
    /\ tries = 0
    /\ sent = <<>>
    /\ rpcError = FALSE
    /\ result = "routing"
    /\ changes = 0

(* ServiceWatcher.select on the ring: the first known member after the     *)
(* skipped ones.                                                           *)
Selected(v, skip) ==
    LET known == {n \in (skip + 1)..Cardinality(Services) : members(v)[n] \in up}
    IN  IF known = {} THEN None ELSE members(v)[Min(known)]

(* Faulty variant: only the error of this try is looked at. *)
EndUnavailableForgets == result' = "unavailable"

(* ServiceUnavailable: an earlier RPC error is raised in its place. *)
EndUnavailable == result' = IF rpcError THEN "error" ELSE "unavailable"

(* _get_client for each service of the request. *)
Connect(values) ==
    LET new == {s \in Services : values[s] # <<>> /\ client[s] = None}
        nr  == [s \in new |-> opened + (CHOOSE i \in 1..Cardinality(new) : SetToSeq(new)[i] = s)]
        chan == [s \in Services |-> IF s \in new THEN nr[s] ELSE client[s]]
    IN  /\ client' = chan
        /\ opened' = opened + Cardinality(new)
        /\ calls' = [s \in Services |-> IF values[s] = <<>> THEN Idle
                                        ELSE [values |-> values[s], channel |-> chan[s]]]

(* _generate_routed_calls: an empty field is refused; the values are       *)
(* grouped, in an order no property tells apart, and then removed from the *)
(* message.                                                                *)
RouteChunked ==
    /\ result = "routing"
    /\ routing = "chunked"
    /\ IF field = <<>> THEN result' = "invalid" /\ UNCHANGED <<field, client, opened, calls>>
       ELSE IF \E i \in 1..Len(field) : Selected(field[i], 0) = None
       THEN EndUnavailable /\ UNCHANGED <<field, client, opened, calls>>
       ELSE /\ Connect([s \in Services |-> SetToSeq({v \in ToSet(field) : Selected(v, 0) = s})])
            /\ field' = <<>>
            /\ result' = "sending"
    /\ UNCHANGED <<routing, up, closed, failed, tries, sent, rpcError, changes>>

(* _request: the first instances, as many as there were tries, are skipped. *)
RouteScalar ==
    LET s == Selected(field[1], tries) IN
    /\ result = "routing"
    /\ routing = "scalar"
    /\ IF s = None THEN EndUnavailable /\ UNCHANGED <<client, opened, calls>>
       ELSE /\ Connect([t \in Services |-> IF t = s THEN field ELSE <<>>])
            /\ result' = "sending"
    /\ UNCHANGED <<routing, field, up, closed, failed, tries, sent, rpcError, changes>>

(* Faulty variant: the chunks overlap by one value. *)
ChunkOverlaps(s) ==
    [now |-> SubSeq(calls[s].values, 1, IF Len(calls[s].values) < ChunkSize THEN Len(calls[s].values) ELSE ChunkSize),
     rest |-> SubSeq(calls[s].values, ChunkSize, Len(calls[s].values))]

(* islice of the remaining values. *)
Chunk(s) ==
    LET vs == calls[s].values
        n  == IF Len(vs) < ChunkSize THEN Len(vs) ELSE ChunkSize
    IN  [now |-> SubSeq(vs, 1, n), rest |-> SubSeq(vs, n + 1, Len(vs))]

(* _do_routed_request: one chunk is sent and answered, or fails; on a      *)
(* closed channel it always fails.  A failure ends this service's request, *)
(* the other greenlets go on.                                              *)
Send(s, ok) ==
    /\ calls[s].values # <<>>
    /\ ok => calls[s].channel \notin closed
    /\ sent' = sent \o [i \in 1..Len(Chunk(s).now) |-> [value |-> Chunk(s).now[i], to |-> s, try |-> tries, ok |-> ok]]
    /\ calls' = [calls EXCEPT ![s] = IF ok /\ Chunk(s).rest # <<>> THEN [@ EXCEPT !.values = Chunk(s).rest] ELSE Idle]
    /\ failed' = (failed \/ ~ok)
    /\ UNCHANGED <<routing, field, up, client, closed, opened, tries, rpcError, result, changes>>

(* All responses are merged. *)
Return ==
    /\ result = "sending"
    /\ \A s \in Services : calls[s] = Idle
    /\ ~failed
    /\ result' = "ok"
    /\ UNCHANGED <<routing, field, up, client, closed, opened, calls, failed, tries, sent, rpcError, changes>>

(* __call__: an RPCException that may be retried, or not.  A retry routes  *)
(* the message again.                                                      *)
Raise(retryable) ==
    /\ result = "sending"
    /\ failed
    /\ rpcError' = TRUE
    /\ IF retryable /\ tries < MaxRetries
       THEN tries' = tries + 1 /\ result' = "routing" /\ failed' = FALSE
       ELSE result' = "error" /\ UNCHANGED <<tries, failed>>
    /\ UNCHANGED <<routing, field, up, client, closed, opened, calls, sent, changes>>

(* Faulty variant: the channel is closed and its client kept. *)
DownKeepsClient(s) ==
    /\ s \in up
    /\ changes < MaxChanges
    /\ up' = up \ {s}
    /\ closed' = closed \cup ({client[s]} \ {None})
    /\ changes' = changes + 1
    /\ UNCHANGED <<routing, field, client, opened, calls, failed, tries, sent, rpcError, result>>

(* _handle_service_change(DOWN), _cleanup_client. *)
Down(s) ==
    /\ s \in up
    /\ changes < MaxChanges
    /\ up' = up \ {s}
    /\ closed' = closed \cup ({client[s]} \ {None})
    /\ client' = [client EXCEPT ![s] = None]
    /\ changes' = changes + 1
    /\ UNCHANGED <<routing, field, opened, calls, failed, tries, sent, rpcError, result>>

Up(s) ==
    /\ s \notin up
    /\ changes < MaxChanges
    /\ up' = up \cup {s}
    /\ changes' = changes + 1
    /\ UNCHANGED <<routing, field, client, closed, opened, calls, failed, tries, sent, rpcError, result>>

Next ==
    \/ RouteChunked \/ RouteScalar \/ Return
    \/ \E retryable \in BOOLEAN : Raise(retryable)
    \/ \E s \in Services : Down(s) \/ Up(s) \/ \E ok \in BOOLEAN : Send(s, ok)

Spec == Init /\ [][Next]_vars

-----------------------------------------------------------------------------
(* A call that returns has sent every value and had it answered, and no    *)
(* value is ever sent twice by a chunked call, whatever services come and  *)
(* go and whatever is retried.                                             *)
EveryValueOnce ==
    /\ routing = "chunked" =>
         \A i, j \in 1..Len(sent) : i # j => sent[i].value # sent[j].value
    /\ result = "ok" /\ routing = "chunked" =>
         \A v \in Values : \E i \in 1..Len(sent) : sent[i].value = v /\ sent[i].ok

(* A call that failed after an RPC was made reports the RPC's error, not   *)
(* that no service was left to repeat it on.                               *)
CauseReported == sent # <<>> => result # "unavailable"

(* No request starts on a channel that was closed before: whoever closes a *)
(* channel drops the cached client.                                        *)
CachedClientsOpen == \A s \in Services : client[s] \notin closed
=============================================================================
