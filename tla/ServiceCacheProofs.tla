------------------------- MODULE ServiceCacheProofs -------------------------
(***************************************************************************)
(* Proofs about the accessor of external services, for any number of       *)
(* callers and keys.  The invariants are inductive for every choice of     *)
(* methods in which no entry is replaced behind the back of a batch.       *)
(***************************************************************************)
EXTENDS ServiceCache, FiniteSetTheorems, SequenceTheorems, TLAPS

(* batch_get answers the entries that are in the cache when its request    *)
(* ends.  They are those it made if entries do not expire and nobody       *)
(* passes the cache by.                                                    *)
BatchKeepsEntries == "batch_get" \in Ops => ~HasTTL /\ "get_without_cache" \notin Ops

(* NoEntry is not the number of an AsyncResult. *)
Parameters == BatchKeepsEntries /\ NoEntry \notin Nat /\ IsFiniteSet(Keys)

Calls == [op : Ops \cup {"idle"}, at : {"start", "request", "collect", "wait", "end"},
          keys : SUBSET Keys, own : SUBSET Keys, entry : {NoEntry} \cup Nat, out : Values \cup {"none"}]

CacheTypes ==
  /\ value \in Seq(Values)
  /\ expired \subseteq Entries
  /\ expired # {} => HasTTL
  /\ cache \in [Keys -> {NoEntry} \cup Entries]
  /\ caller \in [Callers -> Calls]

(* The entries a call refers to are there: its own, the one it waits for,  *)
(* and those a batch has still to collect.                                 *)
EntriesThere ==
  \A c \in Callers :
    /\ caller[c].at = "request" /\ caller[c].op # "batch_get" => caller[c].entry \in Entries
    /\ caller[c].at = "request" /\ caller[c].op = "batch_get" => caller[c].entry = NoEntry
    /\ caller[c].at = "request" => caller[c].op \in Ops /\ caller[c].own # {}
    /\ caller[c].at = "wait" => caller[c].entry \in Entries
    /\ caller[c].at \in {"collect", "wait"} \/ caller[c].op = "batch_get" =>
         \A k \in caller[c].keys \cup caller[c].own : cache[k] # NoEntry

(* The request of caller c will set entry e. *)
WillSet(c, e) ==
  /\ caller[c].at = "request"
  /\ \/ caller[c].entry = e
     \/ caller[c].op = "batch_get" /\ \E k \in caller[c].own : cache[k] = e

(* Every AsyncResult that is not set belongs to a request under way. *)
UnsetRequested ==
  \A e \in Entries : value[e] = "unset" => \E c \in Callers : WillSet(c, e)

(* The request of caller c for key k is under way and its entry fresh. *)
FreshRequest(c, k) ==
  caller[c].at = "request" /\ k \in caller[c].own /\ caller[c].entry \notin expired

(* When everybody uses the cache, a fresh request has the key's entry, so  *)
(* a second one is not begun.                                              *)
OneRequest ==
  "get_without_cache" \notin Ops =>
    /\ \A c \in Callers, k \in Keys : FreshRequest(c, k) =>
         ~Missing(k) /\ (caller[c].op # "batch_get" => cache[k] = caller[c].entry)
    /\ \A c, d \in Callers, k \in Keys : FreshRequest(c, k) /\ FreshRequest(d, k) => c = d

(* With count_error_once, get() leaves no exception in an entry. *)
ErrorsCountedOnce ==
  CountErrorOnce /\ Ops = {"get"} =>
    /\ \A e \in Entries : value[e] # "exception"
    /\ \A c \in Callers : caller[c].out = "exception" => caller[c].own # {}

CacheInv == CacheTypes /\ EntriesThere /\ UnsetRequested /\ OneRequest /\ ErrorsCountedOnce

-----------------------------------------------------------------------------
(* An action changes one call. *)
LEMMA OneCallMoves ==
  ASSUME CacheTypes, NEW c \in Callers, NEW r \in Calls, caller' = [caller EXCEPT ![c] = r]
  PROVE  /\ caller' \in [Callers -> Calls] /\ caller'[c] = r
         /\ \A d \in Callers : d # c => caller'[d] = caller[d]
BY DEF CacheTypes

(* A call that has not begun. *)
LEMMA IdleFields ==
  /\ Idle.op = "idle" /\ Idle.at = "start" /\ Idle.keys = {} /\ Idle.own = {}
  /\ Idle.entry = NoEntry /\ Idle.out = "none"
BY DEF Idle

(* Nothing has been asked for. *)
LEMMA CacheInitInv ==
  ASSUME Init, Parameters
  PROVE  CacheInv
<1>1. value = <<>> /\ Len(value) = 0 /\ value \in Seq(Values) /\ Entries = {}
  BY DEF Init, Entries
<1>2. Idle \in Calls
  BY DEF Idle, Calls
<1>3. CacheTypes
  BY <1>1, <1>2 DEF Init, CacheTypes
<1>4. \A c \in Callers : caller[c] = Idle
  BY DEF Init
<1>5. EntriesThere
  BY <1>4, IdleFields DEF EntriesThere
<1>6. UnsetRequested
  BY <1>1 DEF UnsetRequested
<1>7. OneRequest
  BY <1>4, IdleFields DEF OneRequest, FreshRequest
<1>8. ErrorsCountedOnce
  BY <1>1, <1>4, IdleFields DEF ErrorsCountedOnce
<1>. QED BY <1>3, <1>5, <1>6, <1>7, <1>8 DEF CacheInv

(* A call moves on that has no request under way, and begins none: a       *)
(* caller finds an entry, collects one or is woken.                        *)
LEMMA QuietMoveKeepsInv ==
  ASSUME CacheInv, NEW c \in Callers, NEW r \in Calls, caller' = [caller EXCEPT ![c] = r],
         UNCHANGED <<cache, expired, value>>,
         caller[c].at # "request", r.at # "request",
         r.at = "wait" => r.entry \in Entries,
         \A k \in r.keys \cup r.own : cache[k] # NoEntry,
         r.out = "exception" => r.own # {} \/ ~CountErrorOnce \/ Ops # {"get"}
  PROVE  CacheInv'
<1>1. /\ caller' \in [Callers -> Calls] /\ caller'[c] = r
      /\ \A d \in Callers : d # c => caller'[d] = caller[d]
  BY OneCallMoves DEF CacheInv
<1>2. CacheTypes'
  BY <1>1 DEF CacheInv, CacheTypes, Entries
<1>3. EntriesThere'
  BY <1>1 DEF CacheInv, EntriesThere, Entries
<1>4. UnsetRequested'
  <2>1. ASSUME NEW d \in Callers, NEW e \in Entries, WillSet(d, e) PROVE WillSet(d, e)'
    BY <1>1, <2>1 DEF WillSet
  <2>. QED BY <2>1 DEF CacheInv, UnsetRequested, Entries
<1>5. OneRequest'
  <2>1. \A d \in Callers, k \in Keys : FreshRequest(d, k)' => FreshRequest(d, k) /\ caller'[d] = caller[d]
    BY <1>1 DEF FreshRequest
  <2>2. \A k \in Keys : Missing(k)' <=> Missing(k)
    BY DEF Missing
  <2>. QED BY <2>1, <2>2 DEF CacheInv, OneRequest
<1>6. ErrorsCountedOnce'
  BY <1>1 DEF CacheInv, ErrorsCountedOnce, Entries
<1>. QED BY <1>2, <1>3, <1>4, <1>5, <1>6 DEF CacheInv

(* get() of a key whose entry is fresh. *)
LEMMA StartGetCachedKeepsInv ==
  ASSUME CacheInv, NEW c \in Callers, NEW k \in Keys, StartGetCached(c, k)
  PROVE  CacheInv'
<1>1. PICK r : r = [Idle EXCEPT !.op = "get", !.at = "wait", !.keys = {k}, !.entry = cache[k]]
  OBVIOUS
<1>2. /\ caller' = [caller EXCEPT ![c] = r] /\ UNCHANGED <<cache, expired, value>>
      /\ caller[c] = Idle /\ ~Missing(k) /\ "get" \in Ops
  BY <1>1 DEF StartGetCached
<1>3. cache[k] \in Entries /\ cache[k] \in Nat /\ cache[k] # NoEntry
  BY <1>2 DEF CacheInv, CacheTypes, Missing, Entries
<1>4. /\ r.at = "wait" /\ r.keys = {k} /\ r.own = {} /\ r.entry = cache[k] /\ r.out = "none"
      /\ r \in Calls
  BY <1>1, <1>2, <1>3 DEF Idle, Calls, Values
<1>. QED BY <1>2, <1>3, <1>4, IdleFields, QuietMoveKeepsInv

(* batch_get comes to the next of its keys. *)
LEMMA CollectKeepsInv ==
  ASSUME CacheInv, NEW c \in Callers, CollectBatch(c)
  PROVE  CacheInv'
<1>1. PICK k \in caller[c].keys :
        caller' = [caller EXCEPT ![c].at = "wait", ![c].entry = cache[k], ![c].keys = @ \ {k}]
  BY DEF CollectBatch
<1>2. caller[c] \in Calls /\ caller[c].at = "collect" /\ UNCHANGED <<cache, expired, value>>
  BY DEF CollectBatch, CacheInv, CacheTypes
<1>3. PICK r : r = [caller[c] EXCEPT !.at = "wait", !.entry = cache[k], !.keys = @ \ {k}]
  OBVIOUS
<1>4. caller' = [caller EXCEPT ![c] = r]
  BY <1>1, <1>3 DEF CacheInv, CacheTypes
<1>5. k \in Keys /\ cache[k] # NoEntry /\ cache[k] \in Entries /\ cache[k] \in Nat
  <2>1. k \in Keys
    BY <1>1, <1>2 DEF Calls
  <2>2. cache[k] # NoEntry
    BY <1>1, <1>2 DEF CacheInv, EntriesThere
  <2>. QED BY <2>1, <2>2 DEF CacheInv, CacheTypes, Entries
<1>6. /\ r \in Calls /\ r.at = "wait" /\ r.entry = cache[k] /\ r.keys \subseteq caller[c].keys
      /\ r.own = caller[c].own /\ r.out = caller[c].out
  BY <1>2, <1>3, <1>5 DEF Calls
<1>7. /\ \A j \in r.keys \cup r.own : cache[j] # NoEntry
      /\ r.out = "exception" => r.own # {} \/ ~CountErrorOnce \/ Ops # {"get"}
  BY <1>2, <1>6 DEF CacheInv, EntriesThere, ErrorsCountedOnce
<1>. QED BY <1>2, <1>4, <1>5, <1>6, <1>7, QuietMoveKeepsInv

(* A waiter is woken by its AsyncResult. *)
LEMMA WakeKeepsInv ==
  ASSUME CacheInv, NEW c \in Callers, Wake(c)
  PROVE  CacheInv'
<1>1. /\ caller[c] \in Calls /\ caller[c].at = "wait" /\ UNCHANGED <<cache, expired, value>>
      /\ value[caller[c].entry] \in Values
  <2>1. caller[c].at = "wait" /\ caller[c].entry \in Entries
    BY DEF Wake, CacheInv, EntriesThere
  <2>. QED BY <2>1, ElementOfSeq DEF Wake, CacheInv, CacheTypes, Entries
<1>2. PICK a, o : /\ a \in {"collect", "end"} /\ o \in {caller[c].out, value[caller[c].entry]}
                  /\ caller' = [caller EXCEPT ![c].at = a, ![c].out = o]
  BY DEF Wake, CacheInv, CacheTypes
<1>3. PICK r : r = [caller[c] EXCEPT !.at = a, !.out = o]
  OBVIOUS
<1>4. caller' = [caller EXCEPT ![c] = r]
  BY <1>2, <1>3 DEF CacheInv, CacheTypes
<1>5. /\ r \in Calls /\ r.at # "request" /\ r.at # "wait" /\ r.keys = caller[c].keys
      /\ r.own = caller[c].own /\ r.out = o
  BY <1>1, <1>2, <1>3 DEF Calls
<1>6. \A j \in r.keys \cup r.own : cache[j] # NoEntry
  BY <1>1, <1>5 DEF CacheInv, EntriesThere
<1>7. r.out = "exception" => r.own # {} \/ ~CountErrorOnce \/ Ops # {"get"}
  BY <1>1, <1>2, <1>5 DEF CacheInv, EntriesThere, ErrorsCountedOnce
<1>. QED BY <1>1, <1>4, <1>5, <1>6, <1>7, QuietMoveKeepsInv

(* A new entry for key k, for the request of call r.  An entry that batch  *)
(* is to answer is not replaced.                                           *)
LEMMA PlaceKeepsInv ==
  ASSUME CacheInv, Parameters, NEW c \in Callers, NEW k \in Keys, NEW r \in Calls,
         caller[c] = Idle, Place(k), UNCHANGED expired, caller' = [caller EXCEPT ![c] = r],
         r.op \in Ops, r.op # "batch_get", r.at = "request", r.own = {k}, r.entry = Len(value) + 1, r.out = "none",
         Missing(k) \/ "get_without_cache" \in Ops
  PROVE  CacheInv'
<1>1. /\ caller' \in [Callers -> Calls] /\ caller'[c] = r
      /\ \A d \in Callers : d # c => caller'[d] = caller[d]
  BY OneCallMoves DEF CacheInv
<1>2. /\ value \in Seq(Values) /\ value' = Append(value, "unset") /\ "unset" \in Values /\ Len(value) \in Nat
      /\ cache' = [cache EXCEPT ![k] = Len(value) + 1]
  BY DEF Place, CacheInv, CacheTypes, Values
<1>3. /\ value' \in Seq(Values) /\ Len(value') = Len(value) + 1
      /\ \A e \in Entries : value'[e] = value[e]
      /\ value'[Len(value) + 1] = "unset"
  BY <1>2 DEF Entries
<1>4. Entries' = Entries \cup {Len(value) + 1} /\ Len(value) + 1 \notin Entries /\ Len(value) + 1 # NoEntry
  BY <1>2, <1>3 DEF Entries, Parameters
<1>5. /\ cache' \in [Keys -> {NoEntry} \cup Entries'] /\ cache'[k] = Len(value) + 1
      /\ \A j \in Keys : j # k => cache'[j] = cache[j]
  BY <1>2, <1>4 DEF CacheInv, CacheTypes
<1>6. CacheTypes'
  BY <1>1, <1>3, <1>4, <1>5 DEF CacheInv, CacheTypes
<1>7. EntriesThere'
  <2>1. ASSUME NEW d \in Callers, d # c PROVE caller'[d] = caller[d] /\ caller[d] \in Calls
    BY <1>1, <2>1 DEF CacheInv, CacheTypes
  <2>2. \A j \in Keys : cache[j] # NoEntry => cache'[j] # NoEntry
    BY <1>4, <1>5
  <2>3. \A d \in Callers : d # c => caller[d].keys \cup caller[d].own \subseteq Keys
    BY <2>1 DEF Calls
  <2>. QED BY <1>1, <1>4, <2>1, <2>2, <2>3 DEF CacheInv, EntriesThere
<1>8. UnsetRequested'
  <2>1. ASSUME NEW d \in Callers, NEW e \in Entries, WillSet(d, e) PROVE WillSet(d, e)'
    <3>1. d # c /\ caller'[d] = caller[d] /\ caller[d] \in Calls
      BY <1>1, <2>1, IdleFields DEF WillSet, CacheInv, CacheTypes
    <3>2. CASE caller[d].entry = e
      BY <2>1, <3>1, <3>2 DEF WillSet
    <3>3. CASE caller[d].op = "batch_get" /\ \E j \in caller[d].own : cache[j] = e
      <4>1. PICK j \in caller[d].own : cache[j] = e
        BY <3>3
      <4>2. "batch_get" \in Ops /\ ~HasTTL /\ "get_without_cache" \notin Ops
        BY <2>1, <3>3 DEF WillSet, CacheInv, EntriesThere, Parameters, BatchKeepsEntries
      <4>3. expired = {} /\ cache[k] = NoEntry
        BY <4>2 DEF CacheInv, CacheTypes, Missing
      <4>4. e # NoEntry /\ j \in Keys
        BY <3>1, <4>1, <2>1 DEF Entries, Parameters, Calls
      <4>5. cache'[j] = e
        BY <1>5, <4>1, <4>3, <4>4
      <4>. QED BY <2>1, <3>1, <3>3, <4>1, <4>5 DEF WillSet
    <3>. QED BY <2>1, <3>2, <3>3 DEF WillSet
  <2>2. \A i : i = Len(value) + 1 => WillSet(c, i)'
    BY <1>1 DEF WillSet
  <2>3. ASSUME NEW e \in Entries', value'[e] = "unset" PROVE \E d \in Callers : WillSet(d, e)'
    <3>1. CASE e \in Entries
      BY <1>3, <2>1, <2>3, <3>1 DEF CacheInv, UnsetRequested
    <3>2. CASE e = Len(value) + 1
      BY <2>2, <3>2
    <3>. QED BY <1>4, <3>1, <3>2
  <2>. QED BY <2>3 DEF UnsetRequested
<1>9. OneRequest'
  <2>. SUFFICES ASSUME "get_without_cache" \notin Ops
                PROVE  /\ \A d \in Callers, j \in Keys : FreshRequest(d, j)' =>
                            ~Missing(j)' /\ (caller'[d].op # "batch_get" => cache'[j] = caller'[d].entry)
                       /\ \A d, b \in Callers, j \in Keys : FreshRequest(d, j)' /\ FreshRequest(b, j)' => d = b
    BY DEF OneRequest
  <2>1. \A d \in Callers, j \in Keys : d # c /\ FreshRequest(d, j)' =>
          FreshRequest(d, j) /\ caller'[d] = caller[d] /\ j # k /\ cache'[j] = cache[j]
    <3>1. \A d \in Callers, j \in Keys : d # c /\ FreshRequest(d, j)' => FreshRequest(d, j) /\ caller'[d] = caller[d]
      BY <1>1 DEF FreshRequest
    <3>2. \A d \in Callers : ~FreshRequest(d, k)
      BY DEF CacheInv, OneRequest
    <3>. QED BY <1>5, <3>1, <3>2
  <2>2. \A j \in Keys : FreshRequest(c, j)' => j = k /\ caller'[c].entry = Len(value) + 1
    BY <1>1 DEF FreshRequest
  <2>3. ~Missing(k)' /\ cache'[k] = Len(value) + 1
    BY <1>4, <1>5 DEF Missing, CacheInv, CacheTypes
  <2>4. \A j \in Keys : j # k => (Missing(j)' <=> Missing(j))
    BY <1>5 DEF Missing
  <2>5. \A d \in Callers, j \in Keys : FreshRequest(d, j) =>
          ~Missing(j) /\ (caller[d].op # "batch_get" => cache[j] = caller[d].entry)
    BY DEF CacheInv, OneRequest
  <2>6. \A d, b \in Callers, j \in Keys : FreshRequest(d, j) /\ FreshRequest(b, j) => d = b
    BY DEF CacheInv, OneRequest
  <2>. QED BY <2>1, <2>2, <2>3, <2>4, <2>5, <2>6
<1>10. ErrorsCountedOnce'
  BY <1>1, <1>3, <1>4 DEF CacheInv, ErrorsCountedOnce
<1>. QED BY <1>6, <1>7, <1>8, <1>9, <1>10 DEF CacheInv

(* get() of a key that is not cached, and get_without_cache(). *)
LEMMA StartRequestKeepsInv ==
  ASSUME CacheInv, Parameters, NEW c \in Callers, NEW k \in Keys, StartGet(c, k) \/ StartGetWithoutCache(c, k)
  PROVE  CacheInv'
<1>1. PICK o \in {"get", "get_without_cache"} :
        /\ o \in Ops /\ caller[c] = Idle /\ Place(k) /\ UNCHANGED expired
        /\ Missing(k) \/ "get_without_cache" \in Ops
        /\ caller' = [caller EXCEPT ![c] = [Idle EXCEPT !.op = o, !.at = "request", !.keys = {k},
                                            !.own = {k}, !.entry = Len(value) + 1]]
  BY DEF StartGet, StartGetWithoutCache
<1>2. PICK r : r = [Idle EXCEPT !.op = o, !.at = "request", !.keys = {k}, !.own = {k}, !.entry = Len(value) + 1]
  OBVIOUS
<1>3. Len(value) + 1 \in Nat
  BY DEF CacheInv, CacheTypes
<1>4. /\ r \in Calls /\ r.op = o /\ r.at = "request" /\ r.own = {k} /\ r.entry = Len(value) + 1 /\ r.out = "none"
  BY <1>1, <1>2, <1>3 DEF Idle, Calls, Values
<1>5. caller' = [caller EXCEPT ![c] = r]
  BY <1>1, <1>2
<1>. QED BY <1>1, <1>4, <1>5, PlaceKeepsInv

(* A request ends: the entries it was to set are set, the others stay.     *)
LEMMA RequestEndKeepsInv ==
  ASSUME CacheInv, NEW c \in Callers, NEW r \in Calls, caller' = [caller EXCEPT ![c] = r],
         UNCHANGED <<cache, expired>>,
         caller[c].at = "request", r.at \in {"end", "collect"}, r.op = caller[c].op,
         r.keys = caller[c].keys, r.own = caller[c].own, r.at = "collect" => r.op = "batch_get",
         value' \in Seq(Values), Len(value') = Len(value),
         \A e \in Entries : value'[e] = value[e] \/ value'[e] # "unset",
         \A e \in Entries : WillSet(c, e) => value'[e] # "unset",
         CountErrorOnce /\ Ops = {"get"} =>
           /\ \A e \in Entries : value'[e] # "exception"
           /\ r.out = "exception" => r.own # {}
  PROVE  CacheInv'
<1>1. /\ caller' \in [Callers -> Calls] /\ caller'[c] = r
      /\ \A d \in Callers : d # c => caller'[d] = caller[d]
  BY OneCallMoves DEF CacheInv
<1>2. Entries' = Entries
  BY DEF Entries
<1>3. CacheTypes'
  BY <1>1, <1>2 DEF CacheInv, CacheTypes
<1>4. EntriesThere'
  BY <1>1, <1>2 DEF CacheInv, EntriesThere
<1>5. UnsetRequested'
  <2>1. ASSUME NEW d \in Callers, NEW e \in Entries, d # c, WillSet(d, e) PROVE WillSet(d, e)'
    BY <1>1, <2>1 DEF WillSet
  <2>2. ASSUME NEW e \in Entries, value'[e] = "unset" PROVE \E d \in Callers : WillSet(d, e)'
    <3>1. value[e] = "unset" /\ ~WillSet(c, e)
      BY <2>2
    <3>2. PICK d \in Callers : WillSet(d, e)
      BY <3>1 DEF CacheInv, UnsetRequested
    <3>. QED BY <2>1, <3>1, <3>2
  <2>. QED BY <1>2, <2>2 DEF UnsetRequested
<1>6. OneRequest'
  <2>1. \A d \in Callers, k \in Keys : FreshRequest(d, k)' => FreshRequest(d, k) /\ caller'[d] = caller[d]
    BY <1>1 DEF FreshRequest
  <2>2. \A k \in Keys : Missing(k)' <=> Missing(k)
    BY DEF Missing
  <2>. QED BY <2>1, <2>2 DEF CacheInv, OneRequest
<1>7. ErrorsCountedOnce'
  BY <1>1, <1>2 DEF CacheInv, ErrorsCountedOnce
<1>. QED BY <1>3, <1>4, <1>5, <1>6, <1>7 DEF CacheInv

(* The answer of get or get_without_cache sets the caller's own entry. *)
LEMMA AnswerKeepsInv ==
  ASSUME CacheInv, NEW c \in Callers, Answer(c)
  PROVE  CacheInv'
<1>1. PICK v \in {"ok", "exception"} :
        /\ value' = [value EXCEPT ![caller[c].entry] = IF v = "ok" THEN v ELSE GetError(caller[c].op)]
        /\ caller' = [caller EXCEPT ![c].at = "end", ![c].out = v]
  BY DEF Answer
<1>2. /\ caller[c].at = "request" /\ caller[c].op # "batch_get" /\ UNCHANGED <<cache, expired>>
      /\ caller[c] \in Calls
  BY DEF Answer, CacheInv, CacheTypes
<1>3. caller[c].entry \in 1..Len(value) /\ value \in Seq(Values) /\ caller[c].op \in Ops
  BY <1>2 DEF CacheInv, EntriesThere, CacheTypes, Entries
<1>4. PICK w \in Values \ {"unset"} :
        /\ value' = [value EXCEPT ![caller[c].entry] = w]
        /\ CountErrorOnce /\ Ops = {"get"} => w # "exception"
  <2>1. GetError(caller[c].op) \in {"None", "exception"}
        /\ (CountErrorOnce /\ Ops = {"get"} => GetError(caller[c].op) = "None")
    BY <1>3 DEF GetError
  <2>. QED BY <1>1, <2>1 DEF Values
<1>5. /\ value' \in Seq(Values) /\ Len(value') = Len(value)
      /\ \A e \in Entries : value'[e] = IF e = caller[c].entry THEN w ELSE value[e]
  BY <1>3, <1>4, ExceptSeq DEF Entries
<1>6. PICK r : r = [caller[c] EXCEPT !.at = "end", !.out = v]
  OBVIOUS
<1>7. caller' = [caller EXCEPT ![c] = r]
  BY <1>1, <1>6 DEF CacheInv, CacheTypes
<1>8. /\ r \in Calls /\ r.at = "end" /\ r.op = caller[c].op /\ r.keys = caller[c].keys /\ r.own = caller[c].own
  BY <1>1, <1>2, <1>6 DEF Calls, Values
<1>9. \A e \in Entries : WillSet(c, e) => e = caller[c].entry
  BY <1>2 DEF WillSet
<1>10. caller[c].own # {}
  BY <1>2 DEF CacheInv, EntriesThere
<1>11. CountErrorOnce /\ Ops = {"get"} => \A e \in Entries : value'[e] # "exception"
  BY <1>4, <1>5 DEF CacheInv, ErrorsCountedOnce
<1>. QED BY <1>2, <1>4, <1>5, <1>7, <1>8, <1>9, <1>10, <1>11, RequestEndKeepsInv

(* The answer of batch_get sets the entries its keys have now. *)
LEMMA AnswerBatchKeepsInv ==
  ASSUME CacheInv, Parameters, NEW c \in Callers, AnswerBatch(c)
  PROVE  CacheInv'
<1>1. /\ caller[c].at = "request" /\ caller[c].op = "batch_get" /\ UNCHANGED <<cache, expired>>
      /\ caller[c] \in Calls /\ caller' = [caller EXCEPT ![c].at = "collect"]
      /\ caller[c].entry = NoEntry /\ "batch_get" \in Ops
  BY DEF AnswerBatch, CacheInv, CacheTypes, EntriesThere
<1>2. PICK vs \in [caller[c].own -> {"ok", "exception"}] :
         value' = [e \in Entries |->
                     IF \E k \in caller[c].own : cache[k] = e
                     THEN vs[CHOOSE k \in caller[c].own : cache[k] = e] ELSE value[e]]
  BY DEF AnswerBatch
<1>3. value \in Seq(Values) /\ Len(value) \in Nat /\ Entries = 1..Len(value)
  BY DEF CacheInv, CacheTypes, Entries
<1>4. \A e \in Entries : value[e] \in Values
  BY <1>3, ElementOfSeq
<1>5. \A e \in Entries : IF \E k \in caller[c].own : cache[k] = e
                         THEN value'[e] \in {"ok", "exception"} ELSE value'[e] = value[e]
  BY <1>2
<1>6. value' \in [1..Len(value) -> Values]
  BY <1>2, <1>3, <1>4, <1>5 DEF Values
<1>7. value' \in Seq(Values) /\ Len(value') = Len(value)
  BY <1>3, <1>6, SeqDef, LenProperties
<1>8. \A e \in Entries : WillSet(c, e) => \E k \in caller[c].own : cache[k] = e
  BY <1>1, <1>3 DEF WillSet, Parameters
<1>9. PICK r : r = [caller[c] EXCEPT !.at = "collect"]
  OBVIOUS
<1>10. caller' = [caller EXCEPT ![c] = r]
  BY <1>1, <1>9 DEF CacheInv, CacheTypes
<1>11. /\ r \in Calls /\ r.at = "collect" /\ r.op = caller[c].op /\ r.keys = caller[c].keys
       /\ r.own = caller[c].own
  BY <1>1, <1>9 DEF Calls
<1>12. Ops # {"get"}
  BY <1>1
<1>13. /\ \A e \in Entries : value'[e] = value[e] \/ value'[e] # "unset"
       /\ \A e \in Entries : WillSet(c, e) => value'[e] # "unset"
  BY <1>5, <1>8
<1>. QED BY <1>1, <1>7, <1>10, <1>11, <1>12, <1>13, RequestEndKeepsInv

(* An entry expires. *)
LEMMA ExpireKeepsInv ==
  ASSUME CacheInv, Parameters, Expire
  PROVE  CacheInv'
<1>1. PICK e \in Entries : expired' = expired \cup {e}
  BY DEF Expire
<1>2. HasTTL /\ "batch_get" \notin Ops /\ UNCHANGED <<cache, value, caller>> /\ Entries' = Entries
  BY DEF Expire, Parameters, BatchKeepsEntries, Entries
<1>3. CacheTypes' /\ EntriesThere'
  BY <1>1, <1>2 DEF CacheInv, CacheTypes, EntriesThere
<1>4. UnsetRequested' /\ ErrorsCountedOnce'
  BY <1>2 DEF CacheInv, UnsetRequested, WillSet, ErrorsCountedOnce
<1>5. OneRequest'
  <2>1. ASSUME NEW c \in Callers, NEW k \in Keys, FreshRequest(c, k)'
        PROVE  FreshRequest(c, k) /\ caller[c].op # "batch_get" /\ caller[c].entry \notin expired'
               /\ caller[c].entry \in Entries
    BY <1>1, <1>2, <2>1 DEF FreshRequest, CacheInv, EntriesThere
  <2>2. ASSUME "get_without_cache" \notin Ops, NEW c \in Callers, NEW k \in Keys, FreshRequest(c, k)'
        PROVE  ~Missing(k)' /\ cache'[k] = caller'[c].entry
    <3>1. cache[k] = caller[c].entry /\ cache[k] # NoEntry
      BY <2>1, <2>2 DEF CacheInv, OneRequest, Missing
    <3>. QED BY <1>2, <2>1, <2>2, <3>1 DEF Missing
  <2>. QED BY <2>1, <2>2 DEF CacheInv, OneRequest
<1>. QED BY <1>3, <1>4, <1>5 DEF CacheInv

(* Distinct numbers for n new entries are all the numbers there are. *)
LEMMA NumbersAreUsed ==
  ASSUME NEW S, IsFiniteSet(S), NEW n \in Nat, NEW num \in [S -> (n + 1)..(n + Cardinality(S))],
         \A j, k \in S : num[j] = num[k] => j = k
  PROVE  \A e \in (n + 1)..(n + Cardinality(S)) : \E k \in S : num[k] = e
<1>. DEFINE T == (n + 1)..(n + Cardinality(S))
<1>1. Cardinality(S) \in Nat
  BY FS_CardinalityType
<1>2. IsFiniteSet(T) /\ Cardinality(T) = Cardinality(S)
  <2>1. PICK a \in Int, b \in Int : a = n + 1 /\ b = n + Cardinality(S)
    BY <1>1
  <2>2. IsFiniteSet(a..b) /\ Cardinality(a..b) = IF a > b THEN 0 ELSE b - a + 1
    BY FS_Interval
  <2>3. T = a..b /\ (IF a > b THEN 0 ELSE b - a + 1) = Cardinality(S)
    BY <1>1, <2>1
  <2>. QED BY <2>2, <2>3
<1>3. num \in Injection(S, T)
  BY DEF Injection, IsInjective
<1>4. num \in Surjection(S, T)
  BY <1>2, <1>3, FS_Injection
<1>. QED BY <1>4 DEF Surjection

(* batch_get: new entries for the keys that are not cached. *)
LEMMA StartBatchKeepsInv ==
  ASSUME CacheInv, Parameters, NEW c \in Callers, NEW ks \in SUBSET Keys, StartBatch(c, ks)
  PROVE  CacheInv'
<1>. DEFINE new == {k \in ks : Missing(k)}
            n == Len(value)
<1>1. /\ "batch_get" \in Ops /\ caller[c] = Idle /\ UNCHANGED expired
      /\ caller' = [caller EXCEPT ![c] = [Idle EXCEPT !.op = "batch_get", !.keys = ks, !.own = new,
                                          !.at = IF new = {} THEN "collect" ELSE "request"]]
  BY DEF StartBatch
<1>2. PICK num \in [new -> (n + 1)..(n + Cardinality(new))] :
         /\ \A j, k \in new : num[j] = num[k] => j = k
         /\ cache' = [k \in Keys |-> IF k \in new THEN num[k] ELSE cache[k]]
         /\ value' = value \o [i \in 1..Cardinality(new) |-> "unset"]
  BY DEF StartBatch
<1>3. /\ expired = {} /\ ~HasTTL /\ "get_without_cache" \notin Ops
      /\ \A k \in Keys : Missing(k) <=> cache[k] = NoEntry
  BY <1>1 DEF CacheInv, CacheTypes, Parameters, BatchKeepsEntries, Missing
<1>4. new \subseteq Keys /\ IsFiniteSet(new) /\ Cardinality(new) \in Nat /\ n \in Nat
  BY FS_Subset, FS_CardinalityType DEF Parameters, CacheInv, CacheTypes
<1>5. \A e \in (n + 1)..(n + Cardinality(new)) : \E k \in new : num[k] = e
  BY <1>2, <1>4, NumbersAreUsed
<1>6. PICK r : r = [Idle EXCEPT !.op = "batch_get", !.keys = ks, !.own = new,
                                !.at = IF new = {} THEN "collect" ELSE "request"]
  OBVIOUS
<1>7. /\ r \in Calls /\ r.op = "batch_get" /\ r.keys = ks /\ r.own = new /\ r.entry = NoEntry /\ r.out = "none"
      /\ r.at = IF new = {} THEN "collect" ELSE "request"
  BY <1>1, <1>4, <1>6 DEF Idle, Calls, Values
<1>8. caller' = [caller EXCEPT ![c] = r]
  BY <1>1, <1>6
<1>9. /\ caller' \in [Callers -> Calls] /\ caller'[c] = r
      /\ \A d \in Callers : d # c => caller'[d] = caller[d]
  BY <1>7, <1>8, OneCallMoves DEF CacheInv
<1>10. PICK m \in Nat : m = Cardinality(new)
  BY <1>4
<1>11. /\ value' \in Seq(Values) /\ Len(value') = n + m
       /\ \A e \in Entries : value'[e] = value[e]
  <2>1. value \in Seq(Values) /\ "unset" \in Values
    BY DEF CacheInv, CacheTypes, Values
  <2>2. PICK s : s = [i \in 1..m |-> "unset"]
    OBVIOUS
  <2>3. s \in Seq(Values) /\ Len(s) = m
    BY <2>1, <2>2, LenProperties
  <2>4. value' = value \o s
    BY <1>2, <1>10, <2>2
  <2>5. /\ value \o s \in Seq(Values) /\ Len(value \o s) = n + m
        /\ \A i \in 1..(n + m) : (value \o s)[i] = IF i <= n THEN value[i] ELSE s[i - n]
    BY <2>1, <2>3, ConcatProperties
  <2>6. \A e \in Entries : e \in 1..(n + m) /\ e <= n
    BY <1>4 DEF Entries
  <2>. QED BY <2>4, <2>5, <2>6
<1>12. Entries' = Entries \cup (n + 1)..(n + m) /\ Entries = 1..n
  <2>1. Entries' = 1..(n + m) /\ Entries = 1..n
    BY <1>11 DEF Entries
  <2>2. \A e : e \in 1..(n + m) <=> e \in 1..n \/ e \in (n + 1)..(n + m)
    BY <1>4
  <2>. QED BY <2>1, <2>2
<1>13. \A k \in new : cache'[k] = num[k] /\ num[k] \in (n + 1)..(n + m) /\ num[k] # NoEntry
  <2>1. \A k \in new : num[k] \in (n + 1)..(n + m) /\ num[k] \in Nat
    BY <1>2, <1>4, <1>10
  <2>. QED BY <1>2, <1>4, <2>1 DEF Parameters
<1>14. \A k \in Keys : k \notin new => cache'[k] = cache[k]
  BY <1>2
<1>15. \A k \in Keys : cache[k] # NoEntry => cache'[k] = cache[k]
  BY <1>3, <1>14
<1>16. CacheTypes'
  <2>1. cache' \in [Keys -> {NoEntry} \cup Entries']
    BY <1>2, <1>12, <1>13, <1>14 DEF CacheInv, CacheTypes
  <2>2. expired' = {}
    BY <1>1, <1>3
  <2>. QED BY <1>9, <1>11, <2>1, <2>2 DEF CacheTypes
<1>. HIDE DEF n
<1>17. \A k \in ks : cache'[k] # NoEntry
  BY <1>3, <1>13, <1>14
<1>. HIDE DEF new
<1>18. new \subseteq ks /\ new \subseteq Keys
  BY <1>4 DEF new
<1>19. \A d \in Callers : d # c => caller'[d] = caller[d] /\ caller[d].keys \cup caller[d].own \subseteq Keys
  BY <1>9 DEF CacheInv, CacheTypes, Calls
<1>20. \A k \in Keys : cache[k] # NoEntry => cache'[k] # NoEntry
  BY <1>15
<1>21. EntriesThere'
  <2>1. Entries \subseteq Entries'
    BY <1>12
  <2>2. \A k \in r.keys \cup r.own : cache'[k] # NoEntry
    BY <1>7, <1>17, <1>18
  <2>3. r.at = "request" => r.own # {}
    BY <1>7
  <2>4. r.at # "wait" /\ r.op = "batch_get" /\ r.op \in Ops /\ r.entry = NoEntry
    BY <1>1, <1>7
  <2>5. ASSUME NEW d \in Callers, d # c
        PROVE  \A k \in caller[d].keys \cup caller[d].own : cache[k] # NoEntry => cache'[k] # NoEntry
    BY <1>19, <1>20, <2>5
  <2>. QED BY <1>9, <2>1, <2>2, <2>3, <2>4, <2>5 DEF CacheInv, EntriesThere
<1>22. UnsetRequested'
  <2>1. ASSUME NEW d \in Callers, NEW e \in Entries, WillSet(d, e) PROVE WillSet(d, e)'
    <3>1. d # c /\ caller'[d] = caller[d] /\ caller[d].own \subseteq Keys
      BY <1>1, <1>19, <2>1, IdleFields DEF WillSet
    <3>2. e # NoEntry
      BY <1>4, <2>1 DEF Entries, Parameters
    <3>. QED BY <1>15, <2>1, <3>1, <3>2 DEF WillSet
  <2>2. ASSUME NEW e \in (n + 1)..(n + m) PROVE WillSet(c, e)'
    <3>1. PICK k \in new : num[k] = e
      BY <1>5, <1>10, <2>2 DEF n
    <3>2. r.at = "request" /\ k \in r.own /\ cache'[k] = e
      BY <1>7, <1>13, <3>1
    <3>. QED BY <1>7, <1>9, <3>2 DEF WillSet
  <2>3. ASSUME NEW e \in Entries', value'[e] = "unset" PROVE \E d \in Callers : WillSet(d, e)'
    <3>1. CASE e \in Entries
      BY <1>11, <2>1, <2>3, <3>1 DEF CacheInv, UnsetRequested
    <3>2. CASE e \in (n + 1)..(n + m)
      BY <2>2, <3>2
    <3>. QED BY <1>12, <3>1, <3>2
  <2>. QED BY <2>3 DEF UnsetRequested
<1>23. OneRequest'
  <2>1. \A k \in Keys : Missing(k)' <=> cache'[k] = NoEntry
    BY <1>1, <1>3 DEF Missing
  <2>2. \A d \in Callers, k \in Keys : d # c /\ FreshRequest(d, k)' =>
          /\ FreshRequest(d, k) /\ caller'[d] = caller[d]
    BY <1>1, <1>9 DEF FreshRequest
  <2>3. \A d \in Callers, k \in Keys : FreshRequest(d, k) => cache[k] # NoEntry /\ k \notin new /\ cache'[k] = cache[k]
    BY <1>3, <1>15 DEF CacheInv, OneRequest, new
  <2>4. \A k \in Keys : FreshRequest(c, k)' => k \in new /\ cache'[k] # NoEntry
    BY <1>7, <1>9, <1>13 DEF FreshRequest
  <2>5. \A d \in Callers, k \in Keys : FreshRequest(d, k) => (caller[d].op # "batch_get" => cache[k] = caller[d].entry)
    BY <1>3 DEF CacheInv, OneRequest
  <2>6. \A d, b \in Callers, k \in Keys : FreshRequest(d, k) /\ FreshRequest(b, k) => d = b
    BY <1>3 DEF CacheInv, OneRequest
  <2>7. \A d \in Callers, k \in Keys : FreshRequest(d, k)' =>
          ~Missing(k)' /\ (caller'[d].op # "batch_get" => cache'[k] = caller'[d].entry)
    BY <1>7, <1>9, <2>1, <2>2, <2>3, <2>4, <2>5
  <2>8. \A d, b \in Callers, k \in Keys : FreshRequest(d, k)' /\ FreshRequest(b, k)' => d = b
    BY <2>2, <2>3, <2>4, <2>6
  <2>. QED BY <2>7, <2>8 DEF OneRequest
<1>24. ErrorsCountedOnce'
  BY <1>1 DEF ErrorsCountedOnce
<1>. QED BY <1>16, <1>21, <1>22, <1>23, <1>24 DEF CacheInv

(* Every step of a caller and of the clock, and every step of others. *)
LEMMA CacheNextKeepsInv ==
  ASSUME CacheInv, Parameters, [Next]_vars
  PROVE  CacheInv'
<1>1. CASE Start
  BY <1>1, StartRequestKeepsInv, StartGetCachedKeepsInv, StartBatchKeepsInv DEF Start
<1>2. CASE Steps
  BY <1>2, AnswerKeepsInv, AnswerBatchKeepsInv, CollectKeepsInv, WakeKeepsInv DEF Steps
<1>3. CASE Expire
  BY <1>3, ExpireKeepsInv
<1>4. CASE UNCHANGED vars
  <2>1. Entries' = Entries /\ \A k \in Keys : Missing(k)' <=> Missing(k)
    BY <1>4 DEF vars, Entries, Missing
  <2>2. \A c \in Callers, k \in Keys : FreshRequest(c, k)' <=> FreshRequest(c, k)
    BY <1>4 DEF vars, FreshRequest
  <2>3. \A c \in Callers : \A e \in Entries : WillSet(c, e)' <=> WillSet(c, e)
    BY <1>4 DEF vars, WillSet
  <2>. QED BY <1>4, <2>1, <2>2, <2>3
           DEF vars, CacheInv, CacheTypes, EntriesThere, UnsetRequested, OneRequest, ErrorsCountedOnce
<1>. QED BY <1>1, <1>2, <1>3, <1>4 DEF Next

(* What the invariant says of waiters, of requests and of exceptions.      *)
LEMMA CacheInvGives ==
  ASSUME CacheInv
  PROVE  /\ WaitersAreAnswered
         /\ "get_without_cache" \notin Ops => Debounced
         /\ Ops = {"get"} => OnlyInitiatorRaises
<1>1. WaitersAreAnswered
  BY DEF CacheInv, EntriesThere, UnsetRequested, WillSet, WaitersAreAnswered
<1>2. ASSUME "get_without_cache" \notin Ops, NEW k \in Keys
      PROVE  Cardinality({c \in Callers : FreshRequest(c, k)}) <= 1
  <2>. DEFINE C == {c \in Callers : FreshRequest(c, k)}
  <2>1. CASE C = {}
    BY <2>1, FS_EmptySet
  <2>2. CASE C # {}
    <3>1. PICK c \in C : TRUE
      BY <2>2
    <3>2. C = {c}
      BY <1>2, <3>1 DEF CacheInv, OneRequest
    <3>. QED BY <3>2, FS_Singleton
  <2>. QED BY <2>1, <2>2
<1>3. "get_without_cache" \notin Ops => Debounced
  BY <1>2 DEF Debounced, FreshRequest
<1>4. Ops = {"get"} => OnlyInitiatorRaises
  BY DEF CacheInv, ErrorsCountedOnce, OnlyInitiatorRaises
<1>. QED BY <1>1, <1>3, <1>4

(* The accessor never leaves a waiter behind: for any callers and keys,    *)
(* the AsyncResult that get, get_without_cache or batch_get waits for is   *)
(* set or belongs to a request under way.                                  *)
THEOREM WaitersAnswered == ASSUME Parameters PROVE Spec => []WaitersAreAnswered
<1>1. Init => CacheInv
  BY CacheInitInv
<1>2. CacheInv /\ [Next]_vars => CacheInv'
  BY CacheNextKeepsInv
<1>3. CacheInv => WaitersAreAnswered
  BY CacheInvGives
<1>. QED BY <1>1, <1>2, <1>3, PTL DEF Spec
=============================================================================
