------------------------------ MODULE Executor ------------------------------
(***************************************************************************)
(* engine/executor: one execution of a compiled program (execute), with    *)
(* its ExecutionContext and TopologicalSorter.  The main greenlet runs the *)
(* loop; asynchronous chains run in greenlets of their own, alone or in    *)
(* batches, and progress only where the main greenlet yields.  A chain's   *)
(* value is abstracted to Ok or Err; whether user code raises is free.     *)
(***************************************************************************)
EXTENDS Integers, Sequences, FiniteSets, SequencesExt, TLC

CONSTANTS Programs,     \* compiled programs, with and without an async pool
          Entry,        \* the entry point source
          YieldEvery,   \* 100 in the code
          NoKey         \* the key of a chain that is not batchable

VARIABLES prog,        \* the execution graph
          dag,         \* the TopologicalSorter
          result,      \* _resolved_node_values
          errors,      \* nodes of error_infos
          outputs,     \* _outputs, of assignments
          sources,     \* the sources enqueue_source was called with
          pc, sync, async,        \* ready_sync, ready_async
          singlets, batches,      \* in progress greenlets
          answer,      \* what a greenlet has returned
          polled,      \* batches found finished at the top of the loop
          turn         \* i of the loop over ready_sync

vars == <<prog, dag, result, errors, outputs, sources, pc, sync, async, singlets,
          batches, answer, polled, turn>>

Chains == DOMAIN prog.deps
Unset == "unset"
Results == {"Ok", "Err"}

-----------------------------------------------------------------------------
(* TopologicalSorter: np is npredecessors of _node2info. *)
OUT == -1
DONE == -2
ABSENT == -3

empty_dag(cs) == [added |-> <<>>, np |-> [c \in cs |-> ABSENT],
                  succ |-> [c \in cs |-> <<>>], ready |-> <<>>, raised |-> FALSE]

(* Faulty variant: completed predecessors are counted as outstanding. *)
add_counts_done(deps, d, c) ==
    LET live == deps[c]
        new  == SelectSeq(<<c>> \o live, LAMBDA p : d.np[p] = ABSENT)
    IN  [d EXCEPT !.added = @ \o new,
                  !.np = [x \in DOMAIN @ |-> IF x = c THEN Len(live)
                                             ELSE IF Contains(new, x) THEN 0 ELSE @[x]],
                  !.succ = [x \in DOMAIN @ |-> @[x] \o [i \in 1..Len(SelectSeq(live, LAMBDA p : p = x)) |-> c]]]

(* Only predecessors that are not done count; one met for the first time   *)
(* is added as a node without predecessors.                                *)
add(deps, d, c) ==
    LET live == SelectSeq(deps[c], LAMBDA p : d.np[p] # DONE)
        new  == SelectSeq(<<c>> \o live, LAMBDA p : d.np[p] = ABSENT)
    IN  [d EXCEPT !.added = @ \o new,
                  !.np = [x \in DOMAIN @ |-> IF x = c THEN Len(live)
                                             ELSE IF Contains(new, x) THEN 0 ELSE @[x]],
                  !.succ = [x \in DOMAIN @ |->
                              @[x] \o [i \in 1..Len(SelectSeq(live, LAMBDA p : p = x)) |-> c]]]

(* Faulty variant: recalculating also offers the nodes that are out. *)
prepare_again(d) ==
    [d EXCEPT !.ready = SelectSeq(d.added, LAMBDA c : d.np[c] \in {0, OUT})]

prepare(d) == [d EXCEPT !.ready = SelectSeq(d.added, LAMBDA c : d.np[c] = 0)]

get_ready(d) ==
    [d EXCEPT !.np = [c \in DOMAIN @ |-> IF Contains(d.ready, c) THEN OUT ELSE @[c]],
              !.ready = <<>>]

(* done(): ValueError unless the node is out. *)
done(d, c) ==
    FoldLeft(LAMBDA e, x :
               [e EXCEPT !.np[x] = @ - 1,
                         !.ready = IF e.np[x] = 1 THEN Append(@, x) ELSE @],
             [d EXCEPT !.raised = @ \/ d.np[c] # OUT, !.np[c] = DONE],
             d.succ[c])

-----------------------------------------------------------------------------
(* ExecutionContext. *)
enqueue_source(p, d, s) ==
    prepare(FoldLeft(LAMBDA e, c : IF Contains(e.added, c) THEN e ELSE add(p.deps, e, c),
                     d, p.sorted[s]))

(* The dependencies that resolved() raises NodeFailurePropagation for: a   *)
(* boolean operation, an equality test, the left of a membership test and  *)
(* an optional argument read None instead.                                             *)
Strict(c) == IF prog.kind[c] \in {"boolean", "equality", "optional"} THEN {}
             ELSE IF prog.kind[c] = "member" THEN {prog.deps[c][2]}
             ELSE Range(prog.deps[c])

Propagates(c) == \E d \in Strict(c) : result[d] = "Err"

(* What running c may return, and whether it adds an error info: only the  *)
(* root cause does.                                                        *)
Outcomes(c) == IF Propagates(c) THEN {"Err"}
               ELSE IF prog.kind[c] \in {"assign", "boolean", "literal", "import"} THEN {"Ok"}
               ELSE Results

(* Faulty variant: every failure is recorded. *)
RecordedAll(c, r) == IF r = "Err" THEN {c} ELSE {}

Recorded(c, r) == IF r = "Err" /\ ~Propagates(c) THEN {c} ELSE {}

(* Faulty variant: a failed assignment leaves no output. *)
stored_if_ok(c) ==
    IF prog.kind[c] = "assign" /\ ~Propagates(c) THEN (c :> "value") ELSE <<>>

(* set_output_value by AssignExecutor, also when the value failed. *)
stored(c) == IF prog.kind[c] = "assign"
             THEN c :> (IF result[prog.deps[c][1]] = "Err" THEN "None" ELSE "value")
             ELSE <<>>

is_async(c) == prog.pool /\ prog.kind[c] \in {"async", "batch"}

Init ==
    /\ prog \in Programs
    /\ dag = enqueue_source(prog, empty_dag(Chains), Entry)
    /\ result = [c \in Chains |-> Unset]
    /\ errors = {}
    /\ outputs = <<>>
    /\ sources = {Entry}
    /\ pc = "ready"
    /\ sync = <<>>
    /\ async = <<>>
    /\ singlets = {}
    /\ batches = {}
    /\ answer = [c \in Chains |-> Unset]
    /\ polled = {}
    /\ turn = 0

(* _get_ready_sync_and_async. *)
GetReady ==
    /\ pc = "ready"
    /\ sync' = SelectSeq(dag.ready, LAMBDA c : ~is_async(c))
    /\ async' = SelectSeq(dag.ready, is_async)
    /\ dag' = get_ready(dag)
    /\ pc' = "top"
    /\ UNCHANGED <<prog, result, errors, outputs, sources, singlets, batches, answer, polled, turn>>

(* Faulty variant: with nothing finished the loop looks again instead of   *)
(* yielding.                                                               *)
PollBusy ==
    /\ pc = "top"
    /\ polled' = {b \in batches : \A c \in Range(b) : answer[c] # Unset}
    /\ pc' = IF sync \o async # <<>> THEN "enqueue"
             ELSE IF polled' # {} \/ \E c \in singlets : answer[c] # Unset THEN "wait"
             ELSE IF singlets # {} \/ batches # {} THEN "top" ELSE "end"
    /\ UNCHANGED <<prog, dag, result, errors, outputs, sources, sync, async, singlets,
                   batches, answer, turn>>

(* The top of the loop: what has finished, without blocking. *)
Poll ==
    /\ pc = "top"
    /\ polled' = {b \in batches : \A c \in Range(b) : answer[c] # Unset}
    /\ pc' = IF sync \o async # <<>> THEN "enqueue"
             ELSE IF singlets # {} \/ batches # {} THEN "wait" ELSE "end"
    /\ UNCHANGED <<prog, dag, result, errors, outputs, sources, sync, async, singlets,
                   batches, answer, turn>>

(* set_resolved_value of each chain of cs with what its greenlet returned. *)
Resolve(cs, d) == FoldLeft(done, d, cs)

(* _enqueue_batches: a batchable chain whose arguments fail is resolved    *)
(* here; two or more chains with one key make a batch.                     *)
Failed == SelectSeq(async, LAMBDA c : prog.kind[c] = "batch" /\ Propagates(c))
Group(k) == SelectSeq(async, LAMBDA c : prog.kind[c] = "batch" /\ prog.key[c] = k /\ ~Propagates(c))
NewBatches == {b \in {Group(prog.key[c]) : c \in Range(async)} : Len(b) > 1}

Remaining == Range(async) \ (Range(Failed) \cup UNION {Range(b) : b \in NewBatches})

(* Collecting the finished greenlets ss and bs, then enqueueing. *)
Collect(ss, bs) ==
    LET got == SetToSeq(ss) \o FlattenSeq(SetToSeq(bs))
    IN  /\ dag' = Resolve(got \o Failed, dag)
        /\ result' = [c \in Chains |-> IF Contains(got, c) THEN answer[c]
                                       ELSE IF Contains(Failed, c) THEN "Err" ELSE result[c]]
        /\ singlets' = (singlets \ ss) \cup Remaining
        /\ batches' = (batches \ bs) \cup NewBatches
        /\ async' = <<>>
        /\ turn' = 0
        /\ pc' = "sync"
        /\ UNCHANGED <<prog, errors, outputs, sources, sync, answer, polled>>

Enqueue == pc = "enqueue" /\ Collect({c \in singlets : answer[c] # Unset}, polled)

(* gevent.wait(..., count=1): on the singlets, or if there are none on the *)
(* batches.                                                                *)
WaitSinglet == \E c \in singlets : pc = "wait" /\ answer[c] # Unset /\ Collect({c}, polled)

WaitBatch == \E b \in batches : /\ pc = "wait"
                                /\ singlets = {}
                                /\ \A c \in Range(b) : answer[c] # Unset
                                /\ Collect({}, {b})

InProgress == singlets # {} \/ batches # {}

(* gevent.sleep(0) every YieldEvery chains. *)
Yielding == pc = "sync" /\ sync # <<>> /\ InProgress /\ turn % YieldEvery = 0

(* One chain of ready_sync: _wrapped_execution and set_resolved_value.  An *)
(* Import or Require enqueues its sources before it is done.               *)
RunSync ==
    /\ pc = "sync"
    /\ sync # <<>>
    /\ LET c == Head(sync) IN
       \E r \in Outcomes(c), taken \in {{}, prog.brings[c]} :
         /\ r = "Err" => taken = {}
         /\ prog.kind[c] = "import" => taken = prog.brings[c]
         /\ sources' = sources \cup taken
         /\ dag' = done(FoldLeft(LAMBDA d, s : enqueue_source(prog, d, s), dag, SetToSeq(taken)), c)
         /\ result' = [result EXCEPT ![c] = r]
         /\ errors' = errors \cup Recorded(c, r)
         /\ outputs' = outputs @@ stored(c)
    /\ sync' = Tail(sync)
    /\ turn' = turn + 1
    /\ UNCHANGED <<prog, pc, async, singlets, batches, answer, polled>>

SyncDone ==
    /\ pc = "sync"
    /\ sync = <<>>
    /\ pc' = "ready"
    /\ UNCHANGED <<prog, dag, result, errors, outputs, sources, sync, async, singlets, batches,
                   answer, polled, turn>>

(* A greenlet runs _wrapped_execution to its end while the loop yields. *)
RunSinglet ==
    /\ pc = "wait" \/ Yielding
    /\ \E c \in singlets, r \in Results :
         /\ answer[c] = Unset
         /\ r \in Outcomes(c)
         /\ answer' = [answer EXCEPT ![c] = r]
         /\ errors' = errors \cup Recorded(c, r)
    /\ UNCHANGED <<prog, dag, result, outputs, sources, pc, sync, async, singlets, batches, polled, turn>>

(* execute_batch raised, or returned too few results: all members fail. *)
BatchFailed(b) == [c \in Range(b) |-> "Err"]

(* _wrapped_batch_execution: one call, then one result per member. *)
RunBatch ==
    /\ pc = "wait" \/ Yielding
    /\ \E b \in batches :
         /\ \A c \in Range(b) : answer[c] = Unset
         /\ \E rs \in {BatchFailed(b)} \cup [Range(b) -> Results] :
              /\ answer' = [c \in Chains |-> IF Contains(b, c) THEN rs[c] ELSE answer[c]]
              /\ errors' = errors \cup {c \in Range(b) : rs[c] = "Err"}
    /\ UNCHANGED <<prog, dag, result, outputs, sources, pc, sync, async, singlets, batches, polled, turn>>

Main == GetReady \/ Poll \/ Enqueue \/ WaitSinglet \/ WaitBatch \/ RunSync \/ SyncDone
Next == Main \/ RunSinglet \/ RunBatch

(* The loop runs on, and every user function returns or raises. *)
Fairness == WF_vars(Main) /\ WF_vars(RunSinglet) /\ WF_vars(RunBatch)
Spec == Init /\ [][Next]_vars /\ Fairness

-----------------------------------------------------------------------------
TypeOK ==
    /\ prog \in Programs
    /\ \A c \in Chains : /\ dag.np[c] \in -3..(2 * Cardinality(Chains))
                         /\ result[c] \in Results \cup {Unset}
                         /\ answer[c] \in Results \cup {Unset}
    /\ errors \subseteq Chains
    /\ DOMAIN outputs \subseteq Chains
    /\ pc \in {"ready", "top", "enqueue", "wait", "sync", "end"}
    /\ singlets \subseteq Chains
    /\ pc \in {"enqueue", "wait"} => polled \subseteq batches
    /\ turn \in 0..Cardinality(Chains)
    /\ ~prog.pool => async = <<>> /\ singlets = {} /\ batches = {}

Started == {c \in Chains : dag.np[c] \in {OUT, DONE}}

(* A chain is handed out only when every chain it depends on is resolved,  *)
(* also when it was added by an Import while others were running: neither  *)
(* enqueue_source nor prepare() offers a node too early.                   *)
DependenciesFirst == \A c \in Started : \A d \in Range(prog.deps[c]) : result[d] # Unset

(* The sorter's done() never raises and no chain is both waiting in the    *)
(* loop and in a greenlet: each is executed exactly once.                  *)
ExecutedOnce ==
    /\ ~dag.raised
    /\ \A c \in Chains :
         LET places == (IF Contains(sync \o async, c) THEN 1 ELSE 0)
                       + (IF c \in singlets THEN 1 ELSE 0)
                       + Cardinality({b \in batches : Contains(b, c)})
                       + (IF result[c] # Unset THEN 1 ELSE 0)
         IN  places <= 1

(* When the loop ends, every chain of every source that was enqueued has a *)
(* result: nothing was left waiting for a predecessor.                     *)
NothingForgotten ==
    pc = "end" => \A s \in sources : \A c \in Range(prog.sorted[s]) : result[c] # Unset

(* error_infos names root causes only: a chain has failed exactly when it  *)
(* raised itself or a dependency it needs has failed, and never both.      *)
ErrorsAreRootCauses ==
    \A c \in Chains : result[c] # Unset =>
        /\ result[c] = "Err" <=> (c \in errors \/ Propagates(c))
        /\ ~(c \in errors /\ Propagates(c))

(* At the end every resolved assignment has an output, None where its      *)
(* value failed: a failure never makes a feature vanish.                   *)
FeaturesComplete ==
    \A c \in Chains : prog.kind[c] = "assign" /\ result[c] # Unset =>
        c \in DOMAIN outputs /\ (outputs[c] = "None" <=> result[c] = "Err")

(* The execution ends. *)
Terminates == []<>(pc = "end")
=============================================================================
