--------------------------- MODULE ExecutionGraph ---------------------------
(***************************************************************************)
(* How compile_execution_graph orders the nodes of a validated program.   *)
(* A program is a record:                                                  *)
(*   deps  chain -> the sequence of chains it depends on (the dependent    *)
(*         nodes of its executor, a Name standing for its assignment)      *)
(*   body  source -> the sequence of its statements' chains                *)
(*   kind of node, key of its batch, the sources it brings in, and whether *)
(*   execute() is given an async pool                                      *)
(***************************************************************************)
EXTENDS Sequences, SequencesExt

(* Faulty variant: a chain is emitted before what it depends on. *)
RECURSIVE sort_preorder(_, _, _)
sort_preorder(deps, acc, c) ==
    IF Contains(acc, c) THEN acc
    ELSE FoldLeft(LAMBDA a, d : sort_preorder(deps, a, d), Append(acc, c), deps[c])

RECURSIVE do_topological_sort(_, _, _)
do_topological_sort(deps, acc, c) ==
    LET below == FoldLeft(LAMBDA a, d : do_topological_sort(deps, a, d), acc, deps[c])
    IN  IF Contains(below, c) THEN below ELSE Append(below, c)

(* _topologically_sort_dependency_chain_for every source. *)
sorted_dependency_chains(p) ==
    [s \in DOMAIN p.body |->
        FoldLeft(LAMBDA a, c : do_topological_sort(p.deps, a, c), <<>>, p.body[s])]

(* compile_execution_graph: the program with its sorted chains. *)
compile_execution_graph(p) ==
    [deps |-> p.deps, kind |-> p.kind, key |-> p.key, brings |-> p.brings, pool |-> p.pool,
     sorted |-> sorted_dependency_chains(p)]
=============================================================================
