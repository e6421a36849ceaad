---------------------------- MODULE SharedState ----------------------------
(***************************************************************************)
(* State that several processes or greenlets share, on small instances.  A *)
(* behaviour is about one subject: etcd's lock, a shared collection, the   *)
(* hash ring, the instances of a service, a routed call, a tree of keys;   *)
(* the labels of an entity, changed by one worker ("labels") or by two     *)
(* ("writers"); a bulk label task; or callers of an external service who   *)
(* use the cache ("get"), batches ("batch") or pass it by ("through").     *)
(***************************************************************************)
EXTENDS EtcdObjects, EtcdFollowers

CONSTANTS Workers, Sinks, Callers

(* None stands for no entry of a cache, which numbers its entries, and for *)
(* a lock that no worker holds.                                            *)
ASSUME NoneAssumption == None \notin Nat /\ None \notin Workers

VARIABLES
  subject,
  labels, exists, lock, txn, now, requests,
  row, claimed, waiting, sink, label, done, runs, rollback, crashes,
  cache, expired, value, caller

labelVars == <<labels, exists, lock, txn, now, requests>>
taskVars == <<row, claimed, waiting, sink, label, done, runs, rollback, crashes>>
cacheVars == <<cache, expired, value, caller>>

(* The keys of the tree: /foo, /foobar and /dir/key. *)
MCPrefixed == [k \in TreeKeys \cup {"dir"} |-> CASE k = "foo" -> RootKeys [] k = "dir" -> DirKeys [] OTHER -> {k}]

Never == 9
Mutations(names, reasons, statuses) == [label : names, reason : reasons, status : statuses, expires : {1, Never}]
(* One or two mutations of a label, an invalid name among them. *)
MergeMutations ==
  {m \in Mutations({"good", ""}, {"r1", "r2"}, 0..3) : m.label = "" => m.status = 1 /\ m.expires = Never}
MergeRequests ==
  {<<m>> : m \in MergeMutations} \cup {<<m, n>> : m \in {k \in MergeMutations : k.expires = Never}, n \in MergeMutations}
(* One mutation of either of two labels; the second worker's clock is ahead. *)
SmallRequests == {<<m>> : m \in Mutations({"good", "bad"}, {"r1"}, {0, 1, 3})}
Ahead == CHOOSE w \in Workers : TRUE
Labels == INSTANCE LabelsService WITH LabelNames <- {"good"}, NoName <- "", Reasons <- {"r1", "r2"}, Slop <- 1,
          Workers <- {Ahead}, Nobody <- None, Requests <- MergeRequests, RowAtStart <- FALSE,
          Skew <- [w \in {Ahead} |-> 0], MaxTime <- 3, MaxRequests <- 2, row <- labels
TwoWriters == INSTANCE LabelsService WITH LabelNames <- {"good", "bad"}, NoName <- "", Reasons <- {"r1"}, Slop <- 1,
          Nobody <- None, Requests <- SmallRequests, RowAtStart <- TRUE,
          Skew <- [w \in Workers |-> IF w = Ahead THEN 2 ELSE 0], MaxTime <- 2, MaxRequests <- 2, row <- labels

Task == INSTANCE BulkLabel WITH Results <- {<<"a", "b">>}, Expected <- 3, Excluded <- 1, MAX_ATTEMPTS <- 3,
          NumQueries <- 1, LabelRetries <- 1, MaxCrashes <- 1

Gets == INSTANCE ServiceCache WITH Keys <- {"k", "l"}, Ops <- {"get"}, HasTTL <- TRUE, CountErrorOnce <- TRUE, NoEntry <- None
Batch == INSTANCE ServiceCache WITH Keys <- {"k", "l"}, Ops <- {"get", "batch_get"}, HasTTL <- FALSE, CountErrorOnce <- FALSE, NoEntry <- None
Through == INSTANCE ServiceCache WITH Keys <- {"k", "l"}, Ops <- {"get", "get_without_cache"}, HasTTL <- TRUE, CountErrorOnce <- FALSE, NoEntry <- None

Init ==
  /\ subject \in {"lock", "collection", "ring", "instances", "call", "tree",
                  "labels", "writers", "task", "get", "batch", "through"}
  /\ Lock!Init /\ Ring!Init /\ Service!Init /\ Gets!Init
  /\ Collection!Init /\ (subject # "collection" => dictNode = NoValue)
  /\ Call!Init /\ (subject # "call" => routing = "scalar" /\ up = {})
  /\ Tree!Init /\ (subject # "tree" => store = Tree!Nothing /\ ~watcherd)
  /\ IF subject = "labels" THEN Labels!Init ELSE TwoWriters!Init
  /\ Task!Init /\ label = [e \in {"a", "b"} |-> IF e = "a" THEN "other" ELSE "none"]

Next ==
  /\ UNCHANGED subject
  /\ \/ /\ subject = "lock" /\ Lock!Next
        /\ UNCHANGED <<dictVars, ringVars, treeVars, discoveryVars, callVars, labelVars, taskVars, cacheVars>>
     \/ /\ subject = "collection" /\ Collection!Next
        /\ UNCHANGED <<lockVars, ringVars, treeVars, discoveryVars, callVars, labelVars, taskVars, cacheVars>>
     \/ /\ subject = "ring" /\ Ring!Next
        /\ UNCHANGED <<lockVars, dictVars, treeVars, discoveryVars, callVars, labelVars, taskVars, cacheVars>>
     \/ /\ subject = "instances" /\ Service!Next
        /\ UNCHANGED <<lockVars, dictVars, ringVars, treeVars, callVars, labelVars, taskVars, cacheVars>>
     \/ /\ subject = "call" /\ Call!Next
        /\ UNCHANGED <<lockVars, dictVars, ringVars, treeVars, discoveryVars, labelVars, taskVars, cacheVars>>
     \/ /\ subject = "tree" /\ Tree!Next
        /\ UNCHANGED <<lockVars, dictVars, ringVars, discoveryVars, callVars, labelVars, taskVars, cacheVars>>
     \/ /\ \/ subject = "labels" /\ Labels!Next
           \/ subject = "writers" /\ TwoWriters!Next
        /\ UNCHANGED <<lockVars, dictVars, ringVars, treeVars, discoveryVars, callVars, taskVars, cacheVars>>
     \/ /\ subject = "task" /\ Task!Next
        /\ UNCHANGED <<lockVars, dictVars, ringVars, treeVars, discoveryVars, callVars, labelVars, cacheVars>>
     \/ /\ \/ subject = "get" /\ Gets!Next
           \/ subject = "batch" /\ Batch!Next
           \/ subject = "through" /\ Through!Next
        /\ UNCHANGED <<lockVars, dictVars, ringVars, treeVars, discoveryVars, callVars, labelVars, taskVars>>

vars == <<subject, lockVars, dictVars, ringVars, treeVars, discoveryVars, callVars, labelVars, taskVars, cacheVars>>
Spec == Init /\ [][Next]_vars

-----------------------------------------------------------------------------
(* What is kept at etcd is shared safely.  Two processes hold the lock     *)
(* only if the time to live of one has passed, or a release() of one has   *)
(* raised after etcd deleted its key (DistributedLock); no update of a     *)
(* collection is lost between its read and its write, also by a retry, and *)
(* its answer is true (_cas_atomic_update); readers of a collection or a   *)
(* ring that have seen all events have what etcd has; and a process        *)
(* selects from the members it lists (EtcdHashRing).                       *)
EtcdObjectsSafe ==
  /\ Lock!ExclusiveUnlessLost
  /\ Collection!NoLostUpdate /\ Collection!AnswersTruthful /\ Collection!ReadersFollow
  /\ Ring!RingFollows /\ Ring!RingOfMembers

(* A watcher of keys that has seen all events left the tree as etcd has    *)
(* it, but for keys that the removal of a directory, or of a key whose     *)
(* path theirs begins with, has swept away (_delete_subtree, _mux.py); and *)
(* the last call of every node watcher had the value the tree has now      *)
(* (EtcdWatcher, EtcdWatcherdWatcher, ReadOnlyEtcdTree).                   *)
TreeFollows == Tree!TreeMirrorsEtcd /\ Tree!NodeWatchersInformed

(* Services that are registered are reached.  A watcher that has seen all  *)
(* changes knows exactly the registered instances, its rotation holds each *)
(* once, and each is selected within a round (ServiceWatcher); a chunked   *)
(* call sends every value once, reports the error of an RPC it made rather *)
(* than the lack of services, and uses no closed channel (RoutedClient);   *)
(* and no member of a hash ring is selected twice (EtcdHashRing.select).   *)
ServicesReached ==
  /\ Service!RotationHoldsInstances /\ Service!KnowsRegistered /\ Service!NoStarvation
  /\ Call!EveryValueOnce /\ Call!CauseReported /\ Call!CachedClientsOpen
  /\ Ring!SelectionDistinct

(* A known label always has a reason; what a human set stays until it      *)
(* expires, whatever rules ask for; of a request's mutations of one label  *)
(* those of the strongest status survive in whatever order they come; and  *)
(* rules see a label as added or as removed, never as set by hand once it  *)
(* has expired (LabelState.try_apply_desired_state, LabelsProvider,        *)
(* HasLabel).                                                              *)
LabelsSound ==
  /\ Labels!KnownLabelHasReason
  /\ subject = "labels" => Labels!ManualHolds /\ Labels!StrongestSurvive /\ Labels!SeenConsistently

(* Resuming a bulk label task skips no entity, one that says COMPLETE has  *)
(* labelled all, the excluded are subtracted from the expectation once,    *)
(* and it is processed fewer than MAX_ATTEMPTS times (BulkLabelSink,       *)
(* BulkLabelTask.claim).                                                   *)
TaskSound ==
  Task!PrefixLabelled /\ Task!CompleteMeansLabelled /\ Task!ExpectedAdjustedOnce /\ Task!BoundedRuns

(* At most one request is under way for a fresh entry when all callers use *)
(* the cache; an AsyncResult that someone waits for is set or will be; and *)
(* with count_error_once only the maker of a request gets its exception    *)
(* (ExternalServiceAccessor).                                              *)
CacheSound ==
  /\ subject # "through" => Gets!Debounced
  /\ Gets!WaitersAreAnswered
  /\ subject = "get" => Gets!OnlyInitiatorRaises

(* No step takes away what another has put there.  A release of the lock   *)
(* leaves the key of another process; a write of a row of labels is the    *)
(* merge of one request into the row it replaces, and no label's history   *)
(* loses a reason (read_modify_write_labels_atomically, LabelState); a     *)
(* rollback of a task leaves a label alone that has another reason, unless *)
(* that reason came between its read of the label and its write            *)
(* (rollback_task_effects).                                                *)
OthersSpared ==
  /\ Lock!ReleaseTakesOwn
  /\ [][subject = "writers" /\ labels' # labels => \E w \in Workers, q \in SmallRequests : TwoWriters!Merges(w, q)]_labelVars
  /\ Labels!ReasonsNeverForgotten
  /\ Task!RollbackSparesOthers
=============================================================================
