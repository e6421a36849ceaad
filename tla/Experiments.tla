----------------------------- MODULE Experiments -----------------------------
(***************************************************************************)
(* Experiments of the rule language (stdlib/udfs/experiments.py): what the *)
(* constructor of an Experiment accepts, the bucket an entity's hash falls *)
(* into, and what ExperimentWhen and InExperiment make of it.  A bucket's  *)
(* size is given in tenths of a bucket unit, the unit being the hundredth  *)
(* of a percent of which EXPERIMENT_GRANULARITY make the whole.            *)
(***************************************************************************)
EXTENDS Integers, Sequences, SequencesExt, FiniteSets

CONSTANTS EXPERIMENT_GRANULARITY,  \* 10000 in the code
          MaxBuckets               \* 10 in the code

CONTROL_BUCKET == "control"
NOT_IN_EXPERIMENT_BUCKET == ""

\* percentage_to_bucket_units truncates; the maximum is rounded down.
BucketUnits(size) == IF size < 0 THEN -((-size) \div 10) ELSE size \div 10
GetMaxBucketSize(n) == EXPERIMENT_GRANULARITY \div n

\* The errors of Experiment.__init__ for an experiment of this many buckets.
Problems(e) ==
  {p \in {"not assigned", "version", "revision"} :
     CASE p = "not assigned" -> ~e.assigned [] p = "version" -> e.version < 0 [] OTHER -> e.revision < 0} \cup
  IF 1 < Len(e.buckets) /\ Len(e.buckets) > MaxBuckets THEN {"number of buckets"}
  ELSE {p \in {"no control bucket", "number of sizes", "precision", "too large"} :
     CASE p = "no control bucket" -> CONTROL_BUCKET \notin Range(e.buckets)
       [] p = "number of sizes" -> Len(e.buckets) # Len(e.sizes)
       [] Len(e.buckets) # Len(e.sizes) -> FALSE
       [] p = "precision" -> \E s \in Range(e.sizes) : s % 10 # 0
       [] OTHER -> \E s \in Range(e.sizes) : BucketUnits(s) > GetMaxBucketSize(Len(e.buckets))}

\* Without buckets the division raises, and so does the registration of an
\* experiment that has no name, if the constructor gets that far.
Raises(e) ==
  /\ ~(1 < Len(e.buckets) /\ Len(e.buckets) > MaxBuckets) /\ Len(e.buckets) = Len(e.sizes)
  /\ e.buckets = <<>> \/ ~e.assigned
Registered(e) ==
  /\ ~Raises(e) /\ Len(e.buckets) = Len(e.sizes) /\ (Len(e.buckets) > 1 => Len(e.buckets) <= MaxBuckets)
Accepted(e) == ~Raises(e) /\ Problems(e) = {}

\* ValidateExperiments: what is published of an accepted experiment.
ValidationResult(e) == [buckets |-> e.buckets, sizes |-> e.sizes]

\* Faulty variants: the first hash behind a bucket's part belongs to it; buckets
\* follow each other without the room they may grow into.
GetBucketInclusive(e, hash) ==
  LET unitsPerBucket == GetMaxBucketSize(Len(e.buckets))
      i == hash \div unitsPerBucket
  IN  IF i + 1 > Len(e.buckets) \/ hash > BucketUnits(e.sizes[i + 1]) + unitsPerBucket * i
      THEN NOT_IN_EXPERIMENT_BUCKET ELSE e.buckets[i + 1]
GetBucketPacked(e, hash) ==
  LET End(i) == FoldLeft(LAMBDA a, s : IF s > 0 THEN a + BucketUnits(s) ELSE a, 0, SubSeq(e.sizes, 1, i))
      hit == {i \in DOMAIN e.buckets : hash < End(i)}
  IN  IF hit = {} THEN NOT_IN_EXPERIMENT_BUCKET ELSE e.buckets[CHOOSE i \in hit : \A j \in hit : i <= j]
\* get_bucket: each bucket reserves the same number of units and fills them from
\* the first.
GetBucket(e, hash) ==
  LET unitsPerBucket == GetMaxBucketSize(Len(e.buckets))
      i == hash \div unitsPerBucket
  IN  IF i + 1 > Len(e.buckets) \/ hash >= BucketUnits(e.sizes[i + 1]) + unitsPerBucket * i
      THEN NOT_IN_EXPERIMENT_BUCKET ELSE e.buckets[i + 1]

\* The index a feature reports: of the first bucket of the name, or -1.
BucketIndex(e, bucket) ==
  IF bucket = NOT_IN_EXPERIMENT_BUCKET THEN -1 ELSE SelectInSeq(e.buckets, LAMBDA b : b = bucket) - 1

InExperiment(bucket) == bucket # NOT_IN_EXPERIMENT_BUCKET

\* Faulty variant: a bucket may be left out.
WhenProblemsUnexpected(e, provided) ==
  IF ~Registered(e) THEN {"not defined"} ELSE {<<"unexpected", b>> : b \in provided \ Range(e.buckets)}
\* ExperimentWhen: the buckets of a registered experiment, no more and no fewer.
WhenProblems(e, provided) ==
  IF ~Registered(e) THEN {"not defined"}
  ELSE {<<"missing", b>> : b \in Range(e.buckets) \ provided} \cup
       {<<"unexpected", b>> : b \in provided \ Range(e.buckets)}
\* The argument it returns; whoever is not in the experiment gets control's.
WhenBucket(bucket) == IF bucket = NOT_IN_EXPERIMENT_BUCKET THEN CONTROL_BUCKET ELSE bucket

-----------------------------------------------------------------------------
Hashes == 0..(EXPERIMENT_GRANULARITY - 1)
ShareOf(b, published) ==
  FoldLeft(LAMBDA a, i : IF published.buckets[i] = b /\ published.sizes[i] > 0 THEN a + BucketUnits(published.sizes[i]) ELSE a,
           0, [i \in DOMAIN published.buckets |-> i])

\* The buckets of an accepted experiment get exactly the shares of the hashes its
\* published sizes name, rounding of the maximum and sizes below zero included, and
\* the index reported is one of the bucket (Experiment.get_bucket).
SharesExact(e) ==
  \A b \in Range(e.buckets) :
    /\ Cardinality({h \in Hashes : GetBucket(e, h) = b}) = ShareOf(b, ValidationResult(e))
    /\ e.buckets[BucketIndex(e, b) + 1] = b

\* Growing an experiment moves nobody: who was in a bucket is still in it when
\* sizes are raised (Experiment.get_bucket).
GrowsInPlace(e, f) ==
  e.buckets = f.buckets /\ (\A i \in DOMAIN e.sizes : e.sizes[i] <= f.sizes[i]) =>
    \A h \in Hashes : InExperiment(GetBucket(e, h)) => GetBucket(f, h) = GetBucket(e, h)

\* An accepted ExperimentWhen of an accepted experiment has an argument for every
\* entity, in the experiment or not (ExperimentWhen.execute).
Answers(e, provided) ==
  WhenProblems(e, provided) = {} => \A h \in Hashes : WhenBucket(GetBucket(e, h)) \in provided
=============================================================================
