----------------------------- MODULE QuotaBuckets -----------------------------
(***************************************************************************)
(* The accounting both call-counter backends of pkg/callcounter share.  A  *)
(* key stands for one physical bucket, a (key, windowSec) pair: storageKey *)
(* keeps two windows on one name apart.  A recorded call is its age and    *)
(* its weight; a counted call weighs 1.  Weights are whole numbers: the    *)
(* backends agree on IEEE doubles up to MaxWeightedTotal = 2^53, below     *)
(* which whole sums are exact.                                             *)
(***************************************************************************)
EXTENDS Naturals, Sequences, SequencesExt

CONSTANTS
  Keys,               \* physical buckets
  Window,             \* window length of each, in ticks
  MaxWeightedEntries, \* retention ceiling of a weighted bucket; 0 is none
  CleanupMargin       \* cleanupMarginFactor: a bucket lives that many windows untouched

ASSUME BucketAssumption ==
  /\ Window \in [Keys -> Nat \ {0}]
  /\ MaxWeightedEntries \in Nat
  /\ CleanupMargin \in Nat \ {0}

\* A bucket of an admission: capability.QuotaBucket.
QuotaBucket == [key : Keys, counted : BOOLEAN, weight : Nat, limit : Nat \ {0}]

\* checkBuckets: a batch is not empty and its physical buckets are distinct.
\* (Its range checks are the type of QuotaBucket.)
checkBuckets(batch) ==
  /\ batch # <<>>
  /\ \A i, j \in DOMAIN batch : i # j => batch[i].key # batch[j].key

\* What one call contributes to its bucket.
bucketWeight(b) == IF b.counted THEN 1 ELSE b.weight

\* A weight that cannot move the total is admitted without being recorded.
Records(b) == bucketWeight(b) # 0

\* A call survives iff it is strictly younger than the window.
InWindow(age, key) == age < Window[key]

WeightSum(weights) == FoldLeft(LAMBDA a, w : a + w, 0, weights)
=============================================================================
