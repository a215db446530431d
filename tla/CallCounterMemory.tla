-------------------------- MODULE CallCounterMemory --------------------------
(***************************************************************************)
(* The in-memory call counter of pkg/callcounter/memory.go.  Every         *)
(* operation runs under m.mu and is one action; Cleanup takes the lock     *)
(* once to find stale keys and again for each batch of deletions, so       *)
(* admissions run in between.  An entry keeps its timestamps and, once     *)
(* weighted accounting touched it, one weight per timestamp.  Timestamps   *)
(* are kept as ages, saturated where Cleanup may take the entry away.      *)
(***************************************************************************)
EXTENDS QuotaBuckets, FiniteSets, TLC

CONSTANTS
  Batches,            \* AdmitAll requests
  Histories,          \* IncrementAndGet requests: [key, cap]
  MaxKeys             \* WithMaxKeys, a natural number; 0 is unbounded

VARIABLES
  entries,    \* the map: a function on the keys that have an entry
  stale,      \* keys a running Cleanup still means to delete
  reply       \* what the last operation answered

vars == <<entries, stale, reply>>

MaxAge(k) == CleanupMargin * Window[k]

\* weights is empty until the key becomes weighted, then in lockstep with ages.
TypeOK ==
  /\ DOMAIN entries \subseteq Keys
  /\ MaxKeys > 0 => Cardinality(DOMAIN entries) <= MaxKeys
  /\ \A k \in DOMAIN entries :
       LET e == entries[k] IN
         /\ e.ages \in Seq(0 .. MaxAge(k)) /\ e.weights \in Seq(Nat) /\ e.weighted \in BOOLEAN
         /\ Len(e.weights) = IF e.weighted THEN Len(e.ages) ELSE 0
  /\ stale \subseteq Keys
  /\ reply.verdict \in {"none", "admit", "deny", "error", "count"}

Init ==
  /\ entries = [k \in {} |-> {}]
  /\ stale = {}
  /\ reply = [verdict |-> "none"]

-----------------------------------------------------------------------------
(* Entries.                                                                *)

NewEntry == [ages |-> <<>>, weights |-> <<>>, weighted |-> FALSE]

Entry(k) == IF k \in DOMAIN entries THEN entries[k] ELSE NewEntry

Set(k, e) == (k :> e) @@ entries

\* pruneInWindow: drop expired timestamps, oldest first, their weights in
\* lockstep.  Timestamps ascend, so the survivors are a suffix.
pruneInWindow(e, k) ==
  LET live == SelectSeq(e.ages, LAMBDA a : InWindow(a, k))
      dropped == Len(e.ages) - Len(live)
  IN  [e EXCEPT !.ages = live,
                !.weights = IF e.weighted THEN SubSeq(@, dropped + 1, Len(@)) ELSE @]

\* appendCall, with the weights of earlier counted calls made explicit when
\* the key turns weighted.
appendCall(e, weight, weighted) ==
  [ages |-> Append(e.ages, 0),
   weights |-> IF ~weighted THEN <<>>
               ELSE Append(IF e.weighted THEN e.weights ELSE [i \in DOMAIN e.ages |-> 1], weight),
   weighted |-> weighted]

\* trimOldest: keep the newest n.
trimOldest(e, n) ==
  LET drop == IF Len(e.ages) > n THEN Len(e.ages) - n ELSE 0
  IN  [e EXCEPT !.ages = SubSeq(@, drop + 1, Len(@)),
                !.weights = IF e.weighted THEN SubSeq(@, drop + 1, Len(@)) ELSE @]

WeightAt(e, i) == IF e.weighted /\ i \in DOMAIN e.weights THEN e.weights[i] ELSE 1

\* bucketTotal: a weighted read of a key whose weights are not in lockstep
\* falls back to the count.
bucketTotal(counted, e) ==
  IF counted \/ ~e.weighted \/ Len(e.weights) # Len(e.ages) THEN Len(e.ages)
  ELSE WeightSum(e.weights)

-----------------------------------------------------------------------------
(* AdmitAll.                                                               *)

\* Every bucket of the batch, pruned: maintenance done on the deny path too.
Pruned(batch) ==
  LET touched == {batch[i].key : i \in DOMAIN batch} \cap DOMAIN entries
  IN  [k \in DOMAIN entries |-> IF k \in touched THEN pruneInWindow(entries[k], k) ELSE entries[k]]

Current(b) == bucketTotal(b.counted, pruneInWindow(Entry(b.key), b.key))

Blocked(batch) == {i \in DOMAIN batch : Current(batch[i]) + bucketWeight(batch[i]) > batch[i].limit}

\* retryAfterFromPivot: when the entry that brings the count below the limit
\* leaves the window.
retryAfterFromPivot(e, b) ==
  LET pivot == Len(e.ages) - b.limit + 1
  IN  IF pivot \in DOMAIN e.ages THEN Window[b.key] - e.ages[pivot] ELSE 0

\* retryAfterForWeight: when the oldest entries that weigh enough have left;
\* 0 if all of them together do not.
retryAfterForWeight(e, b) ==
  LET needed == Current(b) + b.weight - b.limit
      enough == {n \in DOMAIN e.ages : WeightSum([i \in 1 .. n |-> WeightAt(e, i)]) >= needed}
  IN  IF enough = {} THEN 0 ELSE Window[b.key] - e.ages[Min(enough)]

bucketRetryAfter(b) ==
  LET e == pruneInWindow(Entry(b.key), b.key)
  IN  IF b.counted THEN retryAfterFromPivot(e, b) ELSE retryAfterForWeight(e, b)

\* The ceilings, checked over the whole batch before any bucket is written.
OverCeiling(batch) ==
  LET written == {i \in DOMAIN batch : Records(batch[i])}
      newKeys == {batch[i].key : i \in written} \ DOMAIN entries
  IN  \/ MaxKeys > 0 /\ Cardinality(DOMAIN entries) + Cardinality(newKeys) > MaxKeys
      \/ \E i \in written :
           /\ ~batch[i].counted
           /\ MaxWeightedEntries > 0
           /\ Len(pruneInWindow(Entry(batch[i].key), batch[i].key).ages) >= MaxWeightedEntries

Grow(e, b) == appendCall(e, bucketWeight(b), e.weighted \/ ~b.counted)

\* The commit loop: one bucket after the other, each growing its own entry.
Commit(batch) ==
  FoldLeft(LAMBDA m, b :
             IF ~Records(b) THEN m
             ELSE (b.key :> Grow(IF b.key \in DOMAIN m THEN m[b.key] ELSE NewEntry, b)) @@ m,
           Pruned(batch), batch)

AdmitAll(batch) ==
  /\ \/ /\ ~checkBuckets(batch)
        /\ reply' = [verdict |-> "error", batch |-> batch]
        /\ UNCHANGED entries
     \/ /\ checkBuckets(batch)
        /\ Blocked(batch) # {}
        /\ entries' = Pruned(batch)
        /\ reply' = [verdict |-> "deny", batch |-> batch, index |-> Min(Blocked(batch)),
                     retryAfter |-> bucketRetryAfter(batch[Min(Blocked(batch))])]
     \/ /\ checkBuckets(batch)
        /\ Blocked(batch) = {} /\ OverCeiling(batch)
        /\ entries' = Pruned(batch)
        /\ reply' = [verdict |-> "error", batch |-> batch]
     \/ /\ checkBuckets(batch)
        /\ Blocked(batch) = {} /\ ~OverCeiling(batch)
        /\ entries' = Commit(batch)
        /\ reply' = [verdict |-> "admit", batch |-> batch]
  /\ UNCHANGED stale

-----------------------------------------------------------------------------
(* IncrementAndGet and Peek.                                               *)

IncrementAndGet(h) ==
  /\ LET full == h.key \notin DOMAIN entries /\ MaxKeys > 0 /\ Cardinality(DOMAIN entries) >= MaxKeys
         e == pruneInWindow(Entry(h.key), h.key)
         grown == trimOldest(appendCall(e, 1, e.weighted), h.cap)
     IN  \/ /\ full
            /\ reply' = [verdict |-> "error", key |-> h.key]
            /\ UNCHANGED entries
         \/ /\ ~full
            /\ entries' = Set(h.key, grown)
            /\ reply' = [verdict |-> "count", key |-> h.key, n |-> Len(grown.ages)]
  /\ UNCHANGED stale

\* Peek counts without pruning or recording.
Peek(k) ==
  /\ reply' = [verdict |-> "count", key |-> k,
               n |-> Len(SelectSeq(Entry(k).ages, LAMBDA a : InWindow(a, k)))]
  /\ UNCHANGED <<entries, stale>>

-----------------------------------------------------------------------------
(* Cleanup.                                                                *)

\* shouldDeleteEntry: empty, or its latest call is CleanupMargin windows old.
shouldDeleteEntry(e, k) ==
  \A i \in DOMAIN e.ages : e.ages[i] >= CleanupMargin * Window[k]

\* Phase 1, under the read lock.
FindStale ==
  /\ stale = {}
  /\ stale' = {k \in DOMAIN entries : shouldDeleteEntry(entries[k], k)}
  /\ stale' # {}
  /\ UNCHANGED <<entries, reply>>

\* Mutant of Deletable: staleness is not checked again under the second lock.
DeletableUnchecked(k) == k \in DOMAIN entries

\* Phase 2 looks again: the key may be gone, or in use again.
Deletable(k) == k \in DOMAIN entries /\ shouldDeleteEntry(entries[k], k)

\* Phase 2, a batch of deletions under the lock.
DeleteStale ==
  /\ \E batch \in (SUBSET stale) \ {{}} :
       /\ stale' = stale \ batch
       /\ entries' = [k \in {l \in DOMAIN entries : l \notin batch \/ ~Deletable(l)} |-> entries[k]]
  /\ UNCHANGED reply

Capped(n, cap) == IF n < cap THEN n + 1 ELSE cap

Tick ==
  /\ entries' = [k \in DOMAIN entries |->
                   [entries[k] EXCEPT !.ages = [i \in DOMAIN @ |-> Capped(@[i], MaxAge(k))]]]
  /\ entries' # entries
  /\ UNCHANGED <<stale, reply>>

Next ==
  \/ \E batch \in Batches : AdmitAll(batch)
  \/ \E h \in Histories : IncrementAndGet(h)
  \/ \E k \in Keys : Peek(k)
  \/ FindStale \/ DeleteStale
  \/ Tick

Spec == Init /\ [][Next]_vars

-----------------------------------------------------------------------------
\* The calls of a bucket's window, read off its entry.
Spent(k) ==
  LET e == Entry(k)
  IN  SelectSeq([i \in DOMAIN e.ages |-> [age |-> e.ages[i], weight |-> WeightAt(e, i)]],
                LAMBDA c : InWindow(c.age, k))

Ledger == INSTANCE CallLedger WITH spent <- [k \in Keys |-> Spent(k)]

\* The counter implements the ledger: pruning, compaction, turning a counted
\* key weighted, trimming and Cleanup never lose or invent a call of a window,
\* batches commit whole, and a denial always has a full bucket behind it.
ImplementsLedger == Ledger!LSpec

\* A denial's retry-after is honest (bucketRetryAfter): once that long has passed and nothing
\* else was admitted, the bucket that denied has room for the same call; and
\* it promises nothing (0) only to a call too large for the bucket.
HonestDenial ==
  reply'.verdict = "deny" /\ AdmitAll(reply'.batch) =>
       LET b == reply'.batch[reply'.index]
           later == SelectSeq(Spent(b.key), LAMBDA c : InWindow(c.age + reply'.retryAfter, b.key))
       IN  IF bucketWeight(b) <= b.limit
           THEN reply'.retryAfter \in 1 .. Window[b.key] /\ Ledger!HasRoom(b, later)
           ELSE reply'.retryAfter = 0

RetryAfterHonest == [][HonestDenial]_vars
=============================================================================
