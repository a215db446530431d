------------------------------ MODULE CallLedger ------------------------------
(***************************************************************************)
(* What a call counter promises (capability.CallCounter): an admission is  *)
(* one atomic decision over all its buckets against the calls of their     *)
(* sliding windows.  It is granted only if every bucket has room, denied   *)
(* only if one has none, and records in all of them or in none.  A         *)
(* refusal (an invalid batch, a storage ceiling) changes nothing.          *)
(***************************************************************************)
EXTENDS QuotaBuckets

CONSTANTS
  Batches,    \* admissions asked for: sequences of QuotaBucket
  Histories   \* IncrementAndGet calls: [key, cap]

VARIABLES
  spent,      \* per key: the calls [age, weight] in its window, oldest first
  reply       \* what the last operation answered

lvars == <<spent, reply>>

LInit ==
  /\ spent = [k \in Keys |-> <<>>]
  /\ reply = [verdict |-> "none"]

Older(s) == [i \in DOMAIN s |-> [s[i] EXCEPT !.age = @ + 1]]

\* Time passes and calls leave their windows.
LTick ==
  /\ UNCHANGED reply
  /\ spent' = [k \in Keys |-> SelectSeq(Older(spent[k]), LAMBDA c : InWindow(c.age, k))]

Total(counted, s) == IF counted THEN Len(s) ELSE WeightSum([i \in DOMAIN s |-> s[i].weight])

\* The bucket can take this call beside the calls already in its window.
HasRoom(b, s) == Total(b.counted, s) + bucketWeight(b) <= b.limit

Charge(s, b) == IF Records(b) THEN Append(s, [age |-> 0, weight |-> bucketWeight(b)]) ELSE s

LAdmit(batch) ==
  /\ reply' = [verdict |-> "admit", batch |-> batch]
  /\ \A i \in DOMAIN batch : HasRoom(batch[i], spent[batch[i].key])
  /\ spent' = [k \in Keys |->
                 FoldLeft(LAMBDA s, b : IF b.key = k THEN Charge(s, b) ELSE s, spent[k], batch)]

\* The retry-after a denial carries is advice: any number is allowed here.
LDeny(batch) ==
  /\ reply'.verdict = "deny" /\ reply'.batch = batch
  /\ \E i \in DOMAIN batch : ~HasRoom(batch[i], spent[batch[i].key])
  /\ UNCHANGED spent

LRefuse(batch) ==
  /\ reply' = [verdict |-> "error", batch |-> batch]
  /\ UNCHANGED spent

\* IncrementAndGet: record one call, keep the newest h.cap, answer their number.
LIncrement(h) ==
  LET grown == Append(spent[h.key], [age |-> 0, weight |-> 1])
      kept == IF Len(grown) > h.cap THEN SubSeq(grown, Len(grown) - h.cap + 1, Len(grown)) ELSE grown
  IN  /\ reply' = [verdict |-> "count", key |-> h.key, n |-> Len(kept)]
      /\ spent' = [spent EXCEPT ![h.key] = kept]

LIncrementRefused(h) ==
  /\ reply' = [verdict |-> "error", key |-> h.key]
  /\ UNCHANGED spent

\* Peek: answer the number of calls in the window, record nothing.
LPeek(k) ==
  /\ reply' = [verdict |-> "count", key |-> k, n |-> Len(spent[k])]
  /\ UNCHANGED spent

LNext ==
  \/ LTick
  \/ \E batch \in Batches : LAdmit(batch) \/ LDeny(batch) \/ LRefuse(batch)
  \/ \E h \in Histories : LIncrement(h) \/ LIncrementRefused(h)
  \/ \E k \in Keys : LPeek(k)

LSpec == LInit /\ [][LNext]_lvars
=============================================================================
