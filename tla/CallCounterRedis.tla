--------------------------- MODULE CallCounterRedis ---------------------------
(***************************************************************************)
(* The Redis call counter of pkg/callcounter/redis.go: replicas that share *)
(* quota buckets, each a sorted set.  AdmitAll is one Lua script and       *)
(* IncrementAndGet one MULTI/EXEC, so each runs atomically in Redis; but   *)
(* the timestamp is read on the replica's own clock before the request     *)
(* travels.  Clocks differ by up to MaxSkew, requests overtake each other, *)
(* and when a reply is lost the client library sends the same command      *)
(* again, so a script may run more than once.                              *)
(*                                                                         *)
(* Scores are kept as ages seen from the fastest clock a replica may have: *)
(* age = (server time + MaxSkew) - score, saturated at OldestAge.          *)
(***************************************************************************)
EXTENDS QuotaBuckets, FiniteSets, FiniteSetsExt

CONSTANTS
  Replicas,
  Skew,        \* how far each replica's clock is behind the fastest one
  MaxSkew,
  Batches,     \* AdmitAll requests
  Histories,   \* IncrementAndGet requests: [key, cap]
  OldestAge,   \* bound: ages saturate here, past every expiry on every clock
  MaxMembers   \* bound: distinct members in use at a time

ASSUME RedisAssumption ==
  /\ MaxSkew \in Nat
  /\ Skew \in [Replicas -> 0 .. MaxSkew]
  /\ Batches \subseteq Seq(QuotaBucket)
  /\ Histories \subseteq [key : Keys, cap : Nat \ {0}]   \* checkMaxEntries
  /\ OldestAge \in Nat /\ \A k \in Keys : CleanupMargin * Window[k] + MaxSkew <= OldestAge
  /\ MaxMembers \in Nat

VARIABLES
  zset,      \* per key: the members [id, age, weight]
  ttl,       \* per key: ticks until Redis expires it (0: no such key)
  call,      \* per replica: the request in flight
  \* History variables, read by the properties only.
  granted    \* per key: the members of calls that their caller saw admitted

vars == <<zset, ttl, call, granted>>

Ids == 1 .. MaxMembers
Idle == [kind |-> "idle"]

TypeOK ==
  /\ \A k \in Keys :
       /\ \A e \in zset[k] : e.id \in Ids /\ e.age \in 0 .. OldestAge /\ e.weight \in Nat
       /\ ttl[k] \in 0 .. CleanupMargin * Window[k]
       /\ zset[k] # {} => ttl[k] > 0
       /\ \A d, e \in zset[k] : d.id = e.id => d = e
  /\ \A i \in Replicas : call[i].kind \in {"idle", "admit", "increment"}

Init ==
  /\ zset = [k \in Keys |-> {}]
  /\ ttl = [k \in Keys |-> 0]
  /\ call = [i \in Replicas |-> Idle]
  /\ granted = [k \in Keys |-> {}]

\* newMember: instance, nanosecond and sequence number make it unique.
Used ==
  (UNION {{e.id : e \in zset[k] \cup granted[k]} : k \in Keys})
  \cup {call[i].id : i \in {j \in Replicas : call[j] # Idle}}

newMember == Min(Ids \ Used)

-----------------------------------------------------------------------------
(* Sending: the clock is read here, on the replica.                        *)

SendAdmitAll(i, batch) ==
  /\ call[i] = Idle /\ Ids \ Used # {}
  /\ checkBuckets(batch)
  /\ call' = [call EXCEPT ![i] = [kind |-> "admit", batch |-> batch, id |-> newMember, age |-> Skew[i]]]
  /\ UNCHANGED <<zset, ttl, granted>>

SendIncrement(i, h) ==
  /\ call[i] = Idle /\ Ids \ Used # {}
  /\ call' = [call EXCEPT ![i] = [kind |-> "increment", batch |-> <<h>>, id |-> newMember, age |-> Skew[i]]]
  /\ UNCHANGED <<zset, ttl, granted>>

-----------------------------------------------------------------------------
(* The script.                                                             *)

KeysOf(batch) == {batch[n].key : n \in DOMAIN batch}

\* ZREMRANGEBYSCORE -inf cutoff, with the caller's idea of now.
Prune(S, k, age) == {e \in S : e.age < age + Window[k]}

WeightOf(S) == MapThenSumSet(LAMBDA e : e.weight, S)
Total(counted, S) == IF counted THEN Cardinality(S) ELSE WeightOf(S)

\* ZADD: a member that is already there only has its score set.
ZAdd(S, id, age, weight) ==
  {e \in S : e.id # id} \cup {[id |-> id, age |-> age, weight |-> weight]}

\* Mutant of Expiry: the expiry is set when the key is created and never moved.
ExpiryOnce(k, S) == IF S = {} THEN 0 ELSE IF ttl[k] > 0 THEN ttl[k] ELSE CleanupMargin * Window[k]

\* EXPIRE on every path; it does not create a key.
Expiry(k, S) == IF S = {} THEN 0 ELSE CleanupMargin * Window[k]

\* The buckets of a request hold S afterwards, pruned and with a new expiry.
Store(batch, S) ==
  /\ zset' = [k \in Keys |-> IF k \in KeysOf(batch) THEN S[k] ELSE zset[k]]
  /\ ttl' = [k \in Keys |-> IF k \in KeysOf(batch) THEN Expiry(k, S[k]) ELSE ttl[k]]

\* admitAllScript: the reply, and what the buckets hold afterwards.
admitAllScript(c) ==
  LET live == [k \in KeysOf(c.batch) |-> Prune(zset[k], k, c.age)]
      Room(b) == Total(b.counted, live[b.key]) + bucketWeight(b) <= b.limit
      Full(b) == /\ ~b.counted /\ Records(b) /\ MaxWeightedEntries > 0
                 /\ Cardinality(live[b.key]) + 1 > MaxWeightedEntries
      Bucket(k) == c.batch[CHOOSE n \in DOMAIN c.batch : c.batch[n].key = k]
      Added(k) == IF Records(Bucket(k))
                  THEN ZAdd(live[k], c.id, c.age, bucketWeight(Bucket(k))) ELSE live[k]
  IN  IF \E n \in DOMAIN c.batch : ~Room(c.batch[n])
      THEN [reply |-> "deny", buckets |-> live]
      ELSE IF \E n \in DOMAIN c.batch : Full(c.batch[n])
      THEN [reply |-> "error", buckets |-> live]
      ELSE [reply |-> "admit", buckets |-> [k \in KeysOf(c.batch) |-> Added(k)]]

\* Rank order of the members: by score, ties by member (ids stand for it).
Newer(d, e) == d.age < e.age \/ (d.age = e.age /\ d.id > e.id)

\* The MULTI/EXEC of IncrementAndGet: prune, ZADD, trim to the newest cap.
incrementPipe(c) ==
  LET h == c.batch[1]
      added == ZAdd(Prune(zset[h.key], h.key, c.age), c.id, c.age, 1)
  IN  [k \in {h.key} |-> {e \in added : Cardinality({d \in added : Newer(d, e)}) < h.cap}]

\* Redis runs the request of i and its reply arrives.
Execute(i) ==
  LET c == call[i] IN
  /\ \/ /\ c.kind = "admit"
        /\ Store(c.batch, admitAllScript(c).buckets)
        /\ granted' = [k \in Keys |->
             IF admitAllScript(c).reply = "admit" /\ k \in KeysOf(c.batch)
             THEN granted[k] \cup {e \in zset'[k] : e.id = c.id} ELSE granted[k]]
     \/ /\ c.kind = "increment"
        /\ Store(c.batch, incrementPipe(c))
        /\ granted' = [granted EXCEPT ![c.batch[1].key] =
             {e \in @ : e.id # c.id} \cup {[id |-> c.id, age |-> c.age, weight |-> 1]}]
  /\ call' = [call EXCEPT ![i] = Idle]

\* Redis runs the request, the reply is lost and the client library will send
\* the same command again.
ExecuteReplyLost(i) ==
  LET c == call[i] IN
  /\ \/ c.kind = "admit" /\ Store(c.batch, admitAllScript(c).buckets)
     \/ c.kind = "increment" /\ Store(c.batch, incrementPipe(c))
  /\ UNCHANGED <<call, granted>>

\* The client gives up: the engine denies on the error.
GiveUp(i) ==
  /\ call[i] # Idle
  /\ call' = [call EXCEPT ![i] = Idle]
  /\ UNCHANGED <<zset, ttl, granted>>

\* Peek, on replica i's clock: ZCOUNT above the cutoff.
Peek(i, k) == Cardinality({e \in zset[k] : e.age < Skew[i] + Window[k]})

-----------------------------------------------------------------------------
Aged(e) == [e EXCEPT !.age = IF @ < OldestAge THEN @ + 1 ELSE OldestAge]
Older(S) == {Aged(e) : e \in S}

\* Time passes: keys whose expiry is reached go, requests grow old under way.
Tick ==
  /\ ttl' = [k \in Keys |-> IF ttl[k] > 0 THEN ttl[k] - 1 ELSE 0]
  /\ zset' = [k \in Keys |-> IF ttl'[k] = 0 THEN {} ELSE Older(zset[k])]
  /\ granted' = [k \in Keys |-> {e \in Older(granted[k]) : e.age < Window[k]}]
  /\ call' = [i \in Replicas |-> IF call[i] = Idle THEN Idle ELSE Aged(call[i])]
  /\ vars' # vars

Next ==
  \/ \E i \in Replicas :
       \/ \E batch \in Batches : SendAdmitAll(i, batch)
       \/ \E h \in Histories : SendIncrement(i, h)
       \/ Execute(i) \/ ExecuteReplyLost(i) \/ GiveUp(i)
  \/ Tick

Spec == Init /\ [][Next]_vars

-----------------------------------------------------------------------------
Buckets == UNION {Range(batch) : batch \in Batches}

\* The quota holds across replicas: the admitted calls whose timestamp is in
\* the window on every clock never exceed a limit of their bucket, although
\* clocks differ, scripts run late, twice or out of order, and keys expire.
\* (Capabilities that match one target may give its bucket different limits:
\* then it is within the one that admitted last.)
WithinLimit ==
  \A b \in Buckets : \E c \in Buckets :
    /\ c.key = b.key /\ c.counted = b.counted
    /\ Total(b.counted, {e \in granted[b.key] : e.age < Window[b.key]}) <= c.limit

\* A recorded antecedent stays visible: as long as its timestamp is in the
\* window on every clock, no replica's Peek answers 0 (sequenceBlock and
\* requiresPriorCall decide on that).
HistoryVisible ==
  \A h \in Histories, i \in Replicas :
    (\E e \in granted[h.key] : e.age < Window[h.key]) => Peek(i, h.key) > 0

\* Across replicas no limit is exceeded, and a recorded antecedent stays visible to every
\* replica (admitAllScript, incrementPipe).
RedisQuotaAndHistory == WithinLimit /\ HistoryVisible

\* The key of a bucket names its namespace: a key is a history, or has one accounting
\* (the namespaces that quotaBucketKey and RecordSessionCall build keys in).
OneAccountingPerKey ==
  \A b \in Buckets : /\ \A c \in Buckets : b.key = c.key => b.counted = c.counted
                    /\ \A h \in Histories : b.key # h.key
=============================================================================
