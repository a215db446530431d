--------------------------- MODULE KillSwitchRedis ---------------------------
(***************************************************************************)
(* The Redis kill switch of pkg/killswitch/redis.go: replicas that share   *)
(* one Redis keyspace of kills.  Redis is the durable truth; every replica *)
(* answers ShouldBlock from a local cache that three paths move: its own   *)
(* kills and revives (durable write, cache update, publish), the pub/sub   *)
(* events of all replicas, and the refresh that rescans Redis and commits  *)
(* its snapshot only if the cache did not change meanwhile (cacheGen).     *)
(*                                                                         *)
(* A key stands for one killable identifier: the global stop, an agent, a  *)
(* session or a token id.  Redis is external and modelled by what the code *)
(* relies on: single-key commands are atomic, SCAN returns every key       *)
(* present throughout, pub/sub delivers in publish order and at most once, *)
(* a write may be applied although its reply is lost, session tombstones   *)
(* expire.  A replica may be partitioned from Redis, stopped or crashed.   *)
(*                                                                         *)
(* cacheGen is kept as what the code compares: refresh.raced is            *)
(* cacheGen # startGen.  lastRefreshOK is kept as its age, saturated.      *)
(* Subscription loss is covered by messages that are not delivered.        *)
(***************************************************************************)
EXTENDS Naturals, Sequences, FiniteSets

CONSTANTS
  Replicas,     \* processes holding a *Redis on this keyspace
  Serving,      \* those that Start; the others only issue kills (`eunox kill`)
  Keys,         \* killable identifiers
  Global,       \* the key of the global stop: it matches every subject
  Dimension,    \* position of a key's dimension in the scan and sweep order
  Expirable,    \* keys with a TTL (session tombstones)
  FailOpen,     \* WithFailOpen: serve the cache while Redis cannot be confirmed
  Staleness,    \* staleness(): age at which a confirmed refresh is too old
  MaxAttempts,  \* maxRefreshAttempts
  MaxScan,      \* bound: ticks a refresh attempt that commits may take
  MaxOps,       \* bound: kills, revives and resets issued
  MaxFaults     \* bound: partitions, crashes and lost replies

ASSUME ConfigAssumption ==
  /\ Serving \subseteq Replicas
  /\ Global \in Keys
  /\ Dimension \in [Keys -> Nat]
  /\ Expirable \subseteq Keys
  /\ FailOpen \in BOOLEAN
  /\ Staleness \in Nat \ {0}
  /\ MaxAttempts \in Nat \ {0}
  /\ MaxScan \in Nat
  /\ MaxOps \in Nat
  /\ MaxFaults \in Nat

VARIABLES
  durable,    \* keys present in Redis
  cache,      \* per replica: globalActive and the dimension maps
  life,       \* "new", "starting", "started" or "stopped"
  refresh,    \* per replica: the refresh running under refreshMu
  lastErr,    \* lastRefreshErr # nil
  age,        \* clock - lastRefreshOK, saturated; Never before any success
  trigger,    \* refreshTrigger holds its one pending signal
  op,         \* per replica: the management operation in progress
  inbox,      \* per replica: pub/sub messages not yet handled
  reach,      \* replicas that can reach Redis
  ops, faults,
  \* History variables, read by the properties only.
  told,       \* per replica: cached kills that observers were notified of
  absent,     \* per replica: cached keys missing from Redis at some time since applied
  firm,       \* per key: ticks it has been durable with no removal under way
  scanLen     \* per replica: ticks the last committed scan took

vars == <<durable, cache, life, refresh, lastErr, age, trigger, op, inbox, reach,
          ops, faults, told, absent, firm, scanLen>>

Never == Staleness + 2
FirmCap == Staleness + MaxScan + 2

NoOp == [verb |-> "none", keys |-> {}, phase |-> "none"]
NoRefresh == [on |-> FALSE, todo |-> {}, found |-> {}, attempt |-> 0, raced |-> FALSE, age |-> 0]

Message == [verb : {"kill", "revive", "reset"}, keys : SUBSET Keys]

TypeOK ==
  /\ durable \subseteq Keys
  /\ cache \in [Replicas -> SUBSET Keys]
  /\ life \in [Replicas -> {"new", "starting", "started", "stopped"}]
  /\ refresh \in [Replicas -> [on : BOOLEAN, todo : SUBSET Keys, found : SUBSET Keys,
                               attempt : 0 .. MaxAttempts, raced : BOOLEAN, age : 0 .. MaxScan + 1]]
  /\ lastErr \in [Replicas -> BOOLEAN]
  /\ age \in [Replicas -> 0 .. Never]
  /\ trigger \in [Replicas -> BOOLEAN]
  /\ op \in [Replicas -> [verb : {"none", "kill", "revive", "reset"}, keys : SUBSET Keys,
                          phase : {"none", "sweep", "cache", "publish", "reseed"}]]
  /\ inbox \in [Replicas -> Seq(Message)]
  /\ reach \subseteq Replicas
  /\ ops \in 0 .. MaxOps
  /\ faults \in 0 .. MaxFaults
  /\ told \in [Replicas -> SUBSET Keys]
  /\ absent \in [Replicas -> SUBSET Keys]
  /\ firm \in [Keys -> 0 .. FirmCap]
  /\ scanLen \in [Replicas -> 0 .. MaxScan]

Init ==
  /\ durable = {}
  /\ cache = [i \in Replicas |-> {}]
  /\ life = [i \in Replicas |-> "new"]
  /\ refresh = [i \in Replicas |-> NoRefresh]
  /\ lastErr = [i \in Replicas |-> FALSE]
  /\ age = [i \in Replicas |-> Never]
  /\ trigger = [i \in Replicas |-> FALSE]
  /\ op = [i \in Replicas |-> NoOp]
  /\ inbox = [i \in Replicas |-> <<>>]
  /\ reach = Replicas
  /\ ops = 0
  /\ faults = 0
  /\ told = [i \in Replicas |-> {}]
  /\ absent = [i \in Replicas |-> {}]
  /\ firm = [k \in Keys |-> 0]
  /\ scanLen = [i \in Replicas |-> 0]

\* Start() set the loops going and Stop has not ended them.
Live(i) == life[i] \in {"starting", "started"}

-----------------------------------------------------------------------------
(* Answers.                                                                *)

\* staleLocked: a zero lastRefreshOK is not stale.
staleLocked(i) == age[i] # Never /\ age[i] > Staleness

\* Mutant of livenessLocked: only failed refreshes are noticed, not stale ones.
livenessErrOnly(i) ==
  IF life[i] = "stopped" THEN "stopped"
  ELSE IF lastErr[i] THEN "refreshFailed" ELSE "live"

\* livenessLocked: can a non-match be served as a confident all-clear?
livenessLocked(i) ==
  IF life[i] = "stopped" THEN "stopped"
  ELSE IF lastErr[i] THEN "refreshFailed"
  ELSE IF staleLocked(i) THEN "stale" ELSE "live"

Blocks(i, k) == Global \in cache[i] \/ k \in cache[i]

\* ShouldBlock: TRUE where it answers (false, nil) for a subject named k.
AllClear(i, k) ==
  /\ life[i] \notin {"new", "starting"}
  /\ ~Blocks(i, k)
  /\ \/ livenessLocked(i) = "live"
     \/ livenessLocked(i) \in {"refreshFailed", "stale"} /\ FailOpen

-----------------------------------------------------------------------------
(* Changes of Redis and of a cache, with their history bookkeeping.        *)

\* Durable removal of the keys R: every replica's history records it.
Removed(R) ==
  /\ durable' = durable \ R
  /\ absent' = [i \in Replicas |-> absent[i] \cup (R \cap cache[i])]
  /\ firm' = [k \in Keys |-> IF k \in R THEN 0 ELSE firm[k]]

Written(k) ==
  /\ durable' = durable \cup {k}
  /\ firm' = [firm EXCEPT ![k] = IF k \in durable THEN @ ELSE 0]
  /\ UNCHANGED absent

\* The revocations replica i's observers are notified of when its cache
\* becomes S: what it gains, and nothing it already held.
Gained(i, S) == S \ cache[i]

\* The cache of replica i becomes S under r.mu; kills in A were (re)applied.  The
\* code notifies its observers just after it lets go of r.mu, in the same call and
\* before it returns: told records here, at the change, what that call will announce.
Apply(i, S, A) ==
  /\ cache' = [cache EXCEPT ![i] = S]
  /\ told' = [told EXCEPT ![i] = (@ \cap S) \cup Gained(i, S)]
  /\ absent' = [absent EXCEPT ![i] = S \cap ((@ \ A) \cup (A \ durable))]

\* Mutant of Raced: a mutation during a scan goes unnoticed.
RacedUnnoticed(i) == UNCHANGED refresh

\* cacheGen++: a refresh attempt in flight will see the generation moved.
Raced(i) == refresh' = [refresh EXCEPT ![i].raced = @ \/ refresh[i].on]

-----------------------------------------------------------------------------
(* Kill, revive: setBlock, ActivateGlobal and DeactivateGlobal.            *)

\* A replica serves one operation at a time; MaxOps bounds them all.
StartOp(i) == op[i] = NoOp /\ ops < MaxOps /\ ops' = ops + 1

\* The durable SET or DEL.  An error before this point changes nothing.
WriteKill(i, k) ==
  /\ StartOp(i)
  /\ i \in reach
  /\ Written(k)
  /\ op' = [op EXCEPT ![i] = [verb |-> "kill", keys |-> {k}, phase |-> "cache"]]
  /\ UNCHANGED <<cache, life, refresh, lastErr, age, trigger, inbox, reach, faults, told, scanLen>>

WriteRevive(i, k) ==
  /\ StartOp(i)
  /\ i \in reach
  /\ Removed({k})
  /\ op' = [op EXCEPT ![i] = [verb |-> "revive", keys |-> {k}, phase |-> "cache"]]
  /\ UNCHANGED <<cache, life, refresh, lastErr, age, trigger, inbox, reach, faults, told, scanLen>>

\* Redis applied the write but the reply was lost: the call returns the error
\* and leaves the cache alone.
WriteReplyLost(i, k) ==
  /\ StartOp(i)
  /\ i \in reach
  /\ faults < MaxFaults
  /\ faults' = faults + 1
  /\ Written(k) \/ Removed({k})
  /\ UNCHANGED <<cache, life, refresh, lastErr, age, trigger, op, inbox, reach, told, scanLen>>

\* The cache is updated under r.mu before the publish.
UpdateCache(i) ==
  /\ op[i].phase = "cache"
  /\ \/ /\ op[i].verb = "kill"
        /\ Apply(i, cache[i] \cup op[i].keys, op[i].keys)
     \/ /\ op[i].verb = "revive"
        /\ Apply(i, cache[i] \ op[i].keys, {})
  /\ Raced(i)
  /\ op' = [op EXCEPT ![i].phase = "publish"]
  /\ UNCHANGED <<durable, life, lastErr, age, trigger, inbox, reach, ops, faults, firm, scanLen>>

\* publish: the event reaches any subset of the running replicas (at most
\* once), or none when the command fails (ErrPublishFailed).
Publish(i) ==
  /\ op[i].phase = "publish"
  /\ \E D \in SUBSET {j \in Replicas : Live(j)} :
       /\ D # {} => i \in reach
       /\ inbox' = [j \in Replicas |->
                      IF j \in D THEN Append(inbox[j], [verb |-> op[i].verb, keys |-> op[i].keys])
                      ELSE inbox[j]]
  /\ op' = [op EXCEPT ![i] = IF op[i].verb = "reset" THEN [@ EXCEPT !.phase = "cache"] ELSE NoOp]
  /\ UNCHANGED <<durable, cache, life, refresh, lastErr, age, trigger, reach, ops, faults,
                 told, absent, firm, scanLen>>

-----------------------------------------------------------------------------
(* Reset: sweep the keys from Redis dimension by dimension, publish, clear *)
(* the local cache, then reseed it with a refresh.                         *)

BeginReset(i) ==
  /\ StartOp(i)
  /\ op' = [op EXCEPT ![i] = [verb |-> "reset", keys |-> Keys, phase |-> "sweep"]]
  /\ UNCHANGED <<durable, cache, life, refresh, lastErr, age, trigger, inbox, reach, faults,
                 told, absent, firm, scanLen>>

\* The keys of the earliest dimension not yet handled.
NextKeys(todo) == {k \in todo : \A l \in todo : Dimension[k] <= Dimension[l]}

\* deleteByPrefix: SCAN and DEL key by key.  A key set behind the sweep stays.
SweepKey(i) ==
  /\ op[i].phase = "sweep"
  /\ i \in reach
  /\ \E k \in NextKeys(op[i].keys) :
       /\ Removed({k} \cap durable)
       /\ op' = [op EXCEPT ![i] = IF @.keys = {k}
                                  THEN [verb |-> "reset", keys |-> Keys, phase |-> "publish"]
                                  ELSE [op[i] EXCEPT !.keys = @ \ {k}]]
  /\ UNCHANGED <<cache, life, refresh, lastErr, age, trigger, inbox, reach, ops, faults, told, scanLen>>

\* A deletion that fails aborts the reset: what is deleted stays deleted, the
\* local cache is not cleared and nobody is told.
SweepFails(i) ==
  /\ op[i].phase = "sweep"
  /\ i \notin reach
  /\ op' = [op EXCEPT ![i] = NoOp]
  /\ UNCHANGED <<durable, cache, life, refresh, lastErr, age, trigger, inbox, reach, ops, faults,
                 told, absent, firm, scanLen>>

ClearCache(i) ==
  /\ op[i].phase = "cache" /\ op[i].verb = "reset"
  /\ Apply(i, {}, {})
  /\ Raced(i)
  /\ op' = [op EXCEPT ![i].phase = "reseed"]
  /\ UNCHANGED <<durable, life, lastErr, age, trigger, inbox, reach, ops, faults, firm, scanLen>>

-----------------------------------------------------------------------------
(* Pub/sub: handlePubSubMessage on the single listener goroutine.          *)

Deliver(i) ==
  /\ Live(i)
  /\ inbox[i] # <<>>
  /\ inbox' = [inbox EXCEPT ![i] = Tail(@)]
  /\ LET m == Head(inbox[i]) IN
       \/ /\ m.verb = "kill"
          /\ Apply(i, cache[i] \cup m.keys, m.keys)
          /\ UNCHANGED trigger
       \/ /\ m.verb = "revive"
          /\ Apply(i, cache[i] \ m.keys, {})
          /\ UNCHANGED trigger
       \/ /\ m.verb = "reset"
          /\ Apply(i, {}, {})
          /\ trigger' = [trigger EXCEPT ![i] = TRUE]
  /\ Raced(i)
  /\ UNCHANGED <<durable, life, lastErr, age, op, reach, ops, faults, firm, scanLen>>

-----------------------------------------------------------------------------
(* Refresh: serializedRefresh under refreshMu.                             *)

Attempt(n) == [NoRefresh EXCEPT !.on = TRUE, !.todo = Keys, !.attempt = n]

\* Start: subscribes (messages flow from here on), then loads the snapshot.
Start(i) ==
  /\ i \in Serving
  /\ life[i] = "new"
  /\ ~refresh[i].on
  /\ life' = [life EXCEPT ![i] = "starting"]
  /\ refresh' = [refresh EXCEPT ![i] = Attempt(1)]
  /\ UNCHANGED <<durable, cache, lastErr, age, trigger, op, inbox, reach, ops, faults,
                 told, absent, firm, scanLen>>

\* A reconcile tick, a drained refresh trigger or a resubscription.
BeginRefresh(i) ==
  /\ life[i] = "started"
  /\ ~refresh[i].on
  /\ refresh' = [refresh EXCEPT ![i] = Attempt(1)]
  /\ trigger' = [trigger EXCEPT ![i] = FALSE]
  /\ UNCHANGED <<durable, cache, life, lastErr, age, op, inbox, reach, ops, faults,
                 told, absent, firm, scanLen>>

\* Reset's best-effort reseed, under runCtx: on a stopped replica it fails at
\* once; otherwise it is a refresh of its own.
Reseed(i) ==
  /\ op[i].phase = "reseed"
  /\ ~refresh[i].on
  /\ op' = [op EXCEPT ![i] = NoOp]
  /\ \/ /\ life[i] = "stopped"
        /\ lastErr' = [lastErr EXCEPT ![i] = TRUE]
        /\ UNCHANGED refresh
     \/ /\ life[i] # "stopped"
        /\ refresh' = [refresh EXCEPT ![i] = Attempt(1)]
        /\ UNCHANGED lastErr
  /\ UNCHANGED <<durable, cache, life, age, trigger, inbox, reach, ops, faults,
                 told, absent, firm, scanLen>>

\* One key's presence is read: GET of the global key, then the SCANs.
ScanKey(i) ==
  /\ refresh[i].on
  /\ i \in reach /\ life[i] # "stopped"
  /\ \E k \in NextKeys(refresh[i].todo) :
       refresh' = [refresh EXCEPT ![i].todo = @ \ {k},
                                  ![i].found = IF k \in durable THEN @ \cup {k} ELSE @]
  /\ UNCHANGED <<durable, cache, life, lastErr, age, trigger, op, inbox, reach, ops, faults,
                 told, absent, firm, scanLen>>

AfterRefresh(i) == IF life[i] = "starting" THEN "started" ELSE life[i]

\* The GET or a SCAN fails, or Stop cancelled the run context: the error is
\* recorded, the cache stays.  Start goes on degraded.
RefreshFails(i) ==
  /\ refresh[i].on /\ refresh[i].todo # {}
  /\ i \notin reach \/ life[i] = "stopped"
  /\ refresh' = [refresh EXCEPT ![i] = NoRefresh]
  /\ lastErr' = [lastErr EXCEPT ![i] = TRUE]
  /\ life' = [life EXCEPT ![i] = AfterRefresh(i)]
  /\ UNCHANGED <<durable, cache, age, trigger, op, inbox, reach, ops, faults,
                 told, absent, firm, scanLen>>

ScanDone(i) == refresh[i].on /\ refresh[i].todo = {}

\* The generation moved and attempts are left: scan again from scratch.
RetryRefresh(i) ==
  /\ ScanDone(i)
  /\ refresh[i].raced
  /\ refresh[i].attempt < MaxAttempts
  /\ refresh' = [refresh EXCEPT ![i] = Attempt(@.attempt + 1)]
  /\ UNCHANGED <<durable, cache, life, lastErr, age, trigger, op, inbox, reach, ops, faults,
                 told, absent, firm, scanLen>>

\* Mutant of Snapshot: every commit unions, so a lost revive is never undone.
SnapshotUnion(i) == refresh[i].found \cup cache[i]

\* What a completed scan commits: the scan itself when nothing raced it, and
\* its union with the cache on the last, still raced, attempt.
Snapshot(i) == IF refresh[i].raced THEN refresh[i].found \cup cache[i] ELSE refresh[i].found

\* commitRefreshLocked: install the snapshot and stamp the refresh healthy.
CommitRefresh(i) ==
  /\ ScanDone(i)
  /\ refresh[i].raced => refresh[i].attempt = MaxAttempts
  /\ refresh[i].age <= MaxScan
  /\ Apply(i, Snapshot(i), Snapshot(i) \ cache[i])
  /\ lastErr' = [lastErr EXCEPT ![i] = FALSE]
  /\ age' = [age EXCEPT ![i] = 0]
  /\ scanLen' = [scanLen EXCEPT ![i] = refresh[i].age]
  /\ refresh' = [refresh EXCEPT ![i] = NoRefresh]
  /\ life' = [life EXCEPT ![i] = AfterRefresh(i)]
  /\ UNCHANGED <<durable, trigger, op, inbox, reach, ops, faults, firm>>

-----------------------------------------------------------------------------
(* Stop and the environment.                                               *)

\* lifeMu makes Stop wait for Start's body.  A Stop before Start only makes
\* Start a no-op: that replica behaves as one outside Serving.
Stop(i) ==
  /\ life[i] = "started"
  /\ life' = [life EXCEPT ![i] = "stopped"]
  /\ inbox' = [inbox EXCEPT ![i] = <<>>]
  /\ UNCHANGED <<durable, cache, refresh, lastErr, age, trigger, op, reach, ops, faults,
                 told, absent, firm, scanLen>>

Fault == faults < MaxFaults /\ faults' = faults + 1

\* The process dies and is started afresh, in the middle of anything.
Crash(i) ==
  /\ Fault
  /\ life' = [life EXCEPT ![i] = "new"]
  /\ cache' = [cache EXCEPT ![i] = {}]
  /\ told' = [told EXCEPT ![i] = {}]
  /\ refresh' = [refresh EXCEPT ![i] = NoRefresh]
  /\ lastErr' = [lastErr EXCEPT ![i] = FALSE]
  /\ age' = [age EXCEPT ![i] = Never]
  /\ trigger' = [trigger EXCEPT ![i] = FALSE]
  /\ op' = [op EXCEPT ![i] = NoOp]
  /\ inbox' = [inbox EXCEPT ![i] = <<>>]
  /\ absent' = [absent EXCEPT ![i] = {}]
  /\ UNCHANGED <<durable, reach, ops, firm, scanLen>>

Partition(i) ==
  /\ Fault
  /\ i \in reach
  /\ reach' = reach \ {i}
  /\ UNCHANGED <<durable, cache, life, refresh, lastErr, age, trigger, op, inbox, ops,
                 told, absent, firm, scanLen>>

Heal(i) ==
  /\ i \notin reach
  /\ reach' = reach \cup {i}
  /\ UNCHANGED <<durable, cache, life, refresh, lastErr, age, trigger, op, inbox, ops, faults,
                 told, absent, firm, scanLen>>

\* A session tombstone's TTL runs out.
Expire(k) ==
  /\ k \in Expirable \cap durable
  /\ Removed({k})
  /\ UNCHANGED <<cache, life, refresh, lastErr, age, trigger, op, inbox, reach, ops, faults,
                 told, scanLen>>

\* m is an operation or an event that takes k out of a cache.
Removes(m, k) == m.verb = "reset" \/ (m.verb = "revive" /\ k \in m.keys)

\* A removal of k is under way: an operation between its first DEL and its
\* return, or its event not yet handled.
Removing(k) ==
  \E i \in Replicas :
    \/ Removes(op[i], k)
    \/ \E n \in DOMAIN inbox[i] : Removes(inbox[i][n], k)

Capped(n, cap) == IF n < cap THEN n + 1 ELSE n

Tick ==
  /\ age' = [i \in Replicas |-> IF age[i] = Never THEN Never ELSE Capped(age[i], Staleness + 1)]
  /\ refresh' = [i \in Replicas |->
                   IF refresh[i].on THEN [refresh[i] EXCEPT !.age = Capped(@, MaxScan + 1)]
                   ELSE refresh[i]]
  /\ firm' = [k \in Keys |-> IF k \in durable /\ ~Removing(k) THEN Capped(firm[k], FirmCap) ELSE 0]
  /\ <<age, refresh, firm>>' # <<age, refresh, firm>>
  /\ UNCHANGED <<durable, cache, life, lastErr, trigger, op, inbox, reach, ops, faults,
                 told, absent, scanLen>>

-----------------------------------------------------------------------------
Operation(i) ==
  \/ \E k \in Keys : WriteKill(i, k) \/ WriteRevive(i, k) \/ WriteReplyLost(i, k)
  \/ UpdateCache(i)
  \/ Publish(i)
  \/ BeginReset(i) \/ SweepKey(i) \/ SweepFails(i) \/ ClearCache(i) \/ Reseed(i)

Background(i) ==
  \/ Start(i) \/ BeginRefresh(i)
  \/ ScanKey(i) \/ RefreshFails(i) \/ RetryRefresh(i) \/ CommitRefresh(i)
  \/ Deliver(i)

Environment ==
  \/ \E i \in Replicas : Stop(i) \/ Crash(i) \/ Partition(i) \/ Heal(i)
  \/ \E k \in Keys : Expire(k)

Next ==
  \/ \E i \in Replicas : Operation(i) \/ Background(i)
  \/ Environment

\* Specification without a clock, and with one.
Spec == Init /\ [][Next]_vars
TimedSpec == Init /\ [][Next \/ Tick]_vars

(***************************************************************************)
(* Fairness: goroutines of a running process make progress, the reconcile  *)
(* ticker keeps firing, partitions heal, a dead process is started again.  *)
(***************************************************************************)
Fairness ==
  \A i \in Replicas :
    /\ WF_vars(UpdateCache(i)) /\ WF_vars(Publish(i))
    /\ WF_vars(SweepKey(i) \/ SweepFails(i)) /\ WF_vars(ClearCache(i)) /\ WF_vars(Reseed(i))
    /\ WF_vars(Start(i)) /\ WF_vars(BeginRefresh(i))
    /\ WF_vars(ScanKey(i) \/ RefreshFails(i) \/ RetryRefresh(i) \/ CommitRefresh(i))
    /\ WF_vars(Deliver(i)) /\ WF_vars(Heal(i))

LiveSpec == Spec /\ Fairness

-----------------------------------------------------------------------------
\* A refresh commit takes a kill out of a cache only if that kill really was
\* missing from Redis at some time after it was last applied there: the
\* cacheGen guard and the final union keep a scan older than a kill from
\* erasing it (serializedRefresh's comments).
RefreshNeverErasesKill ==
  [][\A i \in Replicas : \A k \in cache[i] :
       /\ ScanDone(i) /\ ~refresh'[i].on /\ life'[i] # "new"
       /\ k \notin cache'[i]
       => k \in absent[i]]_vars

\* Every path that puts a kill into a replica's cache announces it: the call that
\* stored it computed it as gained (ObserveRevocations' contract: "whenever this
\* backend's LOCAL view gains a revocation").  It does not speak of the moment
\* between the release of r.mu and the notification, which Apply folds together.
EveryKillAnnounced == \A i \in Replicas : cache[i] \subseteq told[i]

\* Fail-closed: once a kill has been durable, with no removal of it under way,
\* for longer than staleness() plus the length of a replica's last committed
\* scan, that replica never again answers all-clear for it, even if it has
\* been partitioned, hung, crashed or every pub/sub message was lost.
KillReachesEveryReplica ==
  ~FailOpen =>
    \A i \in Replicas, k \in DOMAIN firm :
      firm[k] > Staleness + scanLen[i] => ~AllClear(i, k)

\* Kills arrive: no replica's cache holds a kill that the call storing it did not
\* announce (EveryKillAnnounced), and no replica answers all-clear for a kill that has been
\* durable for longer than staleness() plus a scan, whatever was partitioned,
\* crashed or lost (KillReachesEveryReplica; it says something where there is a
\* clock).
KillsArrive == EveryKillAnnounced /\ KillReachesEveryReplica

\* ActivateGlobal's comment: "the issuing instance is never in a fail-open
\* window: a ShouldBlock between the write and the publish must already
\* observe the kill".
IssuerObservesItsKill ==
  \A i \in Replicas :
    op[i].verb = "kill" /\ op[i].phase = "publish" =>
      \A k \in op[i].keys : k \in durable => ~AllClear(i, k)
=============================================================================
