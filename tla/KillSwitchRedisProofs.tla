------------------------ MODULE KillSwitchRedisProofs ------------------------
(***************************************************************************)
(* Proofs about KillSwitchRedis for any replicas, keys, attempts, faults   *)
(* and staleness budget, with and without a clock.                         *)
(*                                                                         *)
(* The fail-closed bound rests on four facts.  Clean: a kill that counts   *)
(* as firm is durable and no removal has passed it.  ScanCovers: a refresh *)
(* attempt cannot miss a kill that was firm before the attempt began.      *)
(* CacheCovers: a cache confirmed age ticks ago by a scan of scanLen ticks *)
(* holds every kill firm for longer than both together.  Confirmed: a      *)
(* replica that has started without ever confirming its cache knows it.    *)
(*                                                                         *)
(* That a refresh erases no kill it raced rests on ScanJustified: what an  *)
(* unraced scan has passed and not found was missing since it was applied. *)
(***************************************************************************)
EXTENDS KillSwitchRedis, SequenceTheorems, TLAPS

\* An operation is none or has a verb, and only a reset sweeps and reseeds.
OpsAreWhole ==
  \A i \in Replicas :
    /\ op[i].phase = "none" <=> op[i].verb = "none"
    /\ op[i].phase \in {"sweep", "reseed"} => op[i].verb = "reset"

\* A removal that has already deleted k from Redis and may still reach a cache.
Passed(o, k) == Removes(o, k) /\ ~(o.phase = "sweep" /\ k \in o.keys)

\* A firm kill is durable, and no removal of it is behind its DEL.
Clean ==
  \A k \in Keys : firm[k] > 0 =>
    /\ k \in durable
    /\ \A i \in Replicas :
         /\ ~Passed(op[i], k)
         /\ \A n \in DOMAIN inbox[i] : ~Removes(inbox[i][n], k)

\* A confirmed cache holds the kills that were firm when its scan began.
CacheCovers ==
  \A i \in Replicas, k \in Keys :
    age[i] <= Staleness /\ firm[k] > age[i] + scanLen[i] => k \in cache[i]

\* A scan under way finds, or has still to read, the kills firm when it began.
ScanCovers ==
  \A i \in Replicas, k \in Keys :
    refresh[i].on /\ refresh[i].age <= MaxScan /\ firm[k] > refresh[i].age =>
      k \in refresh[i].todo \cup refresh[i].found

\* A replica that serves from a cache never confirmed has recorded an error.
Confirmed == \A i \in Replicas : life[i] = "started" /\ age[i] = Never => lastErr[i]

\* The history of a cached key that is not durable records its absence.
AbsenceRecorded == \A i \in Replicas : cache[i] \ durable \subseteq absent[i]

\* A kill in a cache that an unraced scan has found missing was missing.
ScanJustified ==
  \A i \in Replicas : refresh[i].on /\ ~refresh[i].raced =>
    cache[i] \ (refresh[i].todo \cup refresh[i].found) \subseteq absent[i]

\* The inductive invariant of the timed specification.
IInv ==
  /\ TypeOK /\ OpsAreWhole
  /\ Clean /\ CacheCovers /\ ScanCovers /\ Confirmed
  /\ AbsenceRecorded /\ ScanJustified
  /\ EveryKillAnnounced

\* The initial state satisfies the inductive invariant.
LEMMA InitIInv == Init => IInv
  <1> SUFFICES ASSUME Init PROVE IInv
    OBVIOUS
  <1> USE ConfigAssumption
  <1>1. TypeOK
    <2>1. inbox \in [Replicas -> Seq(Message)]
      BY DEF Init
    <2>2. QED
      BY <2>1 DEF Init, TypeOK, NoOp, NoRefresh, Never, FirmCap
  <1>2. OpsAreWhole /\ Clean /\ ScanCovers /\ Confirmed /\ AbsenceRecorded /\ ScanJustified
        /\ EveryKillAnnounced
    BY DEF Init, OpsAreWhole, Clean, ScanCovers, Confirmed, AbsenceRecorded, ScanJustified,
       EveryKillAnnounced, NoOp, NoRefresh
  <1>3. CacheCovers
    BY DEF Init, CacheCovers, Never
  <1>4. QED
    BY <1>1, <1>2, <1>3 DEF IInv

\* What an operation and a refresh are made of.
OpSet == [verb : {"none", "kill", "revive", "reset"}, keys : SUBSET Keys,
          phase : {"none", "sweep", "cache", "publish", "reseed"}]
RefreshSet == [on : BOOLEAN, todo : SUBSET Keys, found : SUBSET Keys,
               attempt : 0 .. MaxAttempts, raced : BOOLEAN, age : 0 .. MaxScan + 1]

\* Counting one more operation or fault stays within its bound.
LEMMA CountUp ==
  ASSUME NEW n, NEW top \in Nat, n \in 0 .. top, n < top
  PROVE  n + 1 \in 0 .. top
  OBVIOUS

\* The change of a cache keeps the history's types, announces what it brings in,
\* and records what of it is absent.
LEMMA ApplyKeeps ==
  ASSUME TypeOK, AbsenceRecorded, EveryKillAnnounced, NEW i \in Replicas,
         NEW S \in SUBSET Keys, NEW A \in SUBSET Keys, S \ cache[i] \subseteq A,
         Apply(i, S, A), durable' = durable
  PROVE  /\ cache' \in [Replicas -> SUBSET Keys]
         /\ told' \in [Replicas -> SUBSET Keys]
         /\ absent' \in [Replicas -> SUBSET Keys]
         /\ AbsenceRecorded' /\ EveryKillAnnounced'
         /\ cache'[i] = S /\ \A j \in Replicas \ {i} : cache'[j] = cache[j] /\ absent'[j] = absent[j]
  <1>1. /\ cache' = [cache EXCEPT ![i] = S]
        /\ told' = [told EXCEPT ![i] = (@ \cap S) \cup (S \ cache[i])]
        /\ absent' = [absent EXCEPT ![i] = S \cap ((@ \ A) \cup (A \ durable))]
    BY DEF Apply, Gained
  <1>2. /\ cache \in [Replicas -> SUBSET Keys] /\ told \in [Replicas -> SUBSET Keys]
        /\ absent \in [Replicas -> SUBSET Keys]
    BY DEF TypeOK
  <1>3. /\ cache' \in [Replicas -> SUBSET Keys] /\ told' \in [Replicas -> SUBSET Keys]
        /\ absent' \in [Replicas -> SUBSET Keys]
    BY <1>1, <1>2
  <1>4. AbsenceRecorded'
    BY <1>1, <1>2 DEF AbsenceRecorded
  <1>5. EveryKillAnnounced'
    BY <1>1, <1>2 DEF EveryKillAnnounced
  <1>6. QED
    BY <1>1, <1>2, <1>3, <1>4, <1>5

\* A kill that is firm for no longer than before stays covered.
LEMMA FirmFalls ==
  ASSUME TypeOK, CacheCovers, ScanCovers, firm' \in [Keys -> 0 .. FirmCap],
         \A k \in Keys : firm'[k] <= firm[k],
         UNCHANGED <<cache, age, scanLen, refresh>>
  PROVE  CacheCovers' /\ ScanCovers'
  <1>1. /\ firm \in [Keys -> Nat] /\ firm' \in [Keys -> Nat]
        /\ age \in [Replicas -> Nat] /\ scanLen \in [Replicas -> Nat]
        /\ \A i \in Replicas : refresh[i].age \in Nat
    BY ConfigAssumption DEF TypeOK, FirmCap, Never
  <1>2. CacheCovers'
    BY <1>1, ConfigAssumption DEF CacheCovers
  <1>3. ScanCovers'
    BY <1>1, ConfigAssumption DEF ScanCovers
  <1>4. QED
    BY <1>2, <1>3

\* A durable removal keeps every cache and scan covered and on the record.
LEMMA RemovedKeeps ==
  ASSUME TypeOK, CacheCovers, ScanCovers, AbsenceRecorded, ScanJustified,
         NEW R \in SUBSET Keys, Removed(R),
         UNCHANGED <<cache, age, scanLen, refresh>>
  PROVE  /\ durable' \subseteq Keys
         /\ absent' \in [Replicas -> SUBSET Keys]
         /\ firm' \in [Keys -> 0 .. FirmCap]
         /\ CacheCovers' /\ ScanCovers' /\ AbsenceRecorded' /\ ScanJustified'
         /\ \A k \in Keys : firm'[k] > 0 => k \notin R /\ firm[k] > 0
         /\ durable' = durable \ R
  <1>1. /\ durable' = durable \ R
        /\ absent' = [i \in Replicas |-> absent[i] \cup (R \cap cache[i])]
        /\ firm' = [k \in Keys |-> IF k \in R THEN 0 ELSE firm[k]]
    BY DEF Removed
  <1>2. /\ durable \subseteq Keys /\ absent \in [Replicas -> SUBSET Keys]
        /\ cache \in [Replicas -> SUBSET Keys] /\ firm \in [Keys -> 0 .. FirmCap]
        /\ FirmCap \in Nat
    BY ConfigAssumption DEF TypeOK, FirmCap
  <1>3. /\ firm' \in [Keys -> 0 .. FirmCap]
        /\ \A k \in Keys : firm'[k] <= firm[k] /\ (firm'[k] > 0 => k \notin R /\ firm[k] > 0)
    BY <1>1, <1>2
  <1>4. absent' \in [Replicas -> SUBSET Keys]
    BY <1>1, <1>2
  <1>5. AbsenceRecorded'
    BY <1>1, <1>2 DEF AbsenceRecorded
  <1>6. ScanJustified'
    BY <1>1, <1>2 DEF ScanJustified
  <1>7. QED
    BY <1>1, <1>2, <1>3, <1>4, <1>5, <1>6, FirmFalls

\* A durable write makes no kill firmer.
LEMMA WrittenKeeps ==
  ASSUME TypeOK, CacheCovers, ScanCovers, AbsenceRecorded, ScanJustified, Clean,
         NEW k \in Keys, Written(k),
         UNCHANGED <<cache, age, scanLen, refresh>>
  PROVE  /\ durable' \subseteq Keys
         /\ absent' \in [Replicas -> SUBSET Keys]
         /\ firm' \in [Keys -> 0 .. FirmCap]
         /\ CacheCovers' /\ ScanCovers' /\ AbsenceRecorded' /\ ScanJustified'
         /\ \A l \in Keys : firm'[l] > 0 => firm[l] > 0
         /\ durable' = durable \cup {k}
  <1>1. /\ durable' = durable \cup {k}
        /\ absent' = absent
        /\ firm' = [firm EXCEPT ![k] = IF k \in durable THEN @ ELSE 0]
    BY DEF Written
  <1>2. /\ durable \subseteq Keys /\ absent \in [Replicas -> SUBSET Keys]
        /\ cache \in [Replicas -> SUBSET Keys] /\ firm \in [Keys -> 0 .. FirmCap]
        /\ FirmCap \in Nat
    BY ConfigAssumption DEF TypeOK, FirmCap
  <1>3. /\ firm' \in [Keys -> 0 .. FirmCap]
        /\ \A l \in Keys : firm'[l] <= firm[l] /\ (firm'[l] > 0 => firm[l] > 0)
    BY <1>1, <1>2
  <1>4. AbsenceRecorded' /\ ScanJustified'
    BY <1>1, <1>2 DEF AbsenceRecorded, ScanJustified
  <1>5. QED
    BY <1>1, <1>2, <1>3, <1>4, FirmFalls

\* WriteKill keeps the inductive invariant.
LEMMA WriteKillKeeps ==
  ASSUME IInv, NEW i \in Replicas, NEW k \in Keys, WriteKill(i, k)
  PROVE  IInv'
  <1> USE DEF IInv
  <1>1. Written(k) /\ UNCHANGED <<cache, life, refresh, lastErr, age, trigger, inbox, reach, faults, told, scanLen>>
        /\ op' = [op EXCEPT ![i] = [verb |-> "kill", keys |-> {k}, phase |-> "cache"]]
        /\ ops' = ops + 1 /\ ops < MaxOps /\ op[i] = NoOp
    BY DEF WriteKill, StartOp
  <1>2. /\ durable' \subseteq Keys
        /\ absent' \in [Replicas -> SUBSET Keys]
        /\ firm' \in [Keys -> 0 .. FirmCap]
        /\ CacheCovers' /\ ScanCovers' /\ AbsenceRecorded' /\ ScanJustified'
        /\ \A l \in Keys : firm'[l] > 0 => firm[l] > 0
        /\ durable' = durable \cup {k}
    BY <1>1, WrittenKeeps
  <1>3. TypeOK' /\ OpsAreWhole'
    <2>1. ops' \in 0 .. MaxOps
      BY <1>1, CountUp, ConfigAssumption DEF TypeOK
    <2>2. op \in [Replicas -> OpSet] /\ [verb |-> "kill", keys |-> {k}, phase |-> "cache"] \in OpSet
      BY DEF TypeOK, OpSet
    <2>3. op' \in [Replicas -> OpSet]
      BY <1>1, <2>2
    <2>4. OpsAreWhole'
      BY <1>1, <2>2 DEF OpsAreWhole
    <2>5. QED
      BY <1>1, <1>2, <2>1, <2>3, <2>4 DEF TypeOK, OpSet
  <1>4. Clean'
    BY <1>1, <1>2, SMTT(20) DEF TypeOK, Clean, Passed, Removes
  <1>5. Confirmed' /\ EveryKillAnnounced'
    BY <1>1 DEF Confirmed, EveryKillAnnounced
  <1>6. QED
    BY <1>2, <1>3, <1>4, <1>5

\* WriteRevive keeps the inductive invariant.
LEMMA WriteReviveKeeps ==
  ASSUME IInv, NEW i \in Replicas, NEW k \in Keys, WriteRevive(i, k)
  PROVE  IInv'
  <1> USE DEF IInv
  <1>1. Removed({k}) /\ UNCHANGED <<cache, life, refresh, lastErr, age, trigger, inbox, reach, faults, told, scanLen>>
        /\ op' = [op EXCEPT ![i] = [verb |-> "revive", keys |-> {k}, phase |-> "cache"]]
        /\ ops' = ops + 1 /\ ops < MaxOps /\ op[i] = NoOp
    BY DEF WriteRevive, StartOp
  <1>2. /\ durable' \subseteq Keys
        /\ absent' \in [Replicas -> SUBSET Keys]
        /\ firm' \in [Keys -> 0 .. FirmCap]
        /\ CacheCovers' /\ ScanCovers' /\ AbsenceRecorded' /\ ScanJustified'
        /\ \A l \in Keys : firm'[l] > 0 => l \notin {k} /\ firm[l] > 0
        /\ durable' = durable \ {k}
    BY <1>1, RemovedKeeps
  <1>3. TypeOK' /\ OpsAreWhole'
    <2>1. ops' \in 0 .. MaxOps
      BY <1>1, CountUp, ConfigAssumption DEF TypeOK
    <2>2. op \in [Replicas -> OpSet] /\ [verb |-> "revive", keys |-> {k}, phase |-> "cache"] \in OpSet
      BY DEF TypeOK, OpSet
    <2>3. op' \in [Replicas -> OpSet]
      BY <1>1, <2>2
    <2>4. OpsAreWhole'
      BY <1>1, <2>2 DEF OpsAreWhole
    <2>5. QED
      BY <1>1, <1>2, <2>1, <2>3, <2>4 DEF TypeOK, OpSet
  <1>4. Clean'
    BY <1>1, <1>2, SMTT(20) DEF TypeOK, Clean, Passed, Removes
  <1>5. Confirmed' /\ EveryKillAnnounced'
    BY <1>1 DEF Confirmed, EveryKillAnnounced
  <1>6. QED
    BY <1>2, <1>3, <1>4, <1>5

\* WriteReplyLost keeps the inductive invariant.
LEMMA WriteReplyLostKeeps ==
  ASSUME IInv, NEW i \in Replicas, NEW k \in Keys, WriteReplyLost(i, k)
  PROVE  IInv'
  <1> USE DEF IInv
  <1>1. (Written(k) \/ Removed({k}))
        /\ UNCHANGED <<cache, life, refresh, lastErr, age, trigger, op, inbox, reach, told, scanLen>>
        /\ ops' = ops + 1 /\ ops < MaxOps /\ faults' = faults + 1 /\ faults < MaxFaults
    BY DEF WriteReplyLost, StartOp
  <1>2. /\ durable' \subseteq Keys
        /\ absent' \in [Replicas -> SUBSET Keys]
        /\ firm' \in [Keys -> 0 .. FirmCap]
        /\ CacheCovers' /\ ScanCovers' /\ AbsenceRecorded' /\ ScanJustified'
        /\ \A l \in Keys : firm'[l] > 0 => firm[l] > 0 /\ (l \in durable => l \in durable')
    <2>1. CASE Written(k)
      BY <1>1, <2>1, WrittenKeeps
    <2>2. CASE Removed({k})
      BY <1>1, <2>2, RemovedKeeps
    <2>3. QED
      BY <1>1, <2>1, <2>2
  <1>3. TypeOK' /\ OpsAreWhole'
    <2>1. ops' \in 0 .. MaxOps /\ faults' \in 0 .. MaxFaults
      BY <1>1, CountUp, ConfigAssumption DEF TypeOK
    <2>2. QED
      BY <1>1, <1>2, <2>1 DEF TypeOK, OpsAreWhole
  <1>4. Clean'
    BY <1>1, <1>2 DEF TypeOK, Clean
  <1>5. Confirmed' /\ EveryKillAnnounced'
    BY <1>1 DEF Confirmed, EveryKillAnnounced
  <1>6. QED
    BY <1>2, <1>3, <1>4, <1>5

\* Expire keeps the inductive invariant.
LEMMA ExpireKeeps ==
  ASSUME IInv, NEW k \in Keys, Expire(k)
  PROVE  IInv'
  <1> USE DEF IInv
  <1>1. Removed({k})
        /\ UNCHANGED <<cache, life, refresh, lastErr, age, trigger, op, inbox, reach, ops, faults, told, scanLen>>
    BY DEF Expire
  <1>2. /\ durable' \subseteq Keys
        /\ absent' \in [Replicas -> SUBSET Keys]
        /\ firm' \in [Keys -> 0 .. FirmCap]
        /\ CacheCovers' /\ ScanCovers' /\ AbsenceRecorded' /\ ScanJustified'
        /\ \A l \in Keys : firm'[l] > 0 => l \notin {k} /\ firm[l] > 0
        /\ durable' = durable \ {k}
    BY <1>1, RemovedKeeps
  <1>3. TypeOK' /\ OpsAreWhole'
    BY <1>1, <1>2, ConfigAssumption DEF TypeOK, OpsAreWhole
  <1>4. Clean'
    BY <1>1, <1>2 DEF TypeOK, Clean
  <1>5. Confirmed' /\ EveryKillAnnounced'
    BY <1>1 DEF Confirmed, EveryKillAnnounced
  <1>6. QED
    BY <1>2, <1>3, <1>4, <1>5

\* SweepKey keeps the inductive invariant: what is swept is no longer firm.
LEMMA SweepKeyKeeps ==
  ASSUME IInv, NEW i \in Replicas, SweepKey(i)
  PROVE  IInv'
  <1> USE DEF IInv
  <1>0. PICK k \in NextKeys(op[i].keys) :
          /\ Removed({k} \cap durable)
          /\ op' = [op EXCEPT ![i] = IF @.keys = {k}
                                  THEN [verb |-> "reset", keys |-> Keys, phase |-> "publish"]
                                  ELSE [op[i] EXCEPT !.keys = @ \ {k}]]
    BY DEF SweepKey
  <1>1. /\ UNCHANGED <<cache, life, refresh, lastErr, age, trigger, inbox, reach, ops, faults, told, scanLen>>
        /\ op[i].phase = "sweep"
    BY DEF SweepKey
  <1>2. /\ k \in op[i].keys /\ op[i].keys \subseteq Keys /\ k \in Keys
        /\ {k} \cap durable \in SUBSET Keys
    BY <1>0 DEF NextKeys, TypeOK
  <1>3. /\ durable' \subseteq Keys
        /\ absent' \in [Replicas -> SUBSET Keys]
        /\ firm' \in [Keys -> 0 .. FirmCap]
        /\ CacheCovers' /\ ScanCovers' /\ AbsenceRecorded' /\ ScanJustified'
        /\ \A l \in Keys : firm'[l] > 0 => l \notin {k} \cap durable /\ firm[l] > 0
        /\ durable' = durable \ ({k} \cap durable)
    BY <1>0, <1>1, <1>2, RemovedKeeps
  <1>4. TypeOK' /\ OpsAreWhole' /\ (op'[i] = [verb |-> "reset", keys |-> Keys, phase |-> "publish"]
                                     \/ op'[i] = [op[i] EXCEPT !.keys = @ \ {k}])
                            /\ (op'[i].phase = "publish" => op[i].keys = {k})
    <2>1. op \in [Replicas -> OpSet] /\ op[i] \in OpSet /\ op[i].verb = "reset"
      BY <1>1 DEF TypeOK, OpSet, OpsAreWhole
    <2>2. CASE op[i].keys = {k}
      <3>1. op'[i] = [verb |-> "reset", keys |-> Keys, phase |-> "publish"]
            /\ op' = [op EXCEPT ![i] = [verb |-> "reset", keys |-> Keys, phase |-> "publish"]]
        BY <1>0, <2>1, <2>2
      <3>2. [verb |-> "reset", keys |-> Keys, phase |-> "publish"] \in OpSet
        BY DEF OpSet
      <3>3. op' \in [Replicas -> OpSet]
        BY <3>1, <3>2, <2>1
      <3>4. OpsAreWhole'
        BY <3>1, <2>1 DEF OpsAreWhole
      <3>5. QED
        BY <1>1, <1>3, <2>2, <3>1, <3>3, <3>4 DEF TypeOK, OpSet
    <2>3. CASE op[i].keys # {k}
      <3>1. op'[i] = [op[i] EXCEPT !.keys = @ \ {k}]
            /\ op' = [op EXCEPT ![i] = [op[i] EXCEPT !.keys = @ \ {k}]]
        BY <1>0, <2>1, <2>3
      <3>2. [op[i] EXCEPT !.keys = @ \ {k}] \in OpSet /\ op'[i].phase = "sweep" /\ op'[i].verb = "reset"
        BY <1>1, <3>1, <2>1 DEF OpSet
      <3>3. op' \in [Replicas -> OpSet]
        BY <3>1, <3>2, <2>1
      <3>4. OpsAreWhole'
        BY <3>1, <3>2, <2>1 DEF OpsAreWhole
      <3>5. QED
        BY <1>1, <1>3, <3>1, <3>2, <3>3, <3>4 DEF TypeOK, OpSet
    <2>4. QED
      BY <2>2, <2>3
  <1>5. Clean'
    <2> SUFFICES ASSUME NEW l \in Keys, firm'[l] > 0
                 PROVE  /\ l \in durable'
                        /\ \A j \in Replicas :
                             /\ ~Passed(op'[j], l)
                             /\ \A n \in DOMAIN inbox'[j] : ~Removes(inbox'[j][n], l)
      BY DEF Clean, Passed, Removes
    <2>1. l \in durable /\ l # k /\ firm[l] > 0 /\ l \in durable'
      BY <1>3 DEF Clean
    <2>2. op[i].verb = "reset"
      BY <1>1 DEF OpsAreWhole
    <2>3. ~Passed(op[i], l) /\ l \in op[i].keys
      BY <2>1, <2>2, <1>1 DEF Clean, Passed, Removes
    <2>4. ~Passed(op'[i], l)
      <3>1. op[i] \in OpSet /\ op[i].keys # {k}
        BY <2>1, <2>3 DEF TypeOK, OpSet
      <3>2. op'[i] = [op[i] EXCEPT !.keys = @ \ {k}]
        BY <1>4, <3>1
      <3>3. QED
        BY <2>1, <2>3, <1>1, <3>1, <3>2 DEF Passed, Removes, OpSet
    <2>5. \A j \in Replicas \ {i} : op'[j] = op[j]
      BY <1>0 DEF TypeOK
    <2>6. QED
      BY <2>1, <2>4, <2>5, <1>1 DEF Clean
  <1>6. Confirmed' /\ EveryKillAnnounced'
    BY <1>1 DEF Confirmed, EveryKillAnnounced
  <1>7. QED
    BY <1>3, <1>4, <1>5, <1>6

\* Moving the generation changes nothing of a refresh but whether it is raced.
LEMMA RacedChanges ==
  ASSUME TypeOK, NEW i \in Replicas, Raced(i)
  PROVE  /\ refresh' \in [Replicas -> RefreshSet]
         /\ refresh'[i].on => refresh'[i].raced
         /\ \A j \in Replicas \ {i} : refresh'[j] = refresh[j]
         /\ \A j \in Replicas : /\ refresh'[j].on = refresh[j].on /\ refresh'[j].age = refresh[j].age
                                /\ refresh'[j].todo = refresh[j].todo /\ refresh'[j].found = refresh[j].found
  <1>1. refresh \in [Replicas -> RefreshSet]
    BY DEF TypeOK, RefreshSet
  <1> DEFINE moved == [refresh[i] EXCEPT !.raced = refresh[i].raced \/ refresh[i].on]
  <1>2. refresh' = [refresh EXCEPT ![i] = moved]
    BY <1>1 DEF Raced
  <1>3. /\ moved \in RefreshSet /\ moved.raced = (refresh[i].raced \/ refresh[i].on)
        /\ moved.on = refresh[i].on /\ moved.age = refresh[i].age
        /\ moved.todo = refresh[i].todo /\ moved.found = refresh[i].found
    BY <1>1 DEF RefreshSet
  <1> HIDE DEF moved
  <1>4. refresh'[i] = moved /\ \A j \in Replicas \ {i} : refresh'[j] = refresh[j]
    BY <1>1, <1>2
  <1>5. refresh' \in [Replicas -> RefreshSet]
    BY <1>1, <1>2, <1>3
  <1>6. QED
    BY <1>1, <1>3, <1>4, <1>5

\* A cache that changes by an operation or an event, and loses no firm kill, stays
\* covered, announced and on the record; a scan it races will not be believed.
LEMMA Reapplied ==
  ASSUME IInv, NEW i \in Replicas, NEW S \in SUBSET Keys, NEW A \in SUBSET Keys,
         S \ cache[i] \subseteq A, Apply(i, S, A), Raced(i),
         UNCHANGED <<durable, firm, age, scanLen>>,
         \A k \in Keys : firm[k] > 0 /\ k \in cache[i] => k \in S
  PROVE  /\ cache' \in [Replicas -> SUBSET Keys]
         /\ told' \in [Replicas -> SUBSET Keys]
         /\ absent' \in [Replicas -> SUBSET Keys]
         /\ refresh' \in [Replicas -> RefreshSet]
         /\ AbsenceRecorded' /\ EveryKillAnnounced' /\ CacheCovers' /\ ScanCovers' /\ ScanJustified'
  <1> USE DEF IInv
  <1>1. /\ cache' \in [Replicas -> SUBSET Keys]
        /\ told' \in [Replicas -> SUBSET Keys]
        /\ absent' \in [Replicas -> SUBSET Keys]
        /\ AbsenceRecorded' /\ EveryKillAnnounced'
        /\ cache'[i] = S /\ \A j \in Replicas \ {i} : cache'[j] = cache[j] /\ absent'[j] = absent[j]
    BY ApplyKeeps
  <1>2. /\ refresh' \in [Replicas -> RefreshSet]
        /\ refresh'[i].on => refresh'[i].raced
        /\ \A j \in Replicas \ {i} : refresh'[j] = refresh[j]
        /\ \A j \in Replicas : /\ refresh'[j].on = refresh[j].on /\ refresh'[j].age = refresh[j].age
                               /\ refresh'[j].todo = refresh[j].todo /\ refresh'[j].found = refresh[j].found
    BY RacedChanges
  <1>3. firm \in [Keys -> Nat] /\ age \in [Replicas -> Nat] /\ scanLen \in [Replicas -> Nat]
    BY ConfigAssumption DEF TypeOK, FirmCap, Never
  <1>4. CacheCovers'
    <2> SUFFICES ASSUME NEW j \in Replicas, NEW k \in Keys, age[j] <= Staleness,
                        firm[k] > age[j] + scanLen[j]
                 PROVE  k \in cache'[j]
      BY DEF CacheCovers
    <2>1. k \in cache[j] /\ firm[k] > 0
      BY <1>3 DEF CacheCovers
    <2>2. QED
      BY <2>1, <1>1
  <1>5. ScanCovers'
    BY <1>2 DEF ScanCovers
  <1>6. ScanJustified'
    BY <1>1, <1>2 DEF ScanJustified
  <1>7. QED
    BY <1>1, <1>2, <1>4, <1>5, <1>6

\* UpdateCache keeps the inductive invariant: a revive that reaches its cache has
\* deleted its key, which is firm no more.
LEMMA UpdateCacheKeeps ==
  ASSUME IInv, NEW i \in Replicas, UpdateCache(i)
  PROVE  IInv'
  <1> USE DEF IInv
  <1>1. /\ op[i].phase = "cache" /\ Raced(i)
        /\ op' = [op EXCEPT ![i].phase = "publish"]
        /\ UNCHANGED <<durable, life, lastErr, age, trigger, inbox, reach, ops, faults, firm, scanLen>>
    BY DEF UpdateCache
  <1>2. op \in [Replicas -> OpSet] /\ op[i] \in OpSet /\ op[i].keys \in SUBSET Keys /\ cache[i] \in SUBSET Keys
    BY DEF TypeOK, OpSet
  <1>3. /\ cache' \in [Replicas -> SUBSET Keys]
        /\ told' \in [Replicas -> SUBSET Keys]
        /\ absent' \in [Replicas -> SUBSET Keys]
        /\ refresh' \in [Replicas -> RefreshSet]
        /\ AbsenceRecorded' /\ EveryKillAnnounced' /\ CacheCovers' /\ ScanCovers' /\ ScanJustified'
        /\ op[i].verb \in {"kill", "revive"}
    <2>1. CASE op[i].verb = "kill"
      <3>1. Apply(i, cache[i] \cup op[i].keys, op[i].keys)
        BY <2>1 DEF UpdateCache
      <3>2. /\ cache[i] \cup op[i].keys \in SUBSET Keys
            /\ (cache[i] \cup op[i].keys) \ cache[i] \subseteq op[i].keys
        BY <1>2
      <3>3. QED
        BY <1>1, <1>2, <2>1, <3>1, <3>2, Reapplied
    <2>2. CASE op[i].verb = "revive"
      <3>1. Apply(i, cache[i] \ op[i].keys, {})
        BY <2>2 DEF UpdateCache
      <3>2. \A k \in Keys : firm[k] > 0 => k \notin op[i].keys
        BY <1>1, <2>2 DEF Clean, Passed, Removes
      <3>3. /\ cache[i] \ op[i].keys \in SUBSET Keys /\ {} \in SUBSET Keys
            /\ (cache[i] \ op[i].keys) \ cache[i] \subseteq {}
            /\ \A k \in Keys : firm[k] > 0 /\ k \in cache[i] => k \in cache[i] \ op[i].keys
        BY <1>2, <3>2
      <3>4. QED
        BY <1>1, <1>2, <2>2, <3>1, <3>3, Reapplied
    <2>3. QED
      BY <2>1, <2>2 DEF UpdateCache
  <1> DEFINE done == [op[i] EXCEPT !.phase = "publish"]
  <1>4. op' = [op EXCEPT ![i] = done] /\ done \in OpSet /\ done.phase = "publish"
        /\ done.verb = op[i].verb /\ done.keys = op[i].keys
    BY <1>1, <1>2 DEF OpSet
  <1> HIDE DEF done
  <1>5. op' \in [Replicas -> OpSet] /\ op'[i] = done /\ \A j \in Replicas \ {i} : op'[j] = op[j]
    BY <1>2, <1>4
  <1>6. OpsAreWhole'
    BY <1>3, <1>4, <1>5 DEF OpsAreWhole
  <1>7. TypeOK'
    BY <1>1, <1>3, <1>5 DEF TypeOK, OpSet, RefreshSet
  <1>8. Clean'
    <2>1. \A k : Passed(done, k) => Passed(op[i], k)
      BY <1>1, <1>4 DEF Passed, Removes
    <2>2. QED
      BY <2>1, <1>1, <1>5 DEF Clean
  <1>9. Confirmed'
    BY <1>1 DEF Confirmed
  <1>10. QED
    BY <1>3, <1>6, <1>7, <1>8, <1>9

\* ClearCache keeps the inductive invariant: behind a reset's sweep nothing is firm.
LEMMA ClearCacheKeeps ==
  ASSUME IInv, NEW i \in Replicas, ClearCache(i)
  PROVE  IInv'
  <1> USE DEF IInv
  <1>1. /\ op[i].phase = "cache" /\ op[i].verb = "reset" /\ Raced(i) /\ Apply(i, {}, {})
        /\ op' = [op EXCEPT ![i].phase = "reseed"]
        /\ UNCHANGED <<durable, life, lastErr, age, trigger, inbox, reach, ops, faults, firm, scanLen>>
    BY DEF ClearCache
  <1>2. op \in [Replicas -> OpSet] /\ op[i] \in OpSet
    BY DEF TypeOK, OpSet
  <1>3. \A k \in Keys : ~(firm[k] > 0)
    BY <1>1 DEF Clean, Passed, Removes
  <1>4. /\ cache' \in [Replicas -> SUBSET Keys]
        /\ told' \in [Replicas -> SUBSET Keys]
        /\ absent' \in [Replicas -> SUBSET Keys]
        /\ refresh' \in [Replicas -> RefreshSet]
        /\ AbsenceRecorded' /\ EveryKillAnnounced' /\ CacheCovers' /\ ScanCovers' /\ ScanJustified'
    <2>1. {} \in SUBSET Keys /\ {} \ cache[i] \subseteq {}
      OBVIOUS
    <2>2. QED
      BY <1>1, <1>3, <2>1, Reapplied
  <1> DEFINE done == [op[i] EXCEPT !.phase = "reseed"]
  <1>5. op' = [op EXCEPT ![i] = done] /\ done \in OpSet /\ done.phase = "reseed" /\ done.verb = "reset"
    BY <1>1, <1>2 DEF OpSet
  <1> HIDE DEF done
  <1>6. op' \in [Replicas -> OpSet] /\ op'[i] = done /\ \A j \in Replicas \ {i} : op'[j] = op[j]
    BY <1>2, <1>5
  <1>7. OpsAreWhole'
    BY <1>5, <1>6 DEF OpsAreWhole
  <1>8. TypeOK'
    BY <1>1, <1>4, <1>6 DEF TypeOK, OpSet, RefreshSet
  <1>9. Clean'
    BY <1>1, <1>3 DEF Clean
  <1>10. Confirmed'
    BY <1>1 DEF Confirmed
  <1>11. QED
    BY <1>4, <1>7, <1>8, <1>9, <1>10

\* Deliver keeps the inductive invariant: an event that takes a kill out of a cache
\* was published behind the deletion of its key.
LEMMA DeliverKeeps ==
  ASSUME IInv, NEW i \in Replicas, Deliver(i)
  PROVE  IInv'
  <1> USE DEF IInv
  <1> DEFINE m == Head(inbox[i])
  <1>1. /\ inbox[i] # <<>> /\ Raced(i)
        /\ inbox' = [inbox EXCEPT ![i] = Tail(inbox[i])]
        /\ UNCHANGED <<durable, life, lastErr, age, op, reach, ops, faults, firm, scanLen>>
    BY DEF Deliver
  <1>2. inbox \in [Replicas -> Seq(Message)] /\ inbox[i] \in Seq(Message) /\ cache[i] \in SUBSET Keys
    BY DEF TypeOK
  <1>3. /\ m \in Message /\ m = inbox[i][1] /\ 1 \in DOMAIN inbox[i]
        /\ Tail(inbox[i]) \in Seq(Message)
        /\ \A n \in DOMAIN Tail(inbox[i]) : n + 1 \in DOMAIN inbox[i] /\ Tail(inbox[i])[n] = inbox[i][n + 1]
    BY <1>1, <1>2, HeadTailProperties
  <1>4. /\ m.keys \in SUBSET Keys
        /\ \A k \in Keys : firm[k] > 0 => ~Removes(m, k)
    BY <1>3 DEF Message, Clean
  <1>5. /\ \/ m.verb = "kill" /\ Apply(i, cache[i] \cup m.keys, m.keys) /\ UNCHANGED trigger
           \/ m.verb = "revive" /\ Apply(i, cache[i] \ m.keys, {}) /\ UNCHANGED trigger
           \/ m.verb = "reset" /\ Apply(i, {}, {}) /\ trigger' = [trigger EXCEPT ![i] = TRUE]
    BY DEF Deliver
  <1> HIDE DEF m
  <1>6. /\ cache' \in [Replicas -> SUBSET Keys]
        /\ told' \in [Replicas -> SUBSET Keys]
        /\ absent' \in [Replicas -> SUBSET Keys]
        /\ refresh' \in [Replicas -> RefreshSet]
        /\ AbsenceRecorded' /\ EveryKillAnnounced' /\ CacheCovers' /\ ScanCovers' /\ ScanJustified'
    <2>1. CASE m.verb = "kill" /\ Apply(i, cache[i] \cup m.keys, m.keys)
      <3>1. /\ cache[i] \cup m.keys \in SUBSET Keys
            /\ (cache[i] \cup m.keys) \ cache[i] \subseteq m.keys
        BY <1>2, <1>4
      <3>2. QED
        BY <1>1, <1>4, <2>1, <3>1, Reapplied
    <2>2. CASE m.verb = "revive" /\ Apply(i, cache[i] \ m.keys, {})
      <3>1. /\ cache[i] \ m.keys \in SUBSET Keys /\ {} \in SUBSET Keys
            /\ (cache[i] \ m.keys) \ cache[i] \subseteq {}
            /\ \A k \in Keys : firm[k] > 0 /\ k \in cache[i] => k \in cache[i] \ m.keys
        BY <1>2, <1>4, <2>2 DEF Removes
      <3>2. QED
        BY <1>1, <2>2, <3>1, Reapplied
    <2>3. CASE m.verb = "reset" /\ Apply(i, {}, {})
      <3>1. /\ {} \in SUBSET Keys /\ {} \ cache[i] \subseteq {}
            /\ \A k \in Keys : ~(firm[k] > 0)
        BY <1>4, <2>3 DEF Removes
      <3>2. QED
        BY <1>1, <2>3, <3>1, Reapplied
    <2>4. QED
      BY <1>5, <2>1, <2>2, <2>3
  <1>7. trigger' \in [Replicas -> BOOLEAN]
    BY <1>5 DEF TypeOK
  <1>8. /\ inbox' \in [Replicas -> Seq(Message)] /\ inbox'[i] = Tail(inbox[i])
        /\ \A j \in Replicas \ {i} : inbox'[j] = inbox[j]
    BY <1>1, <1>2, <1>3
  <1>9. TypeOK'
    BY <1>1, <1>6, <1>7, <1>8 DEF TypeOK, RefreshSet
  <1>10. Clean'
    <2> SUFFICES ASSUME NEW k \in Keys, firm[k] > 0, NEW j \in Replicas, NEW n \in DOMAIN inbox'[j]
                 PROVE  ~Removes(inbox'[j][n], k)
      BY <1>1 DEF Clean
    <2>1. CASE j = i
      <3>1. n \in DOMAIN Tail(inbox[i]) /\ inbox'[j][n] = Tail(inbox[i])[n]
        BY <2>1, <1>8
      <3>2. n + 1 \in DOMAIN inbox[i] /\ inbox'[j][n] = inbox[i][n + 1]
        BY <3>1, <1>3
      <3>3. QED
        BY <3>2 DEF Clean
    <2>2. CASE j # i
      BY <2>2, <1>8 DEF Clean
    <2>3. QED
      BY <2>1, <2>2
  <1>11. Confirmed' /\ OpsAreWhole'
    BY <1>1 DEF Confirmed, OpsAreWhole
  <1>12. QED
    BY <1>6, <1>9, <1>10, <1>11

\* A refresh that ends, or begins afresh, misses nothing.
LEMMA RefreshRestarts ==
  ASSUME TypeOK, ScanCovers, ScanJustified, NEW i \in Replicas, NEW new \in RefreshSet,
         new.on => new.todo = Keys,
         refresh' = [refresh EXCEPT ![i] = new],
         UNCHANGED <<cache, firm, absent>>
  PROVE  refresh' \in [Replicas -> RefreshSet] /\ ScanCovers' /\ ScanJustified'
  <1>1. refresh \in [Replicas -> RefreshSet] /\ cache \in [Replicas -> SUBSET Keys]
    BY DEF TypeOK, RefreshSet
  <1>2. refresh'[i] = new /\ \A j \in Replicas \ {i} : refresh'[j] = refresh[j]
    BY <1>1
  <1>3. refresh' \in [Replicas -> RefreshSet]
    BY <1>1
  <1>4. ScanCovers'
    BY <1>2 DEF ScanCovers
  <1>5. ScanJustified'
    BY <1>1, <1>2 DEF ScanJustified
  <1>6. QED
    BY <1>3, <1>4, <1>5

\* No refresh, and an attempt at one, are refreshes.
LEMMA Refreshes ==
  /\ NoRefresh \in RefreshSet /\ ~NoRefresh.on
  /\ \A n \in 0 .. MaxAttempts : /\ Attempt(n) \in RefreshSet /\ Attempt(n).todo = Keys
                                 /\ Attempt(n).on /\ Attempt(n).age = 0 /\ Attempt(n).found = {}
  <1>1. 0 \in 0 .. MaxAttempts /\ 0 \in 0 .. MaxScan + 1
    BY ConfigAssumption
  <1>2. NoRefresh \in RefreshSet /\ ~NoRefresh.on /\ NoRefresh.age = 0 /\ NoRefresh.found = {}
    BY <1>1 DEF NoRefresh, RefreshSet
  <1>3. ASSUME NEW n \in 0 .. MaxAttempts
        PROVE  /\ Attempt(n) \in RefreshSet /\ Attempt(n).todo = Keys
               /\ Attempt(n).on /\ Attempt(n).age = 0 /\ Attempt(n).found = {}
    BY <1>2 DEF Attempt, RefreshSet
  <1>4. QED
    BY <1>2, <1>3

\* The steps of the refresh loop and of Reset that start a scan keep the invariant.
LEMMA ScanBeginsKeeps ==
  ASSUME IInv, NEW i \in Replicas,
         Start(i) \/ BeginRefresh(i) \/ RetryRefresh(i) \/ Reseed(i)
  PROVE  IInv'
  <1> USE DEF IInv
  <1>1. /\ UNCHANGED <<durable, cache, age, inbox, reach, ops, faults, told, absent, firm, scanLen>>
        /\ \/ op' = op
           \/ op' = [op EXCEPT ![i] = NoOp]
        /\ \/ lastErr' = lastErr
           \/ lastErr' = [lastErr EXCEPT ![i] = TRUE]
        /\ \/ trigger' = trigger
           \/ trigger' = [trigger EXCEPT ![i] = FALSE]
        /\ \/ life' = life
           \/ life' = [life EXCEPT ![i] = "starting"]
    BY DEF Start, BeginRefresh, RetryRefresh, Reseed
  <1>2. refresh' = refresh \/ \E n \in 0 .. MaxAttempts : refresh' = [refresh EXCEPT ![i] = Attempt(n)]
    <2>1. 1 \in 0 .. MaxAttempts
      BY ConfigAssumption
    <2>2. CASE Start(i) \/ BeginRefresh(i) \/ Reseed(i)
      BY <2>1, <2>2 DEF Start, BeginRefresh, Reseed
    <2>3. CASE RetryRefresh(i)
      <3>1. refresh' = [refresh EXCEPT ![i] = Attempt(refresh[i].attempt + 1)]
            /\ refresh[i].attempt < MaxAttempts
        BY <2>3 DEF RetryRefresh
      <3>2. refresh[i].attempt \in 0 .. MaxAttempts
        BY DEF TypeOK
      <3>3. refresh[i].attempt + 1 \in 0 .. MaxAttempts
        BY <3>1, <3>2, CountUp, ConfigAssumption
      <3>4. QED
        BY <3>1, <3>3
    <2>4. QED
      BY <2>2, <2>3
  <1>3. refresh' \in [Replicas -> RefreshSet] /\ ScanCovers' /\ ScanJustified'
    <2>1. CASE refresh' = refresh
      BY <1>1, <2>1 DEF TypeOK, RefreshSet, ScanCovers, ScanJustified
    <2>2. CASE \E n \in 0 .. MaxAttempts : refresh' = [refresh EXCEPT ![i] = Attempt(n)]
      <3>1. PICK n \in 0 .. MaxAttempts : refresh' = [refresh EXCEPT ![i] = Attempt(n)]
        BY <2>2
      <3>2. Attempt(n) \in RefreshSet /\ Attempt(n).todo = Keys
        BY Refreshes
      <3>3. QED
        BY <1>1, <3>1, <3>2, RefreshRestarts
    <2>3. QED
      BY <1>2, <2>1, <2>2
  <1>4. /\ op \in [Replicas -> OpSet] /\ NoOp \in OpSet
        /\ NoOp.verb = "none" /\ NoOp.phase = "none"
    BY DEF TypeOK, OpSet, NoOp
  <1>5. op' \in [Replicas -> OpSet] /\ \A j \in Replicas : op'[j] = op[j] \/ op'[j] = NoOp
    BY <1>1, <1>4
  <1>6. TypeOK'
    <2>1. /\ lastErr' \in [Replicas -> BOOLEAN] /\ trigger' \in [Replicas -> BOOLEAN]
          /\ life' \in [Replicas -> {"new", "starting", "started", "stopped"}]
      BY <1>1 DEF TypeOK
    <2>2. QED
      BY <1>1, <1>3, <1>5, <2>1 DEF TypeOK, OpSet, RefreshSet
  <1>7. OpsAreWhole'
    BY <1>4, <1>5 DEF OpsAreWhole
  <1>8. Clean'
    BY <1>1, <1>4, <1>5 DEF Clean, Passed, Removes
  <1>9. CacheCovers' /\ AbsenceRecorded' /\ EveryKillAnnounced'
    BY <1>1 DEF CacheCovers, AbsenceRecorded, EveryKillAnnounced
  <1>10. Confirmed'
    BY <1>1 DEF Confirmed, TypeOK
  <1>11. QED
    BY <1>3, <1>6, <1>7, <1>8, <1>9, <1>10

\* ScanKey keeps the inductive invariant: a firm key is found, a key not found is absent.
LEMMA ScanKeyKeeps ==
  ASSUME IInv, NEW i \in Replicas, ScanKey(i)
  PROVE  IInv'
  <1> USE DEF IInv
  <1>1. /\ refresh[i].on
        /\ UNCHANGED <<durable, cache, life, lastErr, age, trigger, op, inbox, reach, ops, faults,
                       told, absent, firm, scanLen>>
    BY DEF ScanKey
  <1>2. PICK k \in NextKeys(refresh[i].todo) :
          refresh' = [refresh EXCEPT ![i].todo = @ \ {k},
                                     ![i].found = IF k \in durable THEN @ \cup {k} ELSE @]
    BY DEF ScanKey
  <1>3. refresh \in [Replicas -> RefreshSet] /\ refresh[i] \in RefreshSet
    BY DEF TypeOK, RefreshSet
  <1>4. k \in refresh[i].todo /\ k \in Keys /\ refresh[i].found \in SUBSET Keys
    BY <1>2, <1>3 DEF NextKeys, RefreshSet
  <1> DEFINE new == [refresh[i] EXCEPT !.todo = refresh[i].todo \ {k},
                                       !.found = IF k \in durable THEN refresh[i].found \cup {k} ELSE refresh[i].found]
  <1>5. refresh' = [refresh EXCEPT ![i] = new]
    BY <1>2, <1>3
  <1>6. /\ new \in RefreshSet /\ new.on = refresh[i].on /\ new.age = refresh[i].age
        /\ new.raced = refresh[i].raced /\ new.todo = refresh[i].todo \ {k}
        /\ refresh[i].found \subseteq new.found /\ (k \in durable => k \in new.found)
    BY <1>3, <1>4 DEF RefreshSet
  <1> HIDE DEF new
  <1>7. refresh'[i] = new /\ (\A j \in Replicas \ {i} : refresh'[j] = refresh[j])
        /\ refresh' \in [Replicas -> RefreshSet]
    BY <1>3, <1>5, <1>6
  <1>8. TypeOK'
    BY <1>1, <1>7 DEF TypeOK, RefreshSet
  <1>9. ScanCovers'
    <2> SUFFICES ASSUME NEW j \in Replicas, NEW l \in Keys, refresh'[j].on, refresh'[j].age <= MaxScan,
                        firm[l] > refresh'[j].age
                 PROVE  l \in refresh'[j].todo \cup refresh'[j].found
      BY <1>1 DEF ScanCovers
    <2>1. CASE j # i
      BY <2>1, <1>7 DEF ScanCovers
    <2>2. CASE j = i
      <3>1. l \in refresh[i].todo \cup refresh[i].found
        BY <2>2, <1>6, <1>7 DEF ScanCovers
      <3>2. firm[l] \in Nat /\ refresh'[j].age \in Nat
        BY <1>7, ConfigAssumption DEF TypeOK, FirmCap, RefreshSet
      <3>3. l \in durable
        BY <3>2 DEF Clean
      <3>4. QED
        BY <2>2, <3>1, <3>3, <1>6, <1>7
    <2>3. QED
      BY <2>1, <2>2
  <1>10. ScanJustified'
    <2> SUFFICES ASSUME NEW j \in Replicas, refresh'[j].on, ~refresh'[j].raced, NEW l \in cache[j],
                        l \notin refresh'[j].todo \cup refresh'[j].found
                 PROVE  l \in absent[j]
      BY <1>1 DEF ScanJustified
    <2>1. CASE j # i
      BY <2>1, <1>7 DEF ScanJustified
    <2>2. CASE j = i /\ l # k
      BY <2>2, <1>6, <1>7 DEF ScanJustified
    <2>3. CASE j = i /\ l = k
      BY <2>3, <1>6, <1>7 DEF AbsenceRecorded
    <2>4. QED
      BY <2>1, <2>2, <2>3
  <1>11. OpsAreWhole' /\ Clean' /\ CacheCovers' /\ Confirmed' /\ AbsenceRecorded' /\ EveryKillAnnounced'
    BY <1>1 DEF OpsAreWhole, Clean, CacheCovers, Confirmed, AbsenceRecorded, EveryKillAnnounced
  <1>12. QED
    BY <1>8, <1>9, <1>10, <1>11

\* RefreshFails keeps the inductive invariant: the error is recorded.
LEMMA RefreshFailsKeeps ==
  ASSUME IInv, NEW i \in Replicas, RefreshFails(i)
  PROVE  IInv'
  <1> USE DEF IInv
  <1>1. /\ refresh' = [refresh EXCEPT ![i] = NoRefresh]
        /\ lastErr' = [lastErr EXCEPT ![i] = TRUE]
        /\ life' = [life EXCEPT ![i] = AfterRefresh(i)]
        /\ UNCHANGED <<durable, cache, age, trigger, op, inbox, reach, ops, faults, told, absent, firm, scanLen>>
    BY DEF RefreshFails
  <1>2. refresh' \in [Replicas -> RefreshSet] /\ ScanCovers' /\ ScanJustified'
    BY <1>1, Refreshes, RefreshRestarts
  <1>3. TypeOK'
    <2>1. /\ lastErr' \in [Replicas -> BOOLEAN]
          /\ life' \in [Replicas -> {"new", "starting", "started", "stopped"}]
      BY <1>1 DEF TypeOK, AfterRefresh
    <2>2. QED
      BY <1>1, <1>2, <2>1 DEF TypeOK, RefreshSet
  <1>4. OpsAreWhole' /\ Clean' /\ CacheCovers' /\ AbsenceRecorded' /\ EveryKillAnnounced'
    BY <1>1 DEF OpsAreWhole, Clean, CacheCovers, AbsenceRecorded, EveryKillAnnounced
  <1>5. Confirmed'
    BY <1>1 DEF Confirmed, TypeOK
  <1>6. QED
    BY <1>2, <1>3, <1>4, <1>5

\* CommitRefresh keeps the inductive invariant: the snapshot holds what was firm
\* before its scan began.
LEMMA CommitRefreshKeeps ==
  ASSUME IInv, NEW i \in Replicas, CommitRefresh(i)
  PROVE  IInv'
  <1> USE DEF IInv
  <1>1. /\ refresh[i].on /\ refresh[i].todo = {} /\ refresh[i].age <= MaxScan
        /\ Apply(i, Snapshot(i), Snapshot(i) \ cache[i])
        /\ lastErr' = [lastErr EXCEPT ![i] = FALSE]
        /\ age' = [age EXCEPT ![i] = 0]
        /\ scanLen' = [scanLen EXCEPT ![i] = refresh[i].age]
        /\ refresh' = [refresh EXCEPT ![i] = NoRefresh]
        /\ life' = [life EXCEPT ![i] = AfterRefresh(i)]
        /\ UNCHANGED <<durable, trigger, op, inbox, reach, ops, faults, firm>>
    BY DEF CommitRefresh, ScanDone
  <1>2. /\ refresh \in [Replicas -> RefreshSet] /\ refresh[i] \in RefreshSet
        /\ Snapshot(i) \in SUBSET Keys /\ refresh[i].found \subseteq Snapshot(i)
    BY DEF TypeOK, RefreshSet, Snapshot
  <1>3. /\ cache' \in [Replicas -> SUBSET Keys]
        /\ told' \in [Replicas -> SUBSET Keys]
        /\ absent' \in [Replicas -> SUBSET Keys]
        /\ AbsenceRecorded' /\ EveryKillAnnounced'
        /\ cache'[i] = Snapshot(i)
        /\ \A j \in Replicas \ {i} : cache'[j] = cache[j] /\ absent'[j] = absent[j]
    <2>1. Snapshot(i) \ cache[i] \in SUBSET Keys
      BY <1>2
    <2>2. QED
      BY <1>1, <1>2, <2>1, ApplyKeeps
  <1>4. /\ refresh' \in [Replicas -> RefreshSet] /\ ~refresh'[i].on
        /\ \A j \in Replicas \ {i} : refresh'[j] = refresh[j]
    BY <1>1, <1>2, Refreshes
  <1>5. ScanCovers' /\ ScanJustified'
    BY <1>1, <1>3, <1>4 DEF ScanCovers, ScanJustified
  <1>6. /\ age \in [Replicas -> 0 .. Never] /\ scanLen \in [Replicas -> 0 .. MaxScan]
        /\ refresh[i].age \in 0 .. MaxScan /\ Never \in Nat /\ MaxScan \in Nat /\ 0 \in 0 .. Never
        /\ Never # 0
    BY <1>1, <1>2, ConfigAssumption DEF TypeOK, RefreshSet, Never
  <1>7. /\ age' \in [Replicas -> 0 .. Never] /\ scanLen' \in [Replicas -> 0 .. MaxScan]
        /\ age'[i] = 0 /\ scanLen'[i] = refresh[i].age
        /\ \A j \in Replicas \ {i} : age'[j] = age[j] /\ scanLen'[j] = scanLen[j]
    BY <1>1, <1>6
  <1>8. CacheCovers'
    <2> SUFFICES ASSUME NEW j \in Replicas, NEW k \in Keys, age'[j] <= Staleness,
                        firm[k] > age'[j] + scanLen'[j]
                 PROVE  k \in cache'[j]
      BY <1>1 DEF CacheCovers
    <2>1. CASE j # i
      BY <2>1, <1>3, <1>7 DEF CacheCovers
    <2>2. CASE j = i
      <3>1. firm[k] > refresh[i].age
        BY <2>2, <1>6, <1>7
      <3>2. k \in refresh[i].found
        BY <3>1, <1>1 DEF ScanCovers
      <3>3. QED
        BY <2>2, <3>2, <1>2, <1>3
    <2>3. QED
      BY <2>1, <2>2
  <1>9. Confirmed'
    BY <1>1, <1>6, <1>7 DEF Confirmed, TypeOK
  <1>10. TypeOK'
    <2>1. /\ lastErr' \in [Replicas -> BOOLEAN]
          /\ life' \in [Replicas -> {"new", "starting", "started", "stopped"}]
      BY <1>1 DEF TypeOK, AfterRefresh
    <2>2. QED
      BY <1>1, <1>3, <1>4, <1>7, <2>1 DEF TypeOK, RefreshSet
  <1>11. OpsAreWhole' /\ Clean'
    BY <1>1 DEF OpsAreWhole, Clean
  <1>12. QED
    BY <1>3, <1>5, <1>8, <1>9, <1>10, <1>11

\* The beginning and the failure of a sweep keep the inductive invariant.
LEMMA SweepEndsKeeps ==
  ASSUME IInv, NEW i \in Replicas, BeginReset(i) \/ SweepFails(i)
  PROVE  IInv'
  <1> USE DEF IInv
  <1> DEFINE begun == [verb |-> "reset", keys |-> Keys, phase |-> "sweep"]
  <1>1. /\ UNCHANGED <<durable, cache, life, refresh, lastErr, age, trigger, inbox, reach, faults,
                       told, absent, firm, scanLen>>
        /\ ops' \in 0 .. MaxOps
        /\ op' = [op EXCEPT ![i] = begun] \/ op' = [op EXCEPT ![i] = NoOp]
    <2>1. CASE BeginReset(i)
      BY <2>1, CountUp, ConfigAssumption DEF BeginReset, StartOp, TypeOK
    <2>2. CASE SweepFails(i)
      BY <2>2 DEF SweepFails, TypeOK
    <2>3. QED
      BY <2>1, <2>2
  <1>2. /\ op \in [Replicas -> OpSet] /\ NoOp \in OpSet /\ begun \in OpSet
        /\ NoOp.verb = "none" /\ NoOp.phase = "none"
        /\ begun.verb = "reset" /\ begun.phase = "sweep" /\ begun.keys = Keys
    BY DEF TypeOK, OpSet, NoOp
  <1> HIDE DEF begun
  <1>3. op' \in [Replicas -> OpSet] /\ \A j \in Replicas : op'[j] = op[j] \/ op'[j] = NoOp \/ op'[j] = begun
    BY <1>1, <1>2
  <1>4. TypeOK'
    BY <1>1, <1>3 DEF TypeOK, OpSet
  <1>5. OpsAreWhole'
    BY <1>2, <1>3 DEF OpsAreWhole
  <1>6. Clean'
    <2>1. \A k \in Keys : ~Passed(NoOp, k) /\ ~Passed(begun, k)
      BY <1>2 DEF Passed, Removes
    <2>2. QED
      BY <1>1, <1>3, <2>1 DEF Clean
  <1>7. CacheCovers' /\ ScanCovers' /\ Confirmed' /\ AbsenceRecorded' /\ ScanJustified' /\ EveryKillAnnounced'
    BY <1>1 DEF CacheCovers, ScanCovers, Confirmed, AbsenceRecorded, ScanJustified, EveryKillAnnounced
  <1>8. QED
    BY <1>4, <1>5, <1>6, <1>7

\* Publish keeps the inductive invariant: the event is as far as its operation.
LEMMA PublishKeeps ==
  ASSUME IInv, NEW i \in Replicas, Publish(i)
  PROVE  IInv'
  <1> USE DEF IInv
  <1> DEFINE m == [verb |-> op[i].verb, keys |-> op[i].keys]
             after == IF op[i].verb = "reset" THEN [op[i] EXCEPT !.phase = "cache"] ELSE NoOp
  <1>1. /\ op[i].phase = "publish"
        /\ op' = [op EXCEPT ![i] = after]
        /\ UNCHANGED <<durable, cache, life, refresh, lastErr, age, trigger, reach, ops, faults,
                       told, absent, firm, scanLen>>
    BY DEF Publish
  <1>2. PICK D \in SUBSET {j \in Replicas : Live(j)} :
          inbox' = [j \in Replicas |-> IF j \in D THEN Append(inbox[j], m) ELSE inbox[j]]
    BY DEF Publish
  <1>3. op \in [Replicas -> OpSet] /\ op[i] \in OpSet /\ inbox \in [Replicas -> Seq(Message)]
    BY DEF TypeOK, OpSet
  <1>4. m \in Message /\ m.verb = op[i].verb /\ m.keys = op[i].keys
    BY <1>1, <1>3 DEF OpSet, Message, OpsAreWhole
  <1>5. /\ after \in OpSet
        /\ \/ after.verb = "reset" /\ after.phase = "cache" /\ op[i].verb = "reset"
           \/ after.verb = "none" /\ after.phase = "none"
    <2>1. CASE op[i].verb = "reset"
      <3>1. after = [op[i] EXCEPT !.phase = "cache"]
        BY <2>1
      <3>2. QED
        <4> HIDE DEF after
        <4>1. QED
          BY <2>1, <3>1, <1>3 DEF OpSet
    <2>2. CASE op[i].verb # "reset"
      <3>1. after = NoOp
        BY <2>2
      <3>2. QED
        BY <3>1 DEF OpSet, NoOp
    <2>3. QED
      BY <2>1, <2>2
  <1> HIDE DEF m, after
  <1>6. op' \in [Replicas -> OpSet] /\ \A j \in Replicas : op'[j] = op[j] \/ (j = i /\ op'[j] = after)
    BY <1>1, <1>3, <1>5
  <1>7. \A j \in Replicas : /\ inbox'[j] \in Seq(Message)
                            /\ \A n \in DOMAIN inbox'[j] :
                                 inbox'[j][n] = m \/ (n \in DOMAIN inbox[j] /\ inbox'[j][n] = inbox[j][n])
    <2> TAKE j \in Replicas
    <2>1. inbox[j] \in Seq(Message)
      BY <1>3
    <2>2. CASE j \notin D
      BY <2>1, <2>2, <1>2
    <2>3. CASE j \in D
      <3>1. inbox'[j] = Append(inbox[j], m)
        BY <2>3, <1>2
      <3>2. QED
        BY <3>1, <2>1, <1>4, AppendProperties
    <2>4. QED
      BY <2>2, <2>3
  <1>8. inbox' \in [Replicas -> Seq(Message)]
    BY <1>2, <1>7
  <1>9. TypeOK'
    BY <1>1, <1>6, <1>8 DEF TypeOK, OpSet
  <1>10. OpsAreWhole'
    BY <1>5, <1>6 DEF OpsAreWhole
  <1>11. Clean'
    <2> SUFFICES ASSUME NEW k \in Keys, firm[k] > 0
                 PROVE  /\ k \in durable
                        /\ \A j \in Replicas :
                             /\ ~Passed(op'[j], k)
                             /\ \A n \in DOMAIN inbox'[j] : ~Removes(inbox'[j][n], k)
      BY <1>1 DEF Clean
    <2>1. k \in durable /\ \A j \in Replicas : ~Passed(op[j], k)
                                               /\ \A n \in DOMAIN inbox[j] : ~Removes(inbox[j][n], k)
      BY DEF Clean
    <2>2. ~Removes(op[i], k)
      BY <2>1, <1>1 DEF Passed
    <2>3. ~Removes(m, k) /\ ~Passed(after, k)
      BY <2>2, <1>4, <1>5 DEF Removes, Passed
    <2>4. QED
      BY <2>1, <2>3, <1>6, <1>7
  <1>12. CacheCovers' /\ ScanCovers' /\ Confirmed' /\ AbsenceRecorded' /\ ScanJustified' /\ EveryKillAnnounced'
    BY <1>1 DEF CacheCovers, ScanCovers, Confirmed, AbsenceRecorded, ScanJustified, EveryKillAnnounced
  <1>13. QED
    BY <1>9, <1>10, <1>11, <1>12

\* Stopping and losing or regaining Redis keep the inductive invariant.
LEMMA StopKeeps ==
  ASSUME IInv, NEW i \in Replicas, Stop(i) \/ Partition(i) \/ Heal(i)
  PROVE  IInv'
  <1> USE DEF IInv
  <1>1. /\ UNCHANGED <<durable, cache, refresh, lastErr, age, trigger, op, ops, told, absent, firm, scanLen>>
        /\ life' = life \/ life' = [life EXCEPT ![i] = "stopped"]
        /\ inbox' = inbox \/ inbox' = [inbox EXCEPT ![i] = <<>>]
    BY DEF Stop, Partition, Heal
  <1>2. reach' \subseteq Replicas /\ faults' \in 0 .. MaxFaults
    <2>1. CASE Stop(i) \/ Heal(i)
      BY <2>1 DEF Stop, Heal, TypeOK
    <2>2. CASE Partition(i)
      BY <2>2, CountUp, ConfigAssumption DEF Partition, Fault, TypeOK
    <2>3. QED
      BY <2>1, <2>2
  <1>3. inbox \in [Replicas -> Seq(Message)] /\ <<>> \in Seq(Message)
    BY DEF TypeOK
  <1>4. inbox' \in [Replicas -> Seq(Message)] /\ \A j \in Replicas : inbox'[j] = inbox[j] \/ inbox'[j] = <<>>
    BY <1>1, <1>3
  <1>5. TypeOK'
    <2>1. life' \in [Replicas -> {"new", "starting", "started", "stopped"}]
      BY <1>1 DEF TypeOK
    <2>2. QED
      BY <1>1, <1>2, <1>4, <2>1 DEF TypeOK
  <1>6. Clean'
    BY <1>1, <1>4 DEF Clean
  <1>7. Confirmed'
    BY <1>1 DEF Confirmed, TypeOK
  <1>8. OpsAreWhole' /\ CacheCovers' /\ ScanCovers' /\ AbsenceRecorded' /\ ScanJustified' /\ EveryKillAnnounced'
    BY <1>1 DEF OpsAreWhole, CacheCovers, ScanCovers, AbsenceRecorded, ScanJustified, EveryKillAnnounced
  <1>9. QED
    BY <1>5, <1>6, <1>7, <1>8

\* Crash keeps the inductive invariant: a replica that starts afresh confirms nothing.
LEMMA CrashKeeps ==
  ASSUME IInv, NEW i \in Replicas, Crash(i)
  PROVE  IInv'
  <1> USE DEF IInv
  <1>1. /\ life' = [life EXCEPT ![i] = "new"]
        /\ cache' = [cache EXCEPT ![i] = {}]
        /\ told' = [told EXCEPT ![i] = {}]
        /\ refresh' = [refresh EXCEPT ![i] = NoRefresh]
        /\ lastErr' = [lastErr EXCEPT ![i] = FALSE]
        /\ age' = [age EXCEPT ![i] = Never]
        /\ trigger' = [trigger EXCEPT ![i] = FALSE]
        /\ op' = [op EXCEPT ![i] = NoOp]
        /\ inbox' = [inbox EXCEPT ![i] = <<>>]
        /\ absent' = [absent EXCEPT ![i] = {}]
        /\ UNCHANGED <<durable, reach, ops, firm, scanLen>>
    BY DEF Crash
  <1>2. /\ refresh \in [Replicas -> RefreshSet] /\ op \in [Replicas -> OpSet] /\ NoOp \in OpSet
        /\ NoOp.verb = "none" /\ NoOp.phase = "none"
        /\ inbox \in [Replicas -> Seq(Message)] /\ <<>> \in Seq(Message)
        /\ Never \in 0 .. Never
    <2>1. /\ NoOp \in OpSet /\ NoOp.verb = "none" /\ NoOp.phase = "none"
          /\ Never \in 0 .. Never
      BY ConfigAssumption DEF OpSet, NoOp, Never
    <2>2. <<>> \in Seq(Message)
      OBVIOUS
    <2>3. /\ refresh \in [Replicas -> RefreshSet] /\ op \in [Replicas -> OpSet]
          /\ inbox \in [Replicas -> Seq(Message)]
      BY DEF TypeOK, RefreshSet, OpSet
    <2>4. QED
      BY <2>1, <2>2, <2>3
  <1>3. faults' \in 0 .. MaxFaults
    BY CountUp, ConfigAssumption DEF Crash, Fault, TypeOK
  <1>4. /\ refresh' \in [Replicas -> RefreshSet] /\ op' \in [Replicas -> OpSet]
        /\ inbox' \in [Replicas -> Seq(Message)]
    BY <1>1, <1>2, Refreshes
  <1>5. TypeOK'
    <2>1. /\ life' \in [Replicas -> {"new", "starting", "started", "stopped"}]
          /\ cache' \in [Replicas -> SUBSET Keys] /\ told' \in [Replicas -> SUBSET Keys]
          /\ absent' \in [Replicas -> SUBSET Keys] /\ lastErr' \in [Replicas -> BOOLEAN]
          /\ trigger' \in [Replicas -> BOOLEAN] /\ age' \in [Replicas -> 0 .. Never]
      BY <1>1, <1>2 DEF TypeOK
    <2>2. QED
      BY <1>1, <1>3, <1>4, <2>1 DEF TypeOK, RefreshSet, OpSet
  <1>6. /\ cache'[i] = {} /\ ~refresh'[i].on /\ age'[i] = Never /\ op'[i] = NoOp /\ inbox'[i] = <<>>
        /\ life'[i] = "new"
        /\ \A j \in Replicas \ {i} :
             /\ cache'[j] = cache[j] /\ refresh'[j] = refresh[j] /\ age'[j] = age[j] /\ op'[j] = op[j]
             /\ inbox'[j] = inbox[j] /\ life'[j] = life[j] /\ told'[j] = told[j] /\ absent'[j] = absent[j]
             /\ lastErr'[j] = lastErr[j]
    BY <1>1, <1>2, Refreshes DEF TypeOK
  <1>7. OpsAreWhole' /\ Confirmed' /\ AbsenceRecorded' /\ EveryKillAnnounced'
    BY <1>1, <1>2, <1>6 DEF OpsAreWhole, Confirmed, AbsenceRecorded, EveryKillAnnounced
  <1>8. Clean'
    <2>1. \A k \in Keys : ~Passed(NoOp, k)
      BY <1>2 DEF Passed, Removes
    <2>2. QED
      BY <1>1, <1>6, <2>1 DEF Clean
  <1>9. CacheCovers'
    <2>1. ~(Never <= Staleness)
      BY ConfigAssumption DEF Never
    <2>2. QED
      BY <1>1, <1>6, <2>1 DEF CacheCovers
  <1>10. ScanCovers' /\ ScanJustified'
    BY <1>1, <1>6 DEF ScanCovers, ScanJustified
  <1>11. QED
    BY <1>5, <1>7, <1>8, <1>9, <1>10

\* A tick keeps the inductive invariant: what becomes firmer grows no faster than
\* the ages it is compared with.
LEMMA TickKeeps ==
  ASSUME IInv, Tick
  PROVE  IInv'
  <1> USE DEF IInv
  <1>1. /\ age' = [i \in Replicas |-> IF age[i] = Never THEN Never ELSE Capped(age[i], Staleness + 1)]
        /\ refresh' = [i \in Replicas |->
                   IF refresh[i].on THEN [refresh[i] EXCEPT !.age = Capped(@, MaxScan + 1)]
                   ELSE refresh[i]]
        /\ firm' = [k \in Keys |-> IF k \in durable /\ ~Removing(k) THEN Capped(firm[k], FirmCap) ELSE 0]
        /\ UNCHANGED <<durable, cache, life, lastErr, trigger, op, inbox, reach, ops, faults,
                 told, absent, scanLen>>
    BY DEF Tick
  <1>2. /\ Staleness \in Nat /\ MaxScan \in Nat /\ Never = Staleness + 2 /\ FirmCap = Staleness + MaxScan + 2
        /\ age \in [Replicas -> 0 .. Never] /\ firm \in [Keys -> 0 .. FirmCap]
        /\ scanLen \in [Replicas -> 0 .. MaxScan]
        /\ refresh \in [Replicas -> RefreshSet]
    BY ConfigAssumption DEF TypeOK, RefreshSet, Never, FirmCap
  <1>3. \A k \in Keys : /\ firm'[k] \in 0 .. FirmCap
                        /\ firm'[k] <= firm[k] + 1 /\ (firm[k] = FirmCap => firm'[k] <= firm[k])
                        /\ firm'[k] > 0 => k \in durable /\ ~Removing(k)
    BY <1>1, <1>2 DEF Capped
  <1>4. \A i \in Replicas : /\ age'[i] \in 0 .. Never /\ (age'[i] = Never <=> age[i] = Never)
                            /\ age'[i] <= Staleness => age'[i] = age[i] + 1 /\ age[i] <= Staleness
    BY <1>1, <1>2 DEF Capped
  <1>5. \A i \in Replicas : /\ refresh'[i] \in RefreshSet
                            /\ refresh'[i].on = refresh[i].on /\ refresh'[i].raced = refresh[i].raced
                            /\ refresh'[i].todo = refresh[i].todo /\ refresh'[i].found = refresh[i].found
                            /\ refresh[i].on /\ refresh'[i].age <= MaxScan =>
                                 refresh'[i].age = refresh[i].age + 1
    <2> TAKE i \in Replicas
    <2>1. refresh[i] \in RefreshSet /\ refresh[i].age \in 0 .. MaxScan + 1
      BY <1>2 DEF RefreshSet
    <2>2. Capped(refresh[i].age, MaxScan + 1) \in 0 .. MaxScan + 1
          /\ (Capped(refresh[i].age, MaxScan + 1) <= MaxScan => Capped(refresh[i].age, MaxScan + 1) = refresh[i].age + 1)
      BY <2>1, <1>2 DEF Capped
    <2> DEFINE older == Capped(refresh[i].age, MaxScan + 1)
    <2>3. refresh'[i] = IF refresh[i].on THEN [refresh[i] EXCEPT !.age = older] ELSE refresh[i]
      BY <1>1
    <2> HIDE DEF older
    <2>4. CASE refresh[i].on
      <3>1. refresh'[i] = [refresh[i] EXCEPT !.age = older]
        BY <2>3, <2>4
      <3>2. older \in 0 .. MaxScan + 1 /\ (older <= MaxScan => older = refresh[i].age + 1)
        BY <2>2 DEF older
      <3>3. QED
        BY <2>1, <3>1, <3>2 DEF RefreshSet
    <2>5. CASE ~refresh[i].on
      BY <2>1, <2>3, <2>5
    <2>6. QED
      BY <2>4, <2>5
  <1>6. TypeOK'
    <2>1. /\ age' \in [Replicas -> 0 .. Never] /\ firm' \in [Keys -> 0 .. FirmCap]
          /\ refresh' \in [Replicas -> RefreshSet]
      BY <1>1, <1>3, <1>4, <1>5
    <2>2. QED
      BY <1>1, <2>1 DEF TypeOK, RefreshSet
  <1>7. Clean'
    BY <1>1, <1>3 DEF Clean, Removing, Passed
  <1>8. CacheCovers'
    <2> SUFFICES ASSUME NEW i \in Replicas, NEW k \in Keys, age'[i] <= Staleness,
                        firm'[k] > age'[i] + scanLen[i]
                 PROVE  k \in cache[i]
      BY <1>1 DEF CacheCovers
    <2>1. age'[i] = age[i] + 1 /\ age[i] <= Staleness /\ age[i] \in Nat /\ scanLen[i] \in 0 .. MaxScan
      BY <1>2, <1>4
    <2>2. firm[k] \in Nat /\ firm'[k] \in Nat /\ firm'[k] <= firm[k] + 1
      BY <1>2, <1>3
    <2>3. firm[k] > age[i] + scanLen[i]
      BY <2>1, <2>2, <1>2
    <2>4. QED
      BY <2>1, <2>3 DEF CacheCovers
  <1>9. ScanCovers'
    <2> SUFFICES ASSUME NEW i \in Replicas, NEW k \in Keys, refresh'[i].on, refresh'[i].age <= MaxScan,
                        firm'[k] > refresh'[i].age
                 PROVE  k \in refresh'[i].todo \cup refresh'[i].found
      BY DEF ScanCovers
    <2>1. refresh[i].on /\ refresh'[i].age = refresh[i].age + 1 /\ refresh[i].age \in Nat
      BY <1>2, <1>5 DEF RefreshSet
    <2>2. firm[k] \in Nat /\ firm'[k] \in Nat /\ firm'[k] <= firm[k] + 1
      BY <1>2, <1>3
    <2>3. firm[k] > refresh[i].age /\ refresh[i].age <= MaxScan
      BY <2>1, <2>2, <1>2
    <2>4. QED
      BY <2>1, <2>3, <1>5 DEF ScanCovers
  <1>10. Confirmed'
    BY <1>1, <1>4 DEF Confirmed
  <1>11. ScanJustified'
    BY <1>1, <1>5 DEF ScanJustified
  <1>12. OpsAreWhole' /\ AbsenceRecorded' /\ EveryKillAnnounced'
    BY <1>1 DEF OpsAreWhole, AbsenceRecorded, EveryKillAnnounced
  <1>13. QED
    BY <1>6, <1>7, <1>8, <1>9, <1>10, <1>11, <1>12

\* Every step of the timed specification keeps the inductive invariant.
LEMMA NextIInv == IInv /\ [Next \/ Tick]_vars => IInv'
  <1> SUFFICES ASSUME IInv, [Next \/ Tick]_vars PROVE IInv'
    OBVIOUS
  <1>1. CASE UNCHANGED vars
    BY <1>1 DEF vars, IInv, TypeOK, OpsAreWhole, Clean, CacheCovers, ScanCovers, Confirmed, AbsenceRecorded,
       ScanJustified, EveryKillAnnounced
  <1>2. ASSUME NEW i \in Replicas, Operation(i)
        PROVE  IInv'
    BY <1>2, WriteKillKeeps, WriteReviveKeeps, WriteReplyLostKeeps, UpdateCacheKeeps, PublishKeeps,
       SweepEndsKeeps, SweepKeyKeeps, ClearCacheKeeps, ScanBeginsKeeps DEF Operation
  <1>3. ASSUME NEW i \in Replicas, Background(i)
        PROVE  IInv'
    BY <1>3, ScanBeginsKeeps, ScanKeyKeeps, RefreshFailsKeeps, CommitRefreshKeeps, DeliverKeeps DEF Background
  <1>4. CASE Environment
    BY <1>4, StopKeeps, CrashKeeps, ExpireKeeps DEF Environment
  <1>5. CASE Tick
    BY <1>5, TickKeeps
  <1>6. QED
    BY <1>1, <1>2, <1>3, <1>4, <1>5 DEF Next

\* The inductive invariant holds throughout.
LEMMA Invariance == TimedSpec => []IInv
  BY InitIInv, NextIInv, PTL DEF TimedSpec

\* A behaviour without a clock is one of the timed specification.
LEMMA ClocklessIsTimed == Spec => TimedSpec
  <1>1. [Next]_vars => [Next \/ Tick]_vars
    OBVIOUS
  <1>2. QED
    BY <1>1, PTL DEF Spec, TimedSpec

\* Kills arrive, for any replicas, keys, attempts and staleness budget: every kill a
\* cache gains is announced to the observers, whichever path brought it in, and once
\* a kill has been durable and no removal under way for longer than staleness() and
\* the replica's last committed scan, ShouldBlock never answers all-clear for it on a
\* fail-closed replica, whatever was partitioned, crashed, lost or reordered.
THEOREM KillsAlwaysArrive == (Spec \/ TimedSpec) => []KillsArrive
  <1>1. IInv => KillsArrive
    <2> SUFFICES ASSUME IInv, ~FailOpen, NEW i \in Replicas, NEW k \in DOMAIN firm,
                        firm[k] > Staleness + scanLen[i], AllClear(i, k)
                 PROVE  FALSE
      BY DEF IInv, KillsArrive, KillReachesEveryReplica
    <2>1. /\ k \in Keys /\ firm[k] \in Nat /\ scanLen[i] \in Nat /\ age[i] \in 0 .. Never /\ Staleness \in Nat
          /\ life[i] \in {"new", "starting", "started", "stopped"}
      BY ConfigAssumption DEF IInv, TypeOK, FirmCap, Never
    <2>2. life[i] \notin {"new", "starting"} /\ livenessLocked(i) = "live" /\ k \notin cache[i]
      BY DEF AllClear, Blocks
    <2>3. life[i] = "started" /\ ~lastErr[i] /\ ~staleLocked(i)
      BY <2>1, <2>2 DEF livenessLocked
    <2>4. age[i] # Never /\ age[i] <= Staleness
      BY <2>1, <2>3 DEF IInv, Confirmed, staleLocked
    <2>5. firm[k] > age[i] + scanLen[i]
      BY <2>1, <2>4
    <2>6. QED
      BY <2>1, <2>2, <2>4, <2>5 DEF IInv, CacheCovers
  <1>2. QED
    BY <1>1, Invariance, ClocklessIsTimed, PTL

\* A refresh commit takes a kill out of a cache only if that kill was missing from
\* Redis at some time after it was last applied there, for any replicas, keys and
\* attempts: the generation check and the last attempt's union keep a scan older than
\* a kill from erasing it.
THEOREM NoRefreshErasesKill == (Spec \/ TimedSpec) => RefreshNeverErasesKill
  <1> DEFINE Erases(i, k) == /\ ScanDone(i) /\ ~refresh'[i].on /\ life'[i] # "new"
                             /\ k \notin cache'[i]
  <1>1. ASSUME IInv, [Next \/ Tick]_vars
        PROVE  [\A i \in Replicas : \A k \in cache[i] : Erases(i, k) => k \in absent[i]]_vars
    <2> SUFFICES ASSUME Next \/ Tick, NEW i \in Replicas, NEW k \in cache[i], Erases(i, k)
                 PROVE  k \in absent[i]
      BY <1>1
    <2> USE <1>1 DEF IInv
    <2>1. refresh \in [Replicas -> RefreshSet] /\ refresh[i].on /\ refresh[i].todo = {} /\ refresh'[i] # refresh[i]
      BY DEF TypeOK, RefreshSet, ScanDone
    <2>2. CommitRefresh(i)
      <3>1. CASE Tick
        <4>1. refresh'[i] = [refresh[i] EXCEPT !.age = Capped(@, MaxScan + 1)]
          BY <3>1, <2>1 DEF Tick
        <4>2. refresh'[i].on
          BY <4>1, <2>1 DEF RefreshSet
        <4>3. QED
          BY <4>2
      <3>2. ASSUME NEW j \in Replicas, Operation(j) \/ Background(j) \/ Stop(j) \/ Crash(j) \/ Partition(j) \/ Heal(j)
            PROVE  CommitRefresh(i)
        <4>1. CASE Raced(j)
          BY <4>1, <2>1, RacedChanges
        <4>2. CASE UNCHANGED refresh
          BY <4>2, <2>1
        <4>3. CASE \E n \in 0 .. MaxAttempts : refresh' = [refresh EXCEPT ![j] = Attempt(n)]
          <5>1. PICK n \in 0 .. MaxAttempts : refresh' = [refresh EXCEPT ![j] = Attempt(n)]
            BY <4>3
          <5>2. Attempt(n).on
            BY Refreshes
          <5>3. QED
            BY <5>1, <5>2, <2>1
        <4>4. CASE ScanKey(j)
          <5>1. PICK l \in NextKeys(refresh[j].todo) :
                  refresh' = [refresh EXCEPT ![j].todo = @ \ {l},
                                             ![j].found = IF l \in durable THEN @ \cup {l} ELSE @]
            BY <4>4 DEF ScanKey
          <5>2. j # i
            BY <5>1, <2>1 DEF NextKeys
          <5>3. QED
            BY <5>1, <5>2, <2>1
        <4>5. CASE RefreshFails(j)
          BY <4>5, <2>1 DEF RefreshFails
        <4>6. CASE CommitRefresh(j)
          BY <4>6, <2>1 DEF CommitRefresh
        <4>7. CASE Crash(j)
          <5>1. life \in [Replicas -> {"new", "starting", "started", "stopped"}]
            BY DEF TypeOK
          <5>2. life' = [life EXCEPT ![j] = "new"] /\ refresh' = [refresh EXCEPT ![j] = NoRefresh]
            BY <4>7 DEF Crash
          <5>3. QED
            BY <5>1, <5>2, <2>1
        <4>8. CASE Start(j) \/ BeginRefresh(j) \/ RetryRefresh(j) \/ Reseed(j)
          <5>1. 1 \in 0 .. MaxAttempts
            BY ConfigAssumption
          <5>2. CASE Start(j) \/ BeginRefresh(j) \/ Reseed(j)
            BY <5>1, <5>2, <4>2, <4>3 DEF Start, BeginRefresh, Reseed
          <5>3. CASE RetryRefresh(j)
            <6>1. refresh' = [refresh EXCEPT ![j] = Attempt(refresh[j].attempt + 1)]
                  /\ refresh[j].attempt < MaxAttempts
              BY <5>3 DEF RetryRefresh
            <6>2. refresh[j].attempt \in 0 .. MaxAttempts
              BY DEF TypeOK
            <6>3. refresh[j].attempt + 1 \in 0 .. MaxAttempts
              BY <6>1, <6>2, CountUp, ConfigAssumption
            <6>4. QED
              BY <6>1, <6>3, <4>3
          <5>4. QED
            BY <4>8, <5>2, <5>3
        <4>9. QED
          BY <3>2, <4>1, <4>2, <4>4, <4>5, <4>6, <4>7, <4>8
             DEF Operation, Background, WriteKill, WriteRevive, WriteReplyLost, UpdateCache, Publish, BeginReset,
                 SweepKey, SweepFails, ClearCache, Deliver, Stop, Partition, Heal
      <3>3. CASE \E l \in Keys : Expire(l)
        BY <3>3, <2>1 DEF Expire
      <3>4. QED
        BY <3>1, <3>2, <3>3 DEF Next, Environment
    <2>3. cache'[i] = Snapshot(i)
      BY <2>2 DEF CommitRefresh, Apply, TypeOK
    <2>4. ~refresh[i].raced /\ k \notin refresh[i].found
      BY <2>3 DEF Snapshot
    <2>5. QED
      BY <2>1, <2>4 DEF ScanJustified
  <1>2. IInv /\ [Next \/ Tick]_vars => [\A i \in Replicas : \A k \in cache[i] : Erases(i, k) => k \in absent[i]]_vars
    BY <1>1
  <1>3. TimedSpec => [][Next \/ Tick]_vars
    BY PTL DEF TimedSpec
  <1>4. TimedSpec => [][\A i \in Replicas : \A k \in cache[i] : Erases(i, k) => k \in absent[i]]_vars
    BY <1>2, <1>3, Invariance, PTL
  <1>5. QED
    BY <1>4, ClocklessIsTimed, PTL DEF RefreshNeverErasesKill

=============================================================================
