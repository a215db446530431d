--------------------------- MODULE StoresProofs ---------------------------
(***************************************************************************)
(* Proofs about the stores whose entries lapse.                             *)
(*                                                                          *)
(* FlowLabelStore, for any anchors, labels, TTL, ceiling and sweep          *)
(* interval: what a Get answers is what the anchor was given because the    *)
(* store's clock of an entry it holds, idle, and the history's, quiet,      *)
(* agree up to the TTL, where they may stop counting: whatever a sweep may  *)
(* take has a taint the history has already forgotten.                      *)
(*                                                                          *)
(* SessionKillTTL, for any proxies, flags and lifetimes: an advertised      *)
(* lifetime that will expire has an advertiser that stopped serving, or     *)
(* changed its lifetime, less long ago than the value has still to live.    *)
(*                                                                          *)
(* CallCounterRedis, for any replicas, clocks, buckets and bounds: a quota  *)
(* bucket holds every granted call of the window, so the room the script    *)
(* finds is there; a trimmed history holds one at least as new; and a key   *)
(* expires after its members have left the window, whoever's clock scored   *)
(* them.  The sums of weights are handled by the smallest set for which a   *)
(* claim fails.                                                             *)
(***************************************************************************)
EXTENDS CallCounterRedis, FlowLabelStore, SessionKillTTL, FiniteSetTheorems, WellFoundedInduction, TLAPS

-----------------------------------------------------------------------------
(* The flow labels. *)

LabelsTypeOK ==
  /\ labels \in [Anchors -> SUBSET Labels] /\ taint \in [Anchors -> SUBSET Labels]
  /\ idle \in [Anchors -> Nat] /\ quiet \in [Anchors -> Nat]

\* The two clocks of an entry agree until the TTL has passed.
ClocksAgree ==
  \A a \in Held : quiet[a] = IF idle[a] < IdleTTL THEN idle[a] ELSE IdleTTL

LabelsIInv ==
  /\ LabelsTypeOK /\ ClocksAgree
  /\ \A a \in Anchors : (IF live(a) THEN labels[a] ELSE {}) = taint[a]
  /\ IsFiniteSet(Held) /\ (MaxAnchors > 0 => Cardinality(Held) <= MaxAnchors)

\* An empty store satisfies the invariant.
LEMMA LabelsInitIInv == LabelsInit => LabelsIInv
  <1> SUFFICES ASSUME LabelsInit PROVE LabelsIInv
    OBVIOUS
  <1>1. Held = {} /\ LabelsTypeOK
    BY DEF LabelsInit, Held, LabelsTypeOK
  <1>2. QED
    BY <1>1, FS_EmptySet, LabelStoreAssumption DEF LabelsInit, LabelsIInv, ClocksAgree, live

\* Taking entries out keeps the set of the anchors held small.
LEMMA FewerHeld ==
  ASSUME LabelsIInv, Held' \subseteq Held
  PROVE  IsFiniteSet(Held)' /\ (MaxAnchors > 0 => Cardinality(Held) <= MaxAnchors)'
  <1>1. IsFiniteSet(Held) /\ (MaxAnchors > 0 => Cardinality(Held) <= MaxAnchors)
    BY DEF LabelsIInv
  <1>2. IsFiniteSet(Held') /\ Cardinality(Held') <= Cardinality(Held)
    BY <1>1, FS_Subset
  <1>3. Cardinality(Held) \in Nat /\ Cardinality(Held') \in Nat
    BY <1>1, <1>2, FS_CardinalityType
  <1>4. QED
    BY <1>1, <1>2, <1>3, LabelStoreAssumption

\* Whatever takes only entries that are idled out, and touches nobody, keeps the invariant.
LEMMA SweepKeeps ==
  ASSUME LabelsIInv, NEW D, \A a \in D : ~live(a), labels' = Without(D),
         UNCHANGED <<idle, taint, quiet>>
  PROVE  LabelsIInv'
  <1>1. LabelsTypeOK' /\ Held' \subseteq Held /\ Held' \cap D = {}
    BY DEF LabelsIInv, LabelsTypeOK, Without, Held
  <1>2. ClocksAgree'
    BY <1>1 DEF LabelsIInv, ClocksAgree
  <1>3. ASSUME NEW a \in Anchors
        PROVE  (IF live(a) THEN labels[a] ELSE {})' = taint'[a]
    BY DEF LabelsIInv, live, Idled, idleFor, Held, Without
  <1>4. QED
    BY <1>1, <1>2, <1>3, FewerHeld DEF LabelsIInv

\* An anchor that is given labels, after the idled-out entries of D are gone, is held with
\* exactly these, and counts against the ceiling.
LEMMA GiveKeeps ==
  ASSUME LabelsIInv, NEW a \in Anchors, NEW L \in SUBSET Labels, NEW D,
         \A b \in D : ~live(b), ~live(a) => a \in D,
         live(a) \/ ~AtCeiling(D), Give(a, L, D)
  PROVE  LabelsIInv'
  <1>1. LabelsTypeOK'
    BY DEF LabelsIInv, LabelsTypeOK, Give, Without, Touched
  <1>2. /\ Held' \subseteq (Held \ D) \cup {a}
        /\ \A b \in Anchors \ {a} : /\ labels'[b] = IF b \in D THEN {} ELSE labels[b]
                                    /\ idle'[b] = idle[b] /\ quiet'[b] = quiet[b]
                                    /\ taint'[b] = taint[b]
        /\ labels'[a] = (IF a \in D THEN {} ELSE labels[a]) \cup L
        /\ idle'[a] = 0 /\ quiet'[a] = 0 /\ taint'[a] = taint[a] \cup L
    BY DEF LabelsIInv, LabelsTypeOK, Give, Without, Touched, Held
  <1>3. ASSUME NEW b \in Held'
        PROVE  quiet'[b] = IF idle'[b] < IdleTTL THEN idle'[b] ELSE IdleTTL
    <2>1. CASE b = a
      BY <1>2, <2>1, LabelStoreAssumption
    <2>2. CASE b # a
      BY <1>2, <2>2 DEF LabelsIInv, ClocksAgree, Held
    <2>3. QED
      BY <2>1, <2>2
  <1>4. ASSUME NEW b \in Anchors
        PROVE  (IF live(b) THEN labels[b] ELSE {})' = taint'[b]
    <2>1. CASE b # a
      BY <1>2, <2>1 DEF LabelsIInv, live, Idled, idleFor, Held
    <2>2. CASE b = a
      <3>1. ~Idled(a)'
        BY <1>2, LabelStoreAssumption DEF Idled, idleFor
      <3>2. (IF a \in D THEN {} ELSE labels[a]) = taint[a]
        BY DEF LabelsIInv
      <3>3. labels'[a] = taint'[a]
        BY <1>2, <3>2
      <3>4. QED
        BY <2>2, <3>1, <3>3 DEF live, Held
    <2>3. QED
      BY <2>1, <2>2
  <1>5. IsFiniteSet(Held)' /\ (MaxAnchors > 0 => Cardinality(Held) <= MaxAnchors)'
    <2>1. CASE live(a)
      <3>1. Held' \subseteq Held
        BY <1>2, <2>1 DEF live
      <3>2. QED
        BY <3>1, FewerHeld
    <2>2. CASE ~live(a)
      <3>1. a \notin Held \ D /\ IsFiniteSet(Held) /\ ~AtCeiling(D)
        BY <2>2 DEF LabelsIInv
      <3>2. IsFiniteSet(Held \ D)
        BY <3>1, FS_Subset
      <3>3. /\ IsFiniteSet((Held \ D) \cup {a})
            /\ Cardinality((Held \ D) \cup {a}) = Cardinality(Held \ D) + 1
        BY <3>1, <3>2, FS_AddElement
      <3>4. IsFiniteSet(Held') /\ Cardinality(Held') <= Cardinality(Held \ D) + 1
        BY <1>2, <3>3, FS_Subset
      <3>5. Cardinality(Held \ D) \in Nat /\ Cardinality(Held') \in Nat
        BY <3>2, <3>4, FS_CardinalityType
      <3>6. QED
        BY <3>1, <3>4, <3>5, LabelStoreAssumption DEF AtCeiling
    <2>3. QED
      BY <2>1, <2>2
  <1>6. QED
    BY <1>1, <1>3, <1>4, <1>5 DEF LabelsIInv, ClocksAgree

\* An Add, whether it finds room, sweeps first or is refused.
LEMMA AddKeeps ==
  ASSUME LabelsIInv, NEW a \in Anchors, NEW L \in SUBSET Labels, AddLabels(a, L)
  PROVE  LabelsIInv'
  <1> DEFINE D == Forgotten(a)
             swept == reclaimIdle(D)
  <1>1. /\ \A b \in D : ~live(b)
        /\ \A b \in swept : ~live(b)
        /\ ~live(a) => a \in D /\ a \in swept
    BY DEF Forgotten, reclaimIdle, live
  <1>2. CASE (live(a) \/ ~AtCeiling(D)) /\ Give(a, L, D)
    BY <1>1, <1>2, GiveKeeps
  <1>3. CASE ~live(a) /\ ~AtCeiling(swept) /\ Give(a, L, swept)
    BY <1>1, <1>3, GiveKeeps
  <1>4. CASE labels' = Without(swept) /\ UNCHANGED <<idle, taint, quiet>>
    BY <1>1, <1>4, SweepKeeps
  <1>5. CASE labels' = Without(D) /\ UNCHANGED <<idle, taint, quiet>>
    BY <1>1, <1>5, SweepKeeps
  <1>6. QED
    BY <1>2, <1>3, <1>4, <1>5 DEF AddLabels

\* A Get answers and touches.
LEMMA GetKeeps ==
  ASSUME LabelsIInv, NEW a \in Anchors, GetLabels(a)
  PROVE  LabelsIInv'
  <1>1. /\ UNCHANGED <<labels, taint>> /\ live(a)
        /\ idle'[a] = 0 /\ quiet'[a] = 0
        /\ \A b \in Anchors \ {a} : idle'[b] = idle[b] /\ quiet'[b] = quiet[b]
    BY DEF GetLabels, Touched, LabelsIInv, LabelsTypeOK
  <1>2. LabelsTypeOK' /\ Held' = Held
    BY DEF GetLabels, Touched, LabelsIInv, LabelsTypeOK, Held
  <1>3. ClocksAgree'
    BY <1>1, <1>2, LabelStoreAssumption DEF LabelsIInv, ClocksAgree, Held
  <1>4. ASSUME NEW b \in Anchors
        PROVE  (IF live(b) THEN labels[b] ELSE {})' = taint'[b]
    <2>1. live(b)' = live(b)
      BY <1>1, <1>2, LabelStoreAssumption DEF live, Idled, idleFor
    <2>2. QED
      BY <1>1, <2>1 DEF LabelsIInv
  <1>5. QED
    BY <1>2, <1>3, <1>4 DEF LabelsIInv

\* A rollback, or the end of a session.
LEMMA RemoveKeeps ==
  ASSUME LabelsIInv, NEW a \in Anchors, NEW L,
         /\ labels' = IF live(a) THEN [labels EXCEPT ![a] = @ \ L] ELSE Without({a})
         /\ taint' = [taint EXCEPT ![a] = @ \ L],
         UNCHANGED <<idle, quiet>>
  PROVE  LabelsIInv'
  <1>1. /\ LabelsTypeOK' /\ Held' \subseteq Held
        /\ \A b \in Anchors \ {a} : labels'[b] = labels[b] /\ taint'[b] = taint[b]
        /\ labels'[a] = IF live(a) THEN labels[a] \ L ELSE {}
        /\ taint'[a] = taint[a] \ L
    BY DEF LabelsIInv, LabelsTypeOK, Held, Without
  <1>2. ClocksAgree'
    BY <1>1 DEF LabelsIInv, ClocksAgree
  <1>3. ASSUME NEW b \in Anchors
        PROVE  (IF live(b) THEN labels[b] ELSE {})' = taint'[b]
    BY <1>1, ZenonT(40) DEF LabelsIInv, live, Idled, idleFor, Held
  <1>4. QED
    BY <1>1, <1>2, <1>3, FewerHeld DEF LabelsIInv

LEMMA ClearKeeps ==
  ASSUME LabelsIInv, NEW a \in Anchors, ClearLabels(a)
  PROVE  LabelsIInv'
  <1>1. /\ LabelsTypeOK' /\ Held' \subseteq Held /\ UNCHANGED <<idle, quiet>>
        /\ \A b \in Anchors \ {a} : labels'[b] = labels[b] /\ taint'[b] = taint[b]
        /\ labels'[a] = {} /\ taint'[a] = {}
    BY DEF ClearLabels, LabelsIInv, LabelsTypeOK, Held, Without
  <1>2. ClocksAgree'
    BY <1>1 DEF LabelsIInv, ClocksAgree
  <1>3. ASSUME NEW b \in Anchors
        PROVE  (IF live(b) THEN labels[b] ELSE {})' = taint'[b]
    BY <1>1, ZenonT(40) DEF LabelsIInv, live, Idled, idleFor, Held
  <1>4. QED
    BY <1>1, <1>2, <1>3, FewerHeld DEF LabelsIInv

\* Time passes: an entry that reaches its TTL is forgotten by both sides at once.
LEMMA LabelsTickKeeps ==
  ASSUME LabelsIInv, LabelsTick
  PROVE  LabelsIInv'
  <1> USE LabelStoreAssumption
  <1>1. labels' = labels /\ Held' = Held
    BY DEF LabelsTick, Held
  <1>2. ASSUME NEW a \in Anchors
        PROVE  /\ idle[a] \in Nat /\ quiet[a] \in Nat
               /\ idle'[a] = IF a \in Held THEN Up(idle[a], IdleTTL + 1) ELSE 0
               /\ quiet'[a] = Up(quiet[a], IdleTTL)
               /\ taint'[a] = IF IdleTTL > 0 /\ quiet'[a] >= IdleTTL THEN {} ELSE taint[a]
    BY DEF LabelsTick, LabelsIInv, LabelsTypeOK
  <1>3. ASSUME NEW a \in Anchors
        PROVE  idle'[a] \in Nat /\ quiet'[a] \in Nat
    BY <1>2 DEF Up
  <1>4. LabelsTypeOK'
    BY <1>1, <1>2, <1>3 DEF LabelsTick, LabelsIInv, LabelsTypeOK
  <1>5. ASSUME NEW a \in Held
        PROVE  quiet'[a] = IF idle'[a] < IdleTTL THEN idle'[a] ELSE IdleTTL
    <2>1. quiet[a] = IF idle[a] < IdleTTL THEN idle[a] ELSE IdleTTL
      BY DEF LabelsIInv, ClocksAgree
    <2>2. a \in Anchors
      BY DEF Held
    <2>3. QED
      BY <1>2, <2>1, <2>2 DEF Up
  <1>6. ASSUME NEW a \in Anchors
        PROVE  (IF live(a) THEN labels[a] ELSE {})' = taint'[a]
    <2>1. (IF live(a) THEN labels[a] ELSE {}) = taint[a]
      BY DEF LabelsIInv
    <2>2. CASE a \notin Held
      BY <1>1, <1>2, <2>1, <2>2 DEF live
    <2>3. CASE a \in Held
      <3>1. Idled(a)' <=> IdleTTL > 0 /\ quiet'[a] >= IdleTTL
        BY <1>2, <1>3, <1>5, <2>3 DEF Idled, idleFor
      <3>2. Idled(a) => Idled(a)'
        BY <1>2, <2>3 DEF Idled, idleFor, Up
      <3>3. QED
        BY <1>1, <1>2, <2>1, <2>3, <3>1, <3>2 DEF live
    <2>4. QED
      BY <2>2, <2>3
  <1>7. QED
    BY <1>1, <1>4, <1>5, <1>6 DEF LabelsIInv, ClocksAgree

\* Every step of the store and its sweeper keeps the invariant.
LEMMA LabelsNextIInv == LabelsIInv /\ [LabelsNext]_lvars => LabelsIInv'
  <1> SUFFICES ASSUME LabelsIInv, [LabelsNext]_lvars PROVE LabelsIInv'
    OBVIOUS
  <1>1. CASE UNCHANGED <<labels, idle, taint, quiet>>
    BY <1>1 DEF LabelsIInv, LabelsTypeOK, ClocksAgree, live, Idled, idleFor, Held
  <1>2. ASSUME NEW a \in Anchors, NEW L \in SUBSET Labels, AddLabels(a, L) \/ RemoveLabels(a, L)
        PROVE  LabelsIInv'
    BY <1>2, AddKeeps, RemoveKeeps DEF RemoveLabels
  <1>3. ASSUME NEW a \in Anchors, GetLabels(a) \/ ClearLabels(a)
        PROVE  LabelsIInv'
    BY <1>3, GetKeeps, ClearKeeps
  <1>4. CASE StartCleanup \/ CancelCleanup \/ CleanerEnds \/ Cleanup \/ ScanIdle
    BY <1>1, <1>4 DEF StartCleanup, CancelCleanup, CleanerEnds, Cleanup, ScanIdle, store
  <1>5. CASE DeleteIdle
    <2>1. PICK batch : labels' = Without({a \in batch : StillIdle(a)})
      BY <1>5 DEF DeleteIdle
    <2>2. \A a \in {b \in batch : StillIdle(b)} : ~live(a)
      BY DEF StillIdle, live
    <2>3. QED
      BY <1>5, <2>1, <2>2, SweepKeeps DEF DeleteIdle
  <1>6. CASE LabelsTick
    BY <1>6, LabelsTickKeeps
  <1>7. QED
    BY <1>1, <1>2, <1>3, <1>4, <1>5, <1>6 DEF LabelsNext, lvars

\* The store keeps its types.
THEOREM LabelsTypeCorrect == LabelsSpec => []LabelsTypeOK
  <1>1. LabelsIInv => LabelsTypeOK
    BY DEF LabelsIInv
  <1>2. QED
    BY <1>1, LabelsInitIInv, LabelsNextIInv, PTL DEF LabelsSpec

\* No sweep, at the ceiling or in the background, takes a taint that is still live or
\* brings one back, and the ceiling holds, for any TTL, ceiling and interval
\* (Add, Cleanup, admitNewKey).
THEOREM TaintIsExact == LabelsSpec => []TaintOutlivesSweeps
  <1>1. LabelsIInv => TaintOutlivesSweeps
    BY DEF LabelsIInv, TaintOutlivesSweeps
  <1>2. QED
    BY <1>1, LabelsInitIInv, LabelsNextIInv, PTL DEF LabelsSpec

-----------------------------------------------------------------------------
(* The lifetime of a session kill. *)

LifetimeTypeOK ==
  /\ instance \in [Instances -> {"down", "up", "ready"}]
  /\ lifetime \in [Instances -> Nat]
  /\ away \in [Instances -> 0 .. ExpiryFactor] /\ tenure \in [Instances -> 0 .. ExpiryFactor]

\* A proxy that serves is not away.
ServingIsHere == \A p \in Instances : instance[p] = "ready" => away[p] = 0

\* Who advertised a value that expires served less long ago than the value has lived,
\* and has the lifetime it advertised, or took another one since.
Advertised(q) ==
  /\ advert.left + away[q] <= ExpiryFactor
  /\ advert.life = lifetime[q] \/ advert.left + tenure[q] <= ExpiryFactor

AdvertIsRecent ==
  advert # Absent =>
    /\ advert = [life |-> advert.life, left |-> advert.left]
    /\ advert.life \in Nat /\ advert.left \in (1 .. ExpiryFactor) \cup {Forever}
    /\ IF advert.left = Forever THEN advert.life = 0 ELSE \E q \in Instances : Advertised(q)

LifetimeIInv == LifetimeTypeOK /\ ServingIsHere /\ AdvertIsRecent

\* Nobody serves at first.
LEMMA LifetimeInitIInv == LifetimeInit => LifetimeIInv
  BY LifetimeAssumption DEF LifetimeInit, LifetimeIInv, LifetimeTypeOK, ServingIsHere, AdvertIsRecent

\* The steps of a proxy.
LEMMA StartKeeps ==
  ASSUME LifetimeIInv, NEW p \in Instances, NEW flag \in TTLFlags, StartInstance(p, flag)
  PROVE  LifetimeIInv'
  <1> USE LifetimeAssumption
  <1>1. NormalizeSessionKillTTL(flag) \in Nat
    BY DEF NormalizeSessionKillTTL, Resolve
  <1>2. LifetimeTypeOK'
    BY <1>1 DEF LifetimeIInv, LifetimeTypeOK, StartInstance
  <1>3. ServingIsHere'
    BY DEF LifetimeIInv, LifetimeTypeOK, ServingIsHere, StartInstance
  <1>4. AdvertIsRecent'
    <2>1. advert' = advert /\ away' = away
      BY DEF StartInstance
    <2>2. ASSUME NEW q \in Instances, advert.left \in 1 .. ExpiryFactor, Advertised(q)
          PROVE  Advertised(q)'
      <3>1. CASE q = p
        <4>1. tenure'[q] = 0
          BY <3>1 DEF StartInstance, LifetimeIInv, LifetimeTypeOK
        <4>2. QED
          BY <2>1, <2>2, <4>1 DEF Advertised
      <3>2. CASE q # p
        <4>1. tenure'[q] = tenure[q] /\ lifetime'[q] = lifetime[q]
          BY <3>2 DEF StartInstance, LifetimeIInv, LifetimeTypeOK
        <4>2. QED
          BY <2>1, <2>2, <4>1 DEF Advertised
      <3>3. QED
        BY <3>1, <3>2
    <2>3. QED
      BY <2>1, <2>2 DEF LifetimeIInv, AdvertIsRecent
  <1>5. QED
    BY <1>2, <1>3, <1>4 DEF LifetimeIInv

LEMMA StopServeKeeps ==
  ASSUME LifetimeIInv, NEW p \in Instances, StopInstance(p) \/ ServeReady(p)
  PROVE  LifetimeIInv'
  <1> USE LifetimeAssumption
  <1>1. UNCHANGED <<lifetime, tenure, advert>>
    BY DEF StopInstance, ServeReady
  <1>2. LifetimeTypeOK' /\ ServingIsHere'
    BY DEF LifetimeIInv, LifetimeTypeOK, ServingIsHere, StopInstance, ServeReady
  <1>3. \A q \in Instances : away'[q] <= away[q] /\ away'[q] \in Nat /\ away[q] \in Nat
    BY DEF LifetimeIInv, LifetimeTypeOK, StopInstance, ServeReady
  <1>4. ASSUME NEW q \in Instances, advert.left \in 1 .. ExpiryFactor, Advertised(q)
        PROVE  Advertised(q)'
    BY <1>1, <1>3, <1>4 DEF Advertised
  <1>5. AdvertIsRecent'
    BY <1>1, <1>4 DEF LifetimeIInv, AdvertIsRecent
  <1>6. QED
    BY <1>2, <1>5 DEF LifetimeIInv

LEMMA PublishKeeps ==
  ASSUME LifetimeIInv, NEW p \in Instances, PublishSessionKillTTL(p)
  PROVE  LifetimeIInv'
  <1> USE LifetimeAssumption
  <1>1. /\ UNCHANGED <<instance, lifetime, away, tenure>>
        /\ advert' = [life |-> lifetime[p], left |-> publishedValueExpiry(lifetime[p])]
        /\ instance[p] = "ready"
    BY DEF PublishSessionKillTTL, fleet, MayPublish
  <1>2. LifetimeTypeOK' /\ ServingIsHere'
    BY <1>1 DEF LifetimeIInv, LifetimeTypeOK, ServingIsHere
  <1>3. lifetime[p] \in Nat /\ away[p] = 0
    BY <1>1 DEF LifetimeIInv, LifetimeTypeOK, ServingIsHere
  <1>4. AdvertIsRecent'
    <2>1. CASE lifetime[p] = 0
      BY <1>1, <1>3, <2>1 DEF AdvertIsRecent, publishedValueExpiry
    <2>2. CASE lifetime[p] # 0
      <3>1. advert'.left = ExpiryFactor /\ advert'.life = lifetime[p]
        BY <1>1, <2>2 DEF publishedValueExpiry
      <3>2. Advertised(p)'
        BY <1>1, <1>3, <3>1 DEF Advertised
      <3>3. ExpiryFactor # Forever
        BY DEF Forever
      <3>4. QED
        BY <1>1, <1>3, <3>1, <3>2, <3>3 DEF AdvertIsRecent
    <2>3. QED
      BY <2>1, <2>2
  <1>5. QED
    BY <1>2, <1>4 DEF LifetimeIInv

\* Time passes for the value and its advertisers alike.
LEMMA LifetimeTickKeeps ==
  ASSUME LifetimeIInv, LifetimeTick
  PROVE  LifetimeIInv'
  <1> USE LifetimeAssumption
  <1>1. UNCHANGED <<instance, lifetime>>
    BY DEF LifetimeTick, fleet
  <1>2. ASSUME NEW p \in Instances
        PROVE  /\ away[p] \in 0 .. ExpiryFactor /\ tenure[p] \in 0 .. ExpiryFactor
               /\ away'[p] \in 0 .. ExpiryFactor /\ away'[p] <= away[p] + 1
               /\ tenure'[p] \in 0 .. ExpiryFactor /\ tenure'[p] <= tenure[p] + 1
               /\ instance[p] = "ready" => away'[p] = 0
    <2>1. away[p] \in 0 .. ExpiryFactor /\ tenure[p] \in 0 .. ExpiryFactor
      BY DEF LifetimeIInv, LifetimeTypeOK
    <2>2. /\ away'[p] = IF instance[p] = "ready" THEN 0 ELSE More(away[p])
          /\ tenure'[p] = IF instance[p] = "ready" THEN More(tenure[p]) ELSE tenure[p]
      BY DEF LifetimeTick
    <2>3. QED
      BY <2>1, <2>2 DEF More
  <1>3. LifetimeTypeOK' /\ ServingIsHere'
    BY <1>1, <1>2 DEF LifetimeIInv, LifetimeTypeOK, ServingIsHere, LifetimeTick
  <1>4. CASE advert = Absent \/ advert.left = 1
    BY <1>3, <1>4 DEF LifetimeTick, LifetimeIInv, AdvertIsRecent
  <1>5. CASE advert # Absent /\ advert.left # 1
    <2>1. /\ advert = [life |-> advert.life, left |-> advert.left]
          /\ advert.life \in Nat /\ advert.left \in (1 .. ExpiryFactor) \cup {Forever}
          /\ IF advert.left = Forever THEN advert.life = 0 ELSE \E q \in Instances : Advertised(q)
      BY <1>5 DEF LifetimeIInv, AdvertIsRecent
    <2>2. advert' = [life |-> advert.life, left |-> Less(advert.left)]
      BY <1>5, <2>1 DEF LifetimeTick
    <2>3. CASE advert.left = Forever
      BY <1>3, <2>1, <2>2, <2>3 DEF Less, LifetimeIInv, AdvertIsRecent
    <2>4. CASE advert.left # Forever
      <3>1. /\ advert.left \in 2 .. ExpiryFactor /\ advert'.left = advert.left - 1
            /\ advert'.life = advert.life
        BY <1>5, <2>1, <2>2, <2>4 DEF Less, Forever
      <3>2. PICK q \in Instances : Advertised(q)
        BY <2>1, <2>4
      <3>3. Advertised(q)'
        BY <1>1, <1>2, <3>1, <3>2 DEF Advertised
      <3>4. advert'.left \in 1 .. ExpiryFactor /\ advert'.left # Forever
        BY <3>1 DEF Forever
      <3>5. AdvertIsRecent'
        BY <2>1, <2>2, <3>1, <3>3, <3>4 DEF AdvertIsRecent
      <3>6. QED
        BY <1>3, <3>5 DEF LifetimeIInv
    <2>5. QED
      BY <2>3, <2>4
  <1>6. QED
    BY <1>4, <1>5

\* Every step, the command's included, keeps the invariant.
LEMMA LifetimeNextIInv == LifetimeIInv /\ [LifetimeNext]_tvars => LifetimeIInv'
  <1> SUFFICES ASSUME LifetimeIInv, [LifetimeNext]_tvars PROVE LifetimeIInv'
    OBVIOUS
  <1>1. CASE UNCHANGED <<instance, lifetime, advert, away, tenure>>
    BY <1>1 DEF LifetimeIInv, LifetimeTypeOK, ServingIsHere, AdvertIsRecent, Advertised
  <1>2. ASSUME NEW p \in Instances, NEW flag \in TTLFlags, StartInstance(p, flag)
        PROVE  LifetimeIInv'
    BY <1>2, StartKeeps
  <1>3. ASSUME NEW p \in Instances,
               StopInstance(p) \/ ServeReady(p) \/ PublishSessionKillTTL(p) \/ ProxyKillsSession(p)
        PROVE  LifetimeIInv'
    BY <1>1, <1>3, StopServeKeeps, PublishKeeps DEF ProxyKillsSession, fleet
  <1>4. ASSUME NEW args, cmdKill(args)
        PROVE  LifetimeIInv'
    BY <1>1, <1>4 DEF cmdKill, fleet
  <1>5. CASE ReadPublishedSessionKillTTL \/ runRedisKill \/ PublishEvent
    BY <1>1, <1>5 DEF ReadPublishedSessionKillTTL, runRedisKill, PublishEvent, fleet
  <1>6. CASE LifetimeTick
    BY <1>6, LifetimeTickKeeps
  <1>7. QED
    BY <1>1, <1>2, <1>3, <1>4, <1>5, <1>6 DEF LifetimeNext, tvars, fleet

\* What the command is, at each of its phases.
CommandOK ==
  \/ command = NoCommand
  \/ /\ command.phase \in {"lookup", "write", "notify"}
     /\ command = [phase |-> command.phase, kind |-> command.kind, revive |-> command.revive,
                   flag |-> command.flag, flagSet |-> command.flagSet, life |-> command.life]
  \/ command.phase = "done" /\ ExitTellsWhetherItLanded

LEMMA CommandNext == CommandOK /\ [LifetimeNext]_tvars => CommandOK'
  <1> SUFFICES ASSUME CommandOK, [LifetimeNext]_tvars PROVE CommandOK'
    OBVIOUS
  <1> USE DEF CommandOK, ExitTellsWhetherItLanded, NoCommand
  <1>1. CASE UNCHANGED command
    BY <1>1
  <1>2. ASSUME NEW p \in Instances,
               \/ \E flag \in TTLFlags : StartInstance(p, flag)
               \/ StopInstance(p) \/ ServeReady(p)
               \/ PublishSessionKillTTL(p) \/ ProxyKillsSession(p)
        PROVE  CommandOK'
    BY <1>1, <1>2 DEF StartInstance, StopInstance, ServeReady, PublishSessionKillTTL, ProxyKillsSession
  <1>3. ASSUME NEW args, cmdKill(args)
        PROVE  CommandOK'
    <2>1. CASE Accepted(args)
      <3>1. PICK phase \in {"write", "lookup"} : \E kind :
              command' = [phase |-> phase, kind |-> kind, revive |-> args.revive,
                          flag |-> args.flag, flagSet |-> args.flagSet, life |-> 0]
        BY <1>3, <2>1 DEF cmdKill
      <3>2. QED
        BY <3>1
    <2>2. CASE ~Accepted(args)
      BY <1>3, <2>2 DEF cmdKill, Exit
    <2>3. QED
      BY <2>1, <2>2
  <1>4. CASE ReadPublishedSessionKillTTL
    <2>1. PICK found : command' = [command EXCEPT !.phase = "write",
                  !.life = resolveSessionKillTTL(command.flag, command.flagSet, found).life]
      BY <1>4 DEF ReadPublishedSessionKillTTL
    <2> DEFINE life == resolveSessionKillTTL(command.flag, command.flagSet, found).life
    <2> HIDE DEF life
    <2>2. command = [phase |-> command.phase, kind |-> command.kind, revive |-> command.revive,
                     flag |-> command.flag, flagSet |-> command.flagSet, life |-> command.life]
      BY <1>4 DEF ReadPublishedSessionKillTTL
    <2>3. command' = [phase |-> "write", kind |-> command.kind, revive |-> command.revive,
                      flag |-> command.flag, flagSet |-> command.flagSet, life |-> life]
      BY <2>1, <2>2 DEF life
    <2>4. QED
      BY <2>3
  <1>5. CASE runRedisKill
    BY <1>5 DEF runRedisKill, Exit
  <1>6. CASE PublishEvent
    BY <1>6 DEF PublishEvent, Exit, killWriteOutcome
  <1>7. CASE LifetimeTick
    BY <1>1, <1>7 DEF LifetimeTick
  <1>8. QED
    BY <1>1, <1>2, <1>3, <1>4, <1>5, <1>6, <1>7 DEF LifetimeNext, tvars

\* A settled proxy's own lifetime is covered by what the command takes without a word.
LEMMA RecentAdvertCovers ==
  ASSUME LifetimeIInv
  PROVE  SilentKillsOutlast
  <1> USE LifetimeAssumption
  <1> SUFFICES ASSUME NEW p \in Instances, Settled(p), NEW flag \in TTLFlags,
                      NEW flagSet \in BOOLEAN, advert # Absent
               PROVE  Covers(resolveSessionKillTTL(flag, flagSet, advert).life, lifetime[p])
    BY DEF SilentKillsOutlast, resolveSessionKillTTL
  <1> DEFINE local == NormalizeSessionKillTTL(flag)
  <1>1. local \in Nat /\ lifetime[p] \in Nat /\ advert.life \in Nat
    BY DEF NormalizeSessionKillTTL, Resolve, LifetimeIInv, LifetimeTypeOK, AdvertIsRecent
  <1>2. advert.life = 0 \/ advert.life = lifetime[p]
    <2>1. CASE advert.left = Forever
      BY <2>1 DEF LifetimeIInv, AdvertIsRecent
    <2>2. CASE advert.left # Forever
      <3>1. PICK q \in Instances : Advertised(q)
        BY <2>2 DEF LifetimeIInv, AdvertIsRecent
      <3>2. advert.left \in 1 .. ExpiryFactor
        BY <2>2 DEF LifetimeIInv, AdvertIsRecent
      <3>3. away[q] \in Nat /\ tenure[q] \in Nat
        BY DEF LifetimeIInv, LifetimeTypeOK
      <3>4. q = p
        BY <3>1, <3>2, <3>3 DEF Settled, Advertised
      <3>5. QED
        BY <3>1, <3>2, <3>3, <3>4 DEF Settled, Advertised
    <2>3. QED
      BY <2>1, <2>2
  <1>3. resolveSessionKillTTL(flag, flagSet, advert).life
        = IF flagSet THEN longerTombstone(local, advert.life) ELSE advert.life
    BY DEF resolveSessionKillTTL, ResolveSessionKillTTLConflict
  <1> HIDE DEF local
  <1>4. CASE flagSet
    BY <1>1, <1>2, <1>3, <1>4 DEF Covers, longerTombstone
  <1>5. CASE ~flagSet
    BY <1>1, <1>2, <1>3, <1>5 DEF Covers, longerTombstone
  <1>6. QED
    BY <1>4, <1>5

\* For any proxies, flags, default and expiry factor, and however renewals fail and proxies
\* come and go, a kill written without a word of a fallback outlasts the serving proxy's
\* own, and the exit status tells whether it landed (PublishSessionKillTTL, runRedisKill).
THEOREM KillCommandStaysHonest == LifetimeSpec => []KillCommandIsHonest
  <1>1. LifetimeInit => CommandOK
    BY DEF LifetimeInit, CommandOK
  <1>2. CommandOK => ExitTellsWhetherItLanded
    BY DEF CommandOK, ExitTellsWhetherItLanded, NoCommand
  <1>3. LifetimeIInv /\ CommandOK => KillCommandIsHonest
    BY <1>2, RecentAdvertCovers DEF KillCommandIsHonest
  <1>4. QED
    BY <1>1, <1>3, LifetimeInitIInv, LifetimeNextIInv, CommandNext, PTL DEF LifetimeSpec

-----------------------------------------------------------------------------
(* Sums over finite sets of members.  Induction goes by the smallest set     *)
(* that a claim fails for.                                                   *)

\* A claim that fails for a subset of a finite set fails for a smallest one.
LEMMA SmallestFailure ==
  ASSUME NEW S, IsFiniteSet(S), NEW Bad, Bad \subseteq SUBSET S, Bad # {}
  PROVE  \E T \in Bad : \A U \in SUBSET T : U # T => U \notin Bad
  <1>1. IsWellFoundedOn(StrictSubsetOrdering(S), SUBSET S)
    BY FS_StrictSubsetOrderingWellFounded, FS_FiniteSubsetsOfFinite
  <1>2. PICK T \in Bad : \A U \in Bad : <<U, T>> \notin StrictSubsetOrdering(S)
    BY <1>1, WFMin
  <1>3. QED
    BY <1>2 DEF StrictSubsetOrdering

\* The fold behind WeightOf is a function that satisfies this equation.
Weighed(S) == \A r \in S : r.weight \in Nat
Pick(s) == CHOOSE x \in s : TRUE
IsSum(g, T) ==
  g = [s \in SUBSET T |-> IF s = {} THEN 0 ELSE Pick(s).weight + g[s \ {Pick(s)}]]

\* The fold of the community modules, written with IsSum.
LEMMA WeightOfIsSum ==
  ASSUME NEW T
  PROVE  WeightOf(T) = (CHOOSE g : IsSum(g, T))[T]
  BY DEF WeightOf, MapThenSumSet, MapThenFoldSet, IsSum, Pick

\* What is picked is there.
LEMMA PickIsIn == \A s : s # {} => Pick(s) \in s
  BY DEF Pick

\* Two such functions agree where both are defined.
LEMMA SumsAgree ==
  ASSUME NEW T, IsFiniteSet(T), NEW U \in SUBSET T, NEW g, NEW h, IsSum(g, T), IsSum(h, U)
  PROVE  g[U] = h[U]
  <1> DEFINE Bad == {s \in SUBSET U : g[s] # h[s]}
  <1>1. SUFFICES ASSUME Bad # {} PROVE FALSE
    OBVIOUS
  <1>2. IsFiniteSet(U)
    BY FS_Subset
  <1>3. PICK s \in Bad : \A u \in SUBSET s : u # s => u \notin Bad
    <2> HIDE DEF Bad
    <2>1. Bad \subseteq SUBSET U
      BY DEF Bad
    <2>2. QED
      BY <1>1, <1>2, <2>1, SmallestFailure
  <1>4. s \in SUBSET U /\ s \in SUBSET T /\ g[s] # h[s]
    OBVIOUS
  <1>5. /\ g[s] = IF s = {} THEN 0 ELSE Pick(s).weight + g[s \ {Pick(s)}]
        /\ h[s] = IF s = {} THEN 0 ELSE Pick(s).weight + h[s \ {Pick(s)}]
    BY <1>4 DEF IsSum
  <1>6. CASE s = {}
    BY <1>4, <1>5, <1>6
  <1>7. CASE s # {}
    <2>1. s \ {Pick(s)} \in SUBSET s /\ s \ {Pick(s)} # s
      BY <1>7, PickIsIn
    <2>2. s \ {Pick(s)} \in SUBSET U
      BY <1>4, <2>1
    <2>3. g[s \ {Pick(s)}] = h[s \ {Pick(s)}]
      BY <1>3, <2>1, <2>2
    <2>4. QED
      BY <1>4, <1>5, <1>7, <2>3
  <1>8. QED
    BY <1>6, <1>7

\* There is one for every finite set.
LEMMA SumExists ==
  ASSUME NEW S, IsFiniteSet(S)
  PROVE  \E g : IsSum(g, S)
  <1> DEFINE Bad == {s \in SUBSET S : ~\E g : IsSum(g, s)}
  <1>1. SUFFICES ASSUME Bad # {} PROVE FALSE
    OBVIOUS
  <1>2. PICK T \in Bad : \A u \in SUBSET T : u # T => u \notin Bad
    <2> HIDE DEF Bad
    <2>1. Bad \subseteq SUBSET S
      BY DEF Bad
    <2>2. QED
      BY <1>1, <2>1, SmallestFailure
  <1>3. T \in SUBSET S /\ ~\E g : IsSum(g, T) /\ IsFiniteSet(T)
    BY FS_Subset
  <1> DEFINE G(u) == CHOOSE g : IsSum(g, u)
             sum(u) == G(u)[u]
             g == [s \in SUBSET T |-> IF s = {} THEN 0 ELSE Pick(s).weight + sum(s \ {Pick(s)})]
  <1>4. ASSUME NEW u \in SUBSET T, u # T
        PROVE  IsSum(G(u), u) /\ IsFiniteSet(u)
    <2>1. \E f : IsSum(f, u)
      BY <1>2, <1>3, <1>4
    <2>2. QED
      BY <1>3, <2>1, FS_Subset
  <1> HIDE DEF G
  \* Below T, g is that sum.
  <1>5. ASSUME NEW u \in SUBSET T, u # T
        PROVE  g[u] = sum(u)
    <2>1. G(u)[u] = IF u = {} THEN 0 ELSE Pick(u).weight + G(u)[u \ {Pick(u)}]
      BY <1>4, <1>5 DEF IsSum
    <2>2. CASE u = {}
      BY <2>1, <2>2
    <2>3. CASE u # {}
      <3>1. u \ {Pick(u)} \in SUBSET u /\ u \ {Pick(u)} # T /\ u \ {Pick(u)} \in SUBSET T
        BY <2>3, PickIsIn
      <3>2. G(u)[u \ {Pick(u)}] = sum(u \ {Pick(u)})
        BY <1>4, <1>5, <3>1, SumsAgree
      <3>3. QED
        BY <2>1, <2>3, <3>2
    <2>4. QED
      BY <2>2, <2>3
  <1>6. ASSUME NEW s \in SUBSET T, s # {}
        PROVE  g[s \ {Pick(s)}] = sum(s \ {Pick(s)})
    <2>1. s \ {Pick(s)} \in SUBSET T /\ s \ {Pick(s)} # T
      BY <1>6, PickIsIn
    <2>2. QED
      BY <1>5, <2>1
  <1>7. g = [s \in SUBSET T |-> IF s = {} THEN 0 ELSE Pick(s).weight + g[s \ {Pick(s)}]]
    BY <1>6
  <1>8. IsSum(g, T)
    BY <1>7 DEF IsSum
  <1>9. QED
    BY <1>3, <1>8

\* So WeightOf unfolds, one picked element at a time.
LEMMA WeightOfUnfolds ==
  ASSUME NEW T, IsFiniteSet(T)
  PROVE  WeightOf(T) = IF T = {} THEN 0 ELSE Pick(T).weight + WeightOf(T \ {Pick(T)})
  <1> DEFINE G(u) == CHOOSE g : IsSum(g, u)
  <1>1. ASSUME NEW u, IsFiniteSet(u)
        PROVE  IsSum(G(u), u) /\ WeightOf(u) = G(u)[u]
    BY <1>1, SumExists, WeightOfIsSum
  <1> HIDE DEF G
  <1>2. G(T)[T] = IF T = {} THEN 0 ELSE Pick(T).weight + G(T)[T \ {Pick(T)}]
    BY <1>1 DEF IsSum
  <1>3. IsFiniteSet(T \ {Pick(T)}) /\ T \ {Pick(T)} \in SUBSET T
    BY FS_RemoveElement
  <1>4. G(T)[T \ {Pick(T)}] = G(T \ {Pick(T)})[T \ {Pick(T)}]
    BY <1>1, <1>3, SumsAgree
  <1>5. QED
    BY <1>1, <1>2, <1>3, <1>4

\* Whichever element is taken out, it counts with its weight.
LEMMA WeightOfRemove ==
  ASSUME NEW S, IsFiniteSet(S), Weighed(S)
  PROVE  /\ WeightOf(S) \in Nat
         /\ \A r \in S : WeightOf(S) = r.weight + WeightOf(S \ {r})
  <1> DEFINE Fine(s) == WeightOf(s) \in Nat /\ \A r \in s : WeightOf(s) = r.weight + WeightOf(s \ {r})
             Bad == {s \in SUBSET S : ~Fine(s)}
  <1>1. SUFFICES ASSUME Bad # {} PROVE FALSE
    OBVIOUS
  <1>2. PICK T \in Bad : \A u \in SUBSET T : u # T => u \notin Bad
    <2> HIDE DEF Bad
    <2>1. Bad \subseteq SUBSET S
      BY DEF Bad
    <2>2. QED
      BY <1>1, <2>1, SmallestFailure
  <1>3. T \in SUBSET S /\ ~Fine(T) /\ IsFiniteSet(T)
    BY FS_Subset
  <1>4. \A u \in SUBSET T : u # T => Fine(u) /\ IsFiniteSet(u)
    BY <1>2, <1>3, FS_Subset
  <1> HIDE DEF Fine, Bad
  <1>5. \A r \in T : r.weight \in Nat
    BY <1>3 DEF Weighed
  <1>6. CASE T = {}
    <2>1. WeightOf(T) = 0
      BY <1>3, <1>6, WeightOfUnfolds
    <2>2. QED
      BY <1>3, <1>6, <2>1 DEF Fine
  <1>7. CASE T # {}
    <2> DEFINE x == Pick(T)
    <2>1. x \in T
      BY <1>7, PickIsIn
    <2> HIDE DEF x
    <2>2. WeightOf(T) = x.weight + WeightOf(T \ {x})
      BY <1>3, <1>7, WeightOfUnfolds DEF x
    <2>3. T \ {x} \in SUBSET T /\ T \ {x} # T
      BY <2>1
    <2>4. Fine(T \ {x})
      BY <1>4, <2>3
    <2>5. WeightOf(T \ {x}) \in Nat /\ \A r \in T \ {x} : WeightOf(T \ {x}) = r.weight + WeightOf((T \ {x}) \ {r})
      BY <2>4 DEF Fine
    <2>6. WeightOf(T) \in Nat
      BY <1>5, <2>1, <2>2, <2>5
    <2>7. ASSUME NEW r \in T
          PROVE  WeightOf(T) = r.weight + WeightOf(T \ {r})
      <3>1. CASE r = x
        BY <2>2, <3>1
      <3>2. CASE r # x
        <4>0. x.weight \in Nat /\ r.weight \in Nat
          BY <1>5, <2>1
        <4>1. WeightOf(T \ {x}) = r.weight + WeightOf((T \ {x}) \ {r})
          BY <2>5, <3>2
        <4>2. T \ {r} \in SUBSET T /\ T \ {r} # T /\ x \in T \ {r}
          BY <2>1, <3>2
        <4>3. WeightOf(T \ {r}) = x.weight + WeightOf((T \ {r}) \ {x})
          BY <1>4, <4>2 DEF Fine
        <4>4. (T \ {r}) \ {x} = (T \ {x}) \ {r}
          OBVIOUS
        <4>5. WeightOf((T \ {x}) \ {r}) \in Nat
          <5>1. (T \ {x}) \ {r} \in SUBSET T /\ (T \ {x}) \ {r} # T
            BY <2>1
          <5>2. QED
            BY <1>4, <5>1 DEF Fine
        <4>6. WeightOf(T \ {r}) = x.weight + WeightOf((T \ {x}) \ {r})
          BY <4>3, <4>4
        <4> DEFINE a == x.weight
                   b == r.weight
                   v == WeightOf((T \ {x}) \ {r})
        <4>7. a \in Nat /\ b \in Nat /\ v \in Nat
          BY <4>0, <4>5
        <4>8. WeightOf(T) = a + (b + v) /\ WeightOf(T \ {r}) = a + v
          BY <2>2, <4>1, <4>6
        <4> HIDE DEF a, b, v
        <4>9. WeightOf(T) = b + WeightOf(T \ {r})
          BY <4>7, <4>8
        <4> QED BY <4>9 DEF b
      <3>3. QED
        BY <3>1, <3>2
    <2>8. QED
      BY <1>3, <2>6, <2>7 DEF Fine
  <1>8. QED
    BY <1>6, <1>7

\* Fewer members weigh no more.
LEMMA WeightOfMonotone ==
  ASSUME NEW S, IsFiniteSet(S), Weighed(S), NEW U \in SUBSET S
  PROVE  WeightOf(U) <= WeightOf(S)
  <1> DEFINE Fine(s) == WeightOf(s) <= WeightOf(S)
             \* what is left out of S
             Bad == {d \in SUBSET S : ~Fine(S \ d)}
  <1>1. SUFFICES ASSUME Bad # {} PROVE FALSE
    <2>1. S \ U \notin Bad
      BY <1>1
    <2>2. S \ (S \ U) = U
      OBVIOUS
    <2>3. QED
      BY <2>1, <2>2
  <1>2. PICK d \in Bad : \A e \in SUBSET d : e # d => e \notin Bad
    <2> HIDE DEF Bad
    <2>1. Bad \subseteq SUBSET S
      BY DEF Bad
    <2>2. QED
      BY <1>1, <2>1, SmallestFailure
  <1>3. d \in SUBSET S /\ ~(WeightOf(S \ d) <= WeightOf(S))
    OBVIOUS
  <1>4. WeightOf(S) \in Nat
    BY WeightOfRemove
  <1>5. CASE d = {}
    <2>1. S \ d = S
      BY <1>5
    <2>2. QED
      BY <1>3, <1>4, <2>1
  <1>6. CASE d # {}
    <2>1. PICK r : r \in d
      BY <1>6
    <2> DEFINE e == d \ {r}
    <2>2. e \in SUBSET d /\ e # d /\ e \in SUBSET S
      BY <1>3, <2>1
    <2>3. WeightOf(S \ e) <= WeightOf(S)
      BY <1>2, <2>2
    <2>4. IsFiniteSet(S \ e) /\ Weighed(S \ e) /\ r \in S \ e
      BY <1>3, <2>1, FS_Subset DEF Weighed
    <2>5. IsFiniteSet(S \ d) /\ Weighed(S \ d)
      BY FS_Subset DEF Weighed
    <2>6. S \ d = (S \ e) \ {r}
      BY <2>1
    <2>7. WeightOf(S \ e) = r.weight + WeightOf(S \ d) /\ WeightOf(S \ e) \in Nat
      BY <2>4, <2>6, WeightOfRemove
    <2>8. WeightOf(S \ d) \in Nat
      BY <2>5, WeightOfRemove
    <2>9. r.weight \in Nat
      BY <2>4 DEF Weighed
    <2>10. QED
      BY <1>3, <1>4, <2>3, <2>7, <2>8, <2>9
  <1>7. QED
    BY <1>5, <1>6


\* Growing older weighs nothing.
LEMMA WeightOfOlder ==
  ASSUME NEW S, IsFiniteSet(S), Weighed(S),
         \A d, e \in S : Aged(d) = Aged(e) => d = e,
         \A e \in S : Aged(e).weight = e.weight
  PROVE  WeightOf(Older(S)) = WeightOf(S)
  <1> DEFINE Bad == {s \in SUBSET S : WeightOf(Older(s)) # WeightOf(s)}
  <1>1. SUFFICES ASSUME Bad # {} PROVE FALSE
    OBVIOUS
  <1>2. PICK T \in Bad : \A u \in SUBSET T : u # T => u \notin Bad
    <2> HIDE DEF Bad
    <2>1. Bad \subseteq SUBSET S
      BY DEF Bad
    <2>2. QED
      BY <1>1, <2>1, SmallestFailure
  <1>3. T \in SUBSET S /\ WeightOf(Older(T)) # WeightOf(T) /\ IsFiniteSet(T)
    BY FS_Subset
  <1>4. CASE T = {}
    <2>1. Older(T) = T
      BY <1>4 DEF Older
    <2> QED BY <1>3, <2>1
  <1>5. CASE T # {}
    <2>1. PICK x : x \in T
      BY <1>5
    <2> DEFINE U == T \ {x}
    <2>2. U \in SUBSET T /\ U # T /\ U \in SUBSET S
      BY <1>3, <2>1
    <2>3. WeightOf(Older(U)) = WeightOf(U)
      BY <1>2, <2>2
    <2>4. WeightOf(T) = x.weight + WeightOf(U)
      <3>1. Weighed(T)
        BY <1>3 DEF Weighed
      <3> QED BY <1>3, <2>1, <3>1, WeightOfRemove
    <2>5. Aged(x) \in Older(T) /\ Older(T) \ {Aged(x)} = Older(U)
      BY <1>3, <2>1 DEF Older
    <2>6. IsFiniteSet(Older(T))
      <3> DEFINE f == [e \in T |-> Aged(e)]
      <3>1. f \in Surjection(T, Older(T))
        BY DEF Surjection, Older
      <3> QED BY <1>3, <3>1, FS_Surjection
    <2>7. Weighed(Older(T))
      BY <1>3 DEF Older, Weighed
    <2>8. WeightOf(Older(T)) = Aged(x).weight + WeightOf(Older(U))
      BY <2>5, <2>6, <2>7, WeightOfRemove
    <2>9. Aged(x).weight = x.weight
      BY <1>3, <2>1
    <2> QED BY <1>3, <2>3, <2>4, <2>8, <2>9
  <1> QED BY <1>4, <1>5

\* What a sorted set holds.
Member == [id : Ids, age : Nat, weight : Nat]

\* A member grows older and stays itself.
LEMMA AgedMember ==
  ASSUME NEW e \in Member
  PROVE  /\ Aged(e) \in Member /\ Aged(e).id = e.id /\ Aged(e).weight = e.weight
         /\ Aged(e).age = IF e.age < OldestAge THEN e.age + 1 ELSE OldestAge
  BY RedisAssumption DEF Aged, Member

\* So does a set of them.
LEMMA OlderMembers ==
  ASSUME NEW S, S \in SUBSET Member, IsFiniteSet(S)
  PROVE  /\ Older(S) \in SUBSET Member /\ IsFiniteSet(Older(S))
         /\ Cardinality(Older(S)) <= Cardinality(S)
  <1>1. Older(S) \in SUBSET Member
    BY AgedMember DEF Older
  <1> DEFINE f == [e \in S |-> Aged(e)]
  <1>2. f \in Surjection(S, Older(S))
    BY DEF Surjection, Older
  <1> QED BY <1>1, <1>2, FS_Surjection

\* A sorted set has one member of each id.
Distinct(S) == \A d, e \in S : d.id = e.id => d = e

\* Members have weights.
LEMMA MembersWeigh == ASSUME NEW S \in SUBSET Member PROVE Weighed(S)
  BY DEF Member, Weighed

\* A total is a number.
LEMMA TotalType ==
  ASSUME NEW S \in SUBSET Member, IsFiniteSet(S), NEW counted \in BOOLEAN
  PROVE  Total(counted, S) \in Nat
  <1>1. WeightOf(S) \in Nat
    BY MembersWeigh, WeightOfRemove
  <1>2. Cardinality(S) \in Nat
    BY FS_CardinalityType
  <1> QED BY <1>1, <1>2 DEF Total

\* Fewer members have no larger total.
LEMMA TotalMonotone ==
  ASSUME NEW S \in SUBSET Member, IsFiniteSet(S), NEW U \in SUBSET S, NEW counted \in BOOLEAN
  PROVE  Total(counted, U) <= Total(counted, S)
  <1>1. WeightOf(U) <= WeightOf(S)
    BY MembersWeigh, WeightOfMonotone
  <1>2. Cardinality(U) <= Cardinality(S)
    BY FS_Subset
  <1> QED BY <1>1, <1>2 DEF Total

\* Nor have older ones.
LEMMA TotalOlder ==
  ASSUME NEW S \in SUBSET Member, IsFiniteSet(S), Distinct(S), NEW counted \in BOOLEAN
  PROVE  Total(counted, Older(S)) <= Total(counted, S)
  <1>1. WeightOf(Older(S)) = WeightOf(S) /\ WeightOf(S) \in Nat
    <2>1. \A d, e \in S : Aged(d) = Aged(e) => d = e
      <3> SUFFICES ASSUME NEW d \in S, NEW e \in S, Aged(d) = Aged(e) PROVE d = e
        OBVIOUS
      <3>1. d.id = e.id
        BY AgedMember
      <3> QED BY <3>1 DEF Distinct
    <2>2. \A e \in S : Aged(e).weight = e.weight
      BY AgedMember
    <2> QED BY <2>1, <2>2, MembersWeigh, WeightOfOlder, WeightOfRemove
  <1>2. Cardinality(Older(S)) <= Cardinality(S)
    BY OlderMembers
  <1> QED BY <1>1, <1>2 DEF Total

\* What ZADD leaves: one member per id, and a total that grows by at most the new weight.
LEMMA ZAddMembers ==
  ASSUME NEW S \in SUBSET Member, IsFiniteSet(S), Distinct(S), NEW id \in Ids, NEW age \in Nat, NEW w \in Nat,
         NEW Z, Z = ZAdd(S, id, age, w)
  PROVE  /\ Z \in SUBSET Member /\ IsFiniteSet(Z) /\ Distinct(Z)
         /\ \A e \in Z : (e \in S /\ e.id # id) \/ e = [id |-> id, age |-> age, weight |-> w]
         /\ \A e \in S : e.id # id => e \in Z
         /\ [id |-> id, age |-> age, weight |-> w] \in Z
         /\ \A counted \in BOOLEAN :
              Total(counted, Z) <= Total(counted, S) + (IF counted THEN 1 ELSE w)
  <1> DEFINE new == [id |-> id, age |-> age, weight |-> w]
             R == {e \in S : e.id # id}
  <1>1. Z = R \cup {new} /\ new \in Member /\ new.id = id /\ new.weight = w
    BY DEF ZAdd, Member
  <1>2. R \in SUBSET S /\ IsFiniteSet(R) /\ new \notin R
    BY <1>1, FS_Subset
  <1>3. Z \in SUBSET Member /\ IsFiniteSet(Z) /\ Cardinality(Z) = Cardinality(R) + 1
    <2> HIDE DEF new, R
    <2>1. Z \in SUBSET Member
      BY <1>1, <1>2
    <2>2. IsFiniteSet(R \cup {new}) /\ Cardinality(R \cup {new}) = Cardinality(R) + 1
      BY <1>2, FS_AddElement
    <2> QED BY <1>1, <2>1, <2>2
  <1>4. Distinct(Z)
    BY <1>1 DEF Distinct
  <1>5. /\ Cardinality(R) <= Cardinality(S) /\ Cardinality(R) \in Nat /\ Cardinality(S) \in Nat
    BY <1>2, FS_Subset, FS_CardinalityType
  <1>6. WeightOf(Z) = new.weight + WeightOf(R)
    <2>1. Z \ {new} = R /\ new \in Z
      BY <1>1, <1>2
    <2> QED BY <1>3, <2>1, MembersWeigh, WeightOfRemove
  <1>7. WeightOf(R) <= WeightOf(S) /\ WeightOf(R) \in Nat /\ WeightOf(S) \in Nat
    BY <1>2, MembersWeigh, WeightOfMonotone, WeightOfRemove
  <1>8. ASSUME NEW counted \in BOOLEAN
        PROVE  Total(counted, Z) <= Total(counted, S) + (IF counted THEN 1 ELSE w)
    <2>1. Cardinality(Z) <= Cardinality(S) + 1
      BY <1>3, <1>5
    <2>2. WeightOf(Z) = w + WeightOf(R)
      BY <1>1, <1>6
    <2>3. WeightOf(Z) <= WeightOf(S) + w
      BY <1>7, <2>2
    <2> QED BY <2>1, <2>3 DEF Total
  <1> QED BY <1>1, <1>2, <1>3, <1>4, <1>8

\* A set of numbers that is not empty has a least one.
LEMMA LeastExists ==
  ASSUME NEW S, S \subseteq Nat, S # {}
  PROVE  \E m \in S : \A n \in S : m <= n
  <1> DEFINE R == OpToRel(<, Nat)
  <1>1. IsWellFoundedOn(R, Nat)
    BY NatLessThanWellFounded
  <1> HIDE DEF R
  <1>2. PICK m \in S : \A n \in S : ~(<<n, m>> \in R)
    BY <1>1, WFMin
  <1>3. ASSUME NEW n \in S PROVE m <= n
    <2>1. <<n, m>> \notin R
      BY <1>2
    <2>2. ~(n < m)
      BY <2>1 DEF R, OpToRel
    <2> QED BY <2>2
  <1> QED BY <1>3

-----------------------------------------------------------------------------
(* The inductive invariant of the counter in Redis.                         *)

\* How long an untouched bucket lives.
Horizon(k) == CleanupMargin * Window[k]

\* The requests a replica may have under way.
AdmitRequest == {c \in [kind : {"admit"}, batch : Batches, id : Ids, age : Nat] : checkBuckets(c.batch)}
IncrementRequest == [kind : {"increment"}, batch : {<<h>> : h \in Histories}, id : Ids, age : Nat]

\* S is within a limit of its bucket.
Bounded(b, S) == \E q \in Buckets : q.key = b.key /\ q.counted = b.counted /\ Total(b.counted, S) <= q.limit

\* The types of the store and of the requests under way.
RedisTypes ==
  /\ zset \in [Keys -> SUBSET Member] /\ granted \in [Keys -> SUBSET Member] /\ ttl \in [Keys -> Nat]
  /\ \A k \in Keys : IsFiniteSet(zset[k]) /\ Distinct(zset[k])
  /\ call \in [Replicas -> {Idle} \cup AdmitRequest \cup IncrementRequest]

\* The member of a call in flight is that call's: nobody else uses its id, no caller saw it
\* granted, and what an earlier delivery left of it has the call's own score.
MembersAreTheirCalls ==
  \A i \in Replicas : call[i] # Idle =>
    /\ \A k \in Keys : \A e \in granted[k] : e.id # call[i].id
    /\ \A k \in Keys : \A e \in zset[k] : e.id = call[i].id => e.age = call[i].age
    /\ \A j \in Replicas : j # i /\ call[j] # Idle => call[j].id # call[i].id

\* A quota bucket keeps every granted call of the window.
GrantedIsStored ==
  \A b \in Buckets : \A e \in granted[b.key] : e.age < Window[b.key] => e \in zset[b.key]

\* A history, which is trimmed, keeps one at least as new.
HistoryIsCovered ==
  \A h \in Histories : \A e \in granted[h.key] :
    e.age < Window[h.key] => \E d \in zset[h.key] : d.age <= e.age

\* Redis expires a key no earlier than its newest member has left the horizon.
ExpiryIsLate == \A k \in Keys : \A e \in zset[k] : Horizon(k) <= e.age + ttl[k]

\* All of it, with the first of the two claims.
RedisIInv ==
  /\ RedisTypes /\ MembersAreTheirCalls /\ GrantedIsStored /\ HistoryIsCovered /\ ExpiryIsLate
  /\ WithinLimit

\* An untouched bucket outlives its window, and ages count past that.
LEMMA HorizonFacts ==
  ASSUME NEW k \in Keys
  PROVE  /\ Horizon(k) \in Nat /\ Window[k] \in Nat /\ 0 < Window[k] /\ Window[k] <= Horizon(k)
         /\ OldestAge \in Nat /\ Horizon(k) <= OldestAge
         /\ \A S : Expiry(k, S) = IF S = {} THEN 0 ELSE Horizon(k)
  <1>1. Window[k] \in Nat /\ 0 < Window[k] /\ CleanupMargin \in Nat /\ 1 <= CleanupMargin
    BY BucketAssumption
  <1>2. Horizon(k) \in Nat /\ Window[k] <= Horizon(k)
    <2> DEFINE w == Window[k]
    <2>1. w \in Nat /\ CleanupMargin \in Nat /\ 1 <= CleanupMargin
      BY <1>1
    <2> HIDE DEF w
    <2>2. CleanupMargin * w \in Nat /\ w <= CleanupMargin * w
      BY <2>1
    <2> QED BY <2>2 DEF w, Horizon
  <1>3. OldestAge \in Nat /\ MaxSkew \in Nat /\ Horizon(k) + MaxSkew <= OldestAge
    BY RedisAssumption DEF Horizon
  <1> QED BY <1>1, <1>2, <1>3 DEF Expiry, Horizon

\* What the requests carry.
LEMMA BucketsOfRequests ==
  ASSUME NEW c \in AdmitRequest
  PROVE  /\ \A n \in DOMAIN c.batch : c.batch[n] \in QuotaBucket /\ c.batch[n] \in Buckets
         /\ KeysOf(c.batch) \subseteq Keys
         /\ c.id \in Ids /\ c.age \in Nat /\ c.kind = "admit"
  <1>1. c.batch \in Batches /\ c.batch \in Seq(QuotaBucket) /\ c.id \in Ids /\ c.age \in Nat /\ c.kind = "admit"
    BY RedisAssumption DEF AdmitRequest
  <1>2. ASSUME NEW n \in DOMAIN c.batch
        PROVE  c.batch[n] \in QuotaBucket /\ c.batch[n] \in Buckets
    BY <1>1 DEF Buckets, Range
  <1> QED BY <1>1, <1>2 DEF KeysOf, QuotaBucket

\* The same for a history.
LEMMA HistoryOfRequests ==
  ASSUME NEW c \in IncrementRequest
  PROVE  /\ c.batch[1] \in Histories /\ c.batch[1].key \in Keys /\ c.batch[1].cap \in Nat /\ 0 < c.batch[1].cap
         /\ KeysOf(c.batch) = {c.batch[1].key}
         /\ c.id \in Ids /\ c.age \in Nat /\ c.kind = "increment"
  <1>1. PICK h \in Histories : c.batch = <<h>>
    BY DEF IncrementRequest
  <1>2. c.batch[1] = h /\ DOMAIN c.batch = {1}
    BY <1>1
  <1>3. h.key \in Keys /\ h.cap \in Nat /\ 0 < h.cap
    BY RedisAssumption
  <1> QED BY <1>2, <1>3 DEF KeysOf, IncrementRequest

\* Buckets are well typed.
LEMMA BucketTypes ==
  ASSUME NEW b \in Buckets
  PROVE  b \in QuotaBucket
  <1>1. PICK batch \in Batches : b \in Range(batch)
    BY DEF Buckets
  <1>2. batch \in Seq(QuotaBucket)
    BY RedisAssumption
  <1> QED BY <1>1, <1>2 DEF Range

\* A smaller total is within the same limit.
LEMMA LessIsBounded ==
  ASSUME NEW b \in Buckets, NEW S, NEW U, Bounded(b, S), Total(b.counted, U) <= Total(b.counted, S),
         Total(b.counted, S) \in Nat, Total(b.counted, U) \in Nat
  PROVE  Bounded(b, U)
  <1>1. PICK q \in Buckets : q.key = b.key /\ q.counted = b.counted /\ Total(b.counted, S) <= q.limit
    BY DEF Bounded
  <1>2. q.limit \in Nat
    BY BucketTypes DEF QuotaBucket
  <1>3. Total(b.counted, U) <= q.limit
    BY <1>1, <1>2
  <1> QED BY <1>1, <1>3 DEF Bounded

\* What S may hold once the script of c has run on a key that held old.
Updates(c, old, S) ==
  /\ S \in SUBSET Member /\ IsFiniteSet(S) /\ Distinct(S)
  /\ \A e \in S : e \in old \/ (e.id = c.id /\ e.age = c.age)

\* Pruning, on any clock, keeps what is in the window on every clock.
LEMMA PruneKeeps ==
  ASSUME NEW S \in SUBSET Member, IsFiniteSet(S), Distinct(S), NEW k \in Keys, NEW age \in Nat
  PROVE  /\ Prune(S, k, age) \in SUBSET S /\ IsFiniteSet(Prune(S, k, age)) /\ Distinct(Prune(S, k, age))
         /\ \A e \in S : e.age < Window[k] => e \in Prune(S, k, age)
  <1>1. Prune(S, k, age) \in SUBSET S
    BY DEF Prune
  <1>2. ASSUME NEW e \in S, e.age < Window[k] PROVE e \in Prune(S, k, age)
    <2>1. e.age \in Nat /\ Window[k] \in Nat
      BY HorizonFacts DEF Member
    <2> QED BY <1>2, <2>1 DEF Prune
  <1> QED BY <1>1, <1>2, FS_Subset DEF Distinct

\* One bucket of an admission for which there is room.
LEMMA RoomSuffices ==
  ASSUME NEW old \in SUBSET Member, IsFiniteSet(old), Distinct(old), NEW id \in Ids, NEW age \in Nat,
         NEW b \in QuotaBucket, Total(b.counted, old) + bucketWeight(b) <= b.limit, NEW Z,
         Z = IF Records(b) THEN ZAdd(old, id, age, bucketWeight(b)) ELSE old
  PROVE  /\ Z \in SUBSET Member /\ IsFiniteSet(Z) /\ Distinct(Z)
         /\ \A e \in Z : e \in old \/ (e.id = id /\ e.age = age)
         /\ \A e \in old : e.id # id => e \in Z
         /\ Total(b.counted, Z) <= b.limit
  <1>1. /\ b.counted \in BOOLEAN /\ b.limit \in Nat /\ bucketWeight(b) \in Nat
        /\ bucketWeight(b) = IF b.counted THEN 1 ELSE b.weight
    BY DEF QuotaBucket, bucketWeight
  <1>2. Total(b.counted, old) \in Nat
    BY <1>1, TotalType
  <1>3. CASE ~Records(b)
    BY <1>1, <1>2, <1>3 DEF Records
  <1>4. CASE Records(b)
    <2>1. Z = ZAdd(old, id, age, bucketWeight(b))
      BY <1>4
    <2>2. /\ Z \in SUBSET Member /\ IsFiniteSet(Z) /\ Distinct(Z)
          /\ \A e \in Z : (e \in old /\ e.id # id) \/ e = [id |-> id, age |-> age, weight |-> bucketWeight(b)]
          /\ \A e \in old : e.id # id => e \in Z
          /\ \A counted \in BOOLEAN :
               Total(counted, Z) <= Total(counted, old) + (IF counted THEN 1 ELSE bucketWeight(b))
      <3> DEFINE v == bucketWeight(b)
      <3>1. v \in Nat /\ Z = ZAdd(old, id, age, v)
        BY <1>1, <2>1
      <3> HIDE DEF v
      <3>2. /\ Z \in SUBSET Member /\ IsFiniteSet(Z) /\ Distinct(Z)
        BY <3>1, ZAddMembers
      <3>3. /\ \A e \in Z : (e \in old /\ e.id # id) \/ e = [id |-> id, age |-> age, weight |-> v]
          /\ \A e \in old : e.id # id => e \in Z
        BY <3>1, ZAddMembers
      <3>4. \A counted \in BOOLEAN :
               Total(counted, Z) <= Total(counted, old) + (IF counted THEN 1 ELSE v)
        BY <3>1, ZAddMembers
      <3> QED BY <3>2, <3>3, <3>4 DEF v
    <2>3. Total(b.counted, Z) <= Total(b.counted, old) + bucketWeight(b)
      BY <1>1, <2>2
    <2>4. Total(b.counted, Z) \in Nat
      BY <1>1, <2>2, TotalType
    <2> QED BY <1>1, <1>2, <2>2, <2>3, <2>4
  <1> QED BY <1>3, <1>4

\* The script of AdmitAll.
LEMMA ScriptUpdates ==
  ASSUME RedisTypes, OneAccountingPerKey, NEW c \in AdmitRequest, NEW k \in KeysOf(c.batch)
  PROVE  /\ Updates(c, zset[k], admitAllScript(c).buckets[k])
         /\ \A e \in zset[k] : e.age < Window[k] /\ e.id # c.id => e \in admitAllScript(c).buckets[k]
         /\ admitAllScript(c).reply = "admit" =>
              \A b \in Buckets : b.key = k => Bounded(b, admitAllScript(c).buckets[k])
  <1> DEFINE kept == [q \in KeysOf(c.batch) |-> Prune(zset[q], q, c.age)]
             Room(b) == Total(b.counted, kept[b.key]) + bucketWeight(b) <= b.limit
             Full(b) == /\ ~b.counted /\ Records(b) /\ MaxWeightedEntries > 0
                        /\ Cardinality(kept[b.key]) + 1 > MaxWeightedEntries
             Bucket(q) == c.batch[CHOOSE n \in DOMAIN c.batch : c.batch[n].key = q]
             Added(q) == IF Records(Bucket(q))
                         THEN ZAdd(kept[q], c.id, c.age, bucketWeight(Bucket(q))) ELSE kept[q]
             S == admitAllScript(c).buckets[k]
  <1>1. /\ \A n \in DOMAIN c.batch : c.batch[n] \in QuotaBucket /\ c.batch[n] \in Buckets
        /\ k \in Keys /\ c.id \in Ids /\ c.age \in Nat
    BY BucketsOfRequests
  <1>2. kept[k] = Prune(zset[k], k, c.age)
    OBVIOUS
  <1>3. /\ kept[k] \in SUBSET zset[k] /\ kept[k] \in SUBSET Member /\ IsFiniteSet(kept[k]) /\ Distinct(kept[k])
        /\ \A e \in zset[k] : e.age < Window[k] => e \in kept[k]
    BY <1>1, <1>2, PruneKeeps DEF RedisTypes
  <1>4. \/ admitAllScript(c).reply # "admit" /\ S = kept[k]
        \/ /\ \A n \in DOMAIN c.batch : Room(c.batch[n])
           /\ S = Added(k)
    <2>1. CASE \E n \in DOMAIN c.batch : ~Room(c.batch[n])
      BY <2>1 DEF admitAllScript
    <2>2. CASE ~(\E n \in DOMAIN c.batch : ~Room(c.batch[n])) /\ \E n \in DOMAIN c.batch : Full(c.batch[n])
      BY <2>2 DEF admitAllScript
    <2>3. CASE ~(\E n \in DOMAIN c.batch : ~Room(c.batch[n])) /\ ~\E n \in DOMAIN c.batch : Full(c.batch[n])
      BY <2>3 DEF admitAllScript
    <2> QED BY <2>1, <2>2, <2>3
  <1> HIDE DEF S
  <1>5. CASE admitAllScript(c).reply # "admit" /\ S = kept[k]
    BY <1>3, <1>5 DEF Updates, S
  <1>6. CASE (\A n \in DOMAIN c.batch : Room(c.batch[n])) /\ S = Added(k)
    <2> DEFINE b == Bucket(k)
    <2>1. \E n \in DOMAIN c.batch : c.batch[n].key = k
      BY DEF KeysOf
    <2>2. \E n \in DOMAIN c.batch : b = c.batch[n] /\ c.batch[n].key = k
      BY <2>1
    <2>3. b \in QuotaBucket /\ b \in Buckets /\ b.key = k /\ Room(b)
      BY <1>1, <1>6, <2>2
    <2>4. S = IF Records(b) THEN ZAdd(kept[k], c.id, c.age, bucketWeight(b)) ELSE kept[k]
      BY <1>6
    <2> HIDE DEF b, kept, Full, Bucket, Added
    <2>5. Total(b.counted, kept[k]) + bucketWeight(b) <= b.limit
      BY <2>3
    <2> HIDE DEF Room
    <2>6. /\ S \in SUBSET Member /\ IsFiniteSet(S) /\ Distinct(S)
          /\ \A e \in S : e \in kept[k] \/ (e.id = c.id /\ e.age = c.age)
          /\ \A e \in kept[k] : e.id # c.id => e \in S
          /\ Total(b.counted, S) <= b.limit
      BY <1>1, <1>3, <2>3, <2>4, <2>5, RoomSuffices
    <2>7. \A q \in Buckets : q.key = k => Bounded(q, S)
      BY <2>3, <2>6 DEF OneAccountingPerKey, Bounded
    <2> QED BY <1>3, <2>6, <2>7 DEF Updates, S
  <1> QED BY <1>4, <1>5, <1>6

\* The newest member of a set that is not empty.
LEMMA NewestExists ==
  ASSUME NEW S \in SUBSET Member, S # {}
  PROVE  \E m \in S : \A d \in S : ~Newer(d, m) /\ m.age <= d.age
  <1> DEFINE ages == {e.age : e \in S}
  <1>1. ages \subseteq Nat /\ ages # {}
    BY DEF Member
  <1>2. PICK a \in ages : \A n \in ages : a <= n
    <2> HIDE DEF ages
    <2> QED BY <1>1, LeastExists
  <1> DEFINE T == {e \in S : e.age = a}
             gaps == {MaxMembers - e.id : e \in T}
  <1>3. T # {} /\ \A e \in S : a <= e.age
    BY <1>2
  <1>4. \A e \in S : e.id \in Nat /\ e.id <= MaxMembers /\ e.age \in Nat
    BY RedisAssumption DEF Member, Ids
  <1>5. gaps \subseteq Nat /\ gaps # {}
    BY <1>3, <1>4, RedisAssumption
  <1>6. PICK g \in gaps : \A n \in gaps : g <= n
    <2> HIDE DEF gaps
    <2> QED BY <1>5, LeastExists
  <1>7. PICK m \in T : g = MaxMembers - m.id
    BY <1>6
  <1>8. ASSUME NEW d \in S PROVE ~Newer(d, m) /\ m.age <= d.age
    <2>1. m.age = a /\ a <= d.age /\ a \in Nat /\ d.age \in Nat /\ m \in S
      BY <1>3, <1>4, <1>7
    <2>2. ASSUME d.age = a PROVE d.id <= m.id
      <3>1. g <= MaxMembers - d.id
        BY <1>6, <2>2
      <3> QED BY <1>4, <1>7, <2>1, <3>1, RedisAssumption
    <2>3. d.id \in Nat /\ m.id \in Nat
      BY <1>4, <2>1
    <2> QED BY <2>1, <2>2, <2>3 DEF Newer
  <1> QED BY <1>7, <1>8

\* The pipeline of IncrementAndGet keeps a member at least as new as any it had.
LEMMA PipeUpdates ==
  ASSUME RedisTypes, NEW c \in IncrementRequest, NEW k, k = c.batch[1].key,
         \A e \in zset[k] : e.id = c.id => e.age = c.age
  PROVE  /\ Updates(c, zset[k], incrementPipe(c)[k])
         /\ \E d \in incrementPipe(c)[k] :
              d.age <= c.age /\ \A e \in zset[k] : e.age < Window[k] => d.age <= e.age
  <1> DEFINE old == zset[k]
             cap == c.batch[1].cap
             ident == c.id
             score == c.age
             kept == Prune(old, k, score)
             added == ZAdd(kept, ident, score, 1)
             new == [id |-> ident, age |-> score, weight |-> 1]
             S == {e \in added : Cardinality({d \in added : Newer(d, e)}) < cap}
  <1>1. k \in Keys /\ cap \in Nat /\ 0 < cap /\ ident \in Ids /\ score \in Nat
    BY HistoryOfRequests
  <1>2. incrementPipe(c)[k] = S
    BY DEF incrementPipe
  <1>3. /\ old \in SUBSET Member /\ IsFiniteSet(old) /\ Distinct(old)
        /\ \A e \in old : e.id = ident => e.age = score
    BY <1>1 DEF RedisTypes
  <1> HIDE DEF old, cap, ident, score
  <1>4. /\ kept \in SUBSET old /\ IsFiniteSet(kept) /\ Distinct(kept)
        /\ \A e \in old : e.age < Window[k] => e \in kept
    BY <1>1, <1>3, PruneKeeps
  <1> HIDE DEF kept
  <1>5. kept \in SUBSET Member
    BY <1>3, <1>4
  <1>6. /\ added \in SUBSET Member /\ IsFiniteSet(added) /\ Distinct(added)
        /\ \A e \in added : (e \in kept /\ e.id # ident) \/ e = new
        /\ \A e \in kept : e.id # ident => e \in added
        /\ new \in added
    BY <1>1, <1>4, <1>5, ZAddMembers
  <1> HIDE DEF added
  <1>7. PICK m \in added : \A d \in added : ~Newer(d, m) /\ m.age <= d.age
    BY <1>6, NewestExists
  <1>8. m \in S
    <2>1. {d \in added : Newer(d, m)} = {}
      BY <1>7
    <2>2. Cardinality({d \in added : Newer(d, m)}) = 0
      BY <2>1, FS_EmptySet
    <2> QED BY <1>1, <2>2
  <1>9. m.age <= score
    BY <1>6, <1>7
  <1>10. ASSUME NEW e \in old, e.age < Window[k] PROVE m.age <= e.age
    <2>1. e \in kept
      BY <1>4, <1>10
    <2>2. CASE e.id # ident
      BY <1>6, <1>7, <2>1, <2>2
    <2>3. CASE e.id = ident
      BY <1>3, <1>9, <2>3
    <2> QED BY <2>2, <2>3
  <1>11. S \in SUBSET Member /\ IsFiniteSet(S) /\ Distinct(S)
    <2>1. S \in SUBSET added
      OBVIOUS
    <2> HIDE DEF S
    <2> QED BY <1>6, <2>1, FS_Subset DEF Distinct
  <1>12. \A e \in S : e \in old \/ (e.id = ident /\ e.age = score)
    BY <1>4, <1>6
  <1> HIDE DEF S
  <1>13. Updates(c, zset[k], S)
    BY <1>11, <1>12 DEF Updates, old, ident, score
  <1>14. \E d \in S : d.age <= c.age /\ \A e \in zset[k] : e.age < Window[k] => d.age <= e.age
    BY <1>8, <1>9, <1>10 DEF old, score
  <1> QED BY <1>2, <1>13, <1>14

\* Storing what a request leaves: the types of the store, whose members come from where,
\* and the expiry.
LEMMA StoreKeeps ==
  ASSUME RedisTypes, ExpiryIsLate, NEW c, NEW S, Store(c.batch, S), KeysOf(c.batch) \subseteq Keys,
         c.age \in Nat, \A k \in KeysOf(c.batch) : Updates(c, zset[k], S[k])
  PROVE  /\ zset' \in [Keys -> SUBSET Member] /\ ttl' \in [Keys -> Nat]
         /\ \A k \in Keys : IsFiniteSet(zset'[k]) /\ Distinct(zset'[k])
         /\ \A k \in Keys : \A e \in zset'[k] : e \in zset[k] \/ (e.id = c.id /\ e.age = c.age)
         /\ \A k \in KeysOf(c.batch) : zset'[k] = S[k]
         /\ \A k \in Keys : k \notin KeysOf(c.batch) => zset'[k] = zset[k]
         /\ ExpiryIsLate'
  <1>1. /\ zset' = [k \in Keys |-> IF k \in KeysOf(c.batch) THEN S[k] ELSE zset[k]]
        /\ ttl' = [k \in Keys |-> IF k \in KeysOf(c.batch) THEN Expiry(k, S[k]) ELSE ttl[k]]
    BY DEF Store
  <1>2. /\ \A k \in KeysOf(c.batch) : zset'[k] = S[k] /\ ttl'[k] = Expiry(k, S[k])
        /\ \A k \in Keys : k \notin KeysOf(c.batch) => zset'[k] = zset[k] /\ ttl'[k] = ttl[k]
    BY <1>1
  <1>3. ASSUME NEW k \in Keys
        PROVE  /\ zset'[k] \in SUBSET Member /\ IsFiniteSet(zset'[k]) /\ Distinct(zset'[k])
               /\ ttl'[k] \in Nat
               /\ \A e \in zset'[k] : e \in zset[k] \/ (e.id = c.id /\ e.age = c.age)
               /\ \A e \in zset'[k] : Horizon(k) <= e.age + ttl'[k]
    <2>1. CASE k \notin KeysOf(c.batch)
      BY <1>2, <2>1 DEF RedisTypes, ExpiryIsLate
    <2>2. CASE k \in KeysOf(c.batch)
      <3>1. zset'[k] = S[k] /\ Updates(c, zset[k], S[k])
        BY <1>2, <2>2
      <3>2. ttl'[k] = (IF zset'[k] = {} THEN 0 ELSE Horizon(k)) /\ Horizon(k) \in Nat
        BY <1>2, <2>2, <3>1, HorizonFacts
      <3>3. \A e \in zset'[k] : Horizon(k) <= e.age + ttl'[k]
        BY <3>1, <3>2 DEF Updates, Member
      <3> QED BY <3>1, <3>2, <3>3 DEF Updates
    <2> QED BY <2>1, <2>2
  <1>4. zset' \in [Keys -> SUBSET Member] /\ ttl' \in [Keys -> Nat]
    BY <1>1, <1>3
  <1>5. ExpiryIsLate'
    BY <1>3 DEF ExpiryIsLate, Horizon
  <1> QED BY <1>2, <1>3, <1>4, <1>5

-----------------------------------------------------------------------------
(* The steps.                                                               *)

\* Empty buckets satisfy the invariant.
LEMMA RedisInit == Init => RedisIInv
  <1> SUFFICES ASSUME Init PROVE RedisIInv
    OBVIOUS
  <1>1. \A k \in Keys : zset[k] = {} /\ granted[k] = {}
    BY DEF Init
  <1>2. \A i \in Replicas : call[i] = Idle
    BY DEF Init
  <1>3. RedisTypes
    BY FS_EmptySet DEF Init, RedisTypes, Distinct
  <1>4. WithinLimit
    <2> SUFFICES ASSUME NEW b \in Buckets
                 PROVE  Total(b.counted, {e \in granted[b.key] : e.age < Window[b.key]}) <= b.limit
      BY DEF WithinLimit
    <2>1. b.key \in Keys /\ b.limit \in Nat
      BY BucketTypes DEF QuotaBucket
    <2>2. {e \in granted[b.key] : e.age < Window[b.key]} = {}
      BY <1>1, <2>1
    <2>3. Total(b.counted, {}) = 0
      BY FS_EmptySet, WeightOfUnfolds DEF Total
    <2> QED BY <2>1, <2>2, <2>3
  <1>5. GrantedIsStored /\ HistoryIsCovered
    <2>1. \A b \in Buckets : b.key \in Keys
      BY BucketTypes DEF QuotaBucket
    <2>2. \A h \in Histories : h.key \in Keys
      BY RedisAssumption
    <2> QED BY <1>1, <2>1, <2>2 DEF GrantedIsStored, HistoryIsCovered
  <1> QED BY <1>1, <1>2, <1>3, <1>4, <1>5 DEF RedisIInv, MembersAreTheirCalls, ExpiryIsLate

\* A new member is in use nowhere.
LEMMA NewMemberIsNew ==
  ASSUME Ids \ Used # {}
  PROVE  /\ newMember \in Ids
         /\ \A k \in Keys : \A e \in zset[k] \cup granted[k] : e.id # newMember
         /\ \A j \in Replicas : call[j] # Idle => call[j].id # newMember
  <1> DEFINE free == Ids \ Used
  <1>1. free \subseteq Nat /\ free # {}
    BY RedisAssumption DEF Ids
  <1>2. newMember = CHOOSE m \in free : \A n \in free : m <= n
    BY DEF newMember, Min
  <1> HIDE DEF free
  <1>3. newMember \in free
    BY <1>1, <1>2, LeastExists
  <1>4. newMember \in Ids /\ newMember \notin Used
    BY <1>3 DEF free
  <1>5. ASSUME NEW k \in Keys, NEW e \in zset[k] \cup granted[k] PROVE e.id \in Used
    <2>1. e.id \in {d.id : d \in zset[k] \cup granted[k]}
      OBVIOUS
    <2>2. {d.id : d \in zset[k] \cup granted[k]} \in {{d.id : d \in zset[q] \cup granted[q]} : q \in Keys}
      OBVIOUS
    <2> QED BY <2>1, <2>2 DEF Used
  <1>6. ASSUME NEW j \in Replicas, call[j] # Idle PROVE call[j].id \in Used
    BY <1>6 DEF Used
  <1> QED BY <1>4, <1>5, <1>6

\* What only the store and its history decide.
LEMMA StoreUntouched ==
  ASSUME RedisIInv, UNCHANGED <<zset, ttl, granted>>
  PROVE  GrantedIsStored' /\ HistoryIsCovered' /\ ExpiryIsLate' /\ WithinLimit'
  <1>1. GrantedIsStored'
    BY DEF RedisIInv, GrantedIsStored
  <1>2. HistoryIsCovered'
    BY DEF RedisIInv, HistoryIsCovered
  <1>3. ExpiryIsLate'
    BY DEF RedisIInv, ExpiryIsLate
  <1>4. WithinLimit'
    BY DEF RedisIInv, WithinLimit
  <1> QED BY <1>1, <1>2, <1>3, <1>4

\* Sending a request takes a new member.
LEMMA SendKeeps ==
  ASSUME RedisIInv, NEW i \in Replicas, call[i] = Idle, Ids \ Used # {},
         NEW c, c \in AdmitRequest \/ c \in IncrementRequest, c.id = newMember, c # Idle,
         call' = [call EXCEPT ![i] = c], UNCHANGED <<zset, ttl, granted>>
  PROVE  RedisIInv'
  <1>1. call' \in [Replicas -> {Idle} \cup AdmitRequest \cup IncrementRequest]
    BY DEF RedisIInv, RedisTypes
  <1>2. RedisTypes'
    BY <1>1 DEF RedisIInv, RedisTypes, AdmitRequest, IncrementRequest
  <1>3. call'[i] = c /\ \A j \in Replicas : j # i => call'[j] = call[j]
    BY DEF RedisIInv, RedisTypes
  <1>4. MembersAreTheirCalls'
    <2> SUFFICES ASSUME NEW j \in Replicas, call'[j] # Idle
                 PROVE  /\ \A k \in Keys : \A e \in granted[k] : e.id # call'[j].id
                        /\ \A k \in Keys : \A e \in zset[k] : e.id = call'[j].id => e.age = call'[j].age
                        /\ \A l \in Replicas : l # j /\ call'[l] # Idle => call'[l].id # call'[j].id
      BY DEF MembersAreTheirCalls, Idle
    <2>1. CASE j = i
      BY <1>3, <2>1, NewMemberIsNew
    <2>2. CASE j # i
      <3>1. /\ \A k \in Keys : \A e \in granted[k] : e.id # call[j].id
            /\ \A k \in Keys : \A e \in zset[k] : e.id = call[j].id => e.age = call[j].age
            /\ \A l \in Replicas : l # j /\ call[l] # Idle => call[l].id # call[j].id
        BY <1>3, <2>2 DEF RedisIInv, MembersAreTheirCalls
      <3>2. call[j].id # c.id
        BY <1>3, <2>2, NewMemberIsNew
      <3> QED BY <1>3, <2>2, <3>1, <3>2
    <2> QED BY <2>1, <2>2
  <1> QED BY <1>2, <1>4, StoreUntouched DEF RedisIInv

\* Sending AdmitAll.
LEMMA SendAdmitAllKeeps ==
  ASSUME RedisIInv, NEW i \in Replicas, NEW batch \in Batches, SendAdmitAll(i, batch)
  PROVE  RedisIInv'
  <1> DEFINE c == [kind |-> "admit", batch |-> batch, id |-> newMember, age |-> Skew[i]]
  <1>1. newMember \in Ids /\ Skew[i] \in Nat
    BY NewMemberIsNew, RedisAssumption DEF SendAdmitAll
  <1>2. c \in AdmitRequest /\ c.id = newMember /\ c.kind = "admit"
    BY <1>1 DEF AdmitRequest, SendAdmitAll
  <1>3. c # Idle
    BY <1>2 DEF Idle
  <1>4. call[i] = Idle /\ Ids \ Used # {} /\ call' = [call EXCEPT ![i] = c] /\ UNCHANGED <<zset, ttl, granted>>
    BY DEF SendAdmitAll
  <1> HIDE DEF c
  <1> QED BY <1>2, <1>3, <1>4, SendKeeps

\* Sending IncrementAndGet.
LEMMA SendIncrementKeeps ==
  ASSUME RedisIInv, NEW i \in Replicas, NEW h \in Histories, SendIncrement(i, h)
  PROVE  RedisIInv'
  <1> DEFINE c == [kind |-> "increment", batch |-> <<h>>, id |-> newMember, age |-> Skew[i]]
  <1>1. newMember \in Ids /\ Skew[i] \in Nat
    BY NewMemberIsNew, RedisAssumption DEF SendIncrement
  <1>2. c \in IncrementRequest /\ c.id = newMember /\ c.kind = "increment"
    BY <1>1 DEF IncrementRequest
  <1>3. c # Idle
    BY <1>2 DEF Idle
  <1>4. call[i] = Idle /\ Ids \ Used # {} /\ call' = [call EXCEPT ![i] = c] /\ UNCHANGED <<zset, ttl, granted>>
    BY DEF SendIncrement
  <1> HIDE DEF c
  <1> QED BY <1>2, <1>3, <1>4, SendKeeps

\* Giving up leaves the store as it is.
LEMMA GiveUpKeeps ==
  ASSUME RedisIInv, NEW i \in Replicas, GiveUp(i)
  PROVE  RedisIInv'
  <1>1. call' = [call EXCEPT ![i] = Idle] /\ UNCHANGED <<zset, ttl, granted>>
    BY DEF GiveUp
  <1>2. /\ call' \in [Replicas -> {Idle} \cup AdmitRequest \cup IncrementRequest]
        /\ call'[i] = Idle /\ \A j \in Replicas : j # i => call'[j] = call[j]
    BY <1>1 DEF RedisIInv, RedisTypes
  <1>3. RedisTypes'
    BY <1>1, <1>2 DEF RedisIInv, RedisTypes, AdmitRequest, IncrementRequest
  <1>4. MembersAreTheirCalls'
    BY <1>1, <1>2 DEF RedisIInv, MembersAreTheirCalls, Idle
  <1> QED BY <1>1, <1>3, <1>4, StoreUntouched DEF RedisIInv

\* A request runs in Redis, whether or not its reply arrives.
LEMMA RunKeeps ==
  ASSUME RedisIInv, NEW i \in Replicas, NEW c, c = call[i], c # Idle, NEW S, Store(c.batch, S),
         KeysOf(c.batch) \subseteq Keys, c.age \in Nat,
         \A k \in KeysOf(c.batch) : Updates(c, zset[k], S[k]),
         call' = call \/ call' = [call EXCEPT ![i] = Idle], granted' \in [Keys -> SUBSET Member],
         \A k \in Keys : \A e \in granted'[k] : e \in granted[k] \/ (e.id = c.id /\ call'[i] = Idle)
  PROVE  RedisTypes' /\ MembersAreTheirCalls' /\ ExpiryIsLate'
  <1>1. /\ zset' \in [Keys -> SUBSET Member] /\ ttl' \in [Keys -> Nat]
        /\ \A k \in Keys : IsFiniteSet(zset'[k]) /\ Distinct(zset'[k])
        /\ \A k \in Keys : \A e \in zset'[k] : e \in zset[k] \/ (e.id = c.id /\ e.age = c.age)
        /\ ExpiryIsLate'
    BY StoreKeeps DEF RedisIInv
  <1>2. /\ call' \in [Replicas -> {Idle} \cup AdmitRequest \cup IncrementRequest]
        /\ \A j \in Replicas : call'[j] # Idle => call'[j] = call[j]
    BY DEF RedisIInv, RedisTypes
  <1>3. RedisTypes'
    BY <1>1, <1>2 DEF RedisTypes, Distinct, AdmitRequest, IncrementRequest
  <1>4. MembersAreTheirCalls'
    <2> SUFFICES ASSUME NEW j \in Replicas, call'[j] # Idle
                 PROVE  /\ \A k \in Keys : \A e \in granted'[k] : e.id # call'[j].id
                        /\ \A k \in Keys : \A e \in zset'[k] : e.id = call'[j].id => e.age = call'[j].age
                        /\ \A l \in Replicas : l # j /\ call'[l] # Idle => call'[l].id # call'[j].id
      BY DEF MembersAreTheirCalls, Idle
    <2>1. call'[j] = call[j] /\ call[j] # Idle
      BY <1>2
    <2>2. /\ \A k \in Keys : \A e \in granted[k] : e.id # call[j].id
          /\ \A k \in Keys : \A e \in zset[k] : e.id = call[j].id => e.age = call[j].age
          /\ \A l \in Replicas : l # j /\ call[l] # Idle => call[l].id # call[j].id
      BY <2>1 DEF RedisIInv, MembersAreTheirCalls
    <2>3. j # i => call[j].id # c.id
      BY <2>2
    <2>4. ASSUME NEW k \in Keys, NEW e \in granted'[k] PROVE e.id # call[j].id
      BY <2>1, <2>2, <2>3
    <2>5. ASSUME NEW k \in Keys, NEW e \in zset'[k], e.id = call[j].id PROVE e.age = call[j].age
      BY <1>1, <2>2, <2>3, <2>5
    <2>6. \A l \in Replicas : l # j /\ call'[l] # Idle => call'[l].id # call[j].id
      BY <1>2, <2>2
    <2> QED BY <2>1, <2>4, <2>5, <2>6
  <1> QED BY <1>1, <1>3, <1>4

\* AdmitAll runs: what it grants has room, and no other grant is lost.
LEMMA AdmitRuns ==
  ASSUME RedisIInv, OneAccountingPerKey, NEW i \in Replicas, NEW c, c = call[i], c.kind = "admit",
         Store(c.batch, admitAllScript(c).buckets),
         call' = call \/ call' = [call EXCEPT ![i] = Idle], granted' = [k \in Keys |-> granted'[k]],
         \A k \in Keys : \/ granted'[k] = granted[k]
                         \/ /\ admitAllScript(c).reply = "admit" /\ k \in KeysOf(c.batch) /\ call'[i] = Idle
                            /\ granted'[k] = granted[k] \cup {e \in zset'[k] : e.id = c.id}
  PROVE  RedisIInv'
  <1> DEFINE S == admitAllScript(c).buckets
             admitted == admitAllScript(c).reply = "admit"
  <1>1. c \in AdmitRequest /\ c # Idle
    BY DEF RedisIInv, RedisTypes, IncrementRequest, Idle
  <1>2. KeysOf(c.batch) \subseteq Keys /\ c.age \in Nat /\ \A n \in DOMAIN c.batch : c.batch[n] \in Buckets
    BY <1>1, BucketsOfRequests
  <1>3. /\ \A k \in KeysOf(c.batch) : Updates(c, zset[k], S[k])
        /\ \A k \in KeysOf(c.batch) : \A e \in zset[k] : e.age < Window[k] /\ e.id # c.id => e \in S[k]
        /\ admitted => \A k \in KeysOf(c.batch) : \A b \in Buckets : b.key = k => Bounded(b, S[k])
    BY <1>1, ScriptUpdates DEF RedisIInv
  <1>4. Store(c.batch, S)
    OBVIOUS
  <1> HIDE DEF S, admitted
  <1>5. /\ zset' \in [Keys -> SUBSET Member]
        /\ \A k \in Keys : IsFiniteSet(zset'[k])
        /\ \A k \in KeysOf(c.batch) : zset'[k] = S[k]
        /\ \A k \in Keys : k \notin KeysOf(c.batch) => zset'[k] = zset[k]
    BY <1>2, <1>3, <1>4, StoreKeeps DEF RedisIInv
  <1>6. granted' \in [Keys -> SUBSET Member]
    <2>1. ASSUME NEW k \in Keys PROVE granted'[k] \in SUBSET Member
      BY <1>5 DEF RedisIInv, RedisTypes
    <2> QED BY <2>1
  <1>7. \A k \in Keys : \A e \in granted'[k] : e \in granted[k] \/ (e.id = c.id /\ call'[i] = Idle)
    OBVIOUS
  <1>8. RedisTypes' /\ MembersAreTheirCalls' /\ ExpiryIsLate'
    BY <1>1, <1>2, <1>3, <1>4, <1>6, <1>7, RunKeeps
  <1>9. ASSUME NEW b \in Buckets, NEW e \in granted'[b.key], e.age < Window[b.key]
        PROVE  e \in zset'[b.key]
    <2>1. b.key \in Keys
      BY BucketTypes DEF QuotaBucket
    <2>2. CASE e \in granted[b.key]
      <3>1. e \in zset[b.key] /\ e.id # c.id
        BY <1>1, <1>9, <2>1, <2>2 DEF RedisIInv, GrantedIsStored, MembersAreTheirCalls
      <3> QED BY <1>3, <1>5, <1>9, <2>1, <3>1
    <2>3. CASE e \notin granted[b.key]
      BY <2>1, <2>3
    <2> QED BY <2>2, <2>3
  <1>10. GrantedIsStored'
    BY <1>9 DEF GrantedIsStored
  <1>11. ASSUME NEW b \in Buckets
         PROVE  Bounded(b, {e \in granted'[b.key] : e.age < Window[b.key]})
    <2>1. b.key \in Keys /\ b.counted \in BOOLEAN /\ b.limit \in Nat
      BY BucketTypes DEF QuotaBucket
    <2>2. CASE granted'[b.key] = granted[b.key]
      BY <2>2 DEF RedisIInv, WithinLimit, Bounded
    <2>3. CASE granted'[b.key] # granted[b.key]
      <3> DEFINE held == zset'[b.key]
                 inside == {e \in granted'[b.key] : e.age < Window[b.key]}
      <3>1. inside \in SUBSET held /\ held \in SUBSET Member /\ IsFiniteSet(held)
        BY <1>5, <1>9, <2>1
      <3>2. Bounded(b, held)
        BY <1>3, <1>5, <2>1, <2>3 DEF admitted
      <3> HIDE DEF held, inside
      <3>3. Total(b.counted, inside) <= Total(b.counted, held)
        BY <2>1, <3>1, TotalMonotone
      <3>4. Total(b.counted, inside) \in Nat /\ Total(b.counted, held) \in Nat
        <4>1. inside \in SUBSET Member /\ IsFiniteSet(inside)
          BY <3>1, FS_Subset
        <4> QED BY <2>1, <3>1, <4>1, TotalType
      <3>5. Bounded(b, inside)
        BY <3>2, <3>3, <3>4, LessIsBounded
      <3> QED BY <3>5 DEF inside
    <2> QED BY <2>2, <2>3
  <1>12. WithinLimit'
    BY <1>11 DEF WithinLimit, Bounded
  <1>13. HistoryIsCovered'
    <2> SUFFICES ASSUME NEW h \in Histories, NEW e \in granted'[h.key], e.age < Window[h.key]
                 PROVE  \E d \in zset'[h.key] : d.age <= e.age
      BY DEF HistoryIsCovered
    <2>1. h.key \in Keys /\ h.key \notin KeysOf(c.batch)
      BY <1>2, RedisAssumption DEF OneAccountingPerKey, KeysOf
    <2>2. zset'[h.key] = zset[h.key] /\ granted'[h.key] = granted[h.key]
      BY <1>5, <2>1
    <2> QED BY <2>2 DEF RedisIInv, HistoryIsCovered
  <1> QED BY <1>8, <1>10, <1>12, <1>13 DEF RedisIInv

\* IncrementAndGet runs: its trim keeps the newest call.
LEMMA IncrementRuns ==
  ASSUME RedisIInv, OneAccountingPerKey, NEW i \in Replicas, NEW c, c = call[i], c.kind = "increment",
         Store(c.batch, incrementPipe(c)),
         call' = call \/ call' = [call EXCEPT ![i] = Idle], granted' = [k \in Keys |-> granted'[k]],
         \A k \in Keys : \/ granted'[k] = granted[k]
                         \/ /\ k = c.batch[1].key /\ call'[i] = Idle
                            /\ granted'[k] = {e \in granted[k] : e.id # c.id}
                                             \cup {[id |-> c.id, age |-> c.age, weight |-> 1]}
  PROVE  RedisIInv'
  <1> DEFINE key == c.batch[1].key
             S == incrementPipe(c)
             new == [id |-> c.id, age |-> c.age, weight |-> 1]
  <1>1. c \in IncrementRequest /\ c # Idle
    BY DEF RedisIInv, RedisTypes, AdmitRequest, Idle
  <1>2. key \in Keys /\ KeysOf(c.batch) = {key} /\ c.age \in Nat /\ c.id \in Ids /\ c.batch[1] \in Histories
    BY <1>1, HistoryOfRequests
  <1>3. /\ Updates(c, zset[key], S[key])
        /\ \E d \in S[key] : d.age <= c.age /\ \A e \in zset[key] : e.age < Window[key] => d.age <= e.age
    <2>1. \A e \in zset[key] : e.id = c.id => e.age = c.age
      BY <1>1, <1>2 DEF RedisIInv, MembersAreTheirCalls
    <2> QED BY <1>1, <2>1, PipeUpdates DEF RedisIInv
  <1>4. Store(c.batch, S) /\ \A k \in KeysOf(c.batch) : Updates(c, zset[k], S[k])
    BY <1>2, <1>3
  <1> HIDE DEF S
  <1>5. /\ zset' \in [Keys -> SUBSET Member]
        /\ zset'[key] = S[key]
        /\ \A k \in Keys : k # key => zset'[k] = zset[k]
    BY <1>2, <1>4, StoreKeeps DEF RedisIInv
  <1>6. granted' \in [Keys -> SUBSET Member]
    <2>1. new \in Member
      BY <1>2 DEF Member
    <2>2. ASSUME NEW k \in Keys PROVE granted'[k] \in SUBSET Member
      BY <2>1 DEF RedisIInv, RedisTypes
    <2> QED BY <2>2
  <1>7. \A k \in Keys : \A e \in granted'[k] : e \in granted[k] \/ (e.id = c.id /\ call'[i] = Idle)
    OBVIOUS
  <1>8. RedisTypes' /\ MembersAreTheirCalls' /\ ExpiryIsLate'
    BY <1>1, <1>2, <1>4, <1>6, <1>7, RunKeeps
  <1>9. ASSUME NEW b \in Buckets
        PROVE  b.key \in Keys /\ zset'[b.key] = zset[b.key] /\ granted'[b.key] = granted[b.key]
    <2>1. b.key \in Keys /\ b.key # key
      BY <1>2, BucketTypes DEF QuotaBucket, OneAccountingPerKey
    <2> QED BY <1>5, <2>1
  <1>10. GrantedIsStored'
    BY <1>9 DEF RedisIInv, GrantedIsStored
  <1>11. WithinLimit'
    BY <1>9 DEF RedisIInv, WithinLimit
  <1>12. HistoryIsCovered'
    <2> SUFFICES ASSUME NEW h \in Histories, NEW e \in granted'[h.key], e.age < Window[h.key]
                 PROVE  \E d \in zset'[h.key] : d.age <= e.age
      BY DEF HistoryIsCovered
    <2>1. h.key \in Keys
      BY RedisAssumption
    <2>2. CASE h.key # key
      BY <1>5, <2>1, <2>2 DEF RedisIInv, HistoryIsCovered
    <2>3. CASE h.key = key
      <3>1. PICK d \in S[key] : d.age <= c.age /\ \A f \in zset[key] : f.age < Window[key] => d.age <= f.age
        BY <1>3
      <3>2. d \in zset'[key] /\ d.age \in Nat
        BY <1>2, <1>5, <3>1 DEF Member
      <3>3. CASE e \notin granted[key]
        <4>1. e = new
          BY <1>2, <2>3, <3>3
        <4> QED BY <2>3, <3>1, <3>2, <4>1
      <3>4. CASE e \in granted[key]
        <4>1. PICK f \in zset[key] : f.age <= e.age
          BY <2>3, <3>4 DEF RedisIInv, HistoryIsCovered
        <4>2. f.age \in Nat /\ e.age \in Nat /\ Window[key] \in Nat
          BY <1>2, <3>4, <4>1, HorizonFacts DEF RedisIInv, RedisTypes, Member
        <4>3. d.age <= f.age
          BY <2>3, <3>1, <4>1, <4>2
        <4> QED BY <2>3, <3>2, <4>1, <4>2, <4>3
      <3> QED BY <3>3, <3>4
    <2> QED BY <2>2, <2>3
  <1> QED BY <1>8, <1>10, <1>11, <1>12 DEF RedisIInv

\* A request under way grows old as its member does.
LEMMA AgedRequest ==
  ASSUME NEW c \in AdmitRequest \cup IncrementRequest
  PROVE  /\ Aged(c) \in AdmitRequest \cup IncrementRequest /\ Aged(c) # Idle /\ c # Idle
         /\ Aged(c).id = c.id /\ Aged(c).age = IF c.age < OldestAge THEN c.age + 1 ELSE OldestAge
  <1>0. OldestAge \in Nat
    BY RedisAssumption
  <1>1. CASE c \in AdmitRequest
    <2>1. /\ Aged(c) \in [kind : {"admit"}, batch : Batches, id : Ids, age : Nat] /\ Aged(c).batch = c.batch
          /\ Aged(c).id = c.id /\ Aged(c).age = IF c.age < OldestAge THEN c.age + 1 ELSE OldestAge
      BY <1>0, <1>1 DEF Aged, AdmitRequest
    <2>2. Aged(c) \in AdmitRequest
      BY <1>1, <2>1 DEF AdmitRequest
    <2> QED BY <1>1, <2>1, <2>2 DEF Idle, AdmitRequest
  <1>2. CASE c \in IncrementRequest
    BY <1>0, <1>2 DEF Aged, IncrementRequest, Idle
  <1> QED BY <1>1, <1>2

\* Growing older confuses no members.
LEMMA OlderDistinct ==
  ASSUME NEW S \in SUBSET Member, Distinct(S)
  PROVE  Distinct(Older(S))
  <1> SUFFICES ASSUME NEW d \in Older(S), NEW e \in Older(S), d.id = e.id PROVE d = e
    BY DEF Distinct
  <1>1. PICK x \in S : d = Aged(x)
    BY DEF Older
  <1>2. PICK y \in S : e = Aged(y)
    BY DEF Older
  <1>3. x.id = y.id
    BY <1>1, <1>2, AgedMember
  <1> QED BY <1>1, <1>2, <1>3 DEF Distinct

\* Time passes: what expires has left the window.
LEMMA TickKeeps ==
  ASSUME RedisIInv, Tick
  PROVE  RedisIInv'
  <1>1. /\ ttl' = [k \in Keys |-> IF ttl[k] > 0 THEN ttl[k] - 1 ELSE 0]
        /\ zset' = [k \in Keys |-> IF ttl'[k] = 0 THEN {} ELSE Older(zset[k])]
        /\ granted' = [k \in Keys |-> {e \in Older(granted[k]) : e.age < Window[k]}]
        /\ call' = [i \in Replicas |-> IF call[i] = Idle THEN Idle ELSE Aged(call[i])]
    BY DEF Tick
  <1>2. ASSUME NEW k \in Keys
        PROVE  /\ ttl[k] \in Nat /\ ttl'[k] = IF ttl[k] > 0 THEN ttl[k] - 1 ELSE 0
               /\ zset'[k] = IF ttl'[k] = 0 THEN {} ELSE Older(zset[k])
               /\ granted'[k] = {e \in Older(granted[k]) : e.age < Window[k]}
               /\ zset[k] \in SUBSET Member /\ IsFiniteSet(zset[k]) /\ Distinct(zset[k])
               /\ granted[k] \in SUBSET Member
    BY <1>1 DEF RedisIInv, RedisTypes
  <1>3. ASSUME NEW k \in Keys
        PROVE  /\ ttl'[k] \in Nat /\ zset'[k] \in SUBSET Member /\ granted'[k] \in SUBSET Member
               /\ IsFiniteSet(zset'[k]) /\ Distinct(zset'[k])
    <2>1. ttl'[k] \in Nat
      BY <1>2
    <2>2. Older(zset[k]) \in SUBSET Member /\ IsFiniteSet(Older(zset[k])) /\ Distinct(Older(zset[k]))
      BY <1>2, OlderMembers, OlderDistinct
    <2>3. granted'[k] \in SUBSET Member
      <3> SUFFICES ASSUME NEW e \in granted'[k] PROVE e \in Member
        OBVIOUS
      <3>1. e \in Older(granted[k])
        BY <1>2
      <3>2. PICK x \in granted[k] : e = Aged(x)
        BY <3>1 DEF Older
      <3>3. x \in Member
        BY <1>2
      <3> QED BY <3>2, <3>3, AgedMember
    <2>4. IsFiniteSet(zset'[k]) /\ Distinct(zset'[k]) /\ zset'[k] \in SUBSET Member
      BY <1>2, <2>2, FS_EmptySet DEF Distinct
    <2> QED BY <2>1, <2>3, <2>4
  <1>4. ASSUME NEW j \in Replicas
        PROVE  /\ call'[j] \in {Idle} \cup AdmitRequest \cup IncrementRequest
               /\ (call'[j] # Idle) <=> (call[j] # Idle)
               /\ call[j] # Idle => /\ call'[j].id = call[j].id
                                    /\ call'[j].age = IF call[j].age < OldestAge THEN call[j].age + 1 ELSE OldestAge
    <2>1. call[j] = Idle \/ call[j] \in AdmitRequest \cup IncrementRequest
      BY DEF RedisIInv, RedisTypes
    <2>2. call'[j] = IF call[j] = Idle THEN Idle ELSE Aged(call[j])
      BY <1>1
    <2> QED BY <2>1, <2>2, AgedRequest
  <1>5. RedisTypes'
    <2>1. /\ zset' \in [Keys -> SUBSET Member] /\ granted' \in [Keys -> SUBSET Member] /\ ttl' \in [Keys -> Nat]
          /\ \A k \in Keys : IsFiniteSet(zset'[k]) /\ Distinct(zset'[k])
      BY <1>1, <1>3
    <2>2. call' \in [Replicas -> {Idle} \cup AdmitRequest \cup IncrementRequest]
      BY <1>1, <1>4
    <2> QED BY <2>1, <2>2 DEF RedisTypes, Distinct, AdmitRequest, IncrementRequest
  <1>6. ASSUME NEW k \in Keys, NEW e \in granted'[k]
        PROVE  \E x \in granted[k] : e = Aged(x) /\ x.age < Window[k] /\ e.age < Window[k]
    <2>1. e \in Older(granted[k]) /\ e.age < Window[k]
      BY <1>2, <1>6
    <2>2. PICK x \in granted[k] : e = Aged(x)
      BY <2>1 DEF Older
    <2>3. x \in Member /\ x.age \in Nat
      BY <1>2 DEF Member
    <2>4. e.age = IF x.age < OldestAge THEN x.age + 1 ELSE OldestAge
      BY <2>2, <2>3, AgedMember
    <2>5. x.age < Window[k]
      BY <2>1, <2>3, <2>4, HorizonFacts
    <2> QED BY <2>1, <2>2, <2>5
  <1>7. ASSUME NEW k \in Keys, NEW e \in zset'[k]
        PROVE  \E x \in zset[k] : e = Aged(x)
    <2>1. e \in Older(zset[k])
      BY <1>2, <1>7
    <2> QED BY <2>1 DEF Older
  \* A member of the window is not expired.
  <1>8. ASSUME NEW k \in Keys, NEW x \in zset[k], Aged(x).age < Window[k]
        PROVE  Aged(x) \in zset'[k]
    <2>1. x \in Member /\ x.age \in Nat /\ ttl[k] \in Nat /\ Horizon(k) <= x.age + ttl[k]
      BY <1>2 DEF RedisIInv, ExpiryIsLate, Member
    <2>2. Aged(x).age = IF x.age < OldestAge THEN x.age + 1 ELSE OldestAge
      BY <2>1, AgedMember
    <2>3. ttl'[k] # 0
      BY <1>2, <1>8, <2>1, <2>2, HorizonFacts
    <2> QED BY <1>2, <2>3 DEF Older
  <1>9. ExpiryIsLate'
    <2> SUFFICES ASSUME NEW k \in Keys, NEW e \in zset'[k] PROVE Horizon(k) <= e.age + ttl'[k]
      BY DEF ExpiryIsLate
    <2>1. PICK x \in zset[k] : e = Aged(x)
      BY <1>7
    <2>2. x \in Member /\ x.age \in Nat /\ ttl[k] \in Nat /\ Horizon(k) <= x.age + ttl[k]
      BY <1>2 DEF RedisIInv, ExpiryIsLate, Member
    <2>3. e.age = IF x.age < OldestAge THEN x.age + 1 ELSE OldestAge
      BY <2>1, <2>2, AgedMember
    <2>4. ttl'[k] # 0 /\ ttl'[k] = IF ttl[k] > 0 THEN ttl[k] - 1 ELSE 0
      BY <1>2
    <2>5. OldestAge \in Nat /\ Horizon(k) \in Nat /\ Horizon(k) <= OldestAge
      BY HorizonFacts
    <2> QED BY <2>2, <2>3, <2>4, <2>5
  <1>10. GrantedIsStored'
    <2> SUFFICES ASSUME NEW b \in Buckets, NEW e \in granted'[b.key], e.age < Window[b.key]
                 PROVE  e \in zset'[b.key]
      BY DEF GrantedIsStored
    <2>1. b.key \in Keys
      BY BucketTypes DEF QuotaBucket
    <2>2. PICK x \in granted[b.key] : e = Aged(x) /\ x.age < Window[b.key]
      BY <1>6, <2>1
    <2>3. x \in zset[b.key]
      BY <2>2 DEF RedisIInv, GrantedIsStored
    <2> QED BY <1>8, <2>1, <2>2, <2>3
  <1>11. HistoryIsCovered'
    <2> SUFFICES ASSUME NEW h \in Histories, NEW e \in granted'[h.key], e.age < Window[h.key]
                 PROVE  \E d \in zset'[h.key] : d.age <= e.age
      BY DEF HistoryIsCovered
    <2>1. h.key \in Keys
      BY RedisAssumption
    <2>2. PICK x \in granted[h.key] : e = Aged(x) /\ x.age < Window[h.key]
      BY <1>6, <2>1
    <2>3. PICK y \in zset[h.key] : y.age <= x.age
      BY <2>2 DEF RedisIInv, HistoryIsCovered
    <2>4. x \in Member /\ y \in Member /\ x.age \in Nat /\ y.age \in Nat
      BY <1>2, <2>1 DEF Member
    <2>5. /\ e.age = IF x.age < OldestAge THEN x.age + 1 ELSE OldestAge
          /\ Aged(y).age = IF y.age < OldestAge THEN y.age + 1 ELSE OldestAge
      BY <2>2, <2>4, AgedMember
    <2>6. OldestAge \in Nat /\ Window[h.key] \in Nat
      BY <2>1, HorizonFacts
    <2>7. Aged(y).age <= e.age /\ Aged(y).age < Window[h.key]
      BY <2>3, <2>4, <2>5, <2>6
    <2> QED BY <1>8, <2>1, <2>7
  <1>12. WithinLimit'
    <2> SUFFICES ASSUME NEW b \in Buckets
                 PROVE  Bounded(b, {e \in granted'[b.key] : e.age < Window[b.key]})
      BY DEF WithinLimit, Bounded
    <2> DEFINE before == {e \in granted[b.key] : e.age < Window[b.key]}
               after == {e \in granted'[b.key] : e.age < Window[b.key]}
    <2>1. b.key \in Keys /\ b.counted \in BOOLEAN /\ b.limit \in Nat
      BY BucketTypes DEF QuotaBucket
    <2>2. before \in SUBSET zset[b.key]
      BY DEF RedisIInv, GrantedIsStored
    <2>3. before \in SUBSET Member /\ IsFiniteSet(before) /\ Distinct(before)
      <3>1. zset[b.key] \in SUBSET Member /\ IsFiniteSet(zset[b.key]) /\ Distinct(zset[b.key])
        BY <1>2, <2>1
      <3> HIDE DEF before
      <3> QED BY <2>2, <3>1, FS_Subset DEF Distinct
    <2>4. after \in SUBSET Older(before)
      BY <1>6, <2>1 DEF Older
    <2>5. Bounded(b, before)
      BY DEF RedisIInv, WithinLimit, Bounded
    <2> HIDE DEF before, after
    <2>6. Older(before) \in SUBSET Member /\ IsFiniteSet(Older(before))
      BY <2>3, OlderMembers
    <2>7. after \in SUBSET Member /\ IsFiniteSet(after)
      BY <2>4, <2>6, FS_Subset
    <2>8. /\ Total(b.counted, after) <= Total(b.counted, Older(before))
          /\ Total(b.counted, Older(before)) <= Total(b.counted, before)
      BY <2>1, <2>3, <2>4, <2>6, TotalMonotone, TotalOlder
    <2>9. /\ Total(b.counted, after) \in Nat /\ Total(b.counted, Older(before)) \in Nat
          /\ Total(b.counted, before) \in Nat
      BY <2>1, <2>3, <2>6, <2>7, TotalType
    <2>10. Bounded(b, after)
      <3>1. Total(b.counted, after) <= Total(b.counted, before)
        BY <2>8, <2>9
      <3> QED BY <2>5, <2>9, <3>1, LessIsBounded
    <2> QED BY <2>10 DEF after
  <1>13. MembersAreTheirCalls'
    <2> SUFFICES ASSUME NEW j \in Replicas, call'[j] # Idle
                 PROVE  /\ \A k \in Keys : \A e \in granted'[k] : e.id # call'[j].id
                        /\ \A k \in Keys : \A e \in zset'[k] : e.id = call'[j].id => e.age = call'[j].age
                        /\ \A l \in Replicas : l # j /\ call'[l] # Idle => call'[l].id # call'[j].id
      BY DEF MembersAreTheirCalls, Idle
    <2>1. /\ call[j] # Idle /\ call'[j].id = call[j].id
          /\ call'[j].age = IF call[j].age < OldestAge THEN call[j].age + 1 ELSE OldestAge
      BY <1>4
    <2>2. /\ \A k \in Keys : \A e \in granted[k] : e.id # call[j].id
          /\ \A k \in Keys : \A e \in zset[k] : e.id = call[j].id => e.age = call[j].age
          /\ \A l \in Replicas : l # j /\ call[l] # Idle => call[l].id # call[j].id
      BY <2>1 DEF RedisIInv, MembersAreTheirCalls
    <2>3. ASSUME NEW k \in Keys, NEW e \in granted'[k] PROVE e.id # call'[j].id
      <3>1. PICK x \in granted[k] : e = Aged(x)
        BY <1>6
      <3>2. x \in Member
        BY <1>2
      <3>3. e.id = x.id
        BY <3>1, <3>2, AgedMember
      <3> QED BY <2>1, <2>2, <3>3
    <2>4. ASSUME NEW k \in Keys, NEW e \in zset'[k], e.id = call'[j].id PROVE e.age = call'[j].age
      <3>1. PICK x \in zset[k] : e = Aged(x)
        BY <1>7
      <3>2. x \in Member
        BY <1>2
      <3>3. e.id = x.id /\ e.age = IF x.age < OldestAge THEN x.age + 1 ELSE OldestAge
        BY <3>1, <3>2, AgedMember
      <3>4. x.age = call[j].age
        BY <2>1, <2>2, <2>4, <3>3
      <3> QED BY <2>1, <3>3, <3>4
    <2>5. \A l \in Replicas : l # j /\ call'[l] # Idle => call'[l].id # call'[j].id
      BY <1>4, <2>1, <2>2
    <2> QED BY <2>3, <2>4, <2>5
  <1> QED BY <1>5, <1>9, <1>10, <1>11, <1>12, <1>13 DEF RedisIInv

\* Both outcomes of running a request are such a run.
LEMMA ExecuteKeeps ==
  ASSUME RedisIInv, OneAccountingPerKey, NEW i \in Replicas, Execute(i) \/ ExecuteReplyLost(i)
  PROVE  RedisIInv'
  <1> DEFINE c == call[i]
  <1>1. call \in [Replicas -> {Idle} \cup AdmitRequest \cup IncrementRequest] /\ granted \in [Keys -> SUBSET Member]
    BY DEF RedisIInv, RedisTypes
  <1>2. CASE ExecuteReplyLost(i)
    <2>1. call' = call /\ granted' = granted
      BY <1>2 DEF ExecuteReplyLost
    <2>2. granted' = [k \in Keys |-> granted'[k]] /\ \A k \in Keys : granted'[k] = granted[k]
      BY <1>1, <2>1
    <2>3. CASE c.kind = "admit" /\ Store(c.batch, admitAllScript(c).buckets)
      BY <2>1, <2>2, <2>3, AdmitRuns
    <2>4. CASE c.kind = "increment" /\ Store(c.batch, incrementPipe(c))
      BY <2>1, <2>2, <2>4, IncrementRuns
    <2> QED BY <1>2, <2>3, <2>4 DEF ExecuteReplyLost
  <1>3. CASE Execute(i)
    <2>1. call' = [call EXCEPT ![i] = Idle] /\ call'[i] = Idle
      BY <1>1, <1>3 DEF Execute
    <2>2. CASE /\ c.kind = "admit" /\ Store(c.batch, admitAllScript(c).buckets)
               /\ granted' = [k \in Keys |->
                    IF admitAllScript(c).reply = "admit" /\ k \in KeysOf(c.batch)
                    THEN granted[k] \cup {e \in zset'[k] : e.id = c.id} ELSE granted[k]]
      <3>1. granted' = [k \in Keys |-> granted'[k]]
        BY <2>2
      <3>2. \A k \in Keys : \/ granted'[k] = granted[k]
                            \/ /\ admitAllScript(c).reply = "admit" /\ k \in KeysOf(c.batch) /\ call'[i] = Idle
                               /\ granted'[k] = granted[k] \cup {e \in zset'[k] : e.id = c.id}
        BY <2>1, <2>2
      <3>3. c.kind = "admit" /\ Store(c.batch, admitAllScript(c).buckets)
        BY <2>2
      <3> QED BY <2>1, <3>1, <3>2, <3>3, AdmitRuns
    <2>3. CASE /\ c.kind = "increment" /\ Store(c.batch, incrementPipe(c))
               /\ granted' = [granted EXCEPT ![c.batch[1].key] =
                    {e \in @ : e.id # c.id} \cup {[id |-> c.id, age |-> c.age, weight |-> 1]}]
      <3>1. granted' = [k \in Keys |-> granted'[k]]
        BY <1>1, <2>3
      <3>2. \A k \in Keys : \/ granted'[k] = granted[k]
                            \/ /\ k = c.batch[1].key /\ call'[i] = Idle
                               /\ granted'[k] = {e \in granted[k] : e.id # c.id}
                                                \cup {[id |-> c.id, age |-> c.age, weight |-> 1]}
        BY <1>1, <2>1, <2>3
      <3> QED BY <2>1, <2>3, <3>1, <3>2, IncrementRuns
    <2> QED BY <1>3, <2>2, <2>3 DEF Execute
  <1> QED BY <1>2, <1>3

\* The invariant says what the run checks.
LEMMA RedisIInvSuffices == RedisIInv => RedisQuotaAndHistory
  <1> SUFFICES ASSUME RedisIInv PROVE WithinLimit /\ HistoryVisible
    BY DEF RedisQuotaAndHistory
  <1>1. ASSUME NEW h \in Histories, NEW i \in Replicas, NEW e \in granted[h.key], e.age < Window[h.key]
        PROVE  Peek(i, h.key) > 0
    <2> DEFINE k == h.key
               seen == {d \in zset[k] : d.age < Skew[i] + Window[k]}
    <2>1. k \in Keys /\ Skew[i] \in Nat
      BY RedisAssumption
    <2>2. PICK d \in zset[k] : d.age <= e.age
      BY <1>1 DEF RedisIInv, HistoryIsCovered
    <2>3. d.age \in Nat /\ e.age \in Nat /\ Window[k] \in Nat
      BY <2>1, HorizonFacts DEF RedisIInv, RedisTypes, Member
    <2>4. d \in seen
      BY <1>1, <2>1, <2>2, <2>3
    <2>5. seen \in SUBSET zset[k] /\ IsFiniteSet(zset[k])
      BY <2>1 DEF RedisIInv, RedisTypes
    <2>6. Peek(i, h.key) = Cardinality(seen)
      BY DEF Peek
    <2> HIDE DEF seen
    <2>7. IsFiniteSet(seen) /\ Cardinality(seen) \in Nat /\ Cardinality(seen) # 0
      BY <2>4, <2>5, FS_Subset, FS_CardinalityType, FS_EmptySet
    <2> QED BY <2>6, <2>7
  <1>2. HistoryVisible
    BY <1>1 DEF HistoryVisible
  <1> QED BY <1>2 DEF RedisIInv

\* The quota and the histories in Redis hold for any replicas, clocks, buckets and bounds:
\* however late, twice or out of order the scripts run, the granted calls of a window never
\* exceed a limit and a recorded call stays visible to every Peek.
THEOREM RedisQuotaHolds == OneAccountingPerKey /\ Spec => []RedisQuotaAndHistory
  <1>1. Init => RedisIInv
    BY RedisInit
  <1>2. OneAccountingPerKey /\ RedisIInv /\ [Next]_vars => RedisIInv'
    <2> SUFFICES ASSUME OneAccountingPerKey, RedisIInv, [Next]_vars PROVE RedisIInv'
      OBVIOUS
    <2>1. CASE UNCHANGED vars
      <3>1. UNCHANGED <<zset, ttl, granted>> /\ call' = call
        BY <2>1 DEF vars
      <3>2. RedisTypes' /\ MembersAreTheirCalls'
        BY <3>1 DEF RedisIInv, RedisTypes, MembersAreTheirCalls, Idle, AdmitRequest, IncrementRequest
      <3> QED BY <3>1, <3>2, StoreUntouched DEF RedisIInv
    <2>2. ASSUME NEW i \in Replicas, NEW batch \in Batches, SendAdmitAll(i, batch) PROVE RedisIInv'
      BY <2>2, SendAdmitAllKeeps
    <2>3. ASSUME NEW i \in Replicas, NEW h \in Histories, SendIncrement(i, h) PROVE RedisIInv'
      BY <2>3, SendIncrementKeeps
    <2>4. ASSUME NEW i \in Replicas, Execute(i) \/ ExecuteReplyLost(i) PROVE RedisIInv'
      BY <2>4, ExecuteKeeps
    <2>5. ASSUME NEW i \in Replicas, GiveUp(i) PROVE RedisIInv'
      BY <2>5, GiveUpKeeps
    <2>6. CASE Tick
      BY <2>6, TickKeeps
    <2> QED BY <2>1, <2>2, <2>3, <2>4, <2>5, <2>6 DEF Next
  <1>3. RedisIInv => RedisQuotaAndHistory
    BY RedisIInvSuffices
  <1>4. OneAccountingPerKey => OneAccountingPerKey'
    OBVIOUS
  <1> QED BY <1>1, <1>2, <1>3, <1>4, PTL DEF Spec
=============================================================================
