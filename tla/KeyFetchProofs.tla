--------------------------- MODULE KeyFetchProofs ---------------------------
(***************************************************************************)
(* Proofs about CircuitBreaker, and about KeyFetch, which puts the JWKS    *)
(* cache behind it, for any callers, verifications, key sets, lifetimes    *)
(* and thresholds.                                                         *)
(*                                                                         *)
(* Of the breaker, IInv adds to the checked invariants the facts that tie  *)
(* the code's generation numbers to the history: generations and epochs    *)
(* never run ahead of the breaker, and, unless the breaker is open, a      *)
(* running call has the current generation exactly when no transition has  *)
(* happened since it was admitted.                                         *)
(*                                                                         *)
(* That a withdrawn key expires rests on two ages: a set that a fetch was  *)
(* served is at most as long withdrawn as the fetch is old, and an         *)
(* installed one at most a fetch longer than the cache is old.  That       *)
(* completion order cannot undo start order rests on the tickets: their    *)
(* order is the order of what the provider served when the fetches began.  *)
(***************************************************************************)
EXTENDS KeyFetch, CircuitBreaker, FiniteSetTheorems, TLAPS

(* The breaker.                                                            *)

\* No running call is from the future.
NotAhead ==
  \A c \in Callers : call[c].running => call[c].gen <= halfOpenGen /\ call[c].epoch <= epoch

\* Outside "open", current generation and current epoch are the same thing.
GenTracksEpoch ==
  state # "open" =>
    \A c \in Callers :
      call[c].running => (call[c].gen = halfOpenGen <=> call[c].epoch = epoch)

\* The code's counters agree with the history counters.
CountsAreFresh ==
  /\ state = "half-open" => proved = halfOpenSuccess /\ halfOpenSuccess < HalfOpenMaxProbes
  /\ state = "open" => proved = 0
  /\ state # "open" => consecutiveFails = streak

IInv ==
  /\ TypeOK
  /\ SlotAccounting
  /\ OpenImpliesThreshold
  /\ CooldownRunsFromTrip
  /\ NotAhead
  /\ GenTracksEpoch
  /\ CountsAreFresh

\* The initial state satisfies the inductive invariant.
LEMMA InitIInv == Init => IInv
  <1> SUFFICES ASSUME Init PROVE IInv
    OBVIOUS
  <1>1. TypeOK
    BY ConfigAssumption DEF Init, TypeOK, State, Idle
  <1>2. QED
    BY <1>1 DEF Init, IInv, SlotAccounting, OpenImpliesThreshold, CooldownRunsFromTrip,
                NotAhead, GenTracksEpoch, CountsAreFresh, Idle

\* The set of live probes is finite, so its cardinality counts it.
LEMMA LiveProbesFinite ==
  ASSUME IInv
  PROVE  IsFiniteSet(LiveProbes) /\ Cardinality(LiveProbes) \in Nat
  BY ConfigAssumption, FS_Subset, FS_CardinalityType DEF LiveProbes

\* Admission: every branch of allow() preserves the invariant.
LEMMA AllowPreserves ==
  ASSUME IInv, NEW c \in Callers, Allow(c)
  PROVE  IInv'
  <1> USE ConfigAssumption DEF IInv
  <1>0. ~call[c].running /\ c \notin LiveProbes
    BY DEF Allow, LiveProbes
  <1>1. CASE AllowClosed(c)
    BY <1>1 DEF Allow, AllowClosed, Admitted, ghosts, TypeOK, SlotAccounting,
        OpenImpliesThreshold, CooldownRunsFromTrip, NotAhead, GenTracksEpoch, CountsAreFresh
  <1>2. CASE AllowOpen(c)
    <2>1. TypeOK'
      BY <1>2 DEF Allow, AllowOpen, Admitted, TypeOK, State
    <2>2. NotAhead' /\ GenTracksEpoch'
      BY <1>2 DEF Allow, AllowOpen, Admitted, TypeOK, NotAhead, GenTracksEpoch
    <2>3. LiveProbes' = {c}
      BY <1>2 DEF Allow, AllowOpen, Admitted, TypeOK, NotAhead, LiveProbes
    <2>4. SlotAccounting'
      <3>1. Cardinality(LiveProbes') = 1
        BY <2>3, FS_Singleton
      <3> QED
        BY <1>2, <3>1 DEF AllowOpen, SlotAccounting
    <2>5. OpenImpliesThreshold' /\ CooldownRunsFromTrip' /\ CountsAreFresh'
      BY <1>2 DEF Allow, AllowOpen, OpenImpliesThreshold, CooldownRunsFromTrip,
                  CountsAreFresh, TypeOK
    <2> QED
      BY <2>1, <2>2, <2>4, <2>5
  <1>3. CASE AllowHalfOpen(c)
    <2>1. TypeOK' /\ NotAhead' /\ GenTracksEpoch'
      BY <1>3 DEF Allow, AllowHalfOpen, Admitted, ghosts, TypeOK, NotAhead, GenTracksEpoch
    <2>2. LiveProbes' = LiveProbes \cup {c}
      BY <1>3 DEF Allow, AllowHalfOpen, Admitted, TypeOK, LiveProbes
    <2>3. Cardinality(LiveProbes') = Cardinality(LiveProbes) + 1
      BY <1>0, <2>2, LiveProbesFinite, FS_AddElement
    <2>4. SlotAccounting'
      BY <1>3, <2>3, LiveProbesFinite DEF Allow, AllowHalfOpen, SlotAccounting, TypeOK
    <2>5. OpenImpliesThreshold' /\ CooldownRunsFromTrip' /\ CountsAreFresh'
      BY <1>3 DEF Allow, AllowHalfOpen, ghosts, OpenImpliesThreshold,
                  CooldownRunsFromTrip, CountsAreFresh
    <2> QED
      BY <2>1, <2>4, <2>5
  <1> QED
    BY <1>1, <1>2, <1>3 DEF Allow

\* A call that reports leaves the set of live probes, and no other does
\* while the generation stands still.
LEMMA ReportRemovesProbe ==
  ASSUME IInv, NEW c \in Callers, Reported(c), UNCHANGED halfOpenGen
  PROVE  /\ LiveProbes' = LiveProbes \ {c}
         /\ call[c].gen = halfOpenGen =>
              Cardinality(LiveProbes') = Cardinality(LiveProbes) - 1
         /\ call[c].gen # halfOpenGen => LiveProbes' = LiveProbes
  <1>1. LiveProbes' = LiveProbes \ {c}
    BY DEF Reported, LiveProbes, Idle, IInv, TypeOK
  <1>2. call[c].gen = halfOpenGen => c \in LiveProbes
    BY DEF Reported, LiveProbes
  <1>3. call[c].gen # halfOpenGen => c \notin LiveProbes
    BY DEF LiveProbes
  <1>4. call[c].gen = halfOpenGen => Cardinality(LiveProbes') = Cardinality(LiveProbes) - 1
    BY <1>1, <1>2, LiveProbesFinite, FS_RemoveElement
  <1>5. call[c].gen # halfOpenGen => LiveProbes' = LiveProbes
    BY <1>1, <1>3
  <1> QED
    BY <1>1, <1>4, <1>5

\* The facts about running calls survive any report that moves the epoch
\* and the generation only forwards.
LEMMA ReportKeepsCalls ==
  ASSUME IInv, NEW c \in Callers, Reported(c), EpochStep,
         \/ UNCHANGED <<state, halfOpenGen>>
         \/ state' = "open" /\ UNCHANGED halfOpenGen
         \/ state # "closed" /\ state' = "closed" /\ halfOpenGen' = halfOpenGen + 1
  PROVE  NotAhead' /\ GenTracksEpoch'
  BY DEF IInv, TypeOK, Reported, EpochStep, NotAhead, GenTracksEpoch, Idle, State

\* recordSuccess preserves the invariant.
LEMMA SucceedPreserves ==
  ASSUME IInv, NEW c \in Callers, Succeed(c)
  PROVE  IInv'
  <1> USE ConfigAssumption DEF IInv
  <1> DEFINE gen == call[c].gen
  <1>0. Reported(c) /\ EpochStep /\ call[c].running
    BY DEF Succeed, Reported
  <1>1. CASE Ignored(gen) /\ BreakerUnchanged
    <2>1. TypeOK'
      BY <1>1 DEF Succeed, Reported, EpochStep, BreakerUnchanged, TypeOK, Idle
    <2>2. NotAhead' /\ GenTracksEpoch'
      BY <1>0, <1>1, ReportKeepsCalls DEF BreakerUnchanged
    <2>3. SlotAccounting'
      BY <1>0, <1>1, ReportRemovesProbe DEF BreakerUnchanged, SlotAccounting, Ignored
    <2>4. CountsAreFresh'
      BY <1>0, <1>1 DEF Succeed, EpochStep, BreakerUnchanged, Ignored, Fresh, CountsAreFresh,
                  GenTracksEpoch, TypeOK
    <2>5. OpenImpliesThreshold' /\ CooldownRunsFromTrip'
      BY <1>0, <1>1 DEF EpochStep, BreakerUnchanged, OpenImpliesThreshold, CooldownRunsFromTrip
    <2> QED
      BY <2>1, <2>2, <2>3, <2>4, <2>5
  <1>2. CASE ~Ignored(gen)
    <2> gen = halfOpenGen /\ state # "open" /\ Fresh(c)
      BY <1>0, <1>2 DEF Ignored, GenTracksEpoch, Fresh
    <2>1. CASE state = "closed"
      <3> /\ consecutiveFails' = 0
          /\ UNCHANGED <<state, sinceFailure, halfOpenProbes, halfOpenSuccess, halfOpenGen>>
        BY <1>2, <2>1 DEF Succeed, recordSuccess
      <3>1. NotAhead' /\ GenTracksEpoch'
        BY <1>0, ReportKeepsCalls
      <3>2. TypeOK' /\ SlotAccounting' /\ CountsAreFresh'
        BY <1>0, <2>1 DEF Succeed, Reported, EpochStep, TypeOK, Idle, SlotAccounting,
                          CountsAreFresh, Fresh
      <3>3. OpenImpliesThreshold' /\ CooldownRunsFromTrip'
        BY <2>1 DEF OpenImpliesThreshold, CooldownRunsFromTrip
      <3> QED
        BY <3>1, <3>2, <3>3
    <2>2. CASE state = "half-open" /\ halfOpenSuccess + 1 < HalfOpenMaxProbes
      <3> /\ consecutiveFails' = 0
          /\ halfOpenSuccess' = halfOpenSuccess + 1
          /\ UNCHANGED <<state, sinceFailure, halfOpenProbes, halfOpenGen>>
        BY <1>2, <2>2 DEF Succeed, recordSuccess, TypeOK
      <3>1. NotAhead' /\ GenTracksEpoch'
        BY <1>0, ReportKeepsCalls
      <3>2. TypeOK' /\ CountsAreFresh'
        BY <1>0, <2>2 DEF Succeed, Reported, EpochStep, TypeOK, Idle, CountsAreFresh, Fresh
      <3>3. SlotAccounting'
        BY <1>0, <2>2, ReportRemovesProbe, LiveProbesFinite DEF SlotAccounting, TypeOK
      <3>4. OpenImpliesThreshold' /\ CooldownRunsFromTrip'
        BY <2>2 DEF OpenImpliesThreshold, CooldownRunsFromTrip
      <3> QED
        BY <3>1, <3>2, <3>3, <3>4
    <2>3. CASE state = "half-open" /\ halfOpenSuccess + 1 >= HalfOpenMaxProbes
      <3> /\ consecutiveFails' = 0
          /\ UNCHANGED sinceFailure
          /\ CloseBreaker
        BY <1>2, <2>3 DEF Succeed, recordSuccess, TypeOK
      <3>1. NotAhead' /\ GenTracksEpoch'
        BY <1>0, <2>3, ReportKeepsCalls DEF CloseBreaker
      <3>2. TypeOK' /\ CountsAreFresh'
        BY <1>0, <2>3 DEF Succeed, Reported, EpochStep, CloseBreaker, TypeOK, State, Idle,
                          CountsAreFresh, Fresh
      <3>3. SlotAccounting' /\ OpenImpliesThreshold' /\ CooldownRunsFromTrip'
        BY DEF CloseBreaker, SlotAccounting, OpenImpliesThreshold, CooldownRunsFromTrip
      <3> QED
        BY <3>1, <3>2, <3>3
    <2> QED
      BY <2>1, <2>2, <2>3 DEF TypeOK, State
  <1> QED
    BY <1>1, <1>2 DEF Succeed, recordSuccess

\* recordFailure preserves the invariant.
LEMMA FailPreserves ==
  ASSUME IInv, NEW c \in Callers, Fail(c)
  PROVE  IInv'
  <1> USE ConfigAssumption DEF IInv
  <1> DEFINE gen == call[c].gen
  <1>0. Reported(c) /\ EpochStep /\ call[c].running
    BY DEF Fail, Reported
  <1>1. CASE Ignored(gen) /\ BreakerUnchanged
    <2>1. TypeOK'
      BY <1>1 DEF Fail, Reported, EpochStep, BreakerUnchanged, TypeOK, Idle
    <2>2. NotAhead' /\ GenTracksEpoch'
      BY <1>0, <1>1, ReportKeepsCalls DEF BreakerUnchanged
    <2>3. SlotAccounting'
      BY <1>0, <1>1, ReportRemovesProbe DEF BreakerUnchanged, SlotAccounting, Ignored
    <2>4. CountsAreFresh'
      BY <1>0, <1>1 DEF Fail, EpochStep, BreakerUnchanged, Ignored, Fresh, CountsAreFresh,
                  GenTracksEpoch, TypeOK
    <2>5. OpenImpliesThreshold' /\ CooldownRunsFromTrip'
      BY <1>0, <1>1 DEF EpochStep, BreakerUnchanged, OpenImpliesThreshold, CooldownRunsFromTrip
    <2> QED
      BY <2>1, <2>2, <2>3, <2>4, <2>5
  <1>2. CASE ~Ignored(gen)
    <2> gen = halfOpenGen /\ state # "open" /\ Fresh(c)
      BY <1>0, <1>2 DEF Ignored, GenTracksEpoch, Fresh
    <2>1. CASE state = "closed"
      <3> /\ consecutiveFails' = consecutiveFails + 1
          /\ sinceFailure' = 0
          /\ state' = IF consecutiveFails + 1 >= FailureThreshold THEN "open" ELSE state
          /\ UNCHANGED <<halfOpenProbes, halfOpenSuccess, halfOpenGen>>
        BY <1>2, <2>1 DEF Fail, recordFailure
      <3>1. NotAhead' /\ GenTracksEpoch'
        BY <1>0, ReportKeepsCalls
      <3>2. TypeOK'
        BY <1>0, <2>1 DEF Fail, Reported, EpochStep, TypeOK, State, Idle
      <3>3. SlotAccounting' /\ CountsAreFresh'
        BY <1>0, <2>1 DEF Fail, TypeOK, SlotAccounting, CountsAreFresh, Fresh
      <3>4. OpenImpliesThreshold' /\ CooldownRunsFromTrip'
        BY <1>0, <2>1 DEF EpochStep, TypeOK, OpenImpliesThreshold, CooldownRunsFromTrip
      <3> QED
        BY <3>1, <3>2, <3>3, <3>4
    <2>2. CASE state = "half-open"
      <3> /\ state' = "open"
          /\ halfOpenSuccess' = 0
          /\ consecutiveFails' = FailureThreshold
          /\ sinceFailure' = 0
          /\ UNCHANGED <<halfOpenProbes, halfOpenGen>>
        BY <1>2, <2>2 DEF Fail, recordFailure
      <3>1. NotAhead' /\ GenTracksEpoch'
        BY <1>0, ReportKeepsCalls
      <3>2. TypeOK'
        BY <1>0, <2>2 DEF Fail, Reported, EpochStep, TypeOK, State, Idle
      <3>3. SlotAccounting' /\ CountsAreFresh' /\ OpenImpliesThreshold' /\ CooldownRunsFromTrip'
        BY <1>0, <2>2 DEF Fail, EpochStep, TypeOK, SlotAccounting, CountsAreFresh,
                          OpenImpliesThreshold, CooldownRunsFromTrip
      <3> QED
        BY <3>1, <3>2, <3>3
    <2> QED
      BY <2>1, <2>2 DEF TypeOK, State
  <1> QED
    BY <1>1, <1>2 DEF Fail, recordFailure

\* recordDrop preserves the invariant.
LEMMA DropPreserves ==
  ASSUME IInv, NEW c \in Callers, Drop(c)
  PROVE  IInv'
  <1> USE ConfigAssumption DEF IInv
  <1>0. Reported(c) /\ call[c].running /\ UNCHANGED ghosts
    BY DEF Drop, Reported
  <1>1. /\ UNCHANGED <<state, consecutiveFails, sinceFailure, halfOpenSuccess, halfOpenGen>>
        /\ halfOpenProbes' \in 0 .. HalfOpenMaxProbes
    BY DEF Drop, recordDrop, BreakerUnchanged, TypeOK
  <1>2. TypeOK'
    BY <1>0, <1>1 DEF Drop, Reported, ghosts, TypeOK, Idle
  <1>3. NotAhead' /\ GenTracksEpoch'
    BY <1>0, <1>1 DEF Reported, ghosts, NotAhead, GenTracksEpoch, TypeOK, Idle
  <1>4. OpenImpliesThreshold' /\ CooldownRunsFromTrip' /\ CountsAreFresh'
    BY <1>0, <1>1 DEF ghosts, OpenImpliesThreshold, CooldownRunsFromTrip, CountsAreFresh
  <1>5. SlotAccounting'
    <2>1. CASE call[c].gen = halfOpenGen
      <3>1. Cardinality(LiveProbes') = Cardinality(LiveProbes) - 1
        BY <1>0, <1>1, <2>1, ReportRemovesProbe
      <3>2. CASE state = "half-open"
        <4>1. halfOpenProbes > 0
          <5>1. c \in LiveProbes
            BY <1>0, <2>1 DEF LiveProbes
          <5>2. Cardinality(LiveProbes) # 0
            BY <5>1, LiveProbesFinite, FS_EmptySet
          <5> QED
            BY <3>2, <5>2, LiveProbesFinite DEF SlotAccounting, TypeOK
        <4>2. halfOpenProbes' = halfOpenProbes - 1
          BY <2>1, <3>2, <4>1 DEF Drop, recordDrop
        <4> QED
          BY <1>1, <3>1, <3>2, <4>2, LiveProbesFinite DEF SlotAccounting, TypeOK
      <3>3. CASE state # "half-open"
        BY <1>1, <3>3 DEF SlotAccounting
      <3> QED
        BY <3>2, <3>3
    <2>2. CASE call[c].gen # halfOpenGen
      BY <1>0, <1>1, <2>2, ReportRemovesProbe
         DEF Drop, recordDrop, BreakerUnchanged, SlotAccounting
    <2> QED
      BY <2>1, <2>2
  <1> QED
    BY <1>2, <1>3, <1>4, <1>5

\* Every step preserves the invariant.
LEMMA NextIInv == IInv /\ [Next]_vars => IInv'
  <1> SUFFICES ASSUME IInv, [Next]_vars PROVE IInv'
    OBVIOUS
  <1>1. ASSUME NEW c \in Callers, Allow(c) PROVE IInv'
    BY <1>1, AllowPreserves
  <1>2. ASSUME NEW c \in Callers, Succeed(c) PROVE IInv'
    BY <1>2, SucceedPreserves
  <1>3. ASSUME NEW c \in Callers, Fail(c) PROVE IInv'
    BY <1>3, FailPreserves
  <1>4. ASSUME NEW c \in Callers, Drop(c) PROVE IInv'
    BY <1>4, DropPreserves
  <1>5. CASE Tick
    BY <1>5, ConfigAssumption
       DEF Tick, Saturate, IInv, TypeOK, SlotAccounting, OpenImpliesThreshold,
           CooldownRunsFromTrip, NotAhead, GenTracksEpoch, CountsAreFresh, LiveProbes
  <1>6. CASE Recover
    BY <1>6 DEF Recover, BreakerUnchanged, IInv, TypeOK, SlotAccounting,
           OpenImpliesThreshold, CooldownRunsFromTrip, NotAhead, GenTracksEpoch,
           CountsAreFresh, LiveProbes
  <1>7. CASE UNCHANGED vars
    BY <1>7 DEF vars, IInv, TypeOK, SlotAccounting,
           OpenImpliesThreshold, CooldownRunsFromTrip, NotAhead, GenTracksEpoch,
           CountsAreFresh, LiveProbes
  <1> QED
    BY <1>1, <1>2, <1>3, <1>4, <1>5, <1>6, <1>7 DEF Next

\* The inductive invariant holds in every reachable state.
THEOREM Invariance == Spec => []IInv
  BY InitIInv, NextIInv, PTL DEF Spec

\* Type correctness: allow() never over-commits a half-open window
\* (halfOpenProbes never exceeds HalfOpenMaxProbes).
THEOREM TypeCorrect == Spec => []TypeOK
  BY Invariance, PTL DEF IInv

\* No half-open slot is ever leaked, so a half-open breaker is never wedged.
THEOREM NoSlotLeak == Spec => []SlotAccounting
  BY Invariance, PTL DEF IInv

\* An open breaker always carries at least FailureThreshold failures.
THEOREM OpenKeepsThreshold == Spec => []OpenImpliesThreshold
  BY Invariance, PTL DEF IInv

\* The cooldown of an open breaker is measured from the trip.
THEOREM CooldownFromTrip == Spec => []CooldownRunsFromTrip
  BY Invariance, PTL DEF IInv

\* The breaker closes only on HalfOpenMaxProbes successes admitted after the trip.
THEOREM ClosingNeedsFreshEvidence == Spec => ClosesOnFreshEvidence
  <1>1. ASSUME IInv, [Next]_vars, ~UNCHANGED vars
        PROVE  state # "closed" /\ state' = "closed" => proved' = HalfOpenMaxProbes
    <2> SUFFICES ASSUME state # "closed", state' = "closed"
                 PROVE  proved' = HalfOpenMaxProbes
      OBVIOUS
    <2>1. PICK c \in Callers : Succeed(c)
      BY <1>1 DEF Next, vars, Allow, AllowClosed, AllowOpen, AllowHalfOpen, Fail, recordFailure,
             Drop, recordDrop, BreakerUnchanged, Tick, Recover
    <2>2. /\ state = "half-open" /\ ~Ignored(call[c].gen)
          /\ halfOpenSuccess + 1 >= HalfOpenMaxProbes
      BY <2>1 DEF Succeed, recordSuccess, BreakerUnchanged
    <2>3. Fresh(c)
      BY <1>1, <2>1, <2>2 DEF Succeed, Reported, Ignored, IInv, GenTracksEpoch, Fresh
    <2> QED
      BY <1>1, <2>1, <2>2, <2>3, ConfigAssumption DEF Succeed, IInv, CountsAreFresh, TypeOK
  <1> QED
    BY <1>1, Invariance, PTL DEF Spec, ClosesOnFreshEvidence, ClosingIsEarned

\* A closed breaker opens only on FailureThreshold failures in a row of calls
\* admitted since it closed.
THEOREM TrippingNeedsFreshFailures == Spec => TripsOnFreshFailures
  <1>1. ASSUME IInv, [Next]_vars, ~UNCHANGED vars
        PROVE  state = "closed" /\ state' = "open" => streak' >= FailureThreshold
    <2> SUFFICES ASSUME state = "closed", state' = "open"
                 PROVE  streak' >= FailureThreshold
      OBVIOUS
    <2>1. PICK c \in Callers : Fail(c)
      BY <1>1 DEF Next, vars, Allow, AllowClosed, AllowOpen, AllowHalfOpen, Succeed,
             recordSuccess, CloseBreaker, Drop, recordDrop, BreakerUnchanged, Tick, Recover
    <2>2. /\ ~Ignored(call[c].gen)
          /\ consecutiveFails + 1 >= FailureThreshold
      BY <2>1 DEF Fail, recordFailure, BreakerUnchanged
    <2>3. Fresh(c)
      BY <1>1, <2>1, <2>2 DEF Fail, Reported, Ignored, IInv, GenTracksEpoch, Fresh
    <2> QED
      BY <1>1, <2>1, <2>2, <2>3, ConfigAssumption DEF Fail, IInv, CountsAreFresh, TypeOK
  <1> QED
    BY <1>1, Invariance, PTL DEF Spec, TripsOnFreshFailures, TrippingIsEarned

\* No half-open slot leaks and both transitions rest on evidence of their own
\* window: recordSuccess, recordFailure and recordDrop together.
THEOREM BreakerSound == Spec => BreakerIsSound
  BY NoSlotLeak, ClosingNeedsFreshEvidence, TrippingNeedsFreshFailures, PTL
  DEF BreakerIsSound, ClosesOnFreshEvidence, TripsOnFreshFailures

-----------------------------------------------------------------------------
(* The key cache.                                                          *)

\* The provider has withdrawn only keys before the one it serves.
ServedIsNotGone == \A k \in Keys : k >= idp => gone[k] = 0

\* What a fetch was served is withdrawn for no longer than the fetch takes.
FetchIsRecent ==
  \A f \in Flights : flight[f].phase = "served" =>
    /\ flight[f].served \in Keys /\ flight[f].served <= idp
    /\ flight[f].floor <= flight[f].served
    /\ gone[flight[f].served] <= flight[f].age

\* What is installed, for no longer than a fetch and the cache's age.
CacheIsRecent == jwks # 0 => gone[jwks] <= FetchTimeout + age

\* What was served when a fetch, or the installed one, began.
FloorsAreServed ==
  /\ floor <= jwks /\ jwks <= idp
  /\ \A f \in Flights : flight[f].floor <= idp

\* Who has the later ticket began with the later key set.
TicketsAreOrdered ==
  \A f \in Flights : flight[f].phase # "idle" =>
    /\ flight[f].ticket > installedFetchGen => flight[f].floor >= floor
    /\ \A g \in Flights : flight[g].phase # "idle" /\ flight[g].ticket > flight[f].ticket
                          => flight[g].floor >= flight[f].floor

KeyIInv ==
  /\ KeyTypeOK
  /\ ServedIsNotGone /\ FetchIsRecent /\ CacheIsRecent
  /\ FloorsAreServed /\ TicketsAreOrdered

\* The initial state satisfies the inductive invariant.
LEMMA KeyInitIInv == KeyInit => KeyIInv
  <1> SUFFICES ASSUME KeyInit PROVE KeyIInv
    OBVIOUS
  <1> USE KeyAssumption
  <1>1. KeyTypeOK
    BY DEF KeyInit, KeyTypeOK, NoFlight, NoVerify, Tokens, Keys, Sentinel, TrustBound
  <1>2. QED
    BY <1>1 DEF KeyInit, KeyIInv, ServedIsNotGone, FetchIsRecent, CacheIsRecent, FloorsAreServed,
       TicketsAreOrdered, NoFlight, Keys, Flights

\* What a verification is, and the three ways it goes on.
Verification == [pc: {"idle", "wait", "got", "forceWait", "forceGot"}, token: Tokens,
                 keys: Keys \cup {0}, changed: BOOLEAN, why: {"kid", "verify"}]

LEMMA VerificationGoesOn ==
  ASSUME NEW me \in Verification, NEW token \in Tokens, NEW keys \in Keys \cup {0},
         NEW changed \in BOOLEAN
  PROVE  /\ NoVerify \in Verification
         /\ [NoVerify EXCEPT !.token = token, !.pc = "wait"] \in Verification
         /\ forceRefresh(me, keys) \in Verification
         /\ \A p \in {"got", "forceGot"} :
              [me EXCEPT !.pc = p, !.keys = keys, !.changed = changed] \in Verification
  <1>1. NoVerify \in Verification
    BY KeyAssumption DEF NoVerify, Verification, Tokens, Keys
  <1>2. [NoVerify EXCEPT !.token = token, !.pc = "wait"] \in Verification
    BY <1>1 DEF Verification
  <1>3. forceRefresh(me, keys) \in Verification
    BY DEF Verification, forceRefresh
  <1>4. ASSUME NEW p \in {"got", "forceGot"}
        PROVE  [me EXCEPT !.pc = p, !.keys = keys, !.changed = changed] \in Verification
    BY <1>4 DEF Verification
  <1>5. QED
    BY <1>1, <1>2, <1>3, <1>4

\* Key sets, tickets and ages are numbers.
LEMMA KeyNumbers ==
  ASSUME KeyTypeOK
  PROVE  /\ idp \in Int /\ jwks \in Int /\ age \in Int /\ floor \in Int
         /\ installedFetchGen \in Int
         /\ \A f \in Flights : /\ flight[f].ticket \in Int /\ flight[f].floor \in Int
                               /\ flight[f].served \in Int /\ flight[f].age \in 0..FetchTimeout
         /\ \A k \in Keys : gone[k] \in 0..TrustBound
  BY KeyAssumption DEF KeyTypeOK, Keys

-----------------------------------------------------------------------------
(* Starting a fetch, and the verifications that do. *)

\* What a step of a verification, or the start of a fetch for it, does to the cache.
Started(f) ==
  \/ flight' = flight /\ installedFetchGen' = installedFetchGen
  \/ /\ flight[f].phase = "idle"
     /\ Ticketed(f, IF f = forced THEN background ELSE forced)

\* A new fetch gets the newest ticket and the newest floor; the ranks of the others keep
\* their order.
LEMMA StartKeepsOrder ==
  ASSUME KeyIInv, NEW f \in Flights, Started(f),
         UNCHANGED <<idp, jwks, age, floor, negKIDs, gone>>,
         verify' \in [Verifiers -> Verification]
  PROVE  KeyIInv'
  <1> USE KeyAssumption
  <1>1. CASE flight' = flight /\ installedFetchGen' = installedFetchGen
    BY <1>1 DEF KeyIInv, KeyTypeOK, ServedIsNotGone, FetchIsRecent, CacheIsRecent, FloorsAreServed,
       TicketsAreOrdered, Verification
  <1>2. CASE /\ flight[f].phase = "idle"
             /\ Ticketed(f, IF f = forced THEN background ELSE forced)
    <2> DEFINE g == IF f = forced THEN background ELSE forced
    <2>1. f # g /\ g \in Flights /\ Flights = {f, g}
      BY DEF Flights
    <2> DEFINE new == [phase |-> "asking", ticket |-> 2, served |-> 0, age |-> 0, floor |-> idp]
               old == IF flight[g].phase = "idle" THEN flight[g]
                      ELSE [flight[g] EXCEPT !.ticket = 1]
    <2>2. flight' = [flight EXCEPT ![f] = new, ![g] = old]
      <3>1. DOMAIN flight = Flights
        BY DEF KeyIInv, KeyTypeOK
      <3>2. [flight EXCEPT ![f] = new][g] = flight[g]
        BY <2>1, <3>1
      <3>3. QED
        BY <1>2, <2>1, <3>1, <3>2 DEF Ticketed
    <2>3. /\ flight[g] \in [phase: {"idle", "asking", "served"}, ticket: 0..2,
                            served: Keys \cup {0}, age: 0..FetchTimeout, floor: Keys \cup {0}]
          /\ idp \in Keys /\ DOMAIN flight = Flights
      BY <2>1 DEF KeyIInv, KeyTypeOK
    <2>4. /\ new.phase = "asking" /\ new.ticket = 2 /\ new.floor = idp
          /\ new \in [phase: {"idle", "asking", "served"}, ticket: 0..2,
                      served: Keys \cup {0}, age: 0..FetchTimeout, floor: Keys \cup {0}]
      BY <2>3
    <2>5. /\ old.phase = flight[g].phase /\ old.served = flight[g].served
          /\ old.age = flight[g].age /\ old.floor = flight[g].floor
          /\ old.phase # "idle" => old.ticket = 1
          /\ old \in [phase: {"idle", "asking", "served"}, ticket: 0..2,
                      served: Keys \cup {0}, age: 0..FetchTimeout, floor: Keys \cup {0}]
      BY <2>3
    <2> HIDE DEF new, old
    <2>6. flight'[f] = new /\ flight'[g] = old
      BY <2>1, <2>2, <2>3
    <2>7. KeyTypeOK'
      <3>1. installedFetchGen' \in 0..2
        BY <1>2 DEF Ticketed
      <3>2. QED
        BY <2>1, <2>2, <2>4, <2>5, <3>1 DEF KeyIInv, KeyTypeOK, Verification
    <2>8. ServedIsNotGone' /\ CacheIsRecent' /\ FetchIsRecent' /\ FloorsAreServed'
      BY <2>1, <2>4, <2>5, <2>6, KeyNumbers
         DEF KeyIInv, ServedIsNotGone, FetchIsRecent, CacheIsRecent, FloorsAreServed
    <2>9. TicketsAreOrdered'
      <3>1. installedFetchGen' = IF flight[g].phase # "idle" /\ flight[g].ticket <= installedFetchGen
                                 THEN 1 ELSE 0
        BY <1>2 DEF Ticketed
      <3>2. QED
        BY <2>1, <2>4, <2>5, <2>6, <3>1, KeyNumbers DEF KeyIInv, TicketsAreOrdered, FloorsAreServed
    <2>10. QED
      BY <2>7, <2>8, <2>9 DEF KeyIInv
  <1>3. QED
    BY <1>1, <1>2 DEF Started

\* refresh joins a fetch, starts one or is refused.
LEMMA RefreshStarts ==
  ASSUME KeyTypeOK, NEW v \in Verifiers, NEW me \in Verification, NEW f \in Flights,
         refresh(v, me, f)
  PROVE  Started(f) /\ verify' \in [Verifiers -> Verification]
  <1>1. verify \in [Verifiers -> Verification] /\ NoVerify \in Verification
    BY VerificationGoesOn, KeyAssumption DEF KeyTypeOK, Verification, NoVerify, Tokens, Keys
  <1>2. QED
    BY <1>1 DEF refresh, JoinFlight, StartFetch, RefuseFetch, Started

\* What a key set leads a verification to.
LEMMA ResolveStarts ==
  ASSUME KeyTypeOK, NEW v \in Verifiers, NEW me \in Verification, NEW keys \in Keys \cup {0},
         Resolve(v, me, keys)
  PROVE  Started(forced) /\ verify' \in [Verifiers -> Verification]
  <1>1. /\ verify \in [Verifiers -> Verification]
        /\ NoVerify \in Verification /\ forceRefresh(me, keys) \in Verification
    <2>1. TRUE \in BOOLEAN /\ me.token \in Tokens
      BY DEF Verification
    <2>2. NoVerify \in Verification /\ forceRefresh(me, keys) \in Verification
      BY <2>1, VerificationGoesOn
    <2>3. QED
      BY <2>2 DEF KeyTypeOK, Verification
  <1>2. CASE /\ verify' = [verify EXCEPT ![v] = NoVerify]
             /\ UNCHANGED <<flight, installedFetchGen>>
    BY <1>1, <1>2 DEF Started
  <1>3. CASE refresh(v, forceRefresh(me, keys), forced)
    BY <1>1, <1>3, RefreshStarts DEF Flights
  <1>4. QED
    BY <1>2, <1>3 DEF Resolve

\* A verification that begins, or goes on, keeps the invariant.
LEMMA VerifyKeeps ==
  ASSUME KeyIInv, NEW v \in Verifiers, NEW token \in Tokens,
         ValidateToken(v, token) \/ getKeysLive(v)
  PROVE  KeyIInv'
  <1>1. verify[v] \in Verification /\ jwks \in Keys \cup {0} /\ verify[v].keys \in Keys \cup {0}
    BY DEF KeyIInv, KeyTypeOK, Verification
  <1>2. [NoVerify EXCEPT !.token = token, !.pc = "wait"] \in Verification
    BY <1>1, VerificationGoesOn DEF Verification
  <1>3. Started(forced) \/ Started(background)
    BY <1>1, <1>2, ResolveStarts, RefreshStarts DEF KeyIInv, ValidateToken, getKeysLive, Flights
  <1>4. verify' \in [Verifiers -> Verification]
    BY <1>1, <1>2, ResolveStarts, RefreshStarts DEF KeyIInv, ValidateToken, getKeysLive, Flights
  <1>5. UNCHANGED <<idp, jwks, age, floor, negKIDs, gone>>
    BY DEF ValidateToken, getKeysLive
  <1>6. QED
    BY <1>3, <1>4, <1>5, StartKeepsOrder DEF Flights

-----------------------------------------------------------------------------
(* The other steps. *)

\* The forced fetch's answer is remembered.
LEMMA ForceRefreshedKeeps ==
  ASSUME KeyIInv, NEW v \in Verifiers, forceRefreshed(v)
  PROVE  KeyIInv'
  <1>1. NoVerify \in Verification
    BY KeyAssumption DEF NoVerify, Verification, Tokens, Keys
  <1>2. verify' \in [Verifiers -> Verification]
    BY <1>1 DEF KeyIInv, KeyTypeOK, Verification, forceRefreshed
  <1>3. negKIDs' \in [Keys \cup {Sentinel} -> 0..negativeKIDTTL]
    BY KeyAssumption DEF KeyIInv, KeyTypeOK, forceRefreshed, markKIDAbsent
  <1>4. UNCHANGED <<idp, jwks, age, installedFetchGen, floor, flight, gone>>
    BY DEF forceRefreshed, cacheVars
  <1>5. KeyTypeOK'
    BY <1>2, <1>3, <1>4 DEF KeyIInv, KeyTypeOK, Verification
  <1>6. QED
    BY <1>4, <1>5 DEF KeyIInv, ServedIsNotGone, FetchIsRecent, CacheIsRecent, FloorsAreServed,
       TicketsAreOrdered

Flight == [phase: {"idle", "asking", "served"}, ticket: 0..2, served: Keys \cup {0},
           age: 0..FetchTimeout, floor: Keys \cup {0}]

\* The provider answers a fetch with what it serves.
LEMMA ServeKeeps ==
  ASSUME KeyIInv, NEW f \in Flights, ServeKeys(f)
  PROVE  KeyIInv'
  <1> USE KeyAssumption
  <1> DEFINE mine == [flight[f] EXCEPT !.phase = "served", !.served = idp]
  <1>1. flight[f] \in Flight /\ idp \in Keys /\ flight \in [Flights -> Flight]
    BY DEF KeyIInv, KeyTypeOK, Flight
  <1>2. /\ mine \in Flight /\ mine.phase = "served" /\ mine.served = idp
        /\ mine.ticket = flight[f].ticket /\ mine.floor = flight[f].floor
        /\ mine.age = flight[f].age
    BY <1>1 DEF Flight
  <1>3. flight' = [flight EXCEPT ![f] = mine]
    BY <1>1 DEF ServeKeys
  <1> HIDE DEF mine
  <1>4. /\ flight' \in [Flights -> Flight] /\ flight'[f] = mine
        /\ \A g \in Flights \ {f} : flight'[g] = flight[g]
    BY <1>1, <1>2, <1>3
  <1>5. /\ UNCHANGED <<idp, jwks, age, installedFetchGen, floor, negKIDs, verify, gone>>
        /\ flight[f].phase = "asking"
    BY DEF ServeKeys, cacheVars
  <1>6. KeyTypeOK'
    BY <1>4, <1>5 DEF KeyIInv, KeyTypeOK, Flight
  <1>7. ServedIsNotGone' /\ CacheIsRecent' /\ FloorsAreServed'
    BY <1>2, <1>4, <1>5 DEF KeyIInv, ServedIsNotGone, CacheIsRecent, FloorsAreServed
  <1>8. FetchIsRecent'
    BY <1>1, <1>2, <1>4, <1>5, KeyNumbers DEF KeyIInv, FetchIsRecent, FloorsAreServed,
       ServedIsNotGone
  <1>9. TicketsAreOrdered'
    BY <1>2, <1>4, <1>5, KeyNumbers DEF KeyIInv, TicketsAreOrdered
  <1>10. QED
    BY <1>6, <1>7, <1>8, <1>9 DEF KeyIInv

\* Whoever waited goes on, typed as before.
LEMMA AnswerTyped ==
  ASSUME KeyTypeOK, NEW f \in Flights, NEW keys \in Keys \cup {0}, NEW changed \in BOOLEAN,
         Answer(f, keys, changed)
  PROVE  verify' \in [Verifiers -> Verification]
  <1>1. NoVerify \in Verification
    BY KeyAssumption DEF NoVerify, Verification, Tokens, Keys
  <1>2. ASSUME NEW v \in Verifiers
        PROVE  verify'[v] \in Verification
    <2>1. verify[v] \in Verification
      BY DEF KeyTypeOK, Verification
    <2>2. [verify[v] EXCEPT !.pc = IF f = background THEN "got" ELSE "forceGot",
                            !.keys = keys, !.changed = changed] \in Verification
      <3>1. verify[v].token \in Tokens
        BY <2>1 DEF Verification
      <3>2. QED
        BY <2>1, <3>1, VerificationGoesOn
    <2>3. QED
      BY <1>1, <2>1, <2>2 DEF Answer
  <1>3. QED
    BY <1>2 DEF Answer

\* A fetch that ends without a result leaves the cache alone.
LEMMA FailsKeeps ==
  ASSUME KeyIInv, NEW f \in Flights, FetchFails(f)
  PROVE  KeyIInv'
  <1> USE KeyAssumption
  <1>1. NoFlight \in Flight /\ NoFlight.phase = "idle" /\ NoFlight.floor = 0
    BY DEF NoFlight, Flight
  <1>2. /\ flight' \in [Flights -> Flight] /\ flight'[f] = NoFlight
        /\ \A g \in Flights \ {f} : flight'[g] = flight[g]
    BY <1>1 DEF FetchFails, KeyIInv, KeyTypeOK, Flight
  <1>3. UNCHANGED <<idp, jwks, age, installedFetchGen, floor, negKIDs, gone>>
    BY DEF FetchFails, cacheVars
  <1>4. verify' \in [Verifiers -> Verification]
    <2>1. FALSE \in BOOLEAN
      OBVIOUS
    <2>2. QED
      BY <2>1, AnswerTyped DEF FetchFails, KeyIInv
  <1>5. KeyTypeOK'
    BY <1>2, <1>3, <1>4 DEF KeyIInv, KeyTypeOK, Flight, Verification
  <1>6. idp \in Keys
    BY DEF KeyIInv, KeyTypeOK
  <1>7. QED
    BY <1>1, <1>2, <1>3, <1>5, <1>6 DEF KeyIInv, ServedIsNotGone, FetchIsRecent, CacheIsRecent,
       FloorsAreServed, TicketsAreOrdered, Keys

\* A fetch that ends with a result: installed only if no later one is.
LEMMA InstallKeeps ==
  ASSUME KeyIInv, NEW f \in Flights, Install(f)
  PROVE  KeyIInv'
  <1> USE KeyAssumption
  <1> DEFINE result == IF NewestStarted(f) \/ jwks = 0 THEN flight[f].served ELSE jwks
  <1>1. NoFlight \in Flight /\ NoFlight.phase = "idle" /\ NoFlight.floor = 0
    BY DEF NoFlight, Flight
  <1>2. /\ flight' \in [Flights -> Flight] /\ flight'[f] = NoFlight
        /\ \A g \in Flights \ {f} : flight'[g] = flight[g]
        /\ flight \in [Flights -> Flight]
    BY <1>1 DEF Install, KeyIInv, KeyTypeOK, Flight
  <1>3. UNCHANGED <<idp, negKIDs, gone>>
    BY DEF Install
  <1>4. /\ flight[f].phase = "served" /\ flight[f].served \in Keys /\ flight[f].served <= idp
        /\ flight[f].floor <= flight[f].served
        /\ gone[flight[f].served] <= flight[f].age
    BY DEF KeyIInv, FetchIsRecent, Install
  <1>5. verify' \in [Verifiers -> Verification]
    <2>1. result \in Keys \cup {0}
      BY <1>4 DEF KeyIInv, KeyTypeOK
    <2>2. (result # jwks) \in BOOLEAN
      BY Zenon
    <2>3. Answer(f, result, result # jwks)
      BY Zenon DEF Install
    <2>4. QED
      BY <2>1, <2>2, <2>3, AnswerTyped DEF KeyIInv
  <1>6. CASE NewestStarted(f)
    <2>1. /\ jwks' = flight[f].served /\ age' = 0 /\ floor' = flight[f].floor
          /\ installedFetchGen' = flight[f].ticket
      BY <1>6 DEF Install
    <2>2. KeyTypeOK'
      BY <1>2, <1>3, <1>4, <1>5, <2>1 DEF KeyIInv, KeyTypeOK, Flight, Verification
    <2>3. ServedIsNotGone' /\ FetchIsRecent'
      BY <1>1, <1>2, <1>3 DEF KeyIInv, ServedIsNotGone, FetchIsRecent
    <2>4. CacheIsRecent' /\ FloorsAreServed'
      <3>1. idp \in Keys
        BY DEF KeyIInv, KeyTypeOK
      <3>2. QED
        BY <1>1, <1>2, <1>3, <1>4, <2>1, <3>1, KeyNumbers
           DEF KeyIInv, CacheIsRecent, FloorsAreServed, Keys, TrustBound
    <2>5. TicketsAreOrdered'
      BY <1>1, <1>2, <1>4, <2>1 DEF KeyIInv, TicketsAreOrdered
    <2>6. QED
      BY <2>2, <2>3, <2>4, <2>5 DEF KeyIInv
  <1>7. CASE ~NewestStarted(f)
    <2>1. UNCHANGED <<jwks, age, installedFetchGen, floor>>
      BY <1>7 DEF Install
    <2>2. KeyTypeOK'
      BY <1>2, <1>3, <1>5, <2>1 DEF KeyIInv, KeyTypeOK, Flight, Verification
    <2>3. idp \in Keys
      BY DEF KeyIInv, KeyTypeOK
    <2>4. QED
      BY <1>1, <1>2, <1>3, <2>1, <2>2, <2>3 DEF KeyIInv, ServedIsNotGone, FetchIsRecent,
         CacheIsRecent, FloorsAreServed, TicketsAreOrdered, Keys
  <1>8. QED
    BY <1>6, <1>7

\* The provider goes on to its next key set.
LEMMA RotateKeeps ==
  ASSUME KeyIInv, Rotate
  PROVE  KeyIInv'
  <1>1. /\ idp' = idp + 1 /\ idp < MaxKey
        /\ UNCHANGED <<jwks, age, installedFetchGen, floor, flight, negKIDs, verify, gone>>
    BY DEF Rotate, cacheVars
  <1>2. idp' \in Keys
    BY <1>1, KeyAssumption DEF KeyIInv, KeyTypeOK, Keys
  <1>3. KeyTypeOK'
    BY <1>1, <1>2 DEF KeyIInv, KeyTypeOK
  <1>4. \A k \in Keys : k \in Int
    BY KeyAssumption DEF Keys
  <1>5. QED
    BY <1>1, <1>3, <1>4, KeyNumbers DEF KeyIInv, ServedIsNotGone, FetchIsRecent, CacheIsRecent,
       FloorsAreServed, TicketsAreOrdered

\* Time passes for the cache, the fetches and what was withdrawn alike.
LEMMA TickKeeps ==
  ASSUME KeyIInv, KeyTick
  PROVE  KeyIInv'
  <1> USE KeyAssumption
  <1>1. UNCHANGED <<idp, jwks, installedFetchGen, verify, floor>>
    BY DEF KeyTick
  <1>2. ASSUME NEW f \in Flights
        PROVE  /\ flight'[f] \in Flight
               /\ flight'[f].phase = flight[f].phase /\ flight'[f].served = flight[f].served
               /\ flight'[f].ticket = flight[f].ticket /\ flight'[f].floor = flight[f].floor
               /\ flight[f].phase # "idle" => flight'[f].age = flight[f].age + 1
    <2>1. flight[f] \in Flight
      BY DEF KeyIInv, KeyTypeOK, Flight
    <2>2. flight'[f] = IF flight[f].phase = "idle" THEN flight[f]
                       ELSE [flight[f] EXCEPT !.age = @ + 1]
      BY DEF KeyTick
    <2>3. flight[f].phase # "idle" => flight[f].age + 1 \in 0..FetchTimeout
      BY <2>1 DEF KeyTick, Flight
    <2>4. QED
      BY <2>1, <2>2, <2>3 DEF Flight
  <1>3. flight' \in [Flights -> Flight]
    BY <1>2 DEF KeyTick
  <1>4. ASSUME NEW k \in Keys
        PROVE  /\ gone'[k] \in 0..TrustBound /\ gone'[k] <= gone[k] + 1
               /\ k >= idp => gone'[k] = gone[k]
    <2>1. k \in Int /\ idp \in Int /\ gone[k] \in 0..TrustBound /\ TrustBound \in Nat
      BY KeyNumbers DEF KeyIInv, Keys, TrustBound
    <2>2. gone'[k] = IF k < idp THEN More(gone[k], TrustBound) ELSE gone[k]
      BY DEF KeyTick
    <2>3. QED
      BY <2>1, <2>2 DEF More
  <1>5. gone' \in [Keys -> 0..TrustBound]
    BY <1>4 DEF KeyTick
  <1>6. /\ age' \in 0..cacheTTL
        /\ age' = IF age < cacheTTL THEN age + 1 ELSE cacheTTL
        /\ negKIDs' \in [Keys \cup {Sentinel} -> 0..negativeKIDTTL]
    <2>1. age \in 0..cacheTTL /\ age' = More(age, cacheTTL)
      BY DEF KeyIInv, KeyTypeOK, KeyTick
    <2>2. /\ age' \in 0..cacheTTL
          /\ age' = IF age < cacheTTL THEN age + 1 ELSE cacheTTL
      BY <2>1 DEF More
    <2>3. /\ negKIDs \in [Keys \cup {Sentinel} -> 0..negativeKIDTTL]
          /\ negKIDs' = [k \in DOMAIN negKIDs |-> Less(negKIDs[k])]
      BY DEF KeyIInv, KeyTypeOK, KeyTick
    <2>4. \A n \in 0..negativeKIDTTL : Less(n) \in 0..negativeKIDTTL
      BY DEF Less
    <2>5. negKIDs' \in [Keys \cup {Sentinel} -> 0..negativeKIDTTL]
      BY <2>3, <2>4
    <2>6. QED
      BY <2>2, <2>5
  <1>7. KeyTypeOK'
    BY <1>1, <1>3, <1>5, <1>6 DEF KeyIInv, KeyTypeOK, Flight
  <1>8. ServedIsNotGone' /\ FloorsAreServed' /\ TicketsAreOrdered'
    BY <1>1, <1>2, <1>4 DEF KeyIInv, ServedIsNotGone, FloorsAreServed, TicketsAreOrdered
  <1>9. FetchIsRecent'
    BY <1>1, <1>2, <1>4, KeyNumbers DEF KeyIInv, FetchIsRecent, TrustBound
  <1>10. CacheIsRecent'
    <2> SUFFICES ASSUME jwks # 0 PROVE gone'[jwks] <= FetchTimeout + age'
      BY <1>1 DEF CacheIsRecent
    <2>1. jwks \in Keys /\ age \in 0..cacheTTL
      BY DEF KeyIInv, KeyTypeOK
    <2>2. gone[jwks] <= FetchTimeout + age
      BY DEF KeyIInv, CacheIsRecent
    <2>3. QED
      BY <1>4, <1>6, <2>1, <2>2, KeyNumbers DEF TrustBound, KeyIInv
  <1>11. QED
    BY <1>7, <1>8, <1>9, <1>10 DEF KeyIInv
-----------------------------------------------------------------------------
(* The theorems. *)

\* Every step of the cache, and every one of the breaker alone, keeps the invariant.
LEMMA KeyNextIInv == KeyIInv /\ [AllNext]_allVars => KeyIInv'
  <1> SUFFICES ASSUME KeyIInv, [AllNext]_allVars PROVE KeyIInv'
    OBVIOUS
  <1>1. CASE UNCHANGED keyVars
    BY <1>1 DEF keyVars, KeyIInv, KeyTypeOK, ServedIsNotGone, FetchIsRecent, CacheIsRecent,
       FloorsAreServed, TicketsAreOrdered
  <1>2. CASE KeyNext
    <2>1. ASSUME NEW v \in Verifiers, NEW token \in Tokens, ValidateToken(v, token)
          PROVE  KeyIInv'
      BY <2>1, VerifyKeeps
    <2>2. ASSUME NEW v \in Verifiers, VerifySteps(v)
          PROVE  KeyIInv'
      <3>1. [kid |-> 1, genuine |-> TRUE] \in Tokens
        BY KeyAssumption DEF Tokens, Keys
      <3>2. CASE getKeysLive(v)
        BY <3>1, <3>2, VerifyKeeps
      <3>3. CASE forceRefreshed(v)
        BY <3>3, ForceRefreshedKeeps
      <3>4. QED
        BY <2>2, <3>2, <3>3 DEF VerifySteps
    <2>3. ASSUME NEW f \in Flights, FlightSteps(f) \/ FetchFails(f)
          PROVE  KeyIInv'
      BY <2>3, ServeKeeps, InstallKeeps, FailsKeeps DEF FlightSteps
    <2>4. CASE Rotate
      BY <2>4, RotateKeeps
    <2>5. CASE IdPRecovers
      BY <1>1, <2>5 DEF IdPRecovers
    <2>6. CASE KeyTick
      BY <2>6, TickKeeps
    <2>7. QED
      BY <1>2, <2>1, <2>2, <2>3, <2>4, <2>5, <2>6 DEF KeyNext
  <1>3. QED
    BY <1>1, <1>2 DEF AllNext, InCache, Alone, allVars

\* The inductive invariant is one.
LEMMA KeyInvariance == KeySpec => []KeyIInv
  BY KeyInitIInv, KeyNextIInv, PTL DEF KeySpec

\* The cache, the fetches and the verifications keep their types.
THEOREM KeyTypeCorrect == KeySpec => []KeyTypeOK
  BY KeyInvariance, PTL DEF KeyIInv

\* A withdrawn key is believed for no longer than a fetch and a TTL, for any lifetimes and
\* however fetches overlap, fail or are overtaken (freshAt, refresh).
THEOREM WithdrawnKeysAreForgotten == KeySpec => []WithdrawnKeysExpire
  <1>1. KeyIInv => WithdrawnKeysExpire
    <2> SUFFICES ASSUME KeyIInv, freshAt PROVE gone[jwks] < TrustBound
      BY DEF WithdrawnKeysExpire
    <2>1. jwks \in Keys /\ age \in 0..cacheTTL /\ age < cacheTTL
      BY DEF KeyIInv, KeyTypeOK, freshAt
    <2>2. QED
      BY <2>1, KeyNumbers, KeyAssumption DEF KeyIInv, CacheIsRecent, freshAt, TrustBound
  <1>2. QED
    BY <1>1, KeyInvariance, PTL

\* The order in which fetches complete cannot undo the order in which they started: the
\* cached set is never older than what was served when the newest installed fetch began.
THEOREM StartOrderPrevails == KeySpec => CompletionCannotUndoStart
  <1>1. ASSUME KeyIInv, KeyIInv', [AllNext]_allVars, ~UNCHANGED allVars
        PROVE  ~library => floor' >= floor /\ jwks' >= floor'
    <2>1. jwks' >= floor'
      BY <1>1, KeyNumbers DEF KeyIInv, FloorsAreServed, KeyTypeOK, Keys
    <2>2. floor' = floor \/ \E f \in Flights : Install(f)
      BY <1>1 DEF AllNext, InCache, Alone, KeyNext, ValidateToken, VerifySteps, getKeysLive,
         forceRefreshed, FlightSteps, ServeKeys, FetchFails, Rotate, IdPRecovers, KeyTick,
         cacheVars, keyVars
    <2>3. ASSUME NEW f \in Flights, Install(f) PROVE floor' >= floor
      BY <1>1, <2>3, KeyNumbers DEF Install, NewestStarted, KeyIInv, TicketsAreOrdered
    <2>4. floor \in Int
      BY <1>1, KeyNumbers DEF KeyIInv
    <2>5. QED
      BY <2>1, <2>2, <2>3, <2>4
  <1>2. QED
    BY <1>1, KeyInvariance, PTL DEF KeySpec, CompletionCannotUndoStart

\* The cache uses the breaker as its contract asks: every behaviour of the cache is one of
\* the breaker, so what is proved of the breaker holds behind it.
THEOREM CacheIsACaller == KeySpec => Spec
  <1>1. KeyInit => Init
    BY DEF KeyInit
  <1>2. ASSUME [AllNext]_allVars PROVE [Next]_vars
    <2>1. ASSUME NEW v \in Verifiers, NEW me, NEW f \in Flights, refresh(v, me, f)
          PROVE  [Next]_vars
      BY <2>1, KeyAssumption DEF refresh, JoinFlight, StartFetch, RefuseFetch, Next, Flights
    <2>2. ASSUME NEW v \in Verifiers, NEW me, NEW keys, Resolve(v, me, keys)
          PROVE  [Next]_vars
      BY <2>1, <2>2 DEF Resolve, Flights
    <2>3. ASSUME NEW v \in Verifiers, NEW token \in Tokens, ValidateToken(v, token)
          PROVE  [Next]_vars
      BY <2>1, <2>2, <2>3 DEF ValidateToken, Flights
    <2>4. ASSUME NEW v \in Verifiers, VerifySteps(v) PROVE [Next]_vars
      BY <2>2, <2>4 DEF VerifySteps, getKeysLive, forceRefreshed
    <2>5. ASSUME NEW f \in Flights, FlightSteps(f) \/ FetchFails(f) PROVE [Next]_vars
      BY <2>5, KeyAssumption DEF FlightSteps, ServeKeys, Install, FetchFails, Next
    <2>6. CASE Rotate \/ IdPRecovers
      BY <2>6 DEF Rotate, IdPRecovers, Next
    <2>7. CASE KeyTick
      BY <2>7 DEF KeyTick, Next, Tick, vars
    <2>8. CASE UNCHANGED allVars
      BY <2>8 DEF allVars
    <2>9. QED
      BY <1>2, <2>3, <2>4, <2>5, <2>6, <2>7, <2>8 DEF AllNext, InCache, Alone, KeyNext
  <1>3. QED
    BY <1>1, <1>2, PTL DEF KeySpec, Spec
=============================================================================
