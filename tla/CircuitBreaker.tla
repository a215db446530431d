--------------------------- MODULE CircuitBreaker ---------------------------
(***************************************************************************)
(* The circuit breaker of pkg/circuitbreaker: one Breaker shared by        *)
(* concurrent callers, each of which drives it through Do.  A caller is    *)
(* admitted by allow() under the breaker's mutex, runs its guarded         *)
(* function outside the mutex, and reports exactly one outcome later,      *)
(* possibly after the breaker has tripped, reopened or closed meanwhile.   *)
(* Each admitted call carries the half-open generation it was admitted     *)
(* under; an outcome of an earlier generation must not move the breaker.   *)
(*                                                                         *)
(* Time is kept only as far as the code reads it: sinceFailure is          *)
(* now - lastFailureTime, saturated at CooldownDuration.  The throughput   *)
(* totals and lastTransitionAt feed dashboards only and are left out.      *)
(***************************************************************************)
EXTENDS Naturals, FiniteSets

CONSTANTS
  Callers,            \* goroutines calling Do on this breaker
  FailureThreshold,   \* Config.FailureThreshold after New's clamping
  CooldownDuration,   \* Config.CooldownDuration, in ticks
  HalfOpenMaxProbes,  \* Config.HalfOpenMaxProbes after New's clamping
  MaxGen              \* bound: half-open windows opened while upstream is down

ASSUME ConfigAssumption ==
  /\ IsFiniteSet(Callers)
  /\ FailureThreshold \in Nat \ {0}
  /\ CooldownDuration \in Nat \ {0}
  /\ HalfOpenMaxProbes \in Nat \ {0}
  /\ MaxGen \in Nat

VARIABLES
  state,             \* "closed", "open" or "half-open"
  consecutiveFails,
  sinceFailure,      \* min(now - lastFailureTime, CooldownDuration)
  halfOpenProbes,    \* slots taken in the current half-open window
  halfOpenSuccess,
  halfOpenGen,
  call,              \* what each caller is doing, with its probe's generation
  upstream,          \* environment: "up" once the guarded service has recovered
  \* History variables, read by the properties only.
  epoch,             \* state transitions of the breaker so far
  proved,            \* successes, since the last trip, of calls admitted after it
  streak,            \* failures in a row of calls admitted since the last transition
  sinceTrip          \* ticks since the breaker last opened, saturated

vars == <<state, consecutiveFails, sinceFailure, halfOpenProbes, halfOpenSuccess,
          halfOpenGen, call, upstream, epoch, proved, streak, sinceTrip>>

ghosts == <<epoch, proved, streak, sinceTrip>>

State == {"closed", "open", "half-open"}

Idle == [running |-> FALSE, gen |-> 0, epoch |-> 0]

TypeOK ==
  /\ state \in State
  /\ consecutiveFails \in Nat
  /\ sinceFailure \in 0 .. CooldownDuration
  /\ halfOpenProbes \in 0 .. HalfOpenMaxProbes
  /\ halfOpenSuccess \in 0 .. HalfOpenMaxProbes
  /\ halfOpenGen \in Nat
  /\ call \in [Callers -> [running : BOOLEAN, gen : Nat, epoch : Nat]]
  /\ upstream \in {"down", "up"}
  /\ epoch \in Nat
  /\ proved \in Nat
  /\ streak \in Nat
  /\ sinceTrip \in 0 .. CooldownDuration

Init ==
  /\ state = "closed"
  /\ consecutiveFails = 0
  /\ sinceFailure = CooldownDuration     \* the zero lastFailureTime
  /\ halfOpenProbes = 0
  /\ halfOpenSuccess = 0
  /\ halfOpenGen = 0
  /\ call = [c \in Callers |-> Idle]
  /\ upstream = "down"
  /\ epoch = 0
  /\ proved = 0
  /\ streak = 0
  /\ sinceTrip = CooldownDuration

(***************************************************************************)
(* Admission: allow(), called by Do through allowProbe.  A refused call    *)
(* returns ErrOpen and changes nothing, so it has no action.               *)
(***************************************************************************)

CooledDown == sinceFailure >= CooldownDuration

Admitted(c) ==
  call' = [call EXCEPT ![c] = [running |-> TRUE, gen |-> halfOpenGen', epoch |-> epoch']]

AllowClosed(c) ==
  /\ state = "closed"
  /\ UNCHANGED <<state, consecutiveFails, sinceFailure, halfOpenProbes,
                 halfOpenSuccess, halfOpenGen>>
  /\ UNCHANGED ghosts
  /\ Admitted(c)

\* The first call past the cooldown opens a new half-open window.
AllowOpen(c) ==
  /\ state = "open"
  /\ CooledDown
  /\ upstream = "down" => halfOpenGen < MaxGen
  /\ state' = "half-open"
  /\ halfOpenGen' = halfOpenGen + 1
  /\ halfOpenProbes' = 1
  /\ halfOpenSuccess' = 0
  /\ consecutiveFails' = 0
  /\ epoch' = epoch + 1
  /\ streak' = 0
  /\ Admitted(c)
  /\ UNCHANGED <<sinceFailure, proved, sinceTrip>>

AllowHalfOpen(c) ==
  /\ state = "half-open"
  /\ halfOpenProbes < HalfOpenMaxProbes
  /\ halfOpenProbes' = halfOpenProbes + 1
  /\ UNCHANGED <<state, consecutiveFails, sinceFailure, halfOpenSuccess, halfOpenGen>>
  /\ UNCHANGED ghosts
  /\ Admitted(c)

Allow(c) ==
  /\ ~call[c].running
  /\ AllowClosed(c) \/ AllowOpen(c) \/ AllowHalfOpen(c)
  /\ UNCHANGED upstream

(***************************************************************************)
(* Outcomes: Do reports exactly one of success, failure (error, deadline   *)
(* or panic of the guarded function) and drop (the client cancelled).      *)
(***************************************************************************)

\* A call is fresh when the breaker has not changed state since admitting it.
Fresh(c) == call[c].epoch = epoch

Reported(c) ==
  /\ call[c].running
  /\ call' = [call EXCEPT ![c] = Idle]
  /\ UNCHANGED upstream

BreakerUnchanged ==
  UNCHANGED <<state, consecutiveFails, sinceFailure, halfOpenProbes, halfOpenSuccess,
              halfOpenGen>>

\* Mutant of Ignored: the generation guard is missing.
IgnoredOpenOnly(gen) == state = "open"

\* The early returns of recordSuccess and recordFailure.
Ignored(gen) == state = "open" \/ gen # halfOpenGen

CloseBreaker ==
  /\ state' = "closed"
  /\ halfOpenProbes' = 0
  /\ halfOpenSuccess' = 0
  /\ halfOpenGen' = halfOpenGen + 1

\* recordSuccess: closes the breaker when the window has collected
\* HalfOpenMaxProbes successes.
recordSuccess(gen) ==
  \/ Ignored(gen) /\ BreakerUnchanged
  \/ /\ ~Ignored(gen)
     /\ consecutiveFails' = 0
     /\ UNCHANGED sinceFailure
     /\ \/ /\ state # "half-open"
           /\ UNCHANGED <<state, halfOpenProbes, halfOpenSuccess, halfOpenGen>>
        \/ /\ state = "half-open" /\ halfOpenSuccess + 1 < HalfOpenMaxProbes
           /\ halfOpenSuccess' = halfOpenSuccess + 1
           /\ UNCHANGED <<state, halfOpenProbes, halfOpenGen>>
        \/ /\ state = "half-open" /\ halfOpenSuccess + 1 >= HalfOpenMaxProbes
           /\ CloseBreaker

\* Mutant of recordDrop: a cancelled probe keeps its slot.
recordDropLeaks(gen) == BreakerUnchanged

\* recordDrop: gives back the slot of a live half-open probe.
recordDrop(gen) ==
  \/ /\ state # "half-open" \/ gen # halfOpenGen
     /\ BreakerUnchanged
  \/ /\ state = "half-open" /\ gen = halfOpenGen
     /\ halfOpenProbes' = IF halfOpenProbes > 0 THEN halfOpenProbes - 1 ELSE 0
     /\ UNCHANGED <<state, consecutiveFails, sinceFailure, halfOpenSuccess, halfOpenGen>>

\* recordFailure: trips the breaker at the threshold, or at once from
\* half-open.  The generation is not bumped.
recordFailure(gen) ==
  \/ Ignored(gen) /\ BreakerUnchanged
  \/ /\ ~Ignored(gen)
     /\ sinceFailure' = 0
     /\ UNCHANGED <<halfOpenProbes, halfOpenGen>>
     /\ \/ /\ state # "half-open"
           /\ consecutiveFails' = consecutiveFails + 1
           /\ state' = IF consecutiveFails + 1 >= FailureThreshold THEN "open" ELSE state
           /\ UNCHANGED halfOpenSuccess
        \/ /\ state = "half-open"
           /\ state' = "open"
           /\ halfOpenSuccess' = 0
           /\ consecutiveFails' = FailureThreshold

\* History bookkeeping of the outcome steps: what the environment saw,
\* computed from the admission epochs and never from the generation.
EpochStep ==
  /\ epoch' = IF state' # state THEN epoch + 1 ELSE epoch
  /\ sinceTrip' = IF state' = "open" /\ state # "open" THEN 0 ELSE sinceTrip

Succeed(c) ==
  /\ Reported(c)
  /\ recordSuccess(call[c].gen)
  /\ EpochStep
  /\ proved' = IF Fresh(c) /\ state = "half-open" THEN proved + 1 ELSE proved
  /\ streak' = IF Fresh(c) THEN 0 ELSE streak

Fail(c) ==
  /\ upstream = "down"
  /\ Reported(c)
  /\ recordFailure(call[c].gen)
  /\ EpochStep
  /\ proved' = IF state' # state THEN 0 ELSE proved
  /\ streak' = IF Fresh(c) THEN streak + 1 ELSE streak

\* The client cancelled its own context: neither success nor failure.  The
\* bound on cancellations is that they stop when the upstream recovers.
Drop(c) ==
  /\ upstream = "down"
  /\ Reported(c)
  /\ recordDrop(call[c].gen)
  /\ UNCHANGED ghosts

Saturate(n) == IF n < CooldownDuration THEN n + 1 ELSE n

Tick ==
  /\ sinceFailure' = Saturate(sinceFailure)
  /\ sinceTrip' = Saturate(sinceTrip)
  /\ <<sinceFailure, sinceTrip>>' # <<sinceFailure, sinceTrip>>
  /\ UNCHANGED <<state, consecutiveFails, halfOpenProbes, halfOpenSuccess, halfOpenGen,
                 call, upstream, epoch, proved, streak>>

\* Environment: the guarded service recovers for good.
Recover ==
  /\ upstream = "down"
  /\ upstream' = "up"
  /\ BreakerUnchanged
  /\ UNCHANGED <<call, epoch, proved, streak, sinceTrip>>

Next ==
  \/ \E c \in Callers : Allow(c) \/ Succeed(c) \/ Fail(c) \/ Drop(c)
  \/ Tick
  \/ Recover

Spec == Init /\ [][Next]_vars

(***************************************************************************)
(* Fairness.  A clock advances; Do reports the outcome of every call it    *)
(* admitted (its deferred failure covers a panic); clients keep calling,   *)
(* so one that could be admitted is; and the upstream recovers at last.    *)
(***************************************************************************)
Fairness ==
  /\ WF_vars(Tick)
  /\ WF_vars(Recover)
  /\ \A c \in Callers : WF_vars(Allow(c)) /\ WF_vars(Succeed(c))

LiveSpec == Spec /\ Fairness

-----------------------------------------------------------------------------
LiveProbes == {c \in Callers : call[c].running /\ call[c].gen = halfOpenGen}

\* No slot of a half-open window leaks: every slot taken belongs to a probe
\* still running or to one that succeeded in this window.  It is what keeps
\* allow() from refusing everybody for ever (breaker.go, Breaker's contract:
\* "a probe that never reports wedges the breaker in half-open").
SlotAccounting ==
  state = "half-open" => halfOpenProbes = Cardinality(LiveProbes) + halfOpenSuccess

\* recordFailure's comment: "Open implies >= FailureThreshold".  A late
\* success of a call admitted before the trip must not zero the count.
OpenImpliesThreshold == state = "open" => consecutiveFails >= FailureThreshold

\* While open, the cooldown that allow() and projectedState compare against
\* runs from the trip itself: stragglers failing while open neither extend
\* nor shorten it (recordFailure: "must not touch the cooldown clock").
CooldownRunsFromTrip == state = "open" => sinceFailure = sinceTrip

\* The breaker closes only after HalfOpenMaxProbes successes of calls that
\* were admitted after the last trip, whatever stale outcomes arrive.
ClosingIsEarned == state # "closed" /\ state' = "closed" => proved' = HalfOpenMaxProbes
ClosesOnFreshEvidence == [][ClosingIsEarned]_vars

\* A closed breaker opens only after FailureThreshold failures in a row of
\* calls admitted since it closed: a call that outlived the outage and fails
\* after the recovery cannot count towards re-opening it.
TrippingIsEarned == state = "closed" /\ state' = "open" => streak' >= FailureThreshold
TripsOnFreshFailures == [][TrippingIsEarned]_vars

\* The breaker loses no slot and changes its mind only on evidence gathered since it
\* last did, whatever outcomes come late (breaker.go, Ignored's generations).
BreakerIsSound == [][SlotAccounting' /\ ClosingIsEarned /\ TrippingIsEarned]_vars

\* Once the upstream has recovered the breaker closes for good: no history of
\* failures, panics and cancelled probes leaves it open or wedged half-open.
RecoversForGood == <>[](state = "closed")
=============================================================================
