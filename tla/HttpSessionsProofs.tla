------------------------- MODULE HttpSessionsProofs -------------------------
(***************************************************************************)
(* Proofs about HttpSessions for any finite set of attempts, any cap and    *)
(* any number of kills.  The inductive invariant ties three records of an   *)
(* attempt to each other: the stage of its request, the table entry of its  *)
(* worker, and the life of the worker's upstream.                           *)
(*                                                                         *)
(* The second part is about AnchorGates, the gates the sessions' requests   *)
(* take their decision turns on, for any finite sets of requests and        *)
(* sessions, any anchors and any size of the cache.  Its inductive          *)
(* invariant counts the owners of every gate's references.                  *)
(***************************************************************************)
EXTENDS HttpSessions, AnchorGates, FiniteSetTheorems, TLAPS

Establishing == {"open", "register", "drift", "unregister", "settle"}
Afterwards == {"settle", "confirm", "release", "adopt", "awaitAdopted", "post", "awaitPost",
               "served", "refused"}

\* The table holds a worker under its own id only.
RegisteredUnderItsKey == \A k \in Keys : sessions[k] # None => KeyOf(sessions[k]) = k

\* The establishing window is the creator's way to finishEstablishing.
WindowIsCreators == \A a \in Attempts : a \in initing <=> pc[a] \in Establishing

\* An upstream that runs unregistered is about to be registered or refused.
OpenIsRegistering == \A a \in Attempts : life[a] = "open" => pc[a] = "register"

\* A registered worker is being checked for drift, is being dropped, or passed.
RegisteredIsChecked ==
  \A a \in Attempts : Registered(a) => \/ pc[a] \in {"drift", "unregister"}
                                       \/ a \in vetted /\ pc[a] \in Afterwards

\* Who waits has somebody to wait for.
WaitsForSomebody ==
  \A a \in Attempts : pc[a] \in {"await", "awaitAdopted", "awaitPost"} => target[a] # None

\* A worker that is dropped for drift is being closed.
DriftedIsClosing ==
  \A a \in Attempts : pc[a] = "unregister" /\ life[a] = "live" => a \in closing

\* No upstream runs that is neither in the table nor being closed, after shutdown
\* none that is not being closed.
LiveIsOwned ==
  \A a \in Attempts : life[a] = "live" => a \in closing \/ (Registered(a) /\ stopping # "yes")

\* What is registered began in the current generation.
CurrentGeneration == \A a \in Attempts : Registered(a) => startGen[a] = reapGen

\* A killed worker past its window that nobody closes has a sweep ahead of it.
KilledIsNoticed ==
  \A a \in Attempts :
    Registered(a) /\ life[a] = "live" /\ a \notin closing /\ sessionKilled(a) =>
      \/ pc[a] \in {"drift", "settle", "confirm"}
      \/ unannounced # {} \/ revoked \/ a \in sweep \/ stopping # "no"

\* Workers and reservations together fit: a worker that registers already holds one.
SlotsFit ==
  /\ establishing = Cardinality(Reserving)
  /\ Cardinality(Workers \cup Reserving) <= maxSessions

Shape ==
  /\ RegisteredUnderItsKey /\ WindowIsCreators /\ OpenIsRegistering /\ RegisteredIsChecked
  /\ WaitsForSomebody /\ DriftedIsClosing /\ LiveIsOwned /\ CurrentGeneration
  /\ KilledIsNoticed /\ ServedOnVettedWorker /\ ReleaseSparesSuccessors

IInv == TypeOK /\ Shape /\ SlotsFit

\* The initial state satisfies the inductive invariant.
LEMMA InitIInv == Init => IInv
  <1> SUFFICES ASSUME Init PROVE IInv
    OBVIOUS
  <1>0. revoked \in BOOLEAN
    BY Zenon DEF Init
  <1>1. TypeOK
    BY <1>0, SessionAssumption DEF Init, TypeOK, Stages, Lives, Keys
  <1>2. Shape
    BY SessionAssumption DEF Init, Shape, Keys, RegisteredUnderItsKey, WindowIsCreators,
       OpenIsRegistering, RegisteredIsChecked, WaitsForSomebody, DriftedIsClosing, LiveIsOwned,
       CurrentGeneration, KilledIsNoticed, ServedOnVettedWorker, ReleaseSparesSuccessors,
       Registered, KeyOf, Establishing
  <1>3. SlotsFit
    <2>1. Workers \cup Reserving = {} /\ Reserving = {}
      BY DEF Init, Workers, Reserving
    <2>2. QED
      BY <2>1, FS_EmptySet, SessionAssumption DEF Init, SlotsFit
  <1>4. QED
    BY <1>1, <1>2, <1>3 DEF IInv

\* Every step of an attempt keeps the shape.
LEMMA AttemptKeepsShape ==
  ASSUME TypeOK, Shape, NEW a \in Attempts, Arrive(a) \/ Attempt(a) \/ waiterGone(a)
  PROVE  Shape'
  <1> USE SessionAssumption DEF TypeOK, Shape, RegisteredUnderItsKey, WindowIsCreators,
       OpenIsRegistering, RegisteredIsChecked, WaitsForSomebody, DriftedIsClosing, LiveIsOwned,
       CurrentGeneration, KilledIsNoticed, ServedOnVettedWorker, ReleaseSparesSuccessors,
       Registered, KeyOf, Keys, Establishing, Afterwards, Stages, sessionKilled, Goto,
       table, kill, work
  <1>1. CASE Arrive(a)
    BY <1>1 DEF Arrive
  <1>2. CASE firstRequestSession(a)
    BY <1>2 DEF firstRequestSession, Find
  <1>3. CASE awaitEstablished(a, "await", "check")
    BY <1>3 DEF awaitEstablished, workerServable, StillComing
  <1>4. CASE creationGates(a)
    BY <1>4 DEF creationGates
  <1>5. CASE tryReserveSessionSlot(a)
    BY <1>5 DEF tryReserveSessionSlot
  <1>6. CASE OpenUpstream(a)
    BY <1>6 DEF OpenUpstream
  <1>7. CASE registerSession(a)
    BY <1>7 DEF registerSession, MayRegister
  <1>8. CASE runDriftCheckOrTeardown(a)
    BY <1>8 DEF runDriftCheckOrTeardown, Running
  <1>9. CASE DropDrifted(a)
    BY <1>9 DEF DropDrifted, Unregister
  <1>10. CASE finishEstablishing(a)
    BY <1>10 DEF finishEstablishing
  <1>11. CASE ReclaimIfKilled(a)
    BY <1>11 DEF ReclaimIfKilled, KilledMeanwhile, Running
  <1>12. CASE releaseSessionSlot(a)
    BY <1>12 DEF releaseSessionSlot
  <1>13. CASE createFirstRequestSession(a)
    BY <1>13 DEF createFirstRequestSession, Find
  <1>14. CASE awaitEstablished(a, "awaitAdopted", "refused")
    BY <1>14 DEF awaitEstablished, workerServable, StillComing
  <1>15. CASE ResolveSession(a)
    BY <1>15 DEF ResolveSession, Find
  <1>16. CASE awaitServableWorker(a)
    BY <1>16 DEF awaitServableWorker, workerServable, StillComing
  <1>17. CASE waiterGone(a)
    BY <1>17 DEF waiterGone
  <1>18. QED
    BY <1>1, <1>2, <1>3, <1>4, <1>5, <1>6, <1>7, <1>8, <1>9, <1>10, <1>11, <1>12, <1>13, <1>14,
       <1>15, <1>16, <1>17 DEF Attempt

\* So does every step of a kill, of the sweeper and the reaper, of a worker's end and of
\* shutdown.
LEMMA OthersKeepShape ==
  ASSUME TypeOK, Shape, Next, ~\E a \in Attempts : Arrive(a) \/ Attempt(a) \/ waiterGone(a)
  PROVE  Shape'
  <1> USE SessionAssumption DEF TypeOK, Shape, RegisteredUnderItsKey, WindowIsCreators,
       OpenIsRegistering, RegisteredIsChecked, WaitsForSomebody, DriftedIsClosing, LiveIsOwned,
       CurrentGeneration, KilledIsNoticed, ServedOnVettedWorker, ReleaseSparesSuccessors,
       Registered, KeyOf, Keys, sessionKilled, attempt, table, kill, work
  <1>1. ASSUME NEW scope \in Scopes, KillSession(scope) PROVE Shape'
    BY <1>1 DEF KillSession, Gained, Scopes
  <1>2. ASSUME NEW scope \in Scopes, notify(scope) PROVE Shape'
    BY <1>2 DEF notify
  <1>3. ASSUME NEW scope \in Scopes, ReviveSession(scope) PROVE Shape'
    BY <1>3 DEF ReviveSession
  <1>4. ASSUME NEW a \in Attempts, sweepKilledSessions(a) PROVE Shape'
    BY <1>4 DEF sweepKilledSessions, Running, Establishing, Afterwards
  <1>5. ASSUME NEW a \in Attempts, reapOnce(a) PROVE Shape'
    BY <1>5 DEF reapOnce, Running, Workers
  <1>6. ASSUME NEW a \in Attempts, UpstreamEnds(a) PROVE Shape'
    BY <1>6 DEF UpstreamEnds, Live
  <1>7. ASSUME NEW a \in Attempts, unregisterSession(a) PROVE Shape'
    BY <1>7 DEF unregisterSession, Live, Unregister
  <1>8. ASSUME NEW a \in Attempts, RecheckOwner(a) PROVE Shape'
    BY <1>8 DEF RecheckOwner, Live, NoSuccessor
  <1>9. ASSUME NEW a \in Attempts, releaseSessionIDState(a) PROVE Shape'
    BY <1>9 DEF releaseSessionIDState, Live, ReleasedElsewhere
  <1>10. ASSUME NEW k \in Keys, handleMCPDelete(k) PROVE Shape'
    BY <1>10 DEF handleMCPDelete, Remove, Running
  <1>11. CASE teardownAllSessionsForGlobalKill
    BY <1>11 DEF teardownAllSessionsForGlobalKill, handleKill, drainAllSessions, Running, Workers
  <1>12. CASE teardownSessionByID
    BY <1>12 DEF teardownSessionByID, handleKill, Remove, Running
  <1>13. CASE reclaimOnRevocation
    BY <1>13 DEF reclaimOnRevocation, Workers
  <1>14. CASE ServeEnds
    BY <1>14 DEF ServeEnds
  <1>15. CASE closeAllSessions
    BY <1>15 DEF closeAllSessions, drainAllSessions, Running, Workers
  <1>16. CASE Finished
    BY <1>16 DEF Finished, vars
  <1>17. QED
    BY <1>1, <1>2, <1>3, <1>4, <1>5, <1>6, <1>7, <1>8, <1>9, <1>10, <1>11, <1>12, <1>13, <1>14,
       <1>15, <1>16 DEF Next

-----------------------------------------------------------------------------
(* Types. *)

\* Every step keeps the types.
LEMMA TypeStep ==
  ASSUME TypeOK, [Next]_vars
  PROVE  TypeOK'
  <1> USE SessionAssumption DEF TypeOK, Keys, table, kill, work, attempt
  <1>1. ASSUME NEW a \in Attempts, Arrive(a) \/ Attempt(a) \/ waiterGone(a) PROVE TypeOK'
    BY <1>1 DEF Arrive, Attempt, waiterGone, firstRequestSession, Find, awaitEstablished,
       creationGates, tryReserveSessionSlot, OpenUpstream, registerSession,
       runDriftCheckOrTeardown, DropDrifted, Unregister, finishEstablishing, ReclaimIfKilled,
       releaseSessionSlot, createFirstRequestSession, ResolveSession, awaitServableWorker,
       Goto, KeyOf, Running, Registered, Stages, Lives
  <1>2. ASSUME NEW scope \in Scopes, KillSession(scope) \/ notify(scope) \/ ReviveSession(scope)
        PROVE  TypeOK'
    <2>1. revoked' \in BOOLEAN
      BY <1>2, Zenon DEF KillSession, notify, ReviveSession
    <2>2. QED
      BY <1>2, <2>1 DEF KillSession, notify, ReviveSession, Scopes, KeyOf, Gained
  <1>3. ASSUME NEW a \in Attempts,
               sweepKilledSessions(a) \/ reapOnce(a) \/ UpstreamEnds(a) \/ unregisterSession(a)
                 \/ RecheckOwner(a) \/ releaseSessionIDState(a)
        PROVE  TypeOK'
    BY <1>3 DEF sweepKilledSessions, reapOnce, UpstreamEnds, unregisterSession, RecheckOwner,
       releaseSessionIDState, Live, Unregister, Running, KeyOf, Lives
  <1>4. ASSUME NEW k \in Keys, handleMCPDelete(k) PROVE TypeOK'
    BY <1>4 DEF handleMCPDelete, Remove, Running
  <1>5. CASE teardownAllSessionsForGlobalKill \/ teardownSessionByID
    BY <1>5 DEF teardownAllSessionsForGlobalKill, teardownSessionByID, drainAllSessions, Remove,
       Running, Workers
  <1>6. CASE reclaimOnRevocation
    <2>1. revoked' \in BOOLEAN
      BY <1>6, Zenon DEF reclaimOnRevocation
    <2>2. QED
      BY <1>6, <2>1 DEF reclaimOnRevocation, Workers
  <1>7. CASE ServeEnds \/ closeAllSessions
    BY <1>7 DEF ServeEnds, closeAllSessions, drainAllSessions, Running, Workers
  <1>8. CASE Finished \/ UNCHANGED vars
    BY <1>8 DEF Finished, vars
  <1>9. QED
    BY <1>1, <1>2, <1>3, <1>4, <1>5, <1>6, <1>7, <1>8 DEF Next
-----------------------------------------------------------------------------
(* The slots. *)

\* The sets the cap is about are finite.
LEMMA SlotsFinite ==
  ASSUME TypeOK
  PROVE  /\ IsFiniteSet(Workers) /\ IsFiniteSet(Reserving)
         /\ IsFiniteSet(Workers \cup Reserving)
         /\ Cardinality(Workers) \in Nat /\ Cardinality(Reserving) \in Nat
         /\ Cardinality(Workers \cup Reserving) \in Nat
  <1>1. Workers \subseteq Attempts /\ Reserving \subseteq Attempts
    BY DEF TypeOK, Workers, Reserving
  <1>2. Workers \cup Reserving \subseteq Attempts
    BY <1>1
  <1>3. QED
    BY <1>1, <1>2, SessionAssumption, FS_Subset, FS_CardinalityType

\* Nobody reserves or releases, and the table gains nobody who holds no slot.
Quiet ==
  /\ Reserving' = Reserving /\ establishing' = establishing /\ maxSessions' = maxSessions
  /\ Workers' \subseteq Workers \cup Reserving

\* --max-sessions is a natural number.
LEMMA CapIsNatural ==
  ASSUME TypeOK
  PROVE  maxSessions \in Nat
  BY SessionAssumption DEF TypeOK

\* A step that keeps the reservations keeps the cap.
LEMMA QuietKeepsSlots ==
  ASSUME TypeOK, SlotsFit, Quiet
  PROVE  SlotsFit'
  <1>1. (Workers \cup Reserving)' \subseteq Workers \cup Reserving
    BY DEF Quiet
  <1>2. Cardinality((Workers \cup Reserving)') <= Cardinality(Workers \cup Reserving)
    BY <1>1, SlotsFinite, FS_Subset
  <1>3. Cardinality((Workers \cup Reserving)') \in Nat
    BY <1>1, SlotsFinite, FS_Subset, FS_CardinalityType
  <1>4. QED
    BY <1>2, <1>3, SlotsFinite, CapIsNatural DEF SlotsFit, Quiet

\* tryReserveSessionSlot takes a slot the table and the reservations leave.
LEMMA ReserveKeepsSlots ==
  ASSUME TypeOK, SlotsFit, NEW a \in Attempts, tryReserveSessionSlot(a)
  PROVE  SlotsFit'
  <1>1. Workers' = Workers /\ a \notin Reserving /\ maxSessions' = maxSessions
    BY DEF tryReserveSessionSlot, Goto, Workers, Reserving
  <1>2. CASE ~SlotFree
    <2>1. Quiet
      BY <1>1, <1>2 DEF tryReserveSessionSlot, Goto, Quiet, Reserving, TypeOK
    <2>2. QED
      BY <2>1, QuietKeepsSlots
  <1>3. CASE SlotFree
    <2>1. Reserving' = Reserving \cup {a} /\ establishing' = establishing + 1
      BY <1>3 DEF tryReserveSessionSlot, Goto, Reserving, TypeOK
    <2>2. Cardinality(Reserving \cup {a}) = Cardinality(Reserving) + 1
      BY <1>1, SlotsFinite, FS_AddElement
    <2>3. Cardinality(Workers \cup (Reserving \cup {a}))
            <= Cardinality(Workers) + Cardinality(Reserving \cup {a})
      <3>1. IsFiniteSet(Reserving \cup {a})
        BY SlotsFinite, FS_AddElement
      <3>2. Cardinality(Workers \cup (Reserving \cup {a})) =
              Cardinality(Workers) + Cardinality(Reserving \cup {a})
                - Cardinality(Workers \cap (Reserving \cup {a}))
        BY <3>1, SlotsFinite, FS_Union
      <3>3. Cardinality(Workers \cap (Reserving \cup {a})) \in Nat
        BY SlotsFinite, FS_Intersection, FS_CardinalityType
      <3>4. QED
        BY <3>2, <3>3, <2>2, SlotsFinite
    <2>4. Cardinality(Workers \cup (Reserving \cup {a})) \in Nat
      <3>1. IsFiniteSet(Reserving \cup {a})
        BY SlotsFinite, FS_AddElement
      <3>2. QED
        BY <3>1, SlotsFinite, FS_Union, FS_CardinalityType
    <2>5. QED
      BY <1>1, <1>3, <2>1, <2>2, <2>3, <2>4, SlotsFinite, CapIsNatural
         DEF SlotsFit, SlotFree
  <1>4. QED
    BY <1>2, <1>3

\* releaseSessionSlot gives back the slot its attempt holds, once.
LEMMA ReleaseKeepsSlots ==
  ASSUME TypeOK, SlotsFit, NEW a \in Attempts, releaseSessionSlot(a)
  PROVE  SlotsFit'
  <1>1. /\ a \in Reserving /\ Reserving' = Reserving \ {a}
        /\ Workers' = Workers /\ maxSessions' = maxSessions
        /\ establishing' = IF establishing > 0 THEN establishing - 1 ELSE 0
    BY DEF releaseSessionSlot, Goto, Reserving, Workers, TypeOK
  <1>2. Cardinality(Reserving \ {a}) = Cardinality(Reserving) - 1
    BY <1>1, SlotsFinite, FS_RemoveElement
  <1>3. Cardinality(Reserving \ {a}) \in Nat
    BY <1>1, SlotsFinite, FS_RemoveElement, FS_CardinalityType
  <1>4. (Workers \cup Reserving)' \subseteq Workers \cup Reserving
    BY <1>1
  <1>5. /\ Cardinality((Workers \cup Reserving)') <= Cardinality(Workers \cup Reserving)
        /\ Cardinality((Workers \cup Reserving)') \in Nat
    BY <1>4, SlotsFinite, FS_Subset, FS_CardinalityType
  <1>6. QED
    BY <1>1, <1>2, <1>3, <1>5, SlotsFinite, CapIsNatural DEF SlotsFit

\* Every step keeps the cap.
LEMMA SlotsStep ==
  ASSUME TypeOK, SlotsFit, [Next]_vars
  PROVE  SlotsFit'
  <1> USE DEF Quiet, Workers, Reserving, TypeOK, table, kill, work, attempt
  <1>1. ASSUME NEW a \in Attempts, tryReserveSessionSlot(a) PROVE SlotsFit'
    BY <1>1, ReserveKeepsSlots
  <1>2. ASSUME NEW a \in Attempts, releaseSessionSlot(a) PROVE SlotsFit'
    BY <1>2, ReleaseKeepsSlots
  <1>3. ASSUME NEW a \in Attempts, registerSession(a) PROVE Quiet
    BY <1>3 DEF registerSession, Goto, KeyOf, Keys
  <1>4. ASSUME NEW a \in Attempts,
               \/ Arrive(a) \/ waiterGone(a) \/ firstRequestSession(a)
               \/ awaitEstablished(a, "await", "check") \/ creationGates(a)
               \/ OpenUpstream(a) \/ runDriftCheckOrTeardown(a) \/ DropDrifted(a)
               \/ finishEstablishing(a) \/ ReclaimIfKilled(a) \/ createFirstRequestSession(a)
               \/ awaitEstablished(a, "awaitAdopted", "refused") \/ ResolveSession(a)
               \/ awaitServableWorker(a)
        PROVE  Quiet
    BY <1>4 DEF Arrive, waiterGone, firstRequestSession, Find, awaitEstablished, creationGates,
       OpenUpstream, runDriftCheckOrTeardown, DropDrifted, Unregister, finishEstablishing,
       ReclaimIfKilled, createFirstRequestSession, ResolveSession, awaitServableWorker, Goto
  <1>5. ASSUME NEW scope \in Scopes, KillSession(scope) \/ notify(scope) \/ ReviveSession(scope)
        PROVE  Quiet
    BY <1>5 DEF KillSession, notify, ReviveSession
  <1>6. ASSUME NEW a \in Attempts,
               sweepKilledSessions(a) \/ reapOnce(a) \/ UpstreamEnds(a) \/ unregisterSession(a)
                 \/ RecheckOwner(a) \/ releaseSessionIDState(a)
        PROVE  Quiet
    BY <1>6 DEF sweepKilledSessions, reapOnce, UpstreamEnds, unregisterSession, RecheckOwner,
       releaseSessionIDState, Live, Unregister
  <1>7. ASSUME NEW k \in Keys, handleMCPDelete(k) PROVE Quiet
    BY <1>7 DEF handleMCPDelete, Remove
  <1>8. CASE teardownAllSessionsForGlobalKill \/ teardownSessionByID \/ closeAllSessions
    <2>1. Quiet
      BY <1>8 DEF teardownAllSessionsForGlobalKill, teardownSessionByID, closeAllSessions,
         drainAllSessions, Remove
    <2>2. QED
      BY <2>1, QuietKeepsSlots
  <1>9. CASE reclaimOnRevocation \/ ServeEnds \/ Finished \/ UNCHANGED vars
    <2>1. Quiet
      BY <1>9 DEF reclaimOnRevocation, ServeEnds, Finished, vars
    <2>2. QED
      BY <2>1, QuietKeepsSlots
  <1>10. QED
    BY <1>1, <1>2, <1>3, <1>4, <1>5, <1>6, <1>7, <1>8, <1>9, QuietKeepsSlots DEF Next, Attempt
-----------------------------------------------------------------------------
(* The theorems. *)

\* Every step preserves the inductive invariant.
LEMMA NextIInv == IInv /\ [Next]_vars => IInv'
  <1> SUFFICES ASSUME IInv, [Next]_vars PROVE IInv'
    OBVIOUS
  <1>1. TypeOK' /\ SlotsFit'
    BY TypeStep, SlotsStep DEF IInv
  <1>2. CASE Next
    BY <1>1, <1>2, AttemptKeepsShape, OthersKeepShape DEF IInv
  <1>3. CASE UNCHANGED vars
    BY <1>1, <1>3 DEF IInv, vars, table, kill, work, Shape, RegisteredUnderItsKey,
       WindowIsCreators, OpenIsRegistering, RegisteredIsChecked, WaitsForSomebody,
       DriftedIsClosing, LiveIsOwned, CurrentGeneration, KilledIsNoticed, ServedOnVettedWorker,
       ReleaseSparesSuccessors, Registered, KeyOf, sessionKilled
  <1>4. QED
    BY <1>2, <1>3

\* The inductive invariant is one.
LEMMA Invariance == Spec => []IInv
  BY InitIInv, NextIInv, PTL DEF Spec

\* The session table, the stages and the kill state keep their types.
THEOREM TypeCorrect == Spec => []TypeOK
  BY Invariance, PTL DEF IInv

\* The cap: tryReserveSessionSlot, registerSession and releaseSessionSlot between them
\* never let the registered workers and the attempts that hold a reservation exceed
\* --max-sessions, and the counter is the reservations held, whatever is torn down in
\* between.
THEOREM CapHolds == Spec => []CapCoversStarting
  BY Invariance, PTL DEF IInv, SlotsFit, CapCoversStarting

\* A registered worker is the worker of its own id, so Workers are the registered.
LEMMA WorkersAreRegistered ==
  ASSUME IInv, NEW b \in Workers
  PROVE  b \in Attempts /\ Registered(b)
  BY SessionAssumption DEF IInv, TypeOK, Shape, RegisteredUnderItsKey, Workers, Registered

\* No message runs on a worker that did not pass the drift check, and no killed worker
\* is overlooked by the kill handler, the sweeper and the end of its window together.
THEOREM ServersAreFit == Spec => []OnlyFitWorkersServe
  <1>1. ASSUME IInv PROVE OnlyFitWorkersServe
    <2>1. \A b \in Workers : startGen[b] = reapGen
      BY <1>1, WorkersAreRegistered DEF IInv, Shape, CurrentGeneration
    <2>2. ASSUME NEW b \in Running(Workers) \ closing, sessionKilled(b)
          PROVE  \/ pc[b] \in {"drift", "settle", "confirm"}
                 \/ unannounced # {} \/ revoked \/ b \in sweep \/ stopping # "no"
      BY <1>1, <2>2, WorkersAreRegistered DEF IInv, Shape, KilledIsNoticed, Running
    <2>3. QED
      BY <1>1, <2>1, <2>2
         DEF IInv, Shape, OnlyFitWorkersServe, KillReachesEveryWorker
  <1>2. QED
    BY <1>1, Invariance, PTL

\* The cleanup of a worker releases the state of its id under nobody but a successor
\* that registered during that very call.
THEOREM CleanupSparesSuccessors == Spec => []ReleaseSparesSuccessors
  BY Invariance, PTL DEF IInv, Shape

\* Every wait is for a creator on its way, and shutdown leaves no upstream behind.
THEOREM NoneStranded == Spec => []NobodyIsStranded
  <1>1. IInv => NobodyIsStranded
    BY DEF IInv, TypeOK, Shape, WindowIsCreators, Establishing, LiveIsOwned, OpenIsRegistering,
       NobodyIsStranded, WaitsEnd, ShutdownEndsUpstreams
  <1>2. QED
    BY <1>1, Invariance, PTL

-----------------------------------------------------------------------------
(* The decision gates.                                                     *)

\* Where a request is on its way: in or before a turn, with a use of an entry, with
\* a reference of its own on the registry tier, behind its filing of an entry.
Turning == {"queued", "turned", "deciding", "ending"}
Using == {"surplus", "queued", "deciding", "ending", "leaving"}
Referring == {"queued", "deciding", "ending", "leaving"}
Placed == Turning \cup {"leaving", "returning", "done"}
Reaching == {"admitted", "missed", "inserting", "surplus", "uncached"} \cup Turning \cup {"leaving"}
Places == {"new", "resolved", "counted", "returning", "done"} \cup Reaching

OnRegistry(r) == tier[r] = "registry" /\ at[r] \in Referring

\* Gates are filed under one anchor each, and later ones have greater numbers.
RegistryIsSound ==
  /\ \A a \in Anchors : registry[a] <= built
  /\ \A a, b \in Anchors : registry[a] = registry[b] /\ registry[a] # NoGate => a = b

\* Whoever owns a reference owns it on the gate that is filed under its anchor.
OwnersAreFiled ==
  /\ \A s \in pinned : pin[s] # NoGate /\ registry[PinAnchor[s]] = pin[s]
  /\ \A e \in Entries : entryGate[e] # NoGate /\ registry[AnchorOf[e]] = entryGate[e]
  /\ \A r \in Requests : spare[r] # NoGate => registry[AnchorOf[r]] = spare[r]
  /\ \A r \in Requests : OnRegistry(r) => gate[r] # NoGate /\ registry[AnchorOf[r]] = gate[r]

SparesInTransit == \A r \in Requests : spare[r] # NoGate <=> at[r] \in {"inserting", "surplus"}

\* A cache holds its session's entries, one per anchor; one that is retired is in use
\* and out of it; one in use is cached or retired.
EntriesAreFiled ==
  /\ \A s \in Sessions : \A e \in cache[s] : SessionOf[e] = s
  /\ \A s \in Sessions : \A e, f \in cache[s] : AnchorOf[e] = AnchorOf[f] => e = f
  /\ \A e \in retired : users[e] > 0 /\ e \notin cache[SessionOf[e]]
  /\ \A e \in Requests : e \in cache[SessionOf[e]] \/ e \in retired => at[e] \in Placed
  /\ \A e \in Requests : users[e] > 0 => e \in cache[SessionOf[e]] \/ e \in retired

UsersOf(e) == {r \in Requests : entry[r] = e /\ at[r] \in Using}
UsersCounted == \A e \in Requests : users[e] = Cardinality(UsersOf(e))

\* A request is on the gate its tier gave it.
PathIsKept(r) ==
  /\ entry[r] # NoEntry => /\ tier[r] = "cache" /\ at[r] \in Using \cup {"returning", "done"}
                           /\ AnchorOf[entry[r]] = AnchorOf[r]
                           /\ at[r] \in Using => gate[r] = entryGate[entry[r]]
  /\ at[r] \in Turning \cup {"leaving"} /\ tier[r] = "cache" => entry[r] # NoEntry
  /\ at[r] \in Turning /\ tier[r] = "pin" => gate[r] = pin[SessionOf[r]] /\ AnchorOf[r] = PinAnchor[SessionOf[r]]
  /\ at[r] = "turned" => r \in Sampling
  /\ r \in Sampling => /\ tier[r] = "pin"
                       /\ at[r] \notin {"resolved", "missed", "inserting", "surplus", "uncached", "leaving"}
PathsAreKept == \A r \in Requests : PathIsKept(r)

\* A session is pinned while it lives, and for as long as a counted request needs it.
PinsAreKept ==
  /\ counted = {r \in Requests : at[r] \notin {"new", "resolved", "done"}}
  /\ \A s \in Sessions : /\ stage[s] \in {"live", "draining"} => s \in pinned
                         /\ stage[s] = "new" => s \notin pinned
                         /\ s \in waiters => stage[s] \in {"closing", "gone"}
                         /\ s \in registered \cup reading => stage[s] = "live"
  /\ \A r \in Requests : at[r] \in Reaching \/ (r \in Sampling /\ at[r] = "counted") => SessionOf[r] \in pinned

\* Who is in a turn is in the channel of its gate.
TurnsAreTaken == \A r \in Requests : at[r] \in {"turned", "deciding", "ending"} => turn[gate[r]] = r

\* A host request that reaches for another anchor has marked its session as split.
SplitIsNoted == \A h \in Requests \ Sampling : Spans(h) /\ at[h] \in Reaching => SessionOf[h] \in split

GatesIInv ==
  /\ GatesTypeOK /\ RegistryIsSound /\ OwnersAreFiled /\ EveryReferenceOwned
  /\ SparesInTransit /\ EntriesAreFiled /\ UsersCounted
  /\ PathsAreKept /\ PinsAreKept /\ TurnsAreTaken /\ SplitIsNoted

\* The owners of a gate's references, by kind.
PinsOn(g) == {s \in pinned : pin[s] = g}
EntriesOn(g) == {e \in Entries : entryGate[e] = g}
SparesOn(g) == {r \in Requests : spare[r] = g}
TurnsOn(g) == {r \in Requests : gate[r] = g /\ tier[r] = "registry" /\ at[r] \in Referring}
RefsCounted ==
  \A g \in Gates : refs[g] = Cardinality(PinsOn(g)) + Cardinality(EntriesOn(g))
                             + Cardinality(SparesOn(g)) + Cardinality(TurnsOn(g))
FiledAreReferenced == \A a \in Anchors : registry[a] # NoGate => refs[registry[a]] > 0

\* EveryReferenceOwned in these terms.
LEMMA OwnedIsCounted == EveryReferenceOwned <=> RefsCounted /\ FiledAreReferenced
  BY DEF EveryReferenceOwned, RefsCounted, FiledAreReferenced, PinsOn, EntriesOn, SparesOn, TurnsOn, Referring
LEMMA OwnedIsCountedNext == EveryReferenceOwned' <=> RefsCounted' /\ FiledAreReferenced'
  BY DEF EveryReferenceOwned, RefsCounted, FiledAreReferenced, PinsOn, EntriesOn, SparesOn, TurnsOn, Referring

\* A part of a finite set is finite and has a size.
LEMMA PartIsFinite ==
  ASSUME NEW S, IsFiniteSet(S), NEW T, T \subseteq S
  PROVE  IsFiniteSet(T) /\ Cardinality(T) \in Nat
  BY FS_Subset, FS_CardinalityType

\* One element more, or less, in a finite set.
LEMMA OneMore ==
  ASSUME NEW S, IsFiniteSet(S), NEW x, x \notin S
  PROVE  Cardinality(S \cup {x}) = Cardinality(S) + 1
  BY FS_AddElement
LEMMA OneLess ==
  ASSUME NEW S, IsFiniteSet(S), NEW x, x \in S
  PROVE  Cardinality(S \ {x}) = Cardinality(S) - 1 /\ Cardinality(S) > 0
  BY FS_RemoveElement, FS_CardinalityType, FS_EmptySet

\* The owners of a gate are finitely many.
LEMMA OwnersAreFinite ==
  ASSUME GatesTypeOK, NEW g
  PROVE  /\ IsFiniteSet(PinsOn(g)) /\ Cardinality(PinsOn(g)) \in Nat
         /\ IsFiniteSet(EntriesOn(g)) /\ Cardinality(EntriesOn(g)) \in Nat
         /\ IsFiniteSet(SparesOn(g)) /\ Cardinality(SparesOn(g)) \in Nat
         /\ IsFiniteSet(TurnsOn(g)) /\ Cardinality(TurnsOn(g)) \in Nat
  <1>1. PinsOn(g) \subseteq Sessions /\ EntriesOn(g) \subseteq Requests /\ SparesOn(g) \subseteq Requests
        /\ TurnsOn(g) \subseteq Requests
    BY DEF GatesTypeOK, PinsOn, EntriesOn, Entries, SparesOn, TurnsOn
  <1>2. QED
    BY <1>1, PartIsFinite, GateAssumption

\* What holding the gate of an anchor does to the registry.
LEMMA HoldFiles ==
  ASSUME GatesTypeOK, RegistryIsSound, FiledAreReferenced, NEW a \in Anchors, NEW g \in Gates, hold(a, g)
  PROVE  /\ registry' \in [Anchors -> Gates \cup {NoGate}] /\ built' \in 0 .. MaxGates
         /\ refs' \in [Gates -> Nat] /\ RegistryIsSound' /\ FiledAreReferenced'
         /\ registry'[a] = g /\ \A b \in Anchors : registry[b] # NoGate => registry'[b] = registry[b]
         /\ refs'[g] = refs[g] + 1 /\ \A h \in Gates \ {g} : refs'[h] = refs[h]
         /\ registry[a] = g \/ \A b \in Anchors : registry[b] # g
  <1>1. /\ registry \in [Anchors -> Gates \cup {NoGate}] /\ built \in 0 .. MaxGates
        /\ refs \in [Gates -> Nat] /\ MaxGates \in Nat /\ g \in 1 .. MaxGates
    BY GateAssumption DEF GatesTypeOK, Gates
  <1>2. refs' = [refs EXCEPT ![g] = @ + 1]
    BY DEF hold
  <1>3. /\ refs' \in [Gates -> Nat] /\ refs'[g] = refs[g] + 1 /\ \A h \in Gates \ {g} : refs'[h] = refs[h]
    BY <1>1, <1>2
  <1>4. CASE registry[a] # NoGate /\ g = registry[a] /\ UNCHANGED <<registry, built>>
    <2>1. RegistryIsSound'
      BY <1>4 DEF RegistryIsSound
    <2>2. FiledAreReferenced'
      <3> SUFFICES ASSUME NEW b \in Anchors, registry'[b] # NoGate
                   PROVE  refs'[registry'[b]] > 0
        BY DEF FiledAreReferenced
      <3>1. registry'[b] = registry[b] /\ registry[b] \in Gates /\ refs[registry[b]] > 0
        BY <1>1, <1>4 DEF FiledAreReferenced
      <3>2. CASE registry[b] = g
        BY <3>1, <3>2, <1>1, <1>3
      <3>3. CASE registry[b] # g
        BY <3>1, <3>3, <1>3
      <3>4. QED
        BY <3>2, <3>3
    <2>3. QED
      BY <1>1, <1>3, <1>4, <2>1, <2>2
  <1>5. CASE registry[a] = NoGate /\ g = built + 1 /\ built' = g /\ registry' = [registry EXCEPT ![a] = g]
    <2>1. registry' \in [Anchors -> Gates \cup {NoGate}] /\ built' \in 0 .. MaxGates
      BY <1>1, <1>5
    <2>2. registry'[a] = g /\ \A b \in Anchors \ {a} : registry'[b] = registry[b]
      BY <1>1, <1>5
    <2>3. \A b \in Anchors : registry[b] \in Nat /\ registry[b] < g
      BY <1>1, <1>5 DEF RegistryIsSound, NoGate, Gates
    <2>4. RegistryIsSound'
      <3>1. \A b \in Anchors : registry'[b] <= built'
        BY <1>1, <1>5, <2>2, <2>3
      <3>2. ASSUME NEW b \in Anchors, NEW c \in Anchors, registry'[b] = registry'[c], registry'[b] # NoGate
            PROVE  b = c
        <4>1. CASE b = a \/ c = a
          BY <3>2, <4>1, <2>2, <2>3, <1>1
        <4>2. CASE b # a /\ c # a
          BY <3>2, <4>2, <2>2 DEF RegistryIsSound
        <4>3. QED
          BY <4>1, <4>2
      <3>3. QED
        BY <3>1, <3>2 DEF RegistryIsSound
    <2>5. FiledAreReferenced'
      <3> SUFFICES ASSUME NEW b \in Anchors, registry'[b] # NoGate
                   PROVE  refs'[registry'[b]] > 0
        BY DEF FiledAreReferenced
      <3>1. CASE b = a
        BY <3>1, <2>2, <1>1, <1>3
      <3>2. CASE b # a
        <4>1. registry'[b] = registry[b] /\ registry[b] \in Gates \ {g} /\ refs[registry[b]] > 0
          BY <3>2, <2>2, <2>3, <1>1 DEF FiledAreReferenced
        <4>2. QED
          BY <4>1, <1>3
      <3>3. QED
        BY <3>1, <3>2
    <2>6. \A b \in Anchors : registry[b] # g
      BY <2>3, <1>1
    <2>7. QED
      BY <1>3, <1>5, <2>1, <2>2, <2>4, <2>5, <2>6
  <1>6. QED
    BY <1>4, <1>5 DEF hold

\* What dropping references does to the registry.
LEMMA DropUnfiles ==
  ASSUME GatesTypeOK, RegistryIsSound, FiledAreReferenced, NEW gs \in SUBSET Gates, drop(gs),
         \A g \in Gates : refs'[g] \in Nat
  PROVE  /\ registry' \in [Anchors -> Gates \cup {NoGate}] /\ built' = built
         /\ refs' \in [Gates -> Nat] /\ RegistryIsSound' /\ FiledAreReferenced'
         /\ \A a \in Anchors : registry[a] # NoGate /\ refs'[registry[a]] > 0 => registry'[a] = registry[a]
  <1>1. /\ registry \in [Anchors -> Gates \cup {NoGate}] /\ built \in 0 .. MaxGates
        /\ refs \in [Gates -> Nat] /\ NoGate \notin Gates
    BY GateAssumption DEF GatesTypeOK, Gates, NoGate
  <1>2. /\ refs' = [g \in Gates |-> IF g \in gs THEN refs[g] - 1 ELSE refs[g]]
        /\ registry' = [a \in Anchors |->
             IF registry[a] \in gs /\ refs'[registry[a]] = 0 THEN NoGate ELSE registry[a]]
        /\ built' = built
    BY DEF drop
  <1>3. refs' \in [Gates -> Nat]
    BY <1>2
  <1>4. \A a \in Anchors : registry'[a] = registry[a] \/ registry'[a] = NoGate
    BY <1>2
  <1>5. registry' \in [Anchors -> Gates \cup {NoGate}]
    BY <1>1, <1>2
  <1>6. RegistryIsSound'
    <2>1. \A a \in Anchors : registry'[a] <= built
      BY <1>1, <1>4, GateAssumption DEF RegistryIsSound, NoGate
    <2>2. QED
      BY <2>1, <1>2, <1>4 DEF RegistryIsSound
  <1>7. FiledAreReferenced'
    <2> SUFFICES ASSUME NEW a \in Anchors, registry'[a] # NoGate
                 PROVE  refs'[registry'[a]] > 0
      BY DEF FiledAreReferenced
    <2>1. registry'[a] = registry[a] /\ registry[a] \in Gates /\ ~(registry[a] \in gs /\ refs'[registry[a]] = 0)
      BY <1>1, <1>2
    <2>2. CASE registry[a] \notin gs
      BY <2>1, <2>2, <1>2 DEF FiledAreReferenced
    <2>3. CASE refs'[registry[a]] # 0
      BY <2>1, <2>3, <1>3
    <2>4. QED
      BY <2>1, <2>2, <2>3
  <1>8. \A a \in Anchors : registry[a] # NoGate /\ refs'[registry[a]] > 0 => registry'[a] = registry[a]
    BY <1>1, <1>2
  <1>9. QED
    BY <1>2, <1>3, <1>5, <1>6, <1>7, <1>8
\* The sum of four sizes is positive when one of the sets is not empty.
LEMMA SumIsPositive ==
  ASSUME NEW p \in Nat, NEW e \in Nat, NEW s \in Nat, NEW t \in Nat, NEW n, n = p + e + s + t,
         p > 0 \/ e > 0 \/ s > 0 \/ t > 0
  PROVE  n > 0
  OBVIOUS

\* An owner of a gate that is counted right after a step makes its gate referenced.
LEMMA OwnerIsCounted ==
  ASSUME GatesTypeOK', RefsCounted', NEW g \in Gates, NEW x,
         x \in PinsOn(g)' \/ x \in EntriesOn(g)' \/ x \in SparesOn(g)' \/ x \in TurnsOn(g)'
  PROVE  refs'[g] > 0
  <1>1. PinsOn(g)' \subseteq Sessions /\ EntriesOn(g)' \subseteq Requests /\ SparesOn(g)' \subseteq Requests
        /\ TurnsOn(g)' \subseteq Requests
    BY DEF GatesTypeOK, PinsOn, EntriesOn, Entries, SparesOn, TurnsOn
  <1>2. /\ IsFiniteSet(PinsOn(g)') /\ IsFiniteSet(EntriesOn(g)') /\ IsFiniteSet(SparesOn(g)')
        /\ IsFiniteSet(TurnsOn(g)')
        /\ Cardinality(PinsOn(g)') \in Nat /\ Cardinality(EntriesOn(g)') \in Nat
        /\ Cardinality(SparesOn(g)') \in Nat /\ Cardinality(TurnsOn(g)') \in Nat
    BY <1>1, PartIsFinite, GateAssumption
  <1>3. refs'[g] = Cardinality(PinsOn(g)') + Cardinality(EntriesOn(g)')
                   + Cardinality(SparesOn(g)') + Cardinality(TurnsOn(g)')
    BY DEF RefsCounted, PinsOn, EntriesOn, Entries, SparesOn, TurnsOn
  <1>4. \/ Cardinality(PinsOn(g)') > 0 \/ Cardinality(EntriesOn(g)') > 0
        \/ Cardinality(SparesOn(g)') > 0 \/ Cardinality(TurnsOn(g)') > 0
    BY <1>2, OneLess
  <1>5. QED
    BY <1>2, <1>3, <1>4, SumIsPositive

\* What a step must show of itself to keep every owner's gate filed: the counts are
\* right after it, owners were filed before it, and the registry keeps what is referenced.
LEMMA OwnersStayFiled ==
  ASSUME GatesTypeOK', RefsCounted',
         \A a \in Anchors : registry[a] # NoGate /\ refs'[registry[a]] > 0 => registry'[a] = registry[a],
         \A s \in pinned' : pin'[s] # NoGate /\ registry[PinAnchor[s]] = pin'[s],
         \A e \in Entries' : entryGate'[e] # NoGate /\ registry[AnchorOf[e]] = entryGate'[e],
         \A r \in Requests : spare'[r] # NoGate => registry[AnchorOf[r]] = spare'[r],
         \A r \in Requests : OnRegistry(r)' => gate'[r] # NoGate /\ registry[AnchorOf[r]] = gate'[r]
  PROVE  OwnersAreFiled'
  <1>0. /\ pinned' \subseteq Sessions /\ Entries' \subseteq Requests
        /\ pin' \in [Sessions -> Gates \cup {NoGate}] /\ entryGate' \in [Requests -> Gates \cup {NoGate}]
        /\ spare' \in [Requests -> Gates \cup {NoGate}] /\ gate' \in [Requests -> Gates \cup {NoGate}]
        /\ \A s \in Sessions : PinAnchor[s] \in Anchors
        /\ \A r \in Requests : AnchorOf[r] \in Anchors
    BY GateAssumption DEF GatesTypeOK, Entries
  <1>1. ASSUME NEW s \in pinned', NEW g \in Gates, g = pin'[s] PROVE registry'[PinAnchor[s]] = g
    <2>1. s \in PinsOn(g)'
      BY <1>1 DEF PinsOn
    <2>2. refs'[g] > 0
      BY <2>1, OwnerIsCounted
    <2>3. QED
      BY <1>0, <1>1, <2>2
  <1>2. ASSUME NEW e \in Entries', NEW g \in Gates, g = entryGate'[e] PROVE registry'[AnchorOf[e]] = g
    <2>1. e \in EntriesOn(g)'
      BY <1>2 DEF EntriesOn, Entries
    <2>2. refs'[g] > 0
      BY <2>1, OwnerIsCounted
    <2>3. QED
      BY <1>0, <1>2, <2>2
  <1>3. ASSUME NEW r \in Requests, NEW g \in Gates, g = spare'[r] PROVE registry'[AnchorOf[r]] = g
    <2>1. r \in SparesOn(g)'
      BY <1>3 DEF SparesOn
    <2>2. refs'[g] > 0
      BY <2>1, OwnerIsCounted
    <2>3. QED
      BY <1>0, <1>3, <2>2 DEF Gates, NoGate
  <1>4. ASSUME NEW r \in Requests, NEW g \in Gates, g = gate'[r], OnRegistry(r)' PROVE registry'[AnchorOf[r]] = g
    <2>1. r \in TurnsOn(g)'
      BY <1>4 DEF TurnsOn, OnRegistry
    <2>2. refs'[g] > 0
      BY <2>1, OwnerIsCounted
    <2>3. QED
      BY <1>0, <1>4, <2>2
  <1>5. \A s \in pinned' : pin'[s] # NoGate /\ registry'[PinAnchor[s]] = pin'[s]
    BY <1>0, <1>1
  <1>6. \A e \in Entries' : entryGate'[e] # NoGate /\ registry'[AnchorOf[e]] = entryGate'[e]
    BY <1>0, <1>2
  <1>7. \A r \in Requests : spare'[r] # NoGate => registry'[AnchorOf[r]] = spare'[r]
    BY <1>0, <1>3
  <1>8. \A r \in Requests : OnRegistry(r)' => gate'[r] # NoGate /\ registry'[AnchorOf[r]] = gate'[r]
    BY <1>0, <1>4
  <1>9. QED
    BY <1>5, <1>6, <1>7, <1>8 DEF OwnersAreFiled, OnRegistry, Entries

\* A step of a request that moves no reference keeps what is said of references.
LEMMA NothingMoves ==
  ASSUME GatesIInv, UNCHANGED <<gateVars, cacheVars, pin, pinned, entry, spare>>,
         \A q \in Requests : at'[q] \in {"inserting", "surplus"} <=> at[q] \in {"inserting", "surplus"},
         \A q \in Requests : at[q] \in Placed => at'[q] \in Placed,
         \A q \in Requests : entry[q] # NoEntry => (at'[q] \in Using <=> at[q] \in Using),
         \A q \in Requests : (OnRegistry(q)' <=> OnRegistry(q)) /\ (OnRegistry(q) => gate'[q] = gate[q])
  PROVE  /\ RegistryIsSound' /\ OwnersAreFiled' /\ EveryReferenceOwned' /\ SparesInTransit'
         /\ EntriesAreFiled' /\ UsersCounted'
  <1> USE DEF GatesIInv
  <1>1. UNCHANGED <<registry, built, refs, cache, closed, entryGate, users, retired, pin, pinned, entry, spare>>
    BY DEF gateVars, cacheVars
  <1>2. RegistryIsSound' /\ SparesInTransit' /\ EntriesAreFiled'
    BY <1>1 DEF RegistryIsSound, SparesInTransit, EntriesAreFiled
  <1>3. Entries' = Entries
    BY <1>1 DEF Entries
  <1>4. OwnersAreFiled'
    BY <1>1, <1>3 DEF OwnersAreFiled
  <1>5. RefsCounted' /\ FiledAreReferenced'
    <2>1. \A g \in Gates : /\ PinsOn(g)' = PinsOn(g) /\ EntriesOn(g)' = EntriesOn(g) /\ SparesOn(g)' = SparesOn(g)
      BY <1>1, <1>3 DEF PinsOn, EntriesOn, SparesOn
    <2>2. \A g \in Gates : TurnsOn(g)' = TurnsOn(g)
      BY DEF TurnsOn, OnRegistry
    <2>3. QED
      BY <1>1, <2>1, <2>2, OwnedIsCounted DEF RefsCounted, FiledAreReferenced
  <1>6. UsersCounted'
    <2>1. \A e \in Requests : UsersOf(e)' = UsersOf(e)
      BY <1>1, GateAssumption DEF UsersOf, NoEntry
    <2>2. QED
      BY <1>1, <2>1 DEF UsersCounted
  <1>7. QED
    BY <1>2, <1>4, <1>5, <1>6, OwnedIsCountedNext

\* The initial states.
LEMMA GatesInitIsSound == GatesInit => GatesIInv
  <1> SUFFICES ASSUME GatesInit PROVE GatesIInv
    OBVIOUS
  <1>1. GatesTypeOK
    <2>1. \A s \in Sessions : Cardinality(cache[s]) = 0
      BY FS_EmptySet DEF GatesInit
    <2>2. \A s \in Sessions : Cardinality(cache[s]) <= CacheCap
      BY <2>1, GateAssumption
    <2>3. built \in 0 .. MaxGates /\ refs \in [Gates -> Nat]
      BY GateAssumption DEF GatesInit
    <2>4. QED
      BY <2>2, <2>3 DEF GatesInit, GatesTypeOK
  <1>2. Entries = {} /\ NoGate \notin Gates
    <2>1. \A e \in Requests : SessionOf[e] \in Sessions /\ cache[SessionOf[e]] = {} /\ retired = {}
      BY GateAssumption DEF GatesInit
    <2>2. QED
      BY <2>1, GateAssumption DEF Entries, NoGate, Gates
  <1>3. RegistryIsSound /\ OwnersAreFiled /\ SparesInTransit /\ EntriesAreFiled
    <2>1. RegistryIsSound /\ SparesInTransit
      BY DEF GatesInit, RegistryIsSound, SparesInTransit, NoGate
    <2>2. OwnersAreFiled
      BY <1>2 DEF GatesInit, OwnersAreFiled, OnRegistry, Referring, NoGate
    <2>3. EntriesAreFiled
      BY GateAssumption DEF GatesInit, EntriesAreFiled
    <2>4. QED
      BY <2>1, <2>2, <2>3
  <1>4. RefsCounted /\ FiledAreReferenced
    <2>1. ASSUME NEW g \in Gates
          PROVE  PinsOn(g) = {} /\ EntriesOn(g) = {} /\ SparesOn(g) = {} /\ TurnsOn(g) = {} /\ refs[g] = 0
      BY <1>2 DEF GatesInit, PinsOn, EntriesOn, SparesOn, TurnsOn, Referring
    <2>2. RefsCounted
      BY <2>1, FS_EmptySet DEF RefsCounted
    <2>3. FiledAreReferenced
      BY DEF FiledAreReferenced, GatesInit
    <2>4. QED
      BY <2>2, <2>3
  <1>5. UsersCounted
    <2>1. \A e \in Requests : UsersOf(e) = {} /\ users[e] = 0
      BY DEF GatesInit, UsersOf, Using
    <2>2. QED
      BY <2>1, FS_EmptySet DEF UsersCounted
  <1>6. PathsAreKept /\ PinsAreKept /\ TurnsAreTaken /\ SplitIsNoted
    BY DEF GatesInit, PathsAreKept, PathIsKept, PinsAreKept, TurnsAreTaken, SplitIsNoted, Turning, Using, Reaching
  <1>7. QED
    BY <1>1, <1>3, <1>4, <1>5, <1>6, OwnedIsCounted DEF GatesIInv

\* A session leaves the table, loses its reader, or starts to be torn down.
LEMMA SessionOnly ==
  ASSUME GatesIInv, NEW s \in Sessions, Delete(s) \/ ReaderExits(s) \/ finishSessionCleanup(s)
  PROVE  GatesIInv'
  <1> USE DEF GatesIInv
  <1>1. /\ UNCHANGED <<registry, built, refs, turn, pin, pinned, waiters, split>>
        /\ UNCHANGED <<cache, closed, entryGate, users, retired>>
        /\ UNCHANGED <<at, counted, gate, tier, entry, spare>>
    BY DEF Delete, ReaderExits, finishSessionCleanup, gateVars, cacheVars, requestVars
  <1>2. GatesTypeOK' /\ PinsAreKept'
    BY <1>1 DEF Delete, ReaderExits, finishSessionCleanup, GatesTypeOK, PinsAreKept
  <1>3. PathsAreKept' /\ TurnsAreTaken' /\ SplitIsNoted'
    BY <1>1 DEF PathsAreKept, PathIsKept, TurnsAreTaken, SplitIsNoted, Spans
  <1>4. \A q \in Requests : OnRegistry(q)' <=> OnRegistry(q)
    BY <1>1 DEF OnRegistry
  <1>5. /\ RegistryIsSound' /\ OwnersAreFiled' /\ EveryReferenceOwned' /\ SparesInTransit'
        /\ EntriesAreFiled' /\ UsersCounted'
    BY <1>1, <1>4, NothingMoves DEF gateVars, cacheVars
  <1>6. QED
    BY <1>2, <1>3, <1>5

\* A request moves on.
LEMMA Moved ==
  ASSUME GatesTypeOK, NEW r \in Requests, NEW l \in Places, GoTo(r, l)
  PROVE  /\ at' \in [Requests -> Places] /\ at'[r] = l /\ \A q \in Requests \ {r} : at'[q] = at[q]
  <1>1. at \in [Requests -> Places]
    BY DEF GatesTypeOK, Places, Reaching, Turning
  <1>2. QED
    BY <1>1 DEF GoTo

\* The steps that only move a request.
OnlyMoves(r, l) ==
  \/ at[r] = "new" /\ r \notin Sampling /\ l = "resolved"
  \/ at[r] = "counted" /\ r \in Sampling /\ l \in {"returning", "admitted"}
  \/ at[r] = "admitted" /\ Spans(r) /\ l \in {"missed", "uncached"}
  \/ at[r] = "queued" /\ r \in Sampling /\ l = "returning"
  \/ at[r] = "turned" /\ l \in {"ending", "deciding"}
  \/ at[r] = "deciding" /\ l = "ending"
  \/ at[r] = "inserting" /\ l = "surplus"
LEMMA QuietMove ==
  ASSUME GatesIInv, NEW r \in Requests, NEW l \in Places, OnlyMoves(r, l), GoTo(r, l),
         UNCHANGED <<gateVars, turn, sessionVars, cacheVars, counted, requestVars>>
  PROVE  GatesIInv'
  <1> USE DEF GatesIInv
  <1>1. /\ UNCHANGED <<registry, built, refs, turn, pin, pinned, waiters, split, stage, registered, reading>>
        /\ UNCHANGED <<cache, closed, entryGate, users, retired>>
        /\ UNCHANGED <<counted, gate, tier, entry, spare>>
    BY DEF gateVars, cacheVars, requestVars, sessionVars
  <1>2. at' \in [Requests -> Places] /\ at'[r] = l /\ \A q \in Requests \ {r} : at'[q] = at[q]
    BY Moved
  <1>3. GatesTypeOK'
    BY <1>1, <1>2 DEF GatesTypeOK, Places, Reaching, Turning
  <1>4. r \in Sampling => ~Spans(r)
    BY GateAssumption DEF Spans
  <1>5. PathsAreKept'
    BY <1>1, <1>2, <1>4 DEF PathsAreKept, PathIsKept, OnlyMoves, Turning, Using
  <1>6. PinsAreKept'
    <2>1. counted' = {q \in Requests : at'[q] \notin {"new", "resolved", "done"}}
      BY <1>1, <1>2 DEF PinsAreKept, OnlyMoves
    <2>2. \A q \in Requests : at'[q] \in Reaching \/ (q \in Sampling /\ at'[q] = "counted") => SessionOf[q] \in pinned
      BY <1>1, <1>2, <1>4 DEF PinsAreKept, OnlyMoves, Reaching, Turning
    <2>3. QED
      BY <1>1, <2>1, <2>2 DEF PinsAreKept
  <1>7. TurnsAreTaken'
    BY <1>1, <1>2 DEF TurnsAreTaken, OnlyMoves
  <1>8. SplitIsNoted'
    BY <1>1, <1>2, <1>4 DEF SplitIsNoted, OnlyMoves, Reaching, Turning, Spans, PathsAreKept, PathIsKept
  <1>9. \A q \in Requests : (OnRegistry(q)' <=> OnRegistry(q)) /\ gate'[q] = gate[q]
    BY <1>1, <1>2, <1>4 DEF OnRegistry, Referring, OnlyMoves, PathsAreKept, PathIsKept
  <1>10. /\ \A q \in Requests : at'[q] \in {"inserting", "surplus"} <=> at[q] \in {"inserting", "surplus"}
         /\ \A q \in Requests : at[q] \in Placed => at'[q] \in Placed
         /\ \A q \in Requests : entry[q] # NoEntry => (at'[q] \in Using <=> at[q] \in Using)
    BY <1>1, <1>2, <1>4 DEF OnlyMoves, Placed, Turning, Using, PathsAreKept, PathIsKept
  <1>11. /\ RegistryIsSound' /\ OwnersAreFiled' /\ EveryReferenceOwned' /\ SparesInTransit'
         /\ EntriesAreFiled' /\ UsersCounted'
    BY <1>1, <1>9, <1>10, NothingMoves DEF gateVars, cacheVars
  <1>12. QED
    BY <1>3, <1>5, <1>6, <1>7, <1>8, <1>11

\* A request in or before a turn is on the gate filed under its anchor.
LEMMA UsersAreFiled == GatesIInv => GateOutlivesItsUsers
  <1> SUFFICES ASSUME GatesIInv, NEW r \in Requests, at[r] \in Turning
               PROVE  gate[r] # NoGate /\ registry[AnchorOf[r]] = gate[r]
    BY DEF GateOutlivesItsUsers, Turning
  <1> USE DEF GatesIInv
  <1>1. tier[r] \in {"pin", "cache", "registry"} /\ (at[r] = "turned" => tier[r] = "pin")
    BY DEF GatesTypeOK, PathsAreKept, PathIsKept
  <1>2. CASE tier[r] = "pin"
    <2>1. gate[r] = pin[SessionOf[r]] /\ AnchorOf[r] = PinAnchor[SessionOf[r]]
      BY <1>2 DEF PathsAreKept, PathIsKept
    <2>2. SessionOf[r] \in pinned
      BY DEF PinsAreKept, Reaching
    <2>3. QED
      BY <2>1, <2>2 DEF OwnersAreFiled
  <1>3. CASE tier[r] = "cache"
    <2>1. at[r] \in Using /\ at[r] \in Turning \cup {"leaving"}
      BY <1>1, <1>3 DEF Turning, Using
    <2>2. entry[r] # NoEntry
      BY <1>3, <2>1 DEF PathsAreKept, PathIsKept
    <2>3. AnchorOf[entry[r]] = AnchorOf[r] /\ gate[r] = entryGate[entry[r]] /\ entry[r] \in Requests
      BY <2>1, <2>2 DEF PathsAreKept, PathIsKept, GatesTypeOK
    <2>4. PICK e \in Requests : e = entry[r]
      BY <2>3
    <2>5. UsersOf(e) \subseteq Requests /\ r \in UsersOf(e)
      BY <2>1, <2>4 DEF UsersOf
    <2>6. users[e] > 0
      BY <2>5, PartIsFinite, OneLess, GateAssumption DEF UsersCounted
    <2>7. e \in Entries
      BY <2>6 DEF EntriesAreFiled, Entries
    <2>8. QED
      BY <2>3, <2>4, <2>7 DEF OwnersAreFiled
  <1>4. CASE tier[r] = "registry"
    <2>1. OnRegistry(r)
      BY <1>1, <1>4 DEF OnRegistry, Referring, Turning
    <2>2. QED
      BY <2>1 DEF OwnersAreFiled
  <1>5. QED
    BY <1>1, <1>2, <1>3, <1>4

\* A request is counted in.
LEMMA CountMove ==
  ASSUME GatesIInv, NEW r \in Requests, CountIn(r) \/ dispatch(r)
  PROVE  GatesIInv'
  <1> USE DEF GatesIInv
  <1>1. /\ UNCHANGED <<registry, built, refs, turn, pin, pinned, waiters, split, stage, registered, reading>>
        /\ UNCHANGED <<cache, closed, entryGate, users, retired>>
        /\ UNCHANGED <<gate, tier, entry, spare>>
        /\ GoTo(r, "counted") /\ counted' = counted \cup {r}
        /\ at[r] \in {"new", "resolved"} /\ (r \in Sampling /\ at[r] = "new" => SessionOf[r] \in reading)
    BY DEF CountIn, dispatch, gateVars, cacheVars, requestVars, sessionVars
  <1>2. at' \in [Requests -> Places] /\ at'[r] = "counted" /\ \A q \in Requests \ {r} : at'[q] = at[q]
    BY <1>1, Moved DEF Places
  <1>3. GatesTypeOK'
    BY <1>1, <1>2 DEF GatesTypeOK, Places, Reaching, Turning
  <1>4. PathsAreKept' /\ TurnsAreTaken'
    BY <1>1, <1>2 DEF PathsAreKept, PathIsKept, TurnsAreTaken, Turning, Using
  <1>5. PinsAreKept'
    <2>1. counted' = {q \in Requests : at'[q] \notin {"new", "resolved", "done"}}
      BY <1>1, <1>2 DEF PinsAreKept
    <2>2. r \in Sampling => SessionOf[r] \in pinned
      BY <1>1, GateAssumption DEF PinsAreKept, PathsAreKept, PathIsKept
    <2>3. \A q \in Requests : at'[q] \in Reaching \/ (q \in Sampling /\ at'[q] = "counted") => SessionOf[q] \in pinned
      BY <1>1, <1>2, <2>2 DEF PinsAreKept, Reaching, Turning
    <2>4. QED
      BY <1>1, <2>1, <2>3 DEF PinsAreKept
  <1>6. SplitIsNoted'
    BY <1>1, <1>2 DEF SplitIsNoted, Reaching, Turning, Spans
  <1>7. \A q \in Requests : (OnRegistry(q)' <=> OnRegistry(q)) /\ gate'[q] = gate[q]
    BY <1>1, <1>2 DEF OnRegistry, Referring
  <1>8. /\ \A q \in Requests : at'[q] \in {"inserting", "surplus"} <=> at[q] \in {"inserting", "surplus"}
        /\ \A q \in Requests : at[q] \in Placed => at'[q] \in Placed
        /\ \A q \in Requests : entry[q] # NoEntry => (at'[q] \in Using <=> at[q] \in Using)
    BY <1>1, <1>2 DEF Placed, Turning, Using, PathsAreKept, PathIsKept
  <1>9. /\ RegistryIsSound' /\ OwnersAreFiled' /\ EveryReferenceOwned' /\ SparesInTransit'
        /\ EntriesAreFiled' /\ UsersCounted'
    BY <1>1, <1>7, <1>8, NothingMoves DEF gateVars, cacheVars
  <1>10. QED
    BY <1>3, <1>4, <1>5, <1>6, <1>9

\* A request is admitted, which notes its anchor, or refused.
LEMMA AdmitMove ==
  ASSUME GatesIInv, NEW r \in Requests, Admit(r)
  PROVE  GatesIInv'
  <1> USE DEF GatesIInv
  <1>1. /\ UNCHANGED <<registry, built, refs, turn, pin, pinned, waiters, stage, registered, reading>>
        /\ UNCHANGED <<cache, closed, entryGate, users, retired>>
        /\ UNCHANGED <<counted, gate, tier, entry, spare>>
        /\ at[r] = "counted" /\ r \notin Sampling
    BY DEF Admit, gateVars, cacheVars, requestVars
  <1>2. \/ GoTo(r, "returning") /\ split' = split
        \/ /\ SessionOf[r] \in registered /\ GoTo(r, "admitted")
           /\ split' = IF Spans(r) THEN split \cup {SessionOf[r]} ELSE split
    BY DEF Admit, Spans
  <1>3. PICK l \in {"returning", "admitted"} :
             GoTo(r, l) /\ (l = "admitted" => SessionOf[r] \in registered /\ (Spans(r) => SessionOf[r] \in split'))
    BY <1>2
  <1>4. at' \in [Requests -> Places] /\ at'[r] = l /\ \A q \in Requests \ {r} : at'[q] = at[q]
    BY <1>3, Moved DEF Places, Reaching
  <1>5. split \subseteq split' /\ split' \subseteq Sessions
    BY <1>2, GateAssumption DEF GatesTypeOK
  <1>6. GatesTypeOK'
    BY <1>1, <1>4, <1>5 DEF GatesTypeOK, Places, Reaching, Turning
  <1>7. PathsAreKept' /\ TurnsAreTaken'
    BY <1>1, <1>4 DEF PathsAreKept, PathIsKept, TurnsAreTaken, Turning, Using
  <1>8. PinsAreKept'
    <2>1. counted' = {q \in Requests : at'[q] \notin {"new", "resolved", "done"}}
      BY <1>1, <1>4 DEF PinsAreKept
    <2>2. l = "admitted" => SessionOf[r] \in pinned
      BY <1>3, GateAssumption DEF PinsAreKept
    <2>3. \A q \in Requests : at'[q] \in Reaching \/ (q \in Sampling /\ at'[q] = "counted") => SessionOf[q] \in pinned
      BY <1>1, <1>4, <2>2 DEF PinsAreKept, Reaching, Turning
    <2>4. QED
      BY <1>1, <2>1, <2>3 DEF PinsAreKept
  <1>9. SplitIsNoted'
    BY <1>1, <1>3, <1>4, <1>5 DEF SplitIsNoted, Reaching, Turning, Spans
  <1>10. \A q \in Requests : (OnRegistry(q)' <=> OnRegistry(q)) /\ gate'[q] = gate[q]
    BY <1>1, <1>4 DEF OnRegistry, Referring
  <1>11. /\ \A q \in Requests : at'[q] \in {"inserting", "surplus"} <=> at[q] \in {"inserting", "surplus"}
         /\ \A q \in Requests : at[q] \in Placed => at'[q] \in Placed
         /\ \A q \in Requests : entry[q] # NoEntry => (at'[q] \in Using <=> at[q] \in Using)
    BY <1>1, <1>4 DEF Placed, Turning, Using, PathsAreKept, PathIsKept
  <1>12. /\ RegistryIsSound' /\ OwnersAreFiled' /\ EveryReferenceOwned' /\ SparesInTransit'
         /\ EntriesAreFiled' /\ UsersCounted'
    BY <1>1, <1>10, <1>11, NothingMoves DEF gateVars, cacheVars
  <1>13. QED
    BY <1>6, <1>7, <1>8, <1>9, <1>12

\* A request takes to its session's pin.
LEMMA UsePinMove ==
  ASSUME GatesIInv, NEW r \in Requests, UsePin(r)
  PROVE  GatesIInv'
  <1> USE DEF GatesIInv
  <1>1. /\ UNCHANGED <<registry, built, refs, turn, pin, pinned, waiters, split, stage, registered, reading>>
        /\ UNCHANGED <<cache, closed, entryGate, users, retired>>
        /\ UNCHANGED <<counted, entry, spare>>
        /\ at[r] = "admitted" /\ GoTo(r, "queued") /\ AnchorOf[r] = PinAnchor[SessionOf[r]]
        /\ gate' = [gate EXCEPT ![r] = pin[SessionOf[r]]] /\ tier' = [tier EXCEPT ![r] = "pin"]
    BY DEF UsePin, gateVars, cacheVars, sessionVars
  <1>2. at' \in [Requests -> Places] /\ at'[r] = "queued" /\ \A q \in Requests \ {r} : at'[q] = at[q]
    BY <1>1, Moved DEF Places, Reaching, Turning
  <1>3. /\ gate' \in [Requests -> Gates \cup {NoGate}] /\ tier' \in [Requests -> {"pin", "cache", "registry"}]
        /\ gate'[r] = pin[SessionOf[r]] /\ tier'[r] = "pin"
        /\ \A q \in Requests \ {r} : gate'[q] = gate[q] /\ tier'[q] = tier[q]
    BY <1>1, GateAssumption DEF GatesTypeOK
  <1>4. GatesTypeOK'
    BY <1>1, <1>2, <1>3 DEF GatesTypeOK, Places, Reaching, Turning
  <1>5. PathsAreKept'
    BY <1>1, <1>2, <1>3 DEF PathsAreKept, PathIsKept, Turning, Using
  <1>6. TurnsAreTaken' /\ SplitIsNoted'
    BY <1>1, <1>2, <1>3 DEF TurnsAreTaken, SplitIsNoted, Reaching, Turning, Spans
  <1>7. PinsAreKept'
    <2>1. counted' = {q \in Requests : at'[q] \notin {"new", "resolved", "done"}}
      BY <1>1, <1>2 DEF PinsAreKept
    <2>2. \A q \in Requests : at'[q] \in Reaching \/ (q \in Sampling /\ at'[q] = "counted") => SessionOf[q] \in pinned
      BY <1>1, <1>2 DEF PinsAreKept, Reaching, Turning
    <2>3. QED
      BY <1>1, <2>1, <2>2 DEF PinsAreKept
  <1>8. \A q \in Requests : (OnRegistry(q)' <=> OnRegistry(q)) /\ (OnRegistry(q) => gate'[q] = gate[q])
    BY <1>1, <1>2, <1>3 DEF OnRegistry, Referring
  <1>9. /\ \A q \in Requests : at'[q] \in {"inserting", "surplus"} <=> at[q] \in {"inserting", "surplus"}
        /\ \A q \in Requests : at[q] \in Placed => at'[q] \in Placed
        /\ \A q \in Requests : entry[q] # NoEntry => (at'[q] \in Using <=> at[q] \in Using)
    BY <1>1, <1>2 DEF Placed, Turning, Using, PathsAreKept, PathIsKept
  <1>10. /\ RegistryIsSound' /\ OwnersAreFiled' /\ EveryReferenceOwned' /\ SparesInTransit'
         /\ EntriesAreFiled' /\ UsersCounted'
    BY <1>1, <1>8, <1>9, NothingMoves DEF gateVars, cacheVars
  <1>11. QED
    BY <1>4, <1>5, <1>6, <1>7, <1>10

\* A request takes its turn, or frees it.
LEMMA TurnMove ==
  ASSUME GatesIInv, NEW r \in Requests, take(r) \/ Release(r)
  PROVE  GatesIInv'
  <1> USE DEF GatesIInv
  <1>1. /\ UNCHANGED <<registry, built, refs, pin, pinned, waiters, split, stage, registered, reading>>
        /\ UNCHANGED <<cache, closed, entryGate, users, retired>>
        /\ UNCHANGED <<counted, gate, tier, entry, spare>>
    BY DEF take, Release, gateVars, cacheVars, sessionVars, requestVars
  <1>2. gate[r] \in Gates
    <2>1. at[r] \in Turning
      BY DEF take, Release, Turning
    <2>2. QED
      BY <2>1, UsersAreFiled DEF GateOutlivesItsUsers, Turning, GatesTypeOK
  <1>3. PICK l \in {"turned", "deciding", "returning", "leaving"}, x \in Requests \cup {Free} :
             /\ GoTo(r, l) /\ turn' = [turn EXCEPT ![gate[r]] = x]
             /\ \/ at[r] = "queued" /\ turn[gate[r]] = Free /\ x = r /\ l = (IF r \in Sampling THEN "turned" ELSE "deciding")
                \/ at[r] = "ending" /\ x = Free /\ l = (IF tier[r] = "pin" THEN "returning" ELSE "leaving")
    <2>1. CASE take(r)
      BY <2>1 DEF take
    <2>2. CASE Release(r)
      BY <2>2 DEF Release
    <2>3. QED
      BY <2>1, <2>2
  <1>4. at' \in [Requests -> Places] /\ at'[r] = l /\ \A q \in Requests \ {r} : at'[q] = at[q]
    BY <1>3, Moved DEF Places, Reaching, Turning
  <1>5. turn' \in [Gates -> Requests \cup {Free}] /\ turn'[gate[r]] = x
        /\ \A g \in Gates \ {gate[r]} : turn'[g] = turn[g]
    BY <1>2, <1>3 DEF GatesTypeOK
  <1>6. GatesTypeOK'
    BY <1>1, <1>4, <1>5 DEF GatesTypeOK, Places, Reaching, Turning
  <1>7. PathsAreKept'
    BY <1>1, <1>3, <1>4 DEF PathsAreKept, PathIsKept, Turning, Using
  <1>8. SplitIsNoted'
    BY <1>1, <1>3, <1>4 DEF SplitIsNoted, Reaching, Turning, Spans
  <1>9. TurnsAreTaken'
    <2> SUFFICES ASSUME NEW q \in Requests, at'[q] \in {"turned", "deciding", "ending"}
                 PROVE  turn'[gate[q]] = q
      BY <1>1 DEF TurnsAreTaken
    <2>1. CASE q = r
      BY <2>1, <1>3, <1>4, <1>5
    <2>2. CASE q # r
      <3>1. at[q] \in {"turned", "deciding", "ending"} /\ turn[gate[q]] = q
        BY <2>2, <1>4 DEF TurnsAreTaken
      <3>2. gate[q] \in Gates
        BY <3>1, UsersAreFiled DEF GateOutlivesItsUsers, GatesTypeOK
      <3>3. gate[q] # gate[r]
        BY <2>2, <3>1, <1>3, GateAssumption DEF TurnsAreTaken, Free
      <3>4. QED
        BY <3>1, <3>2, <3>3, <1>5
    <2>3. QED
      BY <2>1, <2>2
  <1>10. PinsAreKept'
    <2>1. counted' = {q \in Requests : at'[q] \notin {"new", "resolved", "done"}}
      BY <1>1, <1>3, <1>4 DEF PinsAreKept
    <2>2. \A q \in Requests : at'[q] \in Reaching \/ (q \in Sampling /\ at'[q] = "counted") => SessionOf[q] \in pinned
      BY <1>1, <1>3, <1>4 DEF PinsAreKept, Reaching, Turning
    <2>3. QED
      BY <1>1, <2>1, <2>2 DEF PinsAreKept
  <1>11. \A q \in Requests : (OnRegistry(q)' <=> OnRegistry(q)) /\ gate'[q] = gate[q]
    BY <1>1, <1>3, <1>4 DEF OnRegistry, Referring, PathsAreKept, PathIsKept
  <1>12. /\ \A q \in Requests : at'[q] \in {"inserting", "surplus"} <=> at[q] \in {"inserting", "surplus"}
         /\ \A q \in Requests : at[q] \in Placed => at'[q] \in Placed
         /\ \A q \in Requests : entry[q] # NoEntry => (at'[q] \in Using <=> at[q] \in Using)
    BY <1>1, <1>3, <1>4 DEF Placed, Turning, Using, PathsAreKept, PathIsKept
  <1>13. /\ RegistryIsSound' /\ OwnersAreFiled' /\ EveryReferenceOwned' /\ SparesInTransit'
         /\ EntriesAreFiled' /\ UsersCounted'
    BY <1>1, <1>11, <1>12, NothingMoves DEF gateVars, cacheVars
  <1>14. QED
    BY <1>6, <1>7, <1>8, <1>9, <1>10, <1>13

\* A request is over.
LEMMA ReturnMove ==
  ASSUME GatesIInv, NEW r \in Requests, Return(r)
  PROVE  GatesIInv'
  <1> USE DEF GatesIInv
  <1>1. /\ UNCHANGED <<registry, built, refs, turn, pin, pinned, waiters, split, stage, registered, reading>>
        /\ UNCHANGED <<cache, closed, entryGate, users, retired>>
        /\ UNCHANGED <<gate, tier, entry, spare>>
        /\ at[r] = "returning" /\ GoTo(r, "done") /\ counted' = counted \ {r}
    BY DEF Return, gateVars, cacheVars, sessionVars, requestVars
  <1>2. at' \in [Requests -> Places] /\ at'[r] = "done" /\ \A q \in Requests \ {r} : at'[q] = at[q]
    BY <1>1, Moved DEF Places, Reaching, Turning
  <1>3. GatesTypeOK'
    BY <1>1, <1>2 DEF GatesTypeOK, Places, Reaching, Turning
  <1>4. PathsAreKept' /\ TurnsAreTaken' /\ SplitIsNoted'
    BY <1>1, <1>2 DEF PathsAreKept, PathIsKept, TurnsAreTaken, SplitIsNoted, Turning, Using, Reaching, Spans
  <1>5. PinsAreKept'
    <2>1. counted' = {q \in Requests : at'[q] \notin {"new", "resolved", "done"}}
      BY <1>1, <1>2 DEF PinsAreKept
    <2>2. \A q \in Requests : at'[q] \in Reaching \/ (q \in Sampling /\ at'[q] = "counted") => SessionOf[q] \in pinned
      BY <1>1, <1>2 DEF PinsAreKept, Reaching, Turning
    <2>3. QED
      BY <1>1, <2>1, <2>2 DEF PinsAreKept
  <1>6. \A q \in Requests : (OnRegistry(q)' <=> OnRegistry(q)) /\ gate'[q] = gate[q]
    BY <1>1, <1>2 DEF OnRegistry, Referring
  <1>7. /\ \A q \in Requests : at'[q] \in {"inserting", "surplus"} <=> at[q] \in {"inserting", "surplus"}
        /\ \A q \in Requests : at[q] \in Placed => at'[q] \in Placed
        /\ \A q \in Requests : entry[q] # NoEntry => (at'[q] \in Using <=> at[q] \in Using)
    BY <1>1, <1>2 DEF Placed, Turning, Using
  <1>8. /\ RegistryIsSound' /\ OwnersAreFiled' /\ EveryReferenceOwned' /\ SparesInTransit'
        /\ EntriesAreFiled' /\ UsersCounted'
    BY <1>1, <1>6, <1>7, NothingMoves DEF gateVars, cacheVars
  <1>9. QED
    BY <1>3, <1>4, <1>5, <1>8

\* A request uses an entry of its session's cache.
LEMMA EntryMove ==
  ASSUME GatesIInv, NEW r \in Requests, NEW e \in Cached(r), NEW l,
         \/ at[r] = "admitted" /\ Spans(r) /\ l = "queued"
         \/ at[r] = "inserting" /\ l = "surplus",
         GoTo(r, l), UseEntry(r, e, entryGate[e], users[e] + 1),
         UNCHANGED <<gateVars, turn, sessionVars, cache, closed, entryGate, retired, counted, spare>>
  PROVE  GatesIInv'
  <1> USE DEF GatesIInv
  <1>1. /\ UNCHANGED <<registry, built, refs, turn, pin, pinned, waiters, split, stage, registered, reading>>
        /\ UNCHANGED <<cache, closed, entryGate, retired, counted, spare>>
        /\ entry' = [entry EXCEPT ![r] = e] /\ gate' = [gate EXCEPT ![r] = entryGate[e]]
        /\ tier' = [tier EXCEPT ![r] = "cache"] /\ users' = [users EXCEPT ![e] = users[e] + 1]
        /\ at[r] \in {"admitted", "inserting"} /\ l \in {"queued", "surplus"}
    BY DEF gateVars, sessionVars, UseEntry
  <1>2. /\ at' \in [Requests -> Places] /\ at'[r] = l /\ \A q \in Requests \ {r} : at'[q] = at[q]
    BY <1>1, Moved DEF Places, Reaching, Turning
  <1>3. /\ e \in Requests /\ SessionOf[e] = SessionOf[r] /\ AnchorOf[e] = AnchorOf[r]
        /\ e \in cache[SessionOf[e]] /\ e \notin retired /\ r \notin Sampling /\ entry[r] = NoEntry
        /\ e # NoEntry
    <2>1. e \in Requests /\ e \in cache[SessionOf[r]] /\ AnchorOf[e] = AnchorOf[r] /\ SessionOf[r] \in Sessions
      BY GateAssumption DEF Cached, GatesTypeOK
    <2>2. SessionOf[e] = SessionOf[r]
      BY <2>1 DEF EntriesAreFiled
    <2>3. r \notin Sampling
      BY GateAssumption DEF Spans, PathsAreKept, PathIsKept
    <2>4. QED
      BY <1>1, <2>1, <2>2, <2>3, GateAssumption DEF EntriesAreFiled, PathsAreKept, PathIsKept, Using, NoEntry
  <1>4. /\ entry' \in [Requests -> Requests \cup {NoEntry}] /\ entry'[r] = e
        /\ gate' \in [Requests -> Gates \cup {NoGate}] /\ gate'[r] = entryGate[e]
        /\ tier' \in [Requests -> {"pin", "cache", "registry"}] /\ tier'[r] = "cache"
        /\ \A q \in Requests \ {r} : entry'[q] = entry[q] /\ gate'[q] = gate[q] /\ tier'[q] = tier[q]
    BY <1>1, <1>3 DEF GatesTypeOK
  <1>5. /\ users' \in [Requests -> Nat] /\ users'[e] = users[e] + 1 /\ \A q \in Requests \ {e} : users'[q] = users[q]
    BY <1>1, <1>3 DEF GatesTypeOK
  <1>6. GatesTypeOK'
    BY <1>1, <1>2, <1>4, <1>5 DEF GatesTypeOK, Places, Reaching, Turning
  <1>7. RegistryIsSound'
    BY <1>1 DEF RegistryIsSound
  <1>8. Entries' = Entries
    <2>1. \A q \in Requests : q \in retired => users'[q] = users[q]
      BY <1>3, <1>5
    <2>2. QED
      BY <1>1, <2>1 DEF Entries
  <1>9. \A q \in Requests : /\ OnRegistry(q)' <=> OnRegistry(q)
                            /\ OnRegistry(q) => gate'[q] = gate[q]
    BY <1>1, <1>2, <1>4 DEF OnRegistry, Referring
  <1>10. OwnersAreFiled'
    BY <1>1, <1>8, <1>9 DEF OwnersAreFiled
  <1>11. EveryReferenceOwned'
    <2>1. \A g \in Gates : /\ PinsOn(g)' = PinsOn(g) /\ EntriesOn(g)' = EntriesOn(g) /\ SparesOn(g)' = SparesOn(g)
      BY <1>1, <1>8 DEF PinsOn, EntriesOn, SparesOn
    <2>2. \A g \in Gates : TurnsOn(g)' = TurnsOn(g)
      BY <1>9 DEF TurnsOn, OnRegistry
    <2>3. QED
      BY <1>1, <2>1, <2>2, OwnedIsCounted, OwnedIsCountedNext DEF RefsCounted, FiledAreReferenced
  <1>12. SparesInTransit'
    BY <1>1, <1>2 DEF SparesInTransit
  <1>13. EntriesAreFiled'
    <2>1. \A q \in Requests : at[q] \in Placed => at'[q] \in Placed
      BY <1>1, <1>2 DEF Placed, Turning
    <2>2. \A q \in Requests : q \in retired => users'[q] = users[q]
      BY <1>3, <1>5
    <2>3. \A q \in Requests : users'[q] > 0 => q \in cache[SessionOf[q]] \/ q \in retired
      BY <1>3, <1>5 DEF EntriesAreFiled
    <2>4. QED
      BY <1>1, <2>1, <2>2, <2>3 DEF EntriesAreFiled, GatesTypeOK
  <1>14. UsersCounted'
    <2>1. ASSUME NEW q \in Requests \ {e} PROVE UsersOf(q)' = UsersOf(q)
      BY <1>2, <1>3, <1>4, <2>1, GateAssumption DEF UsersOf, NoEntry
    <2>2. UsersOf(e)' = UsersOf(e) \cup {r} /\ r \notin UsersOf(e)
      BY <1>1, <1>2, <1>3, <1>4 DEF UsersOf, Using
    <2>3. UsersOf(e) \subseteq Requests
      BY DEF UsersOf
    <2>4. Cardinality(UsersOf(e)') = Cardinality(UsersOf(e)) + 1
      BY <2>2, <2>3, PartIsFinite, OneMore, GateAssumption
    <2>5. users'[e] = Cardinality(UsersOf(e)')
      BY <2>4, <1>3, <1>5 DEF UsersCounted
    <2>6. \A q \in Requests : users'[q] = Cardinality(UsersOf(q)')
      BY <2>1, <2>5, <1>5 DEF UsersCounted
    <2>7. QED
      BY <2>6 DEF UsersCounted, UsersOf
  <1>15. PathsAreKept'
    BY <1>1, <1>2, <1>3, <1>4 DEF PathsAreKept, PathIsKept, Turning, Using
  <1>16. TurnsAreTaken' /\ SplitIsNoted'
    BY <1>1, <1>2, <1>4 DEF TurnsAreTaken, SplitIsNoted, Reaching, Turning, Spans
  <1>17. PinsAreKept'
    <2>1. counted' = {q \in Requests : at'[q] \notin {"new", "resolved", "done"}}
      BY <1>1, <1>2 DEF PinsAreKept
    <2>2. \A q \in Requests : at'[q] \in Reaching \/ (q \in Sampling /\ at'[q] = "counted") => SessionOf[q] \in pinned
      BY <1>1, <1>2 DEF PinsAreKept, Reaching, Turning
    <2>3. QED
      BY <1>1, <2>1, <2>2 DEF PinsAreKept
  <1>18. QED
    BY <1>6, <1>7, <1>10, <1>11, <1>12, <1>13, <1>14, <1>15, <1>16, <1>17

\* The counts of a gate after its owners changed in one way.
LEMMA PinCount ==
  ASSUME NEW g \in Gates, NEW d \in Int, RefsCounted, GatesTypeOK,
         EntriesOn(g)' = EntriesOn(g), SparesOn(g)' = SparesOn(g), TurnsOn(g)' = TurnsOn(g),
         Cardinality(PinsOn(g)') = Cardinality(PinsOn(g)) + d, refs'[g] = refs[g] + d
  PROVE  refs'[g] = Cardinality(PinsOn(g)') + Cardinality(EntriesOn(g)')
                    + Cardinality(SparesOn(g)') + Cardinality(TurnsOn(g)')
  BY OwnersAreFinite DEF RefsCounted
LEMMA EntryCount ==
  ASSUME NEW g \in Gates, NEW d \in Int, RefsCounted, GatesTypeOK,
         PinsOn(g)' = PinsOn(g), SparesOn(g)' = SparesOn(g), TurnsOn(g)' = TurnsOn(g),
         Cardinality(EntriesOn(g)') = Cardinality(EntriesOn(g)) + d, refs'[g] = refs[g] + d
  PROVE  refs'[g] = Cardinality(PinsOn(g)') + Cardinality(EntriesOn(g)')
                    + Cardinality(SparesOn(g)') + Cardinality(TurnsOn(g)')
  BY OwnersAreFinite DEF RefsCounted
LEMMA SpareCount ==
  ASSUME NEW g \in Gates, NEW d \in Int, RefsCounted, GatesTypeOK,
         PinsOn(g)' = PinsOn(g), EntriesOn(g)' = EntriesOn(g), TurnsOn(g)' = TurnsOn(g),
         Cardinality(SparesOn(g)') = Cardinality(SparesOn(g)) + d, refs'[g] = refs[g] + d
  PROVE  refs'[g] = Cardinality(PinsOn(g)') + Cardinality(EntriesOn(g)')
                    + Cardinality(SparesOn(g)') + Cardinality(TurnsOn(g)')
  BY OwnersAreFinite DEF RefsCounted
LEMMA TurnCount ==
  ASSUME NEW g \in Gates, NEW d \in Int, RefsCounted, GatesTypeOK,
         PinsOn(g)' = PinsOn(g), EntriesOn(g)' = EntriesOn(g), SparesOn(g)' = SparesOn(g),
         Cardinality(TurnsOn(g)') = Cardinality(TurnsOn(g)) + d, refs'[g] = refs[g] + d
  PROVE  refs'[g] = Cardinality(PinsOn(g)') + Cardinality(EntriesOn(g)')
                    + Cardinality(SparesOn(g)') + Cardinality(TurnsOn(g)')
  BY OwnersAreFinite DEF RefsCounted
LEMMA CountsAreCounted ==
  ASSUME \A g \in Gates : refs'[g] = Cardinality(PinsOn(g)') + Cardinality(EntriesOn(g)')
                                     + Cardinality(SparesOn(g)') + Cardinality(TurnsOn(g)')
  PROVE  RefsCounted'
  BY DEF RefsCounted, PinsOn, EntriesOn, SparesOn, TurnsOn, Entries

\* A session pins the gate of its anchor.
LEMMA PinMove ==
  ASSUME GatesIInv, NEW s \in Sessions, holdDecisionGate(s)
  PROVE  GatesIInv'
  <1> USE DEF GatesIInv
  <1>1. /\ UNCHANGED <<turn, waiters, split, cache, closed, entryGate, users, retired>>
        /\ UNCHANGED <<at, counted, gate, tier, entry, spare>>
        /\ stage[s] = "new" /\ stage' = [stage EXCEPT ![s] = "live"] /\ pinned' = pinned \cup {s}
        /\ registered' = registered \cup {s} /\ reading' = reading \cup {s}
    BY DEF holdDecisionGate, cacheVars, requestVars
  <1>2. PICK g \in Gates : hold(PinAnchor[s], g) /\ pin' = [pin EXCEPT ![s] = g]
    BY DEF holdDecisionGate
  <1>3. RefsCounted /\ FiledAreReferenced /\ PinAnchor[s] \in Anchors /\ s \notin pinned
    BY <1>1, OwnedIsCounted, GateAssumption DEF PinsAreKept
  <1>4. /\ registry' \in [Anchors -> Gates \cup {NoGate}] /\ built' \in 0 .. MaxGates
        /\ refs' \in [Gates -> Nat] /\ RegistryIsSound' /\ FiledAreReferenced'
        /\ registry'[PinAnchor[s]] = g /\ \A b \in Anchors : registry[b] # NoGate => registry'[b] = registry[b]
        /\ refs'[g] = refs[g] + 1 /\ \A h \in Gates \ {g} : refs'[h] = refs[h]
    BY <1>2, <1>3, HoldFiles
  <1>5. pin' \in [Sessions -> Gates \cup {NoGate}] /\ pin'[s] = g /\ \A z \in Sessions \ {s} : pin'[z] = pin[z]
    BY <1>2 DEF GatesTypeOK
  <1>6. GatesTypeOK'
    BY <1>1, <1>4, <1>5 DEF GatesTypeOK
  <1>7. Entries' = Entries /\ \A q \in Requests : OnRegistry(q)' <=> OnRegistry(q)
    BY <1>1 DEF Entries, OnRegistry
  <1>8. OwnersAreFiled'
    <2>1. \A q \in Requests : AnchorOf[q] \in Anchors
      BY GateAssumption
    <2>2. \A z \in pinned' : pin'[z] # NoGate /\ registry'[PinAnchor[z]] = pin'[z]
      <3>1. \A z \in pinned : /\ z \in Sessions \ {s} /\ PinAnchor[z] \in Anchors
                              /\ pin[z] # NoGate /\ registry[PinAnchor[z]] = pin[z]
        BY <1>3, GateAssumption DEF OwnersAreFiled, GatesTypeOK
      <3>2. g # NoGate
        BY GateAssumption DEF Gates, NoGate
      <3>3. QED
        BY <1>1, <1>4, <1>5, <3>1, <3>2
    <2>3. \A e \in Entries : entryGate[e] # NoGate /\ registry'[AnchorOf[e]] = entryGate[e]
      BY <1>4, <2>1 DEF OwnersAreFiled, Entries
    <2>4. \A q \in Requests : spare[q] # NoGate => registry'[AnchorOf[q]] = spare[q]
      BY <1>4, <2>1 DEF OwnersAreFiled
    <2>5. \A q \in Requests : OnRegistry(q) => gate[q] # NoGate /\ registry'[AnchorOf[q]] = gate[q]
      BY <1>4, <2>1 DEF OwnersAreFiled
    <2>6. QED
      BY <1>1, <1>7, <2>2, <2>3, <2>4, <2>5 DEF OwnersAreFiled
  <1>9. EveryReferenceOwned'
    <2>1. ASSUME NEW h \in Gates
          PROVE  EntriesOn(h)' = EntriesOn(h) /\ SparesOn(h)' = SparesOn(h) /\ TurnsOn(h)' = TurnsOn(h)
      BY <1>1, <1>7 DEF EntriesOn, SparesOn, TurnsOn
    <2>2. PinsOn(g)' = PinsOn(g) \cup {s} /\ s \notin PinsOn(g) /\ \A h \in Gates \ {g} : PinsOn(h)' = PinsOn(h)
      BY <1>1, <1>3, <1>5 DEF PinsOn, GatesTypeOK
    <2>3. Cardinality(PinsOn(g)') = Cardinality(PinsOn(g)) + 1
      BY <2>2, OwnersAreFinite, OneMore
    <2>4. refs'[g] = Cardinality(PinsOn(g)') + Cardinality(EntriesOn(g)')
                     + Cardinality(SparesOn(g)') + Cardinality(TurnsOn(g)')
      BY <1>3, <1>4, <2>1, <2>3, PinCount
    <2>5. \A h \in Gates \ {g} : refs'[h] = Cardinality(PinsOn(h)') + Cardinality(EntriesOn(h)')
                                            + Cardinality(SparesOn(h)') + Cardinality(TurnsOn(h)')
      BY <1>3, <1>4, <2>1, <2>2 DEF RefsCounted
    <2>6. \A h \in Gates : refs'[h] = Cardinality(PinsOn(h)') + Cardinality(EntriesOn(h)')
                                      + Cardinality(SparesOn(h)') + Cardinality(TurnsOn(h)')
      BY <2>4, <2>5
    <2>7. QED
      BY <1>4, <2>6, CountsAreCounted, OwnedIsCountedNext
  <1>10. SparesInTransit' /\ EntriesAreFiled'
    BY <1>1 DEF SparesInTransit, EntriesAreFiled
  <1>11. UsersCounted'
    <2>1. \A e \in Requests : UsersOf(e)' = UsersOf(e)
      BY <1>1 DEF UsersOf
    <2>2. QED
      BY <1>1, <2>1 DEF UsersCounted
  <1>12. \A q \in Requests : at[q] \in Turning => SessionOf[q] \in Sessions \ {s}
    BY <1>3, GateAssumption DEF PinsAreKept, Reaching
  <1>13. PathsAreKept' /\ TurnsAreTaken' /\ SplitIsNoted'
    BY <1>1, <1>5, <1>12 DEF PathsAreKept, PathIsKept, TurnsAreTaken, SplitIsNoted, Spans
  <1>14. PinsAreKept'
    <2>1. stage'[s] = "live" /\ \A z \in Sessions \ {s} : stage'[z] = stage[z]
      BY <1>1 DEF GatesTypeOK
    <2>2. QED
      BY <1>1, <1>3, <2>1 DEF PinsAreKept, GatesTypeOK
  <1>15. QED
    BY <1>4, <1>6, <1>8, <1>9, <1>10, <1>11, <1>13, <1>14

\* A request references the gate of its anchor, for the cache.
LEMMA SpareMove ==
  ASSUME GatesIInv, NEW r \in Requests, HoldForCache(r)
  PROVE  GatesIInv'
  <1> USE DEF GatesIInv
  <1>1. /\ UNCHANGED <<turn, stage, registered, reading, pin, pinned, waiters, split>>
        /\ UNCHANGED <<cache, closed, entryGate, users, retired, counted, gate, tier, entry>>
        /\ at[r] = "missed" /\ GoTo(r, "inserting")
    BY DEF HoldForCache, sessionVars, cacheVars
  <1>2. PICK g \in Gates : hold(AnchorOf[r], g) /\ spare' = [spare EXCEPT ![r] = g]
    BY DEF HoldForCache
  <1>3. RefsCounted /\ FiledAreReferenced /\ AnchorOf[r] \in Anchors /\ NoGate \notin Gates /\ spare[r] = NoGate
    BY <1>1, OwnedIsCounted, GateAssumption DEF SparesInTransit, NoGate, Gates
  <1>4. /\ registry' \in [Anchors -> Gates \cup {NoGate}] /\ built' \in 0 .. MaxGates
        /\ refs' \in [Gates -> Nat] /\ RegistryIsSound' /\ FiledAreReferenced'
        /\ registry'[AnchorOf[r]] = g /\ \A b \in Anchors : registry[b] # NoGate => registry'[b] = registry[b]
        /\ refs'[g] = refs[g] + 1 /\ \A h \in Gates \ {g} : refs'[h] = refs[h]
    BY <1>2, <1>3, HoldFiles
  <1>5. spare' \in [Requests -> Gates \cup {NoGate}] /\ spare'[r] = g /\ \A q \in Requests \ {r} : spare'[q] = spare[q]
    BY <1>2 DEF GatesTypeOK
  <1>6. at' \in [Requests -> Places] /\ at'[r] = "inserting" /\ \A q \in Requests \ {r} : at'[q] = at[q]
    BY <1>1, Moved DEF Places, Reaching
  <1>7. GatesTypeOK'
    BY <1>1, <1>4, <1>5, <1>6 DEF GatesTypeOK, Places, Reaching, Turning
  <1>8. Entries' = Entries /\ \A q \in Requests : OnRegistry(q)' <=> OnRegistry(q)
    BY <1>1, <1>6 DEF Entries, OnRegistry, Referring
  <1>9. OwnersAreFiled'
    <2>1. \A q \in Requests : AnchorOf[q] \in Anchors /\ PinAnchor[SessionOf[q]] \in Anchors
      BY GateAssumption
    <2>2. \A z \in pinned : pin[z] # NoGate /\ registry'[PinAnchor[z]] = pin[z]
      BY <1>4, GateAssumption DEF OwnersAreFiled, GatesTypeOK
    <2>3. \A e \in Entries : entryGate[e] # NoGate /\ registry'[AnchorOf[e]] = entryGate[e]
      BY <1>4, <2>1 DEF OwnersAreFiled, Entries
    <2>4. \A q \in Requests : spare'[q] # NoGate => registry'[AnchorOf[q]] = spare'[q]
      BY <1>4, <1>5, <2>1 DEF OwnersAreFiled
    <2>5. \A q \in Requests : OnRegistry(q) => gate[q] # NoGate /\ registry'[AnchorOf[q]] = gate[q]
      BY <1>4, <2>1 DEF OwnersAreFiled
    <2>6. QED
      BY <1>1, <1>8, <2>2, <2>3, <2>4, <2>5 DEF OwnersAreFiled
  <1>10. EveryReferenceOwned'
    <2>1. ASSUME NEW h \in Gates
          PROVE  EntriesOn(h)' = EntriesOn(h) /\ PinsOn(h)' = PinsOn(h) /\ TurnsOn(h)' = TurnsOn(h)
      BY <1>1, <1>6, <1>8 DEF EntriesOn, PinsOn, TurnsOn, Referring
    <2>2. SparesOn(g)' = SparesOn(g) \cup {r} /\ r \notin SparesOn(g) /\ \A h \in Gates \ {g} : SparesOn(h)' = SparesOn(h)
      BY <1>3, <1>5 DEF SparesOn
    <2>3. Cardinality(SparesOn(g)') = Cardinality(SparesOn(g)) + 1
      BY <2>2, OwnersAreFinite, OneMore
    <2>4. refs'[g] = Cardinality(PinsOn(g)') + Cardinality(EntriesOn(g)')
                     + Cardinality(SparesOn(g)') + Cardinality(TurnsOn(g)')
      BY <1>3, <1>4, <2>1, <2>3, SpareCount
    <2>5. \A h \in Gates \ {g} : refs'[h] = Cardinality(PinsOn(h)') + Cardinality(EntriesOn(h)')
                                            + Cardinality(SparesOn(h)') + Cardinality(TurnsOn(h)')
      BY <1>3, <1>4, <2>1, <2>2 DEF RefsCounted
    <2>6. \A h \in Gates : refs'[h] = Cardinality(PinsOn(h)') + Cardinality(EntriesOn(h)')
                                      + Cardinality(SparesOn(h)') + Cardinality(TurnsOn(h)')
      BY <2>4, <2>5
    <2>7. QED
      BY <1>4, <2>6, CountsAreCounted, OwnedIsCountedNext
  <1>11. SparesInTransit'
    BY <1>3, <1>5, <1>6 DEF SparesInTransit
  <1>12. EntriesAreFiled'
    <2>1. \A q \in Requests : at[q] \in Placed => at'[q] \in Placed
      BY <1>1, <1>6 DEF Placed, Turning
    <2>2. QED
      BY <1>1, <2>1 DEF EntriesAreFiled
  <1>13. UsersCounted'
    <2>1. \A e \in Requests : UsersOf(e)' = UsersOf(e)
      BY <1>1, <1>6 DEF UsersOf, Using
    <2>2. QED
      BY <1>1, <2>1 DEF UsersCounted
  <1>14. PathsAreKept' /\ TurnsAreTaken' /\ SplitIsNoted'
    BY <1>1, <1>6 DEF PathsAreKept, PathIsKept, TurnsAreTaken, SplitIsNoted, Spans, Turning, Using, Reaching
  <1>15. PinsAreKept'
    <2>1. counted' = {q \in Requests : at'[q] \notin {"new", "resolved", "done"}}
      BY <1>1, <1>6 DEF PinsAreKept
    <2>2. \A q \in Requests : at'[q] \in Reaching \/ (q \in Sampling /\ at'[q] = "counted") => SessionOf[q] \in pinned
      BY <1>1, <1>6 DEF PinsAreKept, Reaching, Turning
    <2>3. QED
      BY <1>1, <2>1, <2>2 DEF PinsAreKept
  <1>16. QED
    BY <1>4, <1>7, <1>9, <1>10, <1>11, <1>12, <1>13, <1>14, <1>15

\* A request references the gate of its anchor, for its turn.
LEMMA RegistryMove ==
  ASSUME GatesIInv, NEW r \in Requests, UseRegistry(r)
  PROVE  GatesIInv'
  <1> USE DEF GatesIInv
  <1>1. /\ UNCHANGED <<turn, stage, registered, reading, pin, pinned, waiters, split>>
        /\ UNCHANGED <<cache, closed, entryGate, users, retired, counted, entry, spare>>
        /\ at[r] = "uncached" /\ GoTo(r, "queued") /\ tier' = [tier EXCEPT ![r] = "registry"]
    BY DEF UseRegistry, sessionVars, cacheVars
  <1>2. PICK g \in Gates : hold(AnchorOf[r], g) /\ gate' = [gate EXCEPT ![r] = g]
    BY DEF UseRegistry
  <1>3. RefsCounted /\ FiledAreReferenced /\ AnchorOf[r] \in Anchors /\ NoGate \notin Gates
        /\ r \notin Sampling /\ entry[r] = NoEntry
    BY <1>1, OwnedIsCounted, GateAssumption DEF PathsAreKept, PathIsKept, Using, NoGate, Gates
  <1>4. /\ registry' \in [Anchors -> Gates \cup {NoGate}] /\ built' \in 0 .. MaxGates
        /\ refs' \in [Gates -> Nat] /\ RegistryIsSound' /\ FiledAreReferenced'
        /\ registry'[AnchorOf[r]] = g /\ \A b \in Anchors : registry[b] # NoGate => registry'[b] = registry[b]
        /\ refs'[g] = refs[g] + 1 /\ \A h \in Gates \ {g} : refs'[h] = refs[h]
    BY <1>2, <1>3, HoldFiles
  <1>5. /\ gate' \in [Requests -> Gates \cup {NoGate}] /\ gate'[r] = g
        /\ tier' \in [Requests -> {"pin", "cache", "registry"}] /\ tier'[r] = "registry"
        /\ \A q \in Requests \ {r} : gate'[q] = gate[q] /\ tier'[q] = tier[q]
    BY <1>1, <1>2 DEF GatesTypeOK
  <1>6. at' \in [Requests -> Places] /\ at'[r] = "queued" /\ \A q \in Requests \ {r} : at'[q] = at[q]
    BY <1>1, Moved DEF Places, Reaching, Turning
  <1>7. GatesTypeOK'
    BY <1>1, <1>4, <1>5, <1>6 DEF GatesTypeOK, Places, Reaching, Turning
  <1>8. Entries' = Entries /\ \A q \in Requests \ {r} : OnRegistry(q)' <=> OnRegistry(q)
    BY <1>1, <1>5, <1>6 DEF Entries, OnRegistry
  <1>9. OwnersAreFiled'
    <2>1. \A q \in Requests : AnchorOf[q] \in Anchors
      BY GateAssumption
    <2>2. \A z \in pinned : pin[z] # NoGate /\ registry'[PinAnchor[z]] = pin[z]
      BY <1>4, GateAssumption DEF OwnersAreFiled, GatesTypeOK
    <2>3. \A e \in Entries : entryGate[e] # NoGate /\ registry'[AnchorOf[e]] = entryGate[e]
      BY <1>4, <2>1 DEF OwnersAreFiled, Entries
    <2>4. \A q \in Requests : spare[q] # NoGate => registry'[AnchorOf[q]] = spare[q]
      BY <1>4, <2>1 DEF OwnersAreFiled
    <2>5. \A q \in Requests : OnRegistry(q)' => gate'[q] # NoGate /\ registry'[AnchorOf[q]] = gate'[q]
      BY <1>3, <1>4, <1>5, <1>8, <2>1 DEF OwnersAreFiled
    <2>6. QED
      BY <1>1, <1>8, <2>2, <2>3, <2>4, <2>5 DEF OwnersAreFiled
  <1>10. EveryReferenceOwned'
    <2>1. ASSUME NEW h \in Gates
          PROVE  EntriesOn(h)' = EntriesOn(h) /\ PinsOn(h)' = PinsOn(h) /\ SparesOn(h)' = SparesOn(h)
      BY <1>1, <1>8 DEF EntriesOn, PinsOn, SparesOn
    <2>2. TurnsOn(g)' = TurnsOn(g) \cup {r} /\ r \notin TurnsOn(g) /\ \A h \in Gates \ {g} : TurnsOn(h)' = TurnsOn(h)
      BY <1>1, <1>5, <1>6 DEF TurnsOn, Referring
    <2>3. Cardinality(TurnsOn(g)') = Cardinality(TurnsOn(g)) + 1
      BY <2>2, OwnersAreFinite, OneMore
    <2>4. refs'[g] = Cardinality(PinsOn(g)') + Cardinality(EntriesOn(g)')
                     + Cardinality(SparesOn(g)') + Cardinality(TurnsOn(g)')
      BY <1>3, <1>4, <2>1, <2>3, TurnCount
    <2>5. \A h \in Gates \ {g} : refs'[h] = Cardinality(PinsOn(h)') + Cardinality(EntriesOn(h)')
                                            + Cardinality(SparesOn(h)') + Cardinality(TurnsOn(h)')
      BY <1>3, <1>4, <2>1, <2>2 DEF RefsCounted
    <2>6. \A h \in Gates : refs'[h] = Cardinality(PinsOn(h)') + Cardinality(EntriesOn(h)')
                                      + Cardinality(SparesOn(h)') + Cardinality(TurnsOn(h)')
      BY <2>4, <2>5
    <2>7. QED
      BY <1>4, <2>6, CountsAreCounted, OwnedIsCountedNext
  <1>11. SparesInTransit'
    BY <1>1, <1>6 DEF SparesInTransit
  <1>12. EntriesAreFiled'
    <2>1. \A q \in Requests : at[q] \in Placed => at'[q] \in Placed
      BY <1>1, <1>6 DEF Placed, Turning
    <2>2. QED
      BY <1>1, <2>1 DEF EntriesAreFiled
  <1>13. UsersCounted'
    <2>1. \A e \in Requests : UsersOf(e)' = UsersOf(e)
      BY <1>1, <1>3, <1>6, GateAssumption DEF UsersOf, Using, NoEntry
    <2>2. QED
      BY <1>1, <2>1 DEF UsersCounted
  <1>14. PathsAreKept' /\ TurnsAreTaken' /\ SplitIsNoted'
    BY <1>1, <1>3, <1>5, <1>6 DEF PathsAreKept, PathIsKept, TurnsAreTaken, SplitIsNoted, Spans, Turning, Using, Reaching
  <1>15. PinsAreKept'
    <2>1. counted' = {q \in Requests : at'[q] \notin {"new", "resolved", "done"}}
      BY <1>1, <1>6 DEF PinsAreKept
    <2>2. \A q \in Requests : at'[q] \in Reaching \/ (q \in Sampling /\ at'[q] = "counted") => SessionOf[q] \in pinned
      BY <1>1, <1>6 DEF PinsAreKept, Reaching, Turning
    <2>3. QED
      BY <1>1, <2>1, <2>2 DEF PinsAreKept
  <1>16. QED
    BY <1>4, <1>7, <1>9, <1>10, <1>11, <1>12, <1>13, <1>14, <1>15

\* A session's pin is left to a waiter.
LEMMA WaiterMove ==
  ASSUME GatesIInv, NEW s \in Sessions, stage[s] = "draining", stage' = [stage EXCEPT ![s] = "closing"],
         waiters' = waiters \cup {s},
         UNCHANGED <<pinned, gateVars, turn, registered, reading, pin, split, cacheVars, at, counted, requestVars>>
  PROVE  GatesIInv'
  <1> USE DEF GatesIInv
  <1>1. /\ UNCHANGED <<registry, built, refs, turn, pin, pinned, split, registered, reading>>
        /\ UNCHANGED <<cache, closed, entryGate, users, retired>>
        /\ UNCHANGED <<at, counted, gate, tier, entry, spare>>
    BY DEF gateVars, cacheVars, requestVars
  <1>2. GatesTypeOK' /\ PinsAreKept'
    BY <1>1 DEF GatesTypeOK, PinsAreKept
  <1>3. PathsAreKept' /\ TurnsAreTaken' /\ SplitIsNoted'
    BY <1>1 DEF PathsAreKept, PathIsKept, TurnsAreTaken, SplitIsNoted, Spans
  <1>4. \A q \in Requests : OnRegistry(q)' <=> OnRegistry(q)
    BY <1>1 DEF OnRegistry
  <1>5. /\ RegistryIsSound' /\ OwnersAreFiled' /\ EveryReferenceOwned' /\ SparesInTransit'
        /\ EntriesAreFiled' /\ UsersCounted'
    BY <1>1, <1>4, NothingMoves DEF gateVars, cacheVars
  <1>6. QED
    BY <1>2, <1>3, <1>5

\* One reference of gate g is dropped.
LEMMA DropOne ==
  ASSUME GatesTypeOK, NEW g \in Gates, drop({g})
  PROVE  refs'[g] = refs[g] - 1 /\ \A h \in Gates \ {g} : refs'[h] = refs[h]
  BY DEF drop, GatesTypeOK

\* The counts are natural numbers.
LEMMA CountsAreNatural ==
  ASSUME NEW g, PinsOn(g)' \subseteq Sessions, EntriesOn(g)' \subseteq Requests, SparesOn(g)' \subseteq Requests,
         TurnsOn(g)' \subseteq Requests,
         refs'[g] = Cardinality(PinsOn(g)') + Cardinality(EntriesOn(g)')
                    + Cardinality(SparesOn(g)') + Cardinality(TurnsOn(g)')
  PROVE  refs'[g] \in Nat
  <1>1. /\ Cardinality(PinsOn(g)') \in Nat /\ Cardinality(EntriesOn(g)') \in Nat
        /\ Cardinality(SparesOn(g)') \in Nat /\ Cardinality(TurnsOn(g)') \in Nat
    BY PartIsFinite, GateAssumption
  <1>2. QED
    BY <1>1

\* A session's pin is dropped, when no counted request is left in it.
LEMMA DropPinMove ==
  ASSUME GatesIInv, NEW s \in Sessions, InFlight(s) = {}, DropPin(s), s \in pinned,
         NEW l \in {"closing", "gone"}, stage' = [stage EXCEPT ![s] = l], stage[s] # "live",
         waiters' = waiters \ {s},
         UNCHANGED <<turn, registered, reading, pin, split, cacheVars, at, counted, requestVars>>
  PROVE  GatesIInv'
  <1> USE DEF GatesIInv
  <1>1. /\ UNCHANGED <<turn, pin, split, registered, reading>>
        /\ UNCHANGED <<cache, closed, entryGate, users, retired>>
        /\ UNCHANGED <<at, counted, gate, tier, entry, spare>>
        /\ pinned' = pinned \ {s} /\ drop({pin[s]})
        /\ stage' \in [Sessions -> {"new", "live", "draining", "closing", "gone"}]
        /\ stage'[s] = l /\ \A z \in Sessions \ {s} : stage'[z] = stage[z]
    BY DEF cacheVars, requestVars, DropPin, GatesTypeOK
  <1>2. PICK g \in Gates : g = pin[s]
    BY DEF OwnersAreFiled, GatesTypeOK
  <1>3. RefsCounted /\ FiledAreReferenced /\ refs'[g] = refs[g] - 1 /\ \A h \in Gates \ {g} : refs'[h] = refs[h]
    BY <1>1, <1>2, OwnedIsCounted, DropOne
  <1>4. Entries' = Entries /\ \A q \in Requests : OnRegistry(q)' <=> OnRegistry(q)
    BY <1>1 DEF Entries, OnRegistry
  <1>5. \A h \in Gates : refs'[h] = Cardinality(PinsOn(h)') + Cardinality(EntriesOn(h)')
                                    + Cardinality(SparesOn(h)') + Cardinality(TurnsOn(h)')
    <2>1. ASSUME NEW h \in Gates
          PROVE  EntriesOn(h)' = EntriesOn(h) /\ SparesOn(h)' = SparesOn(h) /\ TurnsOn(h)' = TurnsOn(h)
      BY <1>1, <1>4 DEF EntriesOn, SparesOn, TurnsOn
    <2>2. PinsOn(g)' = PinsOn(g) \ {s} /\ s \in PinsOn(g) /\ \A h \in Gates \ {g} : PinsOn(h)' = PinsOn(h)
      BY <1>1, <1>2 DEF PinsOn
    <2>3. Cardinality(PinsOn(g)') = Cardinality(PinsOn(g)) + (-1) /\ refs'[g] = refs[g] + (-1)
      BY <1>3, <2>2, OwnersAreFinite, OneLess DEF GatesTypeOK
    <2>4. refs'[g] = Cardinality(PinsOn(g)') + Cardinality(EntriesOn(g)')
                     + Cardinality(SparesOn(g)') + Cardinality(TurnsOn(g)')
      BY <1>3, <2>1, <2>3, PinCount
    <2>5. \A h \in Gates \ {g} : refs'[h] = Cardinality(PinsOn(h)') + Cardinality(EntriesOn(h)')
                                            + Cardinality(SparesOn(h)') + Cardinality(TurnsOn(h)')
      BY <1>3, <2>1, <2>2 DEF RefsCounted
    <2>6. QED
      BY <2>4, <2>5
  <1>6. \A h \in Gates : refs'[h] \in Nat
    <2>1. \A h \in Gates : /\ PinsOn(h)' \subseteq Sessions /\ EntriesOn(h)' \subseteq Requests
                           /\ SparesOn(h)' \subseteq Requests /\ TurnsOn(h)' \subseteq Requests
      BY <1>1 DEF PinsOn, EntriesOn, Entries, SparesOn, TurnsOn, GatesTypeOK
    <2>2. QED
      BY <1>5, <2>1, CountsAreNatural
  <1>7. /\ registry' \in [Anchors -> Gates \cup {NoGate}] /\ built' = built
        /\ refs' \in [Gates -> Nat] /\ RegistryIsSound' /\ FiledAreReferenced'
        /\ \A a \in Anchors : registry[a] # NoGate /\ refs'[registry[a]] > 0 => registry'[a] = registry[a]
    BY <1>1, <1>2, <1>3, <1>6, DropUnfiles
  <1>8. GatesTypeOK'
    BY <1>1, <1>7 DEF GatesTypeOK
  <1>9. RefsCounted' /\ EveryReferenceOwned'
    BY <1>5, <1>7, CountsAreCounted, OwnedIsCountedNext
  <1>10. OwnersAreFiled'
    <2>1. /\ \A z \in pinned' : pin'[z] # NoGate /\ registry[PinAnchor[z]] = pin'[z]
          /\ \A e \in Entries' : entryGate'[e] # NoGate /\ registry[AnchorOf[e]] = entryGate'[e]
          /\ \A q \in Requests : spare'[q] # NoGate => registry[AnchorOf[q]] = spare'[q]
          /\ \A q \in Requests : OnRegistry(q)' => gate'[q] # NoGate /\ registry[AnchorOf[q]] = gate'[q]
      BY <1>1, <1>4 DEF OwnersAreFiled
    <2>2. QED
      BY <1>7, <1>8, <1>9, <2>1, OwnersStayFiled
  <1>11. SparesInTransit' /\ EntriesAreFiled'
    BY <1>1 DEF SparesInTransit, EntriesAreFiled
  <1>12. UsersCounted'
    <2>1. \A e \in Requests : UsersOf(e)' = UsersOf(e)
      BY <1>1 DEF UsersOf
    <2>2. QED
      BY <1>1, <2>1 DEF UsersCounted
  <1>13. PathsAreKept' /\ TurnsAreTaken' /\ SplitIsNoted'
    BY <1>1 DEF PathsAreKept, PathIsKept, TurnsAreTaken, SplitIsNoted, Spans
  <1>14. PinsAreKept'
    <2>1. \A q \in Requests : at[q] \notin {"new", "resolved", "done"} => SessionOf[q] # s
      BY DEF PinsAreKept, InFlight
    <2>2. \A q \in Requests : at[q] \in Reaching \/ (q \in Sampling /\ at[q] = "counted") => SessionOf[q] \in pinned'
      BY <1>1, <2>1 DEF PinsAreKept, Reaching, Turning
    <2>3. QED
      BY <1>1, <2>2 DEF PinsAreKept
  <1>15. QED
    BY <1>7, <1>8, <1>9, <1>10, <1>11, <1>12, <1>13, <1>14

\* The two ways a session's pin is given up.
LEMMA ReleasePinMove ==
  ASSUME GatesIInv, NEW s \in Sessions, releaseSessionObjectState(s) \/ awaitAndDropDecideGate(s)
  PROVE  GatesIInv'
  <1>1. CASE releaseSessionObjectState(s)
    <2>0. /\ stage[s] = "draining" /\ stage' = [stage EXCEPT ![s] = "closing"]
          /\ UNCHANGED <<turn, registered, reading, pin, split, cacheVars, at, counted, requestVars>>
      BY <1>1 DEF releaseSessionObjectState
    <2>1. CASE InFlight(s) = {} /\ DropPin(s) /\ UNCHANGED waiters
      <3>1. s \in pinned /\ waiters' = waiters \ {s}
        BY <2>0, <2>1 DEF PinsAreKept, GatesIInv
      <3>2. stage[s] # "live"
        BY <2>0
      <3>3. QED
        BY <2>0, <2>1, <3>1, <3>2, DropPinMove
    <2>2. CASE InFlight(s) # {} /\ waiters' = waiters \cup {s} /\ UNCHANGED <<pinned, gateVars>>
      BY <2>0, <2>2, WaiterMove
    <2>3. QED
      BY <1>1, <2>1, <2>2 DEF releaseSessionObjectState
  <1>2. CASE awaitAndDropDecideGate(s)
    <2>0. /\ s \in waiters /\ InFlight(s) = {} /\ waiters' = waiters \ {s} /\ DropPin(s)
          /\ UNCHANGED <<turn, stage, registered, reading, pin, split, cacheVars, at, counted, requestVars>>
      BY <1>2 DEF awaitAndDropDecideGate
    <2>1. s \in pinned /\ stage[s] \in {"closing", "gone"}
      BY <2>0 DEF PinsAreKept, GatesTypeOK, GatesIInv
    <2>2. stage[s] # "live" /\ stage' = [stage EXCEPT ![s] = stage[s]]
      BY <2>0, <2>1 DEF GatesTypeOK, GatesIInv
    <2>3. UNCHANGED <<turn, registered, reading, pin, split, cacheVars, at, counted, requestVars>>
      BY <2>0
    <2>4. QED
      BY <2>0, <2>1, <2>2, <2>3, DropPinMove
  <1>3. QED
    BY <1>1, <1>2

\* A request gives back the reference the cache did not take.
LEMMA SurplusMove ==
  ASSUME GatesIInv, NEW r \in Requests, DropSurplus(r)
  PROVE  GatesIInv'
  <1> USE DEF GatesIInv
  <1>1. /\ UNCHANGED <<turn, stage, registered, reading, pin, pinned, waiters, split>>
        /\ UNCHANGED <<cache, closed, entryGate, users, retired>>
        /\ UNCHANGED <<counted, gate, tier, entry>>
        /\ at[r] = "surplus" /\ spare' = [spare EXCEPT ![r] = NoGate] /\ drop({spare[r]})
    BY DEF DropSurplus, cacheVars, sessionVars
  <1>2. PICK l \in {"uncached", "queued"} : GoTo(r, l) /\ (l = "uncached" <=> entry[r] = NoEntry)
    BY DEF DropSurplus
  <1>3. PICK g \in Gates : g = spare[r]
    BY <1>1 DEF SparesInTransit, GatesTypeOK
  <1>4. RefsCounted /\ FiledAreReferenced /\ refs'[g] = refs[g] - 1 /\ \A h \in Gates \ {g} : refs'[h] = refs[h]
    BY <1>1, <1>3, OwnedIsCounted, DropOne
  <1>5. at' \in [Requests -> Places] /\ at'[r] = l /\ \A q \in Requests \ {r} : at'[q] = at[q]
    BY <1>2, Moved DEF Places, Reaching, Turning
  <1>6. /\ spare' \in [Requests -> Gates \cup {NoGate}] /\ spare'[r] = NoGate
        /\ \A q \in Requests \ {r} : spare'[q] = spare[q]
    BY <1>1 DEF GatesTypeOK
  <1>7. Entries' = Entries /\ \A q \in Requests : OnRegistry(q)' <=> OnRegistry(q)
    BY <1>1, <1>2, <1>5 DEF Entries, OnRegistry, Referring, PathsAreKept, PathIsKept
  <1>8. \A h \in Gates : refs'[h] = Cardinality(PinsOn(h)') + Cardinality(EntriesOn(h)')
                                    + Cardinality(SparesOn(h)') + Cardinality(TurnsOn(h)')
    <2>1. ASSUME NEW h \in Gates
          PROVE  EntriesOn(h)' = EntriesOn(h) /\ PinsOn(h)' = PinsOn(h) /\ TurnsOn(h)' = TurnsOn(h)
      BY <1>1, <1>7 DEF EntriesOn, PinsOn, TurnsOn, OnRegistry
    <2>2. SparesOn(g)' = SparesOn(g) \ {r} /\ r \in SparesOn(g) /\ \A h \in Gates \ {g} : SparesOn(h)' = SparesOn(h)
      BY <1>3, <1>6, GateAssumption DEF SparesOn, Gates, NoGate
    <2>3. Cardinality(SparesOn(g)') = Cardinality(SparesOn(g)) + (-1) /\ refs'[g] = refs[g] + (-1)
      BY <1>4, <2>2, OwnersAreFinite, OneLess DEF GatesTypeOK
    <2>4. refs'[g] = Cardinality(PinsOn(g)') + Cardinality(EntriesOn(g)')
                     + Cardinality(SparesOn(g)') + Cardinality(TurnsOn(g)')
      BY <1>4, <2>1, <2>3, SpareCount
    <2>5. \A h \in Gates \ {g} : refs'[h] = Cardinality(PinsOn(h)') + Cardinality(EntriesOn(h)')
                                            + Cardinality(SparesOn(h)') + Cardinality(TurnsOn(h)')
      BY <1>4, <2>1, <2>2 DEF RefsCounted
    <2>6. QED
      BY <2>4, <2>5
  <1>9. \A h \in Gates : refs'[h] \in Nat
    <2>1. \A h \in Gates : /\ PinsOn(h)' \subseteq Sessions /\ EntriesOn(h)' \subseteq Requests
                           /\ SparesOn(h)' \subseteq Requests /\ TurnsOn(h)' \subseteq Requests
      BY <1>1 DEF PinsOn, EntriesOn, Entries, SparesOn, TurnsOn, GatesTypeOK
    <2>2. QED
      BY <1>8, <2>1, CountsAreNatural
  <1>10. /\ registry' \in [Anchors -> Gates \cup {NoGate}] /\ built' = built
         /\ refs' \in [Gates -> Nat] /\ RegistryIsSound' /\ FiledAreReferenced'
         /\ \A a \in Anchors : registry[a] # NoGate /\ refs'[registry[a]] > 0 => registry'[a] = registry[a]
    BY <1>1, <1>3, <1>4, <1>9, DropUnfiles
  <1>11. GatesTypeOK'
    BY <1>1, <1>5, <1>6, <1>10 DEF GatesTypeOK, Places, Reaching, Turning
  <1>12. RefsCounted' /\ EveryReferenceOwned'
    BY <1>8, <1>10, CountsAreCounted, OwnedIsCountedNext
  <1>13. OwnersAreFiled'
    <2>1. /\ \A z \in pinned' : pin'[z] # NoGate /\ registry[PinAnchor[z]] = pin'[z]
          /\ \A e \in Entries' : entryGate'[e] # NoGate /\ registry[AnchorOf[e]] = entryGate'[e]
          /\ \A q \in Requests : spare'[q] # NoGate => registry[AnchorOf[q]] = spare'[q]
          /\ \A q \in Requests : OnRegistry(q)' => gate'[q] # NoGate /\ registry[AnchorOf[q]] = gate'[q]
      BY <1>1, <1>6, <1>7 DEF OwnersAreFiled
    <2>2. QED
      BY <1>10, <1>11, <1>12, <2>1, OwnersStayFiled
  <1>14. SparesInTransit'
    BY <1>1, <1>5, <1>6 DEF SparesInTransit
  <1>15. EntriesAreFiled'
    <2>1. \A q \in Requests : at[q] \in Placed => at'[q] \in Placed
      BY <1>1, <1>5 DEF Placed, Turning
    <2>2. QED
      BY <1>1, <2>1 DEF EntriesAreFiled
  <1>16. UsersCounted'
    <2>1. \A e \in Requests : UsersOf(e)' = UsersOf(e)
      BY <1>1, <1>2, <1>5, GateAssumption DEF UsersOf, Using, NoEntry
    <2>2. QED
      BY <1>1, <2>1 DEF UsersCounted
  <1>17. PathsAreKept' /\ TurnsAreTaken' /\ SplitIsNoted'
    BY <1>1, <1>2, <1>5 DEF PathsAreKept, PathIsKept, TurnsAreTaken, SplitIsNoted, Spans, Turning, Using, Reaching
  <1>18. PinsAreKept'
    <2>1. counted' = {q \in Requests : at'[q] \notin {"new", "resolved", "done"}}
      BY <1>1, <1>5 DEF PinsAreKept
    <2>2. \A q \in Requests : at'[q] \in Reaching \/ (q \in Sampling /\ at'[q] = "counted") => SessionOf[q] \in pinned
      BY <1>1, <1>5 DEF PinsAreKept, Reaching, Turning
    <2>3. QED
      BY <1>1, <2>1, <2>2 DEF PinsAreKept
  <1>19. QED
    BY <1>10, <1>11, <1>12, <1>13, <1>14, <1>15, <1>16, <1>17, <1>18

\* A request gives back the reference its turn had on the registry's gate.
LEMMA LeaveRegistryMove ==
  ASSUME GatesIInv, NEW r \in Requests, at[r] = "leaving", tier[r] = "registry", drop({gate[r]}), GoTo(r, "returning"),
         UNCHANGED <<turn, sessionVars, cacheVars, counted, requestVars>>
  PROVE  GatesIInv'
  <1> USE DEF GatesIInv
  <1>1. /\ UNCHANGED <<turn, stage, registered, reading, pin, pinned, waiters, split>>
        /\ UNCHANGED <<cache, closed, entryGate, users, retired>>
        /\ UNCHANGED <<counted, gate, tier, entry, spare>>
    BY DEF cacheVars, sessionVars, requestVars
  <1>2. entry[r] = NoEntry /\ OnRegistry(r)
    BY DEF PathsAreKept, PathIsKept, OnRegistry, Referring
  <1>3. PICK g \in Gates : g = gate[r]
    BY <1>2 DEF OwnersAreFiled, GatesTypeOK
  <1>4. RefsCounted /\ FiledAreReferenced /\ refs'[g] = refs[g] - 1 /\ \A h \in Gates \ {g} : refs'[h] = refs[h]
    BY <1>3, OwnedIsCounted, DropOne
  <1>5. at' \in [Requests -> Places] /\ at'[r] = "returning" /\ \A q \in Requests \ {r} : at'[q] = at[q]
    BY Moved DEF Places
  <1>6. Entries' = Entries /\ ~OnRegistry(r)' /\ \A q \in Requests \ {r} : OnRegistry(q)' <=> OnRegistry(q)
    BY <1>1, <1>5 DEF Entries, OnRegistry, Referring
  <1>7. \A h \in Gates : refs'[h] = Cardinality(PinsOn(h)') + Cardinality(EntriesOn(h)')
                                    + Cardinality(SparesOn(h)') + Cardinality(TurnsOn(h)')
    <2>1. ASSUME NEW h \in Gates
          PROVE  EntriesOn(h)' = EntriesOn(h) /\ PinsOn(h)' = PinsOn(h) /\ SparesOn(h)' = SparesOn(h)
      BY <1>1, <1>6 DEF EntriesOn, PinsOn, SparesOn
    <2>2. TurnsOn(g)' = TurnsOn(g) \ {r} /\ r \in TurnsOn(g) /\ \A h \in Gates \ {g} : TurnsOn(h)' = TurnsOn(h)
      BY <1>1, <1>2, <1>3, <1>5 DEF TurnsOn, OnRegistry, Referring
    <2>3. Cardinality(TurnsOn(g)') = Cardinality(TurnsOn(g)) + (-1) /\ refs'[g] = refs[g] + (-1)
      BY <1>4, <2>2, OwnersAreFinite, OneLess DEF GatesTypeOK
    <2>4. refs'[g] = Cardinality(PinsOn(g)') + Cardinality(EntriesOn(g)')
                     + Cardinality(SparesOn(g)') + Cardinality(TurnsOn(g)')
      BY <1>4, <2>1, <2>3, TurnCount
    <2>5. \A h \in Gates \ {g} : refs'[h] = Cardinality(PinsOn(h)') + Cardinality(EntriesOn(h)')
                                            + Cardinality(SparesOn(h)') + Cardinality(TurnsOn(h)')
      BY <1>4, <2>1, <2>2 DEF RefsCounted
    <2>6. QED
      BY <2>4, <2>5
  <1>8. \A h \in Gates : refs'[h] \in Nat
    <2>1. \A h \in Gates : /\ PinsOn(h)' \subseteq Sessions /\ EntriesOn(h)' \subseteq Requests
                           /\ SparesOn(h)' \subseteq Requests /\ TurnsOn(h)' \subseteq Requests
      BY <1>1 DEF PinsOn, EntriesOn, Entries, SparesOn, TurnsOn, GatesTypeOK
    <2>2. QED
      BY <1>7, <2>1, CountsAreNatural
  <1>9. /\ registry' \in [Anchors -> Gates \cup {NoGate}] /\ built' = built
        /\ refs' \in [Gates -> Nat] /\ RegistryIsSound' /\ FiledAreReferenced'
        /\ \A a \in Anchors : registry[a] # NoGate /\ refs'[registry[a]] > 0 => registry'[a] = registry[a]
    BY <1>3, <1>4, <1>8, DropUnfiles
  <1>10. GatesTypeOK'
    BY <1>1, <1>5, <1>9 DEF GatesTypeOK, Places, Reaching, Turning
  <1>11. RefsCounted' /\ EveryReferenceOwned'
    BY <1>7, <1>9, CountsAreCounted, OwnedIsCountedNext
  <1>12. OwnersAreFiled'
    <2>1. /\ \A z \in pinned' : pin'[z] # NoGate /\ registry[PinAnchor[z]] = pin'[z]
          /\ \A e \in Entries' : entryGate'[e] # NoGate /\ registry[AnchorOf[e]] = entryGate'[e]
          /\ \A q \in Requests : spare'[q] # NoGate => registry[AnchorOf[q]] = spare'[q]
          /\ \A q \in Requests : OnRegistry(q)' => gate'[q] # NoGate /\ registry[AnchorOf[q]] = gate'[q]
      BY <1>1, <1>6 DEF OwnersAreFiled
    <2>2. QED
      BY <1>9, <1>10, <1>11, <2>1, OwnersStayFiled
  <1>13. SparesInTransit'
    BY <1>1, <1>5 DEF SparesInTransit
  <1>14. EntriesAreFiled'
    <2>1. \A q \in Requests : at[q] \in Placed => at'[q] \in Placed
      BY <1>5 DEF Placed, Turning
    <2>2. QED
      BY <1>1, <2>1 DEF EntriesAreFiled
  <1>15. UsersCounted'
    <2>1. \A e \in Requests : UsersOf(e)' = UsersOf(e)
      BY <1>1, <1>2, <1>5, GateAssumption DEF UsersOf, NoEntry
    <2>2. QED
      BY <1>1, <2>1 DEF UsersCounted
  <1>16. PathsAreKept' /\ TurnsAreTaken' /\ SplitIsNoted'
    BY <1>1, <1>2, <1>5 DEF PathsAreKept, PathIsKept, TurnsAreTaken, SplitIsNoted, Spans, Turning, Using, Reaching
  <1>17. PinsAreKept'
    <2>1. counted' = {q \in Requests : at'[q] \notin {"new", "resolved", "done"}}
      BY <1>1, <1>5 DEF PinsAreKept
    <2>2. \A q \in Requests : at'[q] \in Reaching \/ (q \in Sampling /\ at'[q] = "counted") => SessionOf[q] \in pinned
      BY <1>1, <1>5 DEF PinsAreKept, Reaching, Turning
    <2>3. QED
      BY <1>1, <2>1, <2>2 DEF PinsAreKept
  <1>18. QED
    BY <1>9, <1>10, <1>11, <1>12, <1>13, <1>14, <1>15, <1>16, <1>17

\* A request leaves its entry; the last one to leave a retired entry returns the
\* entry's reference.
LEMMA LeaveEntryMove ==
  ASSUME GatesIInv, NEW r \in Requests, at[r] = "leaving", tier[r] = "cache", LeaveEntry(r), GoTo(r, "returning"),
         UNCHANGED <<turn, sessionVars, cache, closed, entryGate, counted, requestVars>>
  PROVE  GatesIInv'
  <1> USE DEF GatesIInv
  <1>1. /\ UNCHANGED <<turn, stage, registered, reading, pin, pinned, waiters, split>>
        /\ UNCHANGED <<cache, closed, entryGate>>
        /\ UNCHANGED <<counted, gate, tier, entry, spare>>
    BY DEF sessionVars, requestVars
  <1>2. entry[r] # NoEntry /\ entry[r] \in Requests
    BY DEF PathsAreKept, PathIsKept, GatesTypeOK
  <1>3. PICK e \in Requests : e = entry[r]
    BY <1>2
  <1>4. /\ users' = [users EXCEPT ![e] = users[e] - 1]
        /\ \/ e \in retired /\ users[e] = 1 /\ drop({entryGate[e]}) /\ retired' = retired \ {e}
           \/ ~(e \in retired /\ users[e] = 1) /\ UNCHANGED <<registry, built, refs, retired>>
    BY <1>3 DEF LeaveEntry, gateVars
  <1>5. UsersOf(e) \subseteq Requests /\ r \in UsersOf(e) /\ IsFiniteSet(UsersOf(e))
    <2>1. UsersOf(e) \subseteq Requests /\ r \in UsersOf(e)
      BY <1>3 DEF UsersOf, Using
    <2>2. QED
      BY <2>1, PartIsFinite, GateAssumption
  <1>6. users[e] > 0 /\ users[e] \in Nat /\ Cardinality(UsersOf(e) \ {r}) = users[e] - 1
    BY <1>5, OneLess DEF UsersCounted, GatesTypeOK
  <1>7. users' \in [Requests -> Nat] /\ users'[e] = users[e] - 1 /\ \A q \in Requests \ {e} : users'[q] = users[q]
    BY <1>4, <1>6 DEF GatesTypeOK
  <1>8. at' \in [Requests -> Places] /\ at'[r] = "returning" /\ \A q \in Requests \ {r} : at'[q] = at[q]
    BY Moved DEF Places
  <1>9. \A q \in Requests : OnRegistry(q)' <=> OnRegistry(q)
    BY <1>1, <1>8 DEF OnRegistry
  <1>10. /\ registry' \in [Anchors -> Gates \cup {NoGate}] /\ built' = built /\ refs' \in [Gates -> Nat]
         /\ retired' \subseteq Requests /\ RegistryIsSound' /\ FiledAreReferenced' /\ RefsCounted'
         /\ \A a \in Anchors : registry[a] # NoGate /\ refs'[registry[a]] > 0 => registry'[a] = registry[a]
         /\ Entries' \subseteq Entries
         /\ \A q \in retired' : q \in retired /\ users'[q] > 0
         /\ \A q \in Requests : users'[q] > 0 => q \in cache[SessionOf[q]] \/ q \in retired'
    <2>0. RefsCounted /\ FiledAreReferenced
      BY OwnedIsCounted
    <2>1. CASE e \in retired /\ users[e] = 1 /\ drop({entryGate[e]}) /\ retired' = retired \ {e}
      <3>1. e \in Entries /\ e \notin cache[SessionOf[e]]
        BY <2>1, <1>6 DEF Entries, EntriesAreFiled
      <3>2. PICK g \in Gates : g = entryGate[e]
        BY <3>1 DEF OwnersAreFiled, GatesTypeOK
      <3>3. refs'[g] = refs[g] - 1 /\ \A h \in Gates \ {g} : refs'[h] = refs[h]
        BY <2>1, <3>2, DropOne
      <3>4. Entries' = Entries \ {e}
        BY <1>1, <1>7, <2>1, <3>1 DEF Entries
      <3>5. \A h \in Gates : refs'[h] = Cardinality(PinsOn(h)') + Cardinality(EntriesOn(h)')
                                        + Cardinality(SparesOn(h)') + Cardinality(TurnsOn(h)')
        <4>1. ASSUME NEW h \in Gates
              PROVE  TurnsOn(h)' = TurnsOn(h) /\ PinsOn(h)' = PinsOn(h) /\ SparesOn(h)' = SparesOn(h)
          BY <1>1, <1>9 DEF TurnsOn, PinsOn, SparesOn, OnRegistry
        <4>2. EntriesOn(g)' = EntriesOn(g) \ {e} /\ e \in EntriesOn(g) /\ \A h \in Gates \ {g} : EntriesOn(h)' = EntriesOn(h)
          BY <1>1, <3>1, <3>2, <3>4 DEF EntriesOn
        <4>3. Cardinality(EntriesOn(g)') = Cardinality(EntriesOn(g)) + (-1) /\ refs'[g] = refs[g] + (-1)
          BY <3>3, <4>2, OwnersAreFinite, OneLess DEF GatesTypeOK
        <4>4. refs'[g] = Cardinality(PinsOn(g)') + Cardinality(EntriesOn(g)')
                         + Cardinality(SparesOn(g)') + Cardinality(TurnsOn(g)')
          BY <2>0, <4>1, <4>3, EntryCount
        <4>5. \A h \in Gates \ {g} : refs'[h] = Cardinality(PinsOn(h)') + Cardinality(EntriesOn(h)')
                                                + Cardinality(SparesOn(h)') + Cardinality(TurnsOn(h)')
          BY <2>0, <3>3, <4>1, <4>2 DEF RefsCounted
        <4>6. QED
          BY <4>4, <4>5
      <3>6. \A h \in Gates : refs'[h] \in Nat
        <4>1. \A h \in Gates : /\ PinsOn(h)' \subseteq Sessions /\ EntriesOn(h)' \subseteq Requests
                               /\ SparesOn(h)' \subseteq Requests /\ TurnsOn(h)' \subseteq Requests
          BY <1>1 DEF PinsOn, EntriesOn, Entries, SparesOn, TurnsOn, GatesTypeOK
        <4>2. QED
          BY <3>5, <4>1, CountsAreNatural
      <3>7. /\ registry' \in [Anchors -> Gates \cup {NoGate}] /\ built' = built
            /\ refs' \in [Gates -> Nat] /\ RegistryIsSound' /\ FiledAreReferenced'
            /\ \A a \in Anchors : registry[a] # NoGate /\ refs'[registry[a]] > 0 => registry'[a] = registry[a]
        BY <2>0, <2>1, <3>2, <3>6, DropUnfiles
      <3>8. RefsCounted'
        BY <3>5, CountsAreCounted
      <3>9. /\ \A q \in retired' : q \in retired /\ users'[q] > 0
            /\ \A q \in Requests : users'[q] > 0 => q \in cache[SessionOf[q]] \/ q \in retired'
        BY <2>1, <1>7 DEF EntriesAreFiled, GatesTypeOK
      <3>10. QED
        BY <2>1, <3>4, <3>7, <3>8, <3>9 DEF GatesTypeOK
    <2>2. CASE ~(e \in retired /\ users[e] = 1) /\ UNCHANGED <<registry, built, refs, retired>>
      <3>1. \A q \in retired : users'[q] > 0
        BY <2>2, <1>6, <1>7 DEF EntriesAreFiled, GatesTypeOK
      <3>2. Entries' = Entries
        BY <1>1, <2>2, <3>1 DEF Entries, EntriesAreFiled
      <3>3. \A g \in Gates : /\ PinsOn(g)' = PinsOn(g) /\ EntriesOn(g)' = EntriesOn(g)
                             /\ SparesOn(g)' = SparesOn(g) /\ TurnsOn(g)' = TurnsOn(g)
        BY <1>1, <1>9, <3>2 DEF PinsOn, EntriesOn, SparesOn, TurnsOn, OnRegistry
      <3>4. RefsCounted' /\ FiledAreReferenced'
        BY <2>0, <2>2, <3>3 DEF RefsCounted, FiledAreReferenced
      <3>5. \A q \in Requests : users'[q] > 0 => q \in cache[SessionOf[q]] \/ q \in retired'
        BY <2>2, <1>6, <1>7 DEF EntriesAreFiled
      <3>6. QED
        BY <2>2, <3>1, <3>2, <3>4, <3>5 DEF GatesTypeOK, RegistryIsSound
    <2>3. QED
      BY <1>4, <2>1, <2>2
  <1>11. GatesTypeOK'
    BY <1>1, <1>7, <1>8, <1>10 DEF GatesTypeOK, Places, Reaching, Turning
  <1>12. EveryReferenceOwned'
    BY <1>10, OwnedIsCountedNext
  <1>13. OwnersAreFiled'
    <2>1. /\ \A z \in pinned' : pin'[z] # NoGate /\ registry[PinAnchor[z]] = pin'[z]
          /\ \A f \in Entries' : entryGate'[f] # NoGate /\ registry[AnchorOf[f]] = entryGate'[f]
          /\ \A q \in Requests : spare'[q] # NoGate => registry[AnchorOf[q]] = spare'[q]
          /\ \A q \in Requests : OnRegistry(q)' => gate'[q] # NoGate /\ registry[AnchorOf[q]] = gate'[q]
      BY <1>1, <1>9, <1>10 DEF OwnersAreFiled
    <2>2. QED
      BY <1>10, <1>11, <2>1, OwnersStayFiled
  <1>14. SparesInTransit'
    BY <1>1, <1>8 DEF SparesInTransit
  <1>15. EntriesAreFiled'
    <2>1. \A q \in Requests : at[q] \in Placed => at'[q] \in Placed
      BY <1>8 DEF Placed, Turning
    <2>2. QED
      BY <1>1, <1>10, <2>1 DEF EntriesAreFiled
  <1>16. UsersCounted'
    <2>1. \A q \in Requests \ {e} : UsersOf(q)' = UsersOf(q)
      BY <1>1, <1>3, <1>8 DEF UsersOf
    <2>2. UsersOf(e)' = UsersOf(e) \ {r}
      BY <1>1, <1>8 DEF UsersOf, Using
    <2>3. \A q \in Requests : users'[q] = Cardinality(UsersOf(q)')
      BY <1>6, <1>7, <2>1, <2>2 DEF UsersCounted
    <2>4. QED
      BY <2>3 DEF UsersCounted, UsersOf
  <1>17. PathsAreKept' /\ TurnsAreTaken' /\ SplitIsNoted'
    BY <1>1, <1>8 DEF PathsAreKept, PathIsKept, TurnsAreTaken, SplitIsNoted, Spans, Turning, Using, Reaching
  <1>18. PinsAreKept'
    <2>1. counted' = {q \in Requests : at'[q] \notin {"new", "resolved", "done"}}
      BY <1>1, <1>8 DEF PinsAreKept
    <2>2. \A q \in Requests : at'[q] \in Reaching \/ (q \in Sampling /\ at'[q] = "counted") => SessionOf[q] \in pinned
      BY <1>1, <1>8 DEF PinsAreKept, Reaching, Turning
    <2>3. QED
      BY <1>1, <2>1, <2>2 DEF PinsAreKept
  <1>19. QED
    BY <1>10, <1>11, <1>12, <1>13, <1>14, <1>15, <1>16, <1>17, <1>18

\* The entries of one cache that leave it without users: each is on a gate of its own.
LEMMA GoneApart ==
  ASSUME GatesIInv, NEW s \in Sessions, NEW es \in SUBSET cache[s], NEW gone, gone = {e \in es : users[e] = 0},
         NEW gs, gs = {entryGate[e] : e \in gone}
  PROVE  /\ gs \subseteq Gates /\ gone \subseteq Entries
         /\ \A g \in gs : Cardinality(EntriesOn(g) \ gone) = Cardinality(EntriesOn(g)) + (-1)
         /\ \A g \in Gates \ gs : EntriesOn(g) \ gone = EntriesOn(g)
         /\ \A a \in Anchors : registry[a] \in gs => \E e \in gone : AnchorOf[e] = a
  <1> USE DEF GatesIInv
  <1>1. \A e \in gone : /\ e \in Requests /\ e \in cache[s] /\ SessionOf[e] = s /\ e \in Entries /\ AnchorOf[e] \in Anchors
                        /\ entryGate[e] \in Gates /\ entryGate[e] # NoGate /\ registry[AnchorOf[e]] = entryGate[e]
    <2>1. \A e \in gone : e \in Requests /\ e \in cache[s] /\ SessionOf[e] = s
      BY DEF GatesTypeOK, EntriesAreFiled
    <2>2. \A e \in gone : e \in Entries
      BY <2>1 DEF Entries
    <2>3. QED
      BY <2>1, <2>2, GateAssumption DEF OwnersAreFiled, GatesTypeOK
  <1>2. ASSUME NEW e \in gone, NEW f \in gone, entryGate[e] = entryGate[f] PROVE e = f
    <2>1. AnchorOf[e] = AnchorOf[f]
      BY <1>1, <1>2 DEF RegistryIsSound
    <2>2. QED
      BY <1>1, <2>1 DEF EntriesAreFiled
  <1>3. ASSUME NEW g \in gs PROVE Cardinality(EntriesOn(g) \ gone) = Cardinality(EntriesOn(g)) + (-1)
    <2>1. PICK e \in gone : entryGate[e] = g
      BY <1>3
    <2>2. e \in EntriesOn(g) /\ EntriesOn(g) \ gone = EntriesOn(g) \ {e}
      BY <1>1, <1>2, <2>1 DEF EntriesOn
    <2>3. IsFiniteSet(EntriesOn(g)) /\ Cardinality(EntriesOn(g)) \in Nat
      BY OwnersAreFinite
    <2>4. QED
      BY <2>2, <2>3, OneLess
  <1>4. \A g \in Gates \ gs : EntriesOn(g) \ gone = EntriesOn(g)
    BY DEF EntriesOn
  <1>5. \A a \in Anchors : registry[a] \in gs => \E e \in gone : AnchorOf[e] = a
    BY <1>1 DEF RegistryIsSound
  <1>6. QED
    BY <1>1, <1>3, <1>4, <1>5

\* Dropping gs takes one reference from each of them.
LEMMA DropMany ==
  ASSUME GatesTypeOK, NEW gs, gs \subseteq Gates, drop(gs)
  PROVE  /\ \A g \in gs : refs'[g] = refs[g] + (-1)
         /\ \A g \in Gates \ gs : refs'[g] = refs[g]
  BY DEF drop, GatesTypeOK

\* A session's cache is closed.
LEMMA CloseMove ==
  ASSUME GatesIInv, NEW s \in Sessions, close(s)
  PROVE  GatesIInv'
  <1> USE DEF GatesIInv
  <1>1. /\ UNCHANGED <<turn, registered, reading, pin, pinned, waiters, split, entryGate, users>>
        /\ UNCHANGED <<at, counted, gate, tier, entry, spare>>
        /\ stage[s] = "closing" /\ stage' = [stage EXCEPT ![s] = "gone"] /\ closed' = closed \cup {s}
        /\ cache' = [cache EXCEPT ![s] = {}]
    BY DEF close, requestVars
  <1> DEFINE gone == {e \in cache[s] : users[e] = 0}
             gs == {entryGate[e] : e \in gone}
             kept == {e \in cache[s] : users[e] > 0}
  <1>2. retired' = retired \cup kept /\ drop(gs)
    BY DEF close, retireLocked
  <1>3. /\ gs \subseteq Gates /\ gone \subseteq Entries
        /\ \A g \in gs : Cardinality(EntriesOn(g) \ gone) = Cardinality(EntriesOn(g)) + (-1)
        /\ \A g \in Gates \ gs : EntriesOn(g) \ gone = EntriesOn(g)
    <2>1. PICK es \in SUBSET cache[s] : es = cache[s]
      OBVIOUS
    <2>2. gone = {e \in es : users[e] = 0} /\ gs = {entryGate[e] : e \in gone}
      BY <2>1
    <2> HIDE DEF gone, gs
    <2>3. QED
      BY <2>2, GoneApart, ZenonT(40)
  <1>4. /\ cache[s] \subseteq Requests /\ \A e \in cache[s] : SessionOf[e] = s /\ users[e] \in Nat
        /\ \A e \in cache[s] : (e \in kept <=> e \notin gone) /\ e \notin retired
        /\ kept \subseteq cache[s] /\ gone \subseteq cache[s] /\ \A e \in kept : users[e] > 0
    BY DEF GatesTypeOK, EntriesAreFiled
  <1> HIDE DEF gone, gs, kept
  <1>5. /\ cache' \in [Sessions -> SUBSET Requests] /\ cache'[s] = {} /\ \A z \in Sessions \ {s} : cache'[z] = cache[z]
    BY <1>1 DEF GatesTypeOK
  <1>6. /\ stage' \in [Sessions -> {"new", "live", "draining", "closing", "gone"}]
        /\ stage'[s] = "gone" /\ \A z \in Sessions \ {s} : stage'[z] = stage[z]
    BY <1>1 DEF GatesTypeOK
  <1>7. Entries' = Entries \ gone
    <2>1. ASSUME NEW e \in Requests PROVE e \in Entries' <=> e \in Entries /\ e \notin gone
      <3>1. CASE SessionOf[e] = s
        <4>1. e \in Entries' <=> (e \in retired \/ e \in kept) /\ users[e] > 0
          BY <3>1, <1>1, <1>2, <1>5 DEF Entries
        <4>2. e \in Entries <=> e \in cache[s] \/ (e \in retired /\ users[e] > 0)
          BY <3>1 DEF Entries
        <4>3. QED
          BY <4>1, <4>2, <1>4
      <3>2. CASE SessionOf[e] # s
        BY <3>2, <1>1, <1>2, <1>4, <1>5, GateAssumption DEF Entries
      <3>3. QED
        BY <3>1, <3>2
    <2>2. Entries \subseteq Requests /\ Entries' \subseteq Requests
      BY DEF Entries
    <2>3. QED
      BY <2>1, <2>2
  <1>8. RefsCounted /\ FiledAreReferenced
        /\ (\A g \in gs : refs'[g] = refs[g] + (-1)) /\ (\A g \in Gates \ gs : refs'[g] = refs[g])
    BY <1>2, <1>3, OwnedIsCounted, DropMany
  <1>9. \A q \in Requests : OnRegistry(q)' <=> OnRegistry(q)
    BY <1>1 DEF OnRegistry
  <1>10. \A h \in Gates : refs'[h] = Cardinality(PinsOn(h)') + Cardinality(EntriesOn(h)')
                                     + Cardinality(SparesOn(h)') + Cardinality(TurnsOn(h)')
    <2>1. ASSUME NEW h \in Gates
          PROVE  /\ TurnsOn(h)' = TurnsOn(h) /\ PinsOn(h)' = PinsOn(h) /\ SparesOn(h)' = SparesOn(h)
                 /\ EntriesOn(h)' = EntriesOn(h) \ gone
      BY <1>1, <1>7 DEF TurnsOn, PinsOn, SparesOn, EntriesOn
    <2>2. ASSUME NEW h \in gs
          PROVE  refs'[h] = Cardinality(PinsOn(h)') + Cardinality(EntriesOn(h)')
                            + Cardinality(SparesOn(h)') + Cardinality(TurnsOn(h)')
      <3>1. h \in Gates
        BY <1>3
      <3>2. Cardinality(EntriesOn(h)') = Cardinality(EntriesOn(h)) + (-1) /\ refs'[h] = refs[h] + (-1)
        BY <1>3, <1>8, <2>1, <3>1
      <3>3. QED
        BY <1>8, <2>1, <3>1, <3>2, EntryCount
    <2>3. \A h \in Gates \ gs : refs'[h] = Cardinality(PinsOn(h)') + Cardinality(EntriesOn(h)')
                                           + Cardinality(SparesOn(h)') + Cardinality(TurnsOn(h)')
      BY <1>3, <1>8, <2>1 DEF RefsCounted
    <2>4. QED
      BY <2>2, <2>3
  <1>11. \A h \in Gates : refs'[h] \in Nat
    <2>1. \A h \in Gates : /\ PinsOn(h)' \subseteq Sessions /\ EntriesOn(h)' \subseteq Requests
                           /\ SparesOn(h)' \subseteq Requests /\ TurnsOn(h)' \subseteq Requests
      BY <1>1 DEF PinsOn, EntriesOn, Entries, SparesOn, TurnsOn, GatesTypeOK
    <2>2. QED
      BY <1>10, <2>1, CountsAreNatural
  <1>12. /\ registry' \in [Anchors -> Gates \cup {NoGate}] /\ built' = built
         /\ refs' \in [Gates -> Nat] /\ RegistryIsSound' /\ FiledAreReferenced'
         /\ \A a \in Anchors : registry[a] # NoGate /\ refs'[registry[a]] > 0 => registry'[a] = registry[a]
    BY <1>2, <1>3, <1>8, <1>11, DropUnfiles
  <1>13. GatesTypeOK'
    <2>1. \A z \in Sessions : Cardinality(cache'[z]) <= CacheCap
      <3>1. Cardinality(cache'[s]) <= CacheCap
        BY <1>5, FS_EmptySet, GateAssumption
      <3>2. \A z \in Sessions \ {s} : Cardinality(cache'[z]) <= CacheCap
        BY <1>5 DEF GatesTypeOK
      <3>3. QED
        BY <3>1, <3>2
    <2>2. retired' \subseteq Requests
      BY <1>2, <1>4 DEF GatesTypeOK
    <2>3. QED
      BY <1>1, <1>5, <1>6, <1>12, <2>1, <2>2 DEF GatesTypeOK
  <1>14. RefsCounted' /\ EveryReferenceOwned'
    BY <1>10, <1>12, CountsAreCounted, OwnedIsCountedNext
  <1>15. OwnersAreFiled'
    <2>1. /\ \A z \in pinned' : pin'[z] # NoGate /\ registry[PinAnchor[z]] = pin'[z]
          /\ \A e \in Entries' : entryGate'[e] # NoGate /\ registry[AnchorOf[e]] = entryGate'[e]
          /\ \A q \in Requests : spare'[q] # NoGate => registry[AnchorOf[q]] = spare'[q]
          /\ \A q \in Requests : OnRegistry(q)' => gate'[q] # NoGate /\ registry[AnchorOf[q]] = gate'[q]
      BY <1>1, <1>7, <1>9 DEF OwnersAreFiled
    <2>2. QED
      BY <1>12, <1>13, <1>14, <2>1, OwnersStayFiled
  <1>16. SparesInTransit'
    BY <1>1 DEF SparesInTransit
  <1>17. EntriesAreFiled'
    <2>1. /\ \A z \in Sessions : \A e \in cache'[z] : SessionOf[e] = z
          /\ \A z \in Sessions : \A e, f \in cache'[z] : AnchorOf[e] = AnchorOf[f] => e = f
      BY <1>5 DEF EntriesAreFiled
    <2>2. \A e \in retired' : users[e] > 0 /\ e \notin cache'[SessionOf[e]]
      <3>1. ASSUME NEW e \in retired PROVE users[e] > 0 /\ e \notin cache'[SessionOf[e]]
        BY <3>1, <1>5, GateAssumption DEF EntriesAreFiled, GatesTypeOK
      <3>2. ASSUME NEW e \in kept PROVE users[e] > 0 /\ e \notin cache'[SessionOf[e]]
        BY <3>2, <1>4, <1>5
      <3>3. QED
        BY <1>2, <3>1, <3>2
    <2>3. \A e \in Requests : e \in cache'[SessionOf[e]] \/ e \in retired' => e \in cache[SessionOf[e]] \/ e \in retired
      BY <1>2, <1>4, <1>5, GateAssumption
    <2>4. \A e \in Requests : users[e] > 0 => e \in cache'[SessionOf[e]] \/ e \in retired'
      <3> SUFFICES ASSUME NEW e \in Requests, users[e] > 0, e \in cache[SessionOf[e]]
                   PROVE  e \in cache'[SessionOf[e]] \/ e \in kept
        BY <1>2 DEF EntriesAreFiled
      <3>1. QED
        BY <1>5, GateAssumption DEF kept
    <2>5. QED
      BY <1>1, <2>1, <2>2, <2>3, <2>4 DEF EntriesAreFiled
  <1>18. UsersCounted'
    <2>1. \A e \in Requests : UsersOf(e)' = UsersOf(e)
      BY <1>1 DEF UsersOf
    <2>2. QED
      BY <1>1, <2>1 DEF UsersCounted
  <1>19. PathsAreKept' /\ TurnsAreTaken' /\ SplitIsNoted'
    BY <1>1 DEF PathsAreKept, PathIsKept, TurnsAreTaken, SplitIsNoted, Spans
  <1>20. PinsAreKept'
    BY <1>1, <1>6 DEF PinsAreKept
  <1>21. QED
    BY <1>12, <1>13, <1>14, <1>15, <1>16, <1>17, <1>18, <1>19, <1>20

\* A full cache sheds one entry before it takes one.
LEMMA CacheStaysBounded ==
  ASSUME NEW S, IsFiniteSet(S), NEW c \in Nat \ {0}, Cardinality(S) <= c, NEW V \in SUBSET S,
         Cardinality(V) = (IF Cardinality(S) >= c THEN 1 ELSE 0), NEW x
  PROVE  Cardinality((S \ V) \cup {x}) <= c
  <1>1. S \cap V = V /\ Cardinality(S) \in Nat
    BY FS_CardinalityType
  <1>2. PICK T : T = S \ V
    OBVIOUS
  <1>3. IsFiniteSet(T) /\ Cardinality(T) = Cardinality(S) - Cardinality(V)
    BY <1>1, <1>2, FS_Difference
  <1>4. Cardinality(T \cup {x}) = (IF x \in T THEN Cardinality(T) ELSE Cardinality(T) + 1)
    BY <1>3, FS_AddElement
  <1>5. Cardinality(T \cup {x}) <= c
    <2>1. Cardinality(V) \in {0, 1} /\ (Cardinality(V) = 0 => Cardinality(S) < c)
      BY <1>1
    <2>2. Cardinality(T) \in Int /\ Cardinality(T) + 1 <= c
      BY <1>1, <1>3, <2>1
    <2>3. QED
      BY <1>4, <2>2
  <1>6. QED
    BY <1>2, <1>5

\* The cache takes a request's reference over into an entry.
LEMMA InsertMove ==
  ASSUME GatesIInv, NEW r \in Requests, InsertKept(r)
  PROVE  GatesIInv'
  <1> USE DEF GatesIInv
  <1>0. PICK s \in Sessions : s = SessionOf[r]
    BY GateAssumption
  <1>1. /\ UNCHANGED <<turn, stage, registered, reading, pin, pinned, waiters, split, closed, counted>>
        /\ at[r] = "inserting" /\ Cached(r) = {} /\ GoTo(r, "queued")
        /\ entryGate' = [entryGate EXCEPT ![r] = spare[r]] /\ spare' = [spare EXCEPT ![r] = NoGate]
        /\ entry' = [entry EXCEPT ![r] = r] /\ gate' = [gate EXCEPT ![r] = spare[r]]
        /\ tier' = [tier EXCEPT ![r] = "cache"] /\ users' = [users EXCEPT ![r] = 1]
    BY DEF InsertKept, sessionVars, UseEntry
  <1>2. PICK victims \in SUBSET cache[s] :
             /\ Cardinality(victims) = (IF Cardinality(cache[s]) >= CacheCap THEN 1 ELSE 0)
             /\ cache' = [cache EXCEPT ![s] = (cache[s] \ victims) \cup {r}]
             /\ retireLocked(victims)
    BY <1>0 DEF InsertKept, Full
  <1> DEFINE gone == {e \in victims : users[e] = 0}
             gs == {entryGate[e] : e \in gone}
             kept == {e \in victims : users[e] > 0}
  <1>3. retired' = retired \cup kept /\ drop(gs)
    BY <1>2 DEF retireLocked
  <1>4. gone = {e \in victims : users[e] = 0} /\ gs = {entryGate[e] : e \in gone} /\ kept = {e \in victims : users[e] > 0}
    OBVIOUS
  <1> HIDE DEF gone, gs, kept
  <1>5. /\ gs \subseteq Gates /\ gone \subseteq Entries
        /\ \A g \in gs : Cardinality(EntriesOn(g) \ gone) = Cardinality(EntriesOn(g)) + (-1)
        /\ \A g \in Gates \ gs : EntriesOn(g) \ gone = EntriesOn(g)
        /\ \A a \in Anchors : registry[a] \in gs => \E e \in gone : AnchorOf[e] = a
    <2> HIDE DEF GatesIInv
    <2>1. QED
      BY <1>4, GoneApart, ZenonT(40)
  <1>6. /\ cache[s] \subseteq Requests /\ victims \subseteq cache[s] /\ \A e \in cache[s] : SessionOf[e] = s /\ users[e] \in Nat
        /\ \A e \in victims : (e \in kept <=> e \notin gone) /\ e \notin retired
        /\ kept \subseteq victims /\ gone \subseteq victims /\ \A e \in kept : users[e] > 0
    BY <1>4 DEF GatesTypeOK, EntriesAreFiled
  <1>7. /\ r \notin cache[SessionOf[r]] /\ r \notin retired /\ ~(users[r] > 0) /\ users[r] = 0 /\ r \notin victims
        /\ entry[r] = NoEntry /\ r \notin Sampling
    <2>1. r \notin cache[SessionOf[r]] /\ r \notin retired
      BY <1>1 DEF EntriesAreFiled, Placed, Turning
    <2>2. ~(users[r] > 0) /\ users[r] \in Nat
      BY <2>1 DEF EntriesAreFiled, GatesTypeOK
    <2>3. entry[r] = NoEntry /\ r \notin Sampling
      BY <1>1 DEF PathsAreKept, PathIsKept, Using
    <2>4. QED
      BY <1>0, <1>2, <2>1, <2>2, <2>3
  <1>8. UsersOf(r) = {}
    <2>1. UsersOf(r) \subseteq Requests /\ Cardinality(UsersOf(r)) = 0
      BY <1>7 DEF UsersOf, UsersCounted
    <2>2. IsFiniteSet(UsersOf(r))
      BY <2>1, PartIsFinite, GateAssumption
    <2>3. QED
      BY <2>1, <2>2, FS_EmptySet
  <1>9. /\ cache' \in [Sessions -> SUBSET Requests] /\ cache'[s] = (cache[s] \ victims) \cup {r}
        /\ \A z \in Sessions \ {s} : cache'[z] = cache[z]
    BY <1>2 DEF GatesTypeOK
  <1>10. at' \in [Requests -> Places] /\ at'[r] = "queued" /\ \A q \in Requests \ {r} : at'[q] = at[q]
    BY <1>1, Moved DEF Places, Reaching, Turning
  <1>11. PICK g0 \in Gates : g0 = spare[r]
    BY <1>1 DEF SparesInTransit, GatesTypeOK
  <1>12. /\ entryGate' \in [Requests -> Gates \cup {NoGate}] /\ entryGate'[r] = g0
         /\ spare' \in [Requests -> Gates \cup {NoGate}] /\ spare'[r] = NoGate
         /\ entry' \in [Requests -> Requests \cup {NoEntry}] /\ entry'[r] = r
         /\ gate' \in [Requests -> Gates \cup {NoGate}] /\ gate'[r] = g0
         /\ tier' \in [Requests -> {"pin", "cache", "registry"}] /\ tier'[r] = "cache"
         /\ users' \in [Requests -> Nat] /\ users'[r] = 1
    BY <1>1, <1>11 DEF GatesTypeOK
  <1>13. \A q \in Requests \ {r} : /\ entryGate'[q] = entryGate[q] /\ spare'[q] = spare[q] /\ entry'[q] = entry[q]
                                   /\ gate'[q] = gate[q] /\ tier'[q] = tier[q] /\ users'[q] = users[q]
    BY <1>1 DEF GatesTypeOK
  <1>14. Entries' = (Entries \ gone) \cup {r} /\ r \notin Entries
    <2>1. ASSUME NEW e \in Requests \ {r} PROVE e \in Entries' <=> e \in Entries /\ e \notin gone
      <3>1. CASE SessionOf[e] = s
        <4>1. e \in Entries' <=> (e \in cache[s] /\ e \notin victims) \/ ((e \in retired \/ e \in kept) /\ users[e] > 0)
          BY <3>1, <1>3, <1>9, <1>13 DEF Entries
        <4>2. e \in Entries <=> e \in cache[s] \/ (e \in retired /\ users[e] > 0)
          BY <3>1 DEF Entries
        <4>3. QED
          BY <4>1, <4>2, <1>6
      <3>2. CASE SessionOf[e] # s
        BY <3>2, <1>3, <1>6, <1>9, <1>13, GateAssumption DEF Entries
      <3>3. QED
        BY <3>1, <3>2
    <2>2. r \in Entries' /\ r \notin Entries
      BY <1>0, <1>7, <1>9 DEF Entries
    <2>3. Entries \subseteq Requests /\ Entries' \subseteq Requests
      BY DEF Entries
    <2>4. QED
      BY <2>1, <2>2, <2>3
  <1>15. RefsCounted /\ FiledAreReferenced
         /\ (\A g \in gs : refs'[g] = refs[g] + (-1)) /\ (\A g \in Gates \ gs : refs'[g] = refs[g])
    BY <1>3, <1>5, OwnedIsCounted, DropMany
  <1>16. \A q \in Requests : /\ OnRegistry(q)' <=> OnRegistry(q)
                             /\ OnRegistry(q) => gate'[q] = gate[q]
    BY <1>1, <1>10, <1>12, <1>13 DEF OnRegistry, Referring
  <1>17. registry[AnchorOf[r]] = g0 /\ g0 # NoGate /\ g0 \notin gs
    <2>1. registry[AnchorOf[r]] = g0 /\ g0 # NoGate
      BY <1>1, <1>11 DEF OwnersAreFiled, SparesInTransit
    <2>2. ASSUME g0 \in gs PROVE FALSE
      <3>1. PICK e \in gone : AnchorOf[e] = AnchorOf[r]
        BY <2>1, <2>2, <1>5, GateAssumption
      <3>2. e \in Cached(r)
        BY <3>1, <1>0, <1>6 DEF Cached
      <3>3. QED
        BY <3>2, <1>1
    <2>3. QED
      BY <2>1, <2>2
  <1>18. \A h \in Gates : refs'[h] = Cardinality(PinsOn(h)') + Cardinality(EntriesOn(h)')
                                     + Cardinality(SparesOn(h)') + Cardinality(TurnsOn(h)')
    <2>1. ASSUME NEW h \in Gates
          PROVE  TurnsOn(h)' = TurnsOn(h) /\ PinsOn(h)' = PinsOn(h)
      BY <1>1, <1>16 DEF TurnsOn, PinsOn, OnRegistry
    <2>2. ASSUME NEW h \in Gates \ {g0}
          PROVE  SparesOn(h)' = SparesOn(h) /\ EntriesOn(h)' = EntriesOn(h) \ gone
      <3>1. SparesOn(h)' = SparesOn(h)
        BY <1>11, <1>12, <1>13, GateAssumption DEF SparesOn, Gates, NoGate
      <3>2. EntriesOn(h)' = EntriesOn(h) \ gone
        <4>1. \A e \in Entries' : e # r => e \in Entries /\ e \notin gone /\ entryGate'[e] = entryGate[e]
          BY <1>13, <1>14 DEF Entries
        <4>2. \A e \in Entries : e # r /\ entryGate'[e] = entryGate[e] /\ (e \notin gone => e \in Entries')
          BY <1>13, <1>14 DEF Entries
        <4>3. QED
          BY <1>12, <4>1, <4>2 DEF EntriesOn
      <3>3. QED
        BY <3>1, <3>2
    <2>3. ASSUME NEW h \in gs
          PROVE  refs'[h] = Cardinality(PinsOn(h)') + Cardinality(EntriesOn(h)')
                            + Cardinality(SparesOn(h)') + Cardinality(TurnsOn(h)')
      <3>1. h \in Gates \ {g0}
        BY <1>5, <1>17
      <3>2. Cardinality(EntriesOn(h)') = Cardinality(EntriesOn(h)) + (-1) /\ refs'[h] = refs[h] + (-1)
        BY <1>5, <1>15, <2>2, <3>1
      <3>3. QED
        BY <1>15, <2>1, <2>2, <3>1, <3>2, EntryCount
    <2>4. ASSUME NEW h \in Gates \ {g0}, h \notin gs
          PROVE  refs'[h] = Cardinality(PinsOn(h)') + Cardinality(EntriesOn(h)')
                            + Cardinality(SparesOn(h)') + Cardinality(TurnsOn(h)')
      <3>1. EntriesOn(h)' = EntriesOn(h) /\ refs'[h] = refs[h]
        BY <1>5, <1>15, <2>2, <2>4
      <3>2. QED
        BY <1>15, <2>1, <2>2, <3>1 DEF RefsCounted
    <2>5. refs'[g0] = Cardinality(PinsOn(g0)') + Cardinality(EntriesOn(g0)')
                      + Cardinality(SparesOn(g0)') + Cardinality(TurnsOn(g0)')
      <3>1. SparesOn(g0)' = SparesOn(g0) \ {r} /\ r \in SparesOn(g0)
        BY <1>11, <1>12, <1>13, GateAssumption DEF SparesOn, Gates, NoGate
      <3>2. EntriesOn(g0)' = EntriesOn(g0) \cup {r} /\ r \notin EntriesOn(g0)
        <4>1. EntriesOn(g0) \ gone = EntriesOn(g0)
          BY <1>5, <1>17
        <4>2. EntriesOn(g0)' = (EntriesOn(g0) \ gone) \cup {r}
          <5>1. \A e \in Entries' : e # r => e \in Entries /\ e \notin gone /\ entryGate'[e] = entryGate[e]
            BY <1>13, <1>14 DEF Entries
          <5>2. \A e \in Entries : e # r /\ entryGate'[e] = entryGate[e] /\ (e \notin gone => e \in Entries')
            BY <1>13, <1>14 DEF Entries
          <5>3. r \in Entries' /\ entryGate'[r] = g0
            BY <1>12, <1>14
          <5>4. QED
            BY <5>1, <5>2, <5>3 DEF EntriesOn
        <4>3. QED
          BY <4>1, <4>2, <1>14 DEF EntriesOn
      <3>3. Cardinality(SparesOn(g0)') = Cardinality(SparesOn(g0)) - 1
        BY <3>1, OwnersAreFinite, OneLess
      <3>4. Cardinality(EntriesOn(g0)') = Cardinality(EntriesOn(g0)) + 1
        BY <3>2, OwnersAreFinite, OneMore
      <3>5. refs'[g0] = refs[g0] /\ refs[g0] = Cardinality(PinsOn(g0)) + Cardinality(EntriesOn(g0))
                                               + Cardinality(SparesOn(g0)) + Cardinality(TurnsOn(g0))
        BY <1>15, <1>17 DEF RefsCounted
      <3>6. /\ Cardinality(PinsOn(g0)) \in Nat /\ Cardinality(EntriesOn(g0)) \in Nat
            /\ Cardinality(SparesOn(g0)) \in Nat /\ Cardinality(TurnsOn(g0)) \in Nat
        BY OwnersAreFinite
      <3>7. QED
        BY <2>1, <3>3, <3>4, <3>5, <3>6
    <2>6. QED
      BY <2>3, <2>4, <2>5
  <1>19. \A h \in Gates : refs'[h] \in Nat
    <2>1. \A h \in Gates : /\ PinsOn(h)' \subseteq Sessions /\ EntriesOn(h)' \subseteq Requests
                           /\ SparesOn(h)' \subseteq Requests /\ TurnsOn(h)' \subseteq Requests
      BY <1>1 DEF PinsOn, EntriesOn, Entries, SparesOn, TurnsOn, GatesTypeOK
    <2>2. QED
      BY <1>18, <2>1, CountsAreNatural
  <1>20. /\ registry' \in [Anchors -> Gates \cup {NoGate}] /\ built' = built
         /\ refs' \in [Gates -> Nat] /\ RegistryIsSound' /\ FiledAreReferenced'
         /\ \A a \in Anchors : registry[a] # NoGate /\ refs'[registry[a]] > 0 => registry'[a] = registry[a]
    BY <1>3, <1>5, <1>15, <1>19, DropUnfiles
  <1>21. GatesTypeOK'
    <2>1. \A z \in Sessions : Cardinality(cache'[z]) <= CacheCap
      <3>1. Cardinality(cache'[s]) <= CacheCap
        <4>1. IsFiniteSet(cache[s]) /\ Cardinality(cache[s]) <= CacheCap
          BY <1>6, PartIsFinite, GateAssumption DEF GatesTypeOK
        <4>2. PICK S : S = cache[s]
          OBVIOUS
        <4>3. Cardinality((S \ victims) \cup {r}) <= CacheCap
          BY <1>2, <4>1, <4>2, CacheStaysBounded, GateAssumption
        <4>4. QED
          BY <1>9, <4>2, <4>3
      <3>2. \A z \in Sessions \ {s} : Cardinality(cache'[z]) <= CacheCap
        BY <1>9 DEF GatesTypeOK
      <3>3. QED
        BY <3>1, <3>2
    <2>2. retired' \subseteq Requests
      BY <1>3, <1>6 DEF GatesTypeOK
    <2>3. QED
      BY <1>1, <1>9, <1>10, <1>12, <1>20, <2>1, <2>2 DEF GatesTypeOK, Places, Reaching, Turning
  <1>22. RefsCounted' /\ EveryReferenceOwned'
    BY <1>18, <1>20, CountsAreCounted, OwnedIsCountedNext
  <1>23. OwnersAreFiled'
    <2>1. \A e \in Entries' : entryGate'[e] # NoGate /\ registry[AnchorOf[e]] = entryGate'[e]
      <3>1. \A e \in Entries : e \in Requests \ {r} /\ entryGate[e] # NoGate /\ registry[AnchorOf[e]] = entryGate[e]
        BY <1>14 DEF OwnersAreFiled, Entries
      <3>2. QED
        BY <1>12, <1>13, <1>14, <1>17, <3>1
    <2>2. /\ \A z \in pinned' : pin'[z] # NoGate /\ registry[PinAnchor[z]] = pin'[z]
          /\ \A q \in Requests : spare'[q] # NoGate => registry[AnchorOf[q]] = spare'[q]
          /\ \A q \in Requests : OnRegistry(q)' => gate'[q] # NoGate /\ registry[AnchorOf[q]] = gate'[q]
      BY <1>1, <1>12, <1>13, <1>16 DEF OwnersAreFiled
    <2>3. QED
      BY <1>20, <1>21, <1>22, <2>1, <2>2, OwnersStayFiled
  <1>24. SparesInTransit'
    BY <1>10, <1>12, <1>13 DEF SparesInTransit
  <1>25. EntriesAreFiled'
    <2>1. \A z \in Sessions : \A e \in cache'[z] : SessionOf[e] = z
      BY <1>0, <1>9 DEF EntriesAreFiled
    <2>2. \A z \in Sessions : \A e, f \in cache'[z] : AnchorOf[e] = AnchorOf[f] => e = f
      <3>1. \A e \in cache[s] : AnchorOf[e] # AnchorOf[r]
        BY <1>0, <1>1 DEF Cached
      <3>2. \A e, f \in cache'[s] : AnchorOf[e] = AnchorOf[f] => e = f
        BY <1>9, <3>1 DEF EntriesAreFiled
      <3>3. QED
        BY <1>9, <3>2 DEF EntriesAreFiled
    <2>3. \A e \in retired' : users'[e] > 0 /\ e \notin cache'[SessionOf[e]]
      <3>1. ASSUME NEW e \in retired PROVE users'[e] > 0 /\ e \notin cache'[SessionOf[e]]
        <4>1. e \in Requests \ {r} /\ users[e] > 0 /\ e \notin cache[SessionOf[e]] /\ SessionOf[e] \in Sessions
          BY <3>1, <1>7, GateAssumption DEF EntriesAreFiled, GatesTypeOK
        <4>2. QED
          BY <4>1, <1>9, <1>13
      <3>2. ASSUME NEW e \in kept PROVE users'[e] > 0 /\ e \notin cache'[SessionOf[e]]
        <4>1. e \in Requests \ {r} /\ users[e] > 0 /\ SessionOf[e] = s /\ e \in victims
          BY <3>2, <1>6, <1>7
        <4>2. QED
          BY <4>1, <1>9, <1>13
      <3>3. QED
        BY <1>3, <3>1, <3>2
    <2>4. \A e \in Requests : e \in cache'[SessionOf[e]] \/ e \in retired' => at'[e] \in Placed
      <3>1. \A e \in Requests \ {r} : e \in cache'[SessionOf[e]] \/ e \in retired' => e \in cache[SessionOf[e]] \/ e \in retired
        BY <1>3, <1>6, <1>9, GateAssumption
      <3>2. QED
        BY <1>10, <3>1 DEF EntriesAreFiled, Placed, Turning
    <2>5. \A e \in Requests : users'[e] > 0 => e \in cache'[SessionOf[e]] \/ e \in retired'
      <3>1. r \in cache'[SessionOf[r]]
        BY <1>0, <1>9
      <3>2. ASSUME NEW e \in Requests \ {r}, users[e] > 0, e \in cache[SessionOf[e]]
            PROVE  e \in cache'[SessionOf[e]] \/ e \in kept
        <4>1. CASE SessionOf[e] = s
          BY <3>2, <4>1, <1>4, <1>9
        <4>2. CASE SessionOf[e] # s
          BY <3>2, <4>2, <1>9, GateAssumption
        <4>3. QED
          BY <4>1, <4>2
      <3>3. QED
        BY <1>3, <1>13, <3>1, <3>2 DEF EntriesAreFiled
    <2>6. QED
      BY <2>1, <2>2, <2>3, <2>4, <2>5 DEF EntriesAreFiled
  <1>26. UsersCounted'
    <2>1. \A e \in Requests \ {r} : UsersOf(e)' = UsersOf(e)
      BY <1>7, <1>10, <1>12, <1>13, GateAssumption DEF UsersOf, NoEntry
    <2>2. UsersOf(r)' = {r}
      <3>1. \A q \in Requests \ {r} : ~(entry'[q] = r /\ at'[q] \in Using)
        BY <1>8, <1>10, <1>13 DEF UsersOf
      <3>2. QED
        BY <3>1, <1>10, <1>12 DEF UsersOf, Using
    <2>3. Cardinality({r}) = 1
      BY FS_Singleton
    <2>4. \A e \in Requests : users'[e] = Cardinality(UsersOf(e)')
      <3>1. users'[r] = Cardinality(UsersOf(r)')
        BY <1>12, <2>2, <2>3
      <3>2. \A e \in Requests \ {r} : users'[e] = Cardinality(UsersOf(e)')
        BY <1>13, <2>1 DEF UsersCounted
      <3>3. QED
        BY <3>1, <3>2
    <2>5. QED
      BY <2>4 DEF UsersCounted, UsersOf
  <1>27. PathsAreKept'
    <2>1. \A q \in Requests : entry[q] = r => at[q] \notin Using
      BY <1>8 DEF UsersOf
    <2>2. ASSUME NEW q \in Requests \ {r}, entry[q] # NoEntry, at[q] \in Using
          PROVE  entryGate'[entry[q]] = entryGate[entry[q]]
      BY <2>1, <2>2, <1>13 DEF GatesTypeOK
    <2>3. \A q \in Requests : PathIsKept(q)
      BY DEF PathsAreKept
    <2>4. \A q \in Requests \ {r} : PathIsKept(q)'
      BY <1>1, <1>10, <1>13, <2>2, <2>3 DEF PathIsKept
    <2>5. PathIsKept(r)'
      BY <1>7, <1>10, <1>12, GateAssumption DEF PathIsKept, Using, Turning, NoEntry
    <2>6. QED
      BY <2>4, <2>5 DEF PathsAreKept
  <1>28. TurnsAreTaken' /\ SplitIsNoted'
    BY <1>1, <1>10, <1>13 DEF TurnsAreTaken, SplitIsNoted, Spans, Turning, Reaching
  <1>29. PinsAreKept'
    <2>1. counted' = {q \in Requests : at'[q] \notin {"new", "resolved", "done"}}
      BY <1>1, <1>10 DEF PinsAreKept
    <2>2. \A q \in Requests : at'[q] \in Reaching \/ (q \in Sampling /\ at'[q] = "counted") => SessionOf[q] \in pinned
      BY <1>1, <1>10 DEF PinsAreKept, Reaching, Turning
    <2>3. QED
      BY <1>1, <2>1, <2>2 DEF PinsAreKept
  <1>30. QED
    BY <1>20, <1>21, <1>22, <1>23, <1>24, <1>25, <1>26, <1>27, <1>28, <1>29

\* Every step keeps the invariant.
LEMMA GatesStepIsSound == GatesIInv /\ [GatesNext]_turnVars => GatesIInv'
  <1> SUFFICES ASSUME GatesIInv, [GatesNext]_turnVars PROVE GatesIInv'
    OBVIOUS
  <1>1. ASSUME NEW s \in Sessions, SessionStep(s) PROVE GatesIInv'
    BY <1>1, PinMove, SessionOnly, ReleasePinMove, CloseMove DEF SessionStep
  <1>2. ASSUME NEW r \in Requests, Reach(r) PROVE GatesIInv'
    <2>1. CASE Resolve(r)
      BY <2>1, QuietMove DEF Resolve, OnlyMoves, Places
    <2>2. CASE CountIn(r) \/ dispatch(r)
      BY <2>2, CountMove
    <2>3. CASE Admit(r)
      BY <2>3, AdmitMove
    <2>4. CASE AskSplit(r)
      <3>1. PICK l \in {"returning", "admitted"} : GoTo(r, l)
        BY <2>4 DEF AskSplit
      <3>2. QED
        BY <2>4, <3>1, QuietMove DEF AskSplit, OnlyMoves, Places, Reaching
    <2>5. CASE UsePin(r)
      BY <2>5, UsePinMove
    <2>6. CASE lookup(r)
      <3>1. CASE \E e \in Cached(r) : UseEntry(r, e, entryGate[e], users[e] + 1) /\ GoTo(r, "queued") /\ UNCHANGED entryGate
        <4>1. PICK e \in Cached(r) : UseEntry(r, e, entryGate[e], users[e] + 1) /\ GoTo(r, "queued") /\ UNCHANGED entryGate
          BY <3>1
        <4>2. UNCHANGED <<gateVars, turn, sessionVars, cache, closed, entryGate, retired, counted, spare>>
          BY <2>6, <4>1 DEF lookup
        <4>3. at[r] = "admitted" /\ Spans(r)
          BY <2>6 DEF lookup
        <4>4. QED
          BY <4>1, <4>2, <4>3, EntryMove
      <3>2. CASE \E l \in {"missed", "uncached"} : GoTo(r, l) /\ UNCHANGED <<users, entryGate, gate, tier, entry>>
        <4>1. PICK l \in {"missed", "uncached"} : GoTo(r, l) /\ UNCHANGED <<users, entryGate, gate, tier, entry>>
          BY <3>2
        <4>2. UNCHANGED <<gateVars, turn, sessionVars, cacheVars, counted, requestVars>>
          BY <2>6, <4>1 DEF lookup, cacheVars, requestVars
        <4>3. OnlyMoves(r, l) /\ l \in Places
          BY <2>6 DEF lookup, OnlyMoves, Places, Reaching
        <4>4. QED
          BY <4>1, <4>2, <4>3, QuietMove
      <3>3. QED
        BY <2>6, <3>1, <3>2 DEF lookup
    <2>7. CASE HoldForCache(r)
      BY <2>7, SpareMove
    <2>8. CASE InsertKept(r)
      BY <2>8, InsertMove
    <2>9. CASE InsertNotKept(r)
      <3>1. CASE \E e \in Cached(r) : UseEntry(r, e, entryGate[e], users[e] + 1) /\ GoTo(r, "surplus") /\ UNCHANGED entryGate
        <4>1. PICK e \in Cached(r) : UseEntry(r, e, entryGate[e], users[e] + 1) /\ GoTo(r, "surplus") /\ UNCHANGED entryGate
          BY <3>1
        <4>2. UNCHANGED <<gateVars, turn, sessionVars, cache, closed, entryGate, retired, counted, spare>>
          BY <2>9, <4>1 DEF InsertNotKept
        <4>3. at[r] = "inserting"
          BY <2>9 DEF InsertNotKept
        <4>4. QED
          BY <4>1, <4>2, <4>3, EntryMove
      <3>2. CASE GoTo(r, "surplus") /\ UNCHANGED <<users, entryGate, gate, tier, entry>>
        <4>1. UNCHANGED <<gateVars, turn, sessionVars, cacheVars, counted, requestVars>>
          BY <2>9, <3>2 DEF InsertNotKept, cacheVars, requestVars
        <4>2. OnlyMoves(r, "surplus") /\ "surplus" \in Places
          BY <2>9 DEF InsertNotKept, OnlyMoves, Places, Reaching
        <4>3. QED
          BY <3>2, <4>1, <4>2, QuietMove
      <3>3. QED
        BY <2>9, <3>1, <3>2 DEF InsertNotKept
    <2>10. CASE DropSurplus(r)
      BY <2>10, SurplusMove
    <2>11. CASE UseRegistry(r)
      BY <2>11, RegistryMove
    <2>12. QED
      BY <1>2, <2>1, <2>2, <2>3, <2>4, <2>5, <2>6, <2>7, <2>8, <2>9, <2>10, <2>11 DEF Reach
  <1>3. ASSUME NEW r \in Requests, take(r) \/ Release(r) PROVE GatesIInv'
    BY <1>3, TurnMove
  <1>4. ASSUME NEW r \in Requests, GiveUp(r) \/ Decide(r) PROVE GatesIInv'
    BY <1>4, QuietMove DEF GiveUp, Decide, OnlyMoves, Places, Reaching, Turning
  <1>5. ASSUME NEW r \in Requests, RecheckSplit(r) PROVE GatesIInv'
    <2>1. PICK l \in {"ending", "deciding"} : GoTo(r, l)
      BY <1>5 DEF RecheckSplit
    <2>2. QED
      BY <1>5, <2>1, QuietMove DEF RecheckSplit, OnlyMoves, Places, Reaching, Turning
  <1>6. ASSUME NEW r \in Requests, Leave(r) PROVE GatesIInv'
    <2>0. /\ at[r] = "leaving" /\ GoTo(r, "returning")
          /\ UNCHANGED <<turn, sessionVars, cache, closed, entryGate, counted, requestVars>>
      BY <1>6 DEF Leave
    <2>1. CASE tier[r] = "cache" /\ LeaveEntry(r)
      BY <2>0, <2>1, LeaveEntryMove
    <2>2. CASE tier[r] = "registry" /\ drop({gate[r]}) /\ UNCHANGED <<users, retired>>
      <3>1. UNCHANGED <<turn, sessionVars, cacheVars, counted, requestVars>>
        BY <2>0, <2>2 DEF cacheVars
      <3>2. QED
        BY <2>0, <2>2, <3>1, LeaveRegistryMove
    <2>3. QED
      BY <1>6, <2>1, <2>2 DEF Leave
  <1>7. ASSUME NEW r \in Requests, Return(r) PROVE GatesIInv'
    BY <1>7, ReturnMove
  <1>8. CASE UNCHANGED turnVars
    <2>1. /\ UNCHANGED <<registry, built, refs, turn, pin, pinned, waiters, split, stage, registered, reading>>
          /\ UNCHANGED <<cache, closed, entryGate, users, retired>>
          /\ UNCHANGED <<at, counted, gate, tier, entry, spare>>
      BY <1>8 DEF turnVars
    <2>2. GatesTypeOK' /\ PathsAreKept' /\ PinsAreKept' /\ TurnsAreTaken' /\ SplitIsNoted'
      BY <2>1 DEF GatesIInv, GatesTypeOK, PathsAreKept, PathIsKept, PinsAreKept, TurnsAreTaken, SplitIsNoted, Spans
    <2>3. \A q \in Requests : OnRegistry(q)' <=> OnRegistry(q)
      BY <2>1 DEF OnRegistry
    <2>4. /\ RegistryIsSound' /\ OwnersAreFiled' /\ EveryReferenceOwned' /\ SparesInTransit'
          /\ EntriesAreFiled' /\ UsersCounted'
      BY <2>1, <2>3, NothingMoves DEF gateVars, cacheVars
    <2>5. QED
      BY <2>2, <2>4 DEF GatesIInv
  <1>9. QED
    BY <1>1, <1>2, <1>3, <1>4, <1>5, <1>6, <1>7, <1>8 DEF GatesNext, Finish, GatesFinished

\* The inductive invariant of the decision gates.
THEOREM GatesInvariant == GatesSpec => []GatesIInv
  <1>1. QED
    BY GatesInitIsSound, GatesStepIsSound, PTL DEF GatesSpec

\* Every reference of a gate has one owner who returns it, and no gate is reclaimed under
\* a request that waits for its turn or has it (keyedRegistry, cachedGate,
\* finishSessionCleanup), for every number of sessions, requests and anchors and every
\* size of the cache.
THEOREM GatesAreAlwaysHeld == GatesSpec => []GatesAreHeld
  <1>1. GatesIInv => GatesAreHeld
    BY UsersAreFiled DEF GatesAreHeld, GatesIInv
  <1>2. QED
    BY <1>1, GatesInvariant, PTL

\* What a step does to the requests' places: one of them moves at most, and a sampling
\* request that starts to decide has found its session unsplit.
LEMMA OneMoves ==
  ASSUME [GatesNext]_turnVars
  PROVE  \/ at' = at
         \/ \E r \in Requests, l \in Places :
              GoTo(r, l) /\ (l = "deciding" /\ r \in Sampling => SessionOf[r] \notin split \/ at[r] = "deciding")
  <1>1. ASSUME NEW s \in Sessions, SessionStep(s) PROVE at' = at
    BY <1>1 DEF SessionStep, holdDecisionGate, Delete, ReaderExits, finishSessionCleanup, releaseSessionObjectState,
                awaitAndDropDecideGate, close
  <1>2. ASSUME NEW r \in Requests, Reach(r) PROVE \E l \in Places : GoTo(r, l) /\ l # "deciding"
    <2>1. CASE Resolve(r) \/ CountIn(r) \/ Admit(r) \/ dispatch(r) \/ AskSplit(r)
      BY <2>1 DEF Resolve, CountIn, Admit, dispatch, AskSplit, Places, Reaching
    <2>2. CASE UsePin(r) \/ lookup(r) \/ HoldForCache(r) \/ InsertKept(r) \/ InsertNotKept(r)
      BY <2>2 DEF UsePin, lookup, HoldForCache, InsertKept, InsertNotKept, Places, Reaching, Turning
    <2>3. CASE DropSurplus(r) \/ UseRegistry(r)
      BY <2>3 DEF DropSurplus, UseRegistry, Places, Reaching, Turning
    <2>4. QED
      BY <1>2, <2>1, <2>2, <2>3 DEF Reach
  <1>3. ASSUME NEW r \in Requests, take(r) \/ GiveUp(r) \/ Finish(r)
        PROVE  \E l \in Places : /\ GoTo(r, l)
                                 /\ l = "deciding" /\ r \in Sampling => SessionOf[r] \notin split \/ at[r] = "deciding"
    BY <1>3 DEF take, GiveUp, Finish, RecheckSplit, Decide, Release, Leave, Return, Places, Reaching, Turning
  <1>4. CASE UNCHANGED turnVars
    BY <1>4 DEF turnVars
  <1>5. QED
    BY <1>1, <1>2, <1>3, <1>4 DEF GatesNext, GatesFinished

\* Two requests of one anchor never decide at once.
OneIsDeciding ==
  \A q, r \in Requests : AnchorOf[q] = AnchorOf[r] /\ at[q] = "deciding" /\ at[r] = "deciding" => q = r
LEMMA OneDecides == GatesIInv => OneIsDeciding
  <1> SUFFICES ASSUME GatesIInv, NEW q \in Requests, NEW r \in Requests, AnchorOf[q] = AnchorOf[r],
                      at[q] = "deciding", at[r] = "deciding"
               PROVE  q = r
    BY DEF OneIsDeciding
  <1>1. gate[q] = gate[r]
    BY UsersAreFiled DEF GateOutlivesItsUsers
  <1>2. turn[gate[q]] = q /\ turn[gate[r]] = r
    BY DEF GatesIInv, TurnsAreTaken
  <1>3. QED
    BY <1>1, <1>2

\* A step of the gates is a step of the decision turn.
LEMMA StepIsATurn ==
  ASSUME GatesIInv, GatesIInv', [GatesNext]_turnVars
  PROVE  [Turn!DNext]_Deciding
  <1>1. CASE at' = at
    BY <1>1 DEF Deciding
  <1>2. ASSUME NEW r \in Requests, NEW l \in Places, GoTo(r, l)
        PROVE  [Turn!DNext]_Deciding
    <2>1. at'[r] = l /\ AnchorOf[r] \in Anchors /\ \A q \in Requests \ {r} : at'[q] = at[q]
      BY <1>2, Moved, GateAssumption DEF GatesIInv
    <2>2. \A a \in Anchors \ {AnchorOf[r]} : Deciding'[a] = Deciding[a]
      BY <2>1 DEF Deciding
    <2>3. \A q \in Requests : at[q] = "deciding" /\ AnchorOf[q] = AnchorOf[r] /\ at[r] = "deciding" => q = r
      BY OneDecides DEF OneIsDeciding
    <2>4. OneIsDeciding'
      BY OneDecides, PTL
    <2>5. CASE l = "deciding" /\ at[r] # "deciding"
      <3>1. Deciding[AnchorOf[r]] = {} /\ Deciding'[AnchorOf[r]] = {r}
        BY <2>1, <2>4, <2>5 DEF Deciding, OneIsDeciding
      <3>2. Deciding' = [Deciding EXCEPT ![AnchorOf[r]] = {r}]
        BY <2>1, <2>2, <3>1, ZenonT(40) DEF Deciding
      <3>3. QED
        BY <2>1, <3>1, <3>2 DEF Turn!DNext, Turn!Enter
    <2>6. CASE l # "deciding" /\ at[r] = "deciding"
      <3>1. Deciding[AnchorOf[r]] # {} /\ Deciding'[AnchorOf[r]] = {}
        BY <2>1, <2>3, <2>6 DEF Deciding
      <3>2. Deciding' = [Deciding EXCEPT ![AnchorOf[r]] = {}]
        BY <2>1, <2>2, <3>1, ZenonT(40) DEF Deciding
      <3>3. QED
        BY <2>1, <3>1, <3>2 DEF Turn!DNext, Turn!Leave
    <2>7. CASE l = "deciding" <=> at[r] = "deciding"
      BY <2>1, <2>7 DEF Deciding
    <2>8. QED
      BY <2>5, <2>6, <2>7
  <1>3. QED
    BY <1>1, <1>2, OneMoves

\* At most one decision at a time per state anchor: the HTTP transport's gates implement
\* the decision turn (beginTurn, anchorGates, gateCache), although gates are dropped and
\* rebuilt, entries are shed and sessions are torn down under their requests.
THEOREM GatesImplementTurn == GatesSpec => ImplementsTurn
  <1>1. GatesInit => Turn!DInit
    BY DEF GatesInit, Turn!DInit, Deciding
  <1>2. QED
    BY <1>1, StepIsATurn, GatesInvariant, PTL DEF GatesSpec, ImplementsTurn, Turn!DSpec

\* A sampling decision never starts past a host request of its session that decided under
\* another anchor, and takes its turn like any other (decideSampling).
THEOREM SamplingAlwaysKeepsItsTurn == GatesSpec => SamplingKeepsItsTurn
  <1>1. GatesInit => Turn!DInit
    BY DEF GatesInit, Turn!DInit, Deciding
  <1>2. ASSUME GatesIInv, [GatesNext]_turnVars PROVE SamplingKeepsToItsAnchor
    <2> SUFFICES ASSUME NEW r \in Sampling, at[r] # "deciding", at'[r] = "deciding",
                        NEW h \in Requests \ Sampling, SessionOf[h] = SessionOf[r], Spans(h)
                 PROVE  at[h] \notin {"deciding", "ending", "leaving"}
      BY DEF SamplingKeepsToItsAnchor
    <2>1. r \in Requests /\ at' # at
      BY GateAssumption
    <2>2. PICK q \in Requests, l \in Places :
               GoTo(q, l) /\ (l = "deciding" /\ q \in Sampling => SessionOf[q] \notin split \/ at[q] = "deciding")
      BY <1>2, <2>1, OneMoves
    <2>3. at'[q] = l /\ \A z \in Requests \ {q} : at'[z] = at[z]
      BY <1>2, <2>2, Moved DEF GatesIInv
    <2>4. SessionOf[r] \notin split
      BY <2>1, <2>2, <2>3
    <2>5. QED
      BY <1>2, <2>4 DEF GatesIInv, SplitIsNoted, Reaching, Turning
  <1>3. ASSUME GatesIInv, GatesIInv', [GatesNext]_turnVars
        PROVE  [[Turn!DNext]_Deciding /\ SamplingKeepsToItsAnchor]_turnVars
    BY <1>2, <1>3, StepIsATurn
  <1>4. QED
    BY <1>1, <1>3, GatesInvariant, PTL DEF GatesSpec, SamplingKeepsItsTurn
=============================================================================
