------------------------- MODULE PolicyDecisionProofs -------------------------
(***************************************************************************)
(* Proofs about PolicyDecision, for any requests, calls, instances and     *)
(* stores.  The flow theorems assume SessionsPrivate: the violation of     *)
(* SinkSeesEarlierTaint without it is a finding of the project.            *)
(*                                                                         *)
(* The inductive invariant says of a request, next to what it has already  *)
(* written, that its snapshot covers every source forwarded on its session *)
(* (so a rollback takes back nothing of theirs) and that what was due when *)
(* it took its turn is still in the store until it reads it.               *)
(*                                                                         *)
(* And about DecisionPoints, for any tools, manifests, tokens and          *)
(* listings: every decision is one of four by what governs it, and a tool  *)
(* that the pins do not hold back was only ever shown with its baseline.   *)
(***************************************************************************)
EXTENDS PolicyDecision, DecisionPoints, FiniteSetTheorems, WellFoundedInduction, TLAPS

Passed == {"admit", "label", "alias", "name", "rollback", "forwarded"}
Peeked == {"judge", "admit", "label", "alias", "name", "rollback"}

\* What the position of a request says of its own state.
Stage(q) ==
  /\ pc[q] = "waiting" => carried[q] = {} /\ q \notin observing
  /\ pc[q] \in {"peek", "judge", "admit"} => q \notin observing /\ call[q].matched
  /\ pc[q] = "repeek" => q \in observing
  /\ pc[q] = "rollback" => call[q].task = NoTask

\* What a request has written is in the stores.
Written(q) ==
  /\ pc[q] \in {"alias", "name"} => call[q].out \subseteq labels[Key(q)]
  /\ pc[q] = "name" => call[q].alias \subseteq history[Key(q)]
  /\ pc[q] = "forwarded" => Recorded(q)

\* A session's snapshot covers the sources forwarded on it.
Snapshot(q) ==
  pc[q] \in Peeked /\ call[q].task = NoTask /\ ConstraintHasFlow(call[q]) =>
    \A p \in Requests \ ended :
      pc[p] = "forwarded" /\ Key(p) = Key(q) => call[p].out \subseteq carried[q]

\* The labels due to a request are in the store, then in its snapshot, then permitted.
FlowInformed(q) ==
  /\ pc[q] = "peek" => due[q].labels \subseteq labels[Key(q)]
  /\ pc[q] = "judge" /\ call[q].sink => due[q].labels \subseteq carried[q]
  /\ pc[q] \in Passed /\ q \notin observing /\ call[q].sink =>
       due[q].labels \subseteq call[q].allow

\* The markers due to a request are in the store until it has passed its gate.
SequenceInformed(q) ==
  /\ pc[q] \in {"peek", "judge"} => due[q].names \subseteq history[Key(q)]
  /\ pc[q] \in Passed /\ q \notin observing => due[q].names \cap call[q].after = {}

\* One decision at a time on an instance's anchor.
OneTurn ==
  \A p, q \in Requests :
    pc[p] \in Deciding /\ pc[q] \in Deciding
      /\ call[p].instance = call[q].instance /\ Key(p) = Key(q) => p = q

Sound(q) == Stage(q) /\ Written(q) /\ Snapshot(q) /\ FlowInformed(q) /\ SequenceInformed(q)

IInv == TypeOK /\ OneTurn /\ \A q \in Requests : Sound(q)

-------------------------------------------------------------------------------
PCs == Deciding \cup Closed \cup {"waiting"}

\* Where recordAntecedentIn and recordSourceCall may send a call.
LEMMA NextSteps ==
  ASSUME NEW c \in Calls
  PROVE  /\ recordAntecedentIn(c) \in {"alias", "name", "forwarded"}
         /\ recordAntecedentIn(c) \in {"name", "forwarded"} => c.alias = {}
         /\ recordAntecedentIn(c) = "forwarded" => c.name = {}
         /\ recordSourceCall(c) \in {"denied", "label", "alias", "name", "forwarded"}
         /\ recordSourceCall(c) \in {"alias", "name", "forwarded"} => c.out = {}
         /\ recordSourceCall(c) \in {"name", "forwarded"} => c.alias = {}
         /\ recordSourceCall(c) = "forwarded" => c.name = {}
  BY DEF recordAntecedentIn, recordSourceCall

\* Where a policy refusal may send a call.
LEMMA RefusalRoutes ==
  ASSUME NEW c \in Calls, NEW snapshot
  PROVE  \/ recordAuditModeAntecedent(c, snapshot) \in {"denied", "repeek"}
         \/ /\ recordAuditModeAntecedent(c, snapshot) = recordSourceCall(c)
            /\ ConstraintHasFlow(c) => snapshot # {}
  BY DEF recordAuditModeAntecedent

\* Where the ceiling may send a call.
LEMMA CeilingRoutes ==
  ASSUME NEW c \in Calls
  PROVE  \/ AfterCeiling(c) \in {"denied", "admit"}
         \/ AfterCeiling(c) = recordSourceCall(c)
  BY DEF AfterCeiling

LEMMA Shapes ==
  ASSUME TypeOK, NEW q \in Requests
  PROVE  /\ call[q] \in Calls /\ Key(q) \in Anchors /\ pc[q] \in PCs
         /\ call[q].out \in SUBSET Labels /\ call[q].allow \in SUBSET Labels
         /\ call[q].name \in SUBSET Names /\ call[q].alias \in SUBSET Names
         /\ call[q].after \in SUBSET Names
         /\ call[q].instance \in Instances /\ call[q].session \in Sessions
         /\ call[q].task = NoTask => Key(q) = call[q].session
         /\ call[q].task # NoTask => Key(q) \in Tasks
  <1>1. call[q] \in Calls
    BY DEF TypeOK
  <1>2. call[q] \in CallShape
    BY <1>1, CallAssumption
  <1>3. Key(q) \in Anchors /\ (call[q].task = NoTask => Key(q) = call[q].session)
          /\ (call[q].task # NoTask => Key(q) \in Tasks)
    BY <1>2 DEF CallShape, Key, resolveAnchor, Anchors
  <1> QED BY <1>1, <1>2, <1>3 DEF TypeOK, CallShape, PCs

-------------------------------------------------------------------------------
(***************************************************************************)
(* What any step of a request's decision leaves alone.                     *)
(***************************************************************************)
Quiet(r) ==
  /\ call' = call /\ ends' = ends /\ ended' = ended
  /\ pc[r] \notin Closed
  /\ pc[r] = "waiting" => TurnFree(r)
  /\ \E step \in PCs \ {"waiting"} : pc' = [pc EXCEPT ![r] = step]
  /\ \A q \in Requests \ {r} :
       carried'[q] = carried[q] /\ due'[q] = due[q] /\ (q \in observing' <=> q \in observing)
  /\ \A a \in Anchors : history[a] \subseteq history'[a]
  /\ \A a \in Anchors : labels[a] \subseteq labels'[a]
       \/ (pc[r] = "rollback" /\ a = Key(r) /\ labels[a] \ labelsAdded(r) \subseteq labels'[a])

LEMMA Quietness ==
  ASSUME TypeOK, NEW r \in Requests, Step(r)
  PROVE  Quiet(r)
  <1> DEFINE c == call[r]
  <1>1. c \in Calls /\ Key(r) \in Anchors
    BY Shapes
  <1>2. recordSourceCall(c) \in PCs \ {"waiting"} /\ recordAntecedentIn(c) \in PCs \ {"waiting"}
          /\ AfterCeiling(c) \in PCs \ {"waiting"}
    BY <1>1, NextSteps, CeilingRoutes, Zenon DEF PCs, Deciding, Closed
  <1>3. recordAuditModeAntecedent(c, carried[r]) \in PCs \ {"waiting"}
    BY <1>1, <1>2, RefusalRoutes DEF PCs, Deciding, Closed
  <1>4. AfterFailedMarker(r) \in PCs \ {"waiting"}
    BY DEF AfterFailedMarker, PCs, Deciding, Closed
  <1> HIDE DEF c
  <1>5. CASE Bar(r)
    BY <1>5 DEF Bar, TakeTurn, Goto, Quiet, storeVars, TypeOK, PCs, Deciding, Closed
  <1>6. CASE RefuseUnmatched(r)
    BY <1>6, <1>3 DEF RefuseUnmatched, Downgrade, TakeTurn, Goto, Quiet, storeVars, TypeOK, Closed, c
  <1>7. CASE EvaluateConditions(r)
    <2> DEFINE step == IF call[r].anchorless THEN "denied"
                       ELSE IF ConstraintHasFlow(call[r]) THEN "peek" ELSE "judge"
    <2>1. step \in PCs \ {"waiting"}
      BY DEF PCs, Deciding, Closed
    <2>2. pc' = [pc EXCEPT ![r] = step] /\ TakeTurn(r) /\ observing' = observing
      BY <1>7 DEF EvaluateConditions, Goto
    <2> HIDE DEF step
    <2> QED BY <2>1, <2>2 DEF TakeTurn, Quiet, storeVars, TypeOK, Closed
  <1>8. CASE peekSessionLabels(r)
    BY <1>8 DEF peekSessionLabels, Goto, Quiet, storeVars, TypeOK, PCs, Deciding, Closed
  <1>9. CASE runPureConditions(r)
    BY <1>9, <1>2, <1>3 DEF runPureConditions, Downgrade, Goto, Quiet, storeVars, TypeOK, PCs, Deciding, Closed, c
  <1>10. CASE commitDeferredConditions(r)
    BY <1>10, <1>2, <1>3 DEF commitDeferredConditions, Downgrade, Goto, Quiet, TypeOK, PCs, Deciding, Closed, c
  <1>11. CASE PeekForForward(r)
    BY <1>11, <1>2 DEF PeekForForward, Goto, Quiet, storeVars, TypeOK, PCs, Deciding, Closed, c
  <1>12. CASE recordLabels(r)
    BY <1>12, <1>1, <1>2 DEF recordLabels, AddLabels, Goto, Quiet, TypeOK, PCs, Deciding, Closed, c
  <1>13. CASE RecordAlias(r)
    BY <1>13, <1>1, <1>4, SMTT(20) DEF RecordAlias, Mark, Goto, Quiet, TypeOK, PCs, Deciding, Closed
  <1>14. CASE RecordSessionCall(r)
    BY <1>14, <1>1, <1>4, SMTT(20) DEF RecordSessionCall, Mark, Goto, Quiet, TypeOK, PCs, Deciding, Closed
  <1>15. CASE rollbackLabels(r)
    BY <1>15, <1>1 DEF rollbackLabels, TakeBack, Goto, Quiet, TypeOK, PCs, Deciding, Closed
  <1> QED BY <1>5, <1>6, <1>7, <1>8, <1>9, <1>10, <1>11, <1>12, <1>13, <1>14, <1>15 DEF Step

\* Type correctness is preserved by a step of a decision.
LEMMA StepTypes ==
  ASSUME TypeOK, NEW r \in Requests, Step(r)
  PROVE  TypeOK'
  <1>1. call[r] \in Calls /\ Key(r) \in Anchors /\ call[r].out \in SUBSET Labels
          /\ call[r].name \in SUBSET Names /\ call[r].alias \in SUBSET Names
    BY Shapes
  <1>2. Quiet(r)
    BY Quietness
  <1>3. /\ call' \in [Requests -> Calls] /\ ends' \in 0..MaxEnds /\ ended' \subseteq Requests
        /\ pc' \in [Requests -> Deciding \cup Closed \cup {"waiting"}]
    BY <1>2 DEF Quiet, TypeOK, PCs
  <1>4. observing' \subseteq Requests
    BY DEF Step, Bar, RefuseUnmatched, EvaluateConditions, peekSessionLabels, runPureConditions,
       commitDeferredConditions, PeekForForward, recordLabels, RecordAlias, RecordSessionCall,
       rollbackLabels, Downgrade, TypeOK
  <1>5. carried' \in [Requests -> SUBSET Labels]
    BY <1>1 DEF Step, Bar, RefuseUnmatched, EvaluateConditions, TakeTurn, peekSessionLabels,
       runPureConditions, commitDeferredConditions, PeekForForward, recordLabels, RecordAlias,
       RecordSessionCall, rollbackLabels, TypeOK
  <1>6. labels' \in [Anchors -> SUBSET Labels]
    BY <1>1 DEF Step, Bar, RefuseUnmatched, EvaluateConditions, TakeTurn, peekSessionLabels,
       runPureConditions, commitDeferredConditions, PeekForForward, recordLabels, RecordAlias,
       RecordSessionCall, rollbackLabels, AddLabels, TakeBack, storeVars, TypeOK
  <1>7. history' \in [Anchors -> SUBSET Names]
    BY <1>1 DEF Step, Bar, RefuseUnmatched, EvaluateConditions, TakeTurn, peekSessionLabels,
       runPureConditions, commitDeferredConditions, PeekForForward, recordLabels, RecordAlias,
       RecordSessionCall, rollbackLabels, Mark, storeVars, TypeOK
  <1>8. used' \in [Anchors -> 0..Limit]
    BY <1>1, CallAssumption DEF Step, Bar, RefuseUnmatched, EvaluateConditions, TakeTurn,
       peekSessionLabels, runPureConditions, commitDeferredConditions, PeekForForward,
       recordLabels, RecordAlias, RecordSessionCall, rollbackLabels, Spend, storeVars, TypeOK
  <1>9. due' \in [Requests -> [labels: SUBSET Labels, names: SUBSET Names]]
    <2> DEFINE L == UNION {call[q].out : q \in Forwarded(Key(r)) \ ended}
               N == UNION {call[q].alias \cup call[q].name : q \in Forwarded(Key(r))}
    <2>1. L \in SUBSET Labels /\ N \in SUBSET Names
      BY Shapes DEF Forwarded
    <2>2. due' = due \/ due' = [due EXCEPT ![r] = [labels |-> L, names |-> N]]
      BY DEF Step, Bar, RefuseUnmatched, EvaluateConditions, TakeTurn, peekSessionLabels,
         runPureConditions, commitDeferredConditions, PeekForForward, recordLabels, RecordAlias,
         RecordSessionCall, rollbackLabels
    <2> HIDE DEF L, N
    <2> QED BY <2>1, <2>2 DEF TypeOK
  <1> QED BY <1>3, <1>4, <1>5, <1>6, <1>7, <1>8, <1>9 DEF TypeOK

\* Requests that share a session key share their instance.
LEMMA SameInstance ==
  ASSUME SessionsPrivate, TypeOK, NEW p \in Requests, NEW q \in Requests,
         Key(p) = Key(q), call[q].task = NoTask
  PROVE  call[p].instance = call[q].instance
  <1>1. Key(q) \in Sessions /\ Key(q) = call[q].session
    BY Shapes
  <1>2. call[p].task = NoTask
    BY <1>1, Shapes, CallAssumption
  <1> QED BY <1>1, <1>2, Shapes DEF SessionsPrivate

\* A step of one decision keeps the turn exclusive.
LEMMA StepKeepsTurn ==
  ASSUME TypeOK, OneTurn, NEW r \in Requests, Quiet(r)
  PROVE  OneTurn'
  <1> SUFFICES ASSUME NEW p \in Requests, NEW q \in Requests, pc'[p] \in Deciding,
                      pc'[q] \in Deciding, call[p].instance = call[q].instance, Key(p) = Key(q)
               PROVE  p = q
    BY DEF OneTurn, Quiet, Key
  <1>1. \A x \in Requests : pc'[x] \in Deciding => pc[x] \in Deciding \/ (x = r /\ TurnFree(r))
    BY DEF Quiet, TypeOK, Deciding, Closed
  <1> QED BY <1>1 DEF OneTurn, TurnFree

-------------------------------------------------------------------------------
(***************************************************************************)
(* A step of request r keeps what the invariant says of the others: only a *)
(* rollback removes labels, only under a session key, and only labels that *)
(* were not in its snapshot.                                               *)
(***************************************************************************)
LEMMA DecidersKeepLabels ==
  ASSUME SessionsPrivate, IInv, NEW r \in Requests, Quiet(r),
         NEW q \in Requests \ {r}, pc[q] \in Deciding
  PROVE  labels[Key(q)] \subseteq labels'[Key(q)]
  <1> SUFFICES ASSUME pc[r] = "rollback", Key(q) = Key(r)
               PROVE  FALSE
    BY Shapes DEF Quiet, IInv
  <1>1. call[r].task = NoTask
    BY DEF IInv, Sound, Stage
  <1>2. call[q].instance = call[r].instance
    BY <1>1, SameInstance DEF IInv
  <1> QED BY <1>2 DEF IInv, OneTurn, Deciding

LEMMA ForwardedKeepLabels ==
  ASSUME SessionsPrivate, IInv, NEW r \in Requests, Quiet(r),
         NEW q \in Requests \ {r}, pc[q] = "forwarded", q \notin ended
  PROVE  call[q].out \subseteq labels'[Key(q)]
  <1>1. call[q].out \subseteq labels[Key(q)]
    BY DEF IInv, Sound, Written, Recorded
  <1> SUFFICES ASSUME pc[r] = "rollback", Key(q) = Key(r),
                      labels[Key(r)] \ labelsAdded(r) \subseteq labels'[Key(r)]
               PROVE  call[q].out \subseteq labels'[Key(q)]
    BY <1>1, Shapes DEF Quiet, IInv
  <1>2. CASE call[r].out = {}
    BY <1>1, <1>2 DEF labelsAdded
  <1>3. CASE call[r].out # {}
    <2>1. call[r].task = NoTask /\ ConstraintHasFlow(call[r]) /\ pc[r] \in Peeked
      BY <1>3 DEF IInv, Sound, Stage, ConstraintHasFlow, Peeked
    <2>2. call[q].out \subseteq carried[r]
      BY <2>1 DEF IInv, Sound, Snapshot
    <2> QED BY <1>1, <2>2 DEF labelsAdded
  <1> QED BY <1>2, <1>3

LEMMA StepKeepsOthers ==
  ASSUME SessionsPrivate, IInv, NEW r \in Requests, Quiet(r), NEW q \in Requests \ {r}
  PROVE  Sound(q)'
  <1>1. /\ pc'[q] = pc[q] /\ call'[q] = call[q] /\ Key(q)' = Key(q)
        /\ carried'[q] = carried[q] /\ due'[q] = due[q] /\ (q \in observing' <=> q \in observing)
        /\ ended' = ended /\ call' = call
    BY DEF Quiet, IInv, TypeOK, Key
  <1>2. history[Key(q)] \subseteq history'[Key(q)]
    BY Shapes DEF Quiet, IInv
  <1>3. Sound(q)
    BY DEF IInv
  <1>4. Stage(q)'
    BY <1>1, <1>3 DEF Sound, Stage
  <1>5. Written(q)'
    <2>1. pc[q] \in {"alias", "name"} => call[q].out \subseteq labels'[Key(q)]
      BY <1>3, DecidersKeepLabels DEF Sound, Written, Deciding
    <2>2. pc[q] = "name" => call[q].alias \subseteq history'[Key(q)]
      BY <1>2, <1>3 DEF Sound, Written
    <2>3. pc[q] = "forwarded" => call[q].alias \cup call[q].name \subseteq history'[Key(q)]
      BY <1>2, <1>3 DEF Sound, Written, Recorded
    <2>4. pc[q] = "forwarded" /\ q \notin ended => call[q].out \subseteq labels'[Key(q)]
      BY ForwardedKeepLabels
    <2> QED BY <1>1, <2>1, <2>2, <2>3, <2>4 DEF Written, Recorded
  <1>6. Snapshot(q)'
    <2> SUFFICES ASSUME pc[q] \in Peeked, call[q].task = NoTask, ConstraintHasFlow(call[q]),
                        NEW p \in Requests \ ended, pc'[p] = "forwarded", Key(p) = Key(q)
                 PROVE  call[p].out \subseteq carried[q]
      BY <1>1 DEF Snapshot, Key
    <2>1. CASE pc[p] = "forwarded"
      BY <2>1, <1>3 DEF Sound, Snapshot
    <2>2. CASE pc[p] # "forwarded"
      <3>1. p = r
        BY <2>2 DEF Quiet, IInv, TypeOK
      <3>2. call[r].instance = call[q].instance
        BY <3>1, SameInstance DEF IInv
      <3>3. pc[r] \in Deciding \/ TurnFree(r)
        BY DEF Quiet, IInv, TypeOK, Closed
      <3> QED BY <3>1, <3>2, <3>3 DEF IInv, OneTurn, TurnFree, Peeked, Deciding
    <2> QED BY <2>1, <2>2
  <1>7. FlowInformed(q)'
    <2>1. pc[q] = "peek" => labels[Key(q)] \subseteq labels'[Key(q)]
      BY DecidersKeepLabels DEF Deciding
    <2> QED BY <2>1, <1>1, <1>3 DEF Sound, FlowInformed
  <1>8. SequenceInformed(q)'
    BY <1>1, <1>2, <1>3 DEF Sound, SequenceInformed
  <1> QED BY <1>4, <1>5, <1>6, <1>7, <1>8 DEF Sound

-------------------------------------------------------------------------------
(***************************************************************************)
(* A step of request r keeps what the invariant says of r itself.  First   *)
(* the shape every target of a step has: r's own next position.            *)
(***************************************************************************)

\* A request that ends without being forwarded promises nothing.
LEMMA ClosedIsSound ==
  ASSUME TypeOK, NEW r \in Requests, pc'[r] \in {"denied", "faulted", "undone"}
  PROVE  Sound(r)'
  BY DEF Sound, Stage, Written, Snapshot, FlowInformed, SequenceInformed, Peeked, Passed

(***************************************************************************)
(* Entering the record of a source: whoever enters it has an up-to-date    *)
(* snapshot if the call has flow, and has passed or bypassed the checks.   *)
(***************************************************************************)
LEMMA CommitIsSound ==
  ASSUME TypeOK, NEW r \in Requests, pc'[r] = recordSourceCall(call[r]),
         call' = call, ended' = ended,
         \A p \in Requests \ {r} : pc'[p] = pc[p],
         pc[r] # "forwarded",
         call[r].task = NoTask /\ ConstraintHasFlow(call[r]) =>
           \A p \in Requests \ ended :
             pc[p] = "forwarded" /\ Key(p) = Key(r) => call[p].out \subseteq carried'[r],
         r \notin observing' =>
           /\ call[r].sink => due'[r].labels \subseteq call[r].allow
           /\ due'[r].names \cap call[r].after = {}
  PROVE  Sound(r)'
  <1>1. call[r] \in Calls
    BY Shapes
  <1>2. pc'[r] \in {"denied", "label", "alias", "name", "forwarded"}
    BY <1>1, NextSteps
  <1>3. /\ pc'[r] \in {"alias", "name", "forwarded"} => call[r].out = {}
        /\ pc'[r] \in {"name", "forwarded"} => call[r].alias = {}
        /\ pc'[r] = "forwarded" => call[r].name = {}
    BY <1>1, NextSteps
  <1>4. Key(r)' = Key(r)
    BY DEF Key
  <1>5. Stage(r)'
    BY <1>2 DEF Stage
  <1>6. Written(r)'
    BY <1>3, <1>4 DEF Written, Recorded
  <1>7. Snapshot(r)'
    <2> SUFFICES ASSUME pc'[r] \in Peeked, call[r].task = NoTask, ConstraintHasFlow(call[r]),
                        NEW p \in Requests \ ended, pc'[p] = "forwarded", Key(p) = Key(r)
                 PROVE  call[p].out \subseteq carried'[r]
      BY DEF Snapshot, Key
    <2>1. p # r
      BY DEF Peeked
    <2> QED BY <2>1
  <1>8. FlowInformed(r)'
    BY <1>2 DEF FlowInformed, Passed
  <1>9. SequenceInformed(r)'
    BY <1>2 DEF SequenceInformed, Passed
  <1> QED BY <1>5, <1>6, <1>7, <1>8, <1>9 DEF Sound

\* Taking the turn: everything due is on record.
LEMMA DueIsOnRecord ==
  ASSUME IInv, NEW r \in Requests, TakeTurn(r)
  PROVE  /\ due'[r].labels \subseteq labels[Key(r)]
         /\ due'[r].names \subseteq history[Key(r)]
  <1> DEFINE L == UNION {call[q].out : q \in Forwarded(Key(r)) \ ended}
             N == UNION {call[q].alias \cup call[q].name : q \in Forwarded(Key(r))}
  <1>1. due'[r] = [labels |-> L, names |-> N]
    BY DEF TakeTurn, IInv, TypeOK
  <1>2. \A q \in Forwarded(Key(r)) : Recorded(q) /\ Key(q) = Key(r)
    BY DEF Forwarded, IInv, Sound, Written
  <1>3. L \subseteq labels[Key(r)]
    BY <1>2 DEF Recorded
  <1>4. N \subseteq history[Key(r)]
    BY <1>2 DEF Recorded
  <1> HIDE DEF L, N
  <1> QED BY <1>1, <1>3, <1>4

\* A downgraded refusal: blocked, peeked again, or recorded under its snapshot.
LEMMA DowngradeIsSound ==
  ASSUME IInv, NEW r \in Requests, Downgrade(r), call' = call, ended' = ended,
         carried' = carried, pc[r] \notin Closed,
         \/ carried[r] = {}
         \/ pc[r] \in Peeked
  PROVE  Sound(r)'
  <1>1. call[r] \in Calls /\ TypeOK
    BY Shapes DEF IInv
  <1>2. /\ pc'[r] = recordAuditModeAntecedent(call[r], carried[r]) /\ r \in observing'
        /\ \A p \in Requests \ {r} : pc'[p] = pc[p]
    BY DEF Downgrade, Goto, IInv, TypeOK
  <1>3. CASE pc'[r] = "denied"
    BY <1>1, <1>3, ClosedIsSound
  <1>4. CASE pc'[r] = "repeek"
    BY <1>2, <1>4 DEF Sound, Stage, Written, Snapshot, FlowInformed, SequenceInformed, Peeked, Passed
  <1>5. CASE pc'[r] = recordSourceCall(call[r]) /\ (ConstraintHasFlow(call[r]) => carried[r] # {})
    <2>1. call[r].task = NoTask /\ ConstraintHasFlow(call[r]) =>
            \A p \in Requests \ ended :
              pc[p] = "forwarded" /\ Key(p) = Key(r) => call[p].out \subseteq carried'[r]
      BY <1>5 DEF IInv, Sound, Snapshot
    <2> QED BY <1>1, <1>2, <1>5, <2>1, CommitIsSound DEF Closed
  <1> QED BY <1>1, <1>2, <1>3, <1>4, <1>5, RefusalRoutes

LEMMA TurnIsSound ==
  ASSUME IInv, NEW r \in Requests,
         Bar(r) \/ RefuseUnmatched(r) \/ EvaluateConditions(r)
  PROVE  Sound(r)'
  <1>1. TakeTurn(r) /\ TypeOK /\ Stage(r) /\ pc[r] = "waiting"
    BY DEF Bar, RefuseUnmatched, EvaluateConditions, TakeTurn, IInv, Sound
  <1>2. carried[r] = {} /\ r \notin observing /\ call' = call /\ ended' = ended /\ carried' = carried
          /\ labels' = labels /\ history' = history
    BY <1>1 DEF Stage, TakeTurn, storeVars
  <1>3. CASE Bar(r)
    BY <1>1, <1>3, ClosedIsSound DEF Bar, Goto, TypeOK
  <1>4. CASE RefuseUnmatched(r)
    BY <1>1, <1>2, <1>4, DowngradeIsSound DEF RefuseUnmatched, Closed
  <1>5. CASE EvaluateConditions(r)
    <2>1. /\ r \notin observing' /\ call[r].matched /\ Key(r)' = Key(r)
          /\ \/ pc'[r] \in {"denied", "peek"}
             \/ pc'[r] = "judge" /\ ~ConstraintHasFlow(call[r])
      BY <1>1, <1>2, <1>5 DEF EvaluateConditions, Goto, TypeOK, Key
    <2>2. CASE pc'[r] = "denied"
      BY <1>1, <2>2, ClosedIsSound
    <2>3. CASE pc'[r] = "peek"
      BY <1>1, <1>2, <2>1, <2>3, DueIsOnRecord
         DEF Sound, Stage, Written, Snapshot, FlowInformed, SequenceInformed, Peeked, Passed
    <2>4. CASE pc'[r] = "judge" /\ ~ConstraintHasFlow(call[r])
      <3>1. ~call[r].sink /\ ~ConstraintHasFlow(call'[r])
        BY <1>2, <2>1, <2>4 DEF ConstraintHasFlow
      <3> QED BY <1>1, <1>2, <2>1, <2>4, <3>1, DueIsOnRecord
              DEF Sound, Stage, Written, Snapshot, FlowInformed, SequenceInformed, Passed
    <2> QED BY <2>1, <2>2, <2>3, <2>4
  <1> QED BY <1>3, <1>4, <1>5

LEMMA PeekIsSound ==
  ASSUME IInv, NEW r \in Requests, peekSessionLabels(r) \/ PeekForForward(r)
  PROVE  Sound(r)'
  <1>1. /\ TypeOK /\ Sound(r) /\ call' = call /\ ended' = ended /\ labels' = labels
        /\ history' = history /\ due' = due /\ observing' = observing /\ Key(r)' = Key(r)
        /\ pc[r] # "forwarded" /\ \A p \in Requests \ {r} : pc'[p] = pc[p]
    BY DEF peekSessionLabels, PeekForForward, Goto, storeVars, IInv, TypeOK, Key
  <1>2. CASE pc'[r] = "faulted"
    BY <1>1, <1>2, ClosedIsSound
  <1>3. CASE carried'[r] = labels[Key(r)] /\ pc'[r] # "faulted"
    <2>1. \A p \in Requests \ ended :
            pc[p] = "forwarded" /\ Key(p) = Key(r) => call[p].out \subseteq carried'[r]
      BY <1>3 DEF IInv, Sound, Written, Recorded
    <2>2. CASE PeekForForward(r)
      <3>1. pc'[r] = recordSourceCall(call[r]) /\ r \in observing'
        BY <1>1, <1>3, <2>2 DEF PeekForForward, Goto, TypeOK, Sound, Stage
      <3> QED BY <1>1, <2>1, <3>1, CommitIsSound
    <2>3. CASE peekSessionLabels(r)
      <3>1. pc[r] = "peek" /\ pc'[r] = "judge"
        BY <1>1, <1>3, <2>3 DEF peekSessionLabels, Goto, TypeOK
      <3>2. Snapshot(r)'
        <4> SUFFICES ASSUME NEW p \in Requests \ ended, pc'[p] = "forwarded", Key(p) = Key(r)
                     PROVE  call[p].out \subseteq carried'[r]
          BY <1>1 DEF Snapshot, Key
        <4>1. p # r
          BY <3>1
        <4> QED BY <1>1, <2>1, <4>1
      <3>3. Stage(r)' /\ Written(r)' /\ FlowInformed(r)' /\ SequenceInformed(r)'
        BY <1>1, <1>3, <3>1 DEF Sound, Stage, Written, FlowInformed, SequenceInformed, Passed
      <3> QED BY <3>2, <3>3 DEF Sound
    <2> QED BY <2>2, <2>3
  <1> QED BY <1>1, <1>2, <1>3 DEF peekSessionLabels, PeekForForward, Goto, TypeOK

LEMMA VerdictIsSound ==
  ASSUME IInv, NEW r \in Requests, runPureConditions(r) \/ commitDeferredConditions(r)
  PROVE  Sound(r)'
  <1>1. /\ TypeOK /\ Sound(r) /\ call' = call /\ ended' = ended /\ labels' = labels
        /\ history' = history /\ due' = due /\ carried' = carried /\ Key(r)' = Key(r)
        /\ pc[r] \in {"judge", "admit"} /\ call[r] \in Calls
    BY Shapes DEF runPureConditions, commitDeferredConditions, storeVars, IInv, Key
  <1>2. call[r].matched /\ r \notin observing
    BY <1>1 DEF Sound, Stage
  <1>3. CASE Downgrade(r)
    BY <1>1, <1>3, DowngradeIsSound DEF Peeked, Closed
  <1>4. CASE Goto(r, "faulted")
    BY <1>1, <1>4, ClosedIsSound DEF Goto, TypeOK
  <1>5. ASSUME observing' = observing, \E step : Goto(r, step) /\
                 (step \in {"denied", "admit"} \/ step = recordSourceCall(call[r])),
               call[r].sink => due[r].labels \subseteq call[r].allow,
               due[r].names \cap call[r].after = {}
        PROVE  Sound(r)'
    <2>1. \A p \in Requests \ {r} : pc'[p] = pc[p]
      BY <1>1, <1>5 DEF Goto, TypeOK
    <2>2. call[r].task = NoTask /\ ConstraintHasFlow(call[r]) =>
            \A p \in Requests \ ended :
              pc[p] = "forwarded" /\ Key(p) = Key(r) => call[p].out \subseteq carried'[r]
      BY <1>1 DEF Sound, Snapshot, Peeked
    <2>3. CASE pc'[r] = "denied"
      BY <1>1, <2>3, ClosedIsSound
    <2>4. CASE pc'[r] = "admit"
      <3>1. Snapshot(r)'
        <4> SUFFICES ASSUME call[r].task = NoTask, ConstraintHasFlow(call[r]),
                            NEW p \in Requests \ ended, pc'[p] = "forwarded", Key(p) = Key(r)
                     PROVE  call[p].out \subseteq carried'[r]
          BY <1>1 DEF Snapshot, Key
        <4>1. p # r
          BY <2>4
        <4> QED BY <2>1, <2>2, <4>1
      <3>2. Stage(r)' /\ Written(r)' /\ FlowInformed(r)' /\ SequenceInformed(r)'
        BY <1>1, <1>2, <1>5, <2>4 DEF Stage, Written, FlowInformed, SequenceInformed, Passed
      <3> QED BY <3>1, <3>2 DEF Sound
    <2>5. CASE pc'[r] = recordSourceCall(call[r])
      BY <1>1, <1>5, <2>1, <2>2, <2>5, CommitIsSound
    <2> QED BY <1>1, <1>5, <2>3, <2>4, <2>5 DEF Goto, TypeOK
  <1>6. CASE runPureConditions(r)
    <2>1. CASE ConditionsPass(r) /\ Goto(r, AfterCeiling(call[r])) /\ observing' = observing
      <3>1. pc[r] = "judge"
        BY <1>6 DEF runPureConditions
      <3>2. call[r].sink => due[r].labels \subseteq call[r].allow
        BY <1>1, <2>1, <3>1 DEF Sound, FlowInformed, ConditionsPass, FlowLabelHolds
      <3>3. due[r].names \cap call[r].after = {}
        BY <1>1, <2>1, <3>1 DEF Sound, SequenceInformed, ConditionsPass, SequenceBlockHolds
      <3> QED BY <1>1, <1>5, <2>1, <3>2, <3>3, CeilingRoutes
    <2> QED BY <1>3, <1>4, <1>6, <2>1 DEF runPureConditions
  <1>7. CASE commitDeferredConditions(r)
    <2>1. CASE Goto(r, recordSourceCall(call[r])) /\ observing' = observing
      <3>1. pc[r] = "admit"
        BY <1>7 DEF commitDeferredConditions
      <3>2. (call[r].sink => due[r].labels \subseteq call[r].allow)
              /\ due[r].names \cap call[r].after = {}
        BY <1>1, <1>2, <3>1 DEF Sound, FlowInformed, SequenceInformed, Passed
      <3> QED BY <1>5, <2>1, <3>2
    <2> QED BY <1>3, <1>4, <1>7, <2>1 DEF commitDeferredConditions
  <1> QED BY <1>6, <1>7

LEMMA RecordIsSound ==
  ASSUME IInv, NEW r \in Requests,
         recordLabels(r) \/ RecordAlias(r) \/ RecordSessionCall(r) \/ rollbackLabels(r)
  PROVE  Sound(r)'
  <1>1. /\ TypeOK /\ Sound(r) /\ call' = call /\ ended' = ended /\ due' = due
        /\ carried' = carried /\ observing' = observing /\ Key(r)' = Key(r)
        /\ pc[r] \in {"label", "alias", "name", "rollback"}
        /\ call[r] \in Calls /\ Key(r) \in Anchors
    BY Shapes DEF recordLabels, RecordAlias, RecordSessionCall, rollbackLabels, IInv, Key
  <1>2. \A p \in Requests \ {r} : pc'[p] = pc[p]
    BY <1>1 DEF recordLabels, RecordAlias, RecordSessionCall, rollbackLabels, Goto, TypeOK
  <1>3. /\ pc'[r] \in {"alias", "name", "forwarded", "rollback", "faulted", "undone"}
        /\ pc'[r] = "rollback" => call[r].task = NoTask
    BY <1>1, NextSteps DEF recordLabels, RecordAlias, RecordSessionCall, rollbackLabels, Goto,
       AfterFailedMarker, TypeOK
  <1>4. CASE pc'[r] \in {"faulted", "undone"}
    BY <1>1, <1>4, ClosedIsSound
  <1>5. CASE pc'[r] \in {"alias", "name", "forwarded", "rollback"}
    <2>1. Stage(r)'
      BY <1>1, <1>3, <1>5 DEF Stage
    <2>2. Snapshot(r)'
      <3> SUFFICES ASSUME pc'[r] \in Peeked, call[r].task = NoTask, ConstraintHasFlow(call[r]),
                          NEW p \in Requests \ ended, pc'[p] = "forwarded", Key(p) = Key(r)
                   PROVE  call[p].out \subseteq carried[r]
        BY <1>1 DEF Snapshot, Key
      <3>1. p # r
        BY DEF Peeked
      <3> QED BY <1>1, <1>2, <3>1 DEF Sound, Snapshot, Peeked
    <2>3. FlowInformed(r)' /\ SequenceInformed(r)'
      BY <1>1, <1>5 DEF Sound, FlowInformed, SequenceInformed, Passed
    <2>4. Written(r)'
      <3>1. CASE recordLabels(r)
        <4>1. labels'[Key(r)] = labels[Key(r)] \cup call[r].out /\ history' = history
                /\ pc'[r] = recordAntecedentIn(call[r])
          BY <1>1, <1>5, <3>1 DEF recordLabels, AddLabels, Goto, TypeOK
        <4> QED BY <1>1, <4>1, NextSteps DEF Written, Recorded
      <3>2. CASE RecordAlias(r)
        BY <1>1, <1>5, <3>2 DEF RecordAlias, Mark, Goto, AfterFailedMarker, Sound, Written, TypeOK
      <3>3. CASE RecordSessionCall(r)
        BY <1>1, <1>5, <3>3
           DEF RecordSessionCall, Mark, Goto, AfterFailedMarker, Sound, Written, Recorded, TypeOK
      <3>4. CASE rollbackLabels(r)
        BY <1>1, <1>5, <3>4 DEF rollbackLabels, Goto, TypeOK
      <3> QED BY <3>1, <3>2, <3>3, <3>4
    <2> QED BY <2>1, <2>2, <2>3, <2>4 DEF Sound
  <1> QED BY <1>3, <1>4, <1>5

LEMMA StepKeepsSelf ==
  ASSUME IInv, NEW r \in Requests, Step(r)
  PROVE  Sound(r)'
  BY TurnIsSound, PeekIsSound, VerdictIsSound, RecordIsSound DEF Step

-------------------------------------------------------------------------------
\* A teardown clears a session's key and only when no decision reads it.
LEMMA ClearTypes ==
  ASSUME TypeOK, NEW i \in Instances, NEW s \in Sessions, ClearSessionLabels(i, s)
  PROVE  TypeOK'
  <1>1. labels' \in [Anchors -> SUBSET Labels]
    BY DEF ClearSessionLabels, Clear, TypeOK, Anchors
  <1>2. ends' \in 0..MaxEnds
    BY CallAssumption DEF ClearSessionLabels, TypeOK
  <1> QED BY <1>1, <1>2 DEF ClearSessionLabels, TypeOK, Forwarded

LEMMA ClearKeepsSound ==
  ASSUME SessionsPrivate, IInv, NEW i \in Instances, NEW s \in Sessions,
         ClearSessionLabels(i, s), NEW q \in Requests
  PROVE  Sound(q)'
  <1>1. /\ TypeOK /\ Sound(q) /\ call' = call /\ pc' = pc /\ carried' = carried /\ due' = due
        /\ observing' = observing /\ history' = history /\ Key(q)' = Key(q)
        /\ ended' = ended \cup {r \in Forwarded(s) : call[r].instance = i}
        /\ Key(q) \in Anchors
    BY Shapes DEF ClearSessionLabels, IInv, Key
  <1>2. Key(q) # s => labels'[Key(q)] = labels[Key(q)]
    BY <1>1 DEF ClearSessionLabels, Clear, TypeOK, Anchors
  <1>3. Key(q) = s => call[q].instance = i /\ call[q].session = s
    <2> SUFFICES ASSUME Key(q) = s
                 PROVE  call[q].instance = i /\ call[q].session = s
      OBVIOUS
    <2>1. call[q].task = NoTask /\ call[q].session = s /\ call[q] \in Calls
      BY <1>1, Shapes, CallAssumption
    <2>2. PICK c \in Calls : c.instance = i /\ c.session = s
      BY DEF ClearSessionLabels
    <2> QED BY <2>1, <2>2 DEF SessionsPrivate
  <1>4. pc[q] \in Deciding => labels'[Key(q)] = labels[Key(q)]
    BY <1>2, <1>3 DEF ClearSessionLabels
  <1>5. pc[q] = "forwarded" /\ q \notin ended' => labels'[Key(q)] = labels[Key(q)]
    BY <1>1, <1>2, <1>3 DEF Forwarded
  <1>6. Written(q)'
    BY <1>1, <1>4, <1>5 DEF Sound, Written, Recorded, Deciding
  <1>7. Snapshot(q)'
    BY <1>1 DEF Sound, Snapshot, Key
  <1>8. FlowInformed(q)'
    BY <1>1, <1>4 DEF Sound, FlowInformed, Deciding
  <1>9. Stage(q)' /\ SequenceInformed(q)'
    BY <1>1 DEF Sound, Stage, SequenceInformed
  <1> QED BY <1>6, <1>7, <1>8, <1>9 DEF Sound

-------------------------------------------------------------------------------
LEMMA InitTypes ==
  ASSUME Init
  PROVE  TypeOK
  BY CallAssumption DEF Init, TypeOK, Closed, Deciding

LEMMA InitSound ==
  ASSUME Init
  PROVE  IInv
  <1>1. TypeOK
    BY InitTypes
  <1>2. \A q \in Requests : pc[q] = "waiting" /\ carried[q] = {} /\ q \notin observing
    BY DEF Init
  <1>3. OneTurn
    BY <1>2 DEF OneTurn, Deciding
  <1>4. \A q \in Requests : Sound(q)
    BY <1>2 DEF Sound, Stage, Written, Snapshot, FlowInformed, SequenceInformed, Peeked, Passed
  <1> QED BY <1>1, <1>3, <1>4 DEF IInv

LEMMA NextSound ==
  ASSUME SessionsPrivate, IInv, [Next]_vars
  PROVE  IInv'
  <1>1. CASE \E r \in Requests : Step(r)
    <2>1. PICK r \in Requests : Step(r)
      BY <1>1
    <2>2. Quiet(r) /\ TypeOK'
      BY <2>1, Quietness, StepTypes DEF IInv
    <2>3. OneTurn'
      BY <2>2, StepKeepsTurn DEF IInv
    <2>4. \A q \in Requests : Sound(q)'
      BY <2>1, <2>2, StepKeepsOthers, StepKeepsSelf
    <2> QED BY <2>2, <2>3, <2>4 DEF IInv
  <1>2. CASE \E i \in Instances, s \in Sessions : ClearSessionLabels(i, s)
    <2>1. PICK i \in Instances, s \in Sessions : ClearSessionLabels(i, s)
      BY <1>2
    <2>2. OneTurn'
      BY <2>1 DEF ClearSessionLabels, IInv, OneTurn, Key
    <2> QED BY <2>1, <2>2, ClearTypes, ClearKeepsSound DEF IInv
  <1>3. CASE UNCHANGED vars
    <2>1. TypeOK' /\ OneTurn'
      BY <1>3 DEF IInv, vars, TypeOK, OneTurn, Key
    <2>2. ASSUME NEW q \in Requests PROVE Sound(q)'
      <3>1. Sound(q) /\ Key(q)' = Key(q)
        BY <1>3 DEF IInv, vars, Key
      <3>2. Snapshot(q)'
        BY <1>3, <3>1 DEF Sound, Snapshot, vars, Key
      <3> QED BY <1>3, <3>1, <3>2
              DEF Sound, Stage, Written, Recorded, FlowInformed, SequenceInformed, vars
    <2> QED BY <2>1, <2>2 DEF IInv
  <1> QED BY <1>1, <1>2, <1>3 DEF Next, Finished

(***************************************************************************)
(* The state of the stores and of every decision stays well-typed, and no  *)
(* bucket is charged past its limit, whatever the calls and the faults     *)
(* (commitDeferredConditions, recordSourceCall, ClearSessionLabels).       *)
(***************************************************************************)
THEOREM TypeCorrect == Spec => []TypeOK
  <1>1. Init => TypeOK
    BY InitTypes
  <1>2. TypeOK /\ [Next]_vars => TypeOK'
    <2> SUFFICES ASSUME TypeOK, [Next]_vars
                 PROVE  TypeOK'
      OBVIOUS
    <2>1. CASE UNCHANGED vars
      BY <2>1 DEF vars, TypeOK
    <2> QED BY <2>1, StepTypes, ClearTypes DEF Next, Finished
  <1> QED BY <1>1, <1>2, PTL DEF Spec

LEMMA Inductive ==
  ASSUME SessionsPrivate
  PROVE  Spec => []IInv
  <1>1. Init => IInv
    BY InitSound
  <1>2. IInv /\ [Next]_vars => IInv'
    BY NextSound
  <1> QED BY <1>1, <1>2, PTL DEF Spec

(***************************************************************************)
(* While every session key belongs to one instance, a forwarded call stays *)
(* on record, whichever requests fail, roll back, are observed or end      *)
(* meanwhile (recordSourceCall, rollbackLabels, recordAuditModeAntecedent). *)
(***************************************************************************)
THEOREM ForwardedStaysOnRecord ==
  ASSUME SessionsPrivate
  PROVE  Spec => []ForwardedIsOnRecord
  <1>1. IInv => ForwardedIsOnRecord
    BY DEF IInv, Sound, Written, ForwardedIsOnRecord
  <1> QED BY <1>1, Inductive, PTL

(***************************************************************************)
(* While every session key belongs to one instance, no sink is allowed     *)
(* past the labels of an earlier forwarded source of its anchor, for any   *)
(* number of instances that share a task (handleFlowLabel).                *)
(***************************************************************************)
THEOREM NoSinkMissesTaint ==
  ASSUME SessionsPrivate
  PROVE  Spec => []SinkSeesEarlierTaint
  <1>1. IInv => SinkSeesEarlierTaint
    BY DEF IInv, Sound, FlowInformed, SinkSeesEarlierTaint, Allowed, Passed
  <1> QED BY <1>1, Inductive, PTL

(***************************************************************************)
(* No call is allowed after a target it must not follow was forwarded on   *)
(* its anchor (handleSequenceBlock, RecordSessionCall).                    *)
(***************************************************************************)
THEOREM SequenceGateNeverMisses ==
  ASSUME SessionsPrivate
  PROVE  Spec => []SequenceGateHolds
  <1>1. IInv => SequenceGateHolds
    BY DEF IInv, Sound, SequenceInformed, SequenceGateHolds, Allowed, Passed
  <1> QED BY <1>1, Inductive, PTL

-------------------------------------------------------------------------------
(***************************************************************************)
(* The state the requests share.  The second invariant says of each key    *)
(* whose labels and markers it holds, of each bucket which calls may have  *)
(* paid into it, and of a decision in progress that a label it has seen    *)
(* has an origin of its own, so that a rollback which leaves that label in *)
(* the store leaves it in somebody's name.                                 *)
(***************************************************************************)
Settled == {"label", "alias", "name", "rollback", "forwarded", "undone"}

PaysQuota(q) == call[q].quota /\ call[q].observe # "route" /\ q \notin observing
Paid(a) == {q \in Payers(a) : pc[q] \in Settled}
MayHavePaid(a) == {q \in Payers(a) : pc[q] \in Settled \cup {"faulted"}}

Ready(q) ==
  /\ pc[q] \in {"peek", "judge", "admit"} => ~call[q].anchorless
  /\ pc[q] = "admit" => call[q].quota /\ call[q].observe # "route"

Origins(q) ==
  pc[q] \in Peeked /\ call[q].task = NoTask =>
    \A l \in carried[q] : \E p \in Requests \ {q} :
      Key(p) = Key(q) /\ l \in call[p].out /\ pc[p] \in {"forwarded", "faulted"}

Started == {q \in Requests : pc[q] # "waiting"}

LabelsHaveOwners ==
  \A a \in Anchors : \A l \in labels[a] : \E q \in Requests :
    /\ Key(q) = a /\ l \in call[q].out
    /\ pc[q] \in {"alias", "name", "rollback", "forwarded", "faulted"}

MarksHaveOwners ==
  \A a \in Anchors : \A n \in history[a] : \E q \in Requests :
    /\ Key(q) = a /\ n \in call[q].alias \cup call[q].name
    /\ pc[q] \in {"name", "rollback", "forwarded", "faulted", "undone"}

BucketsAddUp ==
  \A a \in Anchors : used[a] <= Cardinality(MayHavePaid(a)) /\ Cardinality(Paid(a)) <= used[a]

Ledger ==
  /\ IsFiniteSet(Started)
  /\ LabelsHaveOwners /\ MarksHaveOwners /\ BucketsAddUp
  /\ \A q \in Requests : Ready(q) /\ Origins(q)

LIInv == IInv /\ Ledger

\* A decision that nothing refused has somewhere to go on to.
LEMMA AdmittedGoesOn ==
  ASSUME NEW c \in Calls, ~c.anchorless
  PROVE  recordSourceCall(c) \in {"label", "alias", "name", "forwarded"}
  BY DEF recordSourceCall, recordAntecedentIn

(***************************************************************************)
(* A step pays only for a call that had not paid and is not refused; no    *)
(* step makes a call look as if it had paid without paying.                *)
(***************************************************************************)
Charge(r) ==
  LET may == PaysQuota(r) /\ pc[r] \in Settled \cup {"faulted"}
      has == PaysQuota(r) /\ pc[r] \in Settled
  IN  \/ used' = used /\ (may => may') /\ (has' => has)
      \/ used' = [used EXCEPT ![Key(r)] = @ + 1] /\ ~may /\ may'

LEMMA StepCharges ==
  ASSUME IInv, NEW r \in Requests, Ready(r), Step(r)
  PROVE  Charge(r)
  <1> USE DEF Charge, PaysQuota, Settled
  <1>1. /\ TypeOK /\ call' = call /\ call[r] \in Calls /\ Key(r) \in Anchors
        /\ (pc[r] \in {"peek", "judge", "admit"} => r \notin observing)
        /\ (pc[r] = "repeek" => r \in observing)
    BY Shapes, Quietness DEF Quiet, IInv, Sound, Stage
  <1>2. ASSUME Downgrade(r), used' = used, pc[r] \in {"waiting", "judge", "admit"}
        PROVE  Charge(r)
    <2>1. r \in observing'
      BY <1>2 DEF Downgrade
    <2> QED BY <1>1, <1>2, <2>1
  <1>3. CASE Bar(r)
    BY <1>1, <1>3 DEF Bar, TakeTurn, Goto, storeVars, TypeOK
  <1>4. CASE RefuseUnmatched(r)
    BY <1>2, <1>4 DEF RefuseUnmatched, TakeTurn, storeVars
  <1>5. CASE EvaluateConditions(r)
    BY <1>1, <1>5 DEF EvaluateConditions, TakeTurn, Goto, storeVars, TypeOK
  <1>6. CASE peekSessionLabels(r)
    BY <1>1, <1>6 DEF peekSessionLabels, Goto, storeVars, TypeOK
  <1>7. CASE runPureConditions(r)
    <2>1. pc[r] = "judge" /\ used' = used
      BY <1>7 DEF runPureConditions, storeVars
    <2>2. CASE Goto(r, AfterCeiling(call[r])) /\ observing' = observing
      <3>1. pc'[r] = AfterCeiling(call[r])
        BY <1>1, <2>2 DEF Goto, TypeOK
      <3>2. CASE AfterCeiling(call[r]) \in {"denied", "admit"}
        BY <2>1, <3>1, <3>2
      <3>3. CASE AfterCeiling(call[r]) \notin {"denied", "admit"}
        <4>1. ~(call[r].quota /\ call[r].observe # "route")
          BY <3>3 DEF AfterCeiling
        <4> QED BY <1>1, <2>1, <4>1
      <3> QED BY <3>2, <3>3
    <2>3. CASE Goto(r, "faulted") /\ observing' = observing
      BY <1>1, <2>1, <2>3 DEF Goto, TypeOK
    <2> QED BY <1>2, <1>7, <2>1, <2>2, <2>3 DEF runPureConditions
  <1>8. CASE commitDeferredConditions(r)
    <2>1. /\ pc[r] = "admit" /\ call[r].quota /\ call[r].observe # "route" /\ ~call[r].anchorless
          /\ r \notin observing
      BY <1>1, <1>8 DEF commitDeferredConditions, Ready
    <2>2. CASE Spend(r) /\ Goto(r, recordSourceCall(call[r])) /\ observing' = observing
      <3>1. pc'[r] \in {"label", "alias", "name", "forwarded"}
        BY <1>1, <2>1, <2>2, AdmittedGoesOn DEF Goto, TypeOK
      <3> QED BY <1>1, <2>1, <2>2, <3>1 DEF Spend
    <2>3. CASE (used' = used \/ Spend(r)) /\ Goto(r, "faulted") /\ observing' = observing
      BY <1>1, <2>1, <2>3 DEF Spend, Goto, TypeOK
    <2> QED BY <1>2, <1>8, <2>1, <2>2, <2>3 DEF commitDeferredConditions
  <1>9. CASE PeekForForward(r)
    BY <1>1, <1>9 DEF PeekForForward, Goto, storeVars, TypeOK
  <1>10. CASE recordLabels(r)
    BY <1>1, <1>10, NextSteps DEF recordLabels, Goto, TypeOK
  <1>11. CASE RecordAlias(r)
    BY <1>1, <1>11 DEF RecordAlias, AfterFailedMarker, Goto, TypeOK
  <1>12. CASE RecordSessionCall(r)
    BY <1>1, <1>12 DEF RecordSessionCall, AfterFailedMarker, Goto, TypeOK
  <1>13. CASE rollbackLabels(r)
    BY <1>1, <1>13 DEF rollbackLabels, Goto, TypeOK
  <1> QED BY <1>3, <1>4, <1>5, <1>6, <1>7, <1>8, <1>9, <1>10, <1>11, <1>12, <1>13 DEF Step

\* Counting one request in or out of a finite set moves its size by at most one.
LEMMA OneMember ==
  ASSUME NEW S, NEW T, NEW r, IsFiniteSet(S), \A x : x # r => (x \in S <=> x \in T)
  PROVE  /\ IsFiniteSet(T) /\ Cardinality(S) \in Nat /\ Cardinality(T) \in Nat
         /\ r \in T /\ r \notin S => Cardinality(T) = Cardinality(S) + 1
         /\ (r \in S <=> r \in T) => Cardinality(T) = Cardinality(S)
         /\ r \in S /\ r \notin T => Cardinality(T) + 1 = Cardinality(S)
  <1>1. Cardinality(S) \in Nat
    BY FS_CardinalityType
  <1>2. CASE r \in T /\ r \notin S
    <2>1. T = S \cup {r}
      BY <1>2
    <2>2. IsFiniteSet(T) /\ Cardinality(T) = Cardinality(S) + 1
      BY <1>2, <2>1, FS_AddElement
    <2> QED BY <1>1, <1>2, <2>2
  <1>3. CASE r \in S <=> r \in T
    <2>1. T = S
      BY <1>3
    <2> QED BY <1>1, <2>1
  <1>4. CASE r \in S /\ r \notin T
    <2>1. T = S \ {r}
      BY <1>4
    <2>2. IsFiniteSet(T) /\ Cardinality(T) = Cardinality(S) - 1
      BY <1>4, <2>1, FS_RemoveElement
    <2>3. Cardinality(T) \in Nat
      BY <2>2, FS_CardinalityType
    <2> QED BY <1>1, <1>4, <2>2, <2>3
  <1> QED BY <1>2, <1>3, <1>4

LEMMA StepBalances ==
  ASSUME LIInv, NEW r \in Requests, Step(r), TypeOK'
  PROVE  IsFiniteSet(Started)' /\ BucketsAddUp'
  <1>1. TypeOK /\ Ready(r) /\ Key(r) \in Anchors /\ IsFiniteSet(Started) /\ BucketsAddUp
    BY Shapes DEF LIInv, Ledger, IInv
  <1>2. Quiet(r) /\ Charge(r)
    BY Quietness, StepCharges, <1>1 DEF LIInv, IInv
  <1>3. /\ call' = call /\ \A q \in Requests : Key(q)' = Key(q)
        /\ \A q \in Requests \ {r} : pc'[q] = pc[q] /\ (q \in observing' <=> q \in observing)
    BY <1>1, <1>2 DEF Quiet, Key, TypeOK
  <1>4. IsFiniteSet(Started')
    <2>1. \A q : q # r => (q \in Started <=> q \in Started')
      BY <1>3 DEF Started
    <2> QED BY <1>1, <2>1, OneMember
  <1>5. BucketsAddUp'
    <2> SUFFICES ASSUME NEW a \in Anchors
                 PROVE  used'[a] <= Cardinality(MayHavePaid(a)') /\ Cardinality(Paid(a)') <= used'[a]
      BY DEF BucketsAddUp
    <2> DEFINE U == MayHavePaid(a)  L == Paid(a)  U2 == MayHavePaid(a)'  L2 == Paid(a)'
    <2>1. U \subseteq Started /\ L \subseteq Started
      BY DEF MayHavePaid, Paid, Payers, Started, Settled
    <2>2. IsFiniteSet(U) /\ IsFiniteSet(L)
      BY <1>1, <2>1, FS_Subset
    <2>3. \A q : q # r => (q \in U <=> q \in U2) /\ (q \in L <=> q \in L2)
      BY <1>3 DEF MayHavePaid, Paid, Payers
    <2>4. /\ (r \in U <=> Key(r) = a /\ PaysQuota(r) /\ pc[r] \in Settled \cup {"faulted"})
          /\ (r \in L <=> Key(r) = a /\ PaysQuota(r) /\ pc[r] \in Settled)
          /\ (r \in U2 <=> Key(r) = a /\ PaysQuota(r)' /\ pc'[r] \in Settled \cup {"faulted"})
          /\ (r \in L2 <=> Key(r) = a /\ PaysQuota(r)' /\ pc'[r] \in Settled)
      BY <1>3 DEF MayHavePaid, Paid, Payers, PaysQuota
    <2>5. used[a] \in Nat /\ used[a] <= Cardinality(U) /\ Cardinality(L) <= used[a]
      BY <1>1, CallAssumption DEF BucketsAddUp, TypeOK
    <2>6. \/ used'[a] = used[a] /\ (r \in U => r \in U2) /\ (r \in L2 => r \in L)
          \/ used'[a] = used[a] + 1 /\ r \notin U /\ r \in U2
      <3>1. CASE used' = used
        <4>1. ((r \in U => r \in U2) /\ (r \in L2 => r \in L)) \/ used' = [used EXCEPT ![Key(r)] = @ + 1]
          BY <1>2, <2>4 DEF Charge
        <4>2. ASSUME used' = [used EXCEPT ![Key(r)] = @ + 1] PROVE FALSE
          <5>1. used[Key(r)] \in Nat /\ used'[Key(r)] = used[Key(r)] + 1
            BY <1>1, <4>2, CallAssumption DEF TypeOK
          <5> QED BY <3>1, <5>1
        <4> QED BY <3>1, <4>1, <4>2
      <3>2. CASE used' # used
        <4>1. /\ used' = [used EXCEPT ![Key(r)] = @ + 1]
              /\ ~(PaysQuota(r) /\ pc[r] \in Settled \cup {"faulted"})
              /\ PaysQuota(r)' /\ pc'[r] \in Settled \cup {"faulted"}
          BY <1>2, <3>2 DEF Charge
        <4>2. CASE a = Key(r)
          <5>1. used'[a] = used[a] + 1
            BY <1>1, <4>1, <4>2 DEF TypeOK
          <5> QED BY <2>4, <4>1, <4>2, <5>1
        <4>3. CASE a # Key(r)
          <5>1. used'[a] = used[a]
            BY <1>1, <4>1, <4>3 DEF TypeOK
          <5> QED BY <2>4, <4>3, <5>1
        <4> QED BY <4>2, <4>3
      <3> QED BY <3>1, <3>2
    <2> HIDE DEF U, L, U2, L2
    <2>7. /\ Cardinality(U) \in Nat /\ Cardinality(U2) \in Nat
          /\ r \in U2 /\ r \notin U => Cardinality(U2) = Cardinality(U) + 1
          /\ (r \in U <=> r \in U2) => Cardinality(U2) = Cardinality(U)
      BY <2>2, <2>3, OneMember
    <2>8. /\ Cardinality(L) \in Nat /\ Cardinality(L2) \in Nat
          /\ r \in L2 /\ r \notin L => Cardinality(L2) = Cardinality(L) + 1
          /\ (r \in L <=> r \in L2) => Cardinality(L2) = Cardinality(L)
          /\ r \in L /\ r \notin L2 => Cardinality(L2) + 1 = Cardinality(L)
      BY <2>2, <2>3, OneMember
    <2>9. used'[a] <= Cardinality(U2) /\ Cardinality(L2) <= used'[a]
      BY <2>5, <2>6, <2>7, <2>8
    <2> QED BY <2>9 DEF U2, L2
  <1> QED BY <1>4, <1>5

\* An owner keeps owning what it wrote, except one whose rollback succeeded.
LEMMA OwnersStay ==
  ASSUME IInv, NEW r \in Requests, Step(r), NEW q \in Requests
  PROVE  /\ pc[q] \in {"alias", "name", "rollback", "forwarded", "faulted"} =>
              \/ pc'[q] \in {"alias", "name", "rollback", "forwarded", "faulted"}
              \/ q = r /\ pc[r] = "rollback" /\ pc'[r] = "undone" /\ TakeBack(r)
         /\ pc[q] \in {"name", "rollback", "forwarded", "faulted", "undone"} =>
              pc'[q] \in {"name", "rollback", "forwarded", "faulted", "undone"}
         /\ pc[q] \in {"forwarded", "faulted"} => pc'[q] = pc[q]
  <1>1. TypeOK /\ Quiet(r)
    BY Quietness DEF IInv
  <1>2. CASE q # r
    BY <1>1, <1>2 DEF Quiet, TypeOK
  <1>3. CASE q = r
    <2>1. pc[r] \notin Closed
      BY <1>1 DEF Quiet
    <2>2. CASE pc[r] = "alias"
      <3>1. RecordAlias(r)
        BY <2>2 DEF Step, Bar, RefuseUnmatched, EvaluateConditions, TakeTurn, peekSessionLabels,
           runPureConditions, commitDeferredConditions, PeekForForward, recordLabels,
           RecordSessionCall, rollbackLabels
      <3> QED BY <1>1, <1>3, <2>2, <3>1 DEF RecordAlias, AfterFailedMarker, Goto, TypeOK
    <2>3. CASE pc[r] = "name"
      <3>1. RecordSessionCall(r)
        BY <2>3 DEF Step, Bar, RefuseUnmatched, EvaluateConditions, TakeTurn, peekSessionLabels,
           runPureConditions, commitDeferredConditions, PeekForForward, recordLabels,
           RecordAlias, rollbackLabels
      <3> QED BY <1>1, <1>3, <2>3, <3>1 DEF RecordSessionCall, AfterFailedMarker, Goto, TypeOK
    <2>4. CASE pc[r] = "rollback"
      <3>1. rollbackLabels(r)
        BY <2>4 DEF Step, Bar, RefuseUnmatched, EvaluateConditions, TakeTurn, peekSessionLabels,
           runPureConditions, commitDeferredConditions, PeekForForward, recordLabels,
           RecordAlias, RecordSessionCall
      <3> QED BY <1>1, <1>3, <2>4, <3>1 DEF rollbackLabels, Goto, TypeOK
    <2> QED BY <1>3, <2>1, <2>2, <2>3, <2>4 DEF Closed
  <1> QED BY <1>2, <1>3

\* What a step may add to the stores is its own request's, which then owns it.
LEMMA StepWrites ==
  ASSUME IInv, NEW r \in Requests, Step(r), NEW a \in Anchors
  PROVE  /\ \A l \in labels'[a] \ labels[a] :
              Key(r) = a /\ l \in call[r].out /\ pc'[r] \in {"alias", "name", "forwarded", "faulted"}
         /\ \A n \in history'[a] \ history[a] :
              /\ Key(r) = a /\ n \in call[r].alias \cup call[r].name
              /\ pc'[r] \in {"name", "rollback", "forwarded", "faulted"}
  <1>1. TypeOK /\ Key(r) \in Anchors /\ call[r] \in Calls
    BY Shapes DEF IInv
  <1>2. CASE recordLabels(r)
    <2>1. pc'[r] \in {"alias", "name", "forwarded", "faulted"} /\ history' = history
      BY <1>1, <1>2, NextSteps DEF recordLabels, Goto, TypeOK
    <2>2. labels' = labels \/ labels' = [labels EXCEPT ![Key(r)] = @ \cup call[r].out]
      BY <1>2 DEF recordLabels, AddLabels
    <2> QED BY <1>1, <2>1, <2>2 DEF TypeOK
  <1>3. CASE RecordAlias(r)
    BY <1>1, <1>3 DEF RecordAlias, Mark, AfterFailedMarker, Goto, TypeOK
  <1>4. CASE RecordSessionCall(r)
    BY <1>1, <1>4 DEF RecordSessionCall, Mark, AfterFailedMarker, Goto, TypeOK
  <1>5. CASE rollbackLabels(r)
    BY <1>1, <1>5 DEF rollbackLabels, TakeBack, TypeOK
  <1>6. CASE labels' = labels /\ history' = history
    BY <1>6
  <1> QED BY <1>2, <1>3, <1>4, <1>5, <1>6 DEF Step, Bar, RefuseUnmatched, EvaluateConditions, TakeTurn,
          peekSessionLabels, runPureConditions, commitDeferredConditions, PeekForForward, storeVars

LEMMA StepKeepsOwners ==
  ASSUME LIInv, NEW r \in Requests, Step(r)
  PROVE  LabelsHaveOwners' /\ MarksHaveOwners'
  <1>1. IInv /\ TypeOK /\ Quiet(r) /\ LabelsHaveOwners /\ MarksHaveOwners /\ Origins(r)
    BY Quietness DEF LIInv, Ledger, IInv
  <1>2. call' = call /\ (\A q \in Requests : Key(q)' = Key(q)) /\ \A q \in Requests \ {r} : pc'[q] = pc[q]
    BY <1>1 DEF Quiet, Key, TypeOK
  <1>3. LabelsHaveOwners'
    <2> SUFFICES ASSUME NEW a \in Anchors, NEW l \in labels'[a]
                 PROVE  \E q \in Requests :
                          /\ Key(q) = a /\ l \in call[q].out
                          /\ pc'[q] \in {"alias", "name", "rollback", "forwarded", "faulted"}
      BY <1>2 DEF LabelsHaveOwners
    <2>1. CASE l \notin labels[a]
      BY <1>1, <2>1, StepWrites
    <2>2. CASE l \in labels[a]
      <3>1. PICK q \in Requests :
              /\ Key(q) = a /\ l \in call[q].out
              /\ pc[q] \in {"alias", "name", "rollback", "forwarded", "faulted"}
        BY <1>1, <2>2 DEF LabelsHaveOwners
      <3>2. CASE pc'[q] \in {"alias", "name", "rollback", "forwarded", "faulted"}
        BY <3>1, <3>2
      <3>3. CASE q = r /\ pc[r] = "rollback" /\ pc'[r] = "undone" /\ TakeBack(r)
        <4>1. l \in carried[r]
          BY <1>1, <3>1, <3>3 DEF TakeBack, labelsAdded, TypeOK
        <4>2. call[r].task = NoTask
          BY <1>1, <3>3 DEF IInv, Sound, Stage
        <4>3. PICK p \in Requests \ {r} :
                Key(p) = Key(r) /\ l \in call[p].out /\ pc[p] \in {"forwarded", "faulted"}
          BY <1>1, <3>3, <4>1, <4>2 DEF Origins, Peeked
        <4> QED BY <1>2, <3>1, <3>3, <4>3
      <3> QED BY <1>1, <3>1, <3>2, <3>3, OwnersStay
    <2> QED BY <2>1, <2>2
  <1>4. MarksHaveOwners'
    <2> SUFFICES ASSUME NEW a \in Anchors, NEW n \in history'[a]
                 PROVE  \E q \in Requests :
                          /\ Key(q) = a /\ n \in call[q].alias \cup call[q].name
                          /\ pc'[q] \in {"name", "rollback", "forwarded", "faulted", "undone"}
      BY <1>2 DEF MarksHaveOwners
    <2>1. CASE n \notin history[a]
      BY <1>1, <2>1, StepWrites
    <2>2. CASE n \in history[a]
      <3>1. PICK q \in Requests :
              /\ Key(q) = a /\ n \in call[q].alias \cup call[q].name
              /\ pc[q] \in {"name", "rollback", "forwarded", "faulted", "undone"}
        BY <1>1, <2>2 DEF MarksHaveOwners
      <3> QED BY <1>1, <3>1, OwnersStay
    <2> QED BY <2>1, <2>2
  <1> QED BY <1>3, <1>4

LEMMA StepKeepsReady ==
  ASSUME IInv, NEW r \in Requests, Step(r), NEW q \in Requests, Ready(q)
  PROVE  Ready(q)'
  <1>1. TypeOK /\ Quiet(r) /\ call[r] \in Calls
    BY Quietness, Shapes DEF IInv
  <1>2. call' = call
    BY <1>1 DEF Quiet
  <1>3. CASE q # r
    BY <1>1, <1>2, <1>3 DEF Quiet, Ready, TypeOK
  <1>4. CASE q = r
    <2> SUFFICES ASSUME pc'[r] \in {"peek", "judge", "admit"}
                 PROVE  /\ ~call[r].anchorless
                        /\ pc'[r] = "admit" => call[r].quota /\ call[r].observe # "route"
      BY <1>2, <1>4 DEF Ready
    <2>1. \A snapshot : recordAuditModeAntecedent(call[r], snapshot) \notin {"peek", "judge", "admit"}
      BY <1>1, NextSteps, RefusalRoutes
    <2>2. ~Downgrade(r)
      BY <1>1, <2>1 DEF Downgrade, Goto, TypeOK
    <2>3. recordSourceCall(call[r]) \notin {"peek", "judge", "admit"}
            /\ recordAntecedentIn(call[r]) \notin {"peek", "judge", "admit"}
      BY <1>1, NextSteps
    <2>4. CASE EvaluateConditions(r)
      BY <1>1, <2>4 DEF EvaluateConditions, Goto, TypeOK
    <2>5. CASE peekSessionLabels(r)
      BY <1>1, <1>4, <2>5 DEF peekSessionLabels, Goto, Ready, TypeOK
    <2>6. CASE runPureConditions(r)
      <3>1. Goto(r, AfterCeiling(call[r])) /\ pc[r] = "judge"
        BY <1>1, <2>2, <2>6 DEF runPureConditions, Goto, TypeOK
      <3>2. pc'[r] = AfterCeiling(call[r])
        BY <1>1, <3>1 DEF Goto, TypeOK
      <3> QED BY <1>4, <2>3, <3>1, <3>2 DEF AfterCeiling, Ready
    <2>7. CASE commitDeferredConditions(r)
      BY <1>1, <2>2, <2>3, <2>7 DEF commitDeferredConditions, Goto, TypeOK
    <2>8. CASE PeekForForward(r)
      BY <1>1, <2>3, <2>8 DEF PeekForForward, Goto, TypeOK
    <2>9. CASE recordLabels(r)
      BY <1>1, <2>3, <2>9 DEF recordLabels, Goto, TypeOK
    <2>10. CASE RecordAlias(r) \/ RecordSessionCall(r) \/ rollbackLabels(r) \/ Bar(r)
      BY <1>1, <2>10 DEF RecordAlias, RecordSessionCall, rollbackLabels, AfterFailedMarker, Bar, Goto, TypeOK
    <2> QED BY <2>2, <2>4, <2>5, <2>6, <2>7, <2>8, <2>9, <2>10 DEF Step, RefuseUnmatched
  <1> QED BY <1>3, <1>4

LEMMA StepKeepsOrigins ==
  ASSUME SessionsPrivate, LIInv, NEW r \in Requests, Step(r), NEW q \in Requests
  PROVE  Origins(q)'
  <1>1. IInv /\ TypeOK /\ Quiet(r) /\ LabelsHaveOwners /\ Origins(q) /\ Key(q) \in Anchors
    BY Quietness, Shapes DEF LIInv, Ledger, IInv
  <1>2. call' = call /\ (\A p \in Requests : Key(p)' = Key(p)) /\ \A p \in Requests \ {r} : pc'[p] = pc[p]
    BY <1>1 DEF Quiet, Key, TypeOK
  <1> SUFFICES ASSUME pc'[q] \in Peeked, call[q].task = NoTask, NEW l \in carried'[q]
               PROVE  \E p \in Requests \ {q} :
                        Key(p) = Key(q) /\ l \in call[p].out /\ pc'[p] \in {"forwarded", "faulted"}
    BY <1>2 DEF Origins
  <1>3. ASSUME \E p \in Requests \ {q} :
                 Key(p) = Key(q) /\ l \in call[p].out /\ pc[p] \in {"forwarded", "faulted"}
        PROVE  \E p \in Requests \ {q} :
                 Key(p) = Key(q) /\ l \in call[p].out /\ pc'[p] \in {"forwarded", "faulted"}
    BY <1>1, <1>3, OwnersStay
  <1>4. CASE carried'[q] = carried[q] /\ pc[q] \in Peeked
    BY <1>1, <1>3, <1>4 DEF Origins
  <1>5. CASE carried'[q] = labels[Key(q)] /\ pc[q] \in {"peek", "repeek"}
    <2>1. PICK p \in Requests :
            /\ Key(p) = Key(q) /\ l \in call[p].out
            /\ pc[p] \in {"alias", "name", "rollback", "forwarded", "faulted"}
      BY <1>1, <1>5 DEF LabelsHaveOwners
    <2>2. p # q
      BY <1>5, <2>1
    <2>3. pc[p] \notin Deciding
      <3>1. call[p].instance = call[q].instance
        BY <1>1, <2>1, SameInstance
      <3>2. pc[q] \in Deciding
        BY <1>5 DEF Deciding
      <3> QED BY <1>1, <2>1, <2>2, <3>1, <3>2 DEF IInv, OneTurn
    <2> QED BY <1>3, <2>1, <2>2, <2>3 DEF Deciding
  <1>6. CASE q = r /\ carried'[q] = carried[q] /\ pc[q] = "waiting"
    BY <1>1, <1>6 DEF IInv, Sound, Stage
  <1>7. CASE q # r
    BY <1>1, <1>4, <1>7 DEF Quiet, TypeOK
  <1>8. CASE q = r
    <2>1. CASE pc[r] = "waiting"
      <3>1. carried' = carried
        BY <2>1 DEF Step, Bar, RefuseUnmatched, EvaluateConditions, TakeTurn, peekSessionLabels,
           runPureConditions, commitDeferredConditions, PeekForForward, recordLabels,
           RecordAlias, RecordSessionCall, rollbackLabels
      <3> QED BY <1>6, <1>8, <2>1, <3>1
    <2>2. CASE pc[r] \in {"peek", "repeek"}
      <3>1. peekSessionLabels(r) \/ PeekForForward(r)
        BY <2>2 DEF Step, Bar, RefuseUnmatched, EvaluateConditions, TakeTurn, runPureConditions,
           commitDeferredConditions, recordLabels, RecordAlias, RecordSessionCall, rollbackLabels
      <3>2. carried'[r] = labels[Key(r)]
        BY <1>1, <1>8, <3>1 DEF peekSessionLabels, PeekForForward, Goto, TypeOK, Peeked
      <3> QED BY <1>5, <1>8, <2>2, <3>2
    <2>3. CASE pc[r] \in Peeked
      <3>1. carried' = carried
        BY <2>3 DEF Step, Bar, RefuseUnmatched, EvaluateConditions, TakeTurn, peekSessionLabels,
           runPureConditions, commitDeferredConditions, PeekForForward, recordLabels,
           RecordAlias, RecordSessionCall, rollbackLabels, Peeked
      <3> QED BY <1>4, <1>8, <2>3, <3>1
    <2>4. pc[r] \in {"waiting", "peek", "repeek"} \cup Peeked
      BY <1>1 DEF Quiet, TypeOK, Closed, Deciding, Peeked
    <2> QED BY <2>1, <2>2, <2>3, <2>4
  <1> QED BY <1>7, <1>8

LEMMA StepKeepsLedger ==
  ASSUME SessionsPrivate, LIInv, NEW r \in Requests, Step(r), TypeOK'
  PROVE  Ledger'
  BY StepBalances, StepKeepsOwners, StepKeepsReady, StepKeepsOrigins DEF LIInv, Ledger

\* A teardown takes labels away and moves no request.
LEMMA ClearKeepsLedger ==
  ASSUME LIInv, NEW i \in Instances, NEW s \in Sessions, ClearSessionLabels(i, s)
  PROVE  Ledger'
  <1>1. /\ call' = call /\ pc' = pc /\ used' = used /\ history' = history /\ observing' = observing
        /\ carried' = carried /\ \A q \in Requests : Key(q)' = Key(q)
    BY DEF ClearSessionLabels, Key
  <1>2. \A a \in Anchors : labels'[a] \subseteq labels[a]
    BY DEF ClearSessionLabels, Clear, LIInv, IInv, TypeOK
  <1>3. Started' = Started /\ \A a \in Anchors : MayHavePaid(a)' = MayHavePaid(a) /\ Paid(a)' = Paid(a)
    BY <1>1 DEF Started, MayHavePaid, Paid, Payers
  <1>4. IsFiniteSet(Started)' /\ BucketsAddUp'
    BY <1>1, <1>3 DEF LIInv, Ledger, BucketsAddUp
  <1>5. LabelsHaveOwners'
    BY <1>1, <1>2 DEF LIInv, Ledger, LabelsHaveOwners
  <1>6. MarksHaveOwners'
    BY <1>1 DEF LIInv, Ledger, MarksHaveOwners
  <1>7. \A q \in Requests : Ready(q)' /\ Origins(q)'
    BY <1>1 DEF LIInv, Ledger, Ready, Origins
  <1> QED BY <1>4, <1>5, <1>6, <1>7 DEF Ledger

LEMMA LedgerInductive ==
  ASSUME SessionsPrivate
  PROVE  Spec => []LIInv
  <1>1. Init => LIInv
    <2> SUFFICES ASSUME Init PROVE Ledger
      BY InitSound DEF LIInv
    <2>1. /\ \A q \in Requests : pc[q] = "waiting"
          /\ \A a \in Anchors : labels[a] = {} /\ history[a] = {} /\ used[a] = 0
      BY DEF Init
    <2>2. Started = {} /\ \A a \in Anchors : MayHavePaid(a) = {} /\ Paid(a) = {}
      BY <2>1 DEF Started, MayHavePaid, Paid, Payers, Settled
    <2>3. IsFiniteSet(Started) /\ BucketsAddUp
      BY <2>1, <2>2, FS_EmptySet DEF BucketsAddUp
    <2> QED BY <2>1, <2>3
            DEF Ledger, LabelsHaveOwners, MarksHaveOwners, Ready, Origins, Peeked
  <1>2. SessionsPrivate /\ LIInv /\ [Next]_vars => LIInv'
    <2> SUFFICES ASSUME LIInv, [Next]_vars PROVE LIInv'
      OBVIOUS
    <2>1. IInv'
      BY NextSound DEF LIInv
    <2>2. CASE \E r \in Requests : Step(r)
      BY <2>1, <2>2, StepKeepsLedger DEF LIInv, IInv
    <2>3. CASE \E i \in Instances, s \in Sessions : ClearSessionLabels(i, s)
      BY <2>1, <2>3, ClearKeepsLedger DEF LIInv
    <2>4. CASE UNCHANGED vars
      <3>1. /\ call' = call /\ pc' = pc /\ used' = used /\ history' = history /\ observing' = observing
            /\ carried' = carried /\ labels' = labels /\ \A q \in Requests : Key(q)' = Key(q)
        BY <2>4 DEF vars, Key
      <3>2. Started' = Started /\ \A a \in Anchors : MayHavePaid(a)' = MayHavePaid(a) /\ Paid(a)' = Paid(a)
        BY <3>1 DEF Started, MayHavePaid, Paid, Payers
      <3>3. IsFiniteSet(Started)' /\ BucketsAddUp'
        BY <3>1, <3>2 DEF LIInv, Ledger, BucketsAddUp
      <3>4. LabelsHaveOwners' /\ MarksHaveOwners'
        BY <3>1 DEF LIInv, Ledger, LabelsHaveOwners, MarksHaveOwners
      <3>5. \A q \in Requests : Ready(q)' /\ Origins(q)'
        BY <3>1 DEF LIInv, Ledger, Ready, Origins
      <3> QED BY <2>1, <3>3, <3>4, <3>5 DEF LIInv, Ledger
    <2> QED BY <2>2, <2>3, <2>4 DEF Next, Finished
  <1> QED BY <1>1, <1>2, PTL DEF Spec

(***************************************************************************)
(* While every session key belongs to one instance, what the requests      *)
(* share stays true to what was decided, whatever fails, rolls back or is  *)
(* torn down: a bucket is charged for every call that was let through and  *)
(* only for calls no check refused, and every label and marker is that of  *)
(* a call that was let through, is committing or was stopped by a fault    *)
(* (commitDeferredConditions, recordSourceCall, rollbackLabels).           *)
(***************************************************************************)
THEOREM SharedStateIsHonest ==
  ASSUME SessionsPrivate
  PROVE  Spec => []StateIsOfTheForwarded
  <1>1. LIInv => StateIsOfTheForwarded
    <2> SUFFICES ASSUME LIInv PROVE StateIsOfTheForwarded
      OBVIOUS
    <2>1. NoPhantomState
      BY DEF LIInv, Ledger, LabelsHaveOwners, MarksHaveOwners, NoPhantomState
    <2>2. ASSUME NEW a \in Anchors
          PROVE  /\ used[a] <= Cardinality({q \in Payers(a) : pc[q] \in
                      {"label", "alias", "name", "rollback", "forwarded", "faulted", "undone"}})
                 /\ Cardinality({q \in Payers(a) : pc[q] \in
                      {"label", "alias", "name", "rollback", "forwarded", "undone"}}) <= used[a]
      <3>1. MayHavePaid(a) = {q \in Payers(a) : pc[q] \in
              {"label", "alias", "name", "rollback", "forwarded", "faulted", "undone"}}
        BY DEF MayHavePaid, Settled
      <3>2. Paid(a) = {q \in Payers(a) : pc[q] \in
              {"label", "alias", "name", "rollback", "forwarded", "undone"}}
        BY DEF Paid, Settled
      <3> QED BY <3>1, <3>2 DEF LIInv, Ledger, BucketsAddUp
    <2> QED BY <2>1, <2>2 DEF StateIsOfTheForwarded, QuotaPaidByTheUnrefused
  <1> QED BY <1>1, LedgerInductive, PTL

-----------------------------------------------------------------------------
(* The decision points: what the case distinctions of a decision come to. *)

LEMMA LeastExists ==
  ASSUME NEW S, S \subseteq Nat, S # {}
  PROVE  \E m \in S : \A n \in S : m <= n
  <1> DEFINE R == OpToRel(<, Nat)
  <1>1. IsWellFoundedOn(R, Nat)
    BY NatLessThanWellFounded
  <1> HIDE DEF R
  <1>2. PICK m \in S : \A n \in S : ~(<<n, m>> \in R)
    BY <1>1, WFMin
  <1>3. ASSUME NEW n \in S PROVE m <= n
    <2>1. <<n, m>> \notin R
      BY <1>2
    <2>2. ~(n < m)
      BY <2>1 DEF R, OpToRel
    <2> QED BY <2>2
  <1> QED BY <1>3

\* The tiebreak leaves a winner: the entry that governs is one of the candidates.
LEMMA BestIsCandidate ==
  ASSUME NEW S, S \subseteq Entries, S # {}, caps \in Seq(Constraint)
  PROVE  \E i \in S : Best(S) = caps[i]
  <1> USE DEF Entries
  <1>1. /\ S \subseteq Nat
        /\ \A i \in S : caps[i].exact \in BOOLEAN /\ caps[i].principal \in BOOLEAN
    <2>1. S \subseteq Nat /\ \A i \in S : caps[i] \in Constraint
      OBVIOUS
    <2> QED BY <2>1 DEF Constraint
  <1> DEFINE A == {i \in S : caps[i].exact}
             B == IF A # {} THEN A ELSE S
             C == {i \in B : caps[i].principal}
             D == IF C # {} THEN C ELSE B
  <1>2. D \subseteq S /\ D # {}
    OBVIOUS
  <1>3. PICK m \in D : \A n \in D : m <= n
    BY <1>1, <1>2, LeastExists
  <1>4. ASSUME NEW j \in S \ {m} PROVE Beats(m, j)
    <2>1. CASE j \in D
      <3>1. m \in Nat /\ j \in Nat /\ m <= j /\ m # j
        BY <1>1, <1>2, <1>3, <2>1
      <3>2. m < j
        BY <3>1
      <3>3. caps[m].exact = caps[j].exact /\ caps[m].principal = caps[j].principal
        BY <1>1, <2>1
      <3> QED BY <3>2, <3>3 DEF Beats
    <2>2. CASE j \in B \ D
      BY <1>1, <2>2 DEF Beats
    <2>3. CASE j \notin B
      BY <1>1, <2>3 DEF Beats
    <2> QED BY <2>1, <2>2, <2>3
  <1>5. m \in S /\ \A j \in S \ {m} : Beats(m, j)
    BY <1>2, <1>4
  <1> QED BY <1>5 DEF Best

\* What findConstraint answers is an entry that names the target, of the shape the loader
\* lets through.
LEMMA Governing ==
  ASSUME route \in Routes, NEW n, NEW tok, NEW c, c = findConstraint(n, tok), c # None
  PROVE  /\ c \in Constraint
         /\ \E i \in Entries : c = caps[i] /\ matchBare(i, n)
         /\ n \notin Tools => ~c.schema /\ ~c.redact
  <1>1. caps \in Manifests /\ caps \in Seq(Constraint)
    BY PointsAssumption DEF Routes, caps
  <1>2. PICK S : S \subseteq Entries /\ S # {} /\ c = Best(S) /\ \A i \in S : matchBare(i, n)
    <2> DEFINE fallback == {i \in Entries : matchBare(i, n) /\ PrincipalMatches(i, tok)}
               primary == {i \in fallback : caps[i].acts}
    <2>1. c = IF primary # {} THEN Best(primary) ELSE IF fallback # {} THEN Best(fallback) ELSE None
      BY DEF findConstraint
    <2>2. CASE primary # {}
      <3>1. primary \subseteq Entries /\ c = Best(primary) /\ \A i \in primary : matchBare(i, n)
        BY <2>1, <2>2
      <3> QED BY <2>2, <3>1
    <2>3. CASE primary = {}
      <3>1. fallback # {} /\ c = Best(fallback)
        BY <2>1, <2>3
      <3>2. fallback \subseteq Entries /\ \A i \in fallback : matchBare(i, n)
        OBVIOUS
      <3> QED BY <3>1, <3>2
    <2> QED BY <2>2, <2>3
  <1>3. PICK i \in S : c = caps[i]
    BY <1>1, <1>2, BestIsCandidate
  <1>4. i \in Entries /\ matchBare(i, n)
    BY <1>2
  <1>5. c \in Constraint /\ i \in 1..Len(caps)
    BY <1>1, <1>3, <1>4 DEF Entries
  <1>6. (c.schema \/ c.redact) => c.covers \subseteq Tools
    BY <1>1, <1>3, <1>5, PointsAssumption
  <1>7. n \in c.covers
    BY <1>3, <1>4 DEF matchBare
  <1> QED BY <1>3, <1>4, <1>5, <1>6, <1>7

-----------------------------------------------------------------------------
\* What the lemmas need of a question; its token may be any.
Asks(q) == q.target \in Targets /\ q.killed \in BOOLEAN /\ q.engine \in Outcomes

\* A call some constraint governs.
LEMMA MatchedVerdict ==
  ASSUME route \in Routes, NEW q, Asks(q), NEW c \in Constraint,
         q.target \notin Tools => ~c.schema /\ ~c.redact,
         NEW d, d = decideMatched(q, c)
  PROVE  /\ d.allow \in BOOLEAN /\ (d.allow <=> c.acts /\ q.engine = "pass")
         /\ Forwards(d) <=> \/ d.allow
                            \/ /\ route.observe \/ c.audit
                               /\ q.engine # "fault"
                               /\ ~c.acts \/ q.engine \in {"soft", "badArgs"}
         /\ Forwards(d) => d.recorded /\ (q.target \in Tools /\ c.redact => d.redact)
  <1>1. /\ q.engine \in Outcomes /\ route.observe \in BOOLEAN
        /\ c.acts \in BOOLEAN /\ c.schema \in BOOLEAN /\ c.audit \in BOOLEAN /\ c.redact \in BOOLEAN
        /\ c # None
    BY PointsAssumption DEF Asks, Routes, Constraint
  <1> DEFINE observed == route.observe \/ c.audit
             refusal == [denyResponse EXCEPT !.recorded = TRUE, !.auditOnly = c.audit,
                                             !.redact = (q.target \in Tools /\ c.redact)]
  <1>2. /\ recordForwardedRefusal(denyResponse, c, q) =
             IF ~observed THEN denyResponse
             ELSE IF q.engine = "fault" THEN hardDenyResponse ELSE [denyResponse EXCEPT !.recorded = TRUE]
        /\ recordForwardedRefusal(hardDenyResponse, c, q) = hardDenyResponse
    BY <1>1 DEF recordForwardedRefusal, willForwardDeny, denyResponse, hardDenyResponse, newAllowResponse,
                Downgradable
  <1>3. /\ stamp(hardDenyResponse, c, q.target) = hardDenyResponse
        /\ observed => stamp([denyResponse EXCEPT !.recorded = TRUE], c, q.target) = refusal
        /\ ~observed => stamp(denyResponse, c, q.target) = [denyResponse EXCEPT !.auditOnly = c.audit]
    BY <1>1 DEF stamp, withForwardObligationsFor, willForwardDeny, CollectObligations, denyResponse,
                hardDenyResponse, newAllowResponse, Downgradable
  <1>4. ~Forwards(hardDenyResponse) /\ hardDenyResponse.allow = FALSE
    BY DEF Forwards, hardDenyResponse, denyResponse, newAllowResponse, Downgradable
  <1>5. observed => Forwards(refusal) /\ refusal.allow = FALSE /\ refusal.recorded
                    /\ refusal.redact = (q.target \in Tools /\ c.redact)
    BY <1>1 DEF Forwards, denyResponse, newAllowResponse, Downgradable
  <1>6. ~observed => ~Forwards([denyResponse EXCEPT !.auditOnly = c.audit])
                     /\ [denyResponse EXCEPT !.auditOnly = c.audit].allow = FALSE
    BY <1>1 DEF Forwards, denyResponse, newAllowResponse, Downgradable
  <1>7. CASE ~c.acts \/ (c.schema /\ q.engine = "badArgs")
    <2>1. d = stamp(recordForwardedRefusal(denyResponse, c, q), c, q.target)
      BY <1>7 DEF decideMatched
    <2>2. d = IF ~observed THEN [denyResponse EXCEPT !.auditOnly = c.audit]
              ELSE IF q.engine = "fault" THEN hardDenyResponse ELSE refusal
      BY <1>2, <1>3, <2>1
    <2>3. ~(c.acts /\ q.engine = "pass") /\ (~c.acts \/ q.engine \in {"soft", "badArgs"})
      BY <1>7
    <2> HIDE DEF observed, refusal
    <2>4. CASE ~observed
      BY <1>6, <2>2, <2>3, <2>4 DEF observed
    <2>5. CASE observed /\ q.engine = "fault"
      BY <1>4, <2>2, <2>3, <2>5
    <2>6. CASE observed /\ q.engine # "fault"
      BY <1>5, <2>2, <2>3, <2>6 DEF observed
    <2> QED BY <2>4, <2>5, <2>6
  <1>8. CASE c.acts /\ ~(c.schema /\ q.engine = "badArgs")
    <2>1. d = stamp(evaluateAndRecord(q, c), c, q.target)
      BY <1>8 DEF decideMatched
    <2>2. CASE q.engine = "pass"
      <3> DEFINE yes == [newAllowResponse EXCEPT !.redact = CollectObligations(q.target, c.redact), !.recorded = TRUE]
      <3>1. evaluateAndRecord(q, c) = recordForwardedRefusal(yes, c, q)
        BY <2>2 DEF evaluateAndRecord
      <3>2. yes.allow /\ recordForwardedRefusal(yes, c, q) = yes
        BY <2>2 DEF recordForwardedRefusal, newAllowResponse
      <3>3. stamp(yes, c, q.target) = [yes EXCEPT !.auditOnly = c.audit]
        BY <3>2 DEF stamp, withForwardObligationsFor, newAllowResponse
      <3>4. d = [yes EXCEPT !.auditOnly = c.audit]
        BY <2>1, <3>1, <3>2, <3>3
      <3>5. d.allow = TRUE /\ d.recorded /\ d.redact = (q.target \in Tools /\ c.redact)
        BY <3>4 DEF newAllowResponse, CollectObligations
      <3> QED BY <1>8, <2>2, <3>5 DEF Forwards
    <2>3. CASE q.engine \in {"over", "hard", "fault"}
      <3>1. evaluateAndRecord(q, c) = recordForwardedRefusal(hardDenyResponse, c, q)
        BY <2>3 DEF evaluateAndRecord
      <3>2. d = hardDenyResponse
        BY <1>2, <1>3, <2>1, <3>1
      <3> QED BY <1>4, <1>8, <2>3, <3>2 DEF hardDenyResponse, denyResponse, newAllowResponse
    <2>4. CASE q.engine \in {"soft", "badArgs"}
      <3>1. evaluateAndRecord(q, c) = recordForwardedRefusal(denyResponse, c, q)
        BY <2>4 DEF evaluateAndRecord
      <3>2. d = IF observed THEN refusal ELSE [denyResponse EXCEPT !.auditOnly = c.audit]
        BY <1>2, <1>3, <2>1, <2>4, <3>1
      <3> QED BY <1>1, <1>5, <1>6, <1>8, <2>4, <3>2
    <2> QED BY <1>1, <2>2, <2>3, <2>4 DEF Outcomes
  <1> QED BY <1>1, <1>7, <1>8

\* A call no constraint governs, and what becomes of a token's refusal: forwarded by an
\* observing route only, and then with every duty that names the target.
Unmatched(q) == recordUnmatchedForwardedState(withForwardObligations(denyResponse, q.target), q)

LEMMA UnmatchedVerdict ==
  ASSUME route \in Routes, NEW q, Asks(q), NEW d, d = Unmatched(q)
  PROVE  /\ d.allow = FALSE
         /\ Forwards(d) <=> route.observe /\ ~(labelOutputNamingTarget(q.target) /\ q.engine = "fault")
         /\ Forwards(d) => /\ labelOutputNamingTarget(q.target) => d.recorded
                           /\ q.target \in Tools /\ directivesNamingTarget(q.target) => d.redact
  <1>1. q.engine \in Outcomes /\ route.observe \in BOOLEAN
    BY DEF Asks, Routes
  <1> DEFINE owed == q.target \in Tools /\ directivesNamingTarget(q.target)
             marked == labelOutputNamingTarget(q.target)
  <1>2. withForwardObligations(denyResponse, q.target) =
          IF route.observe THEN [denyResponse EXCEPT !.redact = owed] ELSE denyResponse
    BY <1>1 DEF withForwardObligations, willForwardDeny, CollectObligations, denyResponse, newAllowResponse
  <1>3. d = IF ~route.observe THEN denyResponse
            ELSE IF ~marked THEN [denyResponse EXCEPT !.redact = owed]
            ELSE IF q.engine = "fault" THEN hardDenyResponse
            ELSE [denyResponse EXCEPT !.redact = owed, !.recorded = TRUE]
    BY <1>1, <1>2 DEF Unmatched, recordUnmatchedForwardedState, recordForwardedRefusal, willForwardDeny,
       Downgradable, denyResponse, hardDenyResponse, newAllowResponse
  <1> HIDE DEF owed, marked
  <1>4. CASE ~route.observe
    BY <1>3, <1>4 DEF Forwards, Downgradable, denyResponse, newAllowResponse
  <1>5. CASE route.observe /\ ~marked
    BY <1>3, <1>5 DEF Forwards, Downgradable, denyResponse, newAllowResponse, marked, owed
  <1>6. CASE route.observe /\ marked /\ q.engine = "fault"
    BY <1>3, <1>6 DEF Forwards, Downgradable, denyResponse, hardDenyResponse, newAllowResponse, marked
  <1>7. CASE route.observe /\ marked /\ q.engine # "fault"
    BY <1>3, <1>7 DEF Forwards, Downgradable, denyResponse, newAllowResponse, marked, owed
  <1> QED BY <1>1, <1>4, <1>5, <1>6, <1>7

\* Three answers that say all there is to say of them.
LEMMA PlainVerdicts ==
  /\ newAllowResponse.allow = TRUE /\ Forwards(newAllowResponse)
  /\ denyResponse.allow = FALSE /\ denyResponse.hard = FALSE
  /\ Forwards(denyResponse) <=> route.observe
  /\ hardDenyResponse.allow = FALSE /\ hardDenyResponse.hard = TRUE /\ ~Forwards(hardDenyResponse)
  BY DEF Forwards, Downgradable, newAllowResponse, denyResponse, hardDenyResponse

\* A tool the pins hold back: poisoned for its pin, or broken in this session.
HeldBack(n) == n \in Tools /\ ((Pinned(n) /\ pinViolated(n)) \/ Broken(n))

\* The manifest's decision, by cases.
LEMMA ManifestDecision ==
  ASSUME route \in Routes, route.inner = "manifest", NEW q, Asks(q), q.target # Sampling,
         NEW c, c = findConstraint(q.target, q.token)
  PROVE  /\ q.killed \/ HeldBack(q.target) => InnerDecide(q) = hardDenyResponse
         /\ ~q.killed /\ ~HeldBack(q.target) /\ c = None => InnerDecide(q) = Unmatched(q)
         /\ ~q.killed /\ ~HeldBack(q.target) /\ c # None => InnerDecide(q) = decideMatched(q, c)
  <1>1. InnerDecide(q) = decideTarget(q)
    BY DEF InnerDecide
  <1> QED BY <1>1 DEF decideTarget, HeldBack, Unmatched

\* The JWT layer's decision, by cases.
LEMMA TokenDecision ==
  ASSUME route \in Routes, route.jwt, NEW q, Asks(q), q.target # Sampling
  PROVE  /\ jwtBarred(q) => Decide(q) = hardDenyResponse
         /\ ~jwtBarred(q) /\ claimVerdict(q).allow =>
              Decide(q) = IF route.inner = "nil" THEN newAllowResponse ELSE InnerDecide(q)
         /\ ~jwtBarred(q) /\ ~claimVerdict(q).allow =>
              \/ Decide(q) = hardDenyResponse
              \/ Decide(q) = denyResponse /\ route.inner # "manifest"
              \/ /\ route.inner = "manifest" /\ ~HeldBack(q.target) /\ ~hardenOnEffectCeiling(q)
                 /\ Decide(q) = Unmatched(q)
         /\ claimVerdict(q).allow \in BOOLEAN
  <1>1. Decide(q) = JWTDecide(q)
    BY DEF Decide
  <1>2. claimVerdict(q) \in {newAllowResponse, denyResponse, hardDenyResponse}
    BY DEF claimVerdict, evaluateJWTConditions
  <1>3. ASSUME ~jwtBarred(q), ~claimVerdict(q).allow
        PROVE  \/ Decide(q) = hardDenyResponse
               \/ Decide(q) = denyResponse /\ route.inner # "manifest"
               \/ /\ route.inner = "manifest" /\ ~HeldBack(q.target) /\ ~hardenOnEffectCeiling(q)
                  /\ Decide(q) = Unmatched(q)
    <2>1. Decide(q) = withInnerVerdicts(claimVerdict(q), q) /\ ~q.killed
      BY <1>1, <1>3 DEF JWTDecide, jwtBarred
    <2>2. CASE claimVerdict(q) = hardDenyResponse
      BY <2>1, <2>2, PlainVerdicts DEF withInnerVerdicts, Downgradable
    <2>3. CASE claimVerdict(q) = denyResponse
      <3>1. CASE route.inner = "nil"
        BY <2>1, <2>3, <3>1 DEF withInnerVerdicts
      <3>2. CASE route.inner = "denyAll"
        BY <2>1, <2>3, <3>2, PlainVerdicts DEF withInnerVerdicts, InnerCheckKill, Downgradable
      <3>3. CASE route.inner = "allowAll"
        BY <2>1, <2>3, <3>3, PlainVerdicts DEF withInnerVerdicts, InnerCheckKill, InnerHarden, Downgradable
      <3>4. CASE route.inner = "manifest"
        <4>1. InnerCheckKill(q) = newAllowResponse
          BY <2>1, <3>4 DEF InnerCheckKill
        <4>2. Decide(q) = HardenRefusal(denyResponse, q)
          BY <2>1, <2>3, <3>4, <4>1, PlainVerdicts DEF withInnerVerdicts, InnerHarden, Downgradable
        <4> QED BY <3>4, <4>2, PlainVerdicts
                DEF HardenRefusal, hardenOnBrokenInterface, HeldBack, Unmatched, Downgradable
      <3> QED BY <3>1, <3>2, <3>3, <3>4 DEF Routes
    <2> QED BY <1>2, <1>3, <2>2, <2>3, PlainVerdicts
  <1>4. jwtBarred(q) => Decide(q) = hardDenyResponse
    BY <1>1 DEF JWTDecide
  <1>5. ~jwtBarred(q) /\ claimVerdict(q).allow =>
          Decide(q) = IF route.inner = "nil" THEN newAllowResponse ELSE InnerDecide(q)
    BY <1>1 DEF JWTDecide
  <1>6. claimVerdict(q).allow \in BOOLEAN
    BY <1>2, PlainVerdicts
  <1> QED BY <1>3, <1>4, <1>5, <1>6

-----------------------------------------------------------------------------
(* What holds of every decision, in whatever state the pins are. *)

\* The decision on a tool call under a manifest is one of four.
LEMMA UnderManifest ==
  ASSUME route \in Routes, route.inner = "manifest", NEW q, Asks(q), q.target # Sampling,
         NEW c, c = findConstraint(q.target, q.token)
  PROVE  \/ Decide(q) = hardDenyResponse
         \/ /\ ~HeldBack(q.target) /\ ~q.killed
            /\ \/ Decide(q) = Unmatched(q)
               \/ c # None /\ Decide(q) = decideMatched(q, c)
  <1>1. CASE ~route.jwt
    <2>1. Decide(q) = InnerDecide(q)
      BY <1>1 DEF Decide
    <2> QED BY <2>1, ManifestDecision
  <1>2. CASE route.jwt
    <2>1. CASE jwtBarred(q)
      BY <1>2, <2>1, TokenDecision
    <2>2. CASE ~jwtBarred(q) /\ claimVerdict(q).allow
      <3>1. Decide(q) = InnerDecide(q)
        BY <1>2, <2>2, TokenDecision
      <3> QED BY <3>1, ManifestDecision
    <2>3. CASE ~jwtBarred(q) /\ ~claimVerdict(q).allow
      BY <1>2, <2>3, TokenDecision DEF jwtBarred
    <2> QED BY <2>1, <2>2, <2>3
  <1> QED BY <1>1, <1>2

\* A tool in Tools is not Sampling, and a question about some targets is a question.
LEMMA ToolQuestions ==
  ASSUME NEW S, S \subseteq Tools \cup {Resource}, NEW q \in QuestionsAbout(S)
  PROVE  Asks(q) /\ q.target \in S /\ q.target # Sampling
  BY PointsAssumption DEF Asks, QuestionsAbout, Targets

LEMMA RedactionFollows == ASSUME route \in Routes PROVE RedactionFollowsForward
  <1> SUFFICES ASSUME route.inner = "manifest", NEW q \in QuestionsAbout(Tools),
                      NEW k \in SpokenFor(q), k.redact, Forwards(Decide(q))
               PROVE  Decide(q).redact
    BY DEF RedactionFollowsForward
  <1> DEFINE c == findConstraint(q.target, q.token)
  <1>1. Asks(q) /\ q.target \in Tools /\ q.target # Sampling
    BY ToolQuestions
  <1>2. directivesNamingTarget(q.target)
    <2>1. CASE c # None
      <3>1. k = c
        BY <2>1 DEF SpokenFor
      <3>2. PICK i \in Entries : c = caps[i] /\ matchBare(i, q.target)
        BY <2>1, Governing
      <3> QED BY <3>1, <3>2 DEF directivesNamingTarget
    <2>2. CASE c = None
      BY <2>2 DEF SpokenFor, directivesNamingTarget
    <2> QED BY <2>1, <2>2
  <1>3. CASE Decide(q) = Unmatched(q)
    BY <1>1, <1>2, <1>3, UnmatchedVerdict
  <1>4. CASE c # None /\ Decide(q) = decideMatched(q, c)
    <2>1. k = c /\ c \in Constraint
      BY <1>4, Governing DEF SpokenFor
    <2> QED BY <1>1, <1>4, <2>1, MatchedVerdict
  <1>5. Decide(q) # hardDenyResponse
    BY PlainVerdicts
  <1> QED BY <1>1, <1>3, <1>4, <1>5, UnderManifest

LEMMA LabelsFollow == ASSUME route \in Routes PROVE LabelsFollowForward
  <1> SUFFICES ASSUME route.inner = "manifest", NEW t \in Tools, labelOutputNamingTarget(t),
                      NEW q \in QuestionsAbout({t}), Forwards(Decide(q))
               PROVE  Decide(q).recorded
    BY DEF LabelsFollowForward, QuestionsAbout
  <1> DEFINE c == findConstraint(q.target, q.token)
  <1>1. Asks(q) /\ q.target = t /\ q.target # Sampling
    BY ToolQuestions
  <1>2. CASE Decide(q) = Unmatched(q)
    BY <1>1, <1>2, UnmatchedVerdict
  <1>3. CASE c # None /\ Decide(q) = decideMatched(q, c)
    <2>1. c \in Constraint
      BY <1>3, Governing
    <2> QED BY <1>1, <1>3, <2>1, MatchedVerdict
  <1>4. Decide(q) # hardDenyResponse
    BY PlainVerdicts
  <1> QED BY <1>1, <1>2, <1>3, <1>4, UnderManifest

\* The decision on sampling allows what the inner point allows only.
LEMMA TokenRestrictsAllow ==
  ASSUME route \in Routes, route.jwt, route.inner # "nil", NEW q, Asks(q), Decide(q).allow
  PROVE  InnerDecide(q).allow
  <1>1. CASE q.target = Sampling
    <2>1. Decide(q) = JWTDecideSampling(q)
      BY <1>1 DEF Decide
    <2> QED BY <2>1, PlainVerdicts DEF JWTDecideSampling
  <1>2. CASE q.target # Sampling
    <2>1. CASE jwtBarred(q)
      BY <1>2, <2>1, TokenDecision, PlainVerdicts
    <2>2. CASE ~jwtBarred(q) /\ claimVerdict(q).allow
      BY <1>2, <2>2, TokenDecision
    <2>3. CASE ~jwtBarred(q) /\ ~claimVerdict(q).allow
      BY <1>2, <2>3, TokenDecision, PlainVerdicts, UnmatchedVerdict
    <2> QED BY <2>1, <2>2, <2>3
  <1> QED BY <1>1, <1>2

\* What the JWT layer forwards of a call the inner point forwards too.
LEMMA TokenRestrictsCall ==
  ASSUME route \in Routes, route.jwt, route.inner # "nil", NEW q, Asks(q),
         Forwards(Decide(q)), q.target # Sampling, q.engine \notin {"hard", "fault"}
  PROVE  Forwards(InnerDecide(q))
  <1> DEFINE c == findConstraint(q.target, q.token)
  <1>1. ~jwtBarred(q) /\ ~q.killed
    BY TokenDecision, PlainVerdicts DEF jwtBarred
  <1>2. CASE claimVerdict(q).allow
    BY <1>1, <1>2, TokenDecision
  <1>3. CASE ~claimVerdict(q).allow /\ Decide(q) = denyResponse /\ route.inner # "manifest"
    <2>1. route.observe
      BY <1>3, PlainVerdicts
    <2>2. CASE route.inner = "denyAll"
      <3>1. InnerDecide(q) = denyResponse
        BY <2>2 DEF InnerDecide
      <3> QED BY <2>1, <3>1, PlainVerdicts
    <2>3. CASE route.inner = "allowAll"
      <3>1. InnerDecide(q) = newAllowResponse
        BY <1>1, <2>3 DEF InnerDecide, allowUnlessKilled
      <3> QED BY <3>1, PlainVerdicts
    <2> QED BY <1>3, <2>2, <2>3 DEF Routes
  <1>4. CASE /\ ~claimVerdict(q).allow
             /\ route.inner = "manifest" /\ ~HeldBack(q.target) /\ ~hardenOnEffectCeiling(q)
             /\ Decide(q) = Unmatched(q)
    <2>1. route.observe
      BY <1>4, UnmatchedVerdict
    <2>2. CASE c = None
      BY <1>1, <1>4, <2>2, ManifestDecision
    <2>3. CASE c # None
      <3>1. InnerDecide(q) = decideMatched(q, c)
        BY <1>1, <1>4, <2>3, ManifestDecision
      <3>2. c \in Constraint /\ (q.target \notin Tools => ~c.schema /\ ~c.redact)
        BY <2>3, Governing
      <3>3. ~(c.acts /\ q.engine = "over")
        BY <1>4, <2>3 DEF hardenOnEffectCeiling
      <3>4. ~c.acts \/ q.engine \in {"pass", "soft", "badArgs"}
        BY <3>3 DEF Asks, Outcomes
      <3> QED BY <2>1, <3>1, <3>2, <3>4, MatchedVerdict
    <2> QED BY <2>2, <2>3
  <1>5. Decide(q) # hardDenyResponse
    BY PlainVerdicts
  <1> QED BY <1>1, <1>2, <1>3, <1>4, <1>5, TokenDecision

\* Sampling under a token without a capability list is the inner point's to decide.
LEMMA TokenRestrictsSampling ==
  ASSUME route \in Routes, route.jwt, route.inner # "nil", NEW q, q.target = Sampling,
         Forwards(Decide(q)), ~HasCapabilities(q.token)
  PROVE  Forwards(InnerDecide(q))
  <1>1. Decide(q) = JWTDecideSampling(q)
    BY DEF Decide
  <1>2. ~jwtBarred(q)
    BY <1>1, PlainVerdicts DEF JWTDecideSampling
  <1>3. CASE innerEnforces
    BY <1>1, <1>2, <1>3 DEF JWTDecideSampling
  <1>4. CASE ~innerEnforces
    <2>1. route.inner = "allowAll" /\ ~q.killed
      BY <1>2, <1>4 DEF innerEnforces, Routes, jwtBarred
    <2>2. InnerDecide(q) = newAllowResponse
      BY <2>1 DEF InnerDecide, allowUnlessKilled
    <2> QED BY <2>2, PlainVerdicts
  <1> QED BY <1>3, <1>4

LEMMA TokenOnly == ASSUME route \in Routes PROVE TokenOnlyRestricts
  <1>1. \A q \in QuestionsAbout(Targets) : Asks(q)
    BY DEF Asks, QuestionsAbout
  <1> QED BY <1>1, TokenRestrictsAllow, TokenRestrictsCall, TokenRestrictsSampling
         DEF TokenOnlyRestricts, ClaimsDenySampling

\* The inner point cancels what it would have let subscribe to.
LEMMA InnerCancelFollows ==
  ASSUME route \in Routes, NEW q, Asks(q), q.target = Resource, InnerDecide(q).allow
  PROVE  InnerCancel(q).allow
  <1> DEFINE c == findConstraint(q.target, q.token)
  <1>1. CASE route.inner # "manifest"
    BY <1>1 DEF InnerCancel
  <1>2. CASE route.inner = "manifest"
    <2>1. q.target # Sampling
      BY PointsAssumption
    <2>2. ~q.killed /\ c # None /\ InnerDecide(q) = decideMatched(q, c)
      BY <1>2, <2>1, ManifestDecision, PlainVerdicts, UnmatchedVerdict
    <2>3. c.acts
      BY <2>2, Governing, MatchedVerdict
    <2>4. InnerCancel(q) = [newAllowResponse EXCEPT !.auditOnly = c.audit]
      BY <1>2, <2>2, <2>3 DEF InnerCancel, DecideResourceCancel
    <2> QED BY <2>4 DEF newAllowResponse
  <1> QED BY <1>1, <1>2

LEMMA Cancellable == ASSUME route \in Routes PROVE SubscriptionsCanBeCancelled
  <1> SUFFICES ASSUME NEW q \in QuestionsAbout({Resource})
               PROVE  /\ Decide(q).allow => DecideCancel(q).allow
                      /\ DecideCancel(q).allow /\ route.inner # "nil" => InnerCancel(q).allow
    BY DEF SubscriptionsCanBeCancelled
  <1>1. Asks(q) /\ q.target = Resource /\ q.target # Sampling
    BY ToolQuestions
  <1>2. CASE ~route.jwt
    <2>1. Decide(q) = InnerDecide(q) /\ DecideCancel(q) = InnerCancel(q)
      BY <1>2 DEF Decide, DecideCancel
    <2> QED BY <1>1, <2>1, InnerCancelFollows
  <1>3. CASE route.jwt
    <2>1. DecideCancel(q) = JWTDecideResourceCancel(q)
      BY <1>3 DEF DecideCancel
    <2>2. DecideCancel(q).allow /\ route.inner # "nil" => InnerCancel(q).allow
      BY <2>1, PlainVerdicts DEF JWTDecideResourceCancel
    <2>3. ASSUME Decide(q).allow PROVE DecideCancel(q).allow
      <3>1. ~jwtBarred(q) /\ claimVerdict(q).allow
        BY <1>1, <1>3, <2>3, TokenDecision, PlainVerdicts, UnmatchedVerdict
      <3>2. route.inner # "nil" => InnerCancel(q).allow
        BY <1>1, <1>3, <2>3, <3>1, TokenDecision, InnerCancelFollows
      <3>3. CASE HasCapabilities(q.token)
        <4>1. buildConstraints(q.token, q.target) # {}
          BY <3>1, <3>3, PlainVerdicts DEF claimVerdict, evaluateJWTConditions
        <4> QED BY <2>1, <3>1, <3>2, <3>3, <4>1, PlainVerdicts DEF JWTDecideResourceCancel
      <3>4. CASE ~HasCapabilities(q.token)
        <4>1. innerEnforces
          BY <3>1, <3>4, PlainVerdicts DEF claimVerdict
        <4> QED BY <2>1, <3>1, <3>2, <3>4, <4>1 DEF JWTDecideResourceCancel, innerEnforces
      <3> QED BY <3>3, <3>4
    <2> QED BY <2>2, <2>3
  <1> QED BY <1>2, <1>3 DEF Routes

\* A constraint is chosen by a caller's standing, whatever its claims.
LEMMA SameStanding ==
  ASSUME NEW n, NEW s, NEW t, s.valid = t.valid, s.member = t.member
  PROVE  findConstraint(n, s) = findConstraint(n, t)
  <1>1. \A i : PrincipalMatches(i, s) <=> PrincipalMatches(i, t)
    BY DEF PrincipalMatches
  <1>2. {i \in Entries : matchBare(i, n) /\ PrincipalMatches(i, s)}
        = {i \in Entries : matchBare(i, n) /\ PrincipalMatches(i, t)}
    BY <1>1
  <1> QED BY <1>2 DEF findConstraint

\* The inner point's list and the inner point's decisions agree.
LEMMA InnerListAgrees ==
  ASSUME route \in Routes, route.inner # "nil", NEW n \in Tools \cup {Resource}, NEW tok
  PROVE  /\ innerFilter(n, tok) => InnerDecide(Asked(n, tok, "pass")).allow
         /\ ~innerFilter(n, tok) =>
              \A outcome \in Outcomes : ~InnerDecide(Asked(n, tok, outcome)).allow
  <1>1. ASSUME NEW o \in Outcomes
        PROVE  /\ Asks(Asked(n, tok, o)) /\ Asked(n, tok, o).target = n /\ n # Sampling
               /\ Asked(n, tok, o).token = tok /\ ~Asked(n, tok, o).killed
               /\ Asked(n, tok, o).engine = o
    BY PointsAssumption DEF Asks, Asked, Targets
  <1>2. CASE route.inner = "allowAll"
    <2>1. innerFilter(n, tok)
      BY <1>2 DEF innerFilter
    <2>2. InnerDecide(Asked(n, tok, "pass")) = newAllowResponse
      BY <1>1, <1>2 DEF InnerDecide, allowUnlessKilled, Outcomes
    <2> QED BY <2>1, <2>2, PlainVerdicts
  <1>3. CASE route.inner = "denyAll"
    <2>1. ~innerFilter(n, tok)
      BY <1>3 DEF innerFilter
    <2>2. \A o \in Outcomes : InnerDecide(Asked(n, tok, o)) = denyResponse
      BY <1>1, <1>3 DEF InnerDecide
    <2> QED BY <2>1, <2>2, PlainVerdicts
  <1>4. CASE route.inner = "manifest"
    <2> DEFINE c == findConstraint(n, tok)
    <2>1. innerFilter(n, tok) <=> c # None /\ c.acts /\ ~HeldBack(n)
      BY <1>4 DEF innerFilter, keepByManifestEntry, HeldBack
    <2>2. c # None => c \in Constraint /\ (n \notin Tools => ~c.schema /\ ~c.redact)
      BY Governing
    <2>3. ASSUME NEW o \in Outcomes, c # None, ~HeldBack(n)
          PROVE  InnerDecide(Asked(n, tok, o)).allow <=> c.acts /\ o = "pass"
      <3>1. InnerDecide(Asked(n, tok, o)) = decideMatched(Asked(n, tok, o), c)
        BY <1>1, <1>4, <2>3, ManifestDecision
      <3> QED BY <1>1, <2>2, <2>3, <3>1, MatchedVerdict
    <2>4. ASSUME NEW o \in Outcomes, c = None \/ HeldBack(n)
          PROVE  ~InnerDecide(Asked(n, tok, o)).allow
      <3> DEFINE q == Asked(n, tok, o)
      <3>1. Asks(q) /\ q.target = n /\ q.target # Sampling /\ q.token = tok /\ ~q.killed
        BY <1>1
      <3> HIDE DEF q
      <3>2. InnerDecide(q) = hardDenyResponse \/ InnerDecide(q) = Unmatched(q)
        BY <1>4, <2>4, <3>1, ManifestDecision
      <3>3. ~InnerDecide(q).allow
        BY <3>1, <3>2, PlainVerdicts, UnmatchedVerdict
      <3> QED BY <3>3 DEF q
    <2>5. "pass" \in Outcomes
      BY DEF Outcomes
    <2> HIDE DEF c
    <2> QED BY <2>1, <2>3, <2>4, <2>5
  <1> QED BY <1>2, <1>3, <1>4 DEF Routes

LEMMA ListAgrees ==
  ASSUME route \in Routes, ~route.jwt => route.inner # "nil" PROVE ListAgreesWithDecide
  <1> SUFFICES ASSUME NEW n \in Tools \cup {Resource}, NEW tok \in Tokens
               PROVE  /\ filterList(n, tok) => Decide(Asked(n, Agreeable(tok), "pass")).allow
                      /\ ~filterList(n, tok) =>
                           \A outcome \in Outcomes : ~Decide(Asked(n, tok, outcome)).allow
    BY DEF ListAgreesWithDecide
  <1> DEFINE easy == Agreeable(tok)
             best == Asked(n, easy, "pass")
  <1>1. ASSUME NEW t, NEW o \in Outcomes
        PROVE  /\ Asks(Asked(n, t, o)) /\ Asked(n, t, o).target = n /\ n # Sampling
               /\ Asked(n, t, o).token = t /\ Asked(n, t, o).killed = FALSE
    BY PointsAssumption DEF Asks, Asked, Targets
  <1>2. "pass" \in Outcomes
    BY DEF Outcomes
  <1>3. /\ easy.valid = tok.valid /\ easy.member = tok.member /\ easy.aud = tok.aud
        /\ easy.caps = IF tok.caps = None THEN None ELSE Unconditional(tok.caps)
        /\ HasCapabilities(easy) <=> HasCapabilities(tok)
    <2>1. tok \in Token /\ (tok.caps # None => Unconditional(tok.caps) # None)
      BY PointsAssumption
    <2>2. /\ easy.valid = tok.valid /\ easy.member = tok.member /\ easy.aud = tok.aud
          /\ easy.caps = IF tok.caps = None THEN None ELSE Unconditional(tok.caps)
      BY <2>1 DEF Agreeable, Token
    <2> QED BY <2>1, <2>2 DEF HasCapabilities
  <1>4. innerFilter(n, easy) <=> innerFilter(n, tok)
    <2>1. findConstraint(n, easy) = findConstraint(n, tok)
      BY <1>3, SameStanding
    <2> QED BY <2>1 DEF innerFilter, keepByManifestEntry
  <1>5. innerFilter(n, tok) /\ route.inner # "nil" => InnerDecide(best).allow
    BY <1>4, InnerListAgrees
  <1>6. ASSUME ~innerFilter(n, tok), route.inner # "nil", NEW o \in Outcomes
        PROVE  ~InnerDecide(Asked(n, tok, o)).allow
    BY <1>6, InnerListAgrees
  <1> HIDE DEF easy
  <1>7. CASE ~route.jwt
    <2>1. \A t : \A o \in Outcomes : Decide(Asked(n, t, o)) = InnerDecide(Asked(n, t, o))
      BY <1>7 DEF Decide
    <2>2. filterList(n, tok) <=> innerFilter(n, tok)
      BY <1>7 DEF filterList
    <2> QED BY <1>2, <1>5, <1>6, <1>7, <2>1, <2>2 DEF easy
  <1>8. CASE route.jwt
    <2>1. ASSUME filterList(n, tok) PROVE Decide(best).allow
      <3>1. tok.valid /\ routeAudienceSatisfied(tok)
        BY <1>8, <2>1 DEF filterList
      <3>2. Asks(best) /\ best.target = n /\ n # Sampling /\ best.token = easy /\ best.killed = FALSE
        BY <1>1, <1>2
      <3>3. ~jwtBarred(best)
        BY <1>3, <3>1, <3>2 DEF jwtBarred, routeAudienceSatisfied
      <3>4. claimVerdict(best).allow
        <4>1. CASE HasCapabilities(tok)
          <5>1. PICK h \in buildConstraints(tok, n) : TRUE
            BY <1>8, <2>1, <4>1 DEF filterList
          <5>2. h \in tok.caps /\ n \in h.covers /\ tok.caps # None
            BY <4>1, <5>1 DEF buildConstraints, HasCapabilities
          <5>3. h \in CapHead
            <6>1. tok \in Token
              BY PointsAssumption
            <6>2. tok.caps \in SUBSET CapHead
              BY <5>2, <6>1 DEF Token
            <6> QED BY <5>2, <6>2
          <5>4. PICK g \in Unconditional(tok.caps) : g = [h EXCEPT !.cond = "none"]
            BY <5>2 DEF Unconditional
          <5>5. g.cond = "none" /\ g.covers = h.covers
            BY <5>3, <5>4 DEF CapHead
          <5>6. g \in buildConstraints(easy, n)
            BY <1>3, <5>2, <5>4, <5>5 DEF buildConstraints
          <5>7. claimVerdict(best) = newAllowResponse
            BY <1>3, <3>2, <4>1, <5>5, <5>6 DEF claimVerdict, evaluateJWTConditions
          <5> QED BY <5>7, PlainVerdicts
        <4>2. CASE ~HasCapabilities(tok)
          <5>1. innerEnforces
            BY <1>8, <2>1, <4>2 DEF filterList
          <5> QED BY <1>3, <3>2, <4>2, <5>1, PlainVerdicts DEF claimVerdict
        <4> QED BY <4>1, <4>2
      <3>5. innerFilter(n, tok)
        BY <1>8, <2>1 DEF filterList
      <3>6. Decide(best) = IF route.inner = "nil" THEN newAllowResponse ELSE InnerDecide(best)
        BY <1>8, <3>2, <3>3, <3>4, TokenDecision
      <3> QED BY <1>5, <3>5, <3>6, PlainVerdicts
    <2>2. ASSUME ~filterList(n, tok), NEW o \in Outcomes PROVE ~Decide(Asked(n, tok, o)).allow
      <3> DEFINE q == Asked(n, tok, o)
      <3>1. Asks(q) /\ q.target = n /\ q.target # Sampling /\ q.token = tok
        BY <1>1
      <3>2. ~innerFilter(n, tok) /\ route.inner # "nil" => ~InnerDecide(q).allow
        BY <1>6
      <3> SUFFICES ~Decide(q).allow
        OBVIOUS
      <3> HIDE DEF q
      <3>3. CASE jwtBarred(q) \/ ~claimVerdict(q).allow
        BY <1>8, <3>1, <3>3, TokenDecision, PlainVerdicts, UnmatchedVerdict
      <3>4. CASE ~jwtBarred(q) /\ claimVerdict(q).allow
        <4>1. tok.valid /\ routeAudienceSatisfied(tok)
          BY <3>1, <3>4 DEF jwtBarred
        <4>2. Decide(q) = IF route.inner = "nil" THEN newAllowResponse ELSE InnerDecide(q)
          BY <1>8, <3>1, <3>4, TokenDecision
        <4>3. CASE HasCapabilities(tok)
          <5>1. buildConstraints(tok, n) # {}
            BY <3>1, <3>4, <4>3, PlainVerdicts DEF claimVerdict, evaluateJWTConditions
          <5>2. ~innerFilter(n, tok)
            BY <1>8, <2>2, <4>1, <4>3, <5>1 DEF filterList
          <5>3. route.inner # "nil"
            BY <5>2 DEF innerFilter
          <5> QED BY <3>2, <4>2, <5>2, <5>3
        <4>4. CASE ~HasCapabilities(tok)
          <5>1. innerEnforces
            BY <3>1, <3>4, <4>4, PlainVerdicts DEF claimVerdict
          <5>2. ~innerFilter(n, tok) /\ route.inner # "nil"
            BY <1>8, <2>2, <4>1, <4>4, <5>1 DEF filterList, innerEnforces
          <5> QED BY <3>2, <4>2, <5>2
        <4> QED BY <4>3, <4>4
      <3> QED BY <3>3, <3>4
    <2> QED BY <2>1, <2>2 DEF easy
  <1> QED BY <1>7, <1>8 DEF Routes

-----------------------------------------------------------------------------
(* The pins. *)

\* A tool that was shown with two surfaces, in doubt, or off its pin is held back; one that
\* is not held back was only ever shown with its baseline.
PinsRecorded ==
  route # None /\ route.inner = "manifest" =>
    /\ \A t \in rotated : Pinned(t) /\ pinViolated(t)
    /\ \A t \in doubted : Broken(t)
    /\ \A t \in Tools : Broken(t) \/ seen[t] \subseteq {surface.hashes[t]}

PointsIInv ==
  /\ PointsTypeOK /\ PinsRecorded
  /\ route # None => (~route.jwt => route.inner # "nil")

SessionSurface == [hashes: [Tools -> Surfaces \cup {None}], broken: SUBSET Tools, all: BOOLEAN]

\* Under a manifest every caller's listing is recorded.
LEMMA ManifestArms ==
  ASSUME route \in Routes, route.inner = "manifest", NEW tok PROVE Arms(tok)
  BY DEF Arms, innerEnforces, Routes

LEMMA MarkBrokenAdds ==
  ASSUME NEW sf \in SessionSurface, NEW names \in SUBSET Tools, NEW m, m = markBroken(sf, names)
  PROVE  /\ m \in SessionSurface /\ m.hashes = sf.hashes
         /\ \A t : m.all \/ t \notin sf.broken \cup names \/ t \in m.broken
         /\ sf.all => m.all
  BY DEF markBroken, SessionSurface

LEMMA ObserveBaselines ==
  ASSUME NEW sf \in SessionSurface, NEW l \in Listing, NEW first \in [Tools -> Surfaces],
         \A t \in Tools : l.entries[t] # {} => first[t] \in l.entries[t],
         NEW m, m = Observe(sf, l, first)
  PROVE  /\ m \in SessionSurface /\ (sf.all => m.all)
         /\ \A t \in Tools : m.all \/ (t \in sf.broken => t \in m.broken)
         /\ \A t \in Tools : \/ m.all \/ t \in m.broken
                            \/ /\ sf.hashes[t] # None => m.hashes[t] = sf.hashes[t]
                               /\ l.entries[t] \subseteq {m.hashes[t]}
  <1> DEFINE fresh == {t \in Tools : sf.hashes[t] = None /\ l.entries[t] # {}}
             known == {t \in Tools : sf.hashes[t] # None}
             full == Cardinality(known \cup fresh) > MaxSurfaceEntries
             kept == [t \in Tools |-> IF t \in fresh THEN first[t] ELSE sf.hashes[t]]
             off == {t \in known \cup fresh : l.entries[t] \ {kept[t]} # {}}
             b == markBroken(sf, off)
  <1>1. m = IF full THEN [sf EXCEPT !.all = TRUE] ELSE [b EXCEPT !.hashes = kept]
    BY DEF Observe
  <1>2. kept \in [Tools -> Surfaces \cup {None}]
    BY DEF SessionSurface
  <1>3. off \in SUBSET Tools
    OBVIOUS
  <1>4. \A t \in Tools \ off : /\ sf.hashes[t] # None => kept[t] = sf.hashes[t]
                             /\ l.entries[t] \subseteq {kept[t]}
    OBVIOUS
  <1> HIDE DEF kept, off
  <1>5. /\ b \in SessionSurface /\ (sf.all => b.all)
        /\ \A t : b.all \/ t \notin sf.broken \cup off \/ t \in b.broken
    BY <1>3, MarkBrokenAdds
  <1> HIDE DEF b, full
  <1>6. CASE full
    BY <1>1, <1>6 DEF SessionSurface
  <1>7. CASE ~full
    <2>1. m = [b EXCEPT !.hashes = kept]
      BY <1>1, <1>7
    <2>2. m \in SessionSurface /\ m.all = b.all /\ m.broken = b.broken /\ m.hashes = kept
      BY <1>2, <1>5, <2>1 DEF SessionSurface
    <2> QED BY <1>4, <1>5, <2>2
  <1> QED BY <1>6, <1>7

LEMMA PointsStart == PointsInit => PointsIInv
  <1> SUFFICES ASSUME PointsInit PROVE PointsIInv
    OBVIOUS
  <1>1. /\ route = None \/ (route \in Routes /\ (~route.jwt => route.inner # "nil"))
        /\ poisoned = {} /\ doubted = {} /\ rotated = {}
        /\ surface = NoSurface /\ seen = [t \in Tools |-> {}]
    BY DEF PointsInit
  <1>2. PointsTypeOK
    BY <1>1 DEF PointsTypeOK, NoSurface
  <1>3. PinsRecorded
    BY <1>1 DEF PinsRecorded
  <1> QED BY <1>1, <1>2, <1>3 DEF PointsIInv

\* What a listing says about the pins when the route does not look at it.
LEMMA ListToolsKeeps ==
  ASSUME PointsIInv, route # None, NEW tok \in Tokens, ListTools(Arms(tok))
  PROVE  PointsIInv'
  <1>1. /\ route \in Routes /\ poisoned \subseteq Tools /\ surface \in SessionSurface
        /\ seen \in [Tools -> SUBSET Surfaces] /\ doubted \subseteq Tools /\ rotated \subseteq Tools
        /\ ~route.jwt => route.inner # "nil"
    BY DEF PointsIInv, PointsTypeOK, SessionSurface
  <1>2. PICK l \in Listings, first \in [Tools -> Surfaces] :
          /\ \A t \in Tools : l.entries[t] # {} => first[t] \in l.entries[t]
          /\ IF Arms(tok)
             THEN /\ poisoned' = armPinsFromToolsList(l)
                  /\ surface' = IF Unreadable(l) THEN [surface EXCEPT !.all = TRUE]
                                ELSE Observe(markBroken(surface, l.doubtful), l, first)
             ELSE UNCHANGED <<poisoned, surface>>
          /\ seen' = [t \in Tools |-> seen[t] \cup l.entries[t]]
          /\ doubted' = doubted \cup (IF Unreadable(l) THEN Tools ELSE l.doubtful)
          /\ rotated' = rotated \cup {t \in Tools : Pinned(t) /\ l.entries[t] \ {PinOf(t)} # {}}
    BY DEF ListTools
  <1>3. UNCHANGED route
    BY DEF ListTools
  <1>4. l \in Listing /\ l.entries \in [Tools -> SUBSET Surfaces] /\ l.doubtful \in SUBSET Tools
    BY PointsAssumption DEF Listing
  <1> DEFINE mid == markBroken(surface, l.doubtful)
             sf == IF Unreadable(l) THEN [surface EXCEPT !.all = TRUE] ELSE Observe(mid, l, first)
  <1>5. /\ mid \in SessionSurface /\ mid.hashes = surface.hashes
        /\ \A t : mid.all \/ t \notin surface.broken \cup l.doubtful \/ t \in mid.broken
        /\ surface.all => mid.all
    BY <1>1, <1>4, MarkBrokenAdds
  <1> HIDE DEF mid
  <1>6. /\ sf \in SessionSurface
        /\ Unreadable(l) => sf.all
        /\ \A t \in Tools : Broken(t) \/ t \in l.doubtful => sf.all \/ t \in sf.broken
        /\ \A t \in Tools : \/ sf.all \/ t \in sf.broken
                           \/ /\ surface.hashes[t] # None => sf.hashes[t] = surface.hashes[t]
                              /\ l.entries[t] \subseteq {sf.hashes[t]}
    <2>1. CASE Unreadable(l)
      <3>1. sf = [surface EXCEPT !.all = TRUE]
        BY <2>1
      <3>2. sf \in SessionSurface /\ sf.all = TRUE
        BY <1>1, <3>1 DEF SessionSurface
      <3> QED BY <3>2
    <2>2. CASE ~Unreadable(l)
      <3>1. sf = Observe(mid, l, first)
        BY <2>2
      <3> HIDE DEF sf
      <3>2. /\ sf \in SessionSurface /\ (mid.all => sf.all)
            /\ \A t \in Tools : sf.all \/ (t \in mid.broken => t \in sf.broken)
            /\ \A t \in Tools : \/ sf.all \/ t \in sf.broken
                               \/ /\ mid.hashes[t] # None => sf.hashes[t] = mid.hashes[t]
                                  /\ l.entries[t] \subseteq {sf.hashes[t]}
        BY <1>2, <1>4, <1>5, <3>1, ObserveBaselines
      <3>3. \A t \in Tools : Broken(t) \/ t \in l.doubtful => sf.all \/ t \in sf.broken
        BY <1>5, <3>2 DEF Broken
      <3> QED BY <1>5, <2>2, <3>2, <3>3
    <2> QED BY <2>1, <2>2
  <1>7. surface' \in SessionSurface /\ poisoned' \subseteq Tools
    BY <1>1, <1>2, <1>6 DEF armPinsFromToolsList, mid
  <1>8. /\ seen' \in [Tools -> SUBSET Surfaces] /\ doubted' \subseteq Tools /\ rotated' \subseteq Tools
    BY <1>1, <1>2, <1>4
  <1>9. PointsTypeOK'
    BY <1>1, <1>3, <1>7, <1>8 DEF PointsTypeOK, SessionSurface
  <1>10. ASSUME route.inner = "manifest"
         PROVE  /\ \A t \in rotated' : Pinned(t)' /\ pinViolated(t)'
                /\ \A t \in doubted' : Broken(t)'
                /\ \A t \in Tools : Broken(t)' \/ seen'[t] \subseteq {surface'.hashes[t]}
    <2>1. Arms(tok)
      BY <1>1, <1>10, ManifestArms
    <2>2. surface' = sf /\ poisoned' = armPinsFromToolsList(l)
      BY <1>2, <2>1 DEF mid
    <2> HIDE DEF sf
    <2>3. /\ \A t \in rotated : Pinned(t) /\ pinViolated(t)
          /\ \A t \in doubted : Broken(t)
          /\ \A t \in Tools : Broken(t) \/ seen[t] \subseteq {surface.hashes[t]}
      BY <1>1, <1>10 DEF PointsIInv, PinsRecorded
    <2>4. \A t : Pinned(t)' <=> Pinned(t)
      BY <1>3 DEF Pinned, Entries, caps, matchBare
    <2>5. \A t \in rotated' : Pinned(t)' /\ pinViolated(t)'
      BY <1>2, <2>2, <2>3, <2>4 DEF armPinsFromToolsList, pinViolated
    <2>6. \A t \in Tools : Broken(t)' <=> sf.all \/ t \in sf.broken
      BY <2>2 DEF Broken
    <2>7. \A t \in doubted' : Broken(t)'
      BY <1>1, <1>2, <1>4, <1>6, <2>3, <2>6
    <2>8. ASSUME NEW t \in Tools, ~Broken(t)' PROVE seen'[t] \subseteq {surface'.hashes[t]}
      <3>1. ~Broken(t) /\ l.entries[t] \subseteq {sf.hashes[t]}
            /\ (surface.hashes[t] # None => sf.hashes[t] = surface.hashes[t])
        BY <1>6, <2>6, <2>8
      <3>2. seen[t] \subseteq {surface.hashes[t]} /\ seen[t] \subseteq Surfaces
        BY <1>1, <2>3, <3>1
      <3>3. seen[t] \subseteq {sf.hashes[t]}
        BY <3>1, <3>2, PointsAssumption
      <3>4. seen'[t] = seen[t] \cup l.entries[t]
        BY <1>2
      <3> QED BY <2>2, <3>1, <3>3, <3>4
    <2> QED BY <2>5, <2>7, <2>8
  <1>11. PinsRecorded'
    BY <1>3, <1>10 DEF PinsRecorded
  <1> QED BY <1>1, <1>3, <1>9, <1>11 DEF PointsIInv

LEMMA ReleaseSessionKeeps ==
  ASSUME PointsIInv, ReleaseSession PROVE PointsIInv'
  <1>1. /\ UNCHANGED <<route, poisoned, rotated>> /\ doubted' = {}
        /\ surface' = NoSurface /\ seen' = [t \in Tools |-> {}]
    BY DEF ReleaseSession
  <1>2. PointsTypeOK'
    BY <1>1 DEF PointsIInv, PointsTypeOK, NoSurface
  <1>3. \A t : (Pinned(t)' <=> Pinned(t)) /\ (pinViolated(t)' <=> pinViolated(t))
    BY <1>1 DEF Pinned, Entries, caps, matchBare, pinViolated
  <1>4. PinsRecorded'
    BY <1>1, <1>3 DEF PointsIInv, PinsRecorded
  <1> QED BY <1>1, <1>2, <1>4 DEF PointsIInv

LEMMA PointsInductive == PointsIInv /\ [PointsNext]_pointVars => PointsIInv'
  <1> SUFFICES ASSUME PointsIInv, [PointsNext]_pointVars PROVE PointsIInv'
    OBVIOUS
  <1>1. ASSUME route # None, NEW tok \in Tokens, ListTools(Arms(tok)) PROVE PointsIInv'
    BY <1>1, ListToolsKeeps
  <1>2. ASSUME ReleaseSession PROVE PointsIInv'
    BY <1>2, ReleaseSessionKeeps
  <1>3. ASSUME UNCHANGED pointVars PROVE PointsIInv'
    <2>1. UNCHANGED route /\ UNCHANGED poisoned /\ UNCHANGED surface /\ UNCHANGED seen
          /\ UNCHANGED doubted /\ UNCHANGED rotated
      BY <1>3 DEF pointVars
    <2>2. \A t : (Pinned(t)' <=> Pinned(t)) /\ (pinViolated(t)' <=> pinViolated(t))
      BY <2>1 DEF Pinned, Entries, caps, matchBare, pinViolated
    <2>3. PinsRecorded'
      BY <2>1, <2>2 DEF PointsIInv, PinsRecorded, Broken
    <2>4. PointsTypeOK'
      BY <2>1 DEF PointsIInv, PointsTypeOK
    <2> QED BY <2>1, <2>3, <2>4 DEF PointsIInv
  <1> QED BY <1>1, <1>2, <1>3 DEF PointsNext

LEMMA PointsInvariant == PointsSpec => []PointsIInv
  BY PointsStart, PointsInductive, PTL DEF PointsSpec

\* Nothing forwards a call of a tool the pins know to have changed.
LEMMA HeldBackStays == ASSUME PointsIInv, route # None PROVE PinsHold
  <1>1. route \in Routes /\ seen \in [Tools -> SUBSET Surfaces] /\ doubted \subseteq Tools
        /\ rotated \subseteq Tools
    BY DEF PointsIInv, PointsTypeOK
  <1> DEFINE changed == {t \in Tools : Cardinality(seen[t]) > 1} \cup doubted \cup rotated
  <1> SUFFICES ASSUME route.inner = "manifest", NEW q \in QuestionsAbout(changed)
               PROVE  ~Forwards(Decide(q))
    BY DEF PinsHold
  <1>2. /\ \A t \in rotated : Pinned(t) /\ pinViolated(t)
        /\ \A t \in doubted : Broken(t)
        /\ \A t \in Tools : Broken(t) \/ seen[t] \subseteq {surface.hashes[t]}
    BY DEF PointsIInv, PinsRecorded
  <1>3. ASSUME NEW t \in Tools, Cardinality(seen[t]) > 1 PROVE Broken(t)
    <2> SUFFICES ASSUME seen[t] \subseteq {surface.hashes[t]} PROVE FALSE
      BY <1>2
    <2>1. /\ IsFiniteSet({surface.hashes[t]}) /\ Cardinality({surface.hashes[t]}) = 1
      BY FS_Singleton
    <2>2. Cardinality(seen[t]) <= 1 /\ Cardinality(seen[t]) \in Nat
      BY <2>1, FS_Subset, FS_CardinalityType
    <2> QED BY <1>3, <2>2
  <1>4. changed \subseteq Tools /\ \A t \in changed : HeldBack(t)
    BY <1>1, <1>2, <1>3 DEF HeldBack
  <1> HIDE DEF changed
  <1>5. Asks(q) /\ q.target \in changed /\ q.target # Sampling
    BY <1>4, ToolQuestions
  <1>6. Decide(q) = hardDenyResponse
    BY <1>1, <1>4, <1>5, UnderManifest
  <1> QED BY <1>6, PlainVerdicts

\* What the pins keep is of its type.
THEOREM PointsTypeCorrect == PointsSpec => []PointsTypeOK
  BY PointsInvariant, PTL DEF PointsIInv

\* Whatever series of listings an upstream sends, and whoever asks, a tool whose surface
\* changed is not forwarded and the list a caller is shown is the list of what it may call
\* (armPinsFromToolsList, SurfaceBaseline.Observe, decideTarget, HardenRefusal, filterList).
THEOREM SurfaceStaysEnforced == PointsSpec => []SurfaceIsEnforced
  <1>1. PointsIInv => SurfaceIsEnforced
    <2> SUFFICES ASSUME PointsIInv, route # None PROVE PinsHold /\ ListAgreesWithDecide
      BY DEF SurfaceIsEnforced
    <2>1. route \in Routes /\ (~route.jwt => route.inner # "nil")
      BY DEF PointsIInv, PointsTypeOK
    <2> QED BY <2>1, HeldBackStays, ListAgrees
  <1> QED BY <1>1, PointsInvariant, PTL

\* Whichever entry, posture or layer forwards a call, its redactions and labels go along
\* (withForwardObligations, withForwardObligationsFor, recordAuditModeAntecedent).
THEOREM DutiesFollowForwards == PointsSpec => []ForwardsCarryTheirDuties
  <1>1. PointsIInv => ForwardsCarryTheirDuties
    BY RedactionFollows, LabelsFollow DEF ForwardsCarryTheirDuties, PointsIInv, PointsTypeOK
  <1> QED BY <1>1, PointsInvariant, PTL

\* A token narrows what the point it wraps would do, for calls, for cancellations and for
\* sampling under a token without a capability list; where a capability list denies sampling
\* it does not, on an observing route (JWTPDP.Decide, DecideSampling, withInnerVerdicts,
\* DecideResourceCancel).
THEOREM TokensOnlyRestrict == PointsSpec => []TokenRestricts
  <1>1. PointsIInv => TokenRestricts
    BY TokenOnly, Cancellable DEF TokenRestricts, PointsIInv, PointsTypeOK
  <1> QED BY <1>1, PointsInvariant, PTL
===============================================================================
