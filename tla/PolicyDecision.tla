---------------------------- MODULE PolicyDecision ----------------------------
(***************************************************************************)
(* One policy decision against shared state (internal/pdp/pdp.go,          *)
(* pkg/enforcement/engine.go, flowlabel.go, handlers.go).  A request is    *)
(* decided under its anchor's turn: the manifest layer may refuse it, the  *)
(* engine peeks the anchor's flow labels, runs the pure conditions and the *)
(* effect ceiling, commits the quota, then records the call's own labels   *)
(* and its sequenceBlock markers before the call may be forwarded.  On an  *)
(* observing route a downgradable refusal is forwarded too, and must leave *)
(* the same record.                                                        *)
(*                                                                         *)
(* Several proxy instances may share the two stores.  A turn excludes only *)
(* within its own instance, so every store call is a step of its own, and  *)
(* any of them may fail before or after it took effect.                    *)
(***************************************************************************)
EXTENDS Naturals, FiniteSets

CONSTANTS
  Requests,    \* each is decided once
  Instances,   \* proxy processes that share the label store and the counter
  Sessions, Tasks, NoTask,
  Labels,      \* flow-label classes
  Names,       \* history keys of targets, bare-spelling aliases included
  Calls,       \* the calls a request may be (see CallShape)
  Limit,       \* the quota of one anchor's bucket
  MaxEnds      \* bound: session teardowns during a behaviour

VARIABLES
  labels,      \* flow-label store: the labels under an anchor's key
  history,     \* counter store: the sequenceBlock markers under an anchor's key
  used,        \* counter store: the quota slots spent in an anchor's bucket
  call,        \* per request: what it asks for and the policy that meets it
  pc,          \* per request: how far its decision is
  carried,     \* per request: the label snapshot of its response
  observing,   \* requests whose refusal is being downgraded to a forward
  ends,        \* teardowns so far
  ended,       \* history: forwarded requests whose session's labels were released
  due          \* history: what had been forwarded when a request took its turn

storeVars == <<labels, history, used>>
vars == <<labels, history, used, call, pc, carried, observing, ends, ended, due>>

Anchors == Sessions \cup Tasks

(***************************************************************************)
(* What the matched constraint and the request's arguments decide of a     *)
(* call.  sink/allow and declared are its flowLabel condition, after its   *)
(* sequenceBlock condition, out its labelOutput directives, quota whether  *)
(* it carries a committing condition, over whether its effect exceeds the  *)
(* ceiling.  name and alias are the history markers the commit writes; an  *)
(* empty name is a policy without sequenceBlock, or an unmatched target    *)
(* that none queries.  matched is FALSE when no constraint was selected,   *)
(* wellFormed FALSE when the action list or the argument schema refuses,   *)
(* barred TRUE for a kill or a broken pin, anchorless TRUE for a token     *)
(* without the task id that the route anchors its state on.                *)
(***************************************************************************)
CallShape ==
  [instance: Instances, session: Sessions, task: Tasks \cup {NoTask},
   barred: BOOLEAN, matched: BOOLEAN, wellFormed: BOOLEAN, anchorless: BOOLEAN,
   sink: BOOLEAN, allow: SUBSET Labels, declared: SUBSET Labels, out: SUBSET Labels,
   after: SUBSET Names, name: SUBSET Names, alias: SUBSET Names,
   quota: BOOLEAN, over: BOOLEAN, observe: {"no", "entry", "route"}]

ASSUME CallAssumption ==
  /\ Calls \subseteq CallShape
  /\ \A c \in Calls : (c.anchorless => c.task = NoTask) /\ (c.alias # {} => c.name # {})
  /\ NoTask \notin Tasks /\ Sessions \cap Tasks = {}
  /\ Limit \in Nat /\ MaxEnds \in Nat

resolveAnchor(c) == IF c.task # NoTask THEN c.task ELSE c.session

Key(r) == resolveAnchor(call[r])

Deciding == {"peek", "judge", "admit", "repeek", "label", "alias", "name", "rollback"}
Closed == {"forwarded", "denied", "faulted", "undone"}

ConstraintHasFlow(c) == c.out # {} \/ (c.matched /\ c.sink)

WillForwardDeny(c) == c.observe = "route" \/ (c.matched /\ c.observe = "entry")

Init ==
  /\ labels = [a \in Anchors |-> {}]
  /\ history = [a \in Anchors |-> {}]
  /\ used = [a \in Anchors |-> 0]
  /\ call \in [Requests -> Calls]
  /\ pc = [r \in Requests |-> "waiting"]
  /\ carried = [r \in Requests |-> {}]
  /\ observing = {}
  /\ ends = 0 /\ ended = {}
  /\ due = [r \in Requests |-> [labels |-> {}, names |-> {}]]

-------------------------------------------------------------------------------
(***************************************************************************)
(* Where a decision goes next.  recordSourceCall writes the labels, then   *)
(* the alias marker, then the marker itself, each only if there is one.    *)
(***************************************************************************)
recordAntecedentIn(c) ==
  IF c.alias # {} THEN "alias" ELSE IF c.name # {} THEN "name" ELSE "forwarded"

recordSourceCall(c) ==
  IF c.anchorless /\ (c.matched \/ c.out # {} \/ c.name # {}) THEN "denied"
  ELSE IF c.out # {} THEN "label" ELSE recordAntecedentIn(c)

(***************************************************************************)
(* A policy refusal.  Where the posture forwards it, the call will run, so *)
(* its state is recorded first; an empty snapshot is indistinguishable     *)
(* from none and is peeked again, for a constraint with flow only.         *)
(***************************************************************************)
recordAuditModeAntecedent(c, snapshot) ==
  IF ~WillForwardDeny(c) THEN "denied"
  ELSE IF ConstraintHasFlow(c) /\ snapshot = {} THEN "repeek"
  ELSE recordSourceCall(c)

Goto(r, step) == pc' = [pc EXCEPT ![r] = step]

Downgrade(r) ==
  /\ Goto(r, recordAuditModeAntecedent(call[r], carried[r]))
  /\ observing' = observing \cup {r}

TurnFree(r) ==
  \A q \in Requests :
    pc[q] \in Deciding => ~(call[q].instance = call[r].instance /\ Key(q) = Key(r))

Forwarded(a) == {q \in Requests : pc[q] = "forwarded" /\ Key(q) = a}

TakeTurn(r) ==
  /\ pc[r] = "waiting" /\ TurnFree(r)
  /\ due' = [due EXCEPT ![r] =
       [labels |-> UNION {call[q].out : q \in Forwarded(Key(r)) \ ended},
        names |-> UNION {call[q].alias \cup call[q].name : q \in Forwarded(Key(r))}]]
  /\ UNCHANGED <<storeVars, call, carried, ends, ended>>

-------------------------------------------------------------------------------
(***************************************************************************)
(* decideTarget up to the engine: a kill or a broken pin blocks on every   *)
(* route; no match, a forbidden action or a bad argument is downgradable.  *)
(***************************************************************************)
Bar(r) == TakeTurn(r) /\ call[r].barred /\ Goto(r, "denied") /\ UNCHANGED observing

RefuseUnmatched(r) ==
  /\ TakeTurn(r)
  /\ ~call[r].barred /\ ~(call[r].matched /\ call[r].wellFormed)
  /\ Downgrade(r)

EvaluateConditions(r) ==
  /\ TakeTurn(r)
  /\ ~call[r].barred /\ call[r].matched /\ call[r].wellFormed
  /\ Goto(r, IF call[r].anchorless THEN "denied"
             ELSE IF ConstraintHasFlow(call[r]) THEN "peek" ELSE "judge")
  /\ UNCHANGED observing

peekSessionLabels(r) ==
  /\ pc[r] = "peek"
  /\ \/ carried' = [carried EXCEPT ![r] = labels[Key(r)]] /\ Goto(r, "judge")
     \/ UNCHANGED carried /\ Goto(r, "faulted")
  /\ UNCHANGED <<storeVars, call, observing, ends, ended, due>>

(***************************************************************************)
(* The pure conditions, then the ceiling.  The manifest orders the flow    *)
(* and the history condition, so a failing history lookup may or may not   *)
(* come before a flow verdict.  An over-ceiling call that every condition  *)
(* passes is blocked on every route.                                       *)
(***************************************************************************)
FlowLabelHolds(r) == call[r].sink => carried[r] \cup call[r].declared \subseteq call[r].allow

SequenceBlockHolds(r) == call[r].after \cap history[Key(r)] = {}

ConditionsPass(r) == FlowLabelHolds(r) /\ SequenceBlockHolds(r)

AfterCeiling(c) ==
  IF c.over THEN "denied"
  ELSE IF c.quota /\ c.observe # "route" THEN "admit" ELSE recordSourceCall(c)

runPureConditions(r) ==
  /\ pc[r] = "judge"
  /\ \/ ConditionsPass(r) /\ Goto(r, AfterCeiling(call[r])) /\ UNCHANGED observing
     \/ ~ConditionsPass(r) /\ Downgrade(r)
     \/ call[r].after # {} /\ Goto(r, "faulted") /\ UNCHANGED observing
  /\ UNCHANGED <<storeVars, call, carried, ends, ended, due>>

(***************************************************************************)
(* commitDeferredConditions: the one atomic admission of the quota.        *)
(***************************************************************************)
Spend(r) == used' = [used EXCEPT ![Key(r)] = @ + 1]

commitDeferredConditions(r) ==
  /\ pc[r] = "admit"
  /\ \/ /\ used[Key(r)] < Limit /\ Spend(r)
        /\ Goto(r, recordSourceCall(call[r])) /\ UNCHANGED observing
     \/ used[Key(r)] >= Limit /\ UNCHANGED used /\ Downgrade(r)
     \/ /\ UNCHANGED used \/ (used[Key(r)] < Limit /\ Spend(r))
        /\ Goto(r, "faulted") /\ UNCHANGED observing
  /\ UNCHANGED <<labels, history, call, carried, ends, ended, due>>

PeekForForward(r) ==
  /\ pc[r] = "repeek"
  /\ \/ /\ carried' = [carried EXCEPT ![r] = labels[Key(r)]]
        /\ Goto(r, recordSourceCall(call[r]))
     \/ UNCHANGED carried /\ Goto(r, "faulted")
  /\ UNCHANGED <<storeVars, call, observing, ends, ended, due>>

-------------------------------------------------------------------------------
(***************************************************************************)
(* recordSourceCall's store calls.  A failed antecedent write takes back   *)
(* the labels this call added to its snapshot, except under a task key.    *)
(***************************************************************************)
AddLabels(r) == labels' = [labels EXCEPT ![Key(r)] = @ \cup call[r].out]

recordLabels(r) ==
  /\ pc[r] = "label"
  /\ \/ AddLabels(r) /\ Goto(r, recordAntecedentIn(call[r]))
     \/ (AddLabels(r) \/ UNCHANGED labels) /\ Goto(r, "faulted")
  /\ UNCHANGED <<history, used, call, carried, observing, ends, ended, due>>

AllLabels(r) == call[r].out
labelsAdded(r) == call[r].out \ carried[r]

RollBackAlways(r) == IF labelsAdded(r) # {} THEN "rollback" ELSE "faulted"

AfterFailedMarker(r) ==
  IF labelsAdded(r) # {} /\ call[r].task = NoTask THEN "rollback" ELSE "faulted"

Mark(r, names) == history' = [history EXCEPT ![Key(r)] = @ \cup names]

RecordAlias(r) ==
  /\ pc[r] = "alias"
  /\ \/ Mark(r, call[r].alias) /\ Goto(r, "name")
     \/ (Mark(r, call[r].alias) \/ UNCHANGED history) /\ Goto(r, AfterFailedMarker(r))
  /\ UNCHANGED <<labels, used, call, carried, observing, ends, ended, due>>

RecordIgnoringFault(r) ==
  /\ pc[r] = "name"
  /\ (Mark(r, call[r].name) \/ UNCHANGED history) /\ Goto(r, "forwarded")
  /\ UNCHANGED <<labels, used, call, carried, observing, ends, ended, due>>

RecordSessionCall(r) ==
  /\ pc[r] = "name"
  /\ \/ Mark(r, call[r].name) /\ Goto(r, "forwarded")
     \/ (Mark(r, call[r].name) \/ UNCHANGED history) /\ Goto(r, AfterFailedMarker(r))
  /\ UNCHANGED <<labels, used, call, carried, observing, ends, ended, due>>

TakeBackCarried(r) == labels' = [labels EXCEPT ![Key(r)] = @ \ carried[r]]
TakeBack(r) == labels' = [labels EXCEPT ![Key(r)] = @ \ labelsAdded(r)]

rollbackLabels(r) ==
  /\ pc[r] = "rollback"
  /\ \/ TakeBack(r) /\ Goto(r, "undone")
     \/ (TakeBack(r) \/ UNCHANGED labels) /\ Goto(r, "faulted")
  /\ UNCHANGED <<history, used, call, carried, observing, ends, ended, due>>

(***************************************************************************)
(* An instance's teardown of a session it has, once its decisions there    *)
(* are drained: the session's own label key is cleared, best effort.       *)
(***************************************************************************)
Clear(s) == labels' = [labels EXCEPT ![s] = {}]

ClearSessionLabels(i, s) ==
  /\ ends < MaxEnds
  /\ \E c \in Calls : c.instance = i /\ c.session = s
  /\ \A r \in Requests :
       call[r].instance = i /\ call[r].session = s => pc[r] \notin Deciding
  /\ ends' = ends + 1
  /\ Clear(s) \/ UNCHANGED labels
  /\ ended' = ended \cup {r \in Forwarded(s) : call[r].instance = i}
  /\ UNCHANGED <<history, used, call, pc, carried, observing, due>>

Finished == (\A r \in Requests : pc[r] \in Closed) /\ UNCHANGED vars

Step(r) ==
  \/ Bar(r) \/ RefuseUnmatched(r) \/ EvaluateConditions(r)
  \/ peekSessionLabels(r) \/ runPureConditions(r) \/ commitDeferredConditions(r)
  \/ PeekForForward(r) \/ recordLabels(r) \/ RecordAlias(r) \/ RecordSessionCall(r)
  \/ rollbackLabels(r)

Next ==
  \/ \E r \in Requests : Step(r)
  \/ \E i \in Instances, s \in Sessions : ClearSessionLabels(i, s)
  \/ Finished

Spec == Init /\ [][Next]_vars

-------------------------------------------------------------------------------
\* The variables keep their types, and no bucket is charged past its limit.
TypeOK ==
  /\ labels \in [Anchors -> SUBSET Labels]
  /\ history \in [Anchors -> SUBSET Names]
  /\ used \in [Anchors -> 0..Limit]
  /\ call \in [Requests -> Calls]
  /\ pc \in [Requests -> Deciding \cup Closed \cup {"waiting"}]
  /\ carried \in [Requests -> SUBSET Labels]
  /\ observing \subseteq Requests
  /\ ends \in 0..MaxEnds /\ ended \subseteq Requests
  /\ due \in [Requests -> [labels: SUBSET Labels, names: SUBSET Names]]

Allowed(r) == pc[r] = "forwarded" /\ r \notin observing

(***************************************************************************)
(* Information flow (handleFlowLabel, recordSourceCall): a call is allowed *)
(* through a sink only if the sink permits the labels of every source that *)
(* had been forwarded on its anchor when its decision began, whether that  *)
(* source was allowed or observed, on this instance or on another.         *)
(***************************************************************************)
SinkSeesEarlierTaint ==
  \A r \in Requests : Allowed(r) /\ call[r].sink => due[r].labels \subseteq call[r].allow

(***************************************************************************)
(* sequenceBlock (handleSequenceBlock, RecordSessionCall): no call is      *)
(* allowed after a target it must not follow was forwarded on its anchor.  *)
(***************************************************************************)
SequenceGateHolds ==
  \A r \in Requests : Allowed(r) => due[r].names \cap call[r].after = {}

(***************************************************************************)
(* A forwarded call is on record: its markers are in the anchor's history, *)
(* and its labels are in the anchor's set until the session it was made on *)
(* has been torn down (recordSourceCall, recordAuditModeAntecedent,        *)
(* rollbackLabels, ClearSessionLabels).                                    *)
(***************************************************************************)
Recorded(r) ==
  /\ call[r].alias \cup call[r].name \subseteq history[Key(r)]
  /\ r \notin ended => call[r].out \subseteq labels[Key(r)]

ForwardedIsOnRecord == \A r \in Requests : pc[r] = "forwarded" => Recorded(r)

(***************************************************************************)
(* evaluateMatched's ordering: every spent quota slot belongs to a call    *)
(* that no check refused - it is allowed, committing, or was stopped by a  *)
(* fault - and every allowed call that carries a quota has paid for it.    *)
(***************************************************************************)
Payers(a) == {r \in Requests : Key(r) = a /\ call[r].quota /\ call[r].observe # "route"
                               /\ r \notin observing}

QuotaPaidByTheUnrefused ==
  \A a \in Anchors :
    /\ used[a] <= Cardinality({r \in Payers(a) :
         pc[r] \in {"label", "alias", "name", "rollback", "forwarded", "faulted", "undone"}})
    /\ Cardinality({r \in Payers(a) :
         pc[r] \in {"label", "alias", "name", "rollback", "forwarded", "undone"}}) <= used[a]

(***************************************************************************)
(* No phantom state: a label or a marker under a key was put there by a    *)
(* call that is forwarded, still committing, or was stopped by a fault     *)
(* while it was recorded; a call refused by policy leaves none, and one    *)
(* whose rollback succeeded leaves no label.                               *)
(***************************************************************************)
NoPhantomState ==
  \A a \in Anchors :
    /\ \A l \in labels[a] : \E r \in Requests :
         /\ Key(r) = a /\ l \in call[r].out
         /\ pc[r] \in {"alias", "name", "rollback", "forwarded", "faulted"}
    /\ \A n \in history[a] : \E r \in Requests :
         /\ Key(r) = a /\ n \in call[r].alias \cup call[r].name
         /\ pc[r] \in {"name", "rollback", "forwarded", "faulted", "undone"}

(***************************************************************************)
(* The two kinds of state shared between requests stay true to what was    *)
(* decided (commitDeferredConditions, recordSourceCall, rollbackLabels): a *)
(* quota slot is spent by exactly the calls that were not refused, and no  *)
(* label or history mark is of a call that was never let through.          *)
(***************************************************************************)
StateIsOfTheForwarded == QuotaPaidByTheUnrefused /\ NoPhantomState

(***************************************************************************)
(* The effect ceiling (checkEffectCeiling): "not whether the action        *)
(* happens" - no posture forwards a call whose effect exceeds the ceiling. *)
(***************************************************************************)
OverCeilingNeverRuns ==
  \A r \in Requests : call[r].over /\ call[r].matched => pc[r] # "forwarded"

\* Every session key belongs to one instance: ids are minted, or callers are sticky.
SessionsPrivate == \A c, d \in Calls : c.session = d.session => c.instance = d.instance
===============================================================================
