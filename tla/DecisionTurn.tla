----------------------------- MODULE DecisionTurn -----------------------------
(***************************************************************************)
(* What both transports' decision turns promise: the decisions on one      *)
(* state anchor run one at a time.  A flow-label source's write and a      *)
(* sink's read are two requests; without the turn a sink decides on a set  *)
(* its source has not reached yet (internal/transport/serialize.go,        *)
(* anchor_gate.go).                                                        *)
(***************************************************************************)
CONSTANTS Anchors, Requests

VARIABLE inTurn   \* per anchor: the requests deciding on it now

DInit == inTurn = [a \in Anchors |-> {}]

Enter(a, r) ==
  /\ inTurn[a] = {}
  /\ inTurn' = [inTurn EXCEPT ![a] = {r}]

Leave(a) ==
  /\ inTurn[a] # {}
  /\ inTurn' = [inTurn EXCEPT ![a] = {}]

DNext == \E a \in Anchors : Leave(a) \/ \E r \in Requests : Enter(a, r)

DSpec == DInit /\ [][DNext]_inTurn
===============================================================================
