----------------------------- MODULE MCAnchorGates ----------------------------
(* AnchorGates for TLC: two sessions that share an anchor.                        *)
EXTENDS AnchorGates

CONSTANTS a1, a2, a3, s1, s2, r1, r2, r3

\* s2 is pinned to a2, and s1, pinned to a1, spans to it and to a3, more than its
\* cache holds.
MCSessionOf == [r \in Requests |-> IF r = r3 THEN s2 ELSE s1]
MCAnchorOf == [r \in Requests |-> IF r = r2 THEN a3 ELSE a2]
MCPinAnchor == [s \in Sessions |-> IF s = s1 THEN a1 ELSE a2]
===============================================================================
