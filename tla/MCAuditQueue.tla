----------------------------- MODULE MCAuditQueue -----------------------------
\* Instances of AuditQueue: two probes of one target and one or two of another,
\* of different sizes.
EXTENDS AuditQueue

CONSTANTS r1, r2, r3, r4

MCSize == [r \in Records |-> IF r = r3 THEN 2 ELSE 1]
MCTarget == [r \in Records |-> IF r \in {r1, r2} THEN "read" ELSE "write"]
===============================================================================
