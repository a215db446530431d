------------------------- MODULE MCKillSwitchRedis -------------------------
(* KillSwitchRedis for TLC: without a clock, over the global stop and a      *)
(* session tombstone that expires; and with one, over the global stop alone, *)
(* where scans take time and a confirmed refresh grows stale.                *)
EXTENDS KillSwitchRedis

CONSTANTS r1, r2, global, session

VARIABLE timed   \* this behaviour has a clock

\* The global key is read first, then the session dimension.
MCDimension == [k \in Keys |-> IF k = Global THEN 0 ELSE 1]

Timed == INSTANCE KillSwitchRedis
           WITH Keys <- {Global}, Dimension <- [k \in {Global} |-> 0],
                Expirable <- {}, MaxScan <- 1, MaxFaults <- 2

\* Bound of the timed behaviours: two operations race, or one meets two faults.
TimedBound == ops' <= 1 \/ faults' = 0

MCInit == \/ timed = FALSE /\ Init
          \/ timed = TRUE /\ Timed!Init

MCNext ==
  /\ UNCHANGED timed
  /\ \/ ~timed /\ Next
     \/ timed /\ (Timed!Next \/ Timed!Tick) /\ TimedBound

\* KillSwitchRedis.Fairness for the behaviours without a clock.
MCFairness ==
  \A i \in Replicas :
    /\ WF_vars(~timed /\ UpdateCache(i)) /\ WF_vars(~timed /\ Publish(i))
    /\ WF_vars(~timed /\ (SweepKey(i) \/ SweepFails(i)))
    /\ WF_vars(~timed /\ ClearCache(i)) /\ WF_vars(~timed /\ Reseed(i))
    /\ WF_vars(~timed /\ Start(i)) /\ WF_vars(~timed /\ BeginRefresh(i))
    /\ WF_vars(~timed /\ (ScanKey(i) \/ RefreshFails(i) \/ RetryRefresh(i) \/ CommitRefresh(i)))
    /\ WF_vars(~timed /\ Deliver(i)) /\ WF_vars(~timed /\ Heal(i))

MCSpec == MCInit /\ [][MCNext]_<<vars, timed>> /\ MCFairness

\* When operators and faults cease, every running replica's cache comes to agree with
\* Redis and stays so, whatever was lost or reordered.
CachesConverge == <>[](timed \/ \A i \in Replicas : life[i] = "started" => cache[i] = durable)
=============================================================================
