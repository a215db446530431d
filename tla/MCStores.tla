------------------------------ MODULE MCStores ------------------------------
(* The state the gateway keeps between requests, one store at a time: a      *)
(* behaviour is about the store it starts with, the others stand still.      *)
EXTENDS CallCounterRedis, FlowLabelStore, SessionKillTTL
CONSTANTS r1, r2, rate, spend, seen

VARIABLES entries, stale, reply,   \* of the in-memory counter
          inUse                    \* the store this behaviour is about

mvars == <<entries, stale, reply>>

Count(k, limit) == [key |-> k, counted |-> TRUE, weight |-> 0, limit |-> limit]
Weigh(k, w, limit) == [key |-> k, counted |-> FALSE, weight |-> w, limit |-> limit]

(* Two replicas with clocks one tick apart; a counted bucket (rate), a weighted *)
(* one (spend) and a call history (seen).                                       *)
MCSkew == [i \in {r1, r2} |-> IF i = r1 THEN 0 ELSE 1]
MCWindow == [k \in Keys |-> 2]
MCBatches ==
  {<<Count(rate, 1), Weigh(spend, 2, 3)>>,
   <<Weigh(spend, 1, 3)>>}
MCHistories == {[key |-> seen, cap |-> 1]}

(* In memory the weighted bucket is also read by a counted limit. *)
MemWindow == [k \in Keys |-> IF k = spend THEN 2 ELSE 1]
MemBatches ==
  {<<Count(rate, 2)>>,
   <<Weigh(spend, 2, 3)>>,
   <<Weigh(spend, 0, 3), Count(rate, 2)>>,
   <<Count(rate, 2), Weigh(spend, 1, 3)>>,
   <<Count(spend, 3)>>,
   <<Weigh(spend, 4, 3)>>,
   <<Count(rate, 2), Count(rate, 2)>>}
MemHistories == {[key |-> seen, cap |-> 2]}
Memory == INSTANCE CallCounterMemory
            WITH Window <- MemWindow, Batches <- MemBatches, Histories <- MemHistories, MaxKeys <- 2

MCFlags == {-1, 0, 1}

StoresInit ==
  /\ Init /\ Memory!Init /\ LabelsInit /\ LifetimeInit
  /\ inUse \in {"counter in Redis", "counter in memory", "labels in memory", "kill lifetimes"}

StoresNext ==
  \/ inUse = "counter in Redis"  /\ Next /\ UNCHANGED <<mvars, lvars, tvars, inUse>>
  \/ inUse = "counter in memory" /\ Memory!Next /\ UNCHANGED <<vars, lvars, tvars, inUse>>
  \/ inUse = "labels in memory"  /\ LabelsNext /\ UNCHANGED <<vars, mvars, tvars, inUse>>
  \/ inUse = "kill lifetimes"    /\ LifetimeNext /\ UNCHANGED <<vars, mvars, lvars, inUse>>

StoresSpec == StoresInit /\ [][StoresNext]_<<vars, mvars, lvars, tvars, inUse>>

InMemory == inUse = "counter in memory"

\* The in-memory counter implements the ledger (CallCounterMemory.ImplementsLedger): no
\* pruning, trimming or sweep of InMemory ever loses or invents a call of a window.
MemoryImplementsLedger ==
  /\ Memory!Ledger!LInit
  /\ [][InMemory => [Memory!Ledger!LNext]_(Memory!Ledger!lvars)]_mvars

\* Its denials name a time after which the same call fits (CallCounterMemory.HonestDenial,
\* bucketRetryAfter).
MemoryRetryAfterHonest == [][InMemory => Memory!HonestDenial]_mvars

\* The in-memory counter is a ledger whose denials are honest (MemoryImplementsLedger,
\* MemoryRetryAfterHonest).
MemoryCounterIsALedger == MemoryImplementsLedger /\ MemoryRetryAfterHonest
=============================================================================
