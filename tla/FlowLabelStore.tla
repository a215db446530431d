--------------------------- MODULE FlowLabelStore ---------------------------
(***************************************************************************)
(* The in-memory flow-label store of pkg/flowlabelstore/memory.go: the      *)
(* labels each anchor has accumulated, an optional idle TTL that every Add  *)
(* and Get pushes back, and a ceiling on the anchors held.  Three paths     *)
(* reclaim an idle anchor: the access that finds it idle, the inline sweep  *)
(* of an Add at the ceiling, and the background Cleanup, which scans under  *)
(* the read lock and deletes, batch by batch, under the write lock.         *)
(*                                                                         *)
(* An operation is one section under m.mu and reads the clock in it.  The   *)
(* touch time is kept as the idle time, saturated at the TTL.               *)
(***************************************************************************)
EXTENDS Naturals, FiniteSets

CONSTANTS Anchors, Labels,
          IdleTTL,         \* effectiveTTL: 0 disables reclamation
          MaxAnchors,      \* WithMaxKeys: 0 is unbounded
          ReclaimInterval  \* DefaultCleanupInterval, the least time between inline sweeps

ASSUME LabelStoreAssumption ==
  IdleTTL \in Nat /\ MaxAnchors \in Nat /\ ReclaimInterval \in Nat \ {0}

VARIABLES labels,       \* the labels of every anchor; {} is an anchor without an entry
          idle,         \* ticks since the entry was last touched
          lastReclaim,  \* ticks since the last inline sweep, saturated
          cleaner,      \* the goroutine of StartCleanup: "off", "on", "cancelled"
          doomed,       \* anchors a running Cleanup found idle and has still to delete
          scanning,     \* a Cleanup has read its clock and not scanned yet
          lag,          \* ticks since it did
          taint,        \* history: what each anchor was given since it was last idle or clean
          quiet         \* history: ticks since its last Add or Get

store == <<labels, idle>>
lvars == <<labels, idle, lastReclaim, cleaner, doomed, scanning, lag, taint, quiet>>
sweeper == <<cleaner, doomed, scanning, lag>>

Held == {a \in Anchors : labels[a] # {}}

LabelsInit ==
  /\ labels = [a \in Anchors |-> {}] /\ idle = [a \in Anchors |-> 0]
  /\ lastReclaim = ReclaimInterval
  /\ cleaner = "off" /\ doomed = {} /\ scanning = FALSE /\ lag = 0
  /\ taint = [a \in Anchors |-> {}] /\ quiet = [a \in Anchors |-> 0]

idleFor(a) == idle[a]
Idled(a) == IdleTTL > 0 /\ idleFor(a) >= IdleTTL
\* live: the entry is there and has not idled out.
live(a) == a \in Held /\ ~Idled(a)

\* The anchors of D are no longer in the map.
Without(D) == [a \in Anchors |-> IF a \in D THEN {} ELSE labels[a]]
Touched(a, t) == [t EXCEPT ![a] = 0]
-----------------------------------------------------------------------------
\* admitNewKey may sweep first, at most once per interval.
MayReclaim == IdleTTL > 0 /\ lastReclaim >= ReclaimInterval
reclaimIdle(D) == D \cup {a \in Held : Idled(a)}
AtCeiling(D) == MaxAnchors > 0 /\ Cardinality(Held \ D) >= MaxAnchors

\* An idled-out entry is dropped before its anchor counts as new.
Forgotten(a) == IF live(a) THEN {} ELSE {a}

Give(a, L, D) ==
  /\ labels' = [Without(D) EXCEPT ![a] = @ \cup L]
  /\ idle' = Touched(a, idle)
  /\ taint' = [taint EXCEPT ![a] = @ \cup L]
  /\ quiet' = Touched(a, quiet)

AddLabels(a, L) ==
  LET D == Forgotten(a)
      swept == reclaimIdle(D)
  IN  /\ \/ /\ live(a) \/ ~AtCeiling(D)
            /\ Give(a, L, D)
            /\ UNCHANGED lastReclaim
         \/ /\ ~live(a) /\ AtCeiling(D) /\ MayReclaim
            /\ lastReclaim' = 0
            /\ \/ ~AtCeiling(swept) /\ Give(a, L, swept)
               \/ AtCeiling(swept) /\ labels' = Without(swept) /\ UNCHANGED <<idle, taint, quiet>>
         \* Refused: the engine denies the call that would have carried the label.
         \/ /\ ~live(a) /\ AtCeiling(D) /\ ~MayReclaim
            /\ labels' = Without(D)
            /\ UNCHANGED <<lastReclaim, idle, taint, quiet>>
      /\ UNCHANGED sweeper

GetLabels(a) ==
  /\ live(a)
  /\ idle' = Touched(a, idle) /\ quiet' = Touched(a, quiet)
  /\ UNCHANGED <<labels, lastReclaim, sweeper, taint>>

\* A rollback is not activity: it does not push the TTL back.
RemoveLabels(a, L) ==
  /\ labels' = IF live(a) THEN [labels EXCEPT ![a] = @ \ L] ELSE Without({a})
  /\ taint' = [taint EXCEPT ![a] = @ \ L]
  /\ UNCHANGED <<idle, lastReclaim, sweeper, quiet>>

ClearLabels(a) ==
  /\ labels' = Without({a})
  /\ taint' = [taint EXCEPT ![a] = {}]
  /\ UNCHANGED <<idle, lastReclaim, sweeper, quiet>>
-----------------------------------------------------------------------------
(* StartCleanup and its goroutine. *)

\* A second start while one runs does nothing; one that meets a cancelled goroutine
\* waits for it to end.
StartCleanup ==
  /\ IdleTTL > 0 /\ cleaner = "off"
  /\ cleaner' = "on"
  /\ UNCHANGED <<store, lastReclaim, doomed, scanning, lag, taint, quiet>>

CancelCleanup ==
  /\ cleaner = "on"
  /\ cleaner' = "cancelled"
  /\ UNCHANGED <<store, lastReclaim, doomed, scanning, lag, taint, quiet>>

\* The goroutine sees the cancellation between two Cleanups.
CleanerEnds ==
  /\ cleaner = "cancelled" /\ doomed = {} /\ ~scanning
  /\ cleaner' = "off"
  /\ UNCHANGED <<store, lastReclaim, doomed, scanning, lag, taint, quiet>>

Cleanup ==
  /\ cleaner # "off" /\ doomed = {} /\ ~scanning
  /\ scanning' = TRUE /\ lag' = 0
  /\ UNCHANGED <<store, lastReclaim, cleaner, doomed, taint, quiet>>

\* Under the read lock, against the clock read before it.
ScanIdle ==
  /\ scanning
  /\ doomed' = {a \in Held : idleFor(a) >= IdleTTL + lag}
  /\ scanning' = FALSE /\ lag' = 0
  /\ UNCHANGED <<store, lastReclaim, cleaner, taint, quiet>>

\* Mutant of StillIdle: what the scan found is deleted, whatever happened since.
StillIdleAssumed(a) == TRUE

StillIdle(a) == Idled(a)

\* A batch of at most cleanupDeleteBatch, under the write lock and a new clock.
DeleteIdle ==
  /\ \E batch \in (SUBSET doomed) \ {{}} :
       /\ labels' = Without({a \in batch : StillIdle(a)})
       /\ doomed' = doomed \ batch
  /\ UNCHANGED <<idle, lastReclaim, cleaner, scanning, lag, taint, quiet>>

Up(n, cap) == IF n < cap THEN n + 1 ELSE n

\* Idle times saturate a tick past the TTL: a scan may be that late.
LabelsTick ==
  /\ idle' = [a \in Anchors |-> IF a \in Held THEN Up(idle[a], IdleTTL + 1) ELSE 0]
  /\ quiet' = [a \in Anchors |-> Up(quiet[a], IdleTTL)]
  /\ taint' = [a \in Anchors |-> IF IdleTTL > 0 /\ quiet'[a] >= IdleTTL THEN {} ELSE taint[a]]
  /\ lastReclaim' = Up(lastReclaim, ReclaimInterval)
  /\ lag' = IF scanning THEN Up(lag, 1) ELSE 0
  /\ UNCHANGED <<labels, cleaner, doomed, scanning>>

LabelsNext ==
  \/ \E a \in Anchors, L \in (SUBSET Labels) \ {{}} : AddLabels(a, L) \/ RemoveLabels(a, L)
  \/ \E a \in Anchors : GetLabels(a) \/ ClearLabels(a)
  \/ StartCleanup \/ CancelCleanup \/ CleanerEnds
  \/ Cleanup \/ ScanIdle \/ DeleteIdle
  \/ LabelsTick

LabelsSpec == LabelsInit /\ [][LabelsNext]_lvars
-----------------------------------------------------------------------------
\* What a Get answers is exactly what the anchor was given since it last was idle for
\* the TTL or cleared: no sweep takes the taint of an anchor that was touched behind its
\* scan, and none of what an anchor carried before it idled out comes back.  And the
\* ceiling holds for the anchors held, idle ones included.
TaintOutlivesSweeps ==
  /\ \A a \in Anchors : (IF live(a) THEN labels[a] ELSE {}) = taint[a]
  /\ MaxAnchors > 0 => Cardinality(Held) <= MaxAnchors
=============================================================================
