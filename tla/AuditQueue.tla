------------------------------ MODULE AuditQueue ------------------------------
(***************************************************************************)
(* The in-memory half of the audit sink (internal/audit/audit.go): Record  *)
(* calls of any goroutine hand their record to one drainer over a bounded  *)
(* channel, and never wait.  A record that finds no slot, or would take    *)
(* the queue over its byte budget, is dropped and counted; the drainer     *)
(* writes a signed marker for the drops it has not reported yet before the *)
(* next record, and once more when Close has closed the channel.           *)
(*                                                                         *)
(* Every atomic add, channel operation and locked section is a step.  The  *)
(* file is abstract here: a write or an fsync succeeds or fails.           *)
(***************************************************************************)
EXTENDS Integers, Sequences, FiniteSets, FiniteSetsExt

CONSTANTS
  Records,     \* each is passed to Record once, by a goroutine of its own
  Size,        \* queueSize of a record
  Target,      \* the method/target pair a record's drop is tallied under
  QueueCap,    \* slots of the channel
  ByteBudget,  \* auditQueueByteBudget
  BucketCap,   \* auditDropBucketCap
  SyncEveryN,
  MaxFaults    \* bound: writes and fsyncs that fail

Targets == {Target[r] : r \in Records}
Other == "(other)"   \* dropBucketOverflowKey
Buckets == Targets \cup {Other}
None == "none"       \* what the drainer holds once the channel is closed

ASSUME QueueAssumption ==
  /\ Size \in [Records -> Nat \ {0}]
  /\ None \notin Records
  /\ QueueCap \in Nat /\ ByteBudget \in Nat /\ MaxFaults \in Nat
  /\ BucketCap \in Nat \ {0} /\ SyncEveryN \in Nat \ {0}

VARIABLES
  pc,            \* per record: how far its Record call is
  queue,         \* the channel
  chanClosed,
  closed,        \* Sink.closed
  queuedBytes,
  dropped,       \* the atomic counter
  buckets,       \* dropBuckets; a key that is absent counts 0
  drainer,       \* the drainer's next step
  rec,           \* the record the drainer holds, or None
  cur, snap,     \* what flushDropMarker loaded and snapshotted
  lastDroppedMarked,
  sinceSync, wrote,
  timerArmed,
  failures,      \* writeFailures
  closer,        \* the step Close is at
  closeErr,
  faults,
  \* History variables, read by the properties only.
  written,       \* accepted records that reached the file
  unsynced,      \* lines in the file that no fsync has covered yet
  damaged,       \* an fsync failed, and what it should have covered may be lost
  markedDrops,   \* drops reported by the markers in the file
  reported,      \* per bucket: what those markers say
  tallied,       \* per bucket: what recordDropBucket was called with
  seen,          \* the drop counter as the drainer took up its record
  unmarked,      \* this iteration's marker could not be written
  atClose        \* the drop counter when Close closed the channel

producerVars == <<pc, queue, queuedBytes, dropped, buckets, tallied>>
flushVars == <<cur, snap, lastDroppedMarked, markedDrops, reported>>
syncVars == <<sinceSync, wrote, timerArmed, unsynced, damaged>>
faultVars == <<failures, faults>>
closeVars == <<chanClosed, closed, closer, closeErr, atClose>>
vars == <<pc, queue, chanClosed, closed, queuedBytes, dropped, buckets, drainer, rec, cur, snap,
          lastDroppedMarked, sinceSync, wrote, timerArmed, failures, closer, closeErr, faults,
          written, unsynced, damaged, markedDrops, reported, tallied, seen, unmarked, atClose>>

NoDrops == [b \in Buckets |-> 0]

Init ==
  /\ pc = [r \in Records |-> "new"] /\ queue = <<>>
  /\ chanClosed = FALSE /\ closed = FALSE
  /\ queuedBytes = 0 /\ dropped = 0 /\ buckets = NoDrops
  /\ drainer = "receive" /\ rec = None /\ cur = 0 /\ snap = NoDrops /\ lastDroppedMarked = 0
  /\ sinceSync = 0 /\ wrote = 0 /\ timerArmed = FALSE
  /\ failures = 0 /\ closer = "open" /\ closeErr = FALSE /\ faults = 0
  /\ written = {} /\ unsynced = 0 /\ damaged = FALSE
  /\ markedDrops = 0 /\ reported = NoDrops /\ tallied = NoDrops
  /\ seen = 0 /\ unmarked = FALSE /\ atClose = 0

(***************************************************************************)
(* Record.                                                                 *)
(***************************************************************************)
Goto(r, step) == pc' = [pc EXCEPT ![r] = step]
ReadLocked == {r \in Records : pc[r] \in {"send", "refund", "count", "tally"}}

DrainerUnchanged == UNCHANGED <<drainer, rec, written, seen, unmarked>>
OutsideUnchanged == DrainerUnchanged /\ UNCHANGED <<flushVars, syncVars, faultVars, closeVars>>

\* sync.RWMutex: a writer that waits keeps new readers out.
RLock == closer \notin {"locking", "sampling"}

\* enqueue on a closed sink: the record is counted and nothing else.
EnqueueClosed(r) ==
  /\ pc[r] = "new" /\ RLock /\ closed
  /\ dropped' = dropped + 1
  /\ Goto(r, "dropped")
  /\ UNCHANGED <<queue, queuedBytes, buckets, tallied>>
  /\ OutsideUnchanged

Reserve(r) ==
  /\ pc[r] = "new" /\ RLock /\ ~closed
  /\ queuedBytes' = queuedBytes + Size[r]
  /\ Goto(r, IF queuedBytes + Size[r] > ByteBudget THEN "refund" ELSE "send")
  /\ UNCHANGED <<queue, dropped, buckets, tallied>>
  /\ OutsideUnchanged

\* The non-blocking send.
Send(r) ==
  /\ pc[r] = "send"
  /\ IF Len(queue) < QueueCap
       THEN queue' = Append(queue, r) /\ Goto(r, "accepted")
       ELSE Goto(r, "refund") /\ UNCHANGED queue
  /\ UNCHANGED <<queuedBytes, dropped, buckets, tallied>>
  /\ OutsideUnchanged

Refund(r) ==
  /\ pc[r] = "refund"
  /\ queuedBytes' = queuedBytes - Size[r]
  /\ Goto(r, "count")
  /\ UNCHANGED <<queue, dropped, buckets, tallied>>
  /\ OutsideUnchanged

CountDrop(r) ==
  /\ pc[r] = "count"
  /\ dropped' = dropped + 1
  /\ Goto(r, "tally")
  /\ UNCHANGED <<queue, queuedBytes, buckets, tallied>>
  /\ OutsideUnchanged

Tracked == {b \in Buckets : buckets[b] > 0}
BucketOf(r) ==
  IF buckets[Target[r]] = 0 /\ Cardinality(Tracked) >= BucketCap THEN Other ELSE Target[r]

recordDropBucket(r) ==
  /\ pc[r] = "tally"
  /\ buckets' = [buckets EXCEPT ![BucketOf(r)] = @ + 1]
  /\ tallied' = [tallied EXCEPT ![BucketOf(r)] = @ + 1]
  /\ Goto(r, "dropped")
  /\ UNCHANGED <<queue, queuedBytes, dropped>>
  /\ OutsideUnchanged

(***************************************************************************)
(* The drainer.                                                            *)
(***************************************************************************)
Fault == faults < MaxFaults /\ faults' = faults + 1 /\ failures' = failures + 1

Receive ==
  /\ drainer = "receive" /\ queue # <<>>
  /\ rec' = Head(queue) /\ queue' = Tail(queue)
  /\ drainer' = "flush" /\ wrote' = 0
  /\ seen' = dropped /\ unmarked' = FALSE
  /\ UNCHANGED <<pc, queuedBytes, dropped, buckets, tallied, flushVars, sinceSync, timerArmed,
                 unsynced, damaged, faultVars, closeVars, written>>

ReceiveClosed ==
  /\ drainer = "receive" /\ queue = <<>> /\ chanClosed
  /\ rec' = None /\ drainer' = "flush" /\ wrote' = 0
  /\ seen' = dropped /\ unmarked' = FALSE
  /\ UNCHANGED <<producerVars, flushVars, sinceSync, timerArmed, unsynced, damaged, faultVars,
                 closeVars, written>>

AfterFlush == IF rec = None THEN "last sync" ELSE "write"

\* flushDropMarker reports only what no marker has reported.
flushDropMarker ==
  /\ drainer = "flush"
  /\ IF dropped <= lastDroppedMarked
       THEN drainer' = AfterFlush /\ UNCHANGED cur
       ELSE drainer' = "snapshot" /\ cur' = dropped
  /\ UNCHANGED <<producerVars, snap, lastDroppedMarked, markedDrops, reported, syncVars,
                 faultVars, closeVars, rec, written, seen, unmarked>>

snapshotDropBuckets ==
  /\ drainer = "snapshot"
  /\ snap' = buckets /\ drainer' = "marker"
  /\ UNCHANGED <<producerVars, cur, lastDroppedMarked, markedDrops, reported, syncVars,
                 faultVars, closeVars, rec, written, seen, unmarked>>

\* One more line in the file.
Appended == wrote' = wrote + 1 /\ unsynced' = unsynced + 1

WriteMarker ==
  /\ drainer = "marker"
  /\ Appended
  /\ lastDroppedMarked' = cur
  /\ markedDrops' = markedDrops + (cur - lastDroppedMarked)
  /\ reported' = [b \in Buckets |-> reported[b] + snap[b]]
  /\ drainer' = "reset"
  /\ UNCHANGED <<producerVars, cur, snap, sinceSync, timerArmed, damaged, faultVars, closeVars,
                 rec, written, seen, unmarked>>

WriteMarkerFails ==
  /\ drainer = "marker"
  /\ Fault
  /\ unmarked' = TRUE
  /\ drainer' = AfterFlush
  /\ UNCHANGED <<producerVars, flushVars, syncVars, closeVars, rec, written, seen>>

ClearedAll == NoDrops
\* Only the snapshotted counts leave the accumulator.
Cleared == [b \in Buckets |-> IF buckets[b] <= snap[b] THEN 0 ELSE buckets[b] - snap[b]]

resetDropBuckets ==
  /\ drainer = "reset"
  /\ buckets' = Cleared
  /\ drainer' = AfterFlush
  /\ UNCHANGED <<pc, queue, queuedBytes, dropped, tallied, flushVars, syncVars, faultVars,
                 closeVars, rec, written, seen, unmarked>>

writeRecord ==
  /\ drainer = "write"
  /\ Appended
  /\ written' = written \cup {rec}
  /\ drainer' = "credit"
  /\ UNCHANGED <<producerVars, flushVars, sinceSync, timerArmed, damaged, faultVars, closeVars,
                 rec, seen, unmarked>>

WriteRecordFails ==
  /\ drainer = "write"
  /\ Fault
  /\ drainer' = "credit"
  /\ UNCHANGED <<producerVars, flushVars, syncVars, closeVars, rec, written, seen, unmarked>>

\* The unsynced tail grows by the lines written, a marker's included.
CreditLines == sinceSync' = sinceSync + wrote

Credit ==
  /\ drainer = "credit"
  /\ queuedBytes' = queuedBytes - Size[rec]
  /\ CreditLines
  /\ drainer' = "settle"
  /\ UNCHANGED <<pc, queue, dropped, buckets, tallied, flushVars, wrote, timerArmed, unsynced,
                 damaged, faultVars, closeVars, rec, written, seen, unmarked>>

\* syncNow: an attempt ends the batch whether or not it succeeds.
SyncNow ==
  /\ sinceSync' = 0
  /\ \/ sinceSync = 0 /\ UNCHANGED <<unsynced, damaged, faultVars>>
     \/ sinceSync > 0 /\ unsynced' = 0 /\ UNCHANGED <<damaged, faultVars>>
     \/ sinceSync > 0 /\ unsynced' = 0 /\ damaged' = TRUE /\ Fault

SyncCount ==
  /\ drainer = "settle" /\ sinceSync >= SyncEveryN
  /\ SyncNow
  /\ timerArmed' = FALSE /\ drainer' = "receive"
  /\ UNCHANGED <<producerVars, flushVars, wrote, closeVars, rec, written, seen, unmarked>>

\* The timer is never armed.
ArmTimerNever ==
  /\ drainer = "settle" /\ sinceSync < SyncEveryN
  /\ UNCHANGED timerArmed
  /\ drainer' = "receive"
  /\ UNCHANGED <<producerVars, flushVars, sinceSync, wrote, unsynced, damaged, faultVars,
                 closeVars, rec, written, seen, unmarked>>

\* The first line of a batch starts the debounce timer.
ArmTimer ==
  /\ drainer = "settle" /\ sinceSync < SyncEveryN
  /\ timerArmed' = (timerArmed \/ sinceSync > 0)
  /\ drainer' = "receive"
  /\ UNCHANGED <<producerVars, flushVars, sinceSync, wrote, unsynced, damaged, faultVars,
                 closeVars, rec, written, seen, unmarked>>

TimerFires ==
  /\ drainer = "receive" /\ timerArmed
  /\ timerArmed' = FALSE
  /\ SyncNow
  /\ UNCHANGED <<producerVars, flushVars, wrote, closeVars, drainer, rec, written, seen,
                 unmarked>>

LastSync ==
  /\ drainer = "last sync"
  /\ SyncNow
  /\ timerArmed' = FALSE /\ drainer' = "exited"
  /\ UNCHANGED <<producerVars, flushVars, wrote, closeVars, rec, written, seen, unmarked>>

(***************************************************************************)
(* Close.                                                                  *)
(***************************************************************************)
AroundClose == UNCHANGED <<producerVars, flushVars, drainer, rec, written, seen, unmarked,
                           sinceSync, wrote, timerArmed>>

BeginClose ==
  /\ closer = "open"
  /\ closer' = "locking"
  /\ AroundClose
  /\ UNCHANGED <<chanClosed, closed, closeErr, atClose, unsynced, damaged, faultVars>>

\* The write lock is granted once every reader has left.
Locked == ReadLocked = {}

CloseChannel ==
  /\ closer = "locking" /\ Locked
  /\ closed' = TRUE /\ chanClosed' = TRUE
  /\ atClose' = dropped
  /\ closer' = "waiting"
  /\ AroundClose
  /\ UNCHANGED <<closeErr, unsynced, damaged, faultVars>>

AwaitDrainer ==
  /\ closer = "waiting" /\ drainer = "exited"
  /\ closer' = "sampling"
  /\ AroundClose
  /\ UNCHANGED <<chanClosed, closed, closeErr, atClose, unsynced, damaged, faultVars>>

CloseErrOfSyncOnly(syncFailed) == syncFailed
CloseErrOf(syncFailed) == syncFailed \/ failures > 0

\* The final fsync and close; failed writes surface in the returned error.
CloseFile ==
  /\ closer = "sampling" /\ Locked
  /\ closer' = "done"
  /\ unsynced' = 0
  /\ \/ closeErr' = CloseErrOf(FALSE) /\ UNCHANGED <<damaged, faults>>
     \/ /\ faults < MaxFaults /\ faults' = faults + 1
        /\ damaged' = TRUE /\ closeErr' = CloseErrOf(TRUE)
  /\ AroundClose
  /\ UNCHANGED <<chanClosed, closed, atClose, failures>>

Producer(r) ==
  \/ EnqueueClosed(r) \/ Reserve(r) \/ Send(r) \/ Refund(r) \/ CountDrop(r) \/ recordDropBucket(r)

Drainer ==
  \/ Receive \/ ReceiveClosed \/ flushDropMarker \/ snapshotDropBuckets
  \/ WriteMarker \/ WriteMarkerFails \/ resetDropBuckets
  \/ writeRecord \/ WriteRecordFails \/ Credit \/ SyncCount \/ ArmTimer \/ LastSync

Close == CloseChannel \/ AwaitDrainer \/ CloseFile

Finished ==
  /\ closer = "done" /\ \A r \in Records : pc[r] \in {"accepted", "dropped"}
  /\ UNCHANGED vars

Next ==
  \/ \E r \in Records : Producer(r)
  \/ Drainer \/ TimerFires
  \/ BeginClose \/ Close
  \/ Finished

Spec == Init /\ [][Next]_vars

\* Record never waits, the drainer is a running goroutine, a timer fires and a
\* Close once called proceeds.
FairSpec ==
  /\ Spec
  /\ \A r \in Records : WF_vars(pc[r] # "new" /\ Producer(r))
  /\ WF_vars(Drainer) /\ WF_vars(TimerFires) /\ WF_vars(Close)
-------------------------------------------------------------------------------
TypeOK ==
  /\ pc \in [Records -> {"new", "send", "refund", "count", "tally", "accepted", "dropped"}]
  /\ queue \in Seq(Records) /\ Len(queue) <= QueueCap
  /\ chanClosed \in BOOLEAN /\ closed \in BOOLEAN /\ closeErr \in BOOLEAN
  /\ queuedBytes \in Nat /\ dropped \in Nat /\ cur \in Nat /\ lastDroppedMarked \in Nat
  /\ buckets \in [Buckets -> Nat] /\ snap \in [Buckets -> Nat]
  /\ drainer \in {"receive", "flush", "snapshot", "marker", "reset", "write", "credit", "settle",
                  "last sync", "exited"}
  /\ rec \in Records \cup {None}
  /\ sinceSync \in Nat /\ wrote \in 0 .. 2 /\ timerArmed \in BOOLEAN
  /\ failures \in Nat /\ faults \in 0 .. MaxFaults
  /\ closer \in {"open", "locking", "waiting", "sampling", "done"}
  /\ written \subseteq Records /\ unsynced \in Nat /\ damaged \in BOOLEAN
  /\ markedDrops \in Nat /\ reported \in [Buckets -> Nat] /\ tallied \in [Buckets -> Nat]
  /\ seen \in Nat /\ unmarked \in BOOLEAN /\ atClose \in Nat

InQueue == {queue[i] : i \in DOMAIN queue}
Held == IF drainer \in {"flush", "snapshot", "marker", "reset", "write", "credit"}
          THEN {rec} \ {None} ELSE {}
SizeOf(S) == MapThenSumSet(LAMBDA r : Size[r], S)

\* The byte counter is exactly the reservations of the records that are being
\* sent, queued or drained: no path of enqueue loses a refund or takes one twice,
\* however many goroutines race the drainer's credit.
ReservationsExact ==
  queuedBytes = SizeOf({r \in Records : pc[r] \in {"send", "refund"}} \cup InQueue \cup Held)

\* The heap the queue retains stays within the budget, whoever enqueues at once.
BudgetHolds == SizeOf(InQueue \cup Held) <= ByteBudget

\* enqueue's reservation scheme: exact accounting, and a bounded heap.
ByteAccounting == ReservationsExact /\ BudgetHolds

\* Nobody is about to send on the channel that Close has closed: that would panic.
NoSendOnClosed == chanClosed => ReadLocked = {}

\* The count the drainer has marked is what the markers in the file report: a
\* marker that failed is retried with all the drops it stood for.
MarkersCarryTheCount == lastDroppedMarked = markedDrops

\* A drop's method and target are reported at most once and stay in the
\* accumulator until a marker carries them, although drops arrive between the
\* snapshot, the write and the reset.
TallyConserved ==
  \A b \in Buckets :
    reported[b] + buckets[b] = tallied[b] + (IF drainer = "reset" THEN snap[b] ELSE 0)

\* Drops counted before the drainer took up a record are marked ahead of it in
\* the file, so the excised window shows where it was.
DropsMarkedBeforeNextRecord ==
  drainer \in {"write", "credit"} /\ ~unmarked => lastDroppedMarked >= seen

\* Evidence of drops (recordDropBucket, flushDropMarker): how many, of what, and
\* where in the log, each exactly once, through failed and retried markers.
DropEvidence == MarkersCarryTheCount /\ TallyConserved /\ DropsMarkedBeforeNextRecord

\* While the drainer waits for work, fewer than SyncEveryN lines are without an
\* fsync, and a timer runs for them.
TailBounded ==
  drainer = "receive" => unsynced < SyncEveryN /\ (unsynced > 0 => timerArmed)

\* Close returns without an error only if every accepted record is in the file
\* and covered by an fsync, and every drop before it is in a marker.
CleanCloseIsComplete ==
  closer = "done" /\ ~closeErr =>
    /\ {r \in Records : pc[r] = "accepted"} \subseteq written
    /\ ~damaged /\ unsynced = 0
    /\ markedDrops >= atClose

\* A line in the file is covered by an fsync attempt without further traffic.
TailIsSynced == unsynced > 0 ~> unsynced = 0

\* The queue accounts for everything: bytes in flight, every drop, no send on a closed
\* channel, and a tail that is never left without its fsync timer (Record, drain,
\* recordDropBucket, flushDropMarker, Close).
QueueAccounts == ByteAccounting /\ DropEvidence /\ NoSendOnClosed /\ TailBounded
===============================================================================
