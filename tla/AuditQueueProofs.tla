-------------------------- MODULE AuditQueueProofs --------------------------
(***************************************************************************)
(* Proofs about the audit sink.                                            *)
(*                                                                         *)
(* AuditQueue, for any set of Record calls, sizes, targets, capacity,      *)
(* budget, sync interval and number of faults.  The argument has four      *)
(* strands: the channel's closing is the only thing by which Close and the *)
(* drainer learn of each other (Phases); a record is in one place at a     *)
(* time (Orderly), so that the byte counter is a sum over a set            *)
(* (ByteCount); what the drainer has loaded of the drops lies between what *)
(* is marked and what was dropped (Drops); and a line or a record that is  *)
(* not safe yet is in the drainer's hands or has left a trace (TailCounts, *)
(* Traces).                                                                *)
(*                                                                         *)
(* AuditChain, for any file size, retention, kind of file system and       *)
(* number of lines, failures and crashes.  The invariant holds in each     *)
(* directory state that a crash may leave: the files in it follow each     *)
(* other, only the last with lines can lose any, and the head of the chain *)
(* in memory continues what ends it or a marker is due.                    *)
(***************************************************************************)
EXTENDS AuditQueue, AuditVerify, FiniteSetTheorems, WellFoundedInduction, TLAPS

-----------------------------------------------------------------------------
(* Sums over finite sets of records.  Induction goes by the smallest set     *)
(* that a claim fails for.                                                   *)

\* A claim that fails for a subset of a finite set fails for a smallest one.
LEMMA SmallestFailure ==
  ASSUME NEW S, IsFiniteSet(S), NEW Bad, Bad \subseteq SUBSET S, Bad # {}
  PROVE  \E T \in Bad : \A U \in SUBSET T : U # T => U \notin Bad
  <1>1. IsWellFoundedOn(StrictSubsetOrdering(S), SUBSET S)
    BY FS_StrictSubsetOrderingWellFounded, FS_FiniteSubsetsOfFinite
  <1>2. PICK T \in Bad : \A U \in Bad : <<U, T>> \notin StrictSubsetOrdering(S)
    BY <1>1, WFMin
  <1>3. QED
    BY <1>2 DEF StrictSubsetOrdering

\* The fold behind SizeOf is a function that satisfies this equation.
Pick(s) == CHOOSE x \in s : TRUE
IsSum(g, T) ==
  g = [s \in SUBSET T |-> IF s = {} THEN 0 ELSE Size[Pick(s)] + g[s \ {Pick(s)}]]

LEMMA SizeOfIsSum ==
  ASSUME NEW T
  PROVE  SizeOf(T) = (CHOOSE g : IsSum(g, T))[T]
  BY DEF SizeOf, MapThenSumSet, MapThenFoldSet, IsSum, Pick

LEMMA PickIsIn == \A s : s # {} => Pick(s) \in s
  BY DEF Pick

\* Two such functions agree where both are defined.
LEMMA SumsAgree ==
  ASSUME NEW T, IsFiniteSet(T), NEW U \in SUBSET T, NEW g, NEW h, IsSum(g, T), IsSum(h, U)
  PROVE  g[U] = h[U]
  <1> DEFINE Bad == {s \in SUBSET U : g[s] # h[s]}
  <1>1. SUFFICES ASSUME Bad # {} PROVE FALSE
    OBVIOUS
  <1>2. IsFiniteSet(U)
    BY FS_Subset
  <1>3. PICK s \in Bad : \A u \in SUBSET s : u # s => u \notin Bad
    <2> HIDE DEF Bad
    <2>1. Bad \subseteq SUBSET U
      BY DEF Bad
    <2>2. QED
      BY <1>1, <1>2, <2>1, SmallestFailure
  <1>4. s \in SUBSET U /\ s \in SUBSET T /\ g[s] # h[s]
    OBVIOUS
  <1>5. /\ g[s] = IF s = {} THEN 0 ELSE Size[Pick(s)] + g[s \ {Pick(s)}]
        /\ h[s] = IF s = {} THEN 0 ELSE Size[Pick(s)] + h[s \ {Pick(s)}]
    BY <1>4 DEF IsSum
  <1>6. CASE s = {}
    BY <1>4, <1>5, <1>6
  <1>7. CASE s # {}
    <2>1. s \ {Pick(s)} \in SUBSET s /\ s \ {Pick(s)} # s
      BY <1>7, PickIsIn
    <2>2. s \ {Pick(s)} \in SUBSET U
      BY <1>4, <2>1
    <2>3. g[s \ {Pick(s)}] = h[s \ {Pick(s)}]
      BY <1>3, <2>1, <2>2
    <2>4. QED
      BY <1>4, <1>5, <1>7, <2>3
  <1>8. QED
    BY <1>6, <1>7

\* There is one for every finite set.
LEMMA SumExists ==
  ASSUME NEW S, IsFiniteSet(S)
  PROVE  \E g : IsSum(g, S)
  <1> DEFINE Bad == {s \in SUBSET S : ~\E g : IsSum(g, s)}
  <1>1. SUFFICES ASSUME Bad # {} PROVE FALSE
    OBVIOUS
  <1>2. PICK T \in Bad : \A u \in SUBSET T : u # T => u \notin Bad
    <2> HIDE DEF Bad
    <2>1. Bad \subseteq SUBSET S
      BY DEF Bad
    <2>2. QED
      BY <1>1, <2>1, SmallestFailure
  <1>3. T \in SUBSET S /\ ~\E g : IsSum(g, T) /\ IsFiniteSet(T)
    BY FS_Subset
  <1> DEFINE G(u) == CHOOSE g : IsSum(g, u)
             sum(u) == G(u)[u]
             g == [s \in SUBSET T |-> IF s = {} THEN 0 ELSE Size[Pick(s)] + sum(s \ {Pick(s)})]
  <1>4. ASSUME NEW u \in SUBSET T, u # T
        PROVE  IsSum(G(u), u) /\ IsFiniteSet(u)
    <2>1. \E h : IsSum(h, u)
      BY <1>2, <1>3, <1>4
    <2>2. QED
      BY <1>3, <2>1, FS_Subset
  <1> HIDE DEF G
  \* Below T, g is that sum.
  <1>5. ASSUME NEW u \in SUBSET T, u # T
        PROVE  g[u] = sum(u)
    <2>1. G(u)[u] = IF u = {} THEN 0 ELSE Size[Pick(u)] + G(u)[u \ {Pick(u)}]
      BY <1>4, <1>5 DEF IsSum
    <2>2. CASE u = {}
      BY <2>1, <2>2
    <2>3. CASE u # {}
      <3>1. u \ {Pick(u)} \in SUBSET u /\ u \ {Pick(u)} # T /\ u \ {Pick(u)} \in SUBSET T
        BY <2>3, PickIsIn
      <3>2. G(u)[u \ {Pick(u)}] = sum(u \ {Pick(u)})
        BY <1>4, <1>5, <3>1, SumsAgree
      <3>3. QED
        BY <2>1, <2>3, <3>2
    <2>4. QED
      BY <2>2, <2>3
  <1>6. ASSUME NEW s \in SUBSET T, s # {}
        PROVE  g[s \ {Pick(s)}] = sum(s \ {Pick(s)})
    <2>1. s \ {Pick(s)} \in SUBSET T /\ s \ {Pick(s)} # T
      BY <1>6, PickIsIn
    <2>2. QED
      BY <1>5, <2>1
  <1>7. g = [s \in SUBSET T |-> IF s = {} THEN 0 ELSE Size[Pick(s)] + g[s \ {Pick(s)}]]
    BY <1>6
  <1>8. IsSum(g, T)
    BY <1>7 DEF IsSum
  <1>9. QED
    BY <1>3, <1>8

\* So SizeOf unfolds, one picked element at a time.
LEMMA SizeOfUnfolds ==
  ASSUME NEW T, IsFiniteSet(T)
  PROVE  SizeOf(T) = IF T = {} THEN 0 ELSE Size[Pick(T)] + SizeOf(T \ {Pick(T)})
  <1> DEFINE G(u) == CHOOSE g : IsSum(g, u)
  <1>1. ASSUME NEW u, IsFiniteSet(u)
        PROVE  IsSum(G(u), u) /\ SizeOf(u) = G(u)[u]
    BY <1>1, SumExists, SizeOfIsSum
  <1> HIDE DEF G
  <1>2. G(T)[T] = IF T = {} THEN 0 ELSE Size[Pick(T)] + G(T)[T \ {Pick(T)}]
    BY <1>1 DEF IsSum
  <1>3. IsFiniteSet(T \ {Pick(T)}) /\ T \ {Pick(T)} \in SUBSET T
    BY FS_RemoveElement
  <1>4. G(T)[T \ {Pick(T)}] = G(T \ {Pick(T)})[T \ {Pick(T)}]
    BY <1>1, <1>3, SumsAgree
  <1>5. QED
    BY <1>1, <1>2, <1>3, <1>4

\* Whichever element is taken out, it counts with its size.
LEMMA SizeOfRemove ==
  ASSUME NEW S, IsFiniteSet(S), S \subseteq Records
  PROVE  /\ SizeOf(S) \in Nat
         /\ \A r \in S : SizeOf(S) = Size[r] + SizeOf(S \ {r})
  <1> DEFINE Fine(s) == SizeOf(s) \in Nat /\ \A r \in s : SizeOf(s) = Size[r] + SizeOf(s \ {r})
             Bad == {s \in SUBSET S : ~Fine(s)}
  <1>1. SUFFICES ASSUME Bad # {} PROVE FALSE
    OBVIOUS
  <1>2. PICK T \in Bad : \A u \in SUBSET T : u # T => u \notin Bad
    <2> HIDE DEF Bad
    <2>1. Bad \subseteq SUBSET S
      BY DEF Bad
    <2>2. QED
      BY <1>1, <2>1, SmallestFailure
  <1>3. T \in SUBSET S /\ ~Fine(T) /\ IsFiniteSet(T)
    BY FS_Subset
  <1>4. \A u \in SUBSET T : u # T => Fine(u) /\ IsFiniteSet(u)
    BY <1>2, <1>3, FS_Subset
  <1> HIDE DEF Fine, Bad
  <1>5. \A r \in T : Size[r] \in Nat
    BY <1>3, QueueAssumption
  <1>6. CASE T = {}
    <2>1. SizeOf(T) = 0
      BY <1>3, <1>6, SizeOfUnfolds
    <2>2. QED
      BY <1>3, <1>6, <2>1 DEF Fine
  <1>7. CASE T # {}
    <2> DEFINE x == Pick(T)
    <2>1. x \in T
      BY <1>7, PickIsIn
    <2> HIDE DEF x
    <2>2. SizeOf(T) = Size[x] + SizeOf(T \ {x})
      BY <1>3, <1>7, SizeOfUnfolds DEF x
    <2>3. T \ {x} \in SUBSET T /\ T \ {x} # T
      BY <2>1
    <2>4. Fine(T \ {x})
      BY <1>4, <2>3
    <2>5. SizeOf(T \ {x}) \in Nat /\ \A r \in T \ {x} : SizeOf(T \ {x}) = Size[r] + SizeOf((T \ {x}) \ {r})
      BY <2>4 DEF Fine
    <2>6. SizeOf(T) \in Nat
      BY <1>5, <2>1, <2>2, <2>5
    <2>7. ASSUME NEW r \in T
          PROVE  SizeOf(T) = Size[r] + SizeOf(T \ {r})
      <3>1. CASE r = x
        BY <2>2, <3>1
      <3>2. CASE r # x
        <4>1. SizeOf(T \ {x}) = Size[r] + SizeOf((T \ {x}) \ {r})
          BY <2>5, <3>2
        <4>2. T \ {r} \in SUBSET T /\ T \ {r} # T /\ x \in T \ {r}
          BY <2>1, <3>2
        <4>3. SizeOf(T \ {r}) = Size[x] + SizeOf((T \ {r}) \ {x})
          BY <1>4, <4>2 DEF Fine
        <4>4. (T \ {r}) \ {x} = (T \ {x}) \ {r}
          OBVIOUS
        <4>5. SizeOf((T \ {x}) \ {r}) \in Nat
          <5>1. (T \ {x}) \ {r} \in SUBSET T /\ (T \ {x}) \ {r} # T
            BY <2>1
          <5>2. QED
            BY <1>4, <5>1 DEF Fine
        <4>6. QED
          BY <1>5, <2>1, <2>2, <4>1, <4>3, <4>4, <4>5
      <3>3. QED
        BY <3>1, <3>2
    <2>8. QED
      BY <1>3, <2>6, <2>7 DEF Fine
  <1>8. QED
    BY <1>6, <1>7

\* Fewer records take no more bytes.
LEMMA SizeOfMonotone ==
  ASSUME NEW S, IsFiniteSet(S), S \subseteq Records, NEW U \in SUBSET S
  PROVE  SizeOf(U) <= SizeOf(S)
  <1> DEFINE Fine(s) == SizeOf(s) <= SizeOf(S)
             \* what is left out of S
             Bad == {d \in SUBSET S : ~Fine(S \ d)}
  <1>1. SUFFICES ASSUME Bad # {} PROVE FALSE
    <2>1. S \ U \notin Bad
      BY <1>1
    <2>2. S \ (S \ U) = U
      OBVIOUS
    <2>3. QED
      BY <2>1, <2>2
  <1>2. PICK d \in Bad : \A e \in SUBSET d : e # d => e \notin Bad
    <2> HIDE DEF Bad
    <2>1. Bad \subseteq SUBSET S
      BY DEF Bad
    <2>2. QED
      BY <1>1, <2>1, SmallestFailure
  <1>3. d \in SUBSET S /\ ~(SizeOf(S \ d) <= SizeOf(S))
    OBVIOUS
  <1>4. SizeOf(S) \in Nat
    BY SizeOfRemove
  <1>5. CASE d = {}
    <2>1. S \ d = S
      BY <1>5
    <2>2. QED
      BY <1>3, <1>4, <2>1
  <1>6. CASE d # {}
    <2>1. PICK r : r \in d
      BY <1>6
    <2> DEFINE e == d \ {r}
    <2>2. e \in SUBSET d /\ e # d /\ e \in SUBSET S
      BY <1>3, <2>1
    <2>3. SizeOf(S \ e) <= SizeOf(S)
      BY <1>2, <2>2
    <2>4. IsFiniteSet(S \ e) /\ S \ e \subseteq Records /\ r \in S \ e
      BY <1>3, <2>1, FS_Subset
    <2>5. IsFiniteSet(S \ d)
      BY FS_Subset
    <2>6. S \ d = (S \ e) \ {r}
      BY <2>1
    <2>7. SizeOf(S \ e) = Size[r] + SizeOf(S \ d) /\ SizeOf(S \ e) \in Nat
      BY <2>4, <2>6, SizeOfRemove
    <2>8. SizeOf(S \ d) \in Nat
      BY <2>5, SizeOfRemove
    <2>9. Size[r] \in Nat
      BY <2>4, QueueAssumption
    <2>10. QED
      BY <1>3, <1>4, <2>3, <2>7, <2>8, <2>9
  <1>7. QED
    BY <1>5, <1>6

-----------------------------------------------------------------------------
(* The inductive invariant. *)

Flushing == {"flush", "snapshot", "marker", "reset"}

\* Close and the drainer know of each other's progress by the channel alone.
Phases ==
  /\ closed <=> chanClosed
  /\ chanClosed <=> closer \in {"waiting", "sampling", "done"}
  /\ closer \in {"sampling", "done"} => drainer = "exited"
  /\ NoSendOnClosed
  /\ drainer \in {"last sync", "exited"} => rec = None
  /\ drainer \in {"write", "credit"} => rec \in Records
  /\ rec = None /\ drainer \in Flushing \cup {"last sync", "exited"} => chanClosed /\ queue = <<>>

\* A record is in the channel or with the drainer once, and is then accepted.
Orderly ==
  /\ \A r \in InQueue \cup Held : r \in Records /\ pc[r] = "accepted"
  /\ \A i, j \in DOMAIN queue : queue[i] = queue[j] => i = j
  /\ InQueue \cap Held = {}

Sending == {r \in Records : pc[r] = "send"}
Reserving == {r \in Records : pc[r] \in {"send", "refund"}}
InFlight == Reserving \cup InQueue \cup Held

\* What will be sent fits the budget together with what has been.
ByteCount ==
  /\ IsFiniteSet(InFlight)
  /\ queuedBytes = SizeOf(InFlight)
  /\ SizeOf(Sending \cup InQueue \cup Held) <= ByteBudget

\* What the drainer loads of the drops lies between what is marked and what was dropped.
Drops ==
  /\ MarkersCarryTheCount /\ TallyConserved
  /\ drainer \in {"marker", "reset"} => \A b \in Buckets : snap[b] <= buckets[b]
  /\ seen <= dropped
  /\ drainer \in {"snapshot", "marker"} => seen <= cur /\ lastDroppedMarked <= cur
  /\ drainer \in {"reset", "write", "credit", "last sync", "exited"} /\ ~unmarked
     => seen <= lastDroppedMarked

\* The lines no fsync has covered are the credited ones and those of this iteration.
TailCounts ==
  /\ drainer \in {"flush", "snapshot", "marker"} => wrote = 0
  /\ drainer \in {"reset", "write"} => wrote <= 1
  /\ drainer \in Flushing \cup {"write", "credit"} => unsynced = sinceSync + wrote
  /\ drainer \in {"settle", "receive"} => unsynced = sinceSync
  /\ drainer = "receive" => sinceSync < SyncEveryN /\ (sinceSync > 0 => timerArmed)

\* What a clean Close may rely on: a loss leaves a trace.
Traces ==
  /\ \A r \in Records : pc[r] = "accepted" =>
       r \in written \/ r \in InQueue \/ (r = rec /\ drainer \in Flushing \cup {"write"})
       \/ failures > 0
  /\ damaged => failures > 0 \/ closeErr
  /\ unmarked => failures > 0
  /\ chanClosed => atClose <= dropped
  /\ rec = None /\ drainer \in Flushing \cup {"last sync", "exited"} => atClose <= seen
  /\ closer = "done" => unsynced = 0 /\ (failures > 0 => closeErr)
  /\ closeErr => closer = "done"

IInv == TypeOK /\ Phases /\ Orderly /\ ByteCount /\ Drops /\ TailCounts /\ Traces

-----------------------------------------------------------------------------
(* Every action keeps each part. *)

\* TypeOK by whose variables they are; what is a truth value stands apart.
RecordTypes ==
  /\ pc \in [Records -> {"new", "send", "refund", "count", "tally", "accepted", "dropped"}]
  /\ queue \in Seq(Records) /\ Len(queue) <= QueueCap
  /\ queuedBytes \in Nat /\ dropped \in Nat
  /\ buckets \in [Buckets -> Nat] /\ tallied \in [Buckets -> Nat]
DrainerTypes ==
  /\ drainer \in {"receive", "flush", "snapshot", "marker", "reset", "write", "credit", "settle",
                  "last sync", "exited"}
  /\ rec \in Records \cup {None} /\ written \subseteq Records
  /\ cur \in Nat /\ lastDroppedMarked \in Nat /\ markedDrops \in Nat /\ seen \in Nat
  /\ snap \in [Buckets -> Nat] /\ reported \in [Buckets -> Nat]
SyncTypes ==
  /\ sinceSync \in Nat /\ wrote \in 0 .. 2 /\ unsynced \in Nat
  /\ failures \in Nat /\ faults \in 0 .. MaxFaults
CloserTypes ==
  closer \in {"open", "locking", "waiting", "sampling", "done"} /\ atClose \in Nat
TruthTypes ==
  /\ chanClosed \in BOOLEAN /\ closed \in BOOLEAN /\ closeErr \in BOOLEAN
  /\ timerArmed \in BOOLEAN /\ damaged \in BOOLEAN /\ unmarked \in BOOLEAN

LEMMA TypesTogether ==
  TypeOK <=> RecordTypes /\ DrainerTypes /\ SyncTypes /\ CloserTypes /\ TruthTypes
  BY Zenon DEF TypeOK, RecordTypes, DrainerTypes, SyncTypes, CloserTypes, TruthTypes

LEMMA TypesTogetherNext ==
  TypeOK' <=> RecordTypes' /\ DrainerTypes' /\ SyncTypes' /\ CloserTypes' /\ TruthTypes'
  BY Zenon DEF TypeOK, RecordTypes, DrainerTypes, SyncTypes, CloserTypes, TruthTypes

\* The initial state satisfies the inductive invariant.
LEMMA InitIInv == Init => IInv
  <1> SUFFICES ASSUME Init PROVE IInv
    OBVIOUS
  <1> USE QueueAssumption
  <1>1. TypeOK
    <2>1. RecordTypes
      BY DEF Init, RecordTypes, NoDrops
    <2>2. DrainerTypes
      BY DEF Init, DrainerTypes, NoDrops
    <2>3. SyncTypes /\ CloserTypes
      BY DEF Init, SyncTypes, CloserTypes
    <2>4. TruthTypes
      BY Zenon DEF Init, TruthTypes
    <2>5. QED
      BY <2>1, <2>2, <2>3, <2>4, TypesTogether
  <1>2. InQueue = {} /\ Held = {} /\ ReadLocked = {} /\ Reserving = {} /\ Sending = {}
    BY DEF Init, InQueue, Held, ReadLocked, Reserving, Sending
  <1>3. Phases /\ Orderly
    BY <1>2 DEF Init, Phases, Orderly, NoSendOnClosed, Flushing
  <1>4. ByteCount
    <2>1. InFlight = {} /\ Sending \cup InQueue \cup Held = {}
      BY <1>2 DEF InFlight
    <2>2. SizeOf({}) = 0 /\ IsFiniteSet({})
      BY FS_EmptySet, SizeOfUnfolds
    <2>3. queuedBytes = 0 /\ 0 <= ByteBudget
      BY DEF Init
    <2>4. QED
      BY <2>1, <2>2, <2>3 DEF ByteCount
  <1>5. Drops /\ TailCounts /\ Traces
    BY DEF Init, Drops, MarkersCarryTheCount, TallyConserved, TailCounts, Traces, Flushing, NoDrops
  <1>6. QED
    BY <1>1, <1>3, <1>4, <1>5 DEF IInv

\* The types of Record's own variables.
LEMMA ProducerTypes ==
  ASSUME IInv, NEW r \in Records, Producer(r), queuedBytes' \in Nat
  PROVE  TypeOK'
  <1>1. RecordTypes /\ DrainerTypes /\ SyncTypes /\ CloserTypes /\ TruthTypes
    BY TypesTogether DEF IInv
  <1>2. RecordTypes'
    <2> USE <1>1 DEF RecordTypes, Goto
    <2>1. CASE EnqueueClosed(r)
      BY <2>1 DEF EnqueueClosed
    <2>2. CASE Reserve(r)
      BY <2>2 DEF Reserve
    <2>3. CASE Send(r)
      <3>1. Append(queue, r) \in Seq(Records) /\ Len(Append(queue, r)) = Len(queue) + 1
        BY DEF RecordTypes
      <3>2. Len(queue) \in Nat
        BY DEF RecordTypes
      <3>3. queue' = IF Len(queue) < QueueCap THEN Append(queue, r) ELSE queue
        BY <2>3 DEF Send
      <3>4. queue' \in Seq(Records) /\ Len(queue') <= QueueCap
        <4>1. CASE Len(queue) < QueueCap
          BY <3>1, <3>2, <3>3, <4>1, QueueAssumption
        <4>2. CASE ~(Len(queue) < QueueCap)
          BY <3>3, <4>2
        <4>3. QED
          BY <4>1, <4>2
      <3>5. QED
        BY <2>3, <3>4 DEF Send
    <2>4. CASE Refund(r)
      BY <2>4 DEF Refund
    <2>5. CASE CountDrop(r)
      BY <2>5 DEF CountDrop
    <2>6. CASE recordDropBucket(r)
      <3>1. BucketOf(r) \in Buckets
        BY DEF BucketOf, Buckets, Targets
      <3>2. QED
        BY <2>6, <3>1 DEF recordDropBucket
    <2>7. QED
      BY <2>1, <2>2, <2>3, <2>4, <2>5, <2>6 DEF Producer
  <1>3. OutsideUnchanged
    BY DEF Producer, EnqueueClosed, Reserve, Send, Refund, CountDrop, recordDropBucket
  <1> USE <1>1, <1>3 DEF OutsideUnchanged, DrainerUnchanged, flushVars, syncVars, faultVars, closeVars
  <1>4. DrainerTypes'
    BY Zenon DEF DrainerTypes
  <1>5. SyncTypes'
    BY Zenon DEF SyncTypes
  <1>6. CloserTypes'
    BY Zenon DEF CloserTypes
  <1>7. TruthTypes'
    BY Zenon DEF TruthTypes
  <1>8. QED
    BY <1>2, <1>4, <1>5, <1>6, <1>7, TypesTogetherNext

\* A record at the end of the channel.
LEMMA InQueueAppend ==
  ASSUME RecordTypes, NEW r \in Records, queue' = Append(queue, r)
  PROVE  /\ InQueue' = InQueue \cup {r}
         /\ DOMAIN queue' = 1 .. Len(queue) + 1
         /\ \A i \in DOMAIN queue : queue'[i] = queue[i]
         /\ queue'[Len(queue) + 1] = r
  <1>1. queue \in Seq(Records) /\ Len(queue) \in Nat /\ DOMAIN queue = 1 .. Len(queue)
    BY DEF RecordTypes
  <1>2. /\ DOMAIN queue' = 1 .. Len(queue) + 1
        /\ \A i \in DOMAIN queue : queue'[i] = queue[i]
        /\ queue'[Len(queue) + 1] = r
    BY <1>1
  <1>3. QED
    BY <1>1, <1>2 DEF InQueue

\* Who waits to be sent or refunded, and what the channel holds, after a step of Record.
LEMMA ProducerMoves ==
  ASSUME IInv, NEW r \in Records, Producer(r)
  PROVE  /\ OutsideUnchanged /\ Held' = Held
         /\ \A s \in Records \ {r} : pc'[s] = pc[s]
         /\ pc[r] \in {"new", "send", "refund", "count", "tally"}
         /\ pc'[r] \in {"send", "refund", "count", "tally", "accepted", "dropped"}
         /\ chanClosed => pc[r] = "new" /\ pc'[r] = "dropped"
         /\ IF pc'[r] = "accepted"
            THEN pc[r] = "send" /\ queue' = Append(queue, r) /\ InQueue' = InQueue \cup {r}
            ELSE queue' = queue /\ InQueue' = InQueue
  <1> USE DEF Goto
  <1>1. RecordTypes
    BY TypesTogether DEF IInv
  <1>2. pc \in [Records -> {"new", "send", "refund", "count", "tally", "accepted", "dropped"}]
    BY <1>1 DEF RecordTypes
  <1>3. OutsideUnchanged
    BY DEF Producer, EnqueueClosed, Reserve, Send, Refund, CountDrop, recordDropBucket
  <1>4. Held' = Held
    BY <1>3 DEF OutsideUnchanged, DrainerUnchanged, Held
  <1>5. /\ \A s \in Records \ {r} : pc'[s] = pc[s]
        /\ pc[r] \in {"new", "send", "refund", "count", "tally"}
        /\ pc'[r] \in {"send", "refund", "count", "tally", "accepted", "dropped"}
        /\ IF pc'[r] = "accepted" THEN pc[r] = "send" /\ queue' = Append(queue, r)
                                  ELSE queue' = queue
    BY <1>2 DEF Producer, EnqueueClosed, Reserve, Send, Refund, CountDrop, recordDropBucket
  <1>6. chanClosed => pc[r] = "new" /\ pc'[r] = "dropped"
    <2> SUFFICES ASSUME chanClosed PROVE pc[r] = "new" /\ pc'[r] = "dropped"
      OBVIOUS
    <2>1. closed /\ r \notin ReadLocked
      BY DEF IInv, Phases, NoSendOnClosed
    <2>2. pc[r] = "new"
      BY <1>5, <2>1 DEF ReadLocked
    <2>3. EnqueueClosed(r)
      BY <2>1, <2>2 DEF Producer, Reserve, Send, Refund, CountDrop, recordDropBucket
    <2>4. QED
      BY <1>2, <2>2, <2>3 DEF EnqueueClosed
  <1>7. IF pc'[r] = "accepted" THEN InQueue' = InQueue \cup {r} ELSE InQueue' = InQueue
    BY <1>1, <1>5, InQueueAppend DEF InQueue
  <1>8. QED
    BY <1>3, <1>4, <1>5, <1>6, <1>7

\* A step of Record keeps the phases, and the channel in order.
LEMMA ProducerOrder ==
  ASSUME IInv, NEW r \in Records, Producer(r)
  PROVE  Phases' /\ Orderly'
  <1>1. Phases /\ Orderly /\ RecordTypes
    BY TypesTogether DEF IInv
  <1>2. UNCHANGED <<drainer, rec, closed, chanClosed, closer>>
    BY ProducerMoves DEF OutsideUnchanged, DrainerUnchanged, closeVars
  <1>3. chanClosed => UNCHANGED queue /\ ReadLocked' = {}
    BY <1>1, ProducerMoves DEF Phases, NoSendOnClosed, ReadLocked
  <1>4. Phases'
    BY <1>1, <1>2, <1>3 DEF Phases, NoSendOnClosed
  <1>5. \A s \in InQueue' \cup Held' : s \in Records /\ pc'[s] = "accepted"
    BY <1>1, ProducerMoves DEF Orderly
  <1>6. \A i, j \in DOMAIN queue' : queue'[i] = queue'[j] => i = j
    <2>1. CASE queue' = queue
      BY <1>1, <2>1 DEF Orderly
    <2>2. CASE queue' = Append(queue, r) /\ pc[r] = "send"
      <3>1. /\ DOMAIN queue' = 1 .. Len(queue) + 1
            /\ \A i \in DOMAIN queue : queue'[i] = queue[i]
            /\ queue'[Len(queue) + 1] = r
        BY <1>1, <2>2, InQueueAppend
      <3>2. DOMAIN queue = 1 .. Len(queue) /\ Len(queue) \in Nat
        BY <1>1 DEF RecordTypes
      <3>3. \A i \in DOMAIN queue : queue[i] # r
        BY <1>1, <2>2 DEF Orderly, InQueue
      <3>4. \A i \in DOMAIN queue' : i \in DOMAIN queue \/ i = Len(queue) + 1
        BY <3>1, <3>2
      <3>5. QED
        BY <1>1, <3>1, <3>3, <3>4 DEF Orderly
    <2>3. QED
      BY <2>1, <2>2, ProducerMoves
  <1>7. InQueue' \cap Held' = {}
    BY <1>1, ProducerMoves DEF Orderly
  <1>8. QED
    BY <1>4, <1>5, <1>6, <1>7 DEF Orderly

\* It moves exactly the bytes of its record.
LEMMA ProducerBytes ==
  ASSUME IInv, NEW r \in Records, Producer(r)
  PROVE  ByteCount' /\ queuedBytes' \in Nat
  <1> DEFINE Kept == Sending \cup InQueue \cup Held
  <1>1. ByteCount /\ RecordTypes /\ Size[r] \in Nat /\ ByteBudget \in Nat
    BY TypesTogether, QueueAssumption DEF IInv
  <1>2. InFlight \subseteq Records /\ InFlight' \subseteq Records /\ Kept \subseteq InFlight
        /\ Kept' \subseteq InFlight'
    BY ProducerOrder DEF IInv, Orderly, InFlight, Reserving, Sending
  <1>3. pc[r] \notin {"send", "refund"} => r \notin InFlight
    BY ProducerMoves DEF IInv, Orderly, InFlight, Reserving
  <1>4. CASE EnqueueClosed(r) \/ CountDrop(r) \/ recordDropBucket(r)
    <2>1. queuedBytes' = queuedBytes /\ pc[r] \in {"new", "count", "tally"}
          /\ pc'[r] \in {"tally", "dropped"}
      BY <1>1, <1>4 DEF EnqueueClosed, CountDrop, recordDropBucket, Goto, RecordTypes
    <2>2. InFlight' = InFlight /\ Kept' = Kept
      BY <2>1, ProducerMoves DEF InFlight, Reserving, Sending
    <2>3. QED
      BY <1>1, <2>1, <2>2 DEF ByteCount, RecordTypes
  <1>5. CASE Reserve(r)
    <2>1. /\ pc[r] = "new" /\ queuedBytes' = queuedBytes + Size[r]
          /\ pc'[r] = IF queuedBytes + Size[r] > ByteBudget THEN "refund" ELSE "send"
      BY <1>1, <1>5 DEF Reserve, Goto, RecordTypes
    <2>2. InFlight' = InFlight \cup {r} /\ r \notin InFlight /\ InFlight = InFlight' \ {r}
      BY <1>3, <2>1, ProducerMoves DEF InFlight, Reserving
    <2>3. IsFiniteSet(InFlight')
      BY <1>1, <2>2, FS_AddElement DEF ByteCount
    <2>4. SizeOf(InFlight') = Size[r] + SizeOf(InFlight)
      BY <1>2, <2>2, <2>3, SizeOfRemove
    <2>5. queuedBytes = SizeOf(InFlight) /\ queuedBytes \in Nat
      BY <1>1 DEF ByteCount, RecordTypes
    <2>6. queuedBytes' = SizeOf(InFlight') /\ queuedBytes' \in Nat
      BY <1>1, <2>1, <2>4, <2>5
    <2>7. SizeOf(Kept') <= ByteBudget
      <3>1. CASE pc'[r] = "refund"
        <4>1. Kept' = Kept
          BY <2>1, <3>1, ProducerMoves DEF Sending
        <4>2. QED
          BY <1>1, <4>1 DEF ByteCount
      <3>2. CASE pc'[r] = "send"
        <4>1. queuedBytes' <= ByteBudget
          BY <1>1, <2>1, <2>5, <3>2
        <4>2. SizeOf(Kept') <= SizeOf(InFlight') /\ IsFiniteSet(Kept')
          BY <1>2, <2>3, SizeOfMonotone, FS_Subset
        <4>3. SizeOf(Kept') \in Nat
          BY <1>2, <4>2, SizeOfRemove
        <4>4. QED
          BY <1>1, <2>6, <4>1, <4>2, <4>3
      <3>3. QED
        BY <2>1, <3>1, <3>2
    <2>8. QED
      BY <2>3, <2>6, <2>7 DEF ByteCount
  <1>6. CASE Send(r)
    <2>1. pc[r] = "send" /\ pc'[r] \in {"accepted", "refund"} /\ queuedBytes' = queuedBytes
      BY <1>1, <1>6 DEF Send, Goto, RecordTypes
    <2>2. InFlight' = InFlight
      BY <2>1, ProducerMoves DEF InFlight, Reserving
    <2>3. Kept' \subseteq Kept
      BY <2>1, ProducerMoves DEF Sending
    <2>4. SizeOf(Kept') <= SizeOf(Kept)
      BY <1>1, <1>2, <2>3, SizeOfMonotone, FS_Subset DEF ByteCount
    <2>5. SizeOf(Kept) \in Nat /\ SizeOf(Kept') \in Nat
      BY <1>1, <1>2, <2>3, SizeOfRemove, FS_Subset DEF ByteCount
    <2>6. SizeOf(Kept) <= ByteBudget
      BY <1>1 DEF ByteCount
    <2>7. SizeOf(Kept') <= ByteBudget
      BY <1>1, <2>4, <2>5, <2>6
    <2>8. QED
      BY <1>1, <2>1, <2>2, <2>7 DEF ByteCount, RecordTypes
  <1>7. CASE Refund(r)
    <2>1. pc[r] = "refund" /\ pc'[r] = "count" /\ queuedBytes' = queuedBytes - Size[r]
      BY <1>1, <1>7 DEF Refund, Goto, RecordTypes
    <2>2. InFlight' = InFlight \ {r} /\ r \in InFlight /\ Kept' = Kept
      BY <2>1, ProducerMoves DEF InFlight, Reserving, Sending, IInv, Orderly
    <2>3. SizeOf(InFlight) = Size[r] + SizeOf(InFlight') /\ IsFiniteSet(InFlight')
      BY <1>1, <1>2, <2>2, SizeOfRemove, FS_RemoveElement DEF ByteCount
    <2>4. SizeOf(InFlight') \in Nat
      BY <1>2, <2>3, SizeOfRemove
    <2>5. queuedBytes' = SizeOf(InFlight')
      BY <1>1, <2>1, <2>3, <2>4 DEF ByteCount
    <2>6. QED
      BY <1>1, <2>2, <2>3, <2>4, <2>5 DEF ByteCount
  <1>8. QED
    BY <1>4, <1>5, <1>6, <1>7 DEF Producer

\* Record only adds drops, and each to the accumulator and the tally alike.
LEMMA ProducerEvidence ==
  ASSUME IInv, NEW r \in Records, Producer(r)
  PROVE  Drops' /\ TailCounts' /\ Traces'
  <1>1. RecordTypes /\ DrainerTypes /\ CloserTypes /\ Drops /\ TailCounts /\ Traces
    BY TypesTogether DEF IInv
  <1>2. OutsideUnchanged
    BY ProducerMoves
  <1>3. dropped' \in Nat /\ dropped <= dropped'
    BY <1>1 DEF RecordTypes, Producer, EnqueueClosed, Reserve, Send, Refund, CountDrop,
       recordDropBucket
  <1>4. ASSUME NEW b \in Buckets
        PROVE  /\ buckets[b] \in Nat /\ tallied[b] \in Nat /\ reported[b] \in Nat /\ snap[b] \in Nat
               /\ \/ buckets'[b] = buckets[b] /\ tallied'[b] = tallied[b]
                  \/ buckets'[b] = buckets[b] + 1 /\ tallied'[b] = tallied[b] + 1
    <2>1. buckets[b] \in Nat /\ tallied[b] \in Nat /\ reported[b] \in Nat /\ snap[b] \in Nat
      BY <1>1 DEF RecordTypes, DrainerTypes
    <2>2. CASE UNCHANGED <<buckets, tallied>>
      BY <2>1, <2>2
    <2>3. CASE recordDropBucket(r)
      BY <1>1, <2>1, <2>3 DEF recordDropBucket, RecordTypes
    <2>4. QED
      BY <2>2, <2>3 DEF Producer, EnqueueClosed, Reserve, Send, Refund, CountDrop
  <1>5. TallyConserved'
    <2> SUFFICES ASSUME NEW b \in Buckets
                 PROVE  reported'[b] + buckets'[b]
                        = tallied'[b] + (IF drainer' = "reset" THEN snap'[b] ELSE 0)
      BY DEF TallyConserved
    <2>1. reported[b] + buckets[b] = tallied[b] + (IF drainer = "reset" THEN snap[b] ELSE 0)
      BY <1>1 DEF Drops, TallyConserved
    <2>2. UNCHANGED <<reported, drainer, snap>>
      BY <1>2 DEF OutsideUnchanged, DrainerUnchanged, flushVars
    <2>3. QED
      BY <1>4, <2>1, <2>2
  <1>6. drainer' \in {"marker", "reset"} => \A b \in Buckets : snap'[b] <= buckets'[b]
    <2>1. UNCHANGED <<drainer, snap>>
      BY <1>2 DEF OutsideUnchanged, DrainerUnchanged, flushVars
    <2>2. drainer \in {"marker", "reset"} => \A b \in Buckets : snap[b] <= buckets[b]
      BY <1>1 DEF Drops
    <2>3. QED
      BY <1>4, <2>1, <2>2
  <1>7. Drops'
    <2>1. UNCHANGED <<drainer, lastDroppedMarked, markedDrops, seen, cur, unmarked>>
      BY <1>2 DEF OutsideUnchanged, DrainerUnchanged, flushVars
    <2>2. seen' <= dropped'
      <3>1. seen <= dropped /\ seen \in Nat /\ dropped \in Nat
        BY <1>1 DEF Drops, RecordTypes, DrainerTypes
      <3>2. QED
        BY <1>3, <2>1, <3>1
    <2>3. QED
      BY <1>1, <1>5, <1>6, <2>1, <2>2 DEF Drops, MarkersCarryTheCount
  <1>8. TailCounts'
    BY <1>1, <1>2 DEF OutsideUnchanged, DrainerUnchanged, syncVars, TailCounts
  <1>9. Traces'
    <2>1. UNCHANGED <<drainer, rec, written, failures, damaged, closeErr, unmarked, chanClosed,
                      atClose, seen, closer, unsynced>>
      BY <1>2 DEF OutsideUnchanged, DrainerUnchanged, syncVars, faultVars, closeVars
    <2>2. \A s \in Records : pc'[s] = "accepted" =>
            s \in written' \/ s \in InQueue' \/ (s = rec' /\ drainer' \in Flushing \cup {"write"})
            \/ failures' > 0
      BY <1>1, <2>1, ProducerMoves DEF Traces
    <2>3. chanClosed' => atClose' <= dropped'
      <3>1. (chanClosed => atClose <= dropped) /\ atClose \in Nat /\ dropped \in Nat
        BY <1>1 DEF Traces, CloserTypes, RecordTypes
      <3>2. QED
        BY <1>3, <2>1, <3>1
    <2>4. QED
      BY <1>1, <2>1, <2>2, <2>3 DEF Traces
  <1>10. QED
    BY <1>7, <1>8, <1>9

LEMMA ProducerKeeps ==
  ASSUME IInv, NEW r \in Records, Producer(r)
  PROVE  IInv'
  BY ProducerTypes, ProducerOrder, ProducerBytes, ProducerEvidence DEF IInv
-----------------------------------------------------------------------------
(* The drainer. *)

\* What leaves the channel and its records alone leaves their order and bytes alone.
LEMMA SameRecords ==
  ASSUME IInv, UNCHANGED <<pc, queue, queuedBytes>>, Held' = Held
  PROVE  Orderly' /\ ByteCount' /\ InQueue' = InQueue /\ queuedBytes' \in Nat
  <1>1. /\ InQueue' = InQueue /\ Sending' = Sending /\ InFlight' = InFlight
    BY DEF InQueue, Sending, Reserving, InFlight
  <1>2. QED
    BY <1>1 DEF IInv, Orderly, ByteCount, TypeOK

\* The head of the channel, and what is left.
LEMMA InQueueTail ==
  ASSUME RecordTypes, queue # <<>>, queue' = Tail(queue)
  PROVE  /\ Head(queue) \in Records /\ Tail(queue) \in Seq(Records)
         /\ Len(Tail(queue)) <= QueueCap
         /\ InQueue = InQueue' \cup {Head(queue)}
         /\ Head(queue) = queue[1] /\ 1 \in DOMAIN queue
         /\ \A i \in DOMAIN queue' : i + 1 \in DOMAIN queue /\ queue'[i] = queue[i + 1] /\ i \in Nat \ {0}
  <1>1. queue \in Seq(Records) /\ Len(queue) \in Nat /\ DOMAIN queue = 1 .. Len(queue)
        /\ Len(queue) <= QueueCap /\ QueueCap \in Nat
    BY QueueAssumption DEF RecordTypes
  <1>2. /\ Len(queue) > 0 /\ Head(queue) = queue[1] /\ Head(queue) \in Records
        /\ Tail(queue) \in Seq(Records) /\ Len(Tail(queue)) = Len(queue) - 1
        /\ DOMAIN queue' = 1 .. Len(queue) - 1
        /\ \A i \in 1 .. Len(queue) - 1 : queue'[i] = queue[i + 1]
    BY <1>1
  <1>3. \A i \in DOMAIN queue' : i + 1 \in DOMAIN queue /\ queue'[i] = queue[i + 1] /\ i \in Nat \ {0}
    BY <1>1, <1>2
  <1>4. ASSUME NEW i \in DOMAIN queue
        PROVE  queue[i] = Head(queue) \/ queue[i] \in InQueue'
    <2>1. CASE i = 1
      BY <1>2, <2>1
    <2>2. CASE i # 1
      <3>1. i - 1 \in DOMAIN queue' /\ queue'[i - 1] = queue[i]
        BY <1>1, <1>2, <2>2
      <3>2. QED
        BY <3>1 DEF InQueue
    <2>3. QED
      BY <2>1, <2>2
  <1>5. InQueue = InQueue' \cup {Head(queue)}
    <2>1. InQueue \subseteq InQueue' \cup {Head(queue)}
      BY <1>4 DEF InQueue
    <2>2. InQueue' \subseteq InQueue
      BY <1>3 DEF InQueue
    <2>3. Head(queue) \in InQueue
      BY <1>1, <1>2 DEF InQueue
    <2>4. QED
      BY <2>1, <2>2, <2>3
  <1>6. QED
    BY <1>1, <1>2, <1>3, <1>5

\* Taking up a record.
LEMMA ReceiveKeeps ==
  ASSUME IInv, Receive
  PROVE  IInv'
  <1>1. RecordTypes /\ DrainerTypes /\ SyncTypes /\ CloserTypes /\ TruthTypes
    BY TypesTogether DEF IInv
  <1>2. queue # <<>> /\ queue' = Tail(queue) /\ rec' = Head(queue)
        /\ drainer = "receive" /\ drainer' = "flush" /\ UNCHANGED <<pc, queuedBytes>>
    BY DEF Receive
  <1>3. /\ Held = {} /\ Held' = {rec'} /\ rec' \in Records /\ rec' # None
        /\ InQueue = InQueue' \cup {rec'}
    BY <1>1, <1>2, InQueueTail, QueueAssumption DEF Held
  <1>4. RecordTypes'
    BY <1>1, <1>2, InQueueTail DEF RecordTypes, Receive
  <1>5. DrainerTypes'
    BY <1>1, <1>3 DEF RecordTypes, DrainerTypes, Receive, flushVars
  <1>6. SyncTypes' /\ CloserTypes'
    BY <1>1 DEF SyncTypes, CloserTypes, Receive, faultVars, closeVars
  <1>7. TruthTypes'
    BY <1>1, Zenon DEF TruthTypes, Receive, closeVars
  <1>8. TypeOK'
    BY <1>4, <1>5, <1>6, <1>7, TypesTogetherNext
  <1>9. Phases'
    <2>1. ReadLocked' = ReadLocked
      BY <1>2 DEF ReadLocked
    <2>2. QED
      BY <1>2, <1>3, <2>1 DEF IInv, Phases, NoSendOnClosed, Receive, closeVars
  <1>10. Orderly'
    <2>1. \A r \in InQueue' \cup Held' : r \in Records /\ pc'[r] = "accepted"
      BY <1>2, <1>3 DEF IInv, Orderly
    <2>2. /\ \A i \in DOMAIN queue' : i + 1 \in DOMAIN queue /\ queue'[i] = queue[i + 1]
                                      /\ i \in Nat \ {0}
          /\ rec' = queue[1] /\ 1 \in DOMAIN queue
      BY <1>1, <1>2, InQueueTail
    <2>3. \A i, j \in DOMAIN queue : queue[i] = queue[j] => i = j
      BY DEF IInv, Orderly
    <2>4. \A i, j \in DOMAIN queue' : queue'[i] = queue'[j] => i = j
      <3> SUFFICES ASSUME NEW i \in DOMAIN queue', NEW j \in DOMAIN queue', queue'[i] = queue'[j]
                   PROVE  i = j
        OBVIOUS
      <3>1. i + 1 = j + 1
        BY <2>2, <2>3
      <3>2. QED
        BY <2>2, <3>1
    <2>5. rec' \notin InQueue'
      <3> SUFFICES ASSUME NEW i \in DOMAIN queue', queue'[i] = rec' PROVE FALSE
        BY DEF InQueue
      <3>1. i + 1 = 1
        BY <2>2, <2>3
      <3>2. QED
        BY <2>2, <3>1
    <2>6. QED
      BY <1>3, <2>1, <2>4, <2>5 DEF Orderly
  <1>11. ByteCount'
    <2>1. InFlight' = InFlight /\ (Sending \cup InQueue \cup Held)' = Sending \cup InQueue \cup Held
      BY <1>2, <1>3 DEF InFlight, Reserving, Sending
    <2>2. QED
      BY <1>2, <2>1 DEF IInv, ByteCount
  <1>12. Drops'
    <2>1. UNCHANGED <<dropped, buckets, tallied, lastDroppedMarked, markedDrops, reported, snap>>
          /\ seen' = dropped
      BY DEF Receive, flushVars
    <2>2. dropped \in Nat
      BY <1>1 DEF RecordTypes
    <2>3. QED
      BY <1>2, <2>1, <2>2 DEF IInv, Drops, MarkersCarryTheCount, TallyConserved
  <1>13. TailCounts'
    <2>1. wrote' = 0 /\ UNCHANGED <<unsynced, sinceSync>> /\ unsynced = sinceSync /\ sinceSync \in Nat
      BY <1>1, <1>2 DEF Receive, IInv, TailCounts, SyncTypes
    <2>2. QED
      BY <1>2, <2>1 DEF TailCounts, Flushing
  <1>14. Traces'
    <2>1. UNCHANGED <<pc, written, failures, damaged, closeErr, chanClosed, atClose, closer, dropped>>
          /\ ~unmarked'
      BY DEF Receive, faultVars, closeVars
    <2>2. \A r \in Records : pc'[r] = "accepted" =>
            r \in written' \/ r \in InQueue' \/ (r = rec' /\ drainer' \in Flushing \cup {"write"})
            \/ failures' > 0
      BY <1>2, <1>3, <2>1 DEF IInv, Traces, Flushing
    <2>3. closer # "done"
      BY <1>2 DEF IInv, Phases
    <2>4. QED
      BY <1>2, <1>3, <2>1, <2>2, <2>3 DEF IInv, Traces
  <1>15. QED
    BY <1>8, <1>9, <1>10, <1>11, <1>12, <1>13, <1>14 DEF IInv

\* Everything the drainer does between taking up a record and crediting it, or afterwards.
QuietStep ==
  \/ ReceiveClosed \/ flushDropMarker \/ snapshotDropBuckets \/ WriteMarker \/ WriteMarkerFails
  \/ resetDropBuckets \/ writeRecord \/ WriteRecordFails
  \/ SyncCount \/ ArmTimer \/ LastSync \/ TimerFires

LEMMA QuietFrame ==
  ASSUME IInv, QuietStep
  PROVE  /\ UNCHANGED <<pc, queue, queuedBytes, dropped, tallied>>
         /\ UNCHANGED <<chanClosed, closed, closer, closeErr, atClose>>
         /\ Held' = Held /\ ReadLocked' = ReadLocked
         /\ (rec' = rec \/ ReceiveClosed) /\ drainer # "exited"
  <1>1. /\ UNCHANGED <<pc, queue, queuedBytes, dropped, tallied>>
        /\ UNCHANGED <<chanClosed, closed, closer, closeErr, atClose>>
        /\ (rec' = rec \/ ReceiveClosed) /\ drainer # "exited"
    BY DEF QuietStep, ReceiveClosed, flushDropMarker, snapshotDropBuckets, WriteMarker,
       WriteMarkerFails, resetDropBuckets, writeRecord, WriteRecordFails, SyncCount, ArmTimer,
       LastSync, TimerFires, producerVars, closeVars
  <1>2. Held' = Held
    <2>1. CASE ReceiveClosed
      BY <2>1 DEF ReceiveClosed, Held
    <2>2. CASE flushDropMarker \/ WriteMarkerFails \/ resetDropBuckets
      BY <1>1, <2>2 DEF flushDropMarker, WriteMarkerFails, resetDropBuckets, AfterFlush, Held, ReceiveClosed
    <2>3. CASE snapshotDropBuckets \/ WriteMarker \/ writeRecord \/ WriteRecordFails
      BY <1>1, <2>3 DEF snapshotDropBuckets, WriteMarker, writeRecord, WriteRecordFails, Held, ReceiveClosed
    <2>4. CASE SyncCount \/ ArmTimer \/ LastSync \/ TimerFires
      BY <1>1, <2>4 DEF SyncCount, ArmTimer, LastSync, TimerFires, Held, ReceiveClosed
    <2>5. QED
      BY <2>1, <2>2, <2>3, <2>4 DEF QuietStep
  <1>3. ReadLocked' = ReadLocked
    BY <1>1 DEF ReadLocked
  <1>4. QED
    BY <1>1, <1>2, <1>3

\* It keeps the phases.
LEMMA QuietPhases ==
  ASSUME IInv, QuietStep
  PROVE  Phases'
  <1>1. Phases
    BY DEF IInv
  <1>2. /\ (closed <=> chanClosed)' /\ NoSendOnClosed'
        /\ (chanClosed <=> closer \in {"waiting", "sampling", "done"})'
        /\ closer' \notin {"sampling", "done"}
    <2>1. closer' \notin {"sampling", "done"}
      BY <1>1, QuietFrame DEF Phases
    <2>2. /\ (closed <=> chanClosed)' /\ NoSendOnClosed'
          /\ (chanClosed <=> closer \in {"waiting", "sampling", "done"})'
      <3>1. chanClosed' = chanClosed /\ closed' = closed /\ closer' = closer
            /\ ReadLocked' = ReadLocked
        BY QuietFrame
      <3>2. QED
        BY <1>1, <3>1, Zenon DEF Phases, NoSendOnClosed
    <2>3. QED
      BY <2>1, <2>2
  <1>3. /\ drainer' \in {"last sync", "exited"} => rec' = None
        /\ drainer' \in {"write", "credit"} => rec' \in Records
        /\ rec' = None /\ drainer' \in Flushing \cup {"last sync", "exited"}
           => chanClosed' /\ queue' = <<>>
    <2> USE <1>1, QueueAssumption DEF Phases, Flushing
    <2>1. rec \in Records \cup {None}
      BY DEF IInv, TypeOK
    <2>2. CASE ReceiveClosed
      BY <2>2, QuietFrame DEF ReceiveClosed
    <2>3. CASE flushDropMarker \/ WriteMarkerFails \/ resetDropBuckets
      BY <2>1, <2>3, QuietFrame DEF flushDropMarker, WriteMarkerFails, resetDropBuckets, AfterFlush, ReceiveClosed
    <2>4. CASE snapshotDropBuckets \/ WriteMarker \/ writeRecord \/ WriteRecordFails
      BY <2>4, QuietFrame DEF snapshotDropBuckets, WriteMarker, writeRecord, WriteRecordFails, ReceiveClosed
    <2>5. CASE SyncCount \/ ArmTimer \/ LastSync \/ TimerFires
      BY <2>5, QuietFrame DEF SyncCount, ArmTimer, LastSync, TimerFires, ReceiveClosed
    <2>6. QED
      BY <2>2, <2>3, <2>4, <2>5 DEF QuietStep
  <1>4. QED
    BY <1>2, <1>3 DEF Phases

\* It conserves the drops it reports.
LEMMA QuietDrops ==
  ASSUME IInv, QuietStep
  PROVE  Drops' /\ RecordTypes' /\ DrainerTypes'
  <1>1. RecordTypes /\ DrainerTypes /\ Drops
    BY TypesTogether DEF IInv
  <1>2. /\ dropped \in Nat /\ cur \in Nat /\ lastDroppedMarked \in Nat /\ markedDrops \in Nat
        /\ seen \in Nat /\ rec \in Records \cup {None} /\ written \subseteq Records
        /\ \A b \in Buckets : /\ buckets[b] \in Nat /\ snap[b] \in Nat /\ reported[b] \in Nat
                              /\ tallied[b] \in Nat
    BY <1>1 DEF RecordTypes, DrainerTypes
  <1>3. /\ lastDroppedMarked = markedDrops /\ seen <= dropped
        /\ drainer \in {"marker", "reset"} => \A b \in Buckets : snap[b] <= buckets[b]
        /\ drainer \in {"snapshot", "marker"} => seen <= cur /\ lastDroppedMarked <= cur
        /\ drainer \in {"reset", "write", "credit", "last sync", "exited"} /\ ~unmarked
           => seen <= lastDroppedMarked
        /\ \A b \in Buckets : reported[b] + buckets[b]
                              = tallied[b] + (IF drainer = "reset" THEN snap[b] ELSE 0)
    BY <1>1 DEF Drops, MarkersCarryTheCount, TallyConserved
  <1>4. CASE UNCHANGED <<buckets, snap, reported, lastDroppedMarked, markedDrops, cur>>
             /\ ~flushDropMarker /\ ~WriteMarkerFails /\ ~WriteMarker /\ ~snapshotDropBuckets /\ ~resetDropBuckets
    <2>1. /\ seen' \in {seen, dropped} /\ written' \subseteq Records /\ rec' \in Records \cup {None}
          /\ drainer' \in {"flush", "credit", "receive", "exited"}
          /\ drainer' # "flush" => seen' = seen /\ unmarked' = unmarked
          /\ drainer' = "credit" => drainer = "write"
          /\ drainer' = "exited" => drainer = "last sync"
          /\ drainer # "reset"
      BY <1>2, <1>4 DEF QuietStep, ReceiveClosed, writeRecord, WriteRecordFails, SyncCount, ArmTimer, LastSync,
         TimerFires, IInv, Phases
    <2>2. dropped' = dropped /\ tallied' = tallied /\ RecordTypes'
      BY <1>1, <1>4, QuietFrame DEF RecordTypes
    <2>3. DrainerTypes'
      BY <1>1, <1>2, <1>4, <2>1 DEF DrainerTypes
    <2>4. TallyConserved'
      BY <1>3, <1>4, <2>1, <2>2 DEF TallyConserved
    <2>5. seen' <= dropped'
      <3>1. seen <= dropped
        BY <1>3
      <3>2. seen' = seen \/ seen' = dropped
        BY <2>1
      <3>3. QED
        BY <1>2, <2>2, <3>1, <3>2
    <2>6. Drops'
      <3>1. UNCHANGED <<lastDroppedMarked, markedDrops>> /\ lastDroppedMarked = markedDrops
        BY <1>3, <1>4
      <3>2. drainer' \in {"credit", "exited"} /\ ~unmarked' => seen' <= lastDroppedMarked'
        <4>1. ASSUME drainer' \in {"credit", "exited"}, ~unmarked' PROVE seen' <= lastDroppedMarked'
          <5>1. drainer \in {"write", "last sync"} /\ seen' = seen /\ unmarked' = unmarked
            BY <2>1, <4>1
          <5>2. ~unmarked
            BY <4>1, <5>1, Zenon
          <5>3. seen <= lastDroppedMarked
            BY <1>3, <5>1, <5>2
          <5>4. QED
            BY <3>1, <5>1, <5>3
        <4>2. QED
          BY <4>1
      <3>3. drainer' \in {"flush", "credit", "receive", "exited"}
        BY <2>1
      <3>4. QED
        BY <2>4, <2>5, <3>1, <3>2, <3>3 DEF Drops, MarkersCarryTheCount
    <2>7. QED
      BY <2>2, <2>3, <2>6
  <1>5. CASE flushDropMarker
    <2>1. /\ UNCHANGED <<dropped, buckets, tallied, snap, lastDroppedMarked, markedDrops, reported, seen>>
          /\ drainer = "flush"
          /\ \/ dropped <= lastDroppedMarked /\ drainer' \in {"write", "last sync"}
             \/ ~(dropped <= lastDroppedMarked) /\ drainer' = "snapshot" /\ cur' = dropped
      BY <1>5 DEF flushDropMarker, producerVars, AfterFlush
    <2>2. RecordTypes' /\ DrainerTypes'
      BY <1>1, <1>5, QuietFrame DEF flushDropMarker, producerVars, AfterFlush, RecordTypes, DrainerTypes
    <2>3. TallyConserved'
      BY <1>3, <2>1 DEF TallyConserved
    <2>4. seen' <= dropped' /\ lastDroppedMarked' = markedDrops'
      BY <1>3, <2>1
    <2>5. CASE dropped <= lastDroppedMarked
      <3>1. seen' <= lastDroppedMarked' /\ drainer' \in {"write", "last sync"}
        <4>1. dropped' = dropped /\ lastDroppedMarked' = lastDroppedMarked /\ seen' = seen
          BY <2>1
        <4>2. seen \in Nat /\ dropped \in Nat /\ lastDroppedMarked \in Nat
          BY <1>2
        <4>3. seen' <= lastDroppedMarked'
          BY <2>4, <2>5, <4>1, <4>2
        <4>4. QED
          BY <2>1, <2>5, <4>3
      <3>2. QED
        BY <2>2, <2>3, <2>4, <3>1 DEF Drops, MarkersCarryTheCount
    <2>6. CASE ~(dropped <= lastDroppedMarked)
      <3>1. seen' <= cur' /\ lastDroppedMarked' <= cur' /\ drainer' = "snapshot"
        <4>1. dropped' = dropped /\ lastDroppedMarked' = lastDroppedMarked /\ seen' = seen
              /\ cur' = dropped /\ drainer' = "snapshot"
          BY <2>1, <2>6
        <4>2. seen \in Nat /\ dropped \in Nat /\ lastDroppedMarked \in Nat
          BY <1>2
        <4>3. QED
          BY <2>4, <2>6, <4>1, <4>2
      <3>2. QED
        BY <2>2, <2>3, <2>4, <3>1 DEF Drops, MarkersCarryTheCount
    <2>7. QED
      BY <2>5, <2>6
  <1>6. CASE snapshotDropBuckets
    BY <1>1, <1>2, <1>3, <1>6, QuietFrame DEF snapshotDropBuckets, producerVars, Drops, MarkersCarryTheCount,
       TallyConserved, RecordTypes, DrainerTypes
  <1>7. CASE WriteMarker
    BY <1>1, <1>2, <1>3, <1>7, QuietFrame DEF WriteMarker, producerVars, Drops, MarkersCarryTheCount,
       TallyConserved, RecordTypes, DrainerTypes
  <1>8. CASE WriteMarkerFails
    BY <1>1, <1>2, <1>3, <1>8, QuietFrame DEF WriteMarkerFails, producerVars, flushVars, AfterFlush, Drops,
       MarkersCarryTheCount, TallyConserved, RecordTypes, DrainerTypes
  <1>9. CASE resetDropBuckets
    <2>1. /\ UNCHANGED <<dropped, tallied, cur, snap, lastDroppedMarked, markedDrops, reported, seen>>
          /\ unmarked' = unmarked
          /\ drainer = "reset" /\ drainer' \in {"write", "last sync"}
      BY <1>9 DEF resetDropBuckets, flushVars, AfterFlush
    <2>2. \A b \in Buckets : buckets'[b] = buckets[b] - snap[b] /\ buckets'[b] \in Nat
      BY <1>2, <1>3, <1>9 DEF resetDropBuckets, Cleared
    <2>3. DOMAIN buckets' = Buckets /\ buckets' = [b \in Buckets |-> buckets'[b]]
      BY <1>9 DEF resetDropBuckets, Cleared
    <2>4. RecordTypes' /\ DrainerTypes'
      <3>1. buckets' \in [Buckets -> Nat]
        BY <2>2, <2>3
      <3>2. RecordTypes'
        BY <1>1, <3>1, QuietFrame DEF RecordTypes
      <3>3. DrainerTypes'
        BY <1>1, <1>9, <2>1 DEF resetDropBuckets, DrainerTypes
      <3>4. QED
        BY <3>2, <3>3
    <2>5. TallyConserved'
      <3>1. \A b \in Buckets : reported[b] + buckets[b] = tallied[b] + snap[b]
        BY <1>3, <2>1
      <3>2. \A b \in Buckets : reported[b] + (buckets[b] - snap[b]) = tallied[b]
        BY <1>2, <3>1
      <3>3. QED
        <4>1. reported' = reported /\ tallied' = tallied /\ drainer' # "reset"
          BY <2>1
        <4>2. QED
          BY <1>2, <2>2, <3>2, <4>1 DEF TallyConserved
    <2>6. QED
      BY <1>3, <2>1, <2>4, <2>5 DEF Drops, MarkersCarryTheCount
  <1>10. QED
    BY <1>4, <1>5, <1>6, <1>7, <1>8, <1>9 DEF QuietStep, ReceiveClosed, writeRecord, WriteRecordFails, SyncCount, ArmTimer, LastSync,
         TimerFires, producerVars, flushVars

\* A fault is counted, and none is forgotten.
LEMMA QuietFaults ==
  ASSUME IInv, QuietStep
  PROVE  /\ failures' \in Nat /\ faults' \in 0 .. MaxFaults
         /\ failures <= failures'
         /\ Fault => failures' > 0
  <1>1. failures \in Nat /\ faults \in 0 .. MaxFaults /\ MaxFaults \in Nat
    BY QueueAssumption DEF IInv, TypeOK
  <1>2. UNCHANGED faultVars \/ Fault
    BY DEF QuietStep, ReceiveClosed, flushDropMarker, snapshotDropBuckets, WriteMarker,
       WriteMarkerFails, resetDropBuckets, writeRecord, WriteRecordFails, SyncCount, ArmTimer,
       LastSync, TimerFires, SyncNow, faultVars
  <1>3. QED
    BY <1>1, <1>2 DEF Fault, faultVars

\* The fsync timer runs for every credited line, and lines are credited when written.
LEMMA QuietTail ==
  ASSUME IInv, QuietStep
  PROVE  TailCounts' /\ SyncTypes'
  <1>1. SyncTypes /\ SyncEveryN \in Nat \ {0}
    BY TypesTogether, QueueAssumption DEF IInv
  <1>2. sinceSync \in Nat /\ unsynced \in Nat /\ wrote \in 0 .. 2
    BY <1>1 DEF SyncTypes
  <1>3. /\ drainer \in {"flush", "snapshot", "marker"} => wrote = 0
        /\ drainer \in {"reset", "write"} => wrote <= 1
        /\ drainer \in Flushing \cup {"write", "credit"} => unsynced = sinceSync + wrote
        /\ drainer \in {"settle", "receive"} => unsynced = sinceSync
    BY DEF IInv, TailCounts
  <1>4. failures' \in Nat /\ faults' \in 0 .. MaxFaults
    BY QuietFaults
  <1> USE DEF Flushing
  <1>5. CASE flushDropMarker \/ snapshotDropBuckets \/ WriteMarkerFails \/ resetDropBuckets
             \/ WriteRecordFails
    <2>1. UNCHANGED <<sinceSync, unsynced, wrote>>
      BY <1>5 DEF flushDropMarker, snapshotDropBuckets, WriteMarkerFails, resetDropBuckets,
         WriteRecordFails, syncVars
    <2>2. /\ drainer \in Flushing \cup {"write"}
          /\ drainer' \in {"snapshot", "marker", "write", "credit", "last sync"}
          /\ drainer' \in {"snapshot", "marker"} => drainer \in {"flush", "snapshot"}
          /\ drainer' = "write" => drainer \in {"flush", "marker", "reset"}
      BY <1>5 DEF flushDropMarker, snapshotDropBuckets, WriteMarkerFails, resetDropBuckets,
         WriteRecordFails, AfterFlush
    <2>3. SyncTypes'
      BY <1>2, <1>4, <2>1 DEF SyncTypes
    <2>4. unsynced' = sinceSync' + wrote'
      BY <1>3, <2>1, <2>2
    <2>5. drainer' \in {"snapshot", "marker"} => wrote' = 0
      BY <1>3, <2>1, <2>2
    <2>6. drainer' = "write" => wrote' <= 1
      BY <1>2, <1>3, <2>1, <2>2
    <2>7. QED
      BY <2>2, <2>3, <2>4, <2>5, <2>6 DEF TailCounts
  <1>6. CASE WriteMarker \/ writeRecord
    <2>1. /\ sinceSync' = sinceSync /\ wrote' = wrote + 1 /\ unsynced' = unsynced + 1
          /\ \/ drainer = "marker" /\ drainer' = "reset"
             \/ drainer = "write" /\ drainer' = "credit"
      BY <1>6 DEF WriteMarker, writeRecord, Appended
    <2>2. QED
      BY <1>2, <1>3, <1>4, <2>1 DEF TailCounts, SyncTypes
  <1>7. CASE ReceiveClosed
    <2>1. /\ UNCHANGED <<sinceSync, unsynced>> /\ wrote' = 0
          /\ drainer = "receive" /\ drainer' = "flush"
      BY <1>7 DEF ReceiveClosed
    <2>2. QED
      BY <1>2, <1>3, <1>4, <2>1 DEF TailCounts, SyncTypes
  <1>8. CASE SyncCount \/ TimerFires \/ LastSync
    <2>1. /\ sinceSync' = 0 /\ wrote' = wrote
          /\ \/ sinceSync = 0 /\ unsynced' = unsynced
             \/ unsynced' = 0
          /\ drainer \in {"settle", "receive"} \/ drainer' = "exited"
          /\ drainer' \in {"receive", "exited"}
      BY <1>8 DEF SyncCount, TimerFires, LastSync, SyncNow
    <2>2. drainer' = "receive" => unsynced' = 0
      BY <1>2, <1>3, <2>1
    <2>3. QED
      BY <1>1, <1>2, <1>4, <2>1, <2>2 DEF TailCounts, SyncTypes
  <1>9. CASE ArmTimer
    <2>1. /\ UNCHANGED <<sinceSync, unsynced, wrote>> /\ drainer = "settle" /\ drainer' = "receive"
          /\ sinceSync < SyncEveryN
      BY <1>9 DEF ArmTimer
    <2>2. sinceSync' > 0 => timerArmed'
      BY <1>9, <2>1 DEF ArmTimer
    <2>3. SyncTypes'
      BY <1>2, <1>4, <2>1 DEF SyncTypes
    <2>4. unsynced' = sinceSync' /\ sinceSync' < SyncEveryN /\ drainer' = "receive"
      BY <1>3, <2>1
    <2>5. QED
      BY <2>2, <2>3, <2>4 DEF TailCounts
  <1>10. QED
    BY <1>5, <1>6, <1>7, <1>8, <1>9 DEF QuietStep

\* A loss leaves a trace.
LEMMA QuietTraces ==
  ASSUME IInv, QuietStep
  PROVE  Traces'
  <1>1. /\ UNCHANGED <<pc, queue, dropped>> /\ InQueue' = InQueue
        /\ closer' = closer /\ atClose' = atClose
        /\ chanClosed' = chanClosed /\ closeErr' = closeErr
    BY QuietFrame DEF InQueue
  <1>2. failures' \in Nat /\ failures \in Nat /\ failures <= failures' /\ (Fault => failures' > 0)
    BY QuietFaults DEF IInv, TypeOK
  <1>3. failures > 0 => failures' > 0
    BY <1>2
  <1>4. \A r \in Records : pc'[r] = "accepted" =>
          r \in written' \/ r \in InQueue' \/ (r = rec' /\ drainer' \in Flushing \cup {"write"})
          \/ failures' > 0
    <2> SUFFICES ASSUME NEW r \in Records, pc[r] = "accepted"
                 PROVE  r \in written' \/ r \in InQueue
                        \/ (r = rec' /\ drainer' \in Flushing \cup {"write"}) \/ failures' > 0
      BY <1>1
    <2>1. r \in written \/ r \in InQueue \/ (r = rec /\ drainer \in Flushing \cup {"write"})
          \/ failures > 0
      BY DEF IInv, Traces
    <2>2. written \subseteq written'
      BY DEF QuietStep, ReceiveClosed, flushDropMarker, snapshotDropBuckets, WriteMarker,
         WriteMarkerFails, resetDropBuckets, writeRecord, WriteRecordFails, SyncCount, ArmTimer,
         LastSync, TimerFires
    <2>3. CASE r = rec /\ drainer \in Flushing \cup {"write"}
      <3>1. rec # None
        BY <2>3, QueueAssumption
      <3>2. CASE writeRecord
        BY <2>3, <3>2 DEF writeRecord
      <3>3. CASE WriteRecordFails
        BY <1>2, <3>3 DEF WriteRecordFails
      <3>4. CASE flushDropMarker \/ snapshotDropBuckets \/ WriteMarker \/ WriteMarkerFails
                 \/ resetDropBuckets
        BY <2>3, <3>1, <3>4 DEF flushDropMarker, snapshotDropBuckets, WriteMarker,
           WriteMarkerFails, resetDropBuckets, AfterFlush, Flushing
      <3>5. QED
        BY <2>3, <3>2, <3>3, <3>4 DEF QuietStep, ReceiveClosed, SyncCount, ArmTimer, LastSync,
           TimerFires, Flushing
    <2>4. QED
      BY <1>3, <2>1, <2>2, <2>3
  <1>5. damaged' => failures' > 0 \/ closeErr'
    <2>1. damaged => failures > 0 \/ closeErr
      BY DEF IInv, Traces
    <2>2. damaged' = damaged \/ Fault
      BY DEF QuietStep, ReceiveClosed, flushDropMarker, snapshotDropBuckets, WriteMarker,
         WriteMarkerFails, resetDropBuckets, writeRecord, WriteRecordFails, SyncCount, ArmTimer,
         LastSync, TimerFires, SyncNow, syncVars, Appended
    <2>3. QED
      BY <1>1, <1>2, <1>3, <2>1, <2>2, Zenon
  <1>6. unmarked' => failures' > 0
    <2>1. unmarked => failures > 0
      BY DEF IInv, Traces
    <2>2. unmarked' = unmarked \/ unmarked' = FALSE \/ Fault
      BY DEF QuietStep, ReceiveClosed, flushDropMarker, snapshotDropBuckets, WriteMarker,
         WriteMarkerFails, resetDropBuckets, writeRecord, WriteRecordFails, SyncCount, ArmTimer,
         LastSync, TimerFires
    <2>3. QED
      BY <1>2, <1>3, <2>1, <2>2, Zenon
  <1>7. chanClosed' => atClose' <= dropped'
    BY <1>1 DEF IInv, Traces
  <1>8. rec' = None /\ drainer' \in Flushing \cup {"last sync", "exited"} => atClose' <= seen'
    <2>1. CASE ReceiveClosed
      BY <1>1, <2>1 DEF ReceiveClosed, IInv, Traces
    <2>2. CASE ~ReceiveClosed
      <3>1. seen' = seen /\ rec' = rec
        BY <2>2 DEF QuietStep, flushDropMarker, snapshotDropBuckets, WriteMarker,
           WriteMarkerFails, resetDropBuckets, writeRecord, WriteRecordFails, SyncCount, ArmTimer,
           LastSync, TimerFires
      <3>2. drainer' \in Flushing \cup {"last sync", "exited"}
            => drainer \in Flushing \cup {"last sync", "exited"}
        BY <2>2 DEF QuietStep, flushDropMarker, snapshotDropBuckets, WriteMarker,
           WriteMarkerFails, resetDropBuckets, writeRecord, WriteRecordFails, SyncCount, ArmTimer,
           LastSync, TimerFires, Flushing
      <3>3. QED
        BY <1>1, <3>1, <3>2 DEF IInv, Traces
    <2>3. QED
      BY <2>1, <2>2
  <1>9. closer' # "done" /\ ~closeErr'
    <2>1. closer # "done"
      BY QuietFrame DEF IInv, Phases
    <2>2. ~closeErr
      BY <2>1 DEF IInv, Traces
    <2>3. QED
      BY <1>1, <2>1, <2>2
  <1>10. QED
    BY <1>4, <1>5, <1>6, <1>7, <1>8, <1>9 DEF Traces

LEMMA QuietKeeps ==
  ASSUME IInv, QuietStep
  PROVE  IInv'
  <1>1. RecordTypes /\ DrainerTypes /\ SyncTypes /\ CloserTypes /\ TruthTypes
    BY TypesTogether DEF IInv
  <1>2. CloserTypes'
    BY <1>1, QuietFrame DEF CloserTypes
  <1>3. TruthTypes'
    <2>1. chanClosed' = chanClosed /\ closed' = closed /\ closeErr' = closeErr
      BY QuietFrame
    <2>2. timerArmed' \in BOOLEAN
      BY <1>1, Zenon DEF TruthTypes, QuietStep, ReceiveClosed, flushDropMarker, snapshotDropBuckets,
         WriteMarker, WriteMarkerFails, resetDropBuckets, writeRecord, WriteRecordFails, SyncCount,
         ArmTimer, LastSync, TimerFires, syncVars
    <2>3. damaged' \in BOOLEAN
      BY <1>1, Zenon DEF TruthTypes, QuietStep, ReceiveClosed, flushDropMarker, snapshotDropBuckets,
         WriteMarker, WriteMarkerFails, resetDropBuckets, writeRecord, WriteRecordFails, SyncCount,
         ArmTimer, LastSync, TimerFires, SyncNow, syncVars
    <2>4. unmarked' \in BOOLEAN
      BY <1>1, Zenon DEF TruthTypes, QuietStep, ReceiveClosed, flushDropMarker, snapshotDropBuckets,
         WriteMarker, WriteMarkerFails, resetDropBuckets, writeRecord, WriteRecordFails, SyncCount,
         ArmTimer, LastSync, TimerFires
    <2>5. QED
      BY <1>1, <2>1, <2>2, <2>3, <2>4, Zenon DEF TruthTypes
  <1>4. TypeOK'
    BY <1>2, <1>3, QuietDrops, QuietTail, TypesTogetherNext
  <1>5. Orderly' /\ ByteCount'
    BY QuietFrame, SameRecords
  <1>6. QED
    BY <1>4, <1>5, QuietPhases, QuietDrops, QuietTail, QuietTraces DEF IInv

\* The record's bytes go back when it is written or lost.
LEMMA CreditKeeps ==
  ASSUME IInv, Credit
  PROVE  IInv'
  <1>1. RecordTypes /\ DrainerTypes /\ SyncTypes /\ CloserTypes /\ TruthTypes
    BY TypesTogether DEF IInv
  <1>2. /\ UNCHANGED <<pc, queue, dropped, buckets, tallied>>
        /\ drainer = "credit" /\ drainer' = "settle" /\ rec' = rec
        /\ queuedBytes' = queuedBytes - Size[rec] /\ sinceSync' = sinceSync + wrote
    BY DEF Credit, CreditLines
  <1>3. /\ rec \in Records /\ rec # None /\ Size[rec] \in Nat
    BY <1>2, QueueAssumption DEF IInv, Phases
  <1>4. Held = {rec} /\ Held' = {} /\ InQueue' = InQueue /\ ReadLocked' = ReadLocked
    BY <1>2, <1>3 DEF Held, InQueue, ReadLocked
  <1>5. Orderly'
    BY <1>2, <1>4 DEF IInv, Orderly
  <1>6. ByteCount' /\ queuedBytes' \in Nat
    <2> DEFINE Kept == Sending \cup InQueue \cup Held
    <2>1. InFlight' = InFlight \ {rec} /\ rec \in InFlight /\ InFlight \subseteq Records
      BY <1>2, <1>4 DEF IInv, Orderly, InFlight, Reserving
    <2>2. Kept' \subseteq Kept /\ Kept \subseteq InFlight
      BY <1>2, <1>4 DEF Sending, InFlight, Reserving
    <2>3. IsFiniteSet(InFlight) /\ queuedBytes = SizeOf(InFlight) /\ SizeOf(Kept) <= ByteBudget
      BY DEF IInv, ByteCount
    <2>4. SizeOf(InFlight) = Size[rec] + SizeOf(InFlight') /\ IsFiniteSet(InFlight')
      BY <2>1, <2>3, SizeOfRemove, FS_RemoveElement
    <2>5. SizeOf(InFlight') \in Nat
      BY <2>1, <2>4, SizeOfRemove
    <2>6. queuedBytes' = SizeOf(InFlight')
      BY <1>2, <1>3, <2>3, <2>4, <2>5
    <2>7. IsFiniteSet(Kept) /\ IsFiniteSet(Kept') /\ Kept \subseteq Records
      BY <2>1, <2>2, <2>3, FS_Subset
    <2>8. SizeOf(Kept') <= SizeOf(Kept) /\ SizeOf(Kept) \in Nat /\ SizeOf(Kept') \in Nat
      BY <2>2, <2>7, SizeOfMonotone, SizeOfRemove
    <2>9. SizeOf(Kept') <= ByteBudget
      BY <2>3, <2>8, QueueAssumption
    <2>10. QED
      BY <2>4, <2>5, <2>6, <2>9 DEF ByteCount
  <1>7. RecordTypes'
    BY <1>1, <1>2, <1>6 DEF RecordTypes
  <1>8. DrainerTypes' /\ CloserTypes'
    BY <1>1, <1>2 DEF DrainerTypes, CloserTypes, Credit, flushVars, closeVars
  <1>9. SyncTypes'
    BY <1>1, <1>2 DEF SyncTypes, Credit, faultVars
  <1>10. TruthTypes'
    BY <1>1, Zenon DEF TruthTypes, Credit, closeVars
  <1>11. TypeOK'
    BY <1>7, <1>8, <1>9, <1>10, TypesTogetherNext
  <1>12. Phases'
    <2>1. closed' = closed /\ chanClosed' = chanClosed /\ closer' = closer
      BY DEF Credit, closeVars
    <2>2. closer \notin {"sampling", "done"}
      BY <1>2 DEF IInv, Phases
    <2>3. QED
      BY <1>2, <1>4, <2>1, <2>2 DEF IInv, Phases, NoSendOnClosed, Flushing
  <1>13. Drops'
    <2>1. UNCHANGED <<seen, lastDroppedMarked, markedDrops, reported>>
      BY DEF Credit, flushVars
    <2>2. QED
      BY <1>2, <2>1 DEF IInv, Drops, MarkersCarryTheCount, TallyConserved
  <1>14. TailCounts'
    <2>1. unsynced' = unsynced /\ unsynced = sinceSync + wrote
      BY <1>2 DEF Credit, IInv, TailCounts
    <2>2. QED
      BY <1>2, <2>1 DEF TailCounts, Flushing
  <1>15. Traces'
    <2>1. /\ UNCHANGED <<written, failures, atClose, closer, unsynced>>
          /\ damaged' = damaged /\ closeErr' = closeErr /\ unmarked' = unmarked
          /\ chanClosed' = chanClosed
      BY DEF Credit, faultVars, closeVars
    <2>2. \A r \in Records : pc'[r] = "accepted" =>
            r \in written' \/ r \in InQueue' \/ (r = rec' /\ drainer' \in Flushing \cup {"write"})
            \/ failures' > 0
      BY <1>2, <1>4, <2>1 DEF IInv, Traces, Flushing
    <2>3. /\ damaged' => failures' > 0 \/ closeErr'
          /\ unmarked' => failures' > 0
      <3>1. (damaged => failures > 0 \/ closeErr) /\ (unmarked => failures > 0)
        BY DEF IInv, Traces
      <3>2. failures' = failures
        BY <2>1
      <3>3. QED
        BY <2>1, <3>1, <3>2, Zenon
    <2>4. chanClosed' => atClose' <= dropped'
      BY <1>2, <2>1 DEF IInv, Traces
    <2>5. closer' # "done" /\ ~closeErr'
      <3>1. closer # "done"
        BY <1>2 DEF IInv, Phases
      <3>2. ~closeErr
        BY <3>1 DEF IInv, Traces
      <3>3. QED
        BY <2>1, <3>1, <3>2
    <2>6. QED
      BY <1>2, <2>2, <2>3, <2>4, <2>5 DEF Traces, Flushing
  <1>16. QED
    BY <1>5, <1>6, <1>11, <1>12, <1>13, <1>14, <1>15 DEF IInv
-----------------------------------------------------------------------------
(* Close. *)

\* What Close leaves alone.
LEMMA CloseFrame ==
  ASSUME IInv, AroundClose
  PROVE  /\ Orderly' /\ ByteCount' /\ Drops' /\ RecordTypes' /\ DrainerTypes'
         /\ UNCHANGED <<pc, queue, dropped, drainer, rec, written, seen, sinceSync, wrote, InQueue, ReadLocked>>
         /\ unmarked' = unmarked /\ timerArmed' = timerArmed
  <1>1. RecordTypes /\ DrainerTypes /\ Drops
    BY TypesTogether DEF IInv
  <1>2. /\ UNCHANGED <<pc, queue, queuedBytes, dropped, buckets, tallied>>
        /\ UNCHANGED <<cur, snap, lastDroppedMarked, markedDrops, reported>>
        /\ UNCHANGED <<drainer, rec, written, seen, sinceSync, wrote>>
        /\ unmarked' = unmarked /\ timerArmed' = timerArmed
    BY DEF AroundClose, producerVars, flushVars
  <1>3. RecordTypes' /\ DrainerTypes'
    BY <1>1, <1>2 DEF RecordTypes, DrainerTypes
  <1>4. Drops'
    <2>1. TallyConserved' /\ MarkersCarryTheCount'
      BY <1>1, <1>2 DEF Drops, TallyConserved, MarkersCarryTheCount
    <2>2. QED
      BY <1>1, <1>2, <2>1 DEF Drops
  <1>5. Held' = Held /\ InQueue' = InQueue /\ ReadLocked' = ReadLocked
    BY <1>2 DEF Held, InQueue, ReadLocked
  <1>6. QED
    BY <1>2, <1>3, <1>4, <1>5, SameRecords

\* The lock, the close of the channel and the wait for the drainer.
LEMMA CloseStepsKeep ==
  ASSUME IInv, BeginClose \/ CloseChannel \/ AwaitDrainer
  PROVE  IInv'
  <1>1. RecordTypes /\ DrainerTypes /\ SyncTypes /\ CloserTypes /\ TruthTypes
    BY TypesTogether DEF IInv
  <1>2. AroundClose
    BY DEF BeginClose, CloseChannel, AwaitDrainer
  <1>3. UNCHANGED <<unsynced, failures, faults>> /\ damaged' = damaged /\ closeErr' = closeErr
    BY DEF BeginClose, CloseChannel, AwaitDrainer, faultVars
  <1>4. /\ closer \in {"open", "locking", "waiting"} /\ closer' \in {"locking", "waiting", "sampling"}
        /\ closer' = "sampling" => drainer = "exited"
    BY DEF BeginClose, CloseChannel, AwaitDrainer
  <1>5. \/ /\ closed' = closed /\ chanClosed' = chanClosed /\ atClose' = atClose
           /\ closer' \in {"waiting", "sampling"} <=> closer = "waiting"
        \/ /\ closed' = TRUE /\ chanClosed' = TRUE /\ atClose' = dropped /\ ReadLocked = {}
           /\ closer = "locking" /\ closer' = "waiting"
    BY DEF BeginClose, CloseChannel, AwaitDrainer, Locked
  <1>6. SyncTypes' /\ CloserTypes'
    BY <1>1, <1>2, <1>3, <1>4, <1>5, CloseFrame DEF SyncTypes, CloserTypes, RecordTypes
  <1>7. TruthTypes'
    <2>1. timerArmed' = timerArmed /\ unmarked' = unmarked
      BY <1>2, CloseFrame
    <2>2. QED
      BY <1>1, <1>3, <1>5, <2>1, Zenon DEF TruthTypes
  <1>8. TypeOK'
    BY <1>2, <1>6, <1>7, CloseFrame, TypesTogetherNext
  <1>9. Phases'
    <2>1. UNCHANGED <<drainer, rec, queue, ReadLocked>>
      BY <1>2, CloseFrame
    <2>2. /\ drainer \in {"last sync", "exited"} => rec = None
          /\ drainer \in {"write", "credit"} => rec \in Records
          /\ rec = None /\ drainer \in Flushing \cup {"last sync", "exited"} => chanClosed /\ queue = <<>>
          /\ closed <=> chanClosed
          /\ chanClosed <=> closer \in {"waiting", "sampling", "done"}
          /\ chanClosed => ReadLocked = {}
      BY DEF IInv, Phases, NoSendOnClosed
    <2>3. /\ closed' <=> chanClosed'
          /\ chanClosed' <=> closer' \in {"waiting", "sampling", "done"}
          /\ chanClosed' => ReadLocked = {}
          /\ chanClosed => chanClosed'
      <3>1. closer \in {"waiting", "sampling", "done"} <=> closer = "waiting"
        BY <1>4
      <3>2. closer' \in {"waiting", "sampling", "done"} <=> closer' \in {"waiting", "sampling"}
        BY <1>4
      <3>3. QED
        <4>1. CASE /\ closed' = closed /\ chanClosed' = chanClosed
                   /\ closer' \in {"waiting", "sampling"} <=> closer = "waiting"
          BY <2>2, <3>1, <3>2, <4>1, Zenon
        <4>2. CASE closed' = TRUE /\ chanClosed' = TRUE /\ ReadLocked = {} /\ closer' = "waiting"
          BY <4>2
        <4>3. QED
          BY <1>5, <4>1, <4>2
    <2>4. QED
      BY <1>4, <2>1, <2>2, <2>3 DEF Phases, NoSendOnClosed
  <1>10. TailCounts'
    BY <1>2, <1>3, CloseFrame DEF IInv, TailCounts
  <1>11. Traces'
    <2>1. UNCHANGED <<pc, InQueue, written, rec, drainer, dropped, seen>> /\ unmarked' = unmarked
      BY <1>2, CloseFrame
    <2>2. \A r \in Records : pc'[r] = "accepted" =>
            r \in written' \/ r \in InQueue' \/ (r = rec' /\ drainer' \in Flushing \cup {"write"})
            \/ failures' > 0
      BY <1>3, <2>1 DEF IInv, Traces
    <2>3. /\ damaged' => failures' > 0 \/ closeErr'
          /\ unmarked' => failures' > 0
      BY <1>3, <2>1 DEF IInv, Traces
    <2>4. chanClosed' => atClose' <= dropped'
      <3>1. dropped \in Nat
        BY <1>1 DEF RecordTypes
      <3>2. chanClosed => atClose <= dropped
        BY DEF IInv, Traces
      <3>3. CASE atClose' = dropped
        BY <2>1, <3>1, <3>3
      <3>4. CASE chanClosed' = chanClosed /\ atClose' = atClose
        BY <2>1, <3>2, <3>4
      <3>5. QED
        BY <1>5, <3>3, <3>4
    <2>5. rec' = None /\ drainer' \in Flushing \cup {"last sync", "exited"} => atClose' <= seen'
      <3>1. ASSUME rec = None, drainer \in Flushing \cup {"last sync", "exited"}
            PROVE  atClose' = atClose /\ atClose <= seen
        <4>1. chanClosed /\ closer = "waiting"
          BY <1>4, <3>1 DEF IInv, Phases
        <4>2. QED
          BY <1>5, <3>1, <4>1 DEF IInv, Traces
      <3>2. QED
        BY <2>1, <3>1
    <2>6. ~closeErr'
      BY <1>3, <1>4 DEF IInv, Traces
    <2>7. QED
      BY <1>4, <2>2, <2>3, <2>4, <2>5, <2>6 DEF Traces
  <1>12. QED
    BY <1>2, <1>8, <1>9, <1>10, <1>11, CloseFrame DEF IInv

\* The final fsync, and the error that Close returns.
LEMMA CloseFileKeeps ==
  ASSUME IInv, CloseFile
  PROVE  IInv'
  <1>1. RecordTypes /\ DrainerTypes /\ SyncTypes /\ CloserTypes /\ TruthTypes
    BY TypesTogether DEF IInv
  <1>2. AroundClose /\ unsynced' = 0 /\ failures' = failures /\ closer = "sampling" /\ closer' = "done"
        /\ atClose' = atClose
    BY DEF CloseFile
  <1>3. closed' = closed /\ chanClosed' = chanClosed
    BY DEF CloseFile
  <1>4. \/ /\ closeErr' = (FALSE \/ failures > 0)
           /\ damaged' = damaged /\ faults' = faults
        \/ /\ closeErr' = (TRUE \/ failures > 0)
           /\ damaged' = TRUE /\ faults < MaxFaults /\ faults' = faults + 1
    BY Zenon DEF CloseFile, CloseErrOf
  <1>5. faults' \in 0 .. MaxFaults
    <2>1. faults' = faults \/ (faults < MaxFaults /\ faults' = faults + 1)
      BY <1>4, Zenon
    <2>2. faults \in 0 .. MaxFaults /\ MaxFaults \in Nat
      BY <1>1, QueueAssumption DEF SyncTypes
    <2>3. QED
      BY <2>1, <2>2
  <1>6. SyncTypes' /\ CloserTypes'
    BY <1>1, <1>2, <1>5, CloseFrame DEF SyncTypes, CloserTypes
  <1>7. TruthTypes'
    <2>1. timerArmed' = timerArmed /\ unmarked' = unmarked
      BY <1>2, CloseFrame
    <2>2. closeErr' \in BOOLEAN /\ damaged' \in BOOLEAN
      BY <1>1, <1>4, Zenon DEF TruthTypes
    <2>3. QED
      BY <1>1, <1>3, <2>1, <2>2, Zenon DEF TruthTypes
  <1>8. TypeOK'
    BY <1>2, <1>6, <1>7, CloseFrame, TypesTogetherNext
  <1>9. drainer = "exited" /\ drainer' = "exited"
    BY <1>2, CloseFrame DEF IInv, Phases
  <1>10. Phases'
    <2>1. UNCHANGED <<rec, queue, ReadLocked>>
      BY <1>2, CloseFrame
    <2>2. QED
      BY <1>2, <1>3, <1>9, <2>1 DEF IInv, Phases, NoSendOnClosed
  <1>11. TailCounts'
    BY <1>9 DEF TailCounts, Flushing
  <1>12. Traces'
    <2>1. UNCHANGED <<pc, InQueue, written, rec, dropped, seen>> /\ unmarked' = unmarked
      BY <1>2, CloseFrame
    <2>2. \A r \in Records : pc'[r] = "accepted" =>
            r \in written' \/ r \in InQueue' \/ (r = rec' /\ drainer' \in Flushing \cup {"write"})
            \/ failures' > 0
      BY <1>2, <1>9, <2>1 DEF IInv, Traces
    <2>3. damaged' => failures' > 0 \/ closeErr'
      <3>1. ~closeErr
        BY <1>2 DEF IInv, Traces
      <3>2. QED
        BY <1>2, <1>4, <3>1 DEF IInv, Traces
    <2>4. unmarked' => failures' > 0
      BY <1>2, <2>1 DEF IInv, Traces
    <2>5. failures' > 0 => closeErr'
      BY <1>2, <1>4
    <2>6. chanClosed' => atClose' <= dropped'
      BY <1>2, <1>3, <2>1 DEF IInv, Traces
    <2>7. rec' = None => atClose' <= seen'
      BY <1>2, <1>9, <2>1 DEF IInv, Traces
    <2>8. QED
      BY <1>2, <2>2, <2>3, <2>4, <2>5, <2>6, <2>7 DEF Traces
  <1>13. QED
    BY <1>2, <1>8, <1>10, <1>11, <1>12, CloseFrame DEF IInv

-----------------------------------------------------------------------------
(* The theorems. *)

\* Every step keeps the invariant.
LEMMA NextIInv == IInv /\ [Next]_vars => IInv'
  <1> SUFFICES ASSUME IInv, [Next]_vars PROVE IInv'
    OBVIOUS
  <1>1. ASSUME NEW r \in Records, Producer(r) PROVE IInv'
    BY <1>1, ProducerKeeps
  <1>2. CASE Drainer \/ TimerFires
    BY <1>2, ReceiveKeeps, CreditKeeps, QuietKeeps DEF Drainer, QuietStep
  <1>3. CASE BeginClose \/ Close
    BY <1>3, CloseStepsKeep, CloseFileKeeps DEF Close
  <1>4. CASE UNCHANGED vars
    <2> USE <1>4 DEF vars
    <2>1. TypeOK'
      <3>1. RecordTypes /\ DrainerTypes /\ SyncTypes /\ CloserTypes /\ TruthTypes
        BY TypesTogether DEF IInv
      <3>2. RecordTypes' /\ DrainerTypes' /\ SyncTypes' /\ CloserTypes'
        BY <3>1 DEF RecordTypes, DrainerTypes, SyncTypes, CloserTypes
      <3>3. TruthTypes'
        BY <3>1, Zenon DEF TruthTypes
      <3>4. QED
        BY <3>2, <3>3, TypesTogetherNext
    <2>2. InQueue' = InQueue /\ Held' = Held /\ ReadLocked' = ReadLocked
      BY DEF InQueue, Held, ReadLocked
    <2>3. Phases'
      BY <2>2, Zenon DEF IInv, Phases, NoSendOnClosed
    <2>4. Orderly' /\ ByteCount'
      BY <2>2, SameRecords
    <2>5. Drops'
      BY Zenon DEF IInv, Drops, MarkersCarryTheCount, TallyConserved
    <2>6. TailCounts'
      BY Zenon DEF IInv, TailCounts
    <2>7. Traces'
      BY <2>2, Zenon DEF IInv, Traces
    <2>8. QED
      BY <2>1, <2>3, <2>4, <2>5, <2>6, <2>7 DEF IInv
  <1>5. QED
    BY <1>1, <1>2, <1>3, <1>4 DEF Next, Finished

\* The inductive invariant is one.
LEMMA Invariance == Spec => []IInv
  BY InitIInv, NextIInv, PTL DEF Spec

\* The queue, its counters and the goroutines' positions keep their types; the byte counter
\* never goes below zero.
THEOREM QueueTypeCorrect == Spec => []TypeOK
  BY Invariance, PTL DEF IInv

\* However many goroutines record at once, and whatever their records' sizes, the budget and
\* the channel's capacity: the byte counter is exact and within the budget for what is
\* retained, every drop is reported once and ahead of the next record, nobody sends on the
\* closed channel, and no line waits for its fsync without a timer (enqueue, drain,
\* flushDropMarker, Close).
THEOREM QueueAccountsAlways == Spec => []QueueAccounts
  <1>1. IInv => QueueAccounts
    <2> SUFFICES ASSUME IInv PROVE QueueAccounts
      OBVIOUS
    <2>1. ReservationsExact
      BY DEF IInv, ByteCount, ReservationsExact, InFlight, Reserving
    <2>2. BudgetHolds
      <3>1. InQueue \cup Held \subseteq Sending \cup InQueue \cup Held
            /\ Sending \cup InQueue \cup Held \subseteq InFlight /\ InFlight \subseteq Records
        BY DEF IInv, Orderly, InFlight, Sending, Reserving
      <3>2. IsFiniteSet(Sending \cup InQueue \cup Held) /\ IsFiniteSet(InQueue \cup Held)
        BY <3>1, FS_Subset DEF IInv, ByteCount
      <3>3. SizeOf(InQueue \cup Held) <= SizeOf(Sending \cup InQueue \cup Held)
        BY <3>1, <3>2, SizeOfMonotone
      <3>4. SizeOf(Sending \cup InQueue \cup Held) \in Nat /\ SizeOf(InQueue \cup Held) \in Nat
        BY <3>1, <3>2, SizeOfRemove
      <3>5. QED
        BY <3>3, <3>4, QueueAssumption DEF IInv, ByteCount, BudgetHolds
    <2>3. DropEvidence
      BY DEF IInv, Drops, DropEvidence, DropsMarkedBeforeNextRecord, TypeOK
    <2>4. NoSendOnClosed
      BY DEF IInv, Phases
    <2>5. TailBounded
      <3>1. drainer = "receive" =>
              unsynced = sinceSync /\ sinceSync < SyncEveryN /\ (sinceSync > 0 => timerArmed)
        BY DEF IInv, TailCounts
      <3>2. QED
        BY <3>1 DEF TailBounded
    <2>6. QED
      BY <2>1, <2>2, <2>3, <2>4, <2>5 DEF QueueAccounts, ByteAccounting
  <1>2. QED
    BY <1>1, Invariance, PTL

\* A Close that returns no error has lost nothing: every accepted record is written and
\* synced and every earlier drop is marked, for any number of records and of faults (Close).
THEOREM CleanCloseLosesNothing == Spec => []CleanCloseIsComplete
  <1>1. IInv => CleanCloseIsComplete
    <2> SUFFICES ASSUME IInv, closer = "done", ~closeErr
                 PROVE  /\ {r \in Records : pc[r] = "accepted"} \subseteq written
                        /\ ~damaged /\ unsynced = 0 /\ markedDrops >= atClose
      BY DEF CleanCloseIsComplete
    <2>1. drainer = "exited" /\ rec = None /\ queue = <<>>
      BY DEF IInv, Phases
    <2>2. InQueue = {} /\ ~(failures > 0) /\ unsynced = 0
      BY <2>1 DEF IInv, Traces, InQueue
    <2>3. ~damaged /\ ~unmarked
      BY <2>2 DEF IInv, Traces
    <2>4. {r \in Records : pc[r] = "accepted"} \subseteq written
      BY <2>1, <2>2, QueueAssumption DEF IInv, Traces
    <2>5. atClose <= seen /\ seen <= lastDroppedMarked /\ lastDroppedMarked = markedDrops
      BY <2>1, <2>3 DEF IInv, Traces, Drops, MarkersCarryTheCount
    <2>6. atClose \in Nat /\ seen \in Nat /\ lastDroppedMarked \in Nat
      BY DEF IInv, TypeOK
    <2>7. markedDrops >= atClose
      BY <2>5, <2>6
    <2>8. QED
      BY <2>2, <2>3, <2>4, <2>7
  <1>2. QED
    BY <1>1, Invariance, PTL

-----------------------------------------------------------------------------
(* The log on disk (AuditChain).  The invariant is about every state of the  *)
(* directory that a crash may still leave, not only about the current one.   *)

\* A set of naturals that is finite, said without a cardinality.
BoundedNats(S) == S \subseteq Nat /\ \E b \in Nat : \A x \in S : x <= b

\* A directory is a finite set of names of different files that exist.
IsDirectory(d) ==
  /\ BoundedNats(DOMAIN d)
  /\ \A n \in DOMAIN d : d[n] \in DOMAIN content
  /\ \A a, b \in DOMAIN d : d[a] = d[b] => a = b

\* What the disk holds.
DiskIsTyped ==
  /\ dirs \in Seq(Range(dirs)) /\ dirs # <<>>
  /\ \A d \in Range(dirs) : IsDirectory(d)
  /\ BoundedNats(DOMAIN content) /\ NoFile \notin DOMAIN content
  /\ \A i \in DOMAIN content : content[i] \in [lines : Seq(LineType), torn : BOOLEAN]
  /\ DOMAIN synced = DOMAIN content
  /\ \A i \in DOMAIN content : synced[i] \in 0 .. Len(content[i].lines)

\* Every file is a chain by itself, without gaps.
FilesAreChains ==
  \A i \in DOMAIN content : \A j \in 1 .. Len(content[i].lines) :
    /\ content[i].lines[j].kind # "fused"
    /\ content[i].lines[j].seq = content[i].lines[1].seq + (j - 1)
    /\ j > 1 => content[i].lines[j].prev = content[i].lines[j - 1].mac

\* What may follow the lines of a file.
Follows(ls, l) ==
  /\ Restarts(l) \/ Linked(Last(ls), l)
  /\ SeqMayRecur(ls, l) \/ Last(ls).seq < l.seq

\* In whatever state of the directory a crash leaves, the files follow each other; and only
\* the last one that has lines can lose any.
StateIsChained(d) ==
  /\ \A a, b \in DOMAIN d : Meet(d, a, b) => Follows(LinesIn(d, a), Head(LinesIn(d, b)))
  /\ \A a, b \in DOMAIN d : Before(a, b) /\ LinesIn(d, b) # <<>> => synced[d[a]] = Len(LinesIn(d, a))

\* A kept line is covered by an fsync in each state of the directory, or pruned.
StateKeeps(d) ==
  \A l \in kept : l \in pruned \/ \E n \in DOMAIN d : \E j \in 1 .. synced[d[n]] : LinesIn(d, n)[j] = l

StatesAreSound == \A d \in Range(dirs) : StateIsChained(d) /\ StateKeeps(d)

-----------------------------------------------------------------------------
(* The sink.                                                                 *)

Rotating == {"sync directory", "sync", "create"}

SinkIsTyped ==
  /\ step \in {"down", "resume", "ready", "startup sync", "append", "rename", "sync directory", "sync",
             "create", "swap", "prune"}
  /\ opening \in BOOLEAN /\ inFallback \in BOOLEAN /\ orphan \in BOOLEAN /\ ordinalSeedUncertain \in BOOLEAN
  /\ markers \in Seq(Markers) /\ lost \in Resets \cup {NoMarker}
  /\ seq \in Nat /\ prevHMAC \in Nat /\ filled \in Nat /\ rotateOrdinal \in Nat /\ macs \in Nat

\* Which name the live file has.
NamesAreRight ==
  /\ step # "down" => f \in Range(dir)
  /\ step \notin {"down", "swap"} \cup Rotating /\ ~inFallback => Base \in DOMAIN dir /\ dir[Base] = f
  /\ step \notin {"down", "swap"} /\ (inFallback \/ step \in Rotating) => Base \notin DOMAIN dir
  /\ step = "swap" => /\ Base \in DOMAIN dir /\ dir[Base] = fresh /\ fresh # f
                      /\ content[fresh] = EmptyFile
                      /\ \A d \in Range(dirs) : fresh \in Range(d) => d = dir
  /\ step \in {"down", "resume"} => ~inFallback
  /\ step = "rename" => ~inFallback
  /\ step # "down" /\ ~ordinalSeedUncertain => \A n \in siblings : n <= rotateOrdinal

\* The live file is the last, and the files before it are durable.
LiveIsLast ==
  step # "down" =>
    \A d \in Range(dirs) : \A n \in DOMAIN d : d[n] = f =>
      \A m \in DOMAIN d : /\ Before(n, m) => LinesIn(d, m) = <<>>
                          /\ Before(m, n) => synced[d[m]] = Len(LinesIn(d, m))
RotatedIsDurable == step \in {"create", "swap"} => synced[f] = Len(content[f].lines)

\* When the sink is down the disk is what the crash left; Open has not written yet.
DownIsQuiet ==
  /\ step = "down" => Len(dirs) = 1
  /\ step \in {"down", "resume"} => \A i \in DOMAIN content : synced[i] = Len(content[i].lines)
  /\ step \in {"down", "resume"} => lost = NoMarker
  /\ step = "resume" => opening /\ \A d \in Range(dirs) : f \in Range(d) => d = dir

\* A fragment at the end of the live file is known, and gone before anything is written;
\* Open may end with one, of the last marker.
FragmentIsKnown ==
  /\ step # "down" /\ content[f].torn => orphan
  /\ orphan => step = "ready" \/ (step \in {"startup sync", "prune"} /\ opening /\ markers = <<>>)

MarkersAreDue ==
  /\ opening /\ step \in Rotating \cup {"append", "rename", "swap"} => markers # <<>>
  /\ opening => step # "down"

\* The next line follows what is on disk: it is linked to the end of it, or is the marker
\* that says it is not, or is in place of that marker.
Continues(ls) == seq = Last(ls).seq /\ prevHMAC = Last(ls).mac
Resumes(ls) ==
  \/ Continues(ls)
  \/ /\ Due \in Resets
     /\ \/ Due \in {"resume_residual", "seed_unbounded", "tail_parse_failure"}
        \/ Due = "resume_failed" /\ Restarts(Head(ls))
        \/ Last(ls).seq <= seq
Ends(d, n) == n \in DOMAIN d /\ LinesIn(d, n) # <<>> /\ \A m \in DOMAIN d : Before(n, m) => LinesIn(d, m) = <<>>
HeadIsRight ==
  step \notin {"down", "resume"} =>
    /\ content[f].lines # <<>> => Continues(content[f].lines)
    /\ \A d \in Range(dirs) : f \in Range(d) => \A n \in DOMAIN d : Ends(d, n) => Resumes(LinesIn(d, n))

\* The invariant: the disk, then the sink, then how the two belong together.
ChainIInv ==
  /\ DiskIsTyped /\ FilesAreChains /\ StatesAreSound
  /\ SinkIsTyped /\ NamesAreRight /\ LiveIsLast /\ RotatedIsDurable /\ DownIsQuiet /\ FragmentIsKnown /\ MarkersAreDue
  /\ HeadIsRight

-----------------------------------------------------------------------------
(* Naturals and directories.                                                 *)

\* A non-empty set of naturals has a least element, which is its Min.
LEMMA MinIsLeast ==
  ASSUME NEW S, S \subseteq Nat, S # {}
  PROVE  Min(S) \in S /\ \A x \in S : Min(S) <= x
  <1>1. PICK m \in S : \A x \in S : <<x, m>> \notin OpToRel(<, Nat)
    BY NatLessThanWellFounded, WFMin
  <1>2. ASSUME NEW x \in S PROVE m <= x
    <2>1. SUFFICES ASSUME x < m PROVE FALSE
      OBVIOUS
    <2>2. <<x, m>> \in Nat \X Nat /\ <<x, m>>[1] < <<x, m>>[2]
      BY <2>1
    <2>3. <<x, m>> \in OpToRel(<, Nat)
      BY ONLY <2>2 DEF OpToRel
    <2>4. QED
      BY <1>1, <2>3
  <1>3. QED
    BY <1>2 DEF Min

\* A bounded one has a greatest, its Max: the least of its bounds.
LEMMA MaxIsGreatest ==
  ASSUME NEW S, BoundedNats(S), S # {}
  PROVE  Max(S) \in S /\ \A x \in S : x <= Max(S)
  <1> DEFINE Bounds == {b \in Nat : \A x \in S : x <= b}
  <1>1. Bounds \subseteq Nat /\ Bounds # {}
    BY DEF BoundedNats
  <1>2. PICK m \in Bounds : \A b \in Bounds : m <= b
    <2>1. Min(Bounds) \in Bounds /\ \A b \in Bounds : Min(Bounds) <= b
      BY <1>1, MinIsLeast
    <2>2. QED
      BY <2>1
  <1>3. m \in Nat /\ \A x \in S : x \in Nat /\ x <= m
    BY <1>2 DEF BoundedNats
  <1>4. m \in S
    <2>1. SUFFICES ASSUME m \notin S PROVE FALSE
      OBVIOUS
    <2>2. \A x \in S : x <= m - 1 /\ x < m
      BY <1>3, <2>1
    <2>3. m - 1 \in Nat
      BY <1>3, <2>2
    <2>4. m - 1 \in Bounds
      BY <2>2, <2>3
    <2>5. QED
      BY <1>2, <1>3, <2>4
  <1>5. QED
    BY <1>3, <1>4 DEF Max

\* Boundedness, which stands for finiteness here, is kept by adding and by leaving out.
LEMMA OneMoreIsBounded ==
  ASSUME NEW S, BoundedNats(S), NEW x \in Nat
  PROVE  BoundedNats(S \cup {x})
  <1>1. PICK b \in Nat : \A y \in S : y <= b
    BY DEF BoundedNats
  <1>2. b + x \in Nat /\ \A y \in S \cup {x} : y \in Nat /\ y <= b + x
    BY <1>1 DEF BoundedNats
  <1>3. QED
    BY <1>2 DEF BoundedNats

LEMMA PartIsBounded ==
  ASSUME NEW S, BoundedNats(S), NEW T, T \subseteq S
  PROVE  BoundedNats(T)
  BY DEF BoundedNats

\* The states of the directory after a change, and after one was made durable.
LEMMA StatesOfDirs ==
  ASSUME DiskIsTyped
  PROVE  /\ dir \in Range(dirs)
         /\ \A d : /\ Range(Append(dirs, d)) = Range(dirs) \cup {d}
                   /\ Last(Append(dirs, d)) = d /\ Append(dirs, d) # <<>>
                   /\ Append(dirs, d) \in Seq(Range(Append(dirs, d)))
                   /\ Range(<<d>>) = {d} /\ Last(<<d>>) = d /\ <<d>> # <<>> /\ <<d>> \in Seq({d})
  <1>1. Len(dirs) \in Nat /\ Len(dirs) > 0 /\ DOMAIN dirs = 1 .. Len(dirs)
    BY DEF DiskIsTyped
  <1>2. dir \in Range(dirs)
    BY <1>1 DEF dir, Last, Range
  <1>3. ASSUME NEW d
        PROVE  /\ Range(Append(dirs, d)) = Range(dirs) \cup {d}
               /\ Last(Append(dirs, d)) = d /\ Append(dirs, d) # <<>>
               /\ Append(dirs, d) \in Seq(Range(Append(dirs, d)))
    <2> DEFINE R == Range(dirs)
               T == R \cup {d}
               a == Append(dirs, d)
    <2>1. dirs \in Seq(T)
      BY DEF DiskIsTyped
    <2>2. a \in Seq(T) /\ Len(a) = Len(dirs) + 1 /\ a[Len(dirs) + 1] = d /\ \A k \in 1 .. Len(dirs) : a[k] = dirs[k]
      BY <2>1
    <2>3. DOMAIN a = 1 .. (Len(dirs) + 1)
      BY <2>2
    <2>4. Range(a) = T
      <3>1. \A k \in DOMAIN a : a[k] \in T
        BY <2>2
      <3>2. \A x \in R : \E k \in DOMAIN a : a[k] = x
        BY <1>1, <2>2, <2>3 DEF Range
      <3>3. \E k \in DOMAIN a : a[k] = d
        BY <1>1, <2>2, <2>3
      <3>4. QED
        BY <3>1, <3>2, <3>3 DEF Range
    <2>5. QED
      BY <1>1, <2>2, <2>4 DEF Last
  <1>4. ASSUME NEW d PROVE Range(<<d>>) = {d} /\ Last(<<d>>) = d /\ <<d>> # <<>> /\ <<d>> \in Seq({d})
    BY DEF Range, Last
  <1>5. QED
    BY <1>2, <1>3, <1>4

\* Finitely many bounded sets have a bound together; by the first number it fails below.
LEMMA UnionIsBounded ==
  ASSUME NEW N, BoundedNats(N), NEW g, \A n \in N : BoundedNats(g[n])
  PROVE  BoundedNats(UNION {g[n] : n \in N})
  <1> DEFINE Below(b) == UNION {g[n] : n \in {m \in N : m < b}}
             Bad == {b \in Nat : ~BoundedNats(Below(b))}
  <1>1. Bad = {}
    <2>1. SUFFICES ASSUME Bad # {} PROVE FALSE
      OBVIOUS
    <2>2. PICK b \in Bad : \A c \in Bad : b <= c
      <3>1. Bad \subseteq Nat
        OBVIOUS
      <3>2. QED
        BY <2>1, <3>1, MinIsLeast
    <2>3. b # 0
      <3>1. {m \in N : m < 0} = {}
        <4>1. \A m \in N : ~(m < 0)
          BY DEF BoundedNats
        <4>2. QED
          BY <4>1
      <3>2. Below(0) = {}
        BY <3>1
      <3>3. BoundedNats({})
        BY DEF BoundedNats
      <3>4. QED
        BY <2>2, <3>2, <3>3
    <2>4. PICK c \in Nat : b = c + 1
      <3>1. b \in Nat /\ b - 1 \in Nat /\ b = (b - 1) + 1
        BY <2>2, <2>3
      <3>2. QED
        BY <3>1
    <2>5. BoundedNats(Below(c))
      <3>1. ~(b <= c)
        BY <2>4
      <3>2. QED
        BY <2>2, <2>4, <3>1
    <2>6. BoundedNats(Below(b))
      <3>1. CASE c \notin N
        <4>1. {m \in N : m < b} = {m \in N : m < c}
          <5>1. \A m \in N : m \in Nat /\ m # c
            BY <3>1 DEF BoundedNats
          <5>2. \A m \in N : m < b <=> m < c
            BY <2>4, <5>1
          <5>3. QED
            BY <5>2
        <4>2. QED
          BY <2>5, <4>1
      <3>2. CASE c \in N
        <4>1. {m \in N : m < b} = {m \in N : m < c} \cup {c}
          <5>1. \A m \in N : m < b <=> m < c \/ m = c
            BY <2>4 DEF BoundedNats
          <5>2. QED
            BY <3>2, <5>1
        <4>2. Below(b) = Below(c) \cup g[c]
          BY <4>1
        <4>3. PICK x \in Nat : \A z \in Below(c) : z \in Nat /\ z <= x
          BY <2>5 DEF BoundedNats
        <4>4. PICK y \in Nat : \A z \in g[c] : z \in Nat /\ z <= y
          BY <3>2 DEF BoundedNats
        <4> HIDE DEF Below
        <4>5. x + y \in Nat /\ \A z \in Below(b) : z \in Nat /\ z <= x + y
          <5>1. ASSUME NEW z \in Below(b) PROVE z \in Nat /\ z <= x + y
            <6>1. z \in Below(c) \/ z \in g[c]
              BY <4>2
            <6>2. QED
              BY <4>3, <4>4, <6>1
          <5>2. QED
            BY <5>1
        <4>6. QED
          BY <4>5 DEF BoundedNats
      <3>3. QED
        BY <3>1, <3>2
    <2>7. QED
      BY <2>2, <2>6
  <1>2. PICK b \in Nat : \A n \in N : n \in Nat /\ n <= b
    BY DEF BoundedNats
  <1>3. {m \in N : m < b + 1} = N
    BY <1>2
  <1>4. b + 1 \in Nat /\ UNION {g[n] : n \in N} = Below(b + 1)
    BY <1>3
  <1>5. BoundedNats(Below(b + 1))
    <2> HIDE DEF Below
    <2>1. QED
      BY <1>1, <1>4
  <1>6. QED
    BY <1>4, <1>5

\* The files of a directory are in a total order.
LEMMA BeforeIsTotal ==
  /\ \A a, b \in Nat : (Before(a, b) \/ a = b \/ Before(b, a)) /\ ~(Before(a, b) /\ Before(b, a))
  /\ \A a, b, c \in Nat : Before(a, b) /\ Before(b, c) => Before(a, c)
  BY DEF Before, Base

\* A step that writes no line and makes no name: it may take a fragment away or leave one,
\* sync a file, or make the current directory durable.
Settles ==
  /\ dirs' \in {dirs, <<dir>>}
  /\ DOMAIN content' = DOMAIN content
  /\ \A i \in DOMAIN content : content'[i] \in [lines : {content[i].lines}, torn : BOOLEAN]
  /\ DOMAIN synced' = DOMAIN content
  /\ \A i \in DOMAIN content : synced'[i] \in {synced[i], Len(content[i].lines)}
  /\ pruned' = pruned
  /\ \A l \in kept' :
       \/ l \in kept
       \/ \E i \in DOMAIN content : /\ synced'[i] = Len(content[i].lines) /\ l \in Range(content[i].lines)
                                    /\ \A d \in Range(dirs') : i \in Range(d)

\* What a step that only makes things durable, or repairs a tail, leaves alone.
LEMMA SettlingKeepsNames ==
  ASSUME DiskIsTyped, Settles
  PROVE  /\ dirs' # <<>> /\ dirs' \in Seq(Range(dirs')) /\ dir' = dir /\ dir \in Range(dirs')
         /\ Range(dirs') \subseteq Range(dirs)
         /\ \A i \in DOMAIN content : content'[i].lines = content[i].lines /\ content'[i].torn \in BOOLEAN
         /\ \A d \in Range(dirs) : \A n \in DOMAIN d : LinesIn(d, n)' = LinesIn(d, n)
  <1>1. \A i \in DOMAIN content : content'[i].lines = content[i].lines /\ content'[i].torn \in BOOLEAN
    BY DEF Settles
  <1>2. \A d \in Range(dirs) : \A n \in DOMAIN d : LinesIn(d, n)' = LinesIn(d, n)
    BY <1>1 DEF LinesIn, DiskIsTyped, IsDirectory
  <1>3. CASE dirs' = dirs
    BY <1>1, <1>2, <1>3, StatesOfDirs DEF dir, DiskIsTyped
  <1>4. CASE dirs' = <<dir>>
    <2>1. /\ dir \in Range(dirs) /\ Range(dirs') = {dir} /\ Last(dirs') = dir /\ dirs' # <<>> /\ dirs' \in Seq({dir})
      BY <1>4, StatesOfDirs
    <2>2. dir' = dir
      BY <2>1 DEF dir
    <2>3. QED
      BY <1>1, <1>2, <2>1, <2>2
  <1>5. QED
    BY <1>3, <1>4 DEF Settles

\* Such a step keeps what the invariant says of the disk...
LEMMA SettlingKeepsDisk ==
  ASSUME DiskIsTyped, FilesAreChains, StatesAreSound, Settles
  PROVE  DiskIsTyped' /\ FilesAreChains' /\ StatesAreSound'
  <1>1. /\ dirs' # <<>> /\ dirs' \in Seq(Range(dirs')) /\ dir' = dir /\ dir \in Range(dirs')
        /\ Range(dirs') \subseteq Range(dirs)
        /\ \A i \in DOMAIN content : content'[i].lines = content[i].lines /\ content'[i].torn \in BOOLEAN
        /\ \A d \in Range(dirs) : \A n \in DOMAIN d : LinesIn(d, n)' = LinesIn(d, n)
    BY SettlingKeepsNames
  <1>2. DiskIsTyped'
    <2>1. \A i \in DOMAIN content : Len(content[i].lines) \in Nat /\ synced'[i] \in 0 .. Len(content'[i].lines)
      BY <1>1 DEF Settles, DiskIsTyped
    <2>2. \A i \in DOMAIN content' : content'[i] \in [lines : Seq(LineType), torn : BOOLEAN]
      <3>1. \A i \in DOMAIN content : content[i].lines \in Seq(LineType)
        BY DEF DiskIsTyped
      <3>2. QED
        BY <3>1 DEF Settles
    <2>3. \A d \in Range(dirs') : IsDirectory(d)'
      BY <1>1 DEF Settles, DiskIsTyped, IsDirectory
    <2>4. QED
      BY <1>1, <2>1, <2>2, <2>3 DEF Settles, DiskIsTyped
  <1>3. FilesAreChains'
    BY <1>1 DEF FilesAreChains, Settles
  <1>4. ASSUME NEW d \in Range(dirs') PROVE StateIsChained(d)' /\ StateKeeps(d)'
    <2>1. d \in Range(dirs) /\ \A n \in DOMAIN d : d[n] \in DOMAIN content /\ LinesIn(d, n)' = LinesIn(d, n)
      BY <1>1 DEF DiskIsTyped, IsDirectory
    <2>2. StateIsChained(d) /\ StateKeeps(d)
      BY <2>1 DEF StatesAreSound
    <2>3. \A a, b \in DOMAIN d : Meet(d, a, b)' <=> Meet(d, a, b)
      BY <2>1 DEF Meet
    <2>4. \A a, b \in DOMAIN d : Meet(d, a, b)' => Follows(LinesIn(d, a)', Head(LinesIn(d, b)'))
      BY <2>1, <2>2, <2>3 DEF StateIsChained
    <2>5. \A a \in DOMAIN d : synced[d[a]] = Len(LinesIn(d, a)) => synced'[d[a]] = Len(LinesIn(d, a)')
      BY <2>1 DEF Settles, LinesIn
    <2>6. StateIsChained(d)'
      BY <2>1, <2>2, <2>4, <2>5 DEF StateIsChained
    <2>7. \A n \in DOMAIN d : synced[d[n]] \in Nat /\ synced'[d[n]] \in Nat /\ synced[d[n]] <= synced'[d[n]]
      BY <2>1, <1>2 DEF Settles, DiskIsTyped
    <2>8. ASSUME NEW l \in kept', l \notin pruned'
          PROVE  \E n \in DOMAIN d : \E j \in 1 .. synced'[d[n]] : LinesIn(d, n)'[j] = l
      <3>1. CASE l \in kept
        <4>1. PICK n \in DOMAIN d : \E j \in 1 .. synced[d[n]] : LinesIn(d, n)[j] = l
          BY <2>2, <2>8, <3>1 DEF StateKeeps, Settles
        <4>2. QED
          BY <2>1, <2>7, <4>1
      <3>2. CASE l \notin kept
        <4>1. PICK i \in DOMAIN content : synced'[i] = Len(content[i].lines) /\ l \in Range(content[i].lines) /\ i \in Range(d)
          BY <2>8, <3>2 DEF Settles
        <4>2. PICK n \in DOMAIN d : d[n] = i
          BY <4>1 DEF Range
        <4>3. content[i].lines \in Seq(LineType)
          BY DEF DiskIsTyped
        <4>4. PICK j \in 1 .. Len(content[i].lines) : content[i].lines[j] = l
          BY <4>1, <4>3 DEF Range
        <4>5. QED
          BY <2>1, <4>1, <4>2, <4>4 DEF LinesIn
      <3>3. QED
        BY <3>1, <3>2
    <2>9. StateKeeps(d)'
      BY <2>8 DEF StateKeeps
    <2>10. QED
      BY <2>6, <2>9
  <1>5. QED
    BY <1>2, <1>3, <1>4 DEF StatesAreSound

\* The sink goes on with the same file and the same head of the chain, and a marker that
\* is due stays due.
SameHead ==
  /\ step \notin {"down", "resume"} /\ step' \notin {"down", "resume"}
  /\ f' = f /\ seq' = seq /\ prevHMAC' = prevHMAC
  /\ Due \in Resets => Due' = Due

\* Then the next line follows what it did.
LEMMA SameHeadResumes ==
  ASSUME SameHead
  PROVE  \A ls : (Continues(ls) => Continues(ls)') /\ (Resumes(ls) => Resumes(ls)')
  <1>1. \A ls : Continues(ls) => Continues(ls)'
    BY DEF SameHead, Continues
  <1>2. ASSUME NEW ls, Resumes(ls), ~Continues(ls) PROVE Resumes(ls)'
    <2>1. Due \in Resets /\ Due' = Due /\ seq' = seq
      BY <1>2 DEF Resumes, SameHead
    <2>2. QED
      BY <1>2, <2>1 DEF Resumes
  <1>3. QED
    BY <1>1, <1>2 DEF Resumes

\* The descriptor is on a file that exists.
LEMMA LiveFile ==
  ASSUME DiskIsTyped, NamesAreRight, step # "down"
  PROVE  f \in DOMAIN content /\ content[f].lines \in Seq(LineType) /\ content[f].torn \in BOOLEAN
         /\ Len(content[f].lines) \in Nat /\ synced[f] \in 0 .. Len(content[f].lines)
  <1>1. f \in DOMAIN content
    BY StatesOfDirs DEF NamesAreRight, DiskIsTyped, IsDirectory, Range
  <1>2. QED
    BY <1>1 DEF DiskIsTyped

\* The second half of the above.
LEMMA SettlingKeepsHead ==
  ASSUME DiskIsTyped, SinkIsTyped, NamesAreRight, LiveIsLast, HeadIsRight, Settles, SameHead
  PROVE  LiveIsLast' /\ HeadIsRight'
  <1>1. /\ Range(dirs') \subseteq Range(dirs)
        /\ \A i \in DOMAIN content : content'[i].lines = content[i].lines
        /\ \A d \in Range(dirs) : \A n \in DOMAIN d : LinesIn(d, n)' = LinesIn(d, n)
    BY SettlingKeepsNames
  <1>2. f \in DOMAIN content
    BY LiveFile DEF SameHead
  <1>3. LiveIsLast'
    <2>1. SUFFICES ASSUME NEW d \in Range(dirs'), NEW n \in DOMAIN d, d[n] = f, NEW m \in DOMAIN d
                   PROVE  /\ Before(n, m) => LinesIn(d, m)' = <<>>
                          /\ Before(m, n) => synced'[d[m]] = Len(LinesIn(d, m)')
      BY DEF LiveIsLast, SameHead
    <2>2. d \in Range(dirs) /\ d[m] \in DOMAIN content /\ LinesIn(d, m)' = LinesIn(d, m)
      BY <1>1 DEF DiskIsTyped, IsDirectory
    <2>3. /\ Before(n, m) => LinesIn(d, m) = <<>>
          /\ Before(m, n) => synced[d[m]] = Len(LinesIn(d, m))
      BY <2>1, <2>2 DEF LiveIsLast, SameHead
    <2>4. QED
      BY <2>2, <2>3 DEF Settles, LinesIn
  <1>4. HeadIsRight'
    <2>1. \A ls : (Continues(ls) => Continues(ls)') /\ (Resumes(ls) => Resumes(ls)')
      BY SameHeadResumes
    <2>2. /\ content[f].lines # <<>> => Continues(content[f].lines)
          /\ \A d \in Range(dirs) : f \in Range(d) => \A n \in DOMAIN d : Ends(d, n) => Resumes(LinesIn(d, n))
      BY DEF HeadIsRight, SameHead
    <2>3. (content[f].lines # <<>> => Continues(content[f].lines))'
      <3>1. content'[f'].lines = content[f].lines
        BY <1>1, <1>2 DEF SameHead
      <3>2. PICK ls : ls = content[f].lines
        OBVIOUS
      <3>3. ls # <<>> => Continues(ls)'
        BY <2>1, <2>2, <3>2
      <3>4. QED
        BY <3>1, <3>2, <3>3 DEF Continues
    <2>4. ASSUME NEW d \in Range(dirs'), f' \in Range(d), NEW n \in DOMAIN d, Ends(d, n)'
          PROVE  Resumes(LinesIn(d, n))'
      <3>1. d \in Range(dirs) /\ f \in Range(d)
        BY <1>1, <2>4 DEF SameHead
      <3>2. Ends(d, n)
        BY <1>1, <2>4, <3>1 DEF Ends
      <3>3. Resumes(LinesIn(d, n)) /\ LinesIn(d, n)' = LinesIn(d, n)
        BY <1>1, <2>2, <3>1, <3>2
      <3>4. PICK ls : ls = LinesIn(d, n)
        OBVIOUS
      <3>5. Resumes(ls)'
        BY <2>1, <3>3, <3>4
      <3>6. QED
        BY <3>3, <3>4, <3>5 DEF Resumes, Continues
    <2>5. QED
      BY <2>3, <2>4 DEF HeadIsRight
  <1>5. QED
    BY <1>3, <1>4

\* A step that leaves the disk alone, an fsync of the file and one of the directory are such steps.
LEMMA StillSettles ==
  ASSUME DiskIsTyped, UNCHANGED <<dirs, content, synced, kept, pruned>>
  PROVE  Settles
  <1>1. \A i \in DOMAIN content : content[i] \in [lines : {content[i].lines}, torn : BOOLEAN]
    BY DEF DiskIsTyped
  <1>2. QED
    BY <1>1 DEF Settles, DiskIsTyped

LEMMA SyncingSettles ==
  ASSUME DiskIsTyped, f \in DOMAIN content, SyncFile
  PROVE  /\ Settles /\ synced' = [synced EXCEPT ![f] = Len(content[f].lines)] /\ content' = content
         /\ synced'[f] = Len(content[f].lines)
  <1>1. \A i \in DOMAIN content : content[i] \in [lines : {content[i].lines}, torn : BOOLEAN]
    BY DEF DiskIsTyped
  <1>2. synced' = [synced EXCEPT ![f] = Len(content[f].lines)] /\ content' = content /\ pruned' = pruned
    BY DEF SyncFile
  <1>3. DOMAIN synced' = DOMAIN content /\ synced'[f] = Len(content[f].lines)
        /\ \A i \in DOMAIN content : synced'[i] \in {synced[i], Len(content[i].lines)}
    BY <1>2 DEF DiskIsTyped
  <1>4. dirs' \in {dirs, <<dir>>}
    BY DEF SyncFile
  <1>5. ASSUME NEW l \in kept', l \notin kept
        PROVE  l \in Range(content[f].lines) /\ \A d \in Range(dirs') : f \in Range(d)
    <2>1. kept' = kept \cup Range(content[f].lines) /\ \A k \in DOMAIN dirs' : f \in Range(dirs'[k])
      BY <1>5 DEF SyncFile
    <2>2. \A d \in Range(dirs') : \E k \in DOMAIN dirs' : d = dirs'[k]
      BY DEF Range
    <2>3. QED
      BY <1>5, <2>1, <2>2
  <1>6. QED
    BY <1>1, <1>2, <1>3, <1>4, <1>5 DEF Settles

-----------------------------------------------------------------------------
(* The steps that write no line.                                             *)

\* The parts of the invariant that such a step keeps, together.
LEMMA CalmStep ==
  ASSUME ChainIInv, Settles, SameHead
  PROVE  /\ DiskIsTyped' /\ FilesAreChains' /\ StatesAreSound' /\ LiveIsLast' /\ DownIsQuiet' /\ HeadIsRight'
         /\ dir' = dir /\ siblings' = siblings /\ content'[f].lines = content[f].lines
  <1>1. DiskIsTyped' /\ FilesAreChains' /\ StatesAreSound'
    BY SettlingKeepsDisk DEF ChainIInv
  <1>2. LiveIsLast' /\ HeadIsRight'
    BY SettlingKeepsHead DEF ChainIInv
  <1>3. DownIsQuiet'
    BY DEF DownIsQuiet, SameHead
  <1>4. dir' = dir
    BY SettlingKeepsNames DEF ChainIInv
  <1>5. siblings' = siblings
    BY <1>4 DEF siblings
  <1>6. content'[f].lines = content[f].lines
    BY SettlingKeepsNames, LiveFile DEF ChainIInv, SameHead
  <1>7. QED
    BY <1>1, <1>2, <1>3, <1>4, <1>5, <1>6

\* The steps of Open, of writeRecord and of a rotation that only settle.
LEMMA FinishOpenKeeps ==
  ASSUME ChainIInv, FinishOpen
  PROVE  ChainIInv'
  <1>1. Settles /\ SameHead
    BY StillSettles DEF ChainIInv, FinishOpen, diskVars, historyVars, chainVars, sinkVars, SameHead, Due
  <1>2. /\ DiskIsTyped' /\ FilesAreChains' /\ StatesAreSound' /\ LiveIsLast' /\ DownIsQuiet' /\ HeadIsRight'
        /\ dir' = dir /\ siblings' = siblings
    BY <1>1, CalmStep
  <1>3. /\ step = "ready" /\ step' \in {"startup sync", "prune"}
        /\ UNCHANGED <<content, seq, prevHMAC, macs, opening, markers, lost, f, inFallback, filled, orphan, rotateOrdinal,
                       ordinalSeedUncertain>> /\ opening /\ markers = <<>>
    BY DEF FinishOpen, diskVars, chainVars, sinkVars
  <1>4. SinkIsTyped' /\ NamesAreRight'
    BY <1>2, <1>3 DEF ChainIInv, SinkIsTyped, NamesAreRight, Rotating
  <1>5. RotatedIsDurable' /\ MarkersAreDue'
    BY <1>3 DEF RotatedIsDurable, MarkersAreDue, Rotating
  <1>6. FragmentIsKnown'
    BY <1>3 DEF ChainIInv, FragmentIsKnown
  <1>7. QED
    BY <1>2, <1>4, <1>5, <1>6 DEF ChainIInv

LEMMA StartupSyncKeeps ==
  ASSUME ChainIInv, StartupSync
  PROVE  ChainIInv'
  <1>1. /\ step = "startup sync" /\ step' = "prune" /\ content' = content
        /\ UNCHANGED <<seq, prevHMAC, macs, opening, markers, lost, f, inFallback, filled, orphan, rotateOrdinal,
                       ordinalSeedUncertain>>
    BY DEF StartupSync, SyncFile, diskVars, chainVars, sinkVars
  <1>2. Settles
    <2>1. f \in DOMAIN content
      BY <1>1, LiveFile DEF ChainIInv
    <2>2. QED
      BY <2>1, StillSettles, SyncingSettles DEF ChainIInv, StartupSync, diskVars, historyVars
  <1>3. /\ DiskIsTyped' /\ FilesAreChains' /\ StatesAreSound' /\ LiveIsLast' /\ DownIsQuiet' /\ HeadIsRight'
        /\ dir' = dir /\ siblings' = siblings
    <2>1. SameHead
      BY <1>1 DEF SameHead, Due
    <2>2. QED
      BY <1>2, <2>1, CalmStep
  <1>4. SinkIsTyped' /\ NamesAreRight'
    BY <1>1, <1>3 DEF ChainIInv, SinkIsTyped, NamesAreRight, Rotating
  <1>5. RotatedIsDurable' /\ MarkersAreDue'
    BY <1>1 DEF ChainIInv, RotatedIsDurable, MarkersAreDue, Rotating
  <1>6. FragmentIsKnown'
    BY <1>1 DEF ChainIInv, FragmentIsKnown
  <1>7. QED
    BY <1>3, <1>4, <1>5, <1>6 DEF ChainIInv

\* Only the live file may get or lose a fragment.
LEMMA TearingSettles ==
  ASSUME DiskIsTyped, f \in DOMAIN content, UNCHANGED <<dirs, synced, kept, pruned>>, NEW t \in BOOLEAN,
         content' = [content EXCEPT ![f].torn = t]
  PROVE  Settles /\ content'[f].torn = t
  <1>1. \A i \in DOMAIN content : content[i] \in [lines : Seq(LineType), torn : BOOLEAN]
    BY DEF DiskIsTyped
  <1>2. \A i \in DOMAIN content : content'[i] \in [lines : {content[i].lines}, torn : BOOLEAN]
    BY <1>1
  <1>3. QED
    BY <1>1, <1>2 DEF Settles, DiskIsTyped

LEMMA repairTailOrphanKeeps ==
  ASSUME ChainIInv, repairTailOrphan
  PROVE  ChainIInv'
  <1>1. /\ step = "ready" /\ step' = "ready" /\ orphan' = FALSE
        /\ content' = [content EXCEPT ![f].torn = FALSE]
        /\ UNCHANGED <<dirs, synced, kept, pruned, seq, prevHMAC, macs, opening, markers, lost, f, inFallback, filled, rotateOrdinal,
                       ordinalSeedUncertain>>
    BY DEF repairTailOrphan, chainVars, historyVars
  <1>2. Settles /\ content'[f].torn = FALSE
    <2>1. f \in DOMAIN content
      BY <1>1, LiveFile DEF ChainIInv
    <2>2. QED
      BY <1>1, <2>1, TearingSettles DEF ChainIInv
  <1>3. /\ DiskIsTyped' /\ FilesAreChains' /\ StatesAreSound' /\ LiveIsLast' /\ DownIsQuiet' /\ HeadIsRight'
        /\ dir' = dir /\ siblings' = siblings
    <2>1. SameHead
      BY <1>1 DEF SameHead, Due
    <2>2. QED
      BY <1>2, <2>1, CalmStep
  <1>4. SinkIsTyped' /\ NamesAreRight'
    BY <1>1, <1>3 DEF ChainIInv, SinkIsTyped, NamesAreRight, Rotating
  <1>5. RotatedIsDurable' /\ MarkersAreDue'
    BY <1>1 DEF ChainIInv, RotatedIsDurable, MarkersAreDue, Rotating
  <1>6. FragmentIsKnown'
    BY <1>1, <1>2 DEF ChainIInv, FragmentIsKnown
  <1>7. QED
    BY <1>3, <1>4, <1>5, <1>6 DEF ChainIInv

\* A marker that is refused is due still, and so says what the next line stands for.
LEMMA RefusedIsDue ==
  ASSUME SinkIsTyped, Refused, opening => markers # <<>>
  PROVE  markers' \in Seq(Markers) /\ lost' \in Resets \cup {NoMarker} /\ (Due \in Resets => Due' = Due)
  <1>1. markers' \in Seq(Markers)
    <2>1. markers \in Seq(Markers)
      BY DEF SinkIsTyped
    <2>2. opening => Tail(markers) \in Seq(Markers)
      BY <2>1
    <2>3. QED
      BY <2>1, <2>2 DEF Refused, Consume
  <1>2. lost' = IF Due \in Resets THEN Due ELSE lost
    BY DEF Refused
  <1>3. lost' \in Resets \cup {NoMarker}
    BY <1>2 DEF SinkIsTyped
  <1>4. ASSUME Due \in Resets PROVE Due' = Due
    <2>1. lost' = Due /\ lost' # NoMarker
      BY <1>2, <1>4 DEF Resets, NoMarker
    <2>2. PICK x : x = Due
      OBVIOUS
    <2>3. lost' = x /\ x # NoMarker
      BY <2>1, <2>2
    <2>4. Due' = x
      BY <2>3 DEF Due
    <2>5. QED
      BY <2>2, <2>4
  <1>5. QED
    BY <1>1, <1>3, <1>4

LEMMA RepairFailsKeeps ==
  ASSUME ChainIInv, RepairFails
  PROVE  ChainIInv'
  <1>1. /\ step = "ready" /\ step' = "ready" /\ orphan /\ Refused /\ (opening => markers # <<>>)
        /\ UNCHANGED <<dirs, content, synced, kept, pruned, seq, prevHMAC, macs, opening, f, inFallback, filled, orphan,
                       rotateOrdinal, ordinalSeedUncertain>>
    BY DEF RepairFails, Wanted, diskVars, chainVars, historyVars
  <1>2. markers' \in Seq(Markers) /\ lost' \in Resets \cup {NoMarker} /\ (Due \in Resets => Due' = Due)
    BY <1>1, RefusedIsDue DEF ChainIInv
  <1>3. Settles /\ SameHead
    BY <1>1, <1>2, StillSettles DEF ChainIInv, SameHead
  <1>4. /\ DiskIsTyped' /\ FilesAreChains' /\ StatesAreSound' /\ LiveIsLast' /\ DownIsQuiet' /\ HeadIsRight'
        /\ dir' = dir /\ siblings' = siblings
    BY <1>3, CalmStep
  <1>5. SinkIsTyped' /\ NamesAreRight'
    BY <1>1, <1>4, <1>2 DEF ChainIInv, SinkIsTyped, NamesAreRight, Rotating
  <1>6. RotatedIsDurable' /\ MarkersAreDue'
    BY <1>1 DEF ChainIInv, RotatedIsDurable, MarkersAreDue, Rotating
  <1>7. FragmentIsKnown'
    BY <1>1 DEF ChainIInv, FragmentIsKnown
  <1>8. QED
    BY <1>4, <1>5, <1>6, <1>7 DEF ChainIInv

LEMMA beginWriteKeeps ==
  ASSUME ChainIInv, beginWrite
  PROVE  ChainIInv'
  <1>1. /\ step = "ready" /\ ~orphan /\ (opening => markers # <<>>)
        /\ step' \in {"append", "sync", "rename"} /\ (step' = "rename" => ~inFallback) /\ (step' = "sync" => inFallback)
        /\ UNCHANGED <<dirs, content, synced, kept, pruned, seq, prevHMAC, macs, opening, markers, lost, f, inFallback, filled, orphan,
                       rotateOrdinal, ordinalSeedUncertain>>
    BY DEF beginWrite, Wanted, CleanTail, diskVars, chainVars, sinkVars, historyVars
  <1>2. Settles /\ SameHead
    BY <1>1, StillSettles DEF ChainIInv, SameHead, Due
  <1>3. /\ DiskIsTyped' /\ FilesAreChains' /\ StatesAreSound' /\ LiveIsLast' /\ DownIsQuiet' /\ HeadIsRight'
        /\ dir' = dir /\ siblings' = siblings
    BY <1>2, CalmStep
  <1>4. SinkIsTyped' /\ NamesAreRight'
    BY <1>1, <1>3 DEF ChainIInv, SinkIsTyped, NamesAreRight, Rotating
  <1>5. RotatedIsDurable' /\ MarkersAreDue'
    BY <1>1 DEF ChainIInv, RotatedIsDurable, MarkersAreDue, Rotating
  <1>6. FragmentIsKnown'
    BY <1>1 DEF ChainIInv, FragmentIsKnown
  <1>7. QED
    BY <1>3, <1>4, <1>5, <1>6 DEF ChainIInv

LEMMA AppendFailsKeeps ==
  ASSUME ChainIInv, AppendFails
  PROVE  ChainIInv'
  <1>1. /\ step = "append" /\ step' = "ready" /\ Refused /\ (opening => markers # <<>>)
        /\ UNCHANGED <<dirs, synced, kept, pruned, seq, prevHMAC, macs, opening, f, inFallback, filled,
                       rotateOrdinal, ordinalSeedUncertain>>
    BY DEF AppendFails, chainVars, historyVars, ChainIInv, MarkersAreDue
  <1>2. f \in DOMAIN content
    BY <1>1, LiveFile DEF ChainIInv
  <1>3. Settles /\ orphan' \in BOOLEAN /\ (content'[f].torn => orphan')
    <2>1. CASE UNCHANGED <<content, orphan>>
      BY <1>1, <2>1, StillSettles DEF ChainIInv, FragmentIsKnown, SinkIsTyped
    <2>2. CASE content' = [content EXCEPT ![f].torn = TRUE] /\ orphan' = TRUE
      BY <1>1, <1>2, <2>2, TearingSettles DEF ChainIInv
    <2>3. QED
      BY <2>1, <2>2 DEF AppendFails
  <1>4. markers' \in Seq(Markers) /\ lost' \in Resets \cup {NoMarker} /\ (Due \in Resets => Due' = Due)
    BY <1>1, RefusedIsDue DEF ChainIInv
  <1>5. /\ DiskIsTyped' /\ FilesAreChains' /\ StatesAreSound' /\ LiveIsLast' /\ DownIsQuiet' /\ HeadIsRight'
        /\ dir' = dir /\ siblings' = siblings
    <2>1. SameHead
      BY <1>1, <1>4 DEF SameHead
    <2>2. QED
      BY <1>3, <2>1, CalmStep
  <1>6. SinkIsTyped' /\ NamesAreRight'
    BY <1>1, <1>3, <1>5, <1>4 DEF ChainIInv, SinkIsTyped, NamesAreRight, Rotating
  <1>7. RotatedIsDurable' /\ MarkersAreDue'
    BY <1>1 DEF ChainIInv, RotatedIsDurable, MarkersAreDue, Rotating
  <1>8. FragmentIsKnown'
    BY <1>1, <1>3 DEF ChainIInv, FragmentIsKnown
  <1>9. QED
    BY <1>5, <1>6, <1>7, <1>8 DEF ChainIInv

LEMMA SyncTailKeeps ==
  ASSUME ChainIInv, SyncTail
  PROVE  ChainIInv'
  <1>1. /\ step = "ready" /\ step' = "ready" /\ content' = content
        /\ UNCHANGED <<seq, prevHMAC, macs, opening, markers, lost, f, inFallback, filled, orphan, rotateOrdinal,
                       ordinalSeedUncertain>>
    BY DEF SyncTail, SyncFile, chainVars, sinkVars
  <1>2. Settles
    <2>1. f \in DOMAIN content
      BY <1>1, LiveFile DEF ChainIInv
    <2>2. QED
      BY <2>1, SyncingSettles DEF ChainIInv, SyncTail
  <1>3. /\ DiskIsTyped' /\ FilesAreChains' /\ StatesAreSound' /\ LiveIsLast' /\ DownIsQuiet' /\ HeadIsRight'
        /\ dir' = dir /\ siblings' = siblings
    <2>1. SameHead
      BY <1>1 DEF SameHead, Due
    <2>2. QED
      BY <1>2, <2>1, CalmStep
  <1>4. SinkIsTyped' /\ NamesAreRight'
    BY <1>1, <1>3 DEF ChainIInv, SinkIsTyped, NamesAreRight, Rotating
  <1>5. RotatedIsDurable' /\ MarkersAreDue'
    BY <1>1 DEF ChainIInv, RotatedIsDurable, MarkersAreDue, Rotating
  <1>6. FragmentIsKnown'
    BY <1>1 DEF ChainIInv, FragmentIsKnown
  <1>7. QED
    BY <1>3, <1>4, <1>5, <1>6 DEF ChainIInv

\* The name a rotation takes is free, and after every other.
LEMMA NextOrdinalIsNew ==
  ASSUME DiskIsTyped, SinkIsTyped, NamesAreRight, step # "down"
  PROVE  NextOrdinal \in Nat /\ NextOrdinal # Base /\ \A n \in siblings : n \in Nat /\ n < NextOrdinal
  <1>1. BoundedNats(siblings)
    <2>1. BoundedNats(DOMAIN dir)
      BY StatesOfDirs DEF DiskIsTyped, IsDirectory
    <2>2. QED
      BY <2>1, PartIsBounded DEF siblings
  <1>2. rotateOrdinal \in Nat
    BY DEF SinkIsTyped
  <1>3. PICK m \in Nat : NextOrdinal = m + 1 /\ \A n \in siblings : n \in Nat /\ n <= m
    <2>1. CASE ordinalSeedUncertain
      <3> DEFINE S == siblings \cup {rotateOrdinal}
      <3>1. BoundedNats(S)
        BY <1>1, <1>2, OneMoreIsBounded
      <3>2. Max(S) \in S /\ \A x \in S : x <= Max(S)
        BY <3>1, MaxIsGreatest
      <3>3. Max(S) \in Nat /\ \A x \in siblings : x \in Nat /\ x <= Max(S)
        BY <3>1, <3>2 DEF BoundedNats
      <3>4. QED
        BY <2>1, <3>3 DEF NextOrdinal
    <2>2. CASE ~ordinalSeedUncertain
      BY <1>1, <1>2, <2>2 DEF NextOrdinal, NamesAreRight, BoundedNats
    <2>3. QED
      BY <2>1, <2>2
  <1>4. QED
    BY <1>3 DEF Base

LEMMA BackoffIsTyped == rotateBackoffWritten \in Nat
  BY ChainAssumption DEF rotateBackoffWritten

LEMMA RenameFailsKeeps ==
  ASSUME ChainIInv, RenameFails
  PROVE  ChainIInv'
  <1>1. /\ step = "rename" /\ step' = "append" /\ filled' = rotateBackoffWritten
        /\ UNCHANGED <<dirs, content, synced, kept, pruned, seq, prevHMAC, macs, opening, markers, lost, f, inFallback, orphan>>
    BY DEF RenameFails, GiveUpRotation, diskVars, chainVars, historyVars
  <1>2. Settles /\ SameHead
    BY <1>1, StillSettles DEF ChainIInv, SameHead, Due
  <1>3. /\ DiskIsTyped' /\ FilesAreChains' /\ StatesAreSound' /\ LiveIsLast' /\ DownIsQuiet' /\ HeadIsRight'
        /\ dir' = dir /\ siblings' = siblings
    BY <1>2, CalmStep
  <1>4. /\ rotateOrdinal' \in Nat /\ ordinalSeedUncertain' \in BOOLEAN
        /\ ~ordinalSeedUncertain' => \A n \in siblings : n <= rotateOrdinal'
    <2>1. CASE ordinalSeedUncertain /\ UNCHANGED <<rotateOrdinal, ordinalSeedUncertain>>
      BY <2>1 DEF ChainIInv, SinkIsTyped
    <2>2. CASE rotateOrdinal' = NextOrdinal /\ ordinalSeedUncertain' = FALSE
      <3>1. NextOrdinal \in Nat /\ \A n \in siblings : n \in Nat /\ n < NextOrdinal
        BY <1>1, NextOrdinalIsNew DEF ChainIInv
      <3>2. PICK r : r = NextOrdinal
        OBVIOUS
      <3>3. r \in Nat /\ \A n \in siblings : n <= r
        BY <3>1, <3>2
      <3>4. rotateOrdinal' = r /\ ordinalSeedUncertain' = FALSE
        BY <2>2, <3>2
      <3>5. QED
        BY <3>3, <3>4
    <2>3. QED
      BY <2>1, <2>2 DEF RenameFails
  <1>5. SinkIsTyped' /\ NamesAreRight'
    BY <1>1, <1>3, <1>4, BackoffIsTyped DEF ChainIInv, SinkIsTyped, NamesAreRight, Rotating
  <1>6. RotatedIsDurable' /\ MarkersAreDue'
    BY <1>1 DEF ChainIInv, RotatedIsDurable, MarkersAreDue, Rotating
  <1>7. FragmentIsKnown'
    BY <1>1 DEF ChainIInv, FragmentIsKnown
  <1>8. QED
    BY <1>3, <1>5, <1>6, <1>7 DEF ChainIInv

LEMMA DirSyncSettles ==
  ASSUME DiskIsTyped, syncLogDir, UNCHANGED <<content, synced, kept, pruned>>
  PROVE  Settles
  <1>1. \A i \in DOMAIN content : content[i] \in [lines : {content[i].lines}, torn : BOOLEAN]
    BY DEF DiskIsTyped
  <1>2. QED
    BY <1>1 DEF Settles, DiskIsTyped, syncLogDir

LEMMA SyncRenameKeeps ==
  ASSUME ChainIInv, SyncRename
  PROVE  ChainIInv'
  <1>1. /\ step = "sync directory" /\ step' = "sync"
        /\ UNCHANGED <<content, synced, kept, pruned, seq, prevHMAC, macs, opening, markers, lost, f, inFallback, filled, orphan,
                       rotateOrdinal, ordinalSeedUncertain>>
    BY DEF SyncRename, chainVars, sinkVars, historyVars
  <1>2. Settles /\ SameHead
    BY <1>1, DirSyncSettles DEF ChainIInv, SameHead, Due, SyncRename
  <1>3. /\ DiskIsTyped' /\ FilesAreChains' /\ StatesAreSound' /\ LiveIsLast' /\ DownIsQuiet' /\ HeadIsRight'
        /\ dir' = dir /\ siblings' = siblings
    BY <1>2, CalmStep
  <1>4. SinkIsTyped' /\ NamesAreRight'
    BY <1>1, <1>3 DEF ChainIInv, SinkIsTyped, NamesAreRight, Rotating
  <1>5. RotatedIsDurable' /\ MarkersAreDue'
    BY <1>1 DEF ChainIInv, RotatedIsDurable, MarkersAreDue, Rotating
  <1>6. FragmentIsKnown'
    BY <1>1 DEF ChainIInv, FragmentIsKnown
  <1>7. QED
    BY <1>3, <1>4, <1>5, <1>6 DEF ChainIInv

LEMMA SyncRotatedKeeps ==
  ASSUME ChainIInv, SyncRotated
  PROVE  ChainIInv'
  <1>1. /\ step = "sync" /\ step' = "create" /\ content' = content
        /\ UNCHANGED <<seq, prevHMAC, macs, opening, markers, lost, f, inFallback, filled, orphan, rotateOrdinal,
                       ordinalSeedUncertain>>
    BY DEF SyncRotated, SyncFile, chainVars, sinkVars
  <1>2. Settles /\ synced'[f] = Len(content[f].lines)
    <2>1. f \in DOMAIN content
      BY <1>1, LiveFile DEF ChainIInv
    <2>2. QED
      BY <2>1, SyncingSettles DEF ChainIInv, SyncRotated
  <1>3. /\ DiskIsTyped' /\ FilesAreChains' /\ StatesAreSound' /\ LiveIsLast' /\ DownIsQuiet' /\ HeadIsRight'
        /\ dir' = dir /\ siblings' = siblings
    <2>1. SameHead
      BY <1>1 DEF SameHead, Due
    <2>2. QED
      BY <1>2, <2>1, CalmStep
  <1>4. SinkIsTyped' /\ NamesAreRight'
    BY <1>1, <1>3 DEF ChainIInv, SinkIsTyped, NamesAreRight, Rotating
  <1>5. RotatedIsDurable' /\ MarkersAreDue'
    BY <1>1, <1>2 DEF ChainIInv, RotatedIsDurable, MarkersAreDue, Rotating
  <1>6. FragmentIsKnown'
    BY <1>1 DEF ChainIInv, FragmentIsKnown
  <1>7. QED
    BY <1>3, <1>4, <1>5, <1>6 DEF ChainIInv

\* The rotation stops without a new base: the old file, under its new name, stays live.
LEMMA FallbackKeeps ==
  ASSUME ChainIInv, SyncRotatedFails \/ OpenNewBaseFails
  PROVE  ChainIInv'
  <1>1. /\ step \in {"sync", "create"} /\ step' \in {"append", "prune"} /\ inFallback' = TRUE
        /\ filled' = rotateBackoffWritten
        /\ UNCHANGED <<dirs, content, synced, kept, pruned, seq, prevHMAC, macs, opening, markers, lost, f, orphan,
                       rotateOrdinal, ordinalSeedUncertain>>
    BY DEF SyncRotatedFails, OpenNewBaseFails, diskVars, chainVars, historyVars
  <1>2. Settles /\ SameHead
    BY <1>1, StillSettles DEF ChainIInv, SameHead, Due
  <1>3. /\ DiskIsTyped' /\ FilesAreChains' /\ StatesAreSound' /\ LiveIsLast' /\ DownIsQuiet' /\ HeadIsRight'
        /\ dir' = dir /\ siblings' = siblings
    BY <1>2, CalmStep
  <1>4. SinkIsTyped' /\ NamesAreRight'
    BY <1>1, <1>3, BackoffIsTyped DEF ChainIInv, SinkIsTyped, NamesAreRight, Rotating
  <1>5. RotatedIsDurable' /\ MarkersAreDue'
    BY <1>1 DEF ChainIInv, RotatedIsDurable, MarkersAreDue, Rotating
  <1>6. FragmentIsKnown'
    BY <1>1 DEF ChainIInv, FragmentIsKnown
  <1>7. QED
    BY <1>3, <1>4, <1>5, <1>6 DEF ChainIInv

LEMMA EndPruneKeeps ==
  ASSUME ChainIInv, RemoveFails \/ PruneDone
  PROVE  ChainIInv'
  <1>1. /\ step = "prune" /\ step' = AfterPrune /\ opening' = (opening /\ markers # <<>>)
        /\ UNCHANGED <<dirs, content, synced, kept, pruned, seq, prevHMAC, macs, markers, lost, f, inFallback, filled, orphan,
                       rotateOrdinal, ordinalSeedUncertain>>
    BY DEF RemoveFails, PruneDone, EndPrune, diskVars, chainVars, historyVars
  <1>2. step' \in {"ready", "append"}
    BY <1>1 DEF AfterPrune
  <1>3. /\ DiskIsTyped' /\ FilesAreChains' /\ StatesAreSound' /\ LiveIsLast' /\ DownIsQuiet' /\ HeadIsRight'
        /\ dir' = dir /\ siblings' = siblings
    <2>1. Settles
      BY <1>1, StillSettles DEF ChainIInv
    <2>2. SameHead
      BY <1>1, <1>2 DEF SameHead, Due
    <2>3. QED
      BY <2>1, <2>2, CalmStep
  <1>4. SinkIsTyped' /\ NamesAreRight'
    <2>1. opening' \in BOOLEAN
      BY <1>1
    <2>2. QED
      BY <1>1, <1>2, <1>3, <2>1 DEF ChainIInv, SinkIsTyped, NamesAreRight, Rotating
  <1>5. RotatedIsDurable'
    BY <1>2 DEF RotatedIsDurable
  <1>6. MarkersAreDue'
    <2>1. opening' => markers' # <<>>
      BY <1>1
    <2>2. QED
      BY <1>2, <2>1 DEF MarkersAreDue
  <1>7. FragmentIsKnown'
    BY <1>1 DEF ChainIInv, FragmentIsKnown, AfterPrune
  <1>8. QED
    BY <1>3, <1>4, <1>5, <1>6, <1>7 DEF ChainIInv

\* A rotation that succeeds goes on in the fresh base.
LEMMA swapToFreshBaseKeeps ==
  ASSUME ChainIInv, swapToFreshBase
  PROVE  ChainIInv'
  <1>1. /\ step = "swap" /\ step' = "prune" /\ f' = fresh /\ inFallback' = FALSE /\ filled' = 0
        /\ UNCHANGED <<content, synced, kept, pruned, seq, prevHMAC, macs, opening, markers, lost, orphan,
                       rotateOrdinal, ordinalSeedUncertain>>
    BY DEF swapToFreshBase, chainVars, historyVars
  <1>2. Settles
    BY <1>1, DirSyncSettles DEF ChainIInv, swapToFreshBase
  <1>3. DiskIsTyped' /\ FilesAreChains' /\ StatesAreSound'
    BY <1>2, SettlingKeepsDisk DEF ChainIInv
  <1>4. dir' = dir /\ siblings' = siblings /\ Range(dirs') \subseteq Range(dirs) /\ dir \in Range(dirs)
    BY <1>2, SettlingKeepsNames, StatesOfDirs DEF ChainIInv, siblings
  <1>5. /\ Base \in DOMAIN dir /\ dir[Base] = fresh /\ fresh # f /\ content[fresh] = EmptyFile
        /\ f \in Range(dir) /\ \A d \in Range(dirs) : fresh \in Range(d) => d = dir
    BY <1>1 DEF ChainIInv, NamesAreRight
  <1>6. IsDirectory(dir)
    BY <1>4 DEF ChainIInv, DiskIsTyped
  <1>7. LiveIsLast'
    <2>1. SUFFICES ASSUME NEW d \in Range(dirs'), NEW n \in DOMAIN d, d[n] = fresh, NEW m \in DOMAIN d
                   PROVE  /\ Before(n, m) => LinesIn(d, m) = <<>>
                          /\ Before(m, n) => synced[d[m]] = Len(LinesIn(d, m))
      BY <1>1 DEF LiveIsLast, LinesIn
    <2>2. d = dir /\ n = Base
      BY <1>4, <1>5, <1>6, <2>1 DEF Range, IsDirectory
    <2>3. PICK k \in DOMAIN dir : dir[k] = f
      BY <1>5 DEF Range
    <2>4. /\ Before(k, m) => LinesIn(dir, m) = <<>>
          /\ Before(m, k) => synced[dir[m]] = Len(LinesIn(dir, m))
      BY <1>1, <1>4, <2>2, <2>3 DEF ChainIInv, LiveIsLast
    <2>5. synced[dir[k]] = Len(LinesIn(dir, k))
      BY <1>1, <2>3 DEF ChainIInv, RotatedIsDurable, LinesIn
    <2>6. m \in Nat /\ k \in Nat /\ dir[m] \in DOMAIN content
      BY <1>6, <2>2 DEF IsDirectory, BoundedNats
    <2>7. LinesIn(dir, m) = <<>> => synced[dir[m]] = Len(LinesIn(dir, m))
      BY <2>6 DEF ChainIInv, DiskIsTyped, LinesIn
    <2>8. synced[dir[m]] = Len(LinesIn(dir, m))
      BY <2>4, <2>5, <2>6, <2>7, BeforeIsTotal
    <2>9. ~Before(Base, m)
      BY DEF Before
    <2>10. QED
      BY <2>2, <2>8, <2>9
  <1>8. HeadIsRight'
    <2>1. content'[f'].lines = <<>>
      BY <1>1, <1>5 DEF EmptyFile
    <2>2. ASSUME NEW d \in Range(dirs'), f' \in Range(d), NEW n \in DOMAIN d, Ends(d, n)'
          PROVE  Resumes(LinesIn(d, n))'
      <3>1. d = dir
        BY <1>1, <1>4, <1>5, <2>2
      <3>2. Ends(d, n)
        BY <1>1, <2>2 DEF Ends, LinesIn
      <3>3. Resumes(LinesIn(d, n))
        BY <1>1, <1>4, <1>5, <3>1, <3>2 DEF ChainIInv, HeadIsRight
      <3>4. QED
        BY <1>1, <3>3 DEF Resumes, Continues, Due, LinesIn
    <2>3. QED
      BY <2>1, <2>2 DEF HeadIsRight
  <1>9. SinkIsTyped' /\ NamesAreRight'
    <2>1. f' \in Range(dir)
      BY <1>1, <1>5 DEF Range
    <2>2. QED
      BY <1>1, <1>4, <1>5, <2>1 DEF ChainIInv, SinkIsTyped, NamesAreRight, Rotating
  <1>10. RotatedIsDurable' /\ MarkersAreDue' /\ DownIsQuiet'
    BY <1>1 DEF ChainIInv, RotatedIsDurable, MarkersAreDue, Rotating, DownIsQuiet
  <1>11. FragmentIsKnown'
    BY <1>1, <1>5 DEF ChainIInv, FragmentIsKnown, EmptyFile
  <1>12. QED
    BY <1>3, <1>7, <1>8, <1>9, <1>10, <1>11 DEF ChainIInv

\* maxRotatedOrdinal covers every sibling, unless the directory could not be listed.
LEMMA SeededOrdinal ==
  ASSUME DiskIsTyped, SeedOrdinal
  PROVE  /\ rotateOrdinal' \in Nat /\ ordinalSeedUncertain' \in BOOLEAN
         /\ ~ordinalSeedUncertain' => \A n \in siblings : n <= rotateOrdinal'
  <1> DEFINE S == siblings \cup {0}
  <1>1. BoundedNats(S)
    <2>1. BoundedNats(DOMAIN dir)
      BY StatesOfDirs DEF DiskIsTyped, IsDirectory
    <2>2. BoundedNats(siblings)
      BY <2>1, PartIsBounded DEF siblings
    <2>3. QED
      BY <2>2, OneMoreIsBounded
  <1>2. Max(S) \in S /\ \A x \in S : x <= Max(S)
    BY <1>1, MaxIsGreatest
  <1>3. Max(S) \in Nat
    BY <1>1, <1>2 DEF BoundedNats
  <1>4. PICK r : r = Max(siblings \cup {0})
    OBVIOUS
  <1>5. r \in Nat /\ \A n \in siblings : n <= r
    BY <1>2, <1>3, <1>4
  <1>6. CASE rotateOrdinal' = r /\ ordinalSeedUncertain' = FALSE
    BY <1>5, <1>6
  <1>7. CASE rotateOrdinal' = 0 /\ ordinalSeedUncertain' = TRUE
    BY <1>7
  <1>8. QED
    BY <1>4, <1>6, <1>7 DEF SeedOrdinal

\* A crash leaves one state of the directory.
LEMMA OneState ==
  ASSUME DiskIsTyped, Len(dirs) = 1
  PROVE  Range(dirs) = {dir}
  BY DEF DiskIsTyped, dir, Last, Range

\* Open on a base that exists: its fragment is dropped before anything is written.
LEMMA OpenExistingKeeps ==
  ASSUME ChainIInv, OpenExisting
  PROVE  ChainIInv'
  <1>1. /\ step = "down" /\ step' = "resume" /\ opening' = TRUE
        /\ f' = dir[Base] /\ filled' = Len(Lines(Base)) /\ markers' \in {<<"recovered">>, <<>>} /\ SeedOrdinal
        /\ UNCHANGED <<dirs, synced, kept, pruned, lost, inFallback, seq, prevHMAC, orphan, macs>>
        /\ Base \in DOMAIN dir /\ content' = [content EXCEPT ![dir[Base]].torn = FALSE]
    BY DEF OpenExisting, Opened, DropFragment, historyVars
  <1>2. IsDirectory(dir) /\ dir \in Range(dirs)
    BY StatesOfDirs DEF ChainIInv, DiskIsTyped
  <1>3. dir[Base] \in DOMAIN content
    BY <1>1, <1>2 DEF IsDirectory
  <1>4. \A i \in DOMAIN content : content[i] \in [lines : Seq(LineType), torn : BOOLEAN]
    BY DEF ChainIInv, DiskIsTyped
  <1>5. /\ DOMAIN content' = DOMAIN content /\ content'[dir[Base]].torn = FALSE
        /\ \A i \in DOMAIN content : content'[i] \in [lines : {content[i].lines}, torn : BOOLEAN]
    BY <1>1, <1>3, <1>4
  <1>6. Settles
    BY <1>1, <1>5 DEF ChainIInv, DiskIsTyped, Settles
  <1>7. DiskIsTyped' /\ FilesAreChains' /\ StatesAreSound' /\ dir' = dir
    BY <1>6, SettlingKeepsDisk, SettlingKeepsNames DEF ChainIInv
  <1>8. siblings' = siblings
    BY <1>7 DEF siblings
  <1>9. Range(dirs') = {dir}
    BY <1>1, OneState DEF ChainIInv, DownIsQuiet
  <1>10. \A i \in DOMAIN content' : synced'[i] = Len(content'[i].lines)
    BY <1>1, <1>5 DEF ChainIInv, DownIsQuiet
  <1>11. LiveIsLast'
    <2>1. ASSUME NEW n \in DOMAIN dir, dir[n] = dir[Base], NEW m \in DOMAIN dir
          PROVE  ~Before(n, m) /\ synced'[dir[m]] = Len(content'[dir[m]].lines)
      <3>1. n = Base
        BY <1>1, <1>2, <2>1 DEF IsDirectory
      <3>2. dir[m] \in DOMAIN content'
        BY <1>2, <1>5 DEF IsDirectory
      <3>3. QED
        BY <1>10, <3>1, <3>2 DEF Before
    <2>2. QED
      BY <1>1, <1>9, <2>1 DEF LiveIsLast, LinesIn
  <1>12. DownIsQuiet'
    BY <1>1, <1>7, <1>9, <1>10 DEF ChainIInv, DownIsQuiet
  <1>13. SinkIsTyped'
    <2>1. Len(Lines(Base)) \in Nat
      BY <1>3, <1>4 DEF Lines
    <2>2. <<"recovered">> \in Seq(Markers) /\ <<>> \in Seq(Markers)
      BY DEF Markers
    <2>3. QED
      BY <1>1, <2>1, <2>2, SeededOrdinal DEF ChainIInv, SinkIsTyped
  <1>14. NamesAreRight'
    <2>1. f' \in Range(dir)
      BY <1>1 DEF Range
    <2>2. ~ordinalSeedUncertain' => \A n \in siblings : n <= rotateOrdinal'
      BY <1>1, SeededOrdinal DEF ChainIInv
    <2>3. QED
      BY <1>1, <1>7, <1>8, <2>1, <2>2 DEF ChainIInv, NamesAreRight, Rotating
  <1>15. RotatedIsDurable' /\ MarkersAreDue' /\ HeadIsRight'
    BY <1>1 DEF ChainIInv, RotatedIsDurable, MarkersAreDue, Rotating, HeadIsRight
  <1>16. FragmentIsKnown'
    BY <1>1, <1>5 DEF ChainIInv, FragmentIsKnown
  <1>17. QED
    BY <1>7, <1>11, <1>12, <1>13, <1>14, <1>15, <1>16 DEF ChainIInv

-----------------------------------------------------------------------------
(* A new base.                                                               *)

\* A file that is created is none of the old ones.
LEMMA NewFileIsNew ==
  ASSUME DiskIsTyped
  PROVE  NewFile \in Nat /\ NewFile \notin DOMAIN content /\ NewFile # NoFile
  <1> DEFINE S == DOMAIN content \cup {NoFile}
  <1>1. BoundedNats(S)
    BY OneMoreIsBounded DEF DiskIsTyped, NoFile
  <1>2. Max(S) \in S /\ \A x \in S : x <= Max(S)
    BY <1>1, MaxIsGreatest
  <1>3. \A x \in S : x \in Nat
    BY <1>1 DEF BoundedNats
  <1>4. PICK m \in Nat : NewFile = m + 1 /\ \A x \in S : x \in Nat /\ x <= m
    <2>1. NewFile = Max(S) + 1
      BY DEF NewFile
    <2>2. QED
      BY <1>2, <1>3, <2>1
  <1>5. QED
    BY <1>4 DEF NoFile

\* The directory with a base in it: e, with the new file i.
Adds(e, i) ==
  /\ DOMAIN e = DOMAIN dir \cup {Base} /\ e[Base] = i /\ \A n \in DOMAIN dir : e[n] = dir[n]
  /\ dirs' = Append(dirs, e)
  /\ DOMAIN content' = DOMAIN content \cup {i} /\ content'[i] = EmptyFile
  /\ \A j \in DOMAIN content : content'[j] = content[j]
  /\ DOMAIN synced' = DOMAIN content \cup {i} /\ synced'[i] = 0
  /\ \A j \in DOMAIN content : synced'[j] = synced[j]

\* What creating the base does to the disk.
LEMMA CreatingAdds ==
  ASSUME DiskIsTyped, Base \notin DOMAIN dir, CreateBase
  PROVE  \E e : Adds(e, NewFile)
  <1>1. PICK i : i = NewFile
    OBVIOUS
  <1>2. i \notin DOMAIN content /\ DOMAIN synced = DOMAIN content
    BY <1>1, NewFileIsNew DEF DiskIsTyped
  <1>3. PICK e : e = With(dir, Base, i)
    OBVIOUS
  <1>4. DOMAIN e = DOMAIN dir \cup {Base} /\ e[Base] = i /\ \A n \in DOMAIN dir : e[n] = dir[n]
    BY <1>3 DEF With
  <1>5. dirs' = Append(dirs, e)
    BY <1>1, <1>3 DEF CreateBase, ChangeDir
  <1>6. DOMAIN content' = DOMAIN content \cup {i} /\ content'[i] = EmptyFile /\ \A j \in DOMAIN content : content'[j] = content[j]
    <2>1. content' = With(content, i, EmptyFile)
      BY <1>1 DEF CreateBase
    <2>2. QED
      BY <1>2, <2>1 DEF With
  <1>7. DOMAIN synced' = DOMAIN content \cup {i} /\ synced'[i] = 0 /\ \A j \in DOMAIN content : synced'[j] = synced[j]
    <2>1. synced' = With(synced, i, 0)
      BY <1>1 DEF CreateBase
    <2>2. QED
      BY <1>2, <2>1 DEF With
  <1>8. QED
    BY <1>1, <1>4, <1>5, <1>6, <1>7 DEF Adds

\* A directory state with a new, empty file in it has the old lines.
LEMMA AddingKeepsNames ==
  ASSUME DiskIsTyped, NEW e, NEW i, i \notin DOMAIN content, Base \notin DOMAIN dir, Adds(e, i)
  PROVE  /\ dirs' # <<>> /\ dirs' \in Seq(Range(dirs')) /\ dir' = e /\ Range(dirs') = Range(dirs) \cup {e}
         /\ dir \in Range(dirs) /\ siblings' = siblings
         /\ \A d \in Range(dirs) : i \notin Range(d) /\ \A n \in DOMAIN d : LinesIn(d, n)' = LinesIn(d, n)
         /\ \A n \in DOMAIN dir : LinesIn(e, n)' = LinesIn(dir, n)
         /\ LinesIn(e, Base)' = <<>>
  <1>1. /\ dir \in Range(dirs) /\ dirs' # <<>> /\ Last(dirs') = e /\ Range(dirs') = Range(dirs) \cup {e}
        /\ dirs' \in Seq(Range(dirs'))
    BY StatesOfDirs DEF Adds
  <1>2. dir' = e
    BY <1>1 DEF dir
  <1>3. siblings' = siblings
    BY <1>2 DEF siblings, Adds
  <1>4. ASSUME NEW d \in Range(dirs)
        PROVE  i \notin Range(d) /\ \A n \in DOMAIN d : LinesIn(d, n)' = LinesIn(d, n)
    <2>1. \A n \in DOMAIN d : d[n] \in DOMAIN content
      BY DEF DiskIsTyped, IsDirectory
    <2>2. QED
      BY <2>1 DEF Adds, LinesIn, Range
  <1>5. \A n \in DOMAIN dir : LinesIn(e, n)' = LinesIn(dir, n)
    <2>1. \A n \in DOMAIN dir : dir[n] \in DOMAIN content
      BY <1>1 DEF DiskIsTyped, IsDirectory
    <2>2. QED
      BY <2>1 DEF Adds, LinesIn
  <1>6. LinesIn(e, Base)' = <<>>
    BY DEF Adds, LinesIn, EmptyFile
  <1>7. QED
    BY <1>1, <1>2, <1>3, <1>4, <1>5, <1>6

\* So the disk stays sound.
LEMMA AddingKeepsDisk ==
  ASSUME DiskIsTyped, FilesAreChains, StatesAreSound, NEW e, NEW i \in Nat, i \notin DOMAIN content, i # NoFile,
         Base \notin DOMAIN dir, Adds(e, i), kept' = kept, pruned' = pruned
  PROVE  DiskIsTyped' /\ FilesAreChains' /\ StatesAreSound'
  <1>1. /\ dirs' # <<>> /\ dirs' \in Seq(Range(dirs')) /\ dir' = e /\ Range(dirs') = Range(dirs) \cup {e}
        /\ dir \in Range(dirs)
        /\ \A d \in Range(dirs) : i \notin Range(d) /\ \A n \in DOMAIN d : LinesIn(d, n)' = LinesIn(d, n)
        /\ \A n \in DOMAIN dir : LinesIn(e, n)' = LinesIn(dir, n)
        /\ LinesIn(e, Base)' = <<>>
    BY AddingKeepsNames
  <1>2. IsDirectory(dir) /\ DOMAIN e = DOMAIN dir \cup {Base} /\ e[Base] = i /\ \A n \in DOMAIN dir : e[n] = dir[n]
    BY <1>1 DEF DiskIsTyped, Adds
  <1>3. DiskIsTyped'
    <2>1. \A d \in Range(dirs) : IsDirectory(d)'
      BY DEF DiskIsTyped, IsDirectory, Adds
    <2>2. IsDirectory(e)'
      <3>1. BoundedNats(DOMAIN e)
        BY <1>2, OneMoreIsBounded DEF IsDirectory, Base
      <3>2. \A n \in DOMAIN e : e[n] \in DOMAIN content'
        BY <1>2 DEF IsDirectory, Adds
      <3>3. \A a, b \in DOMAIN e : e[a] = e[b] => a = b
        BY <1>2 DEF IsDirectory
      <3>4. QED
        BY <3>1, <3>2, <3>3 DEF IsDirectory
    <2>3. BoundedNats(DOMAIN content') /\ NoFile \notin DOMAIN content'
      BY OneMoreIsBounded DEF DiskIsTyped, Adds
    <2>4. \A j \in DOMAIN content' : content'[j] \in [lines : Seq(LineType), torn : BOOLEAN]
      <3>1. EmptyFile \in [lines : Seq(LineType), torn : BOOLEAN]
        BY DEF EmptyFile
      <3>2. QED
        BY <3>1 DEF DiskIsTyped, Adds
    <2>5. \A j \in DOMAIN content' : synced'[j] \in 0 .. Len(content'[j].lines)
      <3>1. Len(EmptyFile.lines) = 0
        BY DEF EmptyFile
      <3>2. QED
        BY <3>1 DEF DiskIsTyped, Adds
    <2>6. QED
      BY <1>1, <2>1, <2>2, <2>3, <2>4, <2>5 DEF DiskIsTyped, Adds
  <1>4. FilesAreChains'
    <2>1. EmptyFile.lines = <<>> /\ Len(EmptyFile.lines) = 0
      BY DEF EmptyFile
    <2>2. \A j \in DOMAIN content' : j = i \/ (j \in DOMAIN content /\ content'[j] = content[j])
      BY DEF Adds
    <2>3. content'[i].lines = <<>> /\ 1 .. Len(content'[i].lines) = {}
      BY <2>1 DEF Adds
    <2>4. ASSUME NEW j \in DOMAIN content', j # i, NEW k \in 1 .. Len(content'[j].lines)
          PROVE  /\ content'[j].lines[k].kind # "fused"
                 /\ content'[j].lines[k].seq = content'[j].lines[1].seq + (k - 1)
                 /\ k > 1 => content'[j].lines[k].prev = content'[j].lines[k - 1].mac
      <3>1. j \in DOMAIN content /\ content'[j] = content[j]
        BY <2>2, <2>4
      <3>2. QED
        BY <2>4, <3>1 DEF FilesAreChains
    <2>5. QED
      BY <2>3, <2>4 DEF FilesAreChains
  <1>5. ASSUME NEW d \in Range(dirs) PROVE StateIsChained(d)' /\ StateKeeps(d)'
    <2>1. StateIsChained(d) /\ StateKeeps(d)
      BY DEF StatesAreSound
    <2>2. \A n \in DOMAIN d : LinesIn(d, n)' = LinesIn(d, n) /\ synced'[d[n]] = synced[d[n]]
      BY <1>1 DEF DiskIsTyped, IsDirectory, Adds
    <2>3. \A a, b \in DOMAIN d : Meet(d, a, b)' <=> Meet(d, a, b)
      BY <2>2 DEF Meet
    <2>4. StateIsChained(d)'
      BY <2>1, <2>2, <2>3 DEF StateIsChained
    <2>5. QED
      BY <2>1, <2>2, <2>4 DEF StateKeeps
  <1>6. StateIsChained(e)' /\ StateKeeps(e)'
    <2>1. StateIsChained(dir) /\ StateKeeps(dir)
      BY <1>1 DEF StatesAreSound
    <2>2. \A n \in DOMAIN dir : LinesIn(e, n)' = LinesIn(dir, n) /\ synced'[e[n]] = synced[dir[n]]
      BY <1>1, <1>2 DEF IsDirectory, Adds
    <2>3. \A a, b \in DOMAIN e : Meet(e, a, b)' => a \in DOMAIN dir /\ b \in DOMAIN dir /\ Meet(dir, a, b)
      BY <1>1, <1>2, <2>2 DEF Meet
    <2>4. \A a, b \in DOMAIN e : Before(a, b) /\ LinesIn(e, b)' # <<>> => a \in DOMAIN dir /\ b \in DOMAIN dir
      BY <1>1, <1>2 DEF Before
    <2>5. StateIsChained(e)'
      BY <2>1, <2>2, <2>3, <2>4 DEF StateIsChained
    <2>6. StateKeeps(e)'
      BY <1>2, <2>1, <2>2 DEF StateKeeps
    <2>7. QED
      BY <2>5, <2>6
  <1>7. QED
    BY <1>1, <1>3, <1>4, <1>5, <1>6 DEF StatesAreSound

\* Open without a base.
LEMMA OpenFreshKeeps ==
  ASSUME ChainIInv, OpenFresh
  PROVE  ChainIInv'
  <1>1. /\ step = "down" /\ step' = "resume" /\ opening' = TRUE
        /\ f' = NewFile /\ filled' = 0 /\ markers' = <<>> /\ SeedOrdinal
        /\ UNCHANGED <<kept, pruned, lost, inFallback, seq, prevHMAC, orphan, macs>>
        /\ Base \notin DOMAIN dir /\ CreateBase
    BY DEF OpenFresh, Opened, historyVars
  <1>2. PICK i : i = NewFile
    OBVIOUS
  <1>3. i \in Nat /\ i \notin DOMAIN content /\ i # NoFile
    BY <1>2, NewFileIsNew DEF ChainIInv
  <1>4. PICK e : Adds(e, i)
    BY <1>1, <1>2, CreatingAdds DEF ChainIInv
  <1>5. DiskIsTyped' /\ FilesAreChains' /\ StatesAreSound'
    BY <1>1, <1>3, <1>4, AddingKeepsDisk DEF ChainIInv
  <1>6. /\ dir' = e /\ Range(dirs') = Range(dirs) \cup {e} /\ siblings' = siblings
        /\ \A d \in Range(dirs) : i \notin Range(d)
    BY <1>1, <1>3, <1>4, AddingKeepsNames DEF ChainIInv
  <1>7. Base \in DOMAIN e /\ e[Base] = i /\ content'[i] = EmptyFile /\ f' = i /\ i \in DOMAIN content'
    BY <1>1, <1>2, <1>4 DEF Adds
  <1>8. IsDirectory(e)'
    BY <1>5, <1>6 DEF DiskIsTyped
  <1>9. \A j \in DOMAIN content' : synced'[j] = Len(content'[j].lines)
    <2>1. \A j \in DOMAIN content : synced[j] = Len(content[j].lines)
      BY <1>1 DEF ChainIInv, DownIsQuiet
    <2>2. Len(EmptyFile.lines) = 0
      BY DEF EmptyFile
    <2>3. QED
      BY <1>4, <2>1, <2>2 DEF Adds
  <1>10. LiveIsLast'
    <2>1. SUFFICES ASSUME NEW d \in Range(dirs'), NEW n \in DOMAIN d, d[n] = i, NEW m \in DOMAIN d
                   PROVE  ~Before(n, m) /\ synced'[d[m]] = Len(LinesIn(d, m)')
      BY <1>7 DEF LiveIsLast
    <2>2. d = e
      BY <1>6, <2>1 DEF Range
    <2>3. n = Base /\ e[m] \in DOMAIN content'
      BY <1>7, <1>8, <2>1, <2>2 DEF IsDirectory
    <2>4. QED
      BY <1>9, <2>2, <2>3 DEF Before, LinesIn
  <1>11. DownIsQuiet'
    BY <1>1, <1>6, <1>7, <1>9 DEF ChainIInv, DownIsQuiet
  <1>12. SinkIsTyped'
    BY <1>1, SeededOrdinal DEF ChainIInv, SinkIsTyped
  <1>13. NamesAreRight'
    <2>1. f' \in Range(e)
      BY <1>7 DEF Range
    <2>2. ~ordinalSeedUncertain' => \A n \in siblings : n <= rotateOrdinal'
      BY <1>1, SeededOrdinal DEF ChainIInv
    <2>3. QED
      BY <1>1, <1>6, <1>7, <2>1, <2>2 DEF ChainIInv, NamesAreRight, Rotating
  <1>14. RotatedIsDurable' /\ MarkersAreDue' /\ HeadIsRight'
    BY <1>1 DEF ChainIInv, RotatedIsDurable, MarkersAreDue, Rotating, HeadIsRight
  <1>15. FragmentIsKnown'
    BY <1>1, <1>7 DEF ChainIInv, FragmentIsKnown, EmptyFile
  <1>16. QED
    BY <1>5, <1>10, <1>11, <1>12, <1>13, <1>14, <1>15 DEF ChainIInv

\* A rotation that creates the next base: everything before it is durable by now.
LEMMA OpenNewBaseKeeps ==
  ASSUME ChainIInv, OpenNewBase
  PROVE  ChainIInv'
  <1>1. /\ step = "create" /\ step' = "swap" /\ fresh' = NewFile /\ CreateBase
        /\ UNCHANGED <<kept, pruned, seq, prevHMAC, macs, opening, markers, lost, f, inFallback, filled, orphan, rotateOrdinal,
                       ordinalSeedUncertain>>
    BY DEF OpenNewBase, chainVars, historyVars
  <1>2. Base \notin DOMAIN dir /\ f \in Range(dir)
    BY <1>1 DEF ChainIInv, NamesAreRight, Rotating
  <1>3. PICK i : i = NewFile
    OBVIOUS
  <1>4. i \in Nat /\ i \notin DOMAIN content /\ i # NoFile
    BY <1>3, NewFileIsNew DEF ChainIInv
  <1>5. PICK e : Adds(e, i)
    BY <1>1, <1>2, <1>3, CreatingAdds DEF ChainIInv
  <1>6. DiskIsTyped' /\ FilesAreChains' /\ StatesAreSound'
    BY <1>1, <1>2, <1>4, <1>5, AddingKeepsDisk DEF ChainIInv
  <1>7. /\ dir' = e /\ Range(dirs') = Range(dirs) \cup {e} /\ siblings' = siblings /\ dir \in Range(dirs)
        /\ \A d \in Range(dirs) : i \notin Range(d) /\ \A n \in DOMAIN d : LinesIn(d, n)' = LinesIn(d, n)
        /\ \A n \in DOMAIN dir : LinesIn(e, n)' = LinesIn(dir, n)
        /\ LinesIn(e, Base)' = <<>>
    BY <1>2, <1>4, <1>5, AddingKeepsNames DEF ChainIInv
  <1>8. /\ DOMAIN e = DOMAIN dir \cup {Base} /\ e[Base] = i /\ \A n \in DOMAIN dir : e[n] = dir[n]
        /\ content'[i] = EmptyFile /\ fresh' = i
    BY <1>1, <1>3, <1>5 DEF Adds
  <1>9. f \in DOMAIN content /\ content'[f] = content[f] /\ synced'[f] = synced[f] /\ f # i
    BY <1>1, <1>4, <1>5, LiveFile DEF ChainIInv, Adds
  <1>10. LiveIsLast'
    <2>1. SUFFICES ASSUME NEW d \in Range(dirs'), NEW n \in DOMAIN d, d[n] = f, NEW m \in DOMAIN d
                   PROVE  /\ Before(n, m) => LinesIn(d, m)' = <<>>
                          /\ Before(m, n) => synced'[d[m]] = Len(LinesIn(d, m)')
      BY <1>1 DEF LiveIsLast
    <2>2. CASE d \in Range(dirs)
      <3>1. d[m] \in DOMAIN content
        BY <2>2 DEF ChainIInv, DiskIsTyped, IsDirectory
      <3>2. synced'[d[m]] = synced[d[m]] /\ LinesIn(d, m)' = LinesIn(d, m)
        BY <1>5, <1>7, <2>2, <3>1 DEF Adds
      <3>3. QED
        BY <1>1, <2>1, <2>2, <3>2 DEF ChainIInv, LiveIsLast
    <2>3. CASE d = e
      <3>1. n \in DOMAIN dir /\ dir[n] = f
        BY <1>8, <1>9, <2>1, <2>3
      <3>2. CASE m = Base
        BY <1>7, <2>3, <3>2 DEF Before
      <3>3. CASE m \in DOMAIN dir
        <4>1. dir[m] \in DOMAIN content
          BY <1>7, <3>3 DEF ChainIInv, DiskIsTyped, IsDirectory
        <4>2. synced'[e[m]] = synced[dir[m]] /\ LinesIn(e, m)' = LinesIn(dir, m)
          BY <1>5, <1>7, <3>3, <4>1 DEF Adds
        <4>3. /\ Before(n, m) => LinesIn(dir, m) = <<>>
              /\ Before(m, n) => synced[dir[m]] = Len(LinesIn(dir, m))
          BY <1>1, <1>7, <3>1, <3>3 DEF ChainIInv, LiveIsLast
        <4>4. QED
          BY <2>3, <4>2, <4>3
      <3>4. QED
        BY <1>8, <2>3, <3>2, <3>3
    <2>4. QED
      BY <1>7, <2>2, <2>3
  <1>11. HeadIsRight'
    <2>1. /\ content[f].lines # <<>> => Continues(content[f].lines)
          /\ \A d \in Range(dirs) : f \in Range(d) => \A n \in DOMAIN d : Ends(d, n) => Resumes(LinesIn(d, n))
      BY <1>1 DEF ChainIInv, HeadIsRight
    <2>2. (content[f].lines # <<>> => Continues(content[f].lines))'
      BY <1>1, <1>9, <2>1 DEF Continues
    <2>3. \A ls : Resumes(ls) => Resumes(ls)'
      BY <1>1 DEF Resumes, Continues, Due
    <2>4. ASSUME NEW d \in Range(dirs'), f \in Range(d), NEW n \in DOMAIN d, Ends(d, n)'
          PROVE  Resumes(LinesIn(d, n))'
      <3>1. PICK ls : ls = LinesIn(d, n)'
        OBVIOUS
      <3>2. Resumes(ls)
        <4>1. CASE d \in Range(dirs)
          <5>1. Ends(d, n)
            BY <1>7, <2>4, <4>1 DEF Ends
          <5>2. QED
            BY <1>7, <2>1, <2>4, <3>1, <4>1, <5>1
        <4>2. CASE d = e
          <5>1. n \in DOMAIN dir
            BY <1>7, <1>8, <2>4, <4>2 DEF Ends
          <5>2. Ends(dir, n)
            BY <1>7, <1>8, <2>4, <4>2, <5>1 DEF Ends
          <5>3. QED
            BY <1>2, <1>7, <2>1, <3>1, <4>2, <5>1, <5>2
        <4>3. QED
          BY <1>7, <4>1, <4>2
      <3>3. Resumes(ls)'
        BY <2>3, <3>2
      <3>4. QED
        BY <3>1, <3>3 DEF Resumes, Continues
    <2>5. QED
      BY <1>1, <2>2, <2>4 DEF HeadIsRight
  <1>12. SinkIsTyped' /\ RotatedIsDurable' /\ MarkersAreDue' /\ DownIsQuiet'
    BY <1>1, <1>9 DEF ChainIInv, SinkIsTyped, RotatedIsDurable, MarkersAreDue, Rotating, DownIsQuiet
  <1>13. NamesAreRight'
    <2>1. f' \in Range(e)
      <3>1. PICK n \in DOMAIN dir : dir[n] = f
        BY <1>2 DEF Range
      <3>2. n \in DOMAIN e /\ e[n] = f
        BY <1>8, <3>1
      <3>3. QED
        BY <1>1, <3>2 DEF Range
    <2>2. \A d \in Range(dirs') : fresh' \in Range(d) => d = e
      BY <1>7, <1>8
    <2>3. ~ordinalSeedUncertain' => \A n \in siblings' : n <= rotateOrdinal'
      BY <1>1, <1>7 DEF ChainIInv, NamesAreRight
    <2>4. Base \in DOMAIN e /\ e[Base] = fresh' /\ fresh' # f' /\ content'[fresh'] = EmptyFile
      BY <1>1, <1>8, <1>9
    <2>5. QED
      BY <1>1, <1>7, <2>1, <2>2, <2>3, <2>4 DEF NamesAreRight, Rotating
  <1>14. FragmentIsKnown'
    BY <1>1, <1>9 DEF ChainIInv, FragmentIsKnown
  <1>15. QED
    BY <1>6, <1>10, <1>11, <1>12, <1>13, <1>14 DEF ChainIInv

-----------------------------------------------------------------------------
(* A rename and a removal: the directory becomes e, the files stay.          *)

\* A rename or a removal: sound if the new directory state is.
LEMMA NamesChange ==
  ASSUME ChainIInv, SameHead, NEW e, dirs' = Append(dirs, e), UNCHANGED <<content, synced, kept>>,
         pruned \subseteq pruned',
         IsDirectory(e), StateIsChained(e),
         \A l \in kept : l \in pruned' \/ \E n \in DOMAIN e : \E j \in 1 .. synced[e[n]] : LinesIn(e, n)[j] = l,
         \A n \in DOMAIN e : e[n] = f =>
           \A m \in DOMAIN e : /\ Before(n, m) => LinesIn(e, m) = <<>>
                               /\ Before(m, n) => synced[e[m]] = Len(LinesIn(e, m)),
         \A n \in DOMAIN e : Ends(e, n) => Resumes(LinesIn(e, n))
  PROVE  /\ DiskIsTyped' /\ FilesAreChains' /\ StatesAreSound' /\ LiveIsLast' /\ DownIsQuiet' /\ HeadIsRight'
         /\ dir' = e /\ Range(dirs') = Range(dirs) \cup {e}
  <1>1. /\ dirs' # <<>> /\ Last(dirs') = e /\ Range(dirs') = Range(dirs) \cup {e}
        /\ dirs' \in Seq(Range(dirs'))
    BY StatesOfDirs DEF ChainIInv
  <1>2. dir' = e
    BY <1>1 DEF dir
  <1>3. \A d : IsDirectory(d)' <=> IsDirectory(d)
    BY DEF IsDirectory
  <1>4. DiskIsTyped'
    <2>1. \A d \in Range(dirs') : IsDirectory(d)'
      BY <1>1, <1>3 DEF ChainIInv, DiskIsTyped
    <2>2. QED
      BY <1>1, <2>1 DEF ChainIInv, DiskIsTyped
  <1>5. FilesAreChains'
    BY DEF ChainIInv, FilesAreChains
  <1>6. \A d, n : LinesIn(d, n)' = LinesIn(d, n)
    BY DEF LinesIn
  <1>7. \A d : StateIsChained(d) => StateIsChained(d)'
    BY <1>6 DEF StateIsChained, Meet
  <1>8. StatesAreSound'
    <2>1. \A d : StateKeeps(d) => StateKeeps(d)'
      BY <1>6 DEF StateKeeps
    <2>2. StateKeeps(e)'
      BY <1>6 DEF StateKeeps
    <2>3. QED
      BY <1>1, <1>7, <2>1, <2>2 DEF ChainIInv, StatesAreSound
  <1>9. LiveIsLast'
    <2>1. \A d \in Range(dirs) : \A n \in DOMAIN d : d[n] = f =>
            \A m \in DOMAIN d : /\ Before(n, m) => LinesIn(d, m) = <<>>
                                /\ Before(m, n) => synced[d[m]] = Len(LinesIn(d, m))
      BY DEF ChainIInv, LiveIsLast, SameHead
    <2>2. QED
      BY <1>1, <1>6, <2>1 DEF LiveIsLast, SameHead
  <1>10. HeadIsRight'
    <2>1. /\ content[f].lines # <<>> => Continues(content[f].lines)
          /\ \A d \in Range(dirs) : f \in Range(d) => \A n \in DOMAIN d : Ends(d, n) => Resumes(LinesIn(d, n))
      BY DEF ChainIInv, HeadIsRight, SameHead
    <2>2. \A ls : (Continues(ls) => Continues(ls)') /\ (Resumes(ls) => Resumes(ls)')
      BY SameHeadResumes DEF ChainIInv
    <2>3. (content[f].lines # <<>> => Continues(content[f].lines))'
      BY <2>1 DEF Continues, SameHead
    <2>4. ASSUME NEW d \in Range(dirs'), f' \in Range(d), NEW n \in DOMAIN d, Ends(d, n)'
          PROVE  Resumes(LinesIn(d, n))'
      <3>1. Ends(d, n) /\ f \in Range(d)
        BY <1>6, <2>4 DEF Ends, SameHead
      <3>2. PICK ls : ls = LinesIn(d, n)
        OBVIOUS
      <3>3. Resumes(ls)
        BY <1>1, <2>1, <3>1, <3>2
      <3>4. Resumes(ls)' /\ LinesIn(d, n)' = ls
        BY <1>6, <2>2, <3>2, <3>3
      <3>5. QED
        BY <3>4 DEF Resumes, Continues
    <2>5. QED
      BY <2>3, <2>4 DEF HeadIsRight
  <1>11. DownIsQuiet'
    BY DEF DownIsQuiet, SameHead
  <1>12. QED
    BY <1>1, <1>2, <1>4, <1>5, <1>8, <1>9, <1>10, <1>11

\* The full log becomes the newest sibling.
LEMMA RenameKeeps ==
  ASSUME ChainIInv, Rename
  PROVE  ChainIInv'
  <1>1. PICK N : N = NextOrdinal
    OBVIOUS
  <1>2. PICK e : e = With(Without(dir, Base), N, f)
    OBVIOUS
  <1>3. /\ step = "rename" /\ step' = "sync directory" /\ dirs' = Append(dirs, e)
        /\ rotateOrdinal' = N /\ ordinalSeedUncertain' = FALSE
        /\ UNCHANGED <<content, synced, kept, pruned, seq, prevHMAC, macs, opening, markers, lost, f, inFallback, filled, orphan>>
    BY <1>1, <1>2 DEF Rename, ChangeDir, chainVars, historyVars
  <1>4. N \in Nat /\ N # Base /\ \A n \in siblings : n \in Nat /\ n < N
    BY <1>1, <1>3, NextOrdinalIsNew DEF ChainIInv
  <1>5. dir \in Range(dirs) /\ IsDirectory(dir) /\ Base \in DOMAIN dir /\ dir[Base] = f /\ ~inFallback
    BY <1>3, StatesOfDirs DEF ChainIInv, DiskIsTyped, NamesAreRight, Rotating
  <1>6. DOMAIN e = siblings \cup {N} /\ e[N] = f /\ \A n \in siblings : n # N /\ n # Base /\ n \in DOMAIN dir /\ e[n] = dir[n]
    BY <1>2, <1>4 DEF With, Without, siblings
  <1> DEFINE Old(n) == IF n = N THEN Base ELSE n
  <1>7. \A n \in DOMAIN e : Old(n) \in DOMAIN dir /\ e[n] = dir[Old(n)] /\ LinesIn(e, n) = LinesIn(dir, Old(n))
    BY <1>5, <1>6 DEF LinesIn
  <1>8. \A a, b \in DOMAIN e : (Before(a, b) <=> Before(Old(a), Old(b))) /\ (Old(a) = Old(b) => a = b)
    <2>1. Old(N) = Base /\ \A n \in siblings : Old(n) = n /\ n # Base
      BY <1>6
    <2>2. \A n \in siblings : Before(n, N) /\ ~Before(N, n) /\ Before(n, Base) /\ ~Before(Base, n)
      BY <1>4, <1>6 DEF Before, Base
    <2>3. ~Before(N, N) /\ ~Before(Base, Base)
      BY <1>4 DEF Before, Base
    <2> HIDE DEF Old
    <2>4. QED
      BY <1>6, <2>1, <2>2, <2>3
  <1>9. \A m \in DOMAIN dir : \E n \in DOMAIN e : Old(n) = m
    <2>1. \A m \in DOMAIN dir : m = Base \/ m \in siblings
      BY DEF siblings
    <2>2. Old(N) = Base /\ N \in DOMAIN e /\ \A m \in siblings : m \in DOMAIN e /\ Old(m) = m
      BY <1>6
    <2>3. QED
      BY <2>1, <2>2
  <1> HIDE DEF Old
  <1>10. IsDirectory(e)
    <2>1. BoundedNats(DOMAIN e)
      BY <1>4, <1>5, <1>6, OneMoreIsBounded, PartIsBounded DEF IsDirectory, siblings
    <2>2. QED
      BY <1>5, <1>7, <1>8, <2>1 DEF IsDirectory
  <1>11. StateIsChained(dir) /\ StateKeeps(dir)
    BY <1>5 DEF ChainIInv, StatesAreSound
  <1>12. StateIsChained(e)
    <2>1. \A a, b \in DOMAIN e : Meet(e, a, b) => Meet(dir, Old(a), Old(b))
      <3>1. SUFFICES ASSUME NEW a \in DOMAIN e, NEW b \in DOMAIN e, Meet(e, a, b), NEW c \in DOMAIN dir,
                            Before(Old(a), c), Before(c, Old(b))
                     PROVE  LinesIn(dir, c) = <<>>
        BY <1>7, <1>8 DEF Meet
      <3>2. PICK n \in DOMAIN e : Old(n) = c
        BY <1>9
      <3>3. QED
        BY <1>7, <1>8, <3>1, <3>2 DEF Meet
    <2>2. QED
      BY <1>7, <1>8, <1>11, <2>1 DEF StateIsChained
  <1>13. \A l \in kept : l \in pruned' \/ \E n \in DOMAIN e : \E j \in 1 .. synced[e[n]] : LinesIn(e, n)[j] = l
    <2>1. SUFFICES ASSUME NEW l \in kept, l \notin pruned
                   PROVE  \E n \in DOMAIN e : \E j \in 1 .. synced[e[n]] : LinesIn(e, n)[j] = l
      BY <1>3
    <2>2. PICK m \in DOMAIN dir : \E j \in 1 .. synced[dir[m]] : LinesIn(dir, m)[j] = l
      BY <1>11, <2>1 DEF StateKeeps
    <2>3. PICK n \in DOMAIN e : Old(n) = m
      BY <1>9
    <2>4. QED
      BY <1>7, <2>2, <2>3
  <1>14. ASSUME NEW n \in DOMAIN e, e[n] = f, NEW m \in DOMAIN e
         PROVE  /\ Before(n, m) => LinesIn(e, m) = <<>>
                /\ Before(m, n) => synced[e[m]] = Len(LinesIn(e, m))
    <2>1. /\ Before(Old(n), Old(m)) => LinesIn(dir, Old(m)) = <<>>
          /\ Before(Old(m), Old(n)) => synced[dir[Old(m)]] = Len(LinesIn(dir, Old(m)))
      BY <1>3, <1>5, <1>7, <1>14 DEF ChainIInv, LiveIsLast
    <2>2. QED
      BY <1>7, <1>8, <2>1
  <1>15. ASSUME NEW n \in DOMAIN e, Ends(e, n) PROVE Resumes(LinesIn(e, n))
    <2>1. Ends(dir, Old(n))
      <3>1. SUFFICES ASSUME NEW c \in DOMAIN dir, Before(Old(n), c) PROVE LinesIn(dir, c) = <<>>
        BY <1>7, <1>15 DEF Ends
      <3>2. PICK m \in DOMAIN e : Old(m) = c
        BY <1>9
      <3>3. QED
        BY <1>7, <1>8, <1>15, <3>1, <3>2 DEF Ends
    <2>2. f \in Range(dir)
      BY <1>5 DEF Range
    <2>3. QED
      BY <1>3, <1>5, <1>7, <2>1, <2>2 DEF ChainIInv, HeadIsRight
  <1>16. /\ DiskIsTyped' /\ FilesAreChains' /\ StatesAreSound' /\ LiveIsLast' /\ DownIsQuiet' /\ HeadIsRight'
         /\ dir' = e
    <2>1. SameHead
      BY <1>3 DEF SameHead, Due
    <2>2. pruned \subseteq pruned'
      BY <1>3
    <2>3. QED
      BY <1>3, <1>10, <1>12, <1>13, <1>14, <1>15, <2>1, <2>2, NamesChange
  <1>17. NamesAreRight'
    <2>1. f' \in Range(e)
      BY <1>3, <1>6 DEF Range
    <2>2. Base \notin DOMAIN e
      BY <1>4, <1>6
    <2>3. \A n \in siblings' : n <= rotateOrdinal'
      <3>1. siblings' \subseteq siblings \cup {N}
        BY <1>6, <1>16 DEF siblings
      <3>2. \A n \in siblings \cup {N} : n <= N
        BY <1>4
      <3>3. QED
        BY <1>3, <3>1, <3>2
    <2>4. QED
      BY <1>3, <1>5, <1>16, <2>1, <2>2, <2>3 DEF NamesAreRight, Rotating
  <1>18. SinkIsTyped'
    BY <1>3, <1>4 DEF ChainIInv, SinkIsTyped
  <1>19. RotatedIsDurable' /\ MarkersAreDue' /\ FragmentIsKnown'
    BY <1>3 DEF ChainIInv, RotatedIsDurable, MarkersAreDue, Rotating, FragmentIsKnown
  <1>20. QED
    BY <1>16, <1>17, <1>18, <1>19 DEF ChainIInv

\* Retention removes from the old end, so that no hole appears.
LEMMA RemoveOldestKeeps ==
  ASSUME ChainIInv, RemoveOldest
  PROVE  ChainIInv'
  <1>1. PICK o : o = Min(Closed)
    OBVIOUS
  <1>2. PICK e : e = Without(dir, o)
    OBVIOUS
  <1>3. /\ step = "prune" /\ step' = "prune" /\ dirs' = Append(dirs, e) /\ pruned' = pruned \cup Range(Lines(o))
        /\ UNCHANGED <<content, synced, kept, seq, prevHMAC, macs, opening, markers, lost, f, inFallback, filled, orphan,
                       rotateOrdinal, ordinalSeedUncertain>>
    BY <1>1, <1>2 DEF RemoveOldest, ChangeDir, chainVars, sinkVars
  <1>4. dir \in Range(dirs) /\ IsDirectory(dir) /\ f \in Range(dir)
    BY <1>3, StatesOfDirs DEF ChainIInv, DiskIsTyped, NamesAreRight
  <1>5. o \in Closed /\ \A x \in Closed : o <= x
    <2>1. Closed \subseteq Nat
      BY <1>4 DEF Closed, siblings, IsDirectory, BoundedNats
    <2>2. Closed # {}
      <3>1. Cardinality({}) = 0
        BY FS_EmptySet
      <3>2. QED
        BY <3>1, ChainAssumption DEF RemoveOldest, OverRetention
    <2>3. QED
      BY <1>1, <2>1, <2>2, MinIsLeast
  <1>6. o \in DOMAIN dir /\ o # Base /\ dir[o] # f
    BY <1>5 DEF Closed, siblings
  <1>7. DOMAIN e = DOMAIN dir \ {o} /\ \A n \in DOMAIN e : n \in DOMAIN dir /\ e[n] = dir[n] /\ LinesIn(e, n) = LinesIn(dir, n)
    BY <1>2 DEF Without, LinesIn
  <1>8. \A n, m \in DOMAIN dir : dir[n] = f =>
          /\ Before(n, m) => LinesIn(dir, m) = <<>>
          /\ Before(m, n) => synced[dir[m]] = Len(LinesIn(dir, m))
    BY <1>3, <1>4 DEF ChainIInv, LiveIsLast
  <1>9. ASSUME NEW n \in DOMAIN e, Before(n, o) PROVE dir[n] = f
    <2>1. n \in siblings /\ n < o
      BY <1>6, <1>7, <1>9 DEF Before, siblings
    <2>2. n \notin Closed
      <3>1. n \in Nat /\ o \in Nat
        BY <1>4, <1>6, <1>7 DEF IsDirectory, BoundedNats
      <3>2. QED
        BY <1>5, <2>1, <3>1
    <2>3. QED
      BY <2>1, <2>2 DEF Closed
  <1>10. IsDirectory(e)
    BY <1>4, <1>7, PartIsBounded DEF IsDirectory
  <1>11. StateIsChained(dir) /\ StateKeeps(dir)
    BY <1>4 DEF ChainIInv, StatesAreSound
  <1>12. StateIsChained(e)
    <2>1. ASSUME NEW a \in DOMAIN e, NEW b \in DOMAIN e, Meet(e, a, b) PROVE Meet(dir, a, b)
      <3>1. SUFFICES ASSUME NEW c \in DOMAIN dir, Before(a, c), Before(c, b) PROVE LinesIn(dir, c) = <<>>
        BY <1>7, <2>1 DEF Meet
      <3>2. CASE c \in DOMAIN e
        BY <1>7, <2>1, <3>1, <3>2 DEF Meet
      <3>3. CASE c = o
        <4>1. dir[a] = f
          BY <1>9, <3>1, <3>3
        <4>2. Before(a, b) /\ LinesIn(dir, b) # <<>>
          BY <1>7, <2>1 DEF Meet
        <4>3. QED
          BY <1>7, <1>8, <4>1, <4>2
      <3>4. QED
        BY <1>7, <3>2, <3>3
    <2>2. QED
      BY <1>7, <1>11, <2>1 DEF StateIsChained
  <1>13. \A l \in kept : l \in pruned' \/ \E n \in DOMAIN e : \E j \in 1 .. synced[e[n]] : LinesIn(e, n)[j] = l
    <2>1. SUFFICES ASSUME NEW l \in kept, l \notin pruned'
                   PROVE  \E n \in DOMAIN e : \E j \in 1 .. synced[e[n]] : LinesIn(e, n)[j] = l
      OBVIOUS
    <2>2. PICK m \in DOMAIN dir : \E j \in 1 .. synced[dir[m]] : LinesIn(dir, m)[j] = l
      BY <1>3, <1>11, <2>1 DEF StateKeeps
    <2>3. m # o
      <3>1. SUFFICES ASSUME m = o PROVE FALSE
        OBVIOUS
      <3>2. dir[o] \in DOMAIN content
        BY <1>4, <1>6 DEF IsDirectory
      <3>3. Lines(o) \in Seq(LineType) /\ synced[dir[o]] \in 0 .. Len(Lines(o)) /\ LinesIn(dir, o) = Lines(o)
        BY <3>2 DEF ChainIInv, DiskIsTyped, Lines, LinesIn
      <3>4. PICK j \in 1 .. Len(Lines(o)) : Lines(o)[j] = l
        BY <2>2, <3>1, <3>3
      <3>5. l \in Range(Lines(o))
        BY <3>3, <3>4 DEF Range
      <3>6. QED
        BY <1>3, <2>1, <3>5
    <2>4. QED
      BY <1>7, <2>2, <2>3
  <1>14. ASSUME NEW n \in DOMAIN e, e[n] = f, NEW m \in DOMAIN e
         PROVE  /\ Before(n, m) => LinesIn(e, m) = <<>>
                /\ Before(m, n) => synced[e[m]] = Len(LinesIn(e, m))
    BY <1>7, <1>8, <1>14
  <1>15. ASSUME NEW n \in DOMAIN e, Ends(e, n) PROVE Resumes(LinesIn(e, n))
    <2>1. Ends(dir, n)
      <3>1. SUFFICES ASSUME NEW c \in DOMAIN dir, Before(n, c) PROVE LinesIn(dir, c) = <<>>
        BY <1>7, <1>15 DEF Ends
      <3>2. CASE c \in DOMAIN e
        BY <1>7, <1>15, <3>1, <3>2 DEF Ends
      <3>3. CASE c = o
        BY <1>7, <1>8, <1>9, <3>1, <3>3
      <3>4. QED
        BY <1>7, <3>2, <3>3
    <2>2. QED
      BY <1>3, <1>4, <1>7, <2>1 DEF ChainIInv, HeadIsRight
  <1>16. /\ DiskIsTyped' /\ FilesAreChains' /\ StatesAreSound' /\ LiveIsLast' /\ DownIsQuiet' /\ HeadIsRight'
         /\ dir' = e
    <2>1. SameHead
      BY <1>3 DEF SameHead, Due
    <2>2. pruned \subseteq pruned'
      BY <1>3
    <2>3. QED
      BY <1>3, <1>10, <1>12, <1>13, <1>14, <1>15, <2>1, <2>2, NamesChange
  <1>17. NamesAreRight'
    <2>1. f' \in Range(e)
      BY <1>3, <1>4, <1>6, <1>7 DEF Range
    <2>2. Base \in DOMAIN dir <=> Base \in DOMAIN e
      BY <1>6, <1>7
    <2>3. Base \in DOMAIN dir => e[Base] = dir[Base]
      BY <1>7, <2>2
    <2>4. siblings' \subseteq siblings
      BY <1>7, <1>16 DEF siblings
    <2>5. QED
      BY <1>3, <1>16, <2>1, <2>2, <2>3, <2>4 DEF ChainIInv, NamesAreRight, Rotating
  <1>18. SinkIsTyped'
    BY <1>3 DEF ChainIInv, SinkIsTyped
  <1>19. RotatedIsDurable' /\ MarkersAreDue' /\ FragmentIsKnown'
    BY <1>3 DEF ChainIInv, RotatedIsDurable, MarkersAreDue, Rotating, FragmentIsKnown
  <1>20. QED
    BY <1>16, <1>17, <1>18, <1>19 DEF ChainIInv

-----------------------------------------------------------------------------
(* A line is written.                                                        *)

\* A sequence with one more element.
LEMMA Appending ==
  ASSUME NEW S, NEW s \in Seq(S), NEW x \in S
  PROVE  /\ Append(s, x) \in Seq(S) /\ Len(s) \in Nat /\ Len(Append(s, x)) = Len(s) + 1 /\ Append(s, x) # <<>>
         /\ \A j \in 1 .. Len(s) : Append(s, x)[j] = s[j]
         /\ Append(s, x)[Len(s) + 1] = x /\ Last(Append(s, x)) = x
         /\ s = <<>> => Head(Append(s, x)) = x
         /\ s # <<>> => Head(Append(s, x)) = Head(s)
         /\ s # <<>> <=> Len(s) > 0
  <1>1. /\ Append(s, x) \in Seq(S) /\ Len(s) \in Nat /\ Len(Append(s, x)) = Len(s) + 1
        /\ \A j \in 1 .. Len(s) : Append(s, x)[j] = s[j]
        /\ Append(s, x)[Len(s) + 1] = x
    OBVIOUS
  <1>2. (s # <<>> <=> Len(s) > 0) /\ Append(s, x) # <<>>
    BY <1>1
  <1>3. QED
    BY <1>1, <1>2 DEF Last

\* The line that writeRecord makes: it links to the head, and is the first marker during Open.
LEMMA LineIsTyped ==
  ASSUME SinkIsTyped, opening => markers # <<>>
  PROVE  /\ Line \in LineType /\ Line.kind # "fused" /\ Line.seq = seq + 1 /\ Line.prev = prevHMAC /\ Line.mac = macs + 1
         /\ Due \in Resets => MarkerAt(Line) = Due
  <1>1. ASSUME opening PROVE Head(markers) \in Markers
    <2>1. markers \in Seq(Markers) /\ markers # <<>>
      BY <1>1 DEF SinkIsTyped
    <2>2. QED
      BY <2>1
  <1>2. /\ Line.seq = seq + 1 /\ Line.prev = prevHMAC /\ Line.mac = macs + 1
        /\ Line.kind = (IF opening THEN Head(markers) ELSE "record") /\ Line.lost = lost
    BY DEF Line
  <1>3. Line.kind \in Kinds /\ Line.kind # "fused"
    BY <1>1, <1>2 DEF Kinds, Markers, Resets
  <1>4. Line \in LineType
    <2>1. seq + 1 \in Nat /\ prevHMAC \in Nat /\ macs + 1 \in Nat
      <3>1. seq \in Nat /\ prevHMAC \in Nat /\ macs \in Nat
        BY DEF SinkIsTyped
      <3>2. QED
        BY <3>1
    <2>2. PICK k \in Kinds : Line = [seq |-> seq + 1, prev |-> prevHMAC, mac |-> macs + 1, kind |-> k, lost |-> lost]
      BY <1>2, <1>3 DEF Line
    <2>3. lost \in Resets \cup {NoMarker}
      BY DEF SinkIsTyped
    <2>4. QED
      BY <2>1, <2>2, <2>3 DEF LineType
  <1>5. Due \in Resets => MarkerAt(Line) = Due
    BY <1>2 DEF MarkerAt, Due, Resets, NoMarker
  <1>6. QED
    BY <1>2, <1>3, <1>4, <1>5

\* What was on disk and the line that is written next follow each other.
LEMMA NextLineFollows ==
  ASSUME SinkIsTyped, opening => markers # <<>>, NEW ls \in Seq(LineType), ls # <<>>, Resumes(ls)
  PROVE  Follows(ls, Line)
  <1>1. Last(ls) \in LineType
    BY DEF Last
  <1>2. Last(ls).seq \in Nat /\ seq \in Nat
    BY <1>1 DEF LineType, SinkIsTyped
  <1>3. PICK l : l = Line
    OBVIOUS
  <1>4. l.seq = seq + 1 /\ l.prev = prevHMAC /\ (Due \in Resets => MarkerAt(l) = Due)
    BY <1>3, LineIsTyped
  <1>5. CASE Continues(ls)
    BY <1>2, <1>3, <1>4, <1>5 DEF Continues, Follows, Linked
  <1>6. CASE ~Continues(ls)
    <2>1. /\ Due \in Resets
          /\ \/ Due \in {"resume_residual", "seed_unbounded", "tail_parse_failure"}
             \/ Due = "resume_failed" /\ Restarts(Head(ls))
             \/ Last(ls).seq <= seq
      BY <1>6 DEF Resumes
    <2>2. MarkerAt(l) = Due /\ Restarts(l)
      BY <1>4, <2>1 DEF Restarts
    <2>3. SeqMayRecur(ls, l) \/ Last(ls).seq < l.seq
      BY <1>2, <1>4, <2>1, <2>2 DEF SeqMayRecur, Unbounded
    <2>4. QED
      BY <1>3, <2>2, <2>3 DEF Follows
  <1>7. QED
    BY <1>5, <1>6

\* The write of a line, where the chain grows: it follows the lines of its own file, or
\* what ends each state of the directory, or is the marker that says that it does not.
LEMMA AppendLineKeeps ==
  ASSUME ChainIInv, AppendLine
  PROVE  ChainIInv'
  <1>1. /\ step = "append" /\ step' = "ready" /\ content' = [content EXCEPT ![f] = AppendTo(@)]
        /\ seq' = seq + 1 /\ prevHMAC' = macs + 1 /\ macs' = macs + 1 /\ filled' = filled + 1 /\ Consume
        /\ lost' = NoMarker
        /\ UNCHANGED <<dirs, synced, kept, pruned, opening, f, inFallback, orphan, rotateOrdinal, ordinalSeedUncertain>>
    BY DEF AppendLine, historyVars
  <1>2. f \in DOMAIN content /\ content[f].lines \in Seq(LineType) /\ ~content[f].torn /\ synced[f] \in 0 .. Len(content[f].lines)
    BY <1>1, LiveFile DEF ChainIInv, FragmentIsKnown
  <1>3. opening => markers # <<>>
    BY <1>1 DEF ChainIInv, MarkersAreDue
  <1>4. PICK l : l = Line
    OBVIOUS
  <1>5. /\ l \in LineType /\ l.kind # "fused" /\ l.seq = seq + 1 /\ l.prev = prevHMAC /\ l.mac = macs + 1
    BY <1>3, <1>4, LineIsTyped DEF ChainIInv
  <1>6. PICK old \in Seq(LineType) : old = content[f].lines
    BY <1>2
  <1>7. PICK new : new = Append(old, l)
    OBVIOUS
  <1>8. /\ new \in Seq(LineType) /\ Len(old) \in Nat /\ Len(new) = Len(old) + 1 /\ new # <<>>
        /\ \A j \in 1 .. Len(old) : new[j] = old[j]
        /\ new[Len(old) + 1] = l /\ Last(new) = l
        /\ old = <<>> => Head(new) = l
        /\ old # <<>> => Head(new) = Head(old)
        /\ old # <<>> <=> Len(old) > 0
    BY <1>5, <1>7, Appending
  <1>9. content' = [content EXCEPT ![f] = [lines |-> new, torn |-> FALSE]]
    BY <1>1, <1>2, <1>4, <1>6, <1>7 DEF AppendTo
  <1>10. /\ DOMAIN content' = DOMAIN content /\ content'[f].lines = new /\ content'[f].torn = FALSE
         /\ \A i \in DOMAIN content : i # f => content'[i] = content[i]
    BY <1>2, <1>9
  <1>11. dir' = dir /\ siblings' = siblings
    BY <1>1 DEF dir, siblings
  <1>12. DiskIsTyped'
    <2>1. \A i \in DOMAIN content' : content'[i] \in [lines : Seq(LineType), torn : BOOLEAN]
      BY <1>8, <1>9 DEF ChainIInv, DiskIsTyped
    <2>2. \A i \in DOMAIN content' : synced'[i] \in 0 .. Len(content'[i].lines)
      <3>1. synced[f] \in 0 .. Len(new)
        BY <1>2, <1>6, <1>8
      <3>2. QED
        BY <1>1, <1>10, <3>1 DEF ChainIInv, DiskIsTyped
    <2>3. \A d \in Range(dirs) : IsDirectory(d)'
      BY <1>10 DEF ChainIInv, DiskIsTyped, IsDirectory
    <2>4. QED
      BY <1>1, <1>10, <2>1, <2>2, <2>3 DEF ChainIInv, DiskIsTyped
  <1>13. old # <<>> => Continues(old)
    BY <1>1, <1>6 DEF ChainIInv, HeadIsRight
  <1>14. FilesAreChains'
    <2>1. ASSUME NEW j \in 1 .. Len(new)
          PROVE  /\ new[j].kind # "fused" /\ new[j].seq = new[1].seq + (j - 1)
                 /\ j > 1 => new[j].prev = new[j - 1].mac
      <3>1. \A k \in 1 .. Len(old) : /\ old[k].kind # "fused" /\ old[k].seq = old[1].seq + (k - 1)
                                     /\ k > 1 => old[k].prev = old[k - 1].mac
        BY <1>2, <1>6 DEF ChainIInv, FilesAreChains
      <3>2. CASE j \in 1 .. Len(old)
        <4>1. new[j] = old[j] /\ new[1] = old[1] /\ (j > 1 => new[j - 1] = old[j - 1])
          BY <1>8, <3>2
        <4>2. QED
          BY <3>1, <3>2, <4>1
      <3>3. CASE j = Len(old) + 1 /\ old = <<>>
        <4>1. j = 1 /\ new[1] = l
          BY <1>8, <3>3
        <4>2. QED
          BY <1>5, <4>1, <1>8 DEF LineType
      <3>4. CASE j = Len(old) + 1 /\ old # <<>>
        <4>1. new[j] = l /\ new[1] = old[1] /\ new[j - 1] = old[Len(old)] /\ Len(old) \in 1 .. Len(old)
          BY <1>8, <3>4
        <4>2. l.seq = old[Len(old)].seq + 1 /\ l.prev = old[Len(old)].mac
          BY <1>5, <1>13, <3>4 DEF Continues, Last
        <4>3. old[Len(old)].seq = old[1].seq + (Len(old) - 1)
          BY <3>1, <4>1
        <4>4. old[1].seq \in Nat
          <5>1. old[1] \in LineType
            BY <3>4
          <5>2. QED
            BY <5>1 DEF LineType
        <4>5. new[j].seq = new[1].seq + (j - 1)
          <5>1. PICK p : p = old[1].seq
            OBVIOUS
          <5>2. PICK q : q = old[Len(old)].seq
            OBVIOUS
          <5>3. new[j].seq = q + 1 /\ q = p + (Len(old) - 1) /\ new[1].seq = p /\ p \in Nat
            BY <4>1, <4>2, <4>3, <4>4, <5>1, <5>2
          <5>4. QED
            BY <1>8, <3>4, <5>3
        <4>6. QED
          BY <1>5, <4>1, <4>2, <4>5
      <3>5. j \in 1 .. Len(old) \/ j = Len(old) + 1
        BY <1>8
      <3>6. QED
        BY <3>2, <3>3, <3>4, <3>5
    <2>2. ASSUME NEW i \in DOMAIN content, i # f, NEW j \in 1 .. Len(content[i].lines)
          PROVE  /\ content[i].lines[j].kind # "fused"
                 /\ content[i].lines[j].seq = content[i].lines[1].seq + (j - 1)
                 /\ j > 1 => content[i].lines[j].prev = content[i].lines[j - 1].mac
      BY DEF ChainIInv, FilesAreChains
    <2>3. SUFFICES ASSUME NEW i \in DOMAIN content, NEW j \in 1 .. Len(content'[i].lines)
                   PROVE  /\ content'[i].lines[j].kind # "fused"
                          /\ content'[i].lines[j].seq = content'[i].lines[1].seq + (j - 1)
                          /\ j > 1 => content'[i].lines[j].prev = content'[i].lines[j - 1].mac
      BY <1>10 DEF FilesAreChains
    <2>4. CASE i = f
      <3>1. content'[i].lines = new
        BY <1>10, <2>4
      <3>2. QED
        BY <2>1, <2>3, <3>1
    <2>5. CASE i # f
      <3>1. content'[i] = content[i]
        BY <1>10, <2>5
      <3>2. QED
        BY <2>2, <2>3, <2>5, <3>1
    <2>6. QED
      BY <2>4, <2>5
  <1>15. ASSUME NEW d \in Range(dirs)
         PROVE  /\ IsDirectory(d) /\ StateIsChained(d) /\ StateKeeps(d)
                /\ \A n \in DOMAIN d : d[n] \in DOMAIN content /\ n \in Nat /\ LinesIn(d, n) \in Seq(LineType)
                /\ \A n \in DOMAIN d : d[n] # f => LinesIn(d, n)' = LinesIn(d, n)
                /\ \A n \in DOMAIN d : d[n] = f => LinesIn(d, n) = old /\ LinesIn(d, n)' = new
    <2>1. IsDirectory(d) /\ StateIsChained(d) /\ StateKeeps(d)
      BY DEF ChainIInv, DiskIsTyped, StatesAreSound
    <2>2. \A n \in DOMAIN d : d[n] \in DOMAIN content /\ n \in Nat
      BY <2>1 DEF IsDirectory, BoundedNats
    <2>3. QED
      BY <1>6, <1>10, <2>1, <2>2 DEF LinesIn, ChainIInv, DiskIsTyped
  <1>16. ASSUME NEW d \in Range(dirs), NEW n \in DOMAIN d, d[n] = f, NEW m \in DOMAIN d
         PROVE  /\ Before(n, m) => LinesIn(d, m) = <<>> /\ d[m] # f
                /\ Before(m, n) => synced[d[m]] = Len(LinesIn(d, m)) /\ d[m] # f
    <2>1. d[m] = f => m = n
      BY <1>15, <1>16 DEF IsDirectory
    <2>2. n \in Nat /\ m \in Nat
      BY <1>15
    <2>3. QED
      BY <1>1, <1>16, <2>1, <2>2, BeforeIsTotal DEF ChainIInv, LiveIsLast
  <1>17. ASSUME NEW d \in Range(dirs) PROVE StateIsChained(d)'
    <2>1. ASSUME NEW a \in DOMAIN d, NEW b \in DOMAIN d, Meet(d, a, b)'
          PROVE  Follows(LinesIn(d, a)', Head(LinesIn(d, b)'))
      <3>1. Before(a, b) /\ LinesIn(d, a)' # <<>> /\ LinesIn(d, b)' # <<>>
            /\ \A c \in DOMAIN d : Before(a, c) /\ Before(c, b) => LinesIn(d, c)' = <<>>
        BY <2>1 DEF Meet
      <3>2. d[a] # f /\ LinesIn(d, a)' = LinesIn(d, a)
        <4>1. SUFFICES ASSUME d[a] = f PROVE FALSE
          BY <1>15
        <4>2. LinesIn(d, b) = <<>> /\ d[b] # f
          BY <1>16, <3>1, <4>1
        <4>3. QED
          BY <1>15, <3>1, <4>2
      <3>3. \A c \in DOMAIN d : Before(a, c) /\ Before(c, b) => LinesIn(d, c) = <<>>
        <4>1. SUFFICES ASSUME NEW c \in DOMAIN d, Before(a, c), Before(c, b), d[c] = f PROVE FALSE
          BY <1>15, <3>1
        <4>2. QED
          BY <1>8, <1>15, <3>1, <4>1
      <3>4. CASE LinesIn(d, b) # <<>>
        <4>1. Meet(d, a, b)
          BY <3>1, <3>2, <3>3, <3>4 DEF Meet
        <4>2. Head(LinesIn(d, b)') = Head(LinesIn(d, b))
          BY <1>8, <1>15, <3>4
        <4>3. QED
          BY <1>15, <3>2, <4>1, <4>2 DEF StateIsChained
      <3>5. CASE LinesIn(d, b) = <<>>
        <4>1. d[b] = f
          BY <1>15, <3>1, <3>5
        <4>2. Head(LinesIn(d, b)') = l
          BY <1>8, <1>15, <3>5, <4>1
        <4>3. Ends(d, a)
          <5>1. SUFFICES ASSUME NEW c \in DOMAIN d, Before(a, c) PROVE LinesIn(d, c) = <<>>
            BY <3>1, <3>2 DEF Ends
          <5>2. Before(c, b) \/ c = b \/ Before(b, c)
            BY <1>15, BeforeIsTotal
          <5>3. Before(b, c) => LinesIn(d, c) = <<>>
            BY <1>16, <4>1
          <5>4. QED
            BY <3>3, <3>5, <5>1, <5>2, <5>3
        <4>4. f \in Range(d)
          BY <4>1 DEF Range
        <4>5. Resumes(LinesIn(d, a))
          BY <1>1, <4>3, <4>4 DEF ChainIInv, HeadIsRight
        <4>6. LinesIn(d, a) \in Seq(LineType) /\ LinesIn(d, a) # <<>>
          BY <1>15, <3>1, <3>2
        <4>7. PICK ls \in Seq(LineType) : ls = LinesIn(d, a)
          BY <4>6
        <4>8. Follows(ls, Line)
          BY <1>3, <4>5, <4>6, <4>7, NextLineFollows DEF ChainIInv
        <4>9. QED
          BY <1>4, <3>2, <4>2, <4>7, <4>8
      <3>6. QED
        BY <3>4, <3>5
    <2>2. ASSUME NEW a \in DOMAIN d, NEW b \in DOMAIN d, Before(a, b), LinesIn(d, b)' # <<>>
          PROVE  synced'[d[a]] = Len(LinesIn(d, a)')
      <3>1. CASE d[b] = f
        BY <1>1, <1>15, <1>16, <2>2, <3>1
      <3>2. CASE d[b] # f
        <4>1. LinesIn(d, b) # <<>>
          BY <1>15, <2>2, <3>2
        <4>2. d[a] # f
          BY <1>16, <2>2, <4>1
        <4>3. QED
          BY <1>1, <1>15, <2>2, <4>1, <4>2 DEF StateIsChained
      <3>3. QED
        BY <3>1, <3>2
    <2>3. QED
      BY <2>1, <2>2 DEF StateIsChained
  <1>18. ASSUME NEW d \in Range(dirs) PROVE StateKeeps(d)'
    <2>1. SUFFICES ASSUME NEW k \in kept, k \notin pruned
                   PROVE  \E n \in DOMAIN d : \E j \in 1 .. synced[d[n]] : LinesIn(d, n)'[j] = k
      BY <1>1 DEF StateKeeps
    <2>2. PICK n \in DOMAIN d : \E j \in 1 .. synced[d[n]] : LinesIn(d, n)[j] = k
      BY <1>15, <2>1 DEF StateKeeps
    <2>3. PICK j \in 1 .. synced[d[n]] : LinesIn(d, n)[j] = k
      BY <2>2
    <2>4. LinesIn(d, n)'[j] = LinesIn(d, n)[j]
      <3>1. CASE d[n] = f
        <4>1. j \in 1 .. Len(old)
          BY <1>2, <1>6, <1>8, <3>1
        <4>2. QED
          BY <1>8, <1>15, <3>1, <4>1
      <3>2. CASE d[n] # f
        BY <1>15, <3>2
      <3>3. QED
        BY <3>1, <3>2
    <2>5. QED
      BY <2>3, <2>4
  <1>19. StatesAreSound'
    BY <1>1, <1>17, <1>18 DEF StatesAreSound
  <1>20. LiveIsLast'
    BY <1>1, <1>15, <1>16 DEF LiveIsLast
  <1>21. HeadIsRight'
    <2>1. seq' = Last(new).seq /\ prevHMAC' = Last(new).mac
      BY <1>1, <1>5, <1>8
    <2>2. (content[f].lines # <<>> => Continues(content[f].lines))'
      BY <1>1, <1>10, <2>1 DEF Continues
    <2>3. ASSUME NEW d \in Range(dirs), f \in Range(d), NEW n \in DOMAIN d, Ends(d, n)'
          PROVE  Resumes(LinesIn(d, n))'
      <3>1. PICK k \in DOMAIN d : d[k] = f
        BY <2>3 DEF Range
      <3>2. LinesIn(d, k)' # <<>>
        BY <1>8, <1>15, <3>1
      <3>3. LinesIn(d, n)' # <<>> /\ ~Before(n, k)
        BY <2>3, <3>2 DEF Ends
      <3>4. ~Before(k, n)
        BY <1>15, <1>16, <3>1, <3>3
      <3>5. n = k
        BY <1>15, <3>3, <3>4, BeforeIsTotal
      <3>6. LinesIn(d, n)' = new
        BY <1>15, <3>1, <3>5
      <3>7. QED
        BY <2>1, <3>6 DEF Resumes, Continues
    <2>4. QED
      BY <1>1, <2>2, <2>3 DEF HeadIsRight
  <1>22. SinkIsTyped'
    <2>1. markers' \in Seq(Markers)
      <3>1. markers \in Seq(Markers)
        BY DEF ChainIInv, SinkIsTyped
      <3>2. opening => Tail(markers) \in Seq(Markers)
        BY <1>3, <3>1
      <3>3. QED
        BY <1>1, <3>1, <3>2 DEF Consume
    <2>2. QED
      BY <1>1, <2>1 DEF ChainIInv, SinkIsTyped
  <1>23. NamesAreRight'
    BY <1>1, <1>11 DEF ChainIInv, NamesAreRight, Rotating
  <1>24. RotatedIsDurable' /\ MarkersAreDue' /\ FragmentIsKnown' /\ DownIsQuiet'
    BY <1>1, <1>10 DEF ChainIInv, RotatedIsDurable, MarkersAreDue, Rotating, FragmentIsKnown, DownIsQuiet
  <1>25. QED
    BY <1>12, <1>14, <1>19, <1>20, <1>21, <1>22, <1>23, <1>24 DEF ChainIInv

-----------------------------------------------------------------------------
(* A crash.                                                                  *)

\* What is left of a file: a prefix of its lines, with those that are synced.
Left(i, ls) == /\ ls \in Seq(LineType) /\ Len(ls) \in synced[i] .. Len(content[i].lines)
               /\ \A j \in 1 .. Len(ls) : ls[j] = content[i].lines[j]

\* A crash leaves a file what an fsync covered, and maybe more.
LEMMA SurvivorsAreLeft ==
  ASSUME DiskIsTyped, NEW i \in DOMAIN content, NEW c \in Survivors(i)
  PROVE  c \in [lines : Seq(LineType), torn : BOOLEAN] /\ Left(i, c.lines)
  <1>1. PICK ls \in Seq(LineType) : ls = content[i].lines
    BY DEF DiskIsTyped
  <1>2. synced[i] \in 0 .. Len(ls) /\ Len(ls) \in Nat
    BY <1>1 DEF DiskIsTyped
  <1>3. c \in [lines : {SubSeq(ls, 1, k) : k \in synced[i] .. Len(ls)}, torn : BOOLEAN]
    BY <1>1 DEF Survivors
  <1>4. PICK k \in synced[i] .. Len(ls) : c.lines = SubSeq(ls, 1, k)
    BY <1>3
  <1>5. k \in 0 .. Len(ls)
    BY <1>2
  <1>6. SubSeq(ls, 1, k) \in Seq(LineType) /\ Len(SubSeq(ls, 1, k)) = k /\ \A j \in 1 .. k : SubSeq(ls, 1, k)[j] = ls[j]
    BY <1>2, <1>5
  <1>7. \E t \in BOOLEAN : c = [lines |-> c.lines, torn |-> t]
    BY <1>3
  <1>8. c.lines \in Seq(LineType) /\ Len(c.lines) = k /\ \A j \in 1 .. k : c.lines[j] = ls[j]
    BY <1>4, <1>6
  <1>9. c \in [lines : Seq(LineType), torn : BOOLEAN]
    BY <1>7, <1>8
  <1>10. QED
    BY <1>1, <1>8, <1>9 DEF Left

\* A crash leaves one of the directory states and, of each file, some beginning: the chain
\* holds in it because only the last file with lines can have lost any.
LEMMA CrashKeeps ==
  ASSUME ChainIInv, Crash
  PROVE  ChainIInv'
  <1>1. /\ step' = "down" /\ opening' = FALSE /\ markers' = <<>> /\ lost' = NoMarker /\ f' = NoFile /\ inFallback' = FALSE /\ seq' = 0
        /\ prevHMAC' = Genesis /\ filled' = 0 /\ orphan' = FALSE /\ rotateOrdinal' = 0 /\ ordinalSeedUncertain' = FALSE
        /\ UNCHANGED <<macs, kept, pruned>>
    BY DEF Crash, historyVars
  <1>2. PICK k \in DOMAIN dirs :
          LET left == Range(dirs[k]) IN
            /\ dirs' = <<dirs[k]>>
            /\ content' \in {c \in [left -> UNION {Survivors(i) : i \in left}] : \A i \in left : c[i] \in Survivors(i)}
            /\ synced' = [i \in left |-> Len(content'[i].lines)]
    BY DEF Crash
  <1>3. PICK d \in Range(dirs) : d = dirs[k]
    BY <1>2 DEF Range
  <1>4. /\ dirs' = <<d>> /\ DOMAIN content' = Range(d) /\ \A i \in Range(d) : content'[i] \in Survivors(i)
        /\ DOMAIN synced' = Range(d) /\ \A i \in Range(d) : synced'[i] = Len(content'[i].lines)
    BY <1>2, <1>3
  <1>5. IsDirectory(d) /\ StateIsChained(d) /\ StateKeeps(d)
    BY DEF ChainIInv, DiskIsTyped, StatesAreSound
  <1>6. Range(d) \subseteq DOMAIN content /\ \A n \in DOMAIN d : d[n] \in Range(d) /\ n \in Nat
    BY <1>5 DEF IsDirectory, Range, BoundedNats
  <1>7. \A i \in Range(d) : content'[i] \in [lines : Seq(LineType), torn : BOOLEAN] /\ Left(i, content'[i].lines)
    BY <1>4, <1>6, SurvivorsAreLeft DEF ChainIInv
  <1>8. Range(dirs') = {d} /\ Last(dirs') = d /\ dirs' # <<>> /\ dirs' \in Seq({d}) /\ Len(dirs') = 1
    BY <1>4, StatesOfDirs DEF ChainIInv
  <1>9. dir' = d
    BY <1>8 DEF dir
  <1>10. DiskIsTyped'
    <2>1. IsDirectory(d)'
      BY <1>4, <1>5, <1>6 DEF IsDirectory
    <2>2. BoundedNats(DOMAIN content') /\ NoFile \notin DOMAIN content'
      BY <1>4, <1>6, PartIsBounded DEF ChainIInv, DiskIsTyped
    <2>3. \A i \in DOMAIN content' : synced'[i] \in 0 .. Len(content'[i].lines)
      <3>1. \A i \in DOMAIN content' : Len(content'[i].lines) \in Nat
        BY <1>4, <1>7
      <3>2. QED
        BY <1>4, <3>1
    <2>4. QED
      BY <1>4, <1>7, <1>8, <2>1, <2>2, <2>3 DEF DiskIsTyped
  <1>11. FilesAreChains'
    <2>1. SUFFICES ASSUME NEW i \in Range(d), NEW j \in 1 .. Len(content'[i].lines)
                   PROVE  /\ content'[i].lines[j].kind # "fused"
                          /\ content'[i].lines[j].seq = content'[i].lines[1].seq + (j - 1)
                          /\ j > 1 => content'[i].lines[j].prev = content'[i].lines[j - 1].mac
      BY <1>4 DEF FilesAreChains
    <2>2. PICK new : new = content'[i].lines
      OBVIOUS
    <2>3. PICK old \in Seq(LineType) : old = content[i].lines
      BY <1>6 DEF ChainIInv, DiskIsTyped
    <2>4. new \in Seq(LineType) /\ Len(new) <= Len(old) /\ Len(new) \in Nat /\ Len(old) \in Nat /\ \A m \in 1 .. Len(new) : new[m] = old[m]
      BY <1>7, <2>2, <2>3 DEF Left
    <2>5. j \in 1 .. Len(old) /\ j \in 1 .. Len(new) /\ 1 \in 1 .. Len(new) /\ (j > 1 => j - 1 \in 1 .. Len(new))
      BY <2>1, <2>2, <2>4
    <2>6. old[j].kind # "fused" /\ old[j].seq = old[1].seq + (j - 1) /\ (j > 1 => old[j].prev = old[j - 1].mac)
      BY <1>6, <2>3, <2>5 DEF ChainIInv, FilesAreChains
    <2>7. QED
      BY <2>2, <2>4, <2>5, <2>6
  <1>12. \A n \in DOMAIN d : /\ LinesIn(d, n) \in Seq(LineType) /\ Left(d[n], LinesIn(d, n)')
                             /\ synced[d[n]] \in 0 .. Len(LinesIn(d, n))
    BY <1>6, <1>7 DEF LinesIn, ChainIInv, DiskIsTyped
  <1>13. ASSUME NEW n \in DOMAIN d, synced[d[n]] = Len(LinesIn(d, n)) PROVE LinesIn(d, n)' = LinesIn(d, n)
    <2>1. PICK old \in Seq(LineType) : old = LinesIn(d, n)
      BY <1>12
    <2>2. PICK new : new = LinesIn(d, n)'
      OBVIOUS
    <2>3. new \in Seq(LineType) /\ Len(new) \in Len(old) .. Len(old) /\ \A j \in 1 .. Len(new) : new[j] = old[j]
      BY <1>12, <1>13, <2>1, <2>2 DEF Left, LinesIn
    <2>4. Len(new) = Len(old) /\ Len(old) \in Nat
      BY <2>1, <2>3
    <2>5. new = old
      BY <2>3, <2>4
    <2>6. QED
      BY <2>1, <2>2, <2>5
  <1>14. ASSUME NEW n \in DOMAIN d, LinesIn(d, n)' # <<>>
         PROVE  LinesIn(d, n) # <<>> /\ Head(LinesIn(d, n)') = Head(LinesIn(d, n))
    <2>1. PICK old \in Seq(LineType) : old = LinesIn(d, n)
      BY <1>12
    <2>2. PICK new : new = LinesIn(d, n)'
      OBVIOUS
    <2>3. new \in Seq(LineType) /\ Len(new) <= Len(old) /\ \A j \in 1 .. Len(new) : new[j] = old[j]
      <3>1. Len(new) \in synced[d[n]] .. Len(old) /\ new \in Seq(LineType) /\ \A j \in 1 .. Len(new) : new[j] = old[j]
        BY <1>12, <2>1, <2>2 DEF Left, LinesIn
      <3>2. QED
        BY <3>1
    <2>4. Len(new) \in Nat /\ Len(new) > 0 /\ Len(old) \in Nat
      BY <1>14, <2>2, <2>3
    <2>5. Len(old) > 0 /\ new[1] = old[1]
      BY <2>3, <2>4
    <2>6. old # <<>> /\ Head(new) = Head(old)
      BY <1>14, <2>2, <2>3, <2>4, <2>5
    <2>7. QED
      BY <2>1, <2>2, <2>6
  <1>15. StateIsChained(d)'
    <2>1. ASSUME NEW a \in DOMAIN d, NEW b \in DOMAIN d, Meet(d, a, b)'
          PROVE  Follows(LinesIn(d, a)', Head(LinesIn(d, b)'))
      <3>1. Before(a, b) /\ LinesIn(d, a)' # <<>> /\ LinesIn(d, b)' # <<>>
            /\ \A c \in DOMAIN d : Before(a, c) /\ Before(c, b) => LinesIn(d, c)' = <<>>
        BY <2>1 DEF Meet
      <3>2. LinesIn(d, b) # <<>> /\ Head(LinesIn(d, b)') = Head(LinesIn(d, b))
        BY <1>14, <3>1
      <3>3. \A c \in DOMAIN d : Before(c, b) => LinesIn(d, c)' = LinesIn(d, c)
        BY <1>5, <1>13, <3>2 DEF StateIsChained
      <3>4. Meet(d, a, b)
        BY <3>1, <3>2, <3>3 DEF Meet
      <3>5. QED
        BY <1>5, <3>1, <3>2, <3>3, <3>4 DEF StateIsChained
    <2>2. \A a \in DOMAIN d : synced'[d[a]] = Len(LinesIn(d, a)')
      BY <1>4, <1>6 DEF LinesIn
    <2>3. QED
      BY <2>1, <2>2 DEF StateIsChained
  <1>16. StateKeeps(d)'
    <2>1. SUFFICES ASSUME NEW l \in kept, l \notin pruned
                   PROVE  \E n \in DOMAIN d : \E j \in 1 .. synced'[d[n]] : LinesIn(d, n)'[j] = l
      BY <1>1 DEF StateKeeps
    <2>2. PICK n \in DOMAIN d : \E j \in 1 .. synced[d[n]] : LinesIn(d, n)[j] = l
      BY <1>5, <2>1 DEF StateKeeps
    <2>3. PICK j \in 1 .. synced[d[n]] : LinesIn(d, n)[j] = l
      BY <2>2
    <2>4. synced'[d[n]] = Len(LinesIn(d, n)')
      BY <1>4, <1>6 DEF LinesIn
    <2>5. PICK new : new = LinesIn(d, n)'
      OBVIOUS
    <2>6. Len(new) \in synced[d[n]] .. Len(LinesIn(d, n)) /\ synced[d[n]] \in Nat
          /\ \A m \in 1 .. Len(new) : new[m] = LinesIn(d, n)[m]
      BY <1>12, <2>5 DEF Left, LinesIn
    <2>7. j \in 1 .. Len(new)
      BY <2>6
    <2>8. QED
      BY <2>3, <2>4, <2>5, <2>6, <2>7
  <1>17. StatesAreSound'
    BY <1>8, <1>15, <1>16 DEF StatesAreSound
  <1>18. SinkIsTyped'
    <2>1. markers' \in Seq(Markers) /\ macs' \in Nat
      <3>1. macs \in Nat
        BY DEF ChainIInv, SinkIsTyped
      <3>2. QED
        BY <1>1, <3>1
    <2>2. QED
      BY <1>1, <2>1 DEF SinkIsTyped, Genesis
  <1>19. NamesAreRight' /\ LiveIsLast' /\ RotatedIsDurable' /\ FragmentIsKnown' /\ MarkersAreDue' /\ HeadIsRight'
    BY <1>1 DEF NamesAreRight, LiveIsLast, RotatedIsDurable, FragmentIsKnown, MarkersAreDue, HeadIsRight, Rotating
  <1>20. DownIsQuiet'
    BY <1>1, <1>4, <1>8 DEF DownIsQuiet
  <1>21. QED
    BY <1>10, <1>11, <1>17, <1>18, <1>19, <1>20 DEF ChainIInv

-----------------------------------------------------------------------------
(* The resume.                                                               *)

\* The seqs of a file, and where they begin and end.
LEMMA SeqsOfFile ==
  ASSUME DiskIsTyped, FilesAreChains, NEW n \in DOMAIN dir
  PROVE  /\ Lines(n) \in Seq(LineType) /\ BoundedNats({l.seq : l \in Range(Lines(n))})
         /\ Lines(n) # <<>> => /\ Head(Lines(n)) \in LineType /\ Last(Lines(n)) \in LineType /\ Last(Lines(n)) \in Range(Lines(n))
                               /\ Len(Lines(n)) \in Nat
                               /\ Last(Lines(n)).seq = Head(Lines(n)).seq + (Len(Lines(n)) - 1)
  <1>1. dir[n] \in DOMAIN content
    BY StatesOfDirs DEF DiskIsTyped, IsDirectory
  <1>2. PICK ls \in Seq(LineType) : ls = Lines(n)
    BY <1>1 DEF DiskIsTyped, Lines
  <1>3. Len(ls) \in Nat /\ \A j \in 1 .. Len(ls) : ls[j] \in LineType /\ ls[j].seq = ls[1].seq + (j - 1)
    BY <1>1, <1>2 DEF FilesAreChains, Lines
  <1>4. CASE ls = <<>>
    <2>1. {l.seq : l \in Range(ls)} = {}
      BY <1>4 DEF Range
    <2>2. BoundedNats({})
      BY DEF BoundedNats
    <2>3. QED
      BY <1>2, <1>4, <2>1, <2>2
  <1>5. CASE ls # <<>>
    <2>1. Len(ls) > 0 /\ Head(ls) = ls[1] /\ Last(ls) = ls[Len(ls)]
      BY <1>3, <1>5 DEF Last
    <2>2. 1 \in 1 .. Len(ls) /\ Len(ls) \in 1 .. Len(ls) /\ DOMAIN ls = 1 .. Len(ls)
      BY <1>3, <2>1
    <2>3. PICK p \in Nat : p = ls[1].seq
      BY <1>3, <2>2 DEF LineType
    <2>4. \A l \in Range(ls) : l.seq \in Nat /\ l.seq <= p + Len(ls)
      <3>1. SUFFICES ASSUME NEW j \in 1 .. Len(ls) PROVE ls[j].seq \in Nat /\ ls[j].seq <= p + Len(ls)
        BY <2>2 DEF Range
      <3>2. ls[j].seq = p + (j - 1)
        BY <1>3, <2>3
      <3>3. QED
        BY <1>3, <3>2
    <2>5. BoundedNats({l.seq : l \in Range(ls)})
      <3>1. p + Len(ls) \in Nat
        BY <1>3
      <3>2. QED
        BY <2>4, <3>1 DEF BoundedNats
    <2>6. Last(ls) \in Range(ls)
      BY <2>1, <2>2 DEF Range
    <2>7. QED
      BY <1>2, <1>3, <2>1, <2>2, <2>5, <2>6
  <1>6. QED
    BY <1>4, <1>5

\* highestSeqAcrossChain is at least every seq it has read.
LEMMA SeedIsRead ==
  ASSUME DiskIsTyped, FilesAreChains, NEW names, names \subseteq DOMAIN dir
  PROVE  /\ Max(SeqsIn(names) \cup {0}) \in Nat
         /\ \A n \in names : Lines(n) # <<>> => Last(Lines(n)).seq <= Max(SeqsIn(names) \cup {0})
  <1> DEFINE g == [n \in names |-> {l.seq : l \in Range(Lines(n))}]
             S == SeqsIn(names) \cup {0}
  <1>1. BoundedNats(names)
    BY StatesOfDirs, PartIsBounded DEF DiskIsTyped, IsDirectory
  <1>2. \A n \in names : BoundedNats(g[n])
    BY SeqsOfFile
  <1>3. SeqsIn(names) = UNION {g[n] : n \in names}
    BY DEF SeqsIn
  <1>4. BoundedNats(SeqsIn(names))
    <2> HIDE DEF g
    <2>1. QED
      BY <1>1, <1>2, <1>3, UnionIsBounded
  <1>5. BoundedNats(S)
    BY <1>4, OneMoreIsBounded
  <1>6. Max(S) \in S /\ \A x \in S : x <= Max(S)
    BY <1>5, MaxIsGreatest
  <1>7. Max(S) \in Nat
    BY <1>5, <1>6 DEF BoundedNats
  <1>8. ASSUME NEW n \in names, Lines(n) # <<>> PROVE Last(Lines(n)).seq \in S
    <2>1. Last(Lines(n)) \in Range(Lines(n))
      BY <1>8, SeqsOfFile
    <2>2. QED
      BY <2>1 DEF SeqsIn
  <1> HIDE DEF S
  <1>9. Max(S) \in Nat /\ \A n \in names : Lines(n) # <<>> => Last(Lines(n)).seq <= Max(S)
    BY <1>6, <1>7, <1>8
  <1>10. QED
    BY <1>9 DEF S

\* A marker put before those that Open has already to write.
LEMMA MarkersResumed ==
  ASSUME NEW ms \in Seq(Markers)
  PROVE  /\ <<>> \o ms = ms
         /\ \A x \in Markers : <<x>> \o ms \in Seq(Markers) /\ <<x>> \o ms # <<>> /\ Head(<<x>> \o ms) = x
  <1>1. <<>> \o ms = ms
    OBVIOUS
  <1>2. ASSUME NEW x \in Markers PROVE <<x>> \o ms \in Seq(Markers) /\ <<x>> \o ms # <<>> /\ Head(<<x>> \o ms) = x
    <2>1. <<x>> \in Seq(Markers) /\ Len(<<x>>) = 1 /\ <<x>>[1] = x
      OBVIOUS
    <2>2. <<x>> \o ms \in Seq(Markers) /\ Len(<<x>> \o ms) = 1 + Len(ms) /\ (<<x>> \o ms)[1] = x
      BY <2>1
    <2>3. QED
      BY <2>2
  <1>3. QED
    BY <1>1, <1>2

\* The last file with lines, of which there is at most one.
LEMMA LastFile ==
  ASSUME ChainIInv, Base \in DOMAIN dir, NEW n \in DOMAIN dir, Ends(dir, n)
  PROVE  /\ Lines(n) # <<>> /\ LinesIn(dir, n) = Lines(n)
         /\ Lines(Base) # <<>> => n = Base
         /\ Lines(Base) = <<>> => /\ n \in WithTail /\ Max(WithTail) \in WithTail /\ n <= Max(WithTail)
                                  /\ Lines(Max(WithTail)) # <<>> => n = Max(WithTail)
  <1>1. Lines(n) # <<>> /\ \A m \in DOMAIN dir : LinesIn(dir, m) = Lines(m) /\ (Before(n, m) => Lines(m) = <<>>)
    BY DEF Ends, LinesIn, Lines
  <1>2. Lines(Base) # <<>> => n = Base
    BY <1>1 DEF Before
  <1>3. ASSUME Lines(Base) = <<>>
        PROVE  /\ n \in WithTail /\ Max(WithTail) \in WithTail /\ n <= Max(WithTail)
               /\ Lines(Max(WithTail)) # <<>> => n = Max(WithTail)
    <2>1. n # Base /\ n \in WithTail
      BY <1>1, <1>3 DEF WithTail, siblings
    <2>2. BoundedNats(WithTail)
      <3>1. BoundedNats(DOMAIN dir)
        BY StatesOfDirs DEF ChainIInv, DiskIsTyped, IsDirectory
      <3>2. WithTail \subseteq DOMAIN dir
        BY DEF WithTail, siblings
      <3>3. QED
        BY <3>1, <3>2, PartIsBounded
    <2>3. PICK m : m = Max(WithTail)
      OBVIOUS
    <2>4. m \in WithTail /\ n <= m
      BY <2>1, <2>2, <2>3, MaxIsGreatest
    <2>5. m \in DOMAIN dir /\ m \in Nat /\ n \in Nat
      BY <2>1, <2>2, <2>4 DEF WithTail, siblings, BoundedNats
    <2>6. Lines(m) # <<>> => n = m
      BY <1>1, <2>1, <2>4, <2>5 DEF Before
    <2>7. QED
      BY <2>1, <2>3, <2>4, <2>6
  <1>4. QED
    BY <1>1, <1>2, <1>3

\* Of the files that are read, the last one with lines comes right before the unread one.
LEMMA ReadFileMeets ==
  ASSUME ChainIInv, Base \in DOMAIN dir, Lines(Base) = <<>>, NEW N \in WithTail, N = Max(WithTail), Lines(N) # <<>>,
         SeqsIn(DOMAIN dir \ {N}) # {}
  PROVE  \E p \in DOMAIN dir \ {N} : Meet(dir, p, N)
  <1> DEFINE P == {p \in DOMAIN dir \ {N} : Lines(p) # <<>>}
  <1>1. P # {}
    <2>1. PICK p \in DOMAIN dir \ {N} : Range(Lines(p)) # {}
      BY DEF SeqsIn
    <2>2. Lines(p) # <<>>
      BY <2>1 DEF Range
    <2>3. QED
      BY <2>1, <2>2
  <1>2. BoundedNats(DOMAIN dir)
    BY StatesOfDirs DEF ChainIInv, DiskIsTyped, IsDirectory
  <1>3. BoundedNats(P)
    BY <1>2, PartIsBounded
  <1>4. PICK p \in P : \A q \in P : q <= p
    BY <1>1, <1>3, MaxIsGreatest
  <1>5. P \subseteq WithTail /\ WithTail \subseteq DOMAIN dir
    BY DEF WithTail, siblings
  <1>6. \A q \in WithTail : q <= N /\ q # Base /\ q \in Nat
    <2>1. BoundedNats(WithTail)
      BY <1>2, <1>5, PartIsBounded
    <2>2. QED
      BY <2>1, MaxIsGreatest DEF WithTail, siblings, BoundedNats
  <1>7. p \in DOMAIN dir \ {N} /\ Lines(p) # <<>> /\ p \in Nat /\ p < N /\ p # Base
    BY <1>4, <1>5, <1>6
  <1>8. Before(p, N) /\ N # Base
    BY <1>6, <1>7 DEF Before
  <1>9. ASSUME NEW c \in DOMAIN dir, Before(p, c), Before(c, N) PROVE Lines(c) = <<>>
    <2>1. c # N /\ c \in Nat /\ c # Base
      BY <1>2, <1>9, <1>6, BeforeIsTotal DEF BoundedNats, Before
    <2>2. p < c
      BY <1>9, <2>1 DEF Before
    <2>3. c \notin P
      BY <1>4, <1>7, <2>1, <2>2
    <2>4. QED
      BY <2>1, <2>3
  <1>10. QED
    BY <1>7, <1>8, <1>9 DEF Meet, LinesIn, Lines

\* The seed is past the last line of an unread file that goes on from the one before it: a
\* byte for each of its lines is enough for that.
LEMMA UnreadIsPassed ==
  ASSUME ChainIInv, Base \in DOMAIN dir, Lines(Base) = <<>>, NEW N \in WithTail, N = Max(WithTail), Lines(N) # <<>>,
         NEW bytes \in Bytes(N), SeqsIn(DOMAIN dir \ {N}) # {}, ~Restarts(Head(Lines(N)))
  PROVE  Last(Lines(N)).seq <= Max(SeqsIn(DOMAIN dir \ {N}) \cup {0}) + bytes
  <1>1. N \in DOMAIN dir /\ dir \in Range(dirs)
    BY StatesOfDirs DEF ChainIInv, WithTail, siblings
  <1>2. PICK p \in DOMAIN dir \ {N} : Meet(dir, p, N)
    BY ReadFileMeets
  <1>3. Lines(p) # <<>> /\ Linked(Last(Lines(p)), Head(Lines(N)))
    <2>1. Follows(LinesIn(dir, p), Head(LinesIn(dir, N)))
      BY <1>1, <1>2 DEF ChainIInv, StatesAreSound, StateIsChained
    <2>2. QED
      BY <1>2, <2>1 DEF Follows, LinesIn, Lines, Meet
  <1>4. PICK m : m = Max(SeqsIn(DOMAIN dir \ {N}) \cup {0})
    OBVIOUS
  <1>5. m \in Nat /\ Last(Lines(p)).seq <= m
    <2>1. DOMAIN dir \ {N} \subseteq DOMAIN dir
      OBVIOUS
    <2>2. QED
      BY <1>3, <1>4, <2>1, SeedIsRead DEF ChainIInv
  <1>6. /\ Len(Lines(N)) \in Nat /\ Last(Lines(N)).seq = Head(Lines(N)).seq + (Len(Lines(N)) - 1)
        /\ Last(Lines(p)) \in LineType
    BY <1>1, <1>3, SeqsOfFile DEF ChainIInv
  <1>7. PICK k : k = Len(Lines(N))
    OBVIOUS
  <1>8. PICK q \in Nat : q = Last(Lines(p)).seq
    BY <1>6 DEF LineType
  <1>9. k \in Nat /\ Last(Lines(N)).seq = (q + 1) + (k - 1) /\ q <= m
    BY <1>3, <1>5, <1>6, <1>7, <1>8 DEF Linked
  <1>10. bytes \in Nat /\ k <= bytes
    BY <1>7, <1>9, ChainAssumption DEF Bytes
  <1>11. QED
    BY <1>4, <1>5, <1>9, <1>10

\* Wherever the resume finds it, the head of the chain follows what is on disk.
ResumeIsRight ==
  /\ seq' \in Nat /\ prevHMAC' \in Nat /\ markers' \in Seq(Markers)
  /\ Lines(Base) # <<>> => Continues(Lines(Base))'
  /\ \A n \in DOMAIN dir : Ends(dir, n) => Resumes(Lines(n))'

\* Resuming from the tail that was read continues what ends the log.
LEMMA TailResumeIsRight ==
  ASSUME ChainIInv, opening, opening' = opening, UNCHANGED <<dirs, content>>, Base \in DOMAIN dir,
         NEW n \in DOMAIN dir, resumeChainFromTail(n), lost' = NoMarker,
         \/ n = Base /\ Lines(Base) # <<>>
         \/ Lines(Base) = <<>> /\ n \in WithTail /\ n = Max(WithTail)
  PROVE  ResumeIsRight
  <1>1. markers \in Seq(Markers) /\ opening'
    BY DEF ChainIInv, SinkIsTyped
  <1>2. \A m : Lines(m)' = Lines(m)
    BY DEF Lines, dir
  <1>3. CASE Lines(n) # <<>>
    <2>1. seq' = Last(Lines(n)).seq /\ prevHMAC' = Last(Lines(n)).mac /\ markers' = <<>> \o markers
      BY <1>3 DEF resumeChainFromTail, Resumed
    <2>2. Last(Lines(n)) \in LineType
      BY <1>3, SeqsOfFile DEF ChainIInv
    <2>3. seq' \in Nat /\ prevHMAC' \in Nat /\ markers' \in Seq(Markers)
      BY <1>1, <2>1, <2>2, MarkersResumed DEF LineType
    <2>4. Continues(Lines(n))'
      BY <1>2, <2>1 DEF Continues
    <2>5. \A m \in DOMAIN dir : Ends(dir, m) => m = n
      BY <1>3, LastFile
    <2>6. Resumes(Lines(n))'
      BY <2>4 DEF Resumes
    <2>7. Lines(Base) # <<>> => n = Base
      OBVIOUS
    <2>8. QED
      BY <2>3, <2>4, <2>5, <2>6, <2>7 DEF ResumeIsRight
  <1>4. CASE Lines(n) = <<>>
    <2>1. seq' = 0 /\ prevHMAC' = Genesis /\ markers' = <<"tail_parse_failure">> \o markers
      BY <1>4 DEF resumeChainFromTail, Resumed
    <2>2. "tail_parse_failure" \in Markers
      BY DEF Markers, Resets
    <2>3. markers' \in Seq(Markers) /\ markers' # <<>> /\ Head(markers') = "tail_parse_failure"
      BY <1>1, <2>1, <2>2, MarkersResumed
    <2>4. Due' = "tail_parse_failure" /\ Due' \in Resets
      BY <1>1, <2>3 DEF Due, Resets
    <2>5. \A m : Resumes(Lines(m))'
      BY <2>4 DEF Resumes
    <2>6. Lines(Base) = <<>>
      BY <1>4
    <2>7. QED
      BY <2>1, <2>3, <2>5, <2>6 DEF ResumeIsRight, Genesis
  <1>5. QED
    BY <1>3, <1>4

\* So does the seed past the highest seq: whatever it is, the marker announces it.
LEMMA SeedPastDiskIsRight ==
  ASSUME ChainIInv, opening, opening' = opening, UNCHANGED <<dirs, content>>, Base \in DOMAIN dir,
         Lines(Base) = <<>>, SeedPastDisk, lost' = NoMarker
  PROVE  ResumeIsRight
  <1>1. PICK N : N = Max(WithTail)
    OBVIOUS
  <1>2. WithTail # {} /\ \E unread \in {{}, {N}} :
          \E bytes \in IF unread = {} THEN {0} ELSE Bytes(N) :
            Resumed(highestSeqAcrossChain(unread, bytes), Genesis,
                    <<IF SeqsIn(DOMAIN dir \ unread) = {} THEN "resume_residual" ELSE "resume_failed">>)
    BY <1>1 DEF SeedPastDisk
  <1>3. N \in WithTail
    <2>1. BoundedNats(DOMAIN dir)
      BY StatesOfDirs DEF ChainIInv, DiskIsTyped, IsDirectory
    <2>2. WithTail \subseteq DOMAIN dir
      BY DEF WithTail, siblings
    <2>3. BoundedNats(WithTail)
      BY <2>1, <2>2, PartIsBounded
    <2>4. QED
      BY <1>1, <1>2, <2>3, MaxIsGreatest
  <1>4. N \in DOMAIN dir
    BY <1>3 DEF WithTail, siblings
  <1>5. Len(Lines(N)) \in Nat
    BY <1>4, SeqsOfFile DEF ChainIInv
  <1>6. PICK unread \in {{}, {N}} : \E bytes \in IF unread = {} THEN {0} ELSE Bytes(N) :
            Resumed(highestSeqAcrossChain(unread, bytes), Genesis,
                    <<IF SeqsIn(DOMAIN dir \ unread) = {} THEN "resume_residual" ELSE "resume_failed">>)
    BY <1>2
  <1>7. PICK bytes \in IF unread = {} THEN {0} ELSE Bytes(N) :
            Resumed(highestSeqAcrossChain(unread, bytes), Genesis,
                    <<IF SeqsIn(DOMAIN dir \ unread) = {} THEN "resume_residual" ELSE "resume_failed">>)
    BY <1>6
  <1>8. PICK x \in {"resume_residual", "resume_failed"} :
           x = IF SeqsIn(DOMAIN dir \ unread) = {} THEN "resume_residual" ELSE "resume_failed"
    OBVIOUS
  <1>9. PICK top : top = Max(SeqsIn(DOMAIN dir \ unread) \cup {0})
    OBVIOUS
  <1>10. seq' = top + bytes /\ prevHMAC' = Genesis /\ markers' = <<x>> \o markers
    BY <1>7, <1>8, <1>9 DEF Resumed, highestSeqAcrossChain
  <1>11. bytes \in Nat
    BY <1>5, <1>7, ChainAssumption DEF Bytes
  <1>12. /\ top \in Nat
         /\ \A n \in DOMAIN dir \ unread : Lines(n) # <<>> => Last(Lines(n)).seq <= top
    <2>1. DOMAIN dir \ unread \subseteq DOMAIN dir
      OBVIOUS
    <2>2. QED
      BY <1>9, <2>1, SeedIsRead DEF ChainIInv
  <1>13. x \in Markers /\ x \in Resets
    BY <1>8 DEF Markers, Resets
  <1>14. markers' \in Seq(Markers) /\ markers' # <<>> /\ Head(markers') = x
    <2>1. markers \in Seq(Markers)
      BY DEF ChainIInv, SinkIsTyped
    <2>2. QED
      BY <1>10, <1>13, <2>1, MarkersResumed
  <1>15. Due' = x
    BY <1>14 DEF Due
  <1>16. \A m : Lines(m)' = Lines(m)
    BY DEF Lines, dir
  <1>17. ASSUME NEW n \in DOMAIN dir, Ends(dir, n)
         PROVE  \/ x = "resume_residual"
                \/ x = "resume_failed" /\ Restarts(Head(Lines(n)))
                \/ Last(Lines(n)).seq <= top + bytes
    <2>1. /\ Lines(n) # <<>> /\ n \in WithTail /\ n <= N /\ (Lines(N) # <<>> => n = N)
      BY <1>1, <1>17, LastFile
    <2>2. Last(Lines(n)).seq \in Nat
      BY <2>1, SeqsOfFile DEF ChainIInv, LineType
    <2>3. CASE n \notin unread
      <3>1. Last(Lines(n)).seq <= top
        BY <1>12, <2>1, <2>3
      <3>2. QED
        BY <1>11, <1>12, <2>2, <3>1
    <2>4. CASE n \in unread /\ x = "resume_failed" /\ ~Restarts(Head(Lines(n)))
      <3>1. n = N /\ unread = {N}
        BY <1>6, <2>4
      <3>2. bytes \in Bytes(N) /\ SeqsIn(DOMAIN dir \ {N}) # {}
        BY <1>7, <1>8, <2>4, <3>1
      <3>3. Last(Lines(N)).seq <= Max(SeqsIn(DOMAIN dir \ {N}) \cup {0}) + bytes
        BY <1>1, <1>3, <2>1, <2>4, <3>1, <3>2, UnreadIsPassed
      <3>4. QED
        BY <1>9, <3>1, <3>3
    <2>5. QED
      BY <1>8, <2>3, <2>4
  <1>18. ASSUME NEW n \in DOMAIN dir, Ends(dir, n) PROVE Resumes(Lines(n))'
    <2>1. PICK ls : ls = Lines(n)
      OBVIOUS
    <2>2. Resumes(ls)'
      BY <1>10, <1>13, <1>15, <1>17, <1>18, <2>1 DEF Resumes
    <2>3. QED
      BY <1>16, <2>1, <2>2 DEF Resumes, Continues
  <1>19. QED
    BY <1>10, <1>11, <1>12, <1>14, <1>18 DEF ResumeIsRight, Genesis

\* Open's choice of where the chain resumes.
LEMMA resolveStartupResumeKeeps ==
  ASSUME ChainIInv, resolveStartupResume
  PROVE  ChainIInv'
  <1>1. /\ step = "resume" /\ step' = "ready"
        /\ UNCHANGED <<dirs, content, synced, kept, pruned, macs, opening, lost, f, inFallback, filled, orphan, rotateOrdinal,
                       ordinalSeedUncertain>>
    BY DEF resolveStartupResume, diskVars, historyVars
  <1>2. /\ Base \in DOMAIN dir /\ dir[Base] = f /\ opening /\ ~inFallback /\ lost = NoMarker
        /\ \A d \in Range(dirs) : f \in Range(d) => d = dir
    BY <1>1 DEF ChainIInv, NamesAreRight, Rotating, DownIsQuiet
  <1>3. markers \in Seq(Markers)
    BY DEF ChainIInv, SinkIsTyped
  <1>4. \A m : Lines(m)' = Lines(m)
    BY <1>1 DEF Lines, dir
  <1>5. ResumeIsRight
    <2>1. CASE Lines(Base) # <<>> /\ resumeChainFromTail(Base)
      BY <1>1, <1>2, <2>1, TailResumeIsRight
    <2>2. CASE Lines(Base) = <<>> /\ WithTail # {} /\ resumeChainFromTail(Max(WithTail))
      <3>1. BoundedNats(DOMAIN dir)
        BY StatesOfDirs DEF ChainIInv, DiskIsTyped, IsDirectory
      <3>2. WithTail \subseteq DOMAIN dir
        BY DEF WithTail, siblings
      <3>3. PICK n \in WithTail : n = Max(WithTail)
        BY <2>2, <3>1, <3>2, PartIsBounded, MaxIsGreatest
      <3>4. n \in DOMAIN dir /\ resumeChainFromTail(n)
        BY <2>2, <3>2, <3>3
      <3>5. QED
        BY <1>1, <1>2, <2>2, <3>3, <3>4, TailResumeIsRight
    <2>3. CASE Lines(Base) = <<>> /\ WithTail = {} /\ Resumed(0, Genesis, <<>>)
      <3>1. seq' = 0 /\ prevHMAC' = 0 /\ markers' = <<>> \o markers
        BY <2>3 DEF Resumed, Genesis
      <3>2. markers' \in Seq(Markers)
        BY <1>3, <3>1, MarkersResumed
      <3>3. \A n \in DOMAIN dir : ~Ends(dir, n)
        BY <1>2, <2>3, LastFile
      <3>4. QED
        BY <2>3, <3>1, <3>2, <3>3 DEF ResumeIsRight
    <2>4. CASE Lines(Base) = <<>> /\ SeedPastDisk
      BY <1>1, <1>2, <2>4, SeedPastDiskIsRight
    <2>5. CASE Lines(Base) = <<>> /\ SeedUnbounded
      <3>1. seq' = 0 /\ prevHMAC' = 0 /\ markers' = <<"seed_unbounded">> \o markers
        BY <2>5 DEF SeedUnbounded, Resumed, Genesis
      <3>2. "seed_unbounded" \in Markers
        BY DEF Markers, Resets
      <3>3. markers' \in Seq(Markers) /\ markers' # <<>> /\ Head(markers') = "seed_unbounded"
        BY <1>3, <3>1, <3>2, MarkersResumed
      <3>4. Due' = "seed_unbounded" /\ Due' \in Resets
        BY <1>1, <1>2, <3>3 DEF Due, Resets
      <3>5. \A m : Resumes(Lines(m))'
        BY <3>4 DEF Resumes
      <3>6. QED
        BY <2>5, <3>1, <3>3, <3>5 DEF ResumeIsRight
    <2>6. QED
      BY <2>1, <2>2, <2>3, <2>4, <2>5 DEF resolveStartupResume
  <1>6. Settles
    BY <1>1, StillSettles DEF ChainIInv
  <1>7. DiskIsTyped' /\ FilesAreChains' /\ StatesAreSound' /\ dir' = dir
    BY <1>6, SettlingKeepsDisk, SettlingKeepsNames DEF ChainIInv
  <1>8. siblings' = siblings
    BY <1>7 DEF siblings
  <1>9. LiveIsLast'
    BY <1>1 DEF ChainIInv, LiveIsLast, LinesIn
  <1>10. HeadIsRight'
    <2>1. (content[f].lines # <<>> => Continues(content[f].lines))'
      <3>1. Lines(Base) = content[f].lines /\ content'[f'].lines = content[f].lines
        BY <1>1, <1>2 DEF Lines
      <3>2. Lines(Base)' = content'[f'].lines
        BY <1>4, <3>1
      <3>3. Lines(Base) # <<>> => seq' = Last(Lines(Base)').seq /\ prevHMAC' = Last(Lines(Base)').mac
        BY <1>5 DEF ResumeIsRight, Continues
      <3>4. QED
        BY <3>1, <3>2, <3>3 DEF Continues
    <2>2. ASSUME NEW d \in Range(dirs), f \in Range(d), NEW n \in DOMAIN d, Ends(d, n)'
          PROVE  Resumes(LinesIn(d, n))'
      <3>1. d = dir
        BY <1>2, <2>2
      <3>2. Ends(dir, n)
        BY <1>1, <2>2, <3>1 DEF Ends, LinesIn
      <3>3. Resumes(Lines(n))'
        BY <1>5, <2>2, <3>1, <3>2 DEF ResumeIsRight
      <3>4. Lines(n)' = LinesIn(d, n)'
        BY <1>1, <1>7, <3>1 DEF Lines, LinesIn
      <3>5. QED
        BY <3>3, <3>4 DEF Resumes, Continues
    <2>3. QED
      BY <1>1, <2>1, <2>2 DEF HeadIsRight
  <1>11. SinkIsTyped'
    BY <1>1, <1>5 DEF ChainIInv, SinkIsTyped, ResumeIsRight
  <1>12. NamesAreRight'
    BY <1>1, <1>2, <1>7, <1>8 DEF ChainIInv, NamesAreRight, Rotating
  <1>13. RotatedIsDurable' /\ MarkersAreDue' /\ FragmentIsKnown' /\ DownIsQuiet'
    BY <1>1 DEF ChainIInv, RotatedIsDurable, MarkersAreDue, Rotating, FragmentIsKnown, DownIsQuiet
  <1>14. QED
    BY <1>7, <1>9, <1>10, <1>11, <1>12, <1>13 DEF ChainIInv

-----------------------------------------------------------------------------

\* The three facts the theorem rests on: the invariant holds at first, every step keeps it,
\* and it implies the property.
LEMMA ChainStarts == ChainInit => ChainIInv
  <1> SUFFICES ASSUME ChainInit PROVE ChainIInv
    OBVIOUS
  <1>1. PICK d : d = [n \in {} |-> NoFile]
    OBVIOUS
  <1>2. dirs = <<d>> /\ DOMAIN d = {} /\ DOMAIN content = {} /\ DOMAIN synced = {}
    BY <1>1 DEF ChainInit
  <1>3. Range(dirs) = {d} /\ Len(dirs) = 1 /\ dirs # <<>> /\ dirs \in Seq({d})
    BY <1>2 DEF Range
  <1>4. BoundedNats({})
    BY DEF BoundedNats
  <1>5. DiskIsTyped /\ FilesAreChains
    BY <1>2, <1>3, <1>4 DEF DiskIsTyped, IsDirectory, FilesAreChains
  <1>6. StatesAreSound
    BY <1>2, <1>3 DEF ChainInit, StatesAreSound, StateIsChained, StateKeeps
  <1>7. SinkIsTyped
    <2>1. markers \in Seq(Markers)
      BY DEF ChainInit
    <2>2. QED
      BY <2>1 DEF ChainInit, SinkIsTyped, Genesis
  <1>8. NamesAreRight /\ LiveIsLast /\ RotatedIsDurable /\ FragmentIsKnown /\ MarkersAreDue /\ HeadIsRight
    BY DEF ChainInit, NamesAreRight, LiveIsLast, RotatedIsDurable, FragmentIsKnown, MarkersAreDue, HeadIsRight, Rotating
  <1>9. DownIsQuiet
    BY <1>2, <1>3 DEF ChainInit, DownIsQuiet
  <1>10. QED
    BY <1>5, <1>6, <1>7, <1>8, <1>9 DEF ChainIInv

LEMMA ChainStutters ==
  ASSUME ChainIInv, UNCHANGED logVars
  PROVE  ChainIInv'
  <1>1. UNCHANGED <<dirs, content, synced, step, opening, markers, marked, lost, f, inFallback, seq, prevHMAC, filled, orphan,
                    rotateOrdinal, ordinalSeedUncertain, fresh, macs, kept, pruned>>
    BY DEF logVars
  <1>2. DiskIsTyped' /\ FilesAreChains' /\ StatesAreSound' /\ dir' = dir
    BY <1>1, StillSettles, SettlingKeepsDisk, SettlingKeepsNames DEF ChainIInv
  <1>3. siblings' = siblings
    BY <1>2 DEF siblings
  <1>4. SinkIsTyped' /\ NamesAreRight' /\ RotatedIsDurable' /\ DownIsQuiet' /\ FragmentIsKnown' /\ MarkersAreDue'
    <2>1. SinkIsTyped'
      BY <1>1 DEF ChainIInv, SinkIsTyped
    <2>2. NamesAreRight'
      BY <1>1, <1>2, <1>3 DEF ChainIInv, NamesAreRight
    <2>3. RotatedIsDurable' /\ FragmentIsKnown' /\ MarkersAreDue'
      BY <1>1 DEF ChainIInv, RotatedIsDurable, FragmentIsKnown, MarkersAreDue
    <2>4. DownIsQuiet'
      BY <1>1, <1>2 DEF ChainIInv, DownIsQuiet
    <2>5. QED
      BY <2>1, <2>2, <2>3, <2>4
  <1>5. LiveIsLast'
    BY <1>1 DEF ChainIInv, LiveIsLast, LinesIn
  <1>6. HeadIsRight'
    <2>1. \A d, n : (Ends(d, n)' <=> Ends(d, n)) /\ LinesIn(d, n)' = LinesIn(d, n)
      BY <1>1 DEF Ends, LinesIn
    <2>2. \A d, n : Resumes(LinesIn(d, n))' <=> Resumes(LinesIn(d, n))
      BY <1>1, <2>1 DEF Resumes, Continues, Due
    <2>3. QED
      BY <1>1, <2>1, <2>2 DEF ChainIInv, HeadIsRight, Continues
  <1>7. QED
    BY <1>2, <1>4, <1>5, <1>6 DEF ChainIInv

LEMMA ChainSteps ==
  ASSUME ChainIInv, [ChainNext]_logVars
  PROVE  ChainIInv'
  <1>1. CASE OpenLog
    BY <1>1, OpenExistingKeeps, OpenFreshKeeps, resolveStartupResumeKeeps, FinishOpenKeeps, StartupSyncKeeps DEF OpenLog
  <1>2. CASE writeLine
    BY <1>2, repairTailOrphanKeeps, RepairFailsKeeps, beginWriteKeeps, AppendLineKeeps, AppendFailsKeeps DEF writeLine
  <1>3. CASE SyncTail
    BY <1>3, SyncTailKeeps
  <1>4. CASE rotate
    BY <1>4, RenameFailsKeeps, RenameKeeps, SyncRenameKeeps, SyncRotatedKeeps, FallbackKeeps, OpenNewBaseKeeps,
       swapToFreshBaseKeeps DEF rotate
  <1>5. CASE prunePass
    BY <1>5, RemoveOldestKeeps, EndPruneKeeps DEF prunePass
  <1>6. CASE Crash
    BY <1>6, CrashKeeps
  <1>7. CASE UNCHANGED logVars
    BY <1>7, ChainStutters
  <1>8. QED
    BY <1>1, <1>2, <1>3, <1>4, <1>5, <1>6, <1>7 DEF ChainNext

\* The invariant is enough.
LEMMA ChainIsSound == ChainIInv => ChainSurvives
  <1> SUFFICES ASSUME ChainIInv PROVE ChainSurvives
    OBVIOUS
  <1>1. dir \in Range(dirs) /\ StateIsChained(dir) /\ StateKeeps(dir) /\ IsDirectory(dir)
    BY StatesOfDirs DEF ChainIInv, StatesAreSound, DiskIsTyped
  <1>2. \A n : LinesIn(dir, n) = Lines(n)
    BY DEF LinesIn, Lines
  <1>3. ASSUME NEW n \in DOMAIN dir
        PROVE  /\ \A i \in 1 .. Len(Lines(n)) : Lines(n)[i].kind # "fused"
               /\ \A i \in 1 .. Len(Lines(n)) - 1 : Linked(Lines(n)[i], Lines(n)[i + 1])
    <2>1. dir[n] \in DOMAIN content
      BY <1>1 DEF IsDirectory
    <2>2. PICK ls \in Seq(LineType) : ls = Lines(n)
      BY <2>1 DEF ChainIInv, DiskIsTyped, Lines
    <2>3. \A j \in 1 .. Len(ls) : /\ ls[j].kind # "fused" /\ ls[j].seq = ls[1].seq + (j - 1)
                                  /\ j > 1 => ls[j].prev = ls[j - 1].mac
      BY <2>1, <2>2 DEF ChainIInv, FilesAreChains, Lines
    <2>4. ASSUME NEW i \in 1 .. Len(ls) - 1 PROVE Linked(ls[i], ls[i + 1])
      <3>1. Len(ls) \in Nat /\ i \in 1 .. Len(ls) /\ i + 1 \in 1 .. Len(ls) /\ i + 1 > 1 /\ (i + 1) - 1 = i /\ 1 \in 1 .. Len(ls)
        BY <2>2
      <3>2. PICK p \in Nat : p = ls[1].seq
        <4>1. ls[1] \in LineType
          BY <3>1
        <4>2. QED
          BY <4>1 DEF LineType
      <3>3. ls[i].seq = p + (i - 1) /\ ls[i + 1].seq = p + i
        BY <2>3, <3>1, <3>2
      <3>4. ls[i + 1].seq = ls[i].seq + 1
        <4>1. i \in Int /\ p + i = (p + (i - 1)) + 1
          BY <3>1
        <4>2. QED
          BY <3>3, <4>1
      <3>5. ls[i + 1].prev = ls[i].mac
        BY <2>3, <3>1
      <3>6. QED
        BY <3>4, <3>5 DEF Linked
    <2>5. QED
      BY <2>2, <2>3, <2>4
  <1>4. \A a, b \in DOMAIN dir : Meet(dir, a, b) => Follows(Lines(a), Head(Lines(b)))
    BY <1>1, <1>2 DEF StateIsChained
  <1>5. ChainHolds
    BY <1>3, <1>4 DEF ChainHolds, Follows
  <1>6. SeqsIncrease
    BY <1>4 DEF SeqsIncrease, Follows
  <1>7. ASSUME NEW l \in kept, l \notin pruned PROVE \E n \in DOMAIN dir : l \in Range(Lines(n))
    <2>1. PICK n \in DOMAIN dir : \E j \in 1 .. synced[dir[n]] : Lines(n)[j] = l
      BY <1>1, <1>2, <1>7 DEF StateKeeps
    <2>2. dir[n] \in DOMAIN content
      BY <1>1 DEF IsDirectory
    <2>3. Lines(n) \in Seq(LineType) /\ synced[dir[n]] \in 0 .. Len(Lines(n)) /\ Len(Lines(n)) \in Nat
      BY <2>2 DEF ChainIInv, DiskIsTyped, Lines
    <2>4. PICK j \in 1 .. Len(Lines(n)) : Lines(n)[j] = l
      BY <2>1, <2>3
    <2>5. QED
      BY <2>3, <2>4 DEF Range
  <1>8. SyncedRecordsSurvive
    BY <1>7 DEF SyncedRecordsSurvive
  <1>9. QED
    BY <1>5, <1>6, <1>8 DEF ChainSurvives

\* ChainInvariant.  Whatever writes, rotations, retention passes, fsyncs, failures and crashes
\* audit.Sink goes through, the log on disk and the sink's head of the chain stay as
\* ChainIInv says, provided that the markers Open writes are written.
THEOREM ChainInvariant == ChainSpec => []ChainIInv
  <1>1. ChainIInv /\ [ChainNext]_logVars => ChainIInv'
    BY ChainSteps
  <1>2. QED
    BY <1>1, ChainStarts, PTL DEF ChainSpec

\* ChainAlwaysSurvives.  The tape in the directory stays one chain over files, rotations and
\* restarts: it breaks only where Open reset it, which a marker announces unless the one
\* write of the marker failed.  No record is fused onto the fragment that a crash or a failed
\* write left, no seq recurs but after a reset that could not bound it, and no record that an
\* fsync covered is lost.
THEOREM ChainAlwaysSurvives == ChainSpec => []ChainSurvives
  BY ChainInvariant, ChainIsSound, PTL

\* ChainSurvivesVerification.  A pass of audit-verify reads without a lock and writes nothing:
\* a log that is being verified goes through no step that it would not go through otherwise
\* (verifyOneTape), so the chain survives beside it, too.
THEOREM ChainSurvivesVerification == VerifySpec => []ChainSurvives
  <1>1. VerifyInit => ChainInit
    BY DEF VerifyInit
  <1>2. [VerifyNext]_verifyVars => [ChainNext]_logVars
    BY DEF VerifyNext, verifyVars, SinkGoesOn, audit_verify, ListFiles, PinBase, lazyFileReader, FileGone,
           CheckFiles, CheckBase
  <1>3. VerifySpec => ChainSpec
    BY <1>1, <1>2, PTL DEF VerifySpec, ChainSpec
  <1>4. QED
    BY <1>3, ChainAlwaysSurvives, PTL

=============================================================================
