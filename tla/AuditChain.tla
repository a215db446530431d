------------------------------ MODULE AuditChain ------------------------------
(***************************************************************************)
(* The on-disk half of the audit sink (internal/audit/audit.go, rotate.go, *)
(* resume.go): one writer appends signed, linked records to a base file,   *)
(* rotates it to a numbered sibling when it is full, prunes the oldest     *)
(* siblings, and after a crash resumes the chain from what is on disk.     *)
(*                                                                         *)
(* The file system is external.  A line survives a crash for sure only     *)
(* once an fsync of its file has returned; of the rest any prefix does,    *)
(* possibly with a torn fragment behind it.  Renames, creations and        *)
(* removals survive in order, and for sure once the directory is synced.   *)
(* FsyncCommitsDir says whether an fsync of a file commits the directory   *)
(* changes before it, as journalling file systems do; POSIX does not ask   *)
(* it.  A failed fsync changes nothing and a later one may succeed.        *)
(*                                                                         *)
(* A line is its seq, its prev_hmac, its own _hmac (a number nobody else   *)
(* has) and its kind.  Sizes are counted in lines.  The log and its key    *)
(* stay readable by the process and nobody else writes the files.          *)
(***************************************************************************)
EXTENDS Integers, Sequences, FiniteSets, FiniteSetsExt, SequencesExt

CONSTANTS
  MaxPerFile,       \* rotateSizeBytes, in lines
  Retain,           \* retainRotated; 0 keeps every sibling
  FsyncCommitsDir,
  MaxSlack,         \* bound: bytes of an unread file beyond one for each of its lines
  MaxLines,         \* bound: lines written
  MaxDiskFaults,    \* bound: operations that fail
  MaxCrashes        \* bound: crashes

ASSUME ChainAssumption ==
  /\ MaxPerFile \in Nat \ {0} /\ Retain \in Nat /\ FsyncCommitsDir \in BOOLEAN
  /\ MaxSlack \in Nat /\ MaxLines \in Nat /\ MaxDiskFaults \in Nat /\ MaxCrashes \in Nat

VARIABLES
  \* The disk.
  dirs,        \* directory states since the last durable one; the last is current
  content,     \* per file: its lines, and whether a fragment follows them
  synced,      \* per file: how many lines an fsync has covered
  \* The sink, gone in a crash.
  step,        \* the next step
  opening,     \* TRUE while Open runs
  markers,     \* integrity markers Open has still to write
  marked,      \* Open has had markers to write
  lost,        \* history: the marker of a reset that failed to be written, until a line is
  f,           \* the file the descriptor is on
  inFallback,  \* f is a rotated sibling because no fresh base could be opened
  seq, prevHMAC,
  filled,      \* lines counted towards the rotation threshold
  orphan,      \* tailOrphanBytes > 0
  rotateOrdinal, ordinalSeedUncertain,
  fresh,       \* the base file opened by a rotation that has not swapped yet
  \* Bounds and history.
  macs,        \* MACs issued; a line's own is its number
  diskFaults, crashes,
  kept,        \* lines that an fsync has covered in a file whose name is durable
  pruned       \* lines removed by retention

diskVars == <<dirs, content, synced>>
chainVars == <<seq, prevHMAC, macs>>
sinkVars == <<opening, markers, marked, lost, f, inFallback, filled, orphan, rotateOrdinal,
              ordinalSeedUncertain, fresh>>
historyVars == <<kept, pruned>>
logVars == <<dirs, content, synced, step, opening, markers, marked, lost, f, inFallback, seq, prevHMAC,
             filled, orphan, rotateOrdinal, ordinalSeedUncertain, fresh, macs, diskFaults, crashes,
             kept, pruned>>

Base == 0            \* the configured path; siblings are named by their ordinal
NoFile == 0
Genesis == 0         \* auditGenesisPrev
NoMarker == "none"
EmptyFile == [lines |-> <<>>, torn |-> FALSE]

dir == Last(dirs)
siblings == DOMAIN dir \ {Base}
sortedRotatedSiblings == SetToSortSeq(siblings, LAMBDA a, b : a < b)
Lines(n) == content[dir[n]].lines

ChainInit ==
  /\ dirs = <<[n \in {} |-> NoFile]>>
  /\ content = [i \in {} |-> EmptyFile] /\ synced = [i \in {} |-> 0]
  /\ step = "down" /\ opening = FALSE /\ markers = <<>> /\ marked = FALSE /\ lost = NoMarker
  /\ f = NoFile /\ inFallback = FALSE /\ seq = 0 /\ prevHMAC = Genesis /\ filled = 0
  /\ orphan = FALSE /\ rotateOrdinal = 0 /\ ordinalSeedUncertain = FALSE /\ fresh = NoFile
  /\ macs = 0 /\ diskFaults = 0 /\ crashes = 0 /\ kept = {} /\ pruned = {}

DiskFault == diskFaults < MaxDiskFaults /\ diskFaults' = diskFaults + 1

(***************************************************************************)
(* File operations.                                                        *)
(***************************************************************************)
NewFile == Max(DOMAIN content \cup {NoFile}) + 1
Without(g, k) == [n \in DOMAIN g \ {k} |-> g[n]]
With(g, k, v) == [n \in DOMAIN g \cup {k} |-> IF n = k THEN v ELSE g[n]]

ChangeDir(d) == dirs' = Append(dirs, d)
CreateBase ==
  /\ ChangeDir(With(dir, Base, NewFile))
  /\ content' = With(content, NewFile, EmptyFile)
  /\ synced' = With(synced, NewFile, 0)

\* syncLogDir is best effort: a failure is a warning.
syncLogDir ==
  \/ dirs' = <<dir>> /\ UNCHANGED diskFaults
  \/ DiskFault /\ UNCHANGED dirs

\* os.File.Sync on the descriptor.
SyncFile ==
  /\ synced' = [synced EXCEPT ![f] = Len(content[f].lines)]
  /\ dirs' = IF FsyncCommitsDir THEN <<dir>> ELSE dirs
  /\ kept' = IF \A k \in DOMAIN dirs' : f \in Range(dirs'[k])
             THEN kept \cup Range(content[f].lines) ELSE kept
  /\ UNCHANGED <<content, pruned>>

(***************************************************************************)
(* Open.                                                                   *)
(***************************************************************************)
SeqsIn(names) == UNION {{l.seq : l \in Range(Lines(n))} : n \in names}

\* highestSeqAcrossChain: the highest seq that was read, and one more for every byte of a
\* file that could not be.
highestSeqAcrossChain(unread, bytes) == Max(SeqsIn(DOMAIN dir \ unread) \cup {0}) + bytes

\* What a file may take on disk: a byte for each line, or more.
Bytes(n) == Len(Lines(n)) .. Len(Lines(n)) + MaxSlack

\* The siblings that are not empty; the newest decides the resume of an empty base.
WithTail == {n \in siblings : Lines(n) # <<>> \/ content[dir[n]].torn}

\* Where Open's resume ends up: the seq and MAC to continue from, and the markers
\* to write, one about the resume and one about a fragment dropped from the base.
Resumed(s, mac, ms) ==
  /\ seq' = s /\ prevHMAC' = mac
  /\ markers' = ms \o markers /\ marked' = (markers' # <<>>)

\* The newest sibling cannot be read, at first or at all.  "resume_residual" is
\* the same record as "resume_failed", in a chain no file of which can be read.
SeedPastDisk ==
  /\ WithTail # {} /\ DiskFault
  /\ \E unread \in {{}, {Max(WithTail)}} :
       \E bytes \in IF unread = {} THEN {0} ELSE Bytes(Max(WithTail)) :
         Resumed(highestSeqAcrossChain(unread, bytes), Genesis,
                 <<IF SeqsIn(DOMAIN dir \ unread) = {} THEN "resume_residual" ELSE "resume_failed">>)

\* The directory cannot be listed: only the (empty) base bounds the seed.
SeedUnbounded == Resumed(0, Genesis, <<"seed_unbounded">>) /\ DiskFault

\* resumeChainFromTail, on the last line of file n.  A file that is one fragment
\* has its fragment for a last line, which does not parse.
resumeChainFromTail(n) ==
  /\ UNCHANGED diskFaults
  /\ IF Lines(n) = <<>>
     THEN Resumed(0, Genesis, <<"tail_parse_failure">>)
     ELSE Resumed(Last(Lines(n)).seq, Last(Lines(n)).mac, <<>>)

\* An empty base sends the resume to the newest sibling that is not empty.
resolveStartupResume ==
  /\ step = "resume" /\ step' = "ready"
  /\ \/ Lines(Base) # <<>> /\ resumeChainFromTail(Base)
     \/ Lines(Base) = <<>> /\ WithTail # {} /\ resumeChainFromTail(Max(WithTail))
     \/ Lines(Base) = <<>> /\ WithTail = {} /\ Resumed(0, Genesis, <<>>) /\ UNCHANGED diskFaults
     \/ Lines(Base) = <<>> /\ SeedPastDisk
     \/ Lines(Base) = <<>> /\ SeedUnbounded
  /\ UNCHANGED <<diskVars, macs, opening, lost, f, inFallback, filled, orphan, rotateOrdinal,
                 ordinalSeedUncertain, fresh, crashes, historyVars>>

\* maxRotatedOrdinal, from the names in the directory, unless it cannot be listed.
SeedOrdinal ==
  \/ rotateOrdinal' = Max(siblings \cup {0}) /\ ordinalSeedUncertain' = FALSE /\ UNCHANGED diskFaults
  \/ rotateOrdinal' = 0 /\ ordinalSeedUncertain' = TRUE /\ DiskFault

\* truncatePartialTail on the base.
DropFragment(i) == content' = [content EXCEPT ![i].torn = FALSE]

Opened(i, lines, torn) ==
  /\ step = "down" /\ step' = "resume" /\ opening' = TRUE
  /\ f' = i /\ filled' = lines
  /\ markers' = IF torn THEN <<"recovered">> ELSE <<>>
  /\ SeedOrdinal
  /\ UNCHANGED <<marked, lost, inFallback, seq, prevHMAC, orphan, fresh, macs, crashes, historyVars>>

OpenExisting ==
  /\ Base \in DOMAIN dir
  /\ Opened(dir[Base], Len(Lines(Base)), content[dir[Base]].torn)
  /\ DropFragment(dir[Base])
  /\ UNCHANGED <<dirs, synced>>

OpenFresh ==
  /\ Base \notin DOMAIN dir
  /\ Opened(NewFile, 0, FALSE)
  /\ CreateBase

\* Markers are fsynced before Open returns; retention runs in any case.
FinishOpen ==
  /\ step = "ready" /\ opening /\ markers = <<>>
  /\ step' = IF marked THEN "startup sync" ELSE "prune"
  /\ UNCHANGED <<diskVars, chainVars, sinkVars, diskFaults, crashes, historyVars>>

StartupSync ==
  /\ step = "startup sync" /\ step' = "prune"
  /\ \/ SyncFile /\ UNCHANGED diskFaults
     \/ DiskFault /\ UNCHANGED <<diskVars, historyVars>>
  /\ UNCHANGED <<chainVars, sinkVars, crashes>>

(***************************************************************************)
(* writeRecord.                                                            *)
(***************************************************************************)
Wanted == IF opening THEN markers # <<>> ELSE macs < MaxLines

Consume == markers' = IF opening THEN Tail(markers) ELSE markers

\* The marker the next line is, or stands in place of.
Resets == {"resume_failed", "resume_residual", "seed_unbounded", "tail_parse_failure"}
Due ==
  IF lost # NoMarker THEN lost
  ELSE IF opening /\ markers # <<>> THEN Head(markers) ELSE NoMarker

\* The record, or the marker, is refused: Open writes a marker once and goes on without it.
Refused == Consume /\ lost' = IF Due \in Resets THEN Due ELSE lost

\* repairTailOrphan, retried ahead of every record until it succeeds.
repairTailOrphan ==
  /\ step = "ready" /\ Wanted /\ orphan
  /\ content' = [content EXCEPT ![f].torn = FALSE]
  /\ orphan' = FALSE
  /\ UNCHANGED <<dirs, synced, chainVars, step, opening, markers, marked, lost, f, inFallback, filled,
                 rotateOrdinal, ordinalSeedUncertain, fresh, diskFaults, crashes, historyVars>>

\* The repair fails again and the record is refused.
RepairFails ==
  /\ step = "ready" /\ Wanted /\ orphan /\ DiskFault
  /\ Refused
  /\ UNCHANGED <<diskVars, chainVars, step, opening, marked, f, inFallback, filled, orphan,
                 rotateOrdinal, ordinalSeedUncertain, fresh, crashes, historyVars>>

CleanTail == ~orphan

\* rotate() is entered when the line would not fit.
beginWrite ==
  /\ step = "ready" /\ Wanted /\ CleanTail
  /\ step' = IF filled < MaxPerFile THEN "append" ELSE IF inFallback THEN "sync" ELSE "rename"
  /\ UNCHANGED <<diskVars, chainVars, sinkVars, diskFaults, crashes, historyVars>>

Line ==
  [seq |-> seq + 1, prev |-> prevHMAC, mac |-> macs + 1,
   kind |-> IF opening THEN Head(markers) ELSE "record", lost |-> lost]

\* Bytes behind a fragment fuse with it into one line that nobody can parse.
Fused == [seq |-> 0, prev |-> Genesis, mac |-> macs + 1, kind |-> "fused", lost |-> lost]
AppendTo(c) ==
  [lines |-> Append(c.lines, IF c.torn THEN Fused ELSE Line), torn |-> FALSE]

AppendLine ==
  /\ step = "append" /\ step' = "ready"
  /\ content' = [content EXCEPT ![f] = AppendTo(@)]
  /\ seq' = seq + 1 /\ prevHMAC' = macs + 1 /\ macs' = macs + 1
  /\ filled' = filled + 1
  /\ Consume /\ lost' = NoMarker
  /\ UNCHANGED <<dirs, synced, opening, marked, f, inFallback, orphan, rotateOrdinal,
                 ordinalSeedUncertain, fresh, diskFaults, crashes, historyVars>>

\* The write fails.  A fragment of it may stay behind when it cannot be
\* truncated at once; the chain head does not move.
AppendFails ==
  /\ step = "append" /\ step' = "ready" /\ DiskFault
  /\ \/ UNCHANGED <<content, orphan>>
     \/ content' = [content EXCEPT ![f].torn = TRUE] /\ orphan' = TRUE
  /\ Refused
  /\ UNCHANGED <<dirs, synced, chainVars, opening, marked, f, inFallback, filled,
                 rotateOrdinal, ordinalSeedUncertain, fresh, crashes, historyVars>>

\* The drainer's fsync of the tail (count bound, timer or Close).
SyncTail ==
  /\ step = "ready" /\ ~opening /\ synced[f] < Len(content[f].lines)
  /\ SyncFile
  /\ UNCHANGED <<chainVars, step, sinkVars, diskFaults, crashes>>

(***************************************************************************)
(* rotate.                                                                 *)
(***************************************************************************)
rotateBackoffWritten == MaxPerFile - 1

\* A rotation that cannot go on: the record is appended to the file at hand.
GiveUpRotation ==
  /\ DiskFault /\ step' = "append" /\ filled' = rotateBackoffWritten
  /\ UNCHANGED <<diskVars, chainVars, opening, markers, marked, lost, f, inFallback, orphan, fresh,
                 crashes, historyVars>>

\* rotatedPath: one past every sibling.
NextOrdinal ==
  (IF ordinalSeedUncertain THEN Max(siblings \cup {rotateOrdinal}) ELSE rotateOrdinal) + 1

\* The ordinal was not seeded and still cannot be, or the rename is refused.
RenameFails ==
  /\ step = "rename" /\ GiveUpRotation
  /\ \/ ordinalSeedUncertain /\ UNCHANGED <<rotateOrdinal, ordinalSeedUncertain>>
     \/ rotateOrdinal' = NextOrdinal /\ ordinalSeedUncertain' = FALSE

Rename ==
  /\ step = "rename" /\ step' = "sync directory"
  /\ ChangeDir(With(Without(dir, Base), NextOrdinal, f))
  /\ rotateOrdinal' = NextOrdinal /\ ordinalSeedUncertain' = FALSE
  /\ UNCHANGED <<content, synced, chainVars, opening, markers, marked, lost, f, inFallback, filled,
                 orphan, fresh, diskFaults, crashes, historyVars>>

SyncRename ==
  /\ step = "sync directory" /\ step' = "sync"
  /\ syncLogDir
  /\ UNCHANGED <<content, synced, chainVars, sinkVars, crashes, historyVars>>

\* Both rotateAttempt and retryRotateReopen fsync the old file before a new
\* base may exist.
SyncRotated ==
  /\ step = "sync" /\ step' = "create"
  /\ SyncFile
  /\ UNCHANGED <<chainVars, sinkVars, diskFaults, crashes>>

\* The failed fsync is logged and the rotation goes on.
SyncFailsUnheeded ==
  /\ step = "sync" /\ DiskFault /\ step' = "create"
  /\ UNCHANGED <<diskVars, chainVars, sinkVars, crashes, historyVars>>

\* Entering the fallback, or staying in it, until the tail is durable.
SyncRotatedFails ==
  /\ step = "sync" /\ DiskFault
  /\ inFallback' = TRUE /\ filled' = rotateBackoffWritten
  /\ step' = IF inFallback THEN "append" ELSE "prune"
  /\ UNCHANGED <<diskVars, chainVars, opening, markers, marked, lost, f, orphan, rotateOrdinal,
                 ordinalSeedUncertain, fresh, crashes, historyVars>>

OpenNewBase ==
  /\ step = "create" /\ step' = "swap"
  /\ CreateBase /\ fresh' = NewFile
  /\ UNCHANGED <<chainVars, opening, markers, marked, lost, f, inFallback, filled, orphan,
                 rotateOrdinal, ordinalSeedUncertain, diskFaults, crashes, historyVars>>

OpenNewBaseFails ==
  /\ step = "create" /\ DiskFault
  /\ inFallback' = TRUE /\ filled' = rotateBackoffWritten
  /\ step' = IF inFallback THEN "append" ELSE "prune"
  /\ UNCHANGED <<diskVars, chainVars, opening, markers, marked, lost, f, orphan, rotateOrdinal,
                 ordinalSeedUncertain, fresh, crashes, historyVars>>

swapToFreshBase ==
  /\ step = "swap" /\ step' = "prune"
  /\ syncLogDir
  /\ f' = fresh /\ fresh' = NoFile /\ inFallback' = FALSE /\ filled' = 0
  /\ UNCHANGED <<content, synced, chainVars, opening, markers, marked, lost, orphan, rotateOrdinal,
                 ordinalSeedUncertain, crashes, historyVars>>

(***************************************************************************)
(* prunePass.                                                              *)
(***************************************************************************)
\* The live file of a fallback is not a closed sibling.
Closed == {n \in siblings : dir[n] # f}
OverRetention == Retain > 0 /\ Cardinality(Closed) > Retain

AfterPrune == IF opening /\ markers = <<>> THEN "ready" ELSE "append"
EndPrune ==
  /\ step' = AfterPrune
  /\ opening' = (opening /\ markers # <<>>)
  /\ UNCHANGED <<markers, marked, lost, f, inFallback, filled, orphan, rotateOrdinal,
                 ordinalSeedUncertain, fresh, chainVars, crashes>>

RemoveOldest ==
  /\ step = "prune" /\ OverRetention
  /\ ChangeDir(Without(dir, Min(Closed)))
  /\ pruned' = pruned \cup Range(Lines(Min(Closed)))
  /\ UNCHANGED <<content, synced, step, sinkVars, chainVars, diskFaults, crashes, kept>>

\* The pass stops at the first removal that fails, to keep the rest contiguous.
RemoveFails ==
  /\ step = "prune" /\ OverRetention /\ DiskFault
  /\ EndPrune
  /\ UNCHANGED <<diskVars, historyVars>>

PruneDone ==
  /\ step = "prune" /\ ~OverRetention
  /\ EndPrune
  /\ UNCHANGED <<diskVars, diskFaults, historyVars>>

(***************************************************************************)
(* A crash, of the process or of the machine.                              *)
(***************************************************************************)
Survivors(i) ==
  {c \in [lines : {SubSeq(content[i].lines, 1, k) : k \in synced[i] .. Len(content[i].lines)},
          torn : BOOLEAN] :
     c.torn => content[i].torn \/ Len(c.lines) < Len(content[i].lines)}

Crash ==
  /\ step # "down" /\ crashes < MaxCrashes /\ crashes' = crashes + 1
  /\ \E k \in DOMAIN dirs :
       LET left == Range(dirs[k]) IN
         /\ dirs' = <<dirs[k]>>
         /\ content' \in {c \in [left -> UNION {Survivors(i) : i \in left}] :
                            \A i \in left : c[i] \in Survivors(i)}
         /\ synced' = [i \in left |-> Len(content'[i].lines)]
  /\ step' = "down" /\ opening' = FALSE /\ markers' = <<>> /\ marked' = FALSE /\ lost' = NoMarker
  /\ f' = NoFile /\ inFallback' = FALSE /\ seq' = 0 /\ prevHMAC' = Genesis /\ filled' = 0
  /\ orphan' = FALSE /\ rotateOrdinal' = 0 /\ ordinalSeedUncertain' = FALSE /\ fresh' = NoFile
  /\ UNCHANGED <<macs, diskFaults, historyVars>>

writeLine == repairTailOrphan \/ RepairFails \/ beginWrite \/ AppendLine \/ AppendFails
rotate ==
  \/ RenameFails \/ Rename \/ SyncRename \/ SyncRotated \/ SyncRotatedFails
  \/ OpenNewBase \/ OpenNewBaseFails \/ swapToFreshBase
prunePass == RemoveOldest \/ RemoveFails \/ PruneDone
OpenLog == OpenExisting \/ OpenFresh \/ resolveStartupResume \/ FinishOpen \/ StartupSync

ChainNext == OpenLog \/ writeLine \/ SyncTail \/ rotate \/ prunePass \/ Crash

ChainSpec == ChainInit /\ [][ChainNext]_logVars
-------------------------------------------------------------------------------
Markers == Resets \cup {"recovered"}
Kinds == Markers \cup {"record", "fused"}
LineType == [seq : Nat, prev : Nat, mac : Nat, kind : Kinds, lost : Resets \cup {NoMarker}]

ChainTypeOK ==
  /\ \A k \in DOMAIN dirs : \A n \in DOMAIN dirs[k] : dirs[k][n] \in DOMAIN content
  /\ \A i \in DOMAIN content : content[i].lines \in Seq(LineType) /\ content[i].torn \in BOOLEAN
  /\ DOMAIN synced = DOMAIN content
  /\ \A i \in DOMAIN synced : synced[i] \in 0 .. Len(content[i].lines)
  /\ step \in {"down", "resume", "ready", "startup sync", "append", "rename", "sync directory", "sync",
             "create", "swap", "prune"}
  /\ opening \in BOOLEAN /\ marked \in BOOLEAN /\ inFallback \in BOOLEAN /\ orphan \in BOOLEAN
  /\ markers \in Seq(Markers) /\ lost \in Resets \cup {NoMarker}
  /\ step = "down" \/ f \in Range(dir)
  /\ seq \in Nat /\ prevHMAC \in Nat /\ filled \in Nat
  /\ rotateOrdinal \in Nat /\ ordinalSeedUncertain \in BOOLEAN /\ fresh \in Nat /\ macs \in Nat

\* The chain as audit-verify reads it: siblings by ordinal, then the base.
LogChainFiles ==
  sortedRotatedSiblings \o (IF Base \in DOMAIN dir THEN <<Base>> ELSE <<>>)
Tape == FlattenSeq([k \in DOMAIN LogChainFiles |-> Lines(LogChainFiles[k])])

\* The marker a line is, or stands in place of because the write of the marker failed.
MarkerAt(l) == IF l.lost # NoMarker THEN l.lost ELSE l.kind
Restarts(l) == MarkerAt(l) \in Resets
Linked(a, b) == b.prev = a.mac /\ b.seq = a.seq + 1

\* Files a and b of a directory follow each other on the tape: both have lines, and
\* whatever is between them has none.
Before(a, b) == a # Base /\ (b = Base \/ a < b)
LinesIn(d, n) == content[d[n]].lines
Meet(d, a, b) ==
  /\ Before(a, b) /\ LinesIn(d, a) # <<>> /\ LinesIn(d, b) # <<>>
  /\ \A c \in DOMAIN d : Before(a, c) /\ Before(c, b) => LinesIn(d, c) = <<>>

\* Whatever is rotated, pruned, left half done or lost in a crash, the tape is one
\* chain of linked and contiguous records; it breaks only between two files, where Open could
\* not read or parse the tail: a signed marker says so there, unless the one write of it
\* failed, which Open ignores (audit.go:751, 917-928).  No record is fused onto the fragment
\* of an unfinished write (writeRecord, rotateAttempt, Open).
ChainHolds ==
  /\ \A n \in DOMAIN dir :
       /\ \A i \in 1 .. Len(Lines(n)) : Lines(n)[i].kind # "fused"
       /\ \A i \in 1 .. Len(Lines(n)) - 1 : Linked(Lines(n)[i], Lines(n)[i + 1])
  /\ \A a, b \in DOMAIN dir :
       Meet(dir, a, b) => Restarts(Head(Lines(b))) \/ Linked(Last(Lines(a)), Head(Lines(b)))

\* The marker says that nothing on disk bounds the seed, or that the tail did not parse;
\* or it is the second one in a row, and the first had left a gap in the seqs for the
\* bytes it could not read.
Unbounded(l) == MarkerAt(l) \in {"resume_residual", "seed_unbounded", "tail_parse_failure"}
SeqMayRecur(ls, l) == Unbounded(l) \/ (MarkerAt(l) = "resume_failed" /\ Restarts(Head(ls)))

\* A seq that is on the tape is never issued again, unless the marker says, or would have
\* said had it been written, that it may be (seedSeqPastOnDiskMax, highestSeqAcrossChain).
SeqsIncrease ==
  \A a, b \in DOMAIN dir :
    Meet(dir, a, b) => \/ SeqMayRecur(Lines(a), Head(Lines(b)))
                       \/ Last(Lines(a)).seq < Head(Lines(b)).seq

\* resume.go:613-614: the seed is past every seq on disk whenever any file can be read.
SeedIsPastDisk ==
  \A a, b \in DOMAIN dir :
    Meet(dir, a, b) => Unbounded(Head(Lines(b))) \/ Last(Lines(a)).seq < Head(Lines(b)).seq

\* A record that an fsync has covered, in a file whose directory entry is durable,
\* stays on the tape until retention removes its file: no rename takes a name that
\* is in use, no repair cuts into it, no fallback or failed rotation loses it.
SyncedRecordsSurvive == kept \subseteq (UNION {Range(Lines(n)) : n \in DOMAIN dir}) \cup pruned

\* threat-model-mcp.md:352: a reset of the chain is "never silent".
ResetsAreAnnounced == \A i \in DOMAIN Tape : Tape[i].lost = NoMarker

\* Once the sink is open, every file before the live one ends at a record
\* boundary: audit-verify finds no line it cannot parse.
RestartLeavesNoFragment ==
  step = "ready" /\ ~opening => \A n \in DOMAIN dir : content[dir[n]].torn => dir[n] = f

\* Nobody tampers with the files here, so no restart takes the unfinished write of
\* a crash for a corrupt record and starts the chain over.
FragmentIsNotCorruption == \A i \in DOMAIN Tape : Tape[i].kind # "tail_parse_failure"

\* What is on disk is one chain: linked and in sequence except where Open had to start it
\* over, and with every synced record that was not pruned, through rotations, retention,
\* failed writes, crashes and restarts (rotate.go, resume.go).
ChainSurvives == ChainHolds /\ SeqsIncrease /\ SyncedRecordsSurvive
===============================================================================
