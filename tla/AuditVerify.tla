------------------------------ MODULE AuditVerify ------------------------------
(***************************************************************************)
(* eunox audit-verify (cmd/eunox/audit_verify.go, internal/audit/verify.go) *)
(* at work on a log whose sink may be writing, rotating, pruning or          *)
(* restarting: the pass pins the chain (SnapshotLogChain), opens its files   *)
(* by name one after the other, checks every record and every link, and      *)
(* gives its verdict only if the chain is still the one it pinned.           *)
(*                                                                          *)
(* An entry is a line as the pass reads it: the fields that link it, whether *)
(* it is the canonical form of a record, bears a MAC, whether that MAC is of *)
(* its body, the key it names and whether its time parses.                   *)
(***************************************************************************)
EXTENDS AuditChain

CONSTANTS
  Rings,        \* the verification rings to consider: sets of keys
  KeyChange,    \* the sink signs with "new" from this MAC on, with "old" before
  MaxMishaps    \* bound: faults and crashes of a log that is being verified

Keys == {"old", "new"}

ASSUME VerifyAssumption ==
  Rings \subseteq SUBSET Keys /\ KeyChange \in Nat /\ MaxMishaps \in Nat

VARIABLES
  ring,         \* verifyKeys
  rpc,          \* the pass: its next step
  Files, base,  \* ChainSnapshot: the names, and the file that was the base
  atFile,       \* files opened so far
  entries,      \* what was read
  torn,         \* the last line read had no end
  failedOpen,   \* a file was gone when its turn came
  verdict,
  snapshot, flawed \* history: the tape when the names were listed; Broken when they were
                \* compared

readerVars == <<ring, rpc, Files, base, atFile, entries, torn, failedOpen, verdict, snapshot,
                flawed>>
verifyVars == <<logVars, readerVars>>

KeyOf(l) == IF l.mac < KeyChange THEN "old" ELSE "new"

Entry(l) ==
  [seq |-> l.seq, prev |-> l.prev, mac |-> l.mac, key |-> KeyOf(l), signed |-> TRUE,
   intact |-> TRUE, timeOK |-> TRUE,
   form |-> IF l.kind = "fused" THEN "garbage" ELSE "canonical"]

\* A fragment that another file's bytes follow is a line of its own, and no JSON.
Garbage == [seq |-> 0, prev |-> Genesis, mac |-> 0, key |-> "old", signed |-> FALSE,
            intact |-> FALSE, timeOK |-> FALSE, form |-> "garbage"]
-----------------------------------------------------------------------------
(* VerifyLog. *)

VerifyResult == [Valid |-> 0, Invalid |-> 0, UnknownKey |-> 0, Unverifiable |-> 0,
                 ChainBreaks |-> 0]
auditChainVerifier ==
  [res |-> VerifyResult, havePrev |-> FALSE, prevHMAC |-> Genesis, prevSeq |-> 0,
   prevRecordInvalid |-> FALSE]

OK(r) == r.Invalid = 0 /\ r.ChainBreaks = 0 /\ r.UnknownKey = 0 /\ r.Unverifiable = 0

wellFormed(e) == e.form # "garbage"
forgedSeq0(e) == e.seq = 0 /\ e.signed

One(b) == IF b THEN 1 ELSE 0

\* checkGenesisAnchor for the first record, checkAnchorLink and checkSeqContiguity for the
\* others; a record that failed verification anchors nothing.
updateChain(v, e) ==
  LET breaks == IF ~v.havePrev THEN One(e.seq = 1 /\ e.prev # Genesis)
                ELSE One(v.prevRecordInvalid) + One(e.prev # v.prevHMAC)
                     + One(e.seq # v.prevSeq + 1)
  IN  [v EXCEPT !.res.ChainBreaks = @ + breaks,
                !.havePrev = TRUE, !.prevSeq = e.seq, !.prevHMAC = e.mac,
                !.prevRecordInvalid = @ /\ ~v.havePrev]

\* The key a record names, or every key of the ring if it names none.
keysToTry(e) == IF e.key = "" THEN ring ELSE {e.key} \cap ring

\* The canonical form is checked before the key is looked up; a MAC matches under the key
\* that made it.
verifyDecodedRecord(e) ==
  CASE e.form = "respelled" -> "error"
    [] keysToTry(e) = {} -> IF e.key = "" THEN "noKeyTried" ELSE "keyIDNotInRing"
    [] OTHER -> IF e.intact THEN "ok" ELSE "mismatch"

\* How a decodable, signed record counts; one that fails anchors nothing.
counted(v, e, outcome) ==
  CASE outcome = "keyIDNotInRing" -> [v EXCEPT !.res.UnknownKey = @ + 1]
    [] outcome = "noKeyTried" -> [v EXCEPT !.res.Unverifiable = @ + 1]
    [] outcome \in {"error", "mismatch"} ->
         [v EXCEPT !.res.Invalid = @ + 1, !.prevRecordInvalid = TRUE]
    [] outcome = "ok" /\ ~e.timeOK -> [v EXCEPT !.res.Invalid = @ + 1]
    [] OTHER -> [v EXCEPT !.res.Valid = @ + 1]

classify(v, e) ==
  IF ~wellFormed(e) \/ forgedSeq0(e) \/ ~e.signed THEN [v EXCEPT !.res.Invalid = @ + 1]
  ELSE counted(v, e, verifyDecodedRecord(e))

processLine(v, e) ==
  classify(IF wellFormed(e) /\ ~forgedSeq0(e) /\ e.signed THEN updateChain(v, e) ELSE v, e)

VerifyLog(es) == FoldLeft(processLine, auditChainVerifier, es).res
-----------------------------------------------------------------------------
(* verifyOneTape. *)

VerifyInit ==
  /\ ChainInit
  /\ ring = {} /\ rpc = "start" /\ Files = <<>> /\ base = NoFile /\ atFile = 0
  /\ entries = <<>> /\ torn = FALSE /\ failedOpen = FALSE /\ verdict = ""
  /\ snapshot = <<>> /\ flawed = FALSE

chainBaseIdentity == IF Base \in DOMAIN dir THEN dir[Base] ELSE NoFile

\* The ring is loaded; SnapshotLogChain lists the names, and then asks for
\* the base's identity.
ListFiles ==
  /\ rpc = "start" /\ diskFaults + crashes <= MaxMishaps
  /\ ring' \in Rings
  /\ rpc' = "pin" /\ Files' = LogChainFiles /\ snapshot' = Tape
  /\ UNCHANGED <<logVars, base, atFile, entries, torn, failedOpen, verdict, flawed>>

PinBase ==
  /\ rpc = "pin"
  /\ base' = chainBaseIdentity /\ rpc' = IF Files = <<>> THEN "stop" ELSE "read"
  /\ verdict' = IF Files = <<>> THEN "usage" ELSE verdict
  /\ UNCHANGED <<logVars, ring, Files, atFile, entries, torn, failedOpen, snapshot, flawed>>

\* A file is read to its end as it is then; of a line that is being written, maybe a part.
lazyFileReader ==
  /\ rpc = "read" /\ atFile < Len(Files) /\ ~failedOpen
  /\ LET n == Files[atFile + 1] IN
       /\ n \in DOMAIN dir
       /\ \E t \in {content[dir[n]].torn} \cup (IF step = "append" /\ dir[n] = f THEN {TRUE} ELSE {}) :
            /\ torn' = (t /\ atFile + 1 = Len(Files))
            /\ entries' = entries \o [i \in DOMAIN Lines(n) |-> Entry(Lines(n)[i])]
                            \o (IF t /\ ~torn' THEN <<Garbage>> ELSE <<>>)
  /\ atFile' = atFile + 1
  /\ UNCHANGED <<logVars, ring, rpc, Files, base, failedOpen, verdict, snapshot, flawed>>

FileGone ==
  /\ rpc = "read" /\ atFile < Len(Files) /\ ~failedOpen
  /\ Files[atFile + 1] \notin DOMAIN dir
  /\ failedOpen' = TRUE
  /\ UNCHANGED <<logVars, ring, rpc, Files, base, atFile, entries, torn, verdict, snapshot, flawed>>

\* A log nobody tampered with has a finding only where the sink itself started over or left
\* a fragment inside the chain, or where the ring lacks a key.
Broken ==
  \/ \E i \in 2 .. Len(Tape) : ~Linked(Tape[i - 1], Tape[i])
  \/ \E k \in 1 .. Len(LogChainFiles) - 1 : content[dir[LogChainFiles[k]]].torn
  \/ \E i \in DOMAIN Tape : KeyOf(Tape[i]) \notin ring

NoVerdict == rpc' = "stop" /\ verdict' = "rerun"

\* mutant of sameFiles: as many names as before
sameCount == Len(LogChainFiles) = Len(Files)

sameFiles == LogChainFiles = Files

CheckFiles ==
  /\ rpc = "read" /\ (failedOpen \/ atFile = Len(Files))
  /\ \/ ~sameFiles /\ NoVerdict
     \/ sameFiles /\ rpc' = "compare" /\ UNCHANGED verdict
  /\ flawed' = Broken
  /\ UNCHANGED <<logVars, ring, Files, base, atFile, entries, torn, failedOpen, snapshot>>

\* Findings stand whatever follows the fragment; a clean result does not.
CheckBase ==
  /\ rpc = "compare"
  /\ LET found == ~OK(VerifyLog(entries)) IN
       \/ (chainBaseIdentity # base \/ failedOpen \/ (torn /\ ~found)) /\ NoVerdict
       \/ /\ chainBaseIdentity = base /\ ~failedOpen /\ (torn => found)
          /\ rpc' = "stop" /\ verdict' = IF found THEN "fail" ELSE "pass"
  /\ UNCHANGED <<logVars, ring, Files, base, atFile, entries, torn, failedOpen, snapshot, flawed>>

audit_verify ==
  ListFiles \/ PinBase \/ lazyFileReader \/ FileGone \/ CheckFiles \/ CheckBase

\* The sink goes on; what happens after a verdict says nothing of it.  A machine that
\* crashes takes the pass with it, a process does not and loses nothing of its files.
SinkGoesOn ==
  /\ rpc # "stop" /\ ChainNext
  /\ rpc # "start" => diskFaults' + crashes' <= MaxMishaps
  /\ crashes' # crashes /\ rpc # "start" => dirs' = <<dir>> /\ content' = content
  /\ UNCHANGED readerVars

VerifyNext == SinkGoesOn \/ audit_verify

VerifySpec == VerifyInit /\ [][VerifyNext]_verifyVars
-----------------------------------------------------------------------------
(* Properties. *)

Fields(e) == [seq |-> e.seq, prev |-> e.prev, mac |-> e.mac]
Seen == [i \in DOMAIN entries |-> Fields(entries[i])]
FieldsOf(lines) == [i \in DOMAIN lines |-> Fields(lines[i])]

\* However the log is rotated, pruned, appended to and restarted while the pass runs: a pass
\* that reports success has read every record that was on the tape when it began, and
\* nothing else than records of it; a pass that reports a finding has found one, not a race
\* (verifyOneTape, CheckUnchanged).
VerdictIsEarned ==
  /\ verdict = "pass" => /\ IsPrefix(FieldsOf(snapshot), Seen)
                          /\ Range(Seen) \subseteq Range(FieldsOf(Tape)) \cup {Fields(l) : l \in pruned}
  /\ verdict = "fail" => flawed

\* What somebody without the key can make of a log: lines removed, moved, repeated, and
\* rewritten in each way that does not take the key.
Rewritten(e) ==
  {[e EXCEPT !.intact = FALSE], [e EXCEPT !.form = "respelled"], [e EXCEPT !.form = "garbage"],
   [e EXCEPT !.signed = FALSE], [e EXCEPT !.timeOK = FALSE, !.intact = FALSE],
   [e EXCEPT !.intact = FALSE, !.seq = 0],
   [e EXCEPT !.intact = FALSE, !.key = ""], [e EXCEPT !.intact = FALSE, !.key = "unheard of"]}
Edited(es) ==
  {RemoveAt(es, i) : i \in DOMAIN es}
  \cup {InsertAt(es, i, es[j]) : i \in DOMAIN es, j \in DOMAIN es}
  \cup {[es EXCEPT ![i] = es[j], ![j] = es[i]] : i \in DOMAIN es, j \in DOMAIN es}
  \cup UNION {{[es EXCEPT ![i] = e] : e \in Rewritten(es[i])} : i \in DOMAIN es}
  \cup {RemoveAt([es EXCEPT ![i] = [es[i] EXCEPT !.intact = FALSE, !.seq = @ - 1]], i + 1) :
          i \in 1 .. Len(es) - 1}

\* A log that verifies is a stretch of what the sink wrote, in its order and without gaps:
\* after any edit the verdict is a finding, unless the edit only cut lines off an end, which
\* retention and crashes also do (processLine, updateChain, classify).
AcceptedIsAsWritten ==
  verdict = "pass" =>
    \A es \in Edited(entries) :
      OK(VerifyLog(es)) => \E i \in 1 .. Len(entries) + 1 : \E j \in 0 .. Len(entries) :
                             es = SubSeq(entries, i, j)

\* The verifier is right both ways: its verdict on a directory the sink rotates meanwhile
\* is earned, and a log it accepts is as written (verify.go, audit_verify.go).
VerifierIsRight == VerdictIsEarned /\ AcceptedIsAsWritten
===============================================================================
