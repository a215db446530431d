--------------------------- MODULE ServerRequests ---------------------------
(***************************************************************************)
(* Requests an MCP server makes of the host through the proxy (sampling and  *)
(* the like): the entry gate and the pool (server_request_pool.go), the      *)
(* decision and the forward (forwardServerRequest in forward.go), the        *)
(* tracker of requests awaiting the host's reply (jsonrpc.go), the streams   *)
(* an HTTP session's clients listen on (http_session.go, handleMCPGet) and   *)
(* every path that answers an initiator whose reply will not come           *)
(* (server_request_unblock.go).                                              *)
(*                                                                          *)
(* The configuration, the kill switch, the audit sink and the record limits  *)
(* are HostMessages'.  A server may reuse an id while it is in use: replies  *)
(* and answers are matched by id, so the accounting below is by id.          *)
(***************************************************************************)
EXTENDS HostMessages

CONSTANTS MaxAsks,       \* bound: requests of the server
          ServerIds,     \* JSON-RPC ids the server uses
          Streams,       \* SSE streams of the session's clients
          MaxIntruders,  \* bound: replies of others than the session's owner
          MaxFailedWrites, \* bound: answers that cannot be written to the server
          maxTrackedServerReqs, sseSubscriberBufferSize

Asks == 1..MaxAsks
\* big: the id is too long to be tracked
ServerMsgs == [id: ServerIds, sampling: BOOLEAN, big: BOOLEAN]

ASSUME ServerAssumption ==
  /\ MaxAsks \in Nat /\ maxTrackedServerReqs \in Nat \ {0} /\ sseSubscriberBufferSize \in Nat \ {0}
  /\ \A s \in Scenarios : Len(s.asks) <= MaxAsks /\ s.asks \in Seq(ServerMsgs)

VARIABLES
  asks,         \* the scenario: the server's requests, in order; never changed
  spc,          \* per request: the phase of its handler
  tracked,      \* serverReqs.ids: per id, the request tracked under it and its stamp
  nextSeq,      \* serverReqs.nextSeq: the stamp of the last request tracked
  sub, buf,     \* per stream: phase and the requests buffered for it
  heard,        \* requests that reached the host
  pool,         \* the gate of the pool of handlers
  answers,      \* per id: answers the server was given
  lost,         \* per id: answers that could not be given, on the tape
  replies,      \* history, per request: the host's replies to it that took an entry
  allows, drops, \* per id: ALLOW records of forwards, records of drops after tracking
  sLive, sArmed \* history, as live and armed, the wait being for the handler's turn

askVars == <<asks, spc, tracked, nextSeq, sub, buf, heard, pool, answers, lost, replies, allows,
             drops, sLive, sArmed>>
messageVars == <<hostVars, askVars>>

idOf(r) == asks[r].id
noEntry == [req |-> 0, seq |-> 0]
Held(i) == tracked[i].req # 0
Untracked(i) == [tracked EXCEPT ![i] = noEntry]
Noted(cats) == [c \in categories |-> IF c \in cats THEN admit(meter[c]) ELSE meter[c]]

ServerInit ==
  /\ HostInit
  /\ asks \in {s.asks : s \in {t \in Scenarios : t.proxy = proxy /\ t.sends = sends}}
  /\ spc = [r \in Asks |-> "idle"] /\ tracked = [i \in ServerIds |-> noEntry] /\ nextSeq = 0
  /\ sub = [s \in Streams |-> "none"] /\ buf = [s \in Streams |-> <<>>]
  /\ heard = {} /\ pool = newSaturationGate
  /\ answers = [i \in ServerIds |-> 0] /\ lost = [i \in ServerIds |-> 0]
  /\ replies = [r \in Asks |-> 0]
  /\ allows = [i \in ServerIds |-> 0] /\ drops = [i \in ServerIds |-> 0]
  /\ sLive = [r \in Asks |-> FALSE] /\ sArmed = [r \in Asks |-> FALSE]

unchangedHost == UNCHANGED <<envVars, hostRev, msgVars, callVars, saturation>>

\* answer: the initiator is answered, and cats are recorded; a write that fails is recorded
\* in the answer's place.
answer(i, cats) ==
  \/ /\ answers' = [answers EXCEPT ![i] = @ + 1]
     /\ meter' = Noted(cats) /\ UNCHANGED lost
  \/ /\ meter["refusalUndeliverable"].refused < MaxFailedWrites
     /\ lost' = [lost EXCEPT ![i] = @ + 1]
     /\ meter' = Noted(cats \cup {"refusalUndeliverable"}) /\ UNCHANGED answers

unanswered(cats) == meter' = Noted(cats) /\ UNCHANGED <<answers, lost>>
-----------------------------------------------------------------------------
(* dispatchServerRequest: readUpstream hands a request to a handler. *)

Pooled == {r \in Asks : spc[r] \in {"pooled", "cleared", "tracked", "sent"}}

Read(r) ==
  /\ spc[r] = "idle" /\ \A k \in 1..r - 1 : spc[k] # "idle"
  /\ sLive' = [sLive EXCEPT ![r] = ~killed]
  /\ sArmed' = [sArmed EXCEPT ![r] = proxy.strict /\ degraded]
  /\ UNCHANGED <<asks, tracked, nextSeq, sub, buf, heard, replies, allows, drops>> /\ unchangedHost

admitServerRequestID(r) ==
  /\ Read(r) /\ asks[r].big
  /\ spc' = [spc EXCEPT ![r] = "done"] /\ answer(idOf(r), {"unroutableID"})
  /\ UNCHANGED pool

PoolSaturated(r) ==
  /\ Read(r) /\ ~asks[r].big /\ Cardinality(Pooled) >= proxy.slots
  /\ spc' = [spc EXCEPT ![r] = "done"] /\ answer(idOf(r), {})
  /\ pool' = saturated(pool)

dispatch(r) ==
  /\ Read(r) /\ ~asks[r].big /\ Cardinality(Pooled) < proxy.slots
  /\ spc' = [spc EXCEPT ![r] = "pooled"] /\ pool' = clear(pool)
  /\ UNCHANGED <<meter, answers, lost>>
-----------------------------------------------------------------------------
(* forwardServerRequest. *)

Step(r, from, to) ==
  /\ spc[r] = from /\ spc' = [spc EXCEPT ![r] = to]
  /\ UNCHANGED <<asks, pool, replies, sLive, sArmed>> /\ unchangedHost

\* The host's revision has no such requests.
refuseServerRequestAcrossRevisions ==
  declaresPerRequestRevision(IF hostRev = None THEN DefaultRevision ELSE hostRev)

\* Revoked, an audit trail degraded under strict, or denied: by policy, for want of a
\* decision turn, or in a session that spans anchors. Only sampling asks the policy.
RefuseServerRequest(r) ==
  /\ Step(r, "pooled", "done")
  /\ \/ refuseServerRequestAcrossRevisions /\ answer(idOf(r), {"untranslatable"})
     \/ /\ ~refuseServerRequestAcrossRevisions
        /\ killed \/ auditGateTripped \/ asks[r].sampling
        /\ answer(idOf(r), {})
  /\ UNCHANGED <<tracked, nextSeq, sub, buf, heard, allows, drops>>

\* The policy allows it, or denies what a mode observes.
ClearServerRequest(r) ==
  /\ Step(r, "pooled", "cleared")
  /\ ~refuseServerRequestAcrossRevisions /\ ~killed /\ ~auditGateTripped
  /\ UNCHANGED <<tracked, nextSeq, sub, buf, heard, allows, drops, meter, answers, lost>>

\* trackServerReqID: a request under the same id is displaced, or else, at the limit, the
\* one that has waited longest; nothing could route a reply to it, so it is answered.
Outstanding == {i \in ServerIds : Held(i)}

displaced(i) ==
  IF Held(i) THEN {i}
  ELSE IF Cardinality(Outstanding) >= maxTrackedServerReqs
  THEN {j \in Outstanding : \A k \in Outstanding : tracked[j].seq <= tracked[k].seq} ELSE {}

trackServerRequest(r) ==
  /\ Step(r, "cleared", "tracked")
  /\ nextSeq' = nextSeq + 1
  /\ LET new == [req |-> r, seq |-> nextSeq + 1]
     IN  \/ /\ displaced(idOf(r)) = {}
            /\ tracked' = [tracked EXCEPT ![idOf(r)] = new]
            /\ unanswered({}) /\ UNCHANGED drops
         \/ \E i \in displaced(idOf(r)) :
              /\ tracked' = [tracked EXCEPT ![i] = noEntry, ![idOf(r)] = new]
              /\ answer(i, {"displaced"}) /\ drops' = [drops EXCEPT ![i] = @ + 1]
  /\ UNCHANGED <<sub, buf, heard, allows>>

\* Whoever takes the entry answers; the others find nothing to do.
unblock(i, cats) ==
  IF Held(i) THEN answer(i, cats) /\ tracked' = Untracked(i)
  ELSE unanswered({}) /\ UNCHANGED tracked

Open(s) == sub[s] = "open"
Room(s) == Len(buf[s]) < sseSubscriberBufferSize

\* deliverToOne: one client stream with room takes it.
deliverToOne(r) ==
  /\ proxy.transport = "http" /\ Step(r, "tracked", "sent")
  /\ \E s \in Streams : Open(s) /\ Room(s) /\ buf' = [buf EXCEPT ![s] = Append(@, r)]
  /\ UNCHANGED <<tracked, nextSeq, sub, heard, allows, drops, meter, answers, lost>>

\* On stdio there is the one host to write to.
writeToHost(r) ==
  /\ proxy.transport = "stdio" /\ Step(r, "tracked", "sent")
  /\ heard' = heard \cup {r}
  /\ UNCHANGED <<tracked, nextSeq, sub, buf, allows, drops, meter, answers, lost>>

\* No stream has room, or the host's is gone: the forward itself reports it.
Undelivered(r) ==
  /\ Step(r, "tracked", "done")
  /\ proxy.transport = "http" => \A s \in Streams : ~(Open(s) /\ Room(s))
  /\ IF Held(idOf(r))
     THEN answer(idOf(r), {"undelivered"}) /\ tracked' = Untracked(idOf(r))
     ELSE unanswered({"undelivered"}) /\ UNCHANGED tracked
  /\ UNCHANGED <<nextSeq, sub, buf, heard, allows, drops>>

recordForwardOutcome(r) ==
  /\ Step(r, "sent", "done")
  /\ allows' = [allows EXCEPT ![idOf(r)] = @ + 1]
  /\ UNCHANGED <<tracked, nextSeq, sub, buf, heard, drops, meter, answers, lost>>
-----------------------------------------------------------------------------
(* handleMCPGet: a client's stream. *)

Streaming == UNCHANGED <<asks, spc, nextSeq, pool, replies, sLive, sArmed, allows>> /\ unchangedHost

addSub(s) ==
  /\ Streaming /\ proxy.transport = "http" /\ ~killed /\ sub[s] = "none"
  /\ sub' = [sub EXCEPT ![s] = "open"]
  /\ UNCHANGED <<buf, heard, tracked, drops, meter, answers, lost>>

\* failServerRequestDelivery: the ALLOW on the tape is corrected if the entry was still there.
failServerRequestDelivery(r) ==
  /\ unblock(idOf(r), {"serverRequestFailed"})
  /\ drops' = IF Held(idOf(r)) THEN [drops EXCEPT ![idOf(r)] = @ + 1] ELSE drops

WriteFrame(s) ==
  /\ Streaming /\ Open(s) /\ buf[s] # <<>>
  /\ buf' = [buf EXCEPT ![s] = Tail(@)] /\ heard' = heard \cup {Head(buf[s])}
  /\ UNCHANGED <<sub, tracked, drops, meter, answers, lost>>

\* The token has expired or the write fails: the stream ends with the message in hand.
FrameFails(s) ==
  /\ Streaming /\ Open(s) /\ buf[s] # <<>>
  /\ buf' = [buf EXCEPT ![s] = Tail(@)] /\ sub' = [sub EXCEPT ![s] = "ending"]
  /\ failServerRequestDelivery(Head(buf[s]))
  /\ UNCHANGED heard

\* The client disconnects, the session is evicted or done: removeSub.
EndStream(s) ==
  /\ Streaming /\ Open(s)
  /\ sub' = [sub EXCEPT ![s] = "ending"]
  /\ UNCHANGED <<buf, heard, tracked, drops, meter, answers, lost>>

drain(s) ==
  /\ Streaming /\ sub[s] = "ending" /\ buf[s] # <<>>
  /\ buf' = [buf EXCEPT ![s] = Tail(@)]
  /\ failServerRequestDelivery(Head(buf[s]))
  /\ UNCHANGED <<sub, heard>>

Drained(s) == sub[s] = "ending" /\ buf[s] = <<>>

GoneStream(s) ==
  /\ Streaming /\ Drained(s)
  /\ sub' = [sub EXCEPT ![s] = "gone"]
  /\ UNCHANGED <<buf, heard, tracked, drops, meter, answers, lost>>
-----------------------------------------------------------------------------
(* The host's replies: serveHost, routeHostServerResponse. *)

Replied(r) ==
  /\ r \in heard /\ Held(idOf(r))
  /\ UNCHANGED <<asks, spc, nextSeq, pool, sub, buf, heard, allows, drops, sLive, sArmed>>
  /\ unchangedHost

Takes(r) == replies' = [replies EXCEPT ![r] = @ + 1]

\* The reply is refused at the session's gates; only a proven owner's loses the request.
unblockGateRefusedServerReply(r) ==
  /\ proxy.transport = "http" /\ Replied(r)
  /\ \/ unblock(idOf(r), {"gate"}) /\ Takes(r)
     \/ /\ meter["gate"].refused < MaxIntruders
        /\ unanswered({"gate"}) /\ UNCHANGED <<tracked, replies>>

\* The reply declares a revision the context is not served under.
ReplyRefusedByRevision(r) ==
  Replied(r) /\ unblock(idOf(r), {"revision"}) /\ Takes(r)

TakenBy(r) == Untracked(idOf(r))

\* Taken, and dropped for a revoked session, relayed, or lost where the server cannot be
\* written to.
routeHostServerResponse(r) ==
  /\ Replied(r) /\ Takes(r) /\ tracked' = TakenBy(r)
  /\ \/ /\ killed /\ lost' = [lost EXCEPT ![idOf(r)] = @ + 1] /\ UNCHANGED <<answers, meter>>
     \/ /\ ~killed /\ answers' = [answers EXCEPT ![idOf(r)] = @ + 1]
        /\ UNCHANGED <<lost, meter>>
     \/ /\ ~killed /\ lost' = [lost EXCEPT ![idOf(r)] = @ + 1]
        /\ meter' = Noted({"serverRequestFailed"}) /\ UNCHANGED answers
-----------------------------------------------------------------------------
RevokeAll ==
  /\ Revoke
  /\ sLive' = [r \in Asks |-> IF spc[r] = "pooled" THEN killed
                              ELSE sLive[r] \/ (killed /\ spc[r] \notin {"idle", "done"})]
  /\ UNCHANGED <<asks, spc, tracked, nextSeq, sub, buf, heard, pool, answers, lost, replies,
                 allows, drops, sArmed>>

DegradeAll ==
  /\ SinkDegrades
  /\ sArmed' = [r \in Asks |-> sArmed[r] \/ spc[r] = "pooled"]
  /\ UNCHANGED <<asks, spc, tracked, nextSeq, sub, buf, heard, pool, answers, lost, replies,
                 allows, drops, sLive>>

\* Time passes; only a bucket that has counted refusals makes it a case of its own.
Elapse ==
  /\ \E b \in {meter[c] : c \in categories} \cup {saturation.bucket, pool.bucket} :
       b.suppressed > 0 /\ b.tokens = 0
  /\ meter' = [c \in categories |-> refill(meter[c])]
  /\ saturation' = [saturation EXCEPT !.bucket = refill(@)]
  /\ pool' = [pool EXCEPT !.bucket = refill(@)]
  /\ UNCHANGED <<envVars, hostRev, msgVars, callVars, asks, spc, tracked, nextSeq, sub, buf, heard, answers,
                 lost, replies, allows, drops, sLive, sArmed>>

Quiet ==
  /\ \A m \in DOMAIN sends : pc[m] = "done"
  /\ \A r \in DOMAIN asks : spc[r] = "done"
  /\ UNCHANGED messageVars

ServerNext ==
  \/ \E r \in DOMAIN asks :
       \/ admitServerRequestID(r) \/ PoolSaturated(r) \/ dispatch(r)
       \/ RefuseServerRequest(r) \/ ClearServerRequest(r) \/ trackServerRequest(r)
       \/ deliverToOne(r) \/ writeToHost(r) \/ Undelivered(r) \/ recordForwardOutcome(r)
       \/ unblockGateRefusedServerReply(r) \/ ReplyRefusedByRevision(r) \/ routeHostServerResponse(r)
  \/ asks # <<>> /\ \E s \in Streams :
       addSub(s) \/ WriteFrame(s) \/ FrameFails(s) \/ EndStream(s) \/ drain(s) \/ GoneStream(s)

MessagesNext ==
  \/ HostSteps /\ UNCHANGED askVars
  \/ ServerNext \/ RevokeAll \/ DegradeAll \/ Elapse \/ Quiet

MessagesSpec == ServerInit /\ [][MessagesNext]_messageVars
-----------------------------------------------------------------------------
(* Properties. *)

Buffered(r) == \E s \in Streams : r \in {buf[s][k] : k \in DOMAIN buf[s]}
WaitingUntracked(i) == {r \in DOMAIN asks : idOf(r) = i /\ spc[r] \in {"pooled", "cleared"}}

\* Every request a server makes is accounted for, under every interleaving of the host's
\* replies, streams that fail or end, displacements and reuse of ids: it is answered exactly
\* once, or the tape says why not, or it is still being handled or tracked for the host's
\* reply (unblock, trackServerRequest, routeHostServerResponse: whoever takes the tracker's
\* entry answers).
InitiatorsAccounted ==
  \A i \in ServerIds :
    Cardinality({r \in DOMAIN asks : idOf(r) = i /\ spc[r] # "idle"}) =
      answers[i] + lost[i] + Cardinality(WaitingUntracked(i)) + (IF Held(i) THEN 1 ELSE 0)

\* No request waits in the buffer of a stream nobody reads, and an ALLOW on the tape stands
\* for a request that reached the host or still may, or the tape also says that it was
\* dropped; unless the host replied twice to one request of that id, and so took the entry
\* of another (removeSubAndDrain, failServerRequestDelivery).
StandingAllowsAreReal ==
  /\ \A s \in Streams : sub[s] \in {"none", "gone"} => buf[s] = <<>>
  /\ \A i \in ServerIds :
       LET asked == {r \in heard : idOf(r) = i}
           mayHear == {r \in DOMAIN asks : idOf(r) = i /\ Buffered(r)}
       IN  (\A r \in asked : replies[r] <= 1) =>
             allows[i] <= drops[i] + Cardinality(asked \cup mayHear)

\* What reaches the host of a server's requests passed the gates that guard it, asked once
\* the handler had its turn: the session was not revoked when that wait ended or at some
\* moment since, a strict proxy's tape had lost no record by then, and the host's revision
\* has such requests (forwardServerRequest).
ServerGatesHold ==
  \A r \in DOMAIN asks : r \in heard \/ Buffered(r) =>
    sLive[r] /\ ~sArmed[r] /\ proxy.contextRev # newRev

\* A refusal that writes no record of its own is in the count the next one carries
\* (record_limiter.go): no flood of refusals erases how many there were.
RefusalsCounted ==
  /\ \A c \in categories : Accounted(meter[c])
  /\ Accounted(saturation.bucket) /\ Accounted(pool.bucket)

\* The gates of both directions are asked past the waits: neither a revocation nor a lost
\* record that comes while a message of the host or a request of the server still waits lets
\* it through (GatesHold, ServerGatesHold).
GatesGuardBothWays == GatesHold /\ ServerGatesHold

\* The tape tells what happened in both directions, and a flood of refusals does not erase
\* how many there were (ForwardsAreOnTape, StandingAllowsAreReal, RefusalsCounted).
TapeIsTrue == ForwardsAreOnTape /\ StandingAllowsAreReal /\ RefusalsCounted

\* Every answer is the asker's own and every asker is accounted for (AnswersAreOwn,
\* InitiatorsAccounted).
AnswersAreAccounted == AnswersAreOwn /\ InitiatorsAccounted

\* What the upstream hears is in order and in its revision (CancelFollowsItsRequest,
\* SpeaksUpstreamsRevision).
WireIsOrderly == CancelFollowsItsRequest /\ SpeaksUpstreamsRevision
=============================================================================
