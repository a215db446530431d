---------------------------- MODULE MessagesProofs ----------------------------
(***************************************************************************)
(* Proofs about the messages between a host, the proxy and an MCP server   *)
(* (HostMessages, ServerRequests, RefusalRecords), for any scenarios: any  *)
(* number of messages and requests of the server, any ids and any reuse of *)
(* them, any streams, limits and configurations of the proxy.              *)
(***************************************************************************)
EXTENDS ServerRequests, FiniteSetTheorems, TLAPS

-------------------------------------------------------------------------------
(***************************************************************************)
(* The refusal records (record_limiter.go).                                *)
(***************************************************************************)
Sane(b) ==
  /\ b \in [tokens: Nat, suppressed: Nat, refused: Nat, told: Nat]
  /\ Accounted(b)

SaneGate(g) == g \in [recorded: BOOLEAN, bucket: [tokens: Nat, suppressed: Nat, refused: Nat, told: Nat]]
               /\ Accounted(g.bucket)

Counted ==
  /\ meter = [c \in categories |-> meter[c]] /\ (\A c \in categories : Sane(meter[c]))
  /\ SaneGate(saturation) /\ SaneGate(pool)

\* Whatever is done to a bucket or a gate keeps its count right.
LEMMA BucketSteps ==
  ASSUME NEW b, Sane(b)
  PROVE  Sane(admit(b)) /\ Sane(suppress(b)) /\ Sane(refill(b))
  <1> DEFINE full == [tokens |-> b.tokens - 1, suppressed |-> 0, refused |-> b.refused + 1,
                      told |-> b.told + 1 + b.suppressed]
  <1>1. /\ b.tokens \in Nat /\ b.suppressed \in Nat /\ b.refused \in Nat /\ b.told \in Nat
        /\ b.refused = b.told + b.suppressed
        /\ b = [tokens |-> b.tokens, suppressed |-> b.suppressed, refused |-> b.refused,
                told |-> b.told]
    BY DEF Sane, Accounted
  <1>2. suppress(b) = [tokens |-> b.tokens, suppressed |-> b.suppressed + 1,
                       refused |-> b.refused + 1, told |-> b.told]
    <2> DEFINE c == suppress(b)
    <2>1. /\ c.tokens = b.tokens /\ c.suppressed = b.suppressed + 1
          /\ c.refused = b.refused + 1 /\ c.told = b.told
      BY DEF Sane, suppress
    <2>2. c = [x \in {"tokens", "suppressed", "refused", "told"} |-> c[x]]
      BY DEF Sane, suppress
    <2> QED BY <2>1, <2>2
  <1>3. Sane(suppress(b))
    BY <1>1, <1>2 DEF Sane, Accounted
  <1>4. refill(b) = [tokens |-> Burst, suppressed |-> b.suppressed, refused |-> b.refused,
                     told |-> b.told]
    BY <1>1 DEF refill
  <1>5. Sane(refill(b))
    BY <1>1, <1>4, RefusalAssumption DEF Sane, Accounted
  <1>6. b.tokens # 0 => Sane(full)
    BY <1>1 DEF Sane, Accounted
  <1>7. b.tokens # 0 => admit(b) = full
    BY <1>1 DEF admit
  <1>8. b.tokens = 0 => admit(b) = suppress(b)
    BY DEF admit
  <1> QED BY <1>3, <1>5, <1>6, <1>7, <1>8

LEMMA GateSteps ==
  ASSUME NEW g, SaneGate(g)
  PROVE  /\ SaneGate(saturated(g)) /\ SaneGate(clear(g))
         /\ SaneGate([g EXCEPT !.bucket = refill(@)])
  <1>1. Sane(g.bucket) /\ g.recorded \in BOOLEAN
    BY DEF SaneGate, Sane
  <1>2. Sane(admit(g.bucket)) /\ Sane(suppress(g.bucket)) /\ Sane(refill(g.bucket))
    BY <1>1, BucketSteps
  <1>3. SaneGate(saturated(g))
    <2> DEFINE b == IF g.recorded THEN suppress(g.bucket) ELSE admit(g.bucket)
               t == g.recorded \/ g.bucket.tokens > 0
    <2>1. Sane(b) /\ t \in BOOLEAN
      BY <1>2
    <2>2. saturated(g) = [recorded |-> t, bucket |-> b]
      BY DEF saturated
    <2> HIDE DEF b, t
    <2> QED BY <2>1, <2>2 DEF SaneGate, Sane
  <1>4. SaneGate(clear(g))
    BY <1>1 DEF SaneGate, Sane, clear
  <1>5. SaneGate([g EXCEPT !.bucket = refill(@)])
    BY <1>1, <1>2 DEF SaneGate, Sane
  <1> QED BY <1>3, <1>4, <1>5

\* A step of the host's side refuses into a bucket, or ends or continues an episode.
HostMeters ==
  /\ meter' = meter \/ \E c \in categories : refuse(c)
  /\ saturation' \in {saturation, clear(saturation), saturated(saturation)}

LEMMA HostStepsMeter ==
  ASSUME HostSteps
  PROVE  HostMeters
  <1> USE DEF HostMeters
  <1>1. ASSUME NEW m, NEW x, enforceSessionGates(m, x) \/ refuseHostRevision(m, x)
                             \/ refuseHeaderMismatch(m, x)
        PROVE  HostMeters
    BY <1>1 DEF enforceSessionGates, refuseHostRevision, refuseHeaderMismatch, categories
  <1>2. ASSUME NEW m, NEW x, AcceptRequest(m, x) \/ RefuseBusy(m, x) \/ AcceptNotification(m, x)
        PROVE  HostMeters
    BY <1>2 DEF AcceptRequest, RefuseBusy, AcceptNotification, Negotiated
  <1>3. ASSUME NEW m, NEW from, Handle(m, from)
        PROVE  HostMeters
    BY <1>3 DEF Handle
  <1>5. ASSUME NEW m \in Msgs,
               \/ TornDown(m) \/ malformedDeny(m) \/ Decide(m) \/ dispatchList(m) \/ dispatchLocally(m)
               \/ Refuse(m) \/ strictAuditDenial(m) \/ Proceed(m)
               \/ CallRefused(m) \/ awaitNonced(m) \/ WriteRequest(m) \/ CallFails(m)
               \/ UpstreamAnswers(m) \/ RejectAnswer(m) \/ RedactionFails(m) \/ Return(m)
               \/ admitNotification(m) \/ forwardHostNotification(m) \/ forwardNotification(m)
        PROVE  HostMeters
    <2>1. \E from : Handle(m, from)
      BY <1>5, Zenon DEF TornDown, malformedDeny, Decide, dispatchList, dispatchLocally, Refuse,
         strictAuditDenial, Proceed, CallRefused, awaitNonced, WriteRequest, CallFails,
         UpstreamAnswers, RejectAnswer, RedactionFails, Return, admitNotification,
         forwardHostNotification, forwardNotification
    <2> QED BY <1>3, <2>1
  <1> QED BY <1>1, <1>2, <1>5, Zenon DEF HostSteps

\* A step of the server's side notes some categories, or one of the gate.
ServerMeters ==
  /\ meter' = meter \/ \E cats \in SUBSET categories : meter' = Noted(cats)
  /\ pool' \in {pool, clear(pool), saturated(pool)} /\ saturation' = saturation

LEMMA AnswerMeters ==
  ASSUME NEW i, NEW cats \in SUBSET categories, answer(i, cats) \/ unanswered(cats)
  PROVE  \E some \in SUBSET categories : meter' = Noted(some)
  BY DEF answer, unanswered, categories

LEMMA ServerStepsMeter ==
  ASSUME ServerNext
  PROVE  ServerMeters
  <1> DEFINE Some == meter' = meter \/ \E cats \in SUBSET categories : meter' = Noted(cats)
  <1>1. ASSUME NEW r, Read(r)
        PROVE  saturation' = saturation
    BY <1>1 DEF Read, unchangedHost
  <1>2. ASSUME NEW r, NEW from, NEW to, Step(r, from, to)
        PROVE  saturation' = saturation /\ pool' = pool
    BY <1>2 DEF Step, unchangedHost
  <1>3. ASSUME Streaming
        PROVE  saturation' = saturation /\ pool' = pool
    BY <1>3 DEF Streaming, unchangedHost
  <1>4. ASSUME NEW r, Replied(r)
        PROVE  saturation' = saturation /\ pool' = pool
    BY <1>4 DEF Replied, unchangedHost
  <1>5. ASSUME NEW i, NEW cats \in SUBSET categories, answer(i, cats) \/ unanswered(cats) \/ unblock(i, cats)
        PROVE  Some
    BY <1>5, AnswerMeters, {} \in SUBSET categories DEF unblock
  <1>6. \A c \in {"unroutableID", "untranslatable", "displaced", "undelivered",
                  "serverRequestFailed", "gate", "revision"} : {c} \in SUBSET categories
    BY DEF categories
  <1>7. {} \in SUBSET categories
    OBVIOUS
  <1> HIDE DEF Some
  <1>8. ASSUME NEW r, admitServerRequestID(r) \/ PoolSaturated(r) \/ dispatch(r)
        PROVE  Some /\ pool' \in {pool, clear(pool), saturated(pool)} /\ saturation' = saturation
    <2>1. Read(r)
      BY <1>8 DEF admitServerRequestID, PoolSaturated, dispatch
    <2>2. pool' \in {pool, clear(pool), saturated(pool)}
      BY <1>8 DEF admitServerRequestID, PoolSaturated, dispatch
    <2>3. Some
      BY <1>5, <1>6, <1>7, <1>8 DEF admitServerRequestID, PoolSaturated, dispatch, Some
    <2> QED BY <1>1, <2>1, <2>2, <2>3
  <1>9. ASSUME NEW r, RefuseServerRequest(r) \/ ClearServerRequest(r) \/ trackServerRequest(r)
               \/ deliverToOne(r) \/ writeToHost(r) \/ Undelivered(r) \/ recordForwardOutcome(r)
        PROVE  Some /\ pool' = pool /\ saturation' = saturation
    <2>1. \E from, to : Step(r, from, to)
      BY <1>9, Zenon DEF RefuseServerRequest, ClearServerRequest, trackServerRequest, deliverToOne,
         writeToHost, Undelivered, recordForwardOutcome
    <2>2. ASSUME RefuseServerRequest(r) PROVE Some
      BY <1>5, <1>6, <1>7, <2>2, Zenon DEF RefuseServerRequest
    <2>3. ASSUME trackServerRequest(r) PROVE Some
      BY <1>5, <1>6, <1>7, <2>3, Zenon DEF trackServerRequest
    <2>4. ASSUME Undelivered(r) PROVE Some
      BY <1>5, <1>6, <1>7, <2>4, Zenon DEF Undelivered
    <2>5. ASSUME ClearServerRequest(r) \/ deliverToOne(r) \/ writeToHost(r) \/ recordForwardOutcome(r) PROVE Some
      BY <2>5 DEF ClearServerRequest, deliverToOne, writeToHost, recordForwardOutcome, Some
    <2> QED BY <1>2, <1>9, <2>1, <2>2, <2>3, <2>4, <2>5
  <1>10. ASSUME NEW r, unblockGateRefusedServerReply(r) \/ ReplyRefusedByRevision(r)
                       \/ routeHostServerResponse(r)
         PROVE  Some /\ pool' = pool /\ saturation' = saturation
    <2>1. Replied(r)
      BY <1>10, Zenon DEF unblockGateRefusedServerReply, ReplyRefusedByRevision, routeHostServerResponse
    <2>2. ASSUME unblockGateRefusedServerReply(r) PROVE Some
      BY <1>5, <1>6, <2>2, Zenon DEF unblockGateRefusedServerReply
    <2>3. ASSUME ReplyRefusedByRevision(r) PROVE Some
      BY <1>5, <1>6, <2>3, Zenon DEF ReplyRefusedByRevision
    <2>4. ASSUME routeHostServerResponse(r) PROVE Some
      BY <1>6, <2>4 DEF routeHostServerResponse, Some
    <2> QED BY <1>4, <1>10, <2>1, <2>2, <2>3, <2>4
  <1>11. ASSUME NEW s, addSub(s) \/ WriteFrame(s) \/ FrameFails(s) \/ EndStream(s) \/ drain(s) \/ GoneStream(s)
         PROVE  Some /\ pool' = pool /\ saturation' = saturation
    <2>1. Streaming
      BY <1>11, Zenon DEF addSub, WriteFrame, FrameFails, EndStream, drain, GoneStream
    <2>2. ASSUME FrameFails(s) \/ drain(s) PROVE Some
      BY <1>5, <1>6, <2>2, Zenon DEF FrameFails, drain, failServerRequestDelivery
    <2>3. ASSUME addSub(s) \/ WriteFrame(s) \/ EndStream(s) \/ GoneStream(s) PROVE Some
      BY <2>3 DEF addSub, WriteFrame, EndStream, GoneStream, Some
    <2> QED BY <1>3, <1>11, <2>1, <2>2, <2>3
  <1>12. Some /\ pool' \in {pool, clear(pool), saturated(pool)} /\ saturation' = saturation
    BY <1>8, <1>9, <1>10, <1>11, Zenon DEF ServerNext
  <1> QED BY <1>12 DEF ServerMeters, Some

LEMMA NextCounts ==
  ASSUME Counted, [MessagesNext]_messageVars
  PROVE  Counted'
  <1>1. ASSUME NEW cats
        PROVE  \A c \in categories : Sane(Noted(cats)[c])
    BY BucketSteps DEF Counted, Noted
  <1>2. CASE HostSteps /\ UNCHANGED askVars
    <2>1. HostMeters /\ pool' = pool
      BY <1>2, HostStepsMeter DEF askVars
    <2>2. meter' = [c \in categories |-> meter'[c]] /\ \A c \in categories : Sane(meter'[c])
      <3>1. CASE meter' = meter
        BY <3>1 DEF Counted
      <3>2. CASE \E d \in categories : refuse(d)
        <4>1. PICK d \in categories : refuse(d)
          BY <3>2
        <4>2. meter' = [meter EXCEPT ![d] = admit(@)] /\ Sane(admit(meter[d]))
          BY <4>1, BucketSteps DEF refuse, Counted
        <4> QED BY <4>2 DEF Counted
      <3> QED BY <2>1, <3>1, <3>2 DEF HostMeters
    <2>3. SaneGate(saturation')
      BY <2>1, GateSteps DEF HostMeters, Counted
    <2> QED BY <2>1, <2>2, <2>3 DEF Counted
  <1>3. CASE ServerNext
    <2>1. ServerMeters
      BY <1>3, ServerStepsMeter
    <2>2. meter' = [c \in categories |-> meter'[c]] /\ \A c \in categories : Sane(meter'[c])
      <3>1. CASE meter' = meter
        BY <3>1 DEF Counted
      <3>2. CASE \E cats \in SUBSET categories : meter' = Noted(cats)
        <4>1. PICK cats \in SUBSET categories : meter' = Noted(cats)
          BY <3>2
        <4> QED BY <1>1, <4>1 DEF Noted
      <3> QED BY <2>1, <3>1, <3>2 DEF ServerMeters
    <2>3. SaneGate(pool')
      BY <2>1, GateSteps DEF ServerMeters, Counted
    <2> QED BY <2>1, <2>2, <2>3 DEF Counted, ServerMeters
  <1>4. CASE RevokeAll \/ DegradeAll
    BY <1>4 DEF RevokeAll, Revoke, DegradeAll, SinkDegrades, Counted
  <1>5. CASE Elapse
    <2>1. \A c \in categories : Sane(refill(meter[c]))
      BY BucketSteps DEF Counted
    <2>2. SaneGate([saturation EXCEPT !.bucket = refill(@)]) /\ SaneGate([pool EXCEPT !.bucket = refill(@)])
      BY GateSteps DEF Counted
    <2> QED BY <1>5, <2>1, <2>2 DEF Elapse, Counted
  <1>6. CASE UNCHANGED messageVars
    BY <1>6 DEF messageVars, hostVars, askVars, Counted
  <1> QED BY <1>2, <1>3, <1>4, <1>5, <1>6 DEF MessagesNext, Quiet

LEMMA RefusalsAlwaysCounted == MessagesSpec => []Counted
  <1>1. ServerInit => Counted
    <2> SUFFICES ASSUME ServerInit PROVE Counted
      OBVIOUS
    <2>1. Sane(newRecordRateLimiter) /\ SaneGate(newSaturationGate)
      BY RefusalAssumption DEF Sane, SaneGate, Accounted, newRecordRateLimiter, newSaturationGate
    <2> QED BY <2>1 DEF ServerInit, HostInit, Counted
  <1>2. Counted /\ [MessagesNext]_messageVars => Counted'
    BY NextCounts
  <1> QED BY <1>1, <1>2, PTL DEF MessagesSpec

-------------------------------------------------------------------------------
(***************************************************************************)
(* The host's messages.  Mine and Gates say of a message, by its phase,    *)
(* what has been found out about it; Nonces, which call may be answered    *)
(* under which name; Lines, what stands behind each line the upstream was  *)
(* sent.                                                                   *)
(***************************************************************************)
Requesting == {"queued", "decided", "calling", "mapped", "waiting"}
Noting == {"gated", "notifying"}
Cleared == {"calling", "mapped", "waiting"}
Pending == {"mapped", "waiting"}
Phases == Requesting \cup Noting \cup {"idle", "done"}
Outcomes == {"allow", "failure", "enforcementError"}

Deliveries == [for: Msgs, kind: {"result", "variant", "error", "malformed"}]
LineShape == [kind: {"request", "notification"}, method: Methods, msg: Msgs, nonce: Nat,
              declares: Declarations]

HostTypes ==
  /\ proxy \in ProxyConfig /\ sends \in Seq(Messages) /\ Len(sends) <= MaxMsgs
  /\ hostRev \in Revisions \cup {None} /\ killed \in BOOLEAN /\ degraded \in BOOLEAN
  /\ pc \in [Msgs -> Phases] /\ msg \in [Msgs -> Messages \cup {None}]
  /\ rev \in [Msgs -> Revisions \cup {None}] /\ dec \in [Msgs -> Decisions \cup {None}]
  /\ nonce \in [Msgs -> Nat] /\ seq \in Nat /\ hostToUp \in [Ids -> Msgs \cup {0}]
  /\ chan \in [Msgs -> Deliveries \cup {None}] /\ wire \in Seq(LineShape)
  /\ tape = [m \in Msgs |-> tape[m]] /\ reply = [m \in Msgs |-> reply[m]]
  /\ live \in [Msgs -> BOOLEAN] /\ armed \in [Msgs -> BOOLEAN]

\* What a message that negotiation serves under r is known to declare.
Served(r, x) ==
  /\ x.declares \in Revisions => r = x.declares
  /\ x.declares # "unknown"
  /\ ~(x.declares = "unreadable" /\ unreadParamsReachUpstream(x))
  /\ paramsReachUpstream(x) /\ dispatchesMessage(r, x) =>
       checkUpstreamHonorable(r, x) /\ checkDeclarationReachesUpstream(r, x)

\* A request that is not answered here.
Forwardable(m) ==
  LET spec == specOf(msg[m].method)
  IN  /\ rev[m] \in spec.in /\ (spec.decide \/ spec.local = "list")
      /\ spec.decide => msg[m].declares # "unreadable"

Passed(m) == live[m] /\ ~armed[m] /\ (dec[m].verdict # "allow" => isObserveDeny(dec[m]))

ObserveRecord(m) == IF isObserveDeny(dec[m]) THEN <<"observe">> ELSE <<>>

OwnAnswer(m, a) ==
  /\ a.of \in {0, m}
  /\ dec[m] # None /\ dec[m].redact => a.shows = {}
  /\ a.kind = "variant" => rev[m] = oldRev /\ proxy.upstreamRev = oldRev

Answered(m) ==
  /\ msg[m].kind = "request" => reply[m] = <<reply[m][1]>> /\ OwnAnswer(m, reply[m][1])
  /\ msg[m].kind # "request" => reply[m] = <<>>

Mine(m) ==
  /\ pc[m] # "idle" => m \in DOMAIN sends /\ msg[m] = sends[m]
  /\ pc[m] \in Requesting => msg[m].kind = "request"
  /\ pc[m] \in Noting => msg[m].kind = "notification"
  /\ pc[m] \in Requesting \cup Noting => rev[m] \in Revisions /\ Served(rev[m], msg[m])
  /\ pc[m] # "done" => reply[m] = <<>>
  /\ pc[m] \notin Cleared \cup {"done"} => tape[m] = <<>>
  /\ pc[m] \in Cleared \cup {"decided"} => dec[m] \in Decisions /\ Forwardable(m)
  /\ pc[m] \in Cleared => Passed(m) /\ tape[m] = ObserveRecord(m)
  /\ pc[m] \in Pending => checkUpstreamHonorable(rev[m], msg[m])
  /\ pc[m] = "notifying" => disposition(m) = "forward"
  /\ pc[m] = "done" => Answered(m)

Gated(m) ==
  /\ armed[m] => proxy.strict /\ degraded
  /\ pc[m] \notin {"idle", "done"} /\ ~killed => live[m]
  /\ pc[m] = "decided" /\ dec[m].verdict # "hard" => live[m]
  /\ pc[m] = "notifying" /\ proxy.transport # "stdio" => live[m]

Nonces ==
  /\ \A m \in Msgs :
       /\ nonce[m] <= seq /\ (nonce[m] # 0 <=> pc[m] \in Pending)
       /\ chan[m] # None => pc[m] \in Pending /\ chan[m].for = m
  /\ \A m, k \in Msgs : nonce[m] = nonce[k] /\ nonce[m] # 0 => m = k
  /\ \A i \in Ids : hostToUp[i] # 0 =>
       pc[hostToUp[i]] \in Pending /\ msg[hostToUp[i]].id = i
  /\ \A i \in DOMAIN wire : wire[i].kind = "request" =>
       /\ wire[i].nonce # 0 /\ wire[i].nonce <= seq
       /\ \A m \in Msgs : nonce[m] = wire[i].nonce => wire[i].msg = m
  /\ \A m \in Msgs : pc[m] = "waiting" => \E i \in DOMAIN wire :
       wire[i].kind = "request" /\ wire[i].msg = m /\ wire[i].nonce = nonce[m]

\* The line is in the upstream's revision.
Fits(line) ==
  /\ proxy.upstreamRev \in specOf(line.method).in
  /\ line.declares \in {proxy.upstreamRev} \cup IF proxy.upstreamRev = oldRev THEN {"none"} ELSE {}

\* The request a line that cancels names.
Named(line, i) ==
  /\ wire[i].kind = "request" /\ wire[i].nonce = line.nonce
  /\ msg[wire[i].msg].id = msg[line.msg].id

Backed(line) ==
  LET m == line.msg
  IN  /\ pc[m] # "idle" /\ live[m] /\ line.kind = msg[m].kind /\ line.method = msg[m].method
      /\ line.kind = "request" => pc[m] \in {"waiting", "done"} /\ Passed(m) /\ line.method # "cancelled"
      /\ line.kind = "request" /\ pc[m] = "done" =>
           \E x \in Outcomes : tape[m] = ObserveRecord(m) \o <<x>>
      /\ line.kind = "notification" => pc[m] = "done"

Lines ==
  \A i \in DOMAIN wire :
    /\ Backed(wire[i]) /\ Fits(wire[i])
    /\ proxy.transport = "stdio" /\ wire[i].method = "cancelled" =>
         \E h \in 1..i - 1 : Named(wire[i], h)

HInv == HostTypes /\ (\A m \in Msgs : Mine(m) /\ Gated(m)) /\ Nonces /\ Lines

-------------------------------------------------------------------------------
\* The methods that cross between the revisions, and the one that cancels.
LEMMA Registry ==
  /\ \A method : translates(method) => specOf(method).in = Revisions
  /\ specOf("cancelled").decide = FALSE /\ specOf("cancelled").local = ""
  <1>1. {"toolsCall", "toolsList", "cancelled"} \subseteq DOMAIN methodRegistry
    BY DEF methodRegistry
  <1>2. /\ methodRegistry["toolsCall"].in = Revisions /\ methodRegistry["toolsList"].in = Revisions
        /\ methodRegistry["cancelled"].in = Revisions
        /\ methodRegistry["cancelled"].decide = FALSE /\ methodRegistry["cancelled"].local = ""
    BY DEF methodRegistry
  <1> QED BY <1>1, <1>2 DEF translates, specOf

LEMMA Resolved ==
  ASSUME NEW context \in Revisions \cup {None}, NEW x \in Messages
  PROVE  /\ resolveHostRevision(context, x) \in Revisions \cup {None}
         /\ resolveHostRevision(context, x) # None =>
              Served(resolveHostRevision(context, x), x)
  <1> DEFINE r == IF x.declares \in Revisions THEN x.declares
                  ELSE IF context = None THEN DefaultRevision ELSE context
  <1>1. r \in Revisions
    BY DEF Revisions, DefaultRevision
  <1>2. resolveHostRevision(context, x) \in {None, r}
    BY DEF resolveHostRevision
  <1>3. ASSUME resolveHostRevision(context, x) # None
        PROVE  Served(r, x)
    BY <1>3 DEF resolveHostRevision, Served
  <1> QED BY <1>1, <1>2, <1>3

\* What a line says of a message that reaches the upstream.
LEMMA Speaking ==
  ASSUME HostTypes, NEW m \in Msgs, msg[m] \in Messages, rev[m] \in Revisions,
         Served(rev[m], msg[m]), checkUpstreamHonorable(rev[m], msg[m]),
         \/ msg[m].kind = "request" /\ Forwardable(m)
         \/ msg[m].kind = "notification" /\ disposition(m) = "forward"
  PROVE  /\ proxy.upstreamRev \in specOf(msg[m].method).in
         /\ translated(m) \in {proxy.upstreamRev} \cup IF proxy.upstreamRev = oldRev THEN {"none"} ELSE {}
         /\ translated(m) \in Declarations
  <1> DEFINE spec == specOf(msg[m].method)
  <1>1. proxy.upstreamRev \in Revisions /\ oldRev # newRev /\ msg[m].declares \in Declarations
    BY HostAssumption DEF HostTypes, ProxyConfig, Messages
  <1>2. rev[m] \in spec.in /\ paramsReachUpstream(msg[m]) /\ dispatchesMessage(rev[m], msg[m])
    <2>1. CASE msg[m].kind = "request" /\ Forwardable(m)
      BY <2>1 DEF Forwardable, paramsReachUpstream, dispatchesMessage
    <2>2. CASE msg[m].kind = "notification" /\ disposition(m) = "forward"
      <3>1. rev[m] \in spec.in /\ spec.note = "forward"
        BY <2>2 DEF disposition, notification
      <3> QED BY <2>2, <3>1 DEF notification, paramsReachUpstream, dispatchesMessage
    <2> QED BY <2>1, <2>2
  <1>3. msg[m].declares # "unreadable"
    <2> SUFFICES ASSUME msg[m].declares = "unreadable" PROVE FALSE
      OBVIOUS
    <2>1. ~unreadParamsReachUpstream(msg[m])
      BY DEF Served
    <2>2. CASE msg[m].kind = "request" /\ Forwardable(m)
      BY <1>2, <2>1, <2>2 DEF Forwardable, unreadParamsReachUpstream
    <2>3. CASE msg[m].kind = "notification" /\ disposition(m) = "forward"
      BY <1>2, <2>1, <2>3 DEF disposition, notification, unreadParamsReachUpstream
    <2> QED BY <2>2, <2>3
  <1>4. proxy.upstreamRev \in spec.in
    BY <1>1, <1>2, Registry DEF checkUpstreamHonorable
  <1>5. CASE rev[m] = proxy.upstreamRev
    <2>1. translated(m) = msg[m].declares
      BY <1>5 DEF translated
    <2>2. CASE msg[m].declares \in Revisions
      BY <1>1, <1>4, <1>5, <2>1, <2>2 DEF Served
    <2>3. CASE msg[m].declares \notin Revisions
      <3>1. msg[m].declares = "none"
        BY <1>1, <1>3, <2>3 DEF Declarations, Served
      <3>2. proxy.upstreamRev # newRev
        BY <1>2, <1>5, <3>1 DEF Served, checkDeclarationReachesUpstream, declaresPerRequestRevision
      <3> QED BY <1>1, <1>4, <2>1, <3>1, <3>2 DEF Revisions
    <2> QED BY <2>2, <2>3
  <1>6. CASE rev[m] # proxy.upstreamRev
    BY <1>1, <1>4, <1>6 DEF translated, declaresPerRequestRevision, Declarations, Revisions
  <1> QED BY <1>5, <1>6

-------------------------------------------------------------------------------
(***************************************************************************)
(* What a step does, by its kind: a message arrives, is handled up to the  *)
(* call, is called, or is written as a notification.                       *)
(***************************************************************************)
Arrives(m) ==
  LET x == sends[m]
  IN  \/ enforceSessionGates(m, x) \/ refuseHostRevision(m, x) \/ refuseHeaderMismatch(m, x)
      \/ AcceptRequest(m, x) \/ RefuseBusy(m, x) \/ AcceptNotification(m, x)

Handles(m) ==
  \/ TornDown(m) \/ malformedDeny(m) \/ Decide(m) \/ dispatchList(m) \/ dispatchLocally(m)
  \/ Refuse(m) \/ strictAuditDenial(m) \/ Proceed(m) \/ CallRefused(m) \/ admitNotification(m)

Calls(m) ==
  \/ awaitNonced(m) \/ WriteRequest(m) \/ CallFails(m) \/ UpstreamAnswers(m)
  \/ RejectAnswer(m) \/ RedactionFails(m) \/ Return(m)

Notifies(m) == forwardHostNotification(m) \/ forwardNotification(m)

LEMMA HostKinds ==
  ASSUME HostSteps
  PROVE  \/ \E m \in DOMAIN sends : Arrives(m)
         \/ \E m \in Msgs : Handles(m) \/ Calls(m) \/ Notifies(m)
  BY Zenon DEF HostSteps, Arrives, Handles, Calls, Notifies

\* An answer the proxy makes up.
Plain(a) == a.of = 0 /\ a.shows = {} /\ a.kind # "variant"

LEMMA PlainAnswers ==
  ASSUME NEW code, NEW kind \in {"error", "local"}
  PROVE  Plain(Refusal(code)) /\ Plain([Refusal(code) EXCEPT !.kind = kind])
  <1>1. Plain(Refusal(code))
    BY DEF Plain, Refusal
  <1> DEFINE a == [Refusal(code) EXCEPT !.kind = kind]
  <1>2. a.of = 0 /\ a.shows = {} /\ a.kind = kind
    BY DEF Refusal
  <1> QED BY <1>1, <1>2 DEF Plain

\* The handler of m ends with an answer of its own, or with none to give.
Ends(m) ==
  /\ pc' = [pc EXCEPT ![m] = "done"]
  /\ \E recs : tape' = [tape EXCEPT ![m] = @ \o recs]
  /\ \/ msg'[m].kind = "request" /\ \E a : Plain(a) /\ reply' = [reply EXCEPT ![m] = Append(@, a)]
     \/ msg'[m].kind # "request" /\ reply' = reply

LEMMA Closing ==
  ASSUME HostTypes, NEW m \in Msgs, NEW recs, NEW a, Close(m, recs, a),
         msg'[m].kind = "request" => Plain(a)
  PROVE  Ends(m)
  BY DEF Close, Ends, HostTypes

\* What an arrival leaves.
Arrived(m, x) ==
  /\ pc[m] = "idle"
  /\ msg' = [msg EXCEPT ![m] = x] /\ live' = [live EXCEPT ![m] = ~killed]
  /\ armed' = [armed EXCEPT ![m] = proxy.strict /\ degraded]
  /\ UNCHANGED envVars /\ UNCHANGED callVars /\ dec' = dec
  /\ hostRev' = hostRev \/ (hostRev = None /\ hostRev' \in Revisions)
  /\ \/ Ends(m) /\ (rev' = rev \/ \E r \in Revisions : rev' = [rev EXCEPT ![m] = r])
     \/ /\ \/ pc' = [pc EXCEPT ![m] = "queued"] /\ x.kind = "request"
           \/ pc' = [pc EXCEPT ![m] = "gated"] /\ x.kind = "notification"
        /\ tape' = tape /\ reply' = reply
        /\ \E r \in Revisions : Served(r, x) /\ rev' = [rev EXCEPT ![m] = r]

LEMMA Arrival ==
  ASSUME HostTypes, NEW m \in DOMAIN sends, Arrives(m)
  PROVE  m \in Msgs /\ sends[m] \in Messages /\ Arrived(m, sends[m])
  <1> DEFINE x == sends[m]
             r == resolveHostRevision(hostRev, x)
  <1>1. m \in Msgs /\ x \in Messages
    BY HostAssumption DEF HostTypes, Msgs
  <1>2. r \in Revisions \cup {None} /\ (r # None => Served(r, x))
    BY <1>1, Resolved DEF HostTypes
  <1>3. ASSUME Receive(m, x)
        PROVE  /\ pc[m] = "idle" /\ msg' = [msg EXCEPT ![m] = x]
               /\ live' = [live EXCEPT ![m] = ~killed]
               /\ armed' = [armed EXCEPT ![m] = proxy.strict /\ degraded]
               /\ UNCHANGED envVars /\ UNCHANGED callVars /\ dec' = dec
    BY <1>3 DEF Receive, envVars, callVars
  <1> HIDE DEF x, r
  <1>4. CASE enforceSessionGates(m, x) \/ refuseHostRevision(m, x) \/ refuseHeaderMismatch(m, x)
    <2>1. Receive(m, x) /\ rev' = rev /\ hostRev' = hostRev
            /\ \E code : Close(m, <<>>, Refusal(code))
      BY <1>4, Zenon DEF enforceSessionGates, refuseHostRevision, refuseHeaderMismatch
    <2>2. Ends(m)
      BY <1>1, <2>1, Closing, PlainAnswers
    <2> QED BY <1>1, <1>3, <2>1, <2>2 DEF Arrived, x
  <1>5. ASSUME Negotiated(m, x)
        PROVE  /\ Receive(m, x) /\ r \in Revisions /\ Served(r, x) /\ rev' = [rev EXCEPT ![m] = r]
               /\ hostRev' = hostRev \/ (hostRev = None /\ hostRev' \in Revisions)
    BY <1>2, <1>5 DEF Negotiated, r
  <1>6. CASE RefuseBusy(m, x)
    <2>1. Ends(m)
      BY <1>1, <1>6, Closing, PlainAnswers DEF RefuseBusy
    <2> QED BY <1>1, <1>3, <1>5, <1>6, <2>1 DEF RefuseBusy, Arrived, x
  <1>7. CASE AcceptRequest(m, x)
    BY <1>1, <1>3, <1>5, <1>7 DEF AcceptRequest, Arrived, x
  <1>8. CASE AcceptNotification(m, x)
    BY <1>1, <1>3, <1>5, <1>8 DEF AcceptNotification, Arrived, x
  <1> QED BY <1>4, <1>6, <1>7, <1>8 DEF Arrives, x

\* What handling a message up to its call leaves.
Handled(m) ==
  /\ pc[m] \in {"queued", "decided", "calling", "gated"}
  /\ UNCHANGED envVars /\ UNCHANGED callVars /\ hostRev' = hostRev /\ msg' = msg /\ rev' = rev
  /\ live' = live /\ armed' = armed
  /\ \/ Ends(m) /\ dec' = dec
     \/ /\ pc[m] = "queued" /\ pc' = [pc EXCEPT ![m] = "decided"] /\ Forwardable(m)
        /\ \E d \in Decisions : dec' = [dec EXCEPT ![m] = d] /\ (killed => d.verdict = "hard")
        /\ tape' = tape /\ reply' = reply
     \/ /\ pc[m] = "decided" /\ pc' = [pc EXCEPT ![m] = "calling"]
        /\ dec[m].verdict = "allow" \/ isObserveDeny(dec[m])
        /\ ~(proxy.strict /\ degraded)
        /\ tape' = [tape EXCEPT ![m] = IF isObserveDeny(dec[m]) THEN Append(@, "observe") ELSE @]
        /\ reply' = reply /\ dec' = dec
     \/ /\ pc[m] = "gated" /\ pc' = [pc EXCEPT ![m] = "notifying"]
        /\ disposition(m) = "forward" /\ ~killed
        /\ tape' = tape /\ reply' = reply /\ dec' = dec

LEMMA Handling ==
  ASSUME HostTypes, NEW m \in Msgs, Mine(m), Handles(m)
  PROVE  Handled(m)
  <1>1. ASSUME NEW from, Handle(m, from)
        PROVE  /\ pc[m] = from /\ UNCHANGED envVars /\ hostRev' = hostRev /\ msg' = msg
               /\ rev' = rev /\ live' = live /\ armed' = armed
    BY <1>1, Zenon DEF Handle
  <1>2. ASSUME NEW from, Handle(m, from), NEW recs, NEW code, Close(m, recs, Refusal(code))
        PROVE  Ends(m)
    BY <1>2, Closing, PlainAnswers
  <1>3. CASE TornDown(m) \/ malformedDeny(m) \/ Refuse(m) \/ strictAuditDenial(m)
    <2>1. \E from \in {"queued", "decided"} : Handle(m, from)
      BY <1>3, Zenon DEF TornDown, malformedDeny, Refuse, strictAuditDenial
    <2>2. \E recs, code : Close(m, recs, Refusal(code))
      BY <1>3, Zenon DEF TornDown, malformedDeny, Refuse, strictAuditDenial, killDenied
    <2>3. dec' = dec /\ UNCHANGED callVars
      BY <1>3 DEF TornDown, malformedDeny, Refuse, strictAuditDenial, callVars
    <2> QED BY <1>1, <1>2, <2>1, <2>2, <2>3, Zenon DEF Handled
  <1>4. CASE Decide(m)
    <2>1. Handle(m, "queued") /\ UNCHANGED callVars /\ tape' = tape /\ reply' = reply
      BY <1>4 DEF Decide, callVars
    <2>2. Forwardable(m)
      BY <1>4 DEF Decide, Enforced, enforces, Forwardable
    <2>3. /\ \E d \in Decisions : dec' = [dec EXCEPT ![m] = d] /\ (killed => d.verdict = "hard")
          /\ pc' = [pc EXCEPT ![m] = "decided"]
      BY <1>4, Zenon DEF Decide
    <2> QED BY <1>1, <2>1, <2>2, <2>3, Zenon DEF Handled
  <1>5. CASE dispatchList(m)
    <2> DEFINE d == [verdict |-> "allow", auditOnly |-> FALSE, redact |-> FALSE]
    <2>1. Handle(m, "queued") /\ UNCHANGED callVars /\ tape' = tape /\ reply' = reply
      BY <1>5 DEF dispatchList, callVars
    <2>2. Forwardable(m)
      <3>1. rev[m] \in specOf(msg[m].method).in /\ specOf(msg[m].method).local = "list"
        BY <1>5 DEF dispatchList, LocalOf
      <3>2. Served(rev[m], msg[m]) /\ msg[m].kind = "request"
        BY <1>1, <2>1 DEF Mine, Requesting
      <3> QED BY <3>1, <3>2 DEF Forwardable, Served, unreadParamsReachUpstream, paramsReachUpstream
    <2>3. d \in Decisions
      BY DEF Decisions
    <2>4. dec' = [dec EXCEPT ![m] = d] /\ ~killed /\ pc' = [pc EXCEPT ![m] = "decided"]
      BY <1>5 DEF dispatchList
    <2> HIDE DEF d
    <2> QED BY <1>1, <2>1, <2>2, <2>3, <2>4, Zenon DEF Handled
  <1>6. CASE dispatchLocally(m)
    <2>1. Handle(m, "queued") /\ UNCHANGED callVars /\ dec' = dec
      BY <1>6 DEF dispatchLocally, callVars
    <2>2. \/ \E recs, code : Close(m, recs, Refusal(code))
          \/ Close(m, <<>>, [Refusal("") EXCEPT !.kind = "local"])
      BY <1>6, Zenon DEF dispatchLocally, killDenied
    <2>3. Ends(m)
      BY <2>2, Closing, PlainAnswers
    <2> QED BY <1>1, <2>1, <2>3, Zenon DEF Handled
  <1>7. CASE Proceed(m)
    <2>1. Handle(m, "decided") /\ UNCHANGED callVars /\ dec' = dec /\ reply' = reply
      BY <1>7 DEF Proceed, callVars
    <2>2. /\ pc' = [pc EXCEPT ![m] = "calling"] /\ (dec[m].verdict = "allow" \/ isObserveDeny(dec[m]))
          /\ ~(proxy.strict /\ degraded)
          /\ tape' = [tape EXCEPT ![m] = IF isObserveDeny(dec[m]) THEN Append(@, "observe") ELSE @]
      BY <1>7, Zenon DEF Proceed, auditGateTripped
    <2> QED BY <1>1, <2>1, <2>2, Zenon DEF Handled
  <1>8. CASE CallRefused(m)
    <2>1. Handle(m, "calling") /\ UNCHANGED callVars /\ dec' = dec
      BY <1>8 DEF CallRefused, callVars
    <2>2. Ends(m)
      BY <1>8, Closing, PlainAnswers DEF CallRefused, recordUpstreamFailure
    <2> QED BY <1>1, <2>1, <2>2, Zenon DEF Handled
  <1>9. CASE admitNotification(m)
    <2>1. Handle(m, "gated") /\ UNCHANGED callVars /\ dec' = dec
      BY <1>9 DEF admitNotification, callVars
    <2>2. msg'[m].kind = "notification"
      BY <1>1, <2>1 DEF Mine, Noting
    <2>3. \/ \E recs : Close(m, recs, None)
          \/ disposition(m) = "forward" /\ ~killed /\ pc' = [pc EXCEPT ![m] = "notifying"]
               /\ tape' = tape /\ reply' = reply
      BY <1>9 DEF admitNotification
    <2>4. CASE \E recs : Close(m, recs, None)
      BY <1>1, <2>1, <2>2, <2>4, Closing DEF Handled
    <2>5. CASE /\ disposition(m) = "forward" /\ ~killed /\ pc' = [pc EXCEPT ![m] = "notifying"]
               /\ tape' = tape /\ reply' = reply
      BY <1>1, <2>1, <2>5, Zenon DEF Handled
    <2> QED BY <2>3, <2>4, <2>5
  <1> QED BY <1>3, <1>4, <1>5, <1>6, <1>7, <1>8, <1>9 DEF Handles

-------------------------------------------------------------------------------
(***************************************************************************)
(* What a step keeps of a message it does not touch.                       *)
(***************************************************************************)
SameSetting == proxy' = proxy /\ sends' = sends

Untouched(k) ==
  /\ pc'[k] = pc[k] /\ msg'[k] = msg[k] /\ rev'[k] = rev[k] /\ dec'[k] = dec[k]
  /\ tape'[k] = tape[k] /\ reply'[k] = reply[k] /\ live'[k] = live[k] /\ armed'[k] = armed[k]

LEMMA SettingKept ==
  ASSUME SameSetting
  PROVE  /\ \A r, x : Served(r, x)' <=> Served(r, x)
         /\ \A d : isObserveDeny(d)' <=> isObserveDeny(d)
         /\ \A r, x : checkUpstreamHonorable(r, x)' <=> checkUpstreamHonorable(r, x)
         /\ \A line : Fits(line)' <=> Fits(line)
  BY DEF SameSetting, Served, isObserveDeny, checkUpstreamHonorable,
     checkDeclarationReachesUpstream, Fits

LEMMA KeptParts ==
  ASSUME SameSetting, NEW k, Untouched(k)
  PROVE  /\ Passed(k)' <=> Passed(k)
         /\ ObserveRecord(k)' = ObserveRecord(k)
         /\ Forwardable(k)' <=> Forwardable(k)
         /\ Answered(k)' <=> Answered(k)
         /\ disposition(k)' = disposition(k)
  <1>1. isObserveDeny(dec[k])' <=> isObserveDeny(dec[k])
    BY DEF SameSetting, Untouched, isObserveDeny
  <1>2. Passed(k)' <=> Passed(k)
    BY <1>1, Zenon DEF Passed, Untouched
  <1>3. ObserveRecord(k)' = ObserveRecord(k)
    BY <1>1 DEF ObserveRecord, Untouched
  <1>4. Forwardable(k)' <=> Forwardable(k)
    BY DEF Forwardable, Untouched
  <1>5. OwnAnswer(k, reply[k][1])' <=> OwnAnswer(k, reply[k][1])
    BY DEF OwnAnswer, Untouched, SameSetting
  <1>6. Answered(k)' <=> Answered(k)
    BY <1>5 DEF Answered, Untouched
  <1>7. disposition(k)' = disposition(k)
    BY DEF disposition, Untouched
  <1> QED BY <1>2, <1>3, <1>4, <1>6, <1>7

LEMMA MineKept ==
  ASSUME SameSetting, NEW k, Untouched(k), Mine(k)
  PROVE  Mine(k)'
  <1>1. Served(rev[k], msg[k])' <=> Served(rev[k], msg[k])
    BY DEF SameSetting, Untouched, Served, checkUpstreamHonorable, checkDeclarationReachesUpstream
  <1>2. checkUpstreamHonorable(rev[k], msg[k])' <=> checkUpstreamHonorable(rev[k], msg[k])
    BY DEF SameSetting, Untouched, checkUpstreamHonorable
  <1>3. /\ pc'[k] = pc[k] /\ msg'[k] = msg[k] /\ rev'[k] = rev[k] /\ dec'[k] = dec[k]
        /\ tape'[k] = tape[k] /\ reply'[k] = reply[k] /\ sends' = sends
    BY DEF Untouched, SameSetting
  <1> QED BY <1>1, <1>2, <1>3, KeptParts, Zenon DEF Mine

LEMMA GatedKept ==
  ASSUME NEW k, Untouched(k), SameSetting, killed' = killed, degraded' = degraded, Gated(k)
  PROVE  Gated(k)'
  <1>1. pc'[k] = pc[k] /\ dec'[k] = dec[k] /\ live'[k] = live[k] /\ armed'[k] = armed[k] /\ proxy' = proxy
    BY DEF Untouched, SameSetting
  <1> QED BY <1>1, Zenon DEF Gated

\* A step that makes no call and writes no line keeps what is said of calls and lines.
LEMMA CallsKept ==
  ASSUME HInv, SameSetting, UNCHANGED callVars, NEW m \in Msgs,
         \A k \in Msgs \ {m} : Untouched(k),
         pc[m] \notin {"mapped", "waiting", "done"}, pc'[m] \notin Pending
  PROVE  Nonces' /\ Lines'
  <1>1. /\ nonce' = nonce /\ seq' = seq /\ hostToUp' = hostToUp /\ chan' = chan /\ wire' = wire
    BY DEF callVars
  <1>2. Nonces /\ Lines /\ HostTypes
    BY DEF HInv
  <1>3. nonce[m] = 0 /\ chan[m] = None /\ (\A i \in Ids : hostToUp[i] # m \/ hostToUp[i] = 0)
    BY <1>2 DEF Nonces, Pending
  <1>4. \A i \in DOMAIN wire : wire[i] \in LineShape /\ wire[i].msg \in Msgs \ {m}
    <2> SUFFICES ASSUME NEW i \in DOMAIN wire
                 PROVE  wire[i] \in LineShape /\ wire[i].msg \in Msgs \ {m}
      OBVIOUS
    <2> DEFINE line == wire[i]
    <2>1. line \in LineShape
      BY <1>2 DEF HostTypes
    <2>2. line.msg \in Msgs /\ line.kind \in {"request", "notification"}
      BY <2>1 DEF LineShape
    <2>3. Backed(line)
      BY <1>2 DEF Lines
    <2> HIDE DEF line
    <2>4. line.msg # m
      BY <2>2, <2>3 DEF Backed
    <2> QED BY <2>1, <2>2, <2>4 DEF line
  <1>5. \A k \in Msgs \ {m} : pc'[k] = pc[k] /\ msg'[k] = msg[k]
    BY DEF Untouched
  <1>6. Nonces'
    <2>1. \A k \in Msgs : nonce[k] # 0 => k # m
      BY <1>3
    <2>2. \A k \in Msgs : /\ nonce'[k] <= seq' /\ (nonce'[k] # 0 <=> pc'[k] \in Pending)
                          /\ chan'[k] # None => pc'[k] \in Pending /\ chan'[k].for = k
      BY <1>1, <1>2, <1>3, <1>5 DEF Nonces
    <2>3. \A i \in Ids : hostToUp'[i] # 0 =>
            pc'[hostToUp'[i]] \in Pending /\ msg'[hostToUp'[i]].id = i
      <3> SUFFICES ASSUME NEW i \in Ids, hostToUp[i] # 0
                   PROVE  pc'[hostToUp[i]] \in Pending /\ msg'[hostToUp[i]].id = i
        BY <1>1
      <3>1. hostToUp[i] \in Msgs \ {m}
        BY <1>2, <1>3 DEF HostTypes
      <3> QED BY <1>2, <1>5, <3>1 DEF Nonces
    <2>4. \A k \in Msgs : pc'[k] = "waiting" => \E i \in DOMAIN wire' :
            wire'[i].kind = "request" /\ wire'[i].msg = k /\ wire'[i].nonce = nonce'[k]
      BY <1>1, <1>2, <1>5 DEF Nonces, Pending
    <2> QED BY <1>1, <1>2, <2>2, <2>3, <2>4 DEF Nonces
  <1>7. Lines'
    <2> SUFFICES ASSUME NEW i \in DOMAIN wire
                 PROVE  /\ Backed(wire[i])' /\ Fits(wire[i])'
                        /\ (proxy.transport = "stdio" /\ wire[i].method = "cancelled" =>
                             \E h \in 1..i - 1 : Named(wire[i], h))'
      BY <1>1 DEF Lines
    <2> DEFINE line == wire[i]  k == line.msg
    <2>1. k \in Msgs \ {m} /\ Untouched(k) /\ wire' = wire
      BY <1>1, <1>4
    <2>2. Backed(wire[i])'
      <3>1. Backed(line)
        BY <1>2 DEF Lines
      <3>2. (Passed(k)' <=> Passed(k)) /\ ObserveRecord(k)' = ObserveRecord(k)
        BY <2>1, KeptParts
      <3>3. pc'[k] = pc[k] /\ live'[k] = live[k] /\ msg'[k] = msg[k] /\ tape'[k] = tape[k]
        BY <2>1 DEF Untouched
      <3> QED BY <2>1, <3>1, <3>2, <3>3 DEF Backed
    <2>3. Fits(wire[i])'
      BY <1>2, <2>1 DEF Lines, Fits, SameSetting
    <2>4. ASSUME proxy'.transport = "stdio", wire'[i].method = "cancelled"
          PROVE  \E h \in 1..i - 1 : Named(wire[i], h)'
      <3>1. PICK h \in 1..i - 1 : Named(wire[i], h)
        BY <1>2, <2>1, <2>4 DEF Lines, SameSetting
      <3>2. h \in DOMAIN wire
        BY <1>2 DEF HostTypes
      <3>3. wire[h].msg \in Msgs \ {m}
        BY <1>4, <3>2
      <3>4. Named(wire[i], h)'
        BY <1>5, <2>1, <3>1, <3>3 DEF Named
      <3> QED BY <3>4
    <2> QED BY <2>2, <2>3, <2>4
  <1> QED BY <1>6, <1>7

LEMMA ArrivalKeeps ==
  ASSUME HInv, NEW m \in DOMAIN sends, Arrives(m)
  PROVE  HInv'
  <1>1. m \in Msgs /\ sends[m] \in Messages /\ Arrived(m, sends[m]) /\ HostTypes
    BY Arrival DEF HInv
  <1>2. proxy' = proxy /\ sends' = sends /\ killed' = killed /\ degraded' = degraded
    BY <1>1, Zenon DEF Arrived, envVars
  <1>3. /\ pc[m] = "idle" /\ msg' = [msg EXCEPT ![m] = sends[m]] /\ dec' = dec
        /\ live' = [live EXCEPT ![m] = ~killed]
        /\ armed' = [armed EXCEPT ![m] = proxy.strict /\ degraded]
        /\ nonce' = nonce /\ seq' = seq /\ hostToUp' = hostToUp /\ chan' = chan /\ wire' = wire
    BY <1>1 DEF Arrived, callVars
  <1>4. \E p \in {"done", "queued", "gated"} : pc' = [pc EXCEPT ![m] = p]
    BY <1>1 DEF Arrived, Ends
  <1>5. \E t : tape' = [tape EXCEPT ![m] = t]
    <2>1. CASE tape' = tape
      <3>1. tape' = [tape EXCEPT ![m] = tape[m]]
        BY <1>1, <2>1 DEF HostTypes
      <3> QED BY <3>1
    <2> QED BY <1>1, <2>1 DEF Arrived, Ends
  <1>6. \E a : reply' = [reply EXCEPT ![m] = a]
    <2>1. CASE reply' = reply
      <3>1. reply' = [reply EXCEPT ![m] = reply[m]]
        BY <1>1, <2>1 DEF HostTypes
      <3> QED BY <3>1
    <2> QED BY <1>1, <2>1 DEF Arrived, Ends
  <1>7. rev' = rev \/ \E r \in Revisions : rev' = [rev EXCEPT ![m] = r]
    BY <1>1 DEF Arrived
  <1>8. HostTypes'
    <2>1. live' \in [Msgs -> BOOLEAN] /\ armed' \in [Msgs -> BOOLEAN]
      BY <1>1, <1>3, Zenon DEF HostTypes
    <2>2. killed' \in BOOLEAN /\ degraded' \in BOOLEAN
      BY <1>1, <1>2 DEF HostTypes
    <2>3. /\ pc' \in [Msgs -> Phases] /\ msg' \in [Msgs -> Messages \cup {None}]
          /\ rev' \in [Msgs -> Revisions \cup {None}]
      <3>1. pc' \in [Msgs -> Phases]
        BY <1>1, <1>4 DEF HostTypes, Phases, Requesting, Noting
      <3>2. msg' \in [Msgs -> Messages \cup {None}]
        BY <1>1, <1>3 DEF HostTypes
      <3>3. rev' \in [Msgs -> Revisions \cup {None}]
        BY <1>1, <1>7 DEF HostTypes
      <3> QED BY <3>1, <3>2, <3>3
    <2>4. tape' = [k \in Msgs |-> tape'[k]] /\ reply' = [k \in Msgs |-> reply'[k]]
      BY <1>1, <1>5, <1>6 DEF HostTypes
    <2>5. hostRev' \in Revisions \cup {None}
      BY <1>1 DEF HostTypes, Arrived
    <2> QED BY <1>1, <1>2, <1>3, <2>1, <2>2, <2>3, <2>4, <2>5 DEF HostTypes
  <1>9. \A k \in Msgs \ {m} : Untouched(k)
    <2> SUFFICES ASSUME NEW k \in Msgs \ {m} PROVE Untouched(k)
      OBVIOUS
    <2>1. live'[k] = live[k] /\ armed'[k] = armed[k]
      BY <1>1, <1>3 DEF HostTypes
    <2>2. pc'[k] = pc[k] /\ msg'[k] = msg[k] /\ rev'[k] = rev[k] /\ dec'[k] = dec[k]
      BY <1>1, <1>3, <1>4, <1>7 DEF HostTypes
    <2>3. tape'[k] = tape[k] /\ reply'[k] = reply[k]
      BY <1>1, <1>5, <1>6 DEF HostTypes
    <2> QED BY <2>1, <2>2, <2>3 DEF Untouched
  <1>10. Nonces' /\ Lines'
    BY <1>1, <1>2, <1>3, <1>4, <1>9, CallsKept DEF SameSetting, callVars, Pending, HostTypes
  <1>11. Gated(m)'
    <2>1. live'[m] = ~killed /\ (armed'[m] <=> proxy.strict /\ degraded)
      BY <1>1, <1>3, Zenon DEF HostTypes
    <2>2. pc'[m] \notin {"decided", "notifying"}
      BY <1>1, <1>4 DEF HostTypes
    <2> QED BY <1>2, <2>1, <2>2, Zenon DEF Gated
  <1>12. Mine(m)'
    <2>1. msg'[m] = sends[m] /\ reply[m] = <<>> /\ tape[m] = <<>>
      BY <1>1, <1>3 DEF HInv, Mine, HostTypes, Cleared
    <2>2. CASE Ends(m)
      <3>1. pc'[m] = "done"
        BY <1>1, <2>2 DEF Ends, HostTypes
      <3>2. Answered(m)'
        <4>1. CASE msg'[m].kind = "request"
          <5>1. PICK a : Plain(a) /\ reply' = [reply EXCEPT ![m] = Append(@, a)]
            BY <2>2, <4>1 DEF Ends
          <5>2. reply'[m] = <<a>>
            BY <1>1, <2>1, <5>1 DEF HostTypes
          <5>3. reply'[m] = <<reply'[m][1]>> /\ reply'[m][1] = a
            BY <5>2
          <5> QED BY <4>1, <5>1, <5>3 DEF Answered, OwnAnswer, Plain
        <4>2. CASE msg'[m].kind # "request"
          BY <2>1, <2>2, <4>2 DEF Answered, Ends
        <4> QED BY <4>1, <4>2
      <3> QED BY <1>2, <2>1, <3>1, <3>2 DEF Mine, Requesting, Noting, Cleared, Pending
    <2>3. CASE ~Ends(m)
      <3>1. PICK r \in Revisions : Served(r, sends[m]) /\ rev' = [rev EXCEPT ![m] = r]
        BY <1>1, <2>3 DEF Arrived
      <3>2. rev'[m] = r /\ tape'[m] = <<>> /\ reply'[m] = <<>>
        BY <1>1, <2>1, <2>3, <3>1 DEF Arrived, HostTypes
      <3>3. \/ pc'[m] = "queued" /\ msg'[m].kind = "request"
            \/ pc'[m] = "gated" /\ msg'[m].kind = "notification"
        BY <1>1, <2>1, <2>3 DEF Arrived, HostTypes
      <3>4. Served(rev[m], msg[m])'
        BY <1>2, <2>1, <3>1, <3>2 DEF Served, checkUpstreamHonorable, checkDeclarationReachesUpstream
      <3> QED BY <1>2, <2>1, <3>1, <3>2, <3>3, <3>4 DEF Mine, Requesting, Noting, Cleared, Pending
    <2> QED BY <2>2, <2>3
  <1>13. \A k \in Msgs \ {m} : Mine(k)' /\ Gated(k)'
    BY <1>2, <1>9, MineKept, GatedKept DEF HInv, SameSetting
  <1> QED BY <1>8, <1>10, <1>11, <1>12, <1>13 DEF HInv

-------------------------------------------------------------------------------
(***************************************************************************)
(* The steps of a message that has arrived.                                *)
(***************************************************************************)
CallTypes ==
  /\ nonce \in [Msgs -> Nat] /\ seq \in Nat /\ hostToUp \in [Ids -> Msgs \cup {0}]
  /\ chan \in [Msgs -> Deliveries \cup {None}] /\ wire \in Seq(LineShape)

\* Only what belongs to m, and the calls, may change.
Stepped(m) ==
  /\ SameSetting /\ killed' = killed /\ degraded' = degraded /\ hostRev' = hostRev
  /\ msg' = msg /\ rev' = rev /\ live' = live /\ armed' = armed
  /\ \E p \in Phases : pc' = [pc EXCEPT ![m] = p]
  /\ dec' = dec \/ \E d \in Decisions : dec' = [dec EXCEPT ![m] = d]
  /\ tape' = tape \/ \E t : tape' = [tape EXCEPT ![m] = t]
  /\ reply' = reply \/ \E a : reply' = [reply EXCEPT ![m] = a]

LEMMA SteppedKeeps ==
  ASSUME HInv, NEW m \in Msgs, Stepped(m)
  PROVE  /\ \A k \in Msgs \ {m} : Untouched(k)
         /\ CallTypes' /\ Mine(m)' /\ Gated(m)' /\ Nonces' /\ Lines' => HInv'
  <1>1. HostTypes
    BY DEF HInv
  <1>2. /\ SameSetting /\ killed' = killed /\ degraded' = degraded /\ hostRev' = hostRev
        /\ msg' = msg /\ rev' = rev /\ live' = live /\ armed' = armed
    BY DEF Stepped
  <1>3. /\ \E p \in Phases : pc' = [pc EXCEPT ![m] = p]
        /\ dec' = dec \/ \E d \in Decisions : dec' = [dec EXCEPT ![m] = d]
        /\ tape' = tape \/ \E t : tape' = [tape EXCEPT ![m] = t]
        /\ reply' = reply \/ \E a : reply' = [reply EXCEPT ![m] = a]
    BY DEF Stepped
  <1>4. \A k \in Msgs \ {m} : Untouched(k)
    <2> SUFFICES ASSUME NEW k \in Msgs \ {m} PROVE Untouched(k)
      OBVIOUS
    <2>1. pc'[k] = pc[k] /\ dec'[k] = dec[k]
      BY <1>1, <1>3 DEF HostTypes
    <2>2. tape'[k] = tape[k] /\ reply'[k] = reply[k]
      BY <1>1, <1>3 DEF HostTypes
    <2> QED BY <1>2, <2>1, <2>2 DEF Untouched
  <1>5. ASSUME CallTypes'
        PROVE  HostTypes'
    <2>1. live' \in [Msgs -> BOOLEAN] /\ armed' \in [Msgs -> BOOLEAN]
          /\ killed' \in BOOLEAN /\ degraded' \in BOOLEAN
      BY <1>1, <1>2, Zenon DEF HostTypes
    <2>2. pc' \in [Msgs -> Phases]
      BY <1>1, <1>3 DEF HostTypes
    <2>3. dec' \in [Msgs -> Decisions \cup {None}]
      BY <1>1, <1>3 DEF HostTypes
    <2>4. tape' = [k \in Msgs |-> tape'[k]]
      BY <1>1, <1>3 DEF HostTypes
    <2>5. reply' = [k \in Msgs |-> reply'[k]]
      BY <1>1, <1>3 DEF HostTypes
    <2>6. /\ msg' \in [Msgs -> Messages \cup {None}] /\ rev' \in [Msgs -> Revisions \cup {None}]
          /\ proxy' \in ProxyConfig /\ sends' \in Seq(Messages) /\ Len(sends') <= MaxMsgs
          /\ hostRev' \in Revisions \cup {None}
      BY <1>1, <1>2, Zenon DEF HostTypes, SameSetting
    <2> QED BY <1>5, <2>1, <2>2, <2>3, <2>4, <2>5, <2>6, Zenon DEF HostTypes, CallTypes
  <1>6. \A k \in Msgs \ {m} : Mine(k)' /\ Gated(k)'
    BY <1>2, <1>4, MineKept, GatedKept DEF HInv
  <1> QED BY <1>4, <1>5, <1>6 DEF HInv

\* A message that is done with an answer of its own, or needs none.
LEMMA MineDone ==
  ASSUME HostTypes, NEW m \in Msgs, Mine(m), pc[m] \notin {"idle", "done"}, SameSetting,
         msg' = msg, rev' = rev, dec' = dec, pc' = [pc EXCEPT ![m] = "done"],
         \/ /\ msg[m].kind = "request"
            /\ \E a : OwnAnswer(m, a) /\ reply' = [reply EXCEPT ![m] = Append(@, a)]
         \/ msg[m].kind # "request" /\ reply' = reply
  PROVE  Mine(m)'
  <1>1. pc'[m] = "done" /\ msg'[m] = msg[m] /\ reply[m] = <<>> /\ m \in DOMAIN sends' /\ msg'[m] = sends'[m]
    BY DEF HostTypes, Mine, SameSetting
  <1>2. Answered(m)'
    <2>1. CASE msg[m].kind = "request"
      <3>1. PICK a : OwnAnswer(m, a) /\ reply' = [reply EXCEPT ![m] = Append(@, a)]
        BY <2>1
      <3>2. reply'[m] = <<a>>
        BY <1>1, <3>1 DEF HostTypes
      <3>3. reply'[m] = <<reply'[m][1]>> /\ reply'[m][1] = a
        BY <3>2
      <3>4. OwnAnswer(m, a)'
        BY <3>1 DEF OwnAnswer, SameSetting
      <3> QED BY <1>1, <2>1, <3>3, <3>4 DEF Answered, OwnAnswer
    <2>2. CASE msg[m].kind # "request"
      BY <1>1, <2>2 DEF Answered
    <2> QED BY <2>1, <2>2
  <1> QED BY <1>1, <1>2 DEF Mine, Requesting, Noting, Cleared, Pending

LEMMA HandlingKeeps ==
  ASSUME HInv, NEW m \in Msgs, Handles(m)
  PROVE  HInv'
  <1>1. HostTypes /\ Mine(m) /\ Gated(m) /\ Handled(m)
    BY Handling DEF HInv
  <1>2. /\ pc[m] \in {"queued", "decided", "calling", "gated"}
        /\ proxy' = proxy /\ sends' = sends /\ killed' = killed /\ degraded' = degraded
        /\ hostRev' = hostRev /\ msg' = msg /\ rev' = rev /\ live' = live /\ armed' = armed
        /\ nonce' = nonce /\ seq' = seq /\ hostToUp' = hostToUp /\ chan' = chan /\ wire' = wire
    BY <1>1, Zenon DEF Handled, envVars, callVars
  <1>3. /\ m \in DOMAIN sends /\ msg[m] = sends[m] /\ rev[m] \in Revisions /\ Served(rev[m], msg[m])
        /\ reply[m] = <<>> /\ msg[m].kind \in {"request", "notification"}
    BY <1>1, <1>2 DEF Mine, Requesting, Noting
  <1>4. SameSetting
    BY <1>2 DEF SameSetting
  <1>5. CASE Ends(m) /\ dec' = dec
    <2>1. pc' = [pc EXCEPT ![m] = "done"] /\ pc'[m] = "done"
      BY <1>1, <1>5 DEF Ends, HostTypes
    <2>2. Stepped(m)
      BY <1>2, <1>4, <1>5 DEF Stepped, Ends, Phases
    <2>3. Mine(m)'
      <3>1. \A a : Plain(a) => OwnAnswer(m, a)
        BY DEF Plain, OwnAnswer
      <3> QED BY <1>1, <1>2, <1>4, <1>5, <2>1, <3>1, MineDone DEF Ends
    <2>4. Gated(m)'
      BY <1>1, <1>2, <2>1, Zenon DEF Gated
    <2>5. Nonces' /\ Lines'
      BY <1>2, <1>4, <2>1, <2>2, SteppedKeeps, CallsKept DEF callVars, Pending
    <2>6. CallTypes'
      BY <1>1, <1>2 DEF CallTypes, HostTypes
    <2> QED BY <2>2, <2>3, <2>4, <2>5, <2>6, SteppedKeeps
  <1>6. CASE /\ pc[m] = "queued" /\ pc' = [pc EXCEPT ![m] = "decided"] /\ Forwardable(m)
             /\ \E d \in Decisions : dec' = [dec EXCEPT ![m] = d] /\ (killed => d.verdict = "hard")
             /\ tape' = tape /\ reply' = reply
    <2>1. PICK d \in Decisions : dec' = [dec EXCEPT ![m] = d] /\ (killed => d.verdict = "hard")
      BY <1>6
    <2>2. pc'[m] = "decided" /\ dec'[m] = d /\ msg[m].kind = "request" /\ tape[m] = <<>>
      BY <1>1, <1>6, <2>1 DEF HostTypes, Mine, Requesting, Cleared
    <2>3. Stepped(m)
      BY <1>2, <1>4, <1>6, <2>1 DEF Stepped, Phases, Requesting
    <2>4. Mine(m)'
      <3>1. Served(rev[m], msg[m])'
        BY <1>2, <1>3 DEF Served, checkUpstreamHonorable, checkDeclarationReachesUpstream
      <3>2. Forwardable(m)'
        BY <1>2, <1>6 DEF Forwardable
      <3> QED BY <1>2, <1>3, <1>6, <2>2, <3>1, <3>2 DEF Mine, Requesting, Noting, Cleared, Pending
    <2>5. Gated(m)'
      BY <1>1, <1>2, <1>6, <2>1, <2>2 DEF Gated
    <2>6. Nonces' /\ Lines'
      BY <1>2, <1>4, <2>2, <2>3, SteppedKeeps, CallsKept DEF callVars, Pending
    <2>7. CallTypes'
      BY <1>1, <1>2 DEF CallTypes, HostTypes
    <2> QED BY <2>3, <2>4, <2>5, <2>6, <2>7, SteppedKeeps
  <1>7. CASE /\ pc[m] = "decided" /\ pc' = [pc EXCEPT ![m] = "calling"]
             /\ dec[m].verdict = "allow" \/ isObserveDeny(dec[m])
             /\ ~(proxy.strict /\ degraded)
             /\ tape' = [tape EXCEPT ![m] = IF isObserveDeny(dec[m]) THEN Append(@, "observe") ELSE @]
             /\ reply' = reply /\ dec' = dec
    <2>1. /\ pc'[m] = "calling" /\ msg[m].kind = "request" /\ tape[m] = <<>>
          /\ dec[m] \in Decisions /\ Forwardable(m)
      BY <1>1, <1>7 DEF HostTypes, Mine, Requesting, Cleared
    <2>2. tape'[m] = ObserveRecord(m) /\ ObserveRecord(m)' = ObserveRecord(m)
      BY <1>1, <1>2, <1>7, <2>1 DEF HostTypes, ObserveRecord, isObserveDeny
    <2>3. Passed(m)'
      <3>1. live[m] /\ ~armed[m]
        BY <1>1, <1>7 DEF Gated, isObserveDeny
      <3> QED BY <1>2, <1>7, <3>1 DEF Passed, isObserveDeny
    <2>4. Stepped(m)
      BY <1>2, <1>4, <1>7 DEF Stepped, Phases, Requesting
    <2>5. Mine(m)'
      <3>1. Served(rev[m], msg[m])'
        BY <1>2, <1>3 DEF Served, checkUpstreamHonorable, checkDeclarationReachesUpstream
      <3>2. Forwardable(m)'
        BY <1>2, <2>1 DEF Forwardable
      <3> QED BY <1>2, <1>3, <1>7, <2>1, <2>2, <2>3, <3>1, <3>2 DEF Mine, Requesting, Noting, Cleared, Pending
    <2>6. Gated(m)'
      BY <1>1, <1>2, <1>7, <2>1 DEF Gated
    <2>7. Nonces' /\ Lines'
      BY <1>2, <1>4, <2>1, <2>4, SteppedKeeps, CallsKept DEF callVars, Pending
    <2>8. CallTypes'
      BY <1>1, <1>2 DEF CallTypes, HostTypes
    <2> QED BY <2>4, <2>5, <2>6, <2>7, <2>8, SteppedKeeps
  <1>8. CASE /\ pc[m] = "gated" /\ pc' = [pc EXCEPT ![m] = "notifying"]
             /\ disposition(m) = "forward" /\ ~killed
             /\ tape' = tape /\ reply' = reply /\ dec' = dec
    <2>1. pc'[m] = "notifying" /\ msg[m].kind = "notification" /\ tape[m] = <<>>
      BY <1>1, <1>8 DEF HostTypes, Mine, Noting, Cleared
    <2>2. Stepped(m)
      BY <1>2, <1>4, <1>8 DEF Stepped, Phases, Noting
    <2>3. Mine(m)'
      <3>1. Served(rev[m], msg[m])'
        BY <1>2, <1>3 DEF Served, checkUpstreamHonorable, checkDeclarationReachesUpstream
      <3>2. disposition(m)' = disposition(m)
        BY <1>2 DEF disposition
      <3> QED BY <1>2, <1>3, <1>8, <2>1, <3>1, <3>2 DEF Mine, Requesting, Noting, Cleared, Pending
    <2>4. Gated(m)'
      BY <1>1, <1>2, <1>8, <2>1 DEF Gated
    <2>5. Nonces' /\ Lines'
      BY <1>2, <1>4, <2>1, <2>2, SteppedKeeps, CallsKept DEF callVars, Pending
    <2>6. CallTypes'
      BY <1>1, <1>2 DEF CallTypes, HostTypes
    <2> QED BY <2>2, <2>3, <2>4, <2>5, <2>6, SteppedKeeps
  <1> QED BY <1>1, <1>5, <1>6, <1>7, <1>8 DEF Handled

-------------------------------------------------------------------------------
(***************************************************************************)
(* Calls.                                                                  *)
(***************************************************************************)
LEMMA GatedMoves ==
  ASSUME NEW m \in Msgs, Stepped(m), Gated(m), pc[m] \notin {"idle", "done"},
         pc'[m] \notin {"decided", "notifying"}
  PROVE  Gated(m)'
  <1>1. proxy' = proxy /\ killed' = killed /\ degraded' = degraded /\ live' = live /\ armed' = armed
    BY DEF Stepped, SameSetting
  <1> QED BY <1>1, Zenon DEF Gated

\* What stands behind the lines, when a step of m writes at most one.
LEMMA LinesGrow ==
  ASSUME HInv, NEW m \in Msgs, Stepped(m),
         \A line \in LineShape : line.msg = m /\ Backed(line) => Backed(line)',
         \/ wire' = wire
         \/ \E l \in LineShape :
              /\ wire' = Append(wire, l) /\ Backed(l)' /\ Fits(l)
              /\ proxy.transport = "stdio" /\ l.method = "cancelled" =>
                   \E h \in DOMAIN wire : Named(l, h)
  PROVE  Lines' /\ wire' \in Seq(LineShape)
  <1>1. wire \in Seq(LineShape) /\ Lines /\ proxy' = proxy /\ msg' = msg /\ SameSetting
    BY DEF HInv, HostTypes, Stepped, SameSetting
  <1>2. wire' \in Seq(LineShape)
    BY <1>1
  <1>3. \A i \in DOMAIN wire : i \in DOMAIN wire' /\ wire'[i] = wire[i]
    BY <1>1
  <1>4. \A line : Fits(line)' <=> Fits(line)
    BY <1>1, SettingKept
  <1>5. ASSUME NEW i \in DOMAIN wire
        PROVE  Backed(wire[i])'
    <2>0. PICK line \in LineShape : line = wire[i]
      BY <1>1
    <2>1. Backed(line) /\ wire'[i] = line
      BY <1>1, <1>3, <2>0 DEF Lines
    <2> DEFINE k == line.msg
    <2>b. k \in Msgs
      BY DEF LineShape
    <2>2. CASE k = m
      <3>1. Backed(line)'
        BY <2>1, <2>2
      <3> QED BY <2>1, <3>1 DEF Backed
    <2>3. CASE k # m
      <3>1. Untouched(k)
        BY <2>b, <2>3, SteppedKeeps
      <3>2. (Passed(k)' <=> Passed(k)) /\ ObserveRecord(k)' = ObserveRecord(k)
        BY <1>1, <3>1, KeptParts
      <3>3. pc'[k] = pc[k] /\ live'[k] = live[k] /\ msg'[k] = msg[k] /\ tape'[k] = tape[k]
        BY <3>1 DEF Untouched
      <3> QED BY <2>1, <3>2, <3>3, ZenonT(40) DEF Backed
    <2> QED BY <2>2, <2>3
  <1>6. ASSUME NEW line, NEW h \in DOMAIN wire, Named(line, h)
        PROVE  Named(line, h)'
    BY <1>1, <1>3, <1>6 DEF Named
  <1>7. ASSUME NEW i \in DOMAIN wire', proxy.transport = "stdio", wire'[i].method = "cancelled"
        PROVE  \E h \in 1..i - 1 : Named(wire[i], h)'
    <2>1. CASE i \in DOMAIN wire
      <3>1. PICK h \in 1..i - 1 : Named(wire[i], h)
        BY <1>1, <1>3, <1>7, <2>1 DEF Lines
      <3>2. h \in DOMAIN wire /\ wire'[i] = wire[i]
        BY <1>1, <1>3, <2>1
      <3>3. Named(wire[i], h)'
        BY <1>1, <1>3, <3>1, <3>2 DEF Named
      <3> QED BY <3>3
    <2>2. CASE i \notin DOMAIN wire
      <3>1. PICK l \in LineShape : wire' = Append(wire, l) /\ \E h \in DOMAIN wire : Named(l, h)
        <4>1. PICK l \in LineShape : /\ wire' = Append(wire, l)
                /\ (proxy.transport = "stdio" /\ l.method = "cancelled" =>
                     \E h \in DOMAIN wire : Named(l, h))
          BY <1>7, <2>2
        <4>2. wire'[i] = l
          BY <1>1, <2>2, <4>1
        <4> QED BY <1>7, <4>1, <4>2
      <3>2. wire'[i] = l /\ i = Len(wire) + 1
        BY <1>1, <2>2, <3>1
      <3>3. PICK h \in DOMAIN wire : Named(l, h)
        BY <3>1
      <3>4. h \in 1..i - 1
        BY <1>1, <3>2
      <3>5. Named(wire[i], h)'
        BY <1>1, <1>3, <3>2, <3>3 DEF Named
      <3> QED BY <3>4, <3>5
    <2> QED BY <2>1, <2>2
  <1>8. ASSUME NEW i \in DOMAIN wire', i \notin DOMAIN wire
        PROVE  Backed(wire[i])' /\ Fits(wire[i])'
    <2>1. PICK l \in LineShape : wire' = Append(wire, l) /\ Backed(l)' /\ Fits(l)
      BY <1>8
    <2>2. wire'[i] = l
      BY <1>1, <1>8, <2>1
    <2> QED BY <1>4, <2>1, <2>2, ZenonT(40) DEF Backed, Fits
  <1>9. ASSUME NEW i \in DOMAIN wire
        PROVE  Fits(wire[i])'
    BY <1>1, <1>3 DEF Lines, Fits
  <1> QED BY <1>1, <1>2, <1>5, <1>7, <1>8, <1>9 DEF Lines

\* The lines of a message, when its handler ends after the call, or it has none.
LEMMA OwnLinesDone ==
  ASSUME HInv, NEW m \in Msgs, Stepped(m), dec' = dec, pc' = [pc EXCEPT ![m] = "done"],
         \/ pc[m] \in Noting
         \/ pc[m] \in Pending /\ \E x \in Outcomes : tape' = [tape EXCEPT ![m] = @ \o <<x>>]
  PROVE  \A line \in LineShape : line.msg = m /\ Backed(line) => Backed(line)'
  <1> SUFFICES ASSUME NEW line \in LineShape, line.msg = m, Backed(line)
               PROVE  Backed(line)'
    OBVIOUS
  <1>1. HostTypes /\ Mine(m) /\ proxy' = proxy /\ msg' = msg /\ live' = live /\ armed' = armed
    BY DEF HInv, Stepped, SameSetting
  <1>2. pc'[m] = "done" /\ line.kind \in {"request", "notification"}
    BY <1>1 DEF HostTypes, LineShape
  <1>3. CASE pc[m] \in Noting
    BY <1>2, <1>3 DEF Noting, Backed
  <1>4. CASE pc[m] \in Pending /\ \E x \in Outcomes : tape' = [tape EXCEPT ![m] = @ \o <<x>>]
    <2>1. PICK x \in Outcomes : tape' = [tape EXCEPT ![m] = @ \o <<x>>]
      BY <1>4
    <2>2. tape'[m] = ObserveRecord(m) \o <<x>> /\ ObserveRecord(m)' = ObserveRecord(m)
      BY <1>1, <1>4, <2>1 DEF HostTypes, Mine, Pending, Cleared, ObserveRecord, isObserveDeny
    <2>3. Passed(m) => Passed(m)'
      BY <1>1 DEF Passed, isObserveDeny
    <2>4. line.kind = "request"
      BY <1>2, <1>4 DEF Backed, Pending
    <2> QED BY <1>1, <1>2, <2>2, <2>3, <2>4 DEF Backed
  <1> QED BY <1>3, <1>4

Finished(m) ==
  /\ pc[m] \in Pending /\ UNCHANGED envVars /\ hostRev' = hostRev /\ msg' = msg /\ rev' = rev
  /\ live' = live /\ armed' = armed /\ dec' = dec /\ seq' = seq /\ wire' = wire
  /\ Release(m) /\ \E x \in Outcomes : \E a : OwnAnswer(m, a) /\ Close(m, <<x>>, a)

LEMMA FinishedKeeps ==
  ASSUME HInv, NEW m \in Msgs, Finished(m)
  PROVE  HInv'
  <1>1. HostTypes /\ Mine(m) /\ Gated(m) /\ Nonces
    BY DEF HInv
  <1>2. /\ pc[m] \in Pending /\ proxy' = proxy /\ sends' = sends /\ killed' = killed
        /\ degraded' = degraded /\ hostRev' = hostRev /\ msg' = msg /\ rev' = rev
        /\ live' = live /\ armed' = armed /\ dec' = dec /\ seq' = seq /\ wire' = wire
    BY Zenon DEF Finished, envVars
  <1>3. PICK x \in Outcomes : \E b : OwnAnswer(m, b) /\ Close(m, <<x>>, b)
    BY DEF Finished
  <1>a. PICK a : OwnAnswer(m, a) /\ Close(m, <<x>>, a)
    BY <1>3
  <1>4. /\ pc[m] \notin {"idle", "done"} /\ msg[m].kind = "request" /\ msg[m].id \in Ids
        /\ pc[m] \in {"mapped", "waiting"}
    <2>1. pc[m] \in {"mapped", "waiting"}
      BY <1>2 DEF Pending
    <2>2. msg[m].kind = "request" /\ m \in DOMAIN sends /\ msg[m] = sends[m]
      BY <1>1, <2>1 DEF Mine, Requesting
    <2>3. msg[m] \in Messages
      BY <1>1, <2>2 DEF HostTypes
    <2> QED BY <2>1, <2>2, <2>3 DEF Messages
  <1>5. /\ pc' = [pc EXCEPT ![m] = "done"] /\ tape' = [tape EXCEPT ![m] = @ \o <<x>>]
        /\ reply' = [reply EXCEPT ![m] = Append(@, a)]
    BY <1>2, <1>a, <1>4 DEF Close
  <1>6. Stepped(m) /\ SameSetting
    BY <1>2, <1>5 DEF Stepped, SameSetting, Phases
  <1>7. Mine(m)'
    BY <1>1, <1>2, <1>a, <1>4, <1>5, <1>6, MineDone
  <1>8. Gated(m)'
    BY <1>1, <1>4, <1>5, <1>6, GatedMoves DEF HostTypes
  <1>9. Lines' /\ wire' \in Seq(LineShape)
    <2>1. \A line \in LineShape : line.msg = m /\ Backed(line) => Backed(line)'
      BY <1>2, <1>5, <1>6, OwnLinesDone
    <2> QED BY <1>2, <1>6, <2>1, LinesGrow
  <1>10. /\ nonce' = [nonce EXCEPT ![m] = 0] /\ chan' = [chan EXCEPT ![m] = None]
         /\ hostToUp' = [hostToUp EXCEPT ![msg[m].id] = IF @ = m THEN 0 ELSE @]
    BY DEF Finished, Release
  <1>11. CallTypes'
    BY <1>1, <1>2, <1>10 DEF CallTypes, HostTypes
  <1>12. Nonces'
    <2>1. \A k \in Msgs \ {m} : pc'[k] = pc[k] /\ nonce'[k] = nonce[k] /\ chan'[k] = chan[k]
      BY <1>1, <1>5, <1>10 DEF HostTypes
    <2>2. pc'[m] = "done" /\ nonce'[m] = 0 /\ chan'[m] = None
      BY <1>1, <1>5, <1>10 DEF HostTypes
    <2>3. ASSUME NEW i \in Ids, hostToUp'[i] # 0
          PROVE  pc'[hostToUp'[i]] \in Pending /\ msg'[hostToUp'[i]].id = i
      <3>1. hostToUp[i] # 0 /\ hostToUp[i] \in Msgs
        BY <1>1, <1>10, <2>3 DEF HostTypes
      <3>2. pc[hostToUp[i]] \in Pending /\ msg[hostToUp[i]].id = i
        BY <1>1, <3>1 DEF Nonces
      <3>3. hostToUp[i] # m /\ hostToUp'[i] = hostToUp[i]
        BY <1>1, <1>4, <1>10, <2>3, <3>1, <3>2 DEF HostTypes
      <3> QED BY <1>2, <2>1, <3>1, <3>2, <3>3
    <2>4. \A k \in Msgs : /\ nonce'[k] <= seq' /\ (nonce'[k] # 0 <=> pc'[k] \in Pending)
                          /\ chan'[k] # None => pc'[k] \in Pending /\ chan'[k].for = k
      <3> SUFFICES ASSUME NEW k \in Msgs
                   PROVE  /\ nonce'[k] <= seq' /\ (nonce'[k] # 0 <=> pc'[k] \in Pending)
                          /\ chan'[k] # None => pc'[k] \in Pending /\ chan'[k].for = k
        OBVIOUS
      <3>1. CASE k = m
        <4>1. 0 <= seq'
          BY <1>1, <1>2 DEF HostTypes
        <4> QED BY <2>2, <3>1, <4>1 DEF Pending
      <3>2. CASE k # m
        BY <1>1, <1>2, <2>1, <3>2 DEF Nonces
      <3> QED BY <3>1, <3>2
    <2>5. \A j, k \in Msgs : nonce'[j] = nonce'[k] /\ nonce'[j] # 0 => j = k
      BY <1>1, <2>1, <2>2 DEF Nonces
    <2>6. \A i \in DOMAIN wire' : wire'[i].kind = "request" =>
            /\ wire'[i].nonce # 0 /\ wire'[i].nonce <= seq'
            /\ \A k \in Msgs : nonce'[k] = wire'[i].nonce => wire'[i].msg = k
      BY <1>1, <1>2, <2>1, <2>2 DEF Nonces
    <2>7. \A k \in Msgs : pc'[k] = "waiting" => \E i \in DOMAIN wire' :
            wire'[i].kind = "request" /\ wire'[i].msg = k /\ wire'[i].nonce = nonce'[k]
      BY <1>1, <1>2, <2>1, <2>2 DEF Nonces
    <2> QED BY <2>3, <2>4, <2>5, <2>6, <2>7 DEF Nonces
  <1> QED BY <1>6, <1>7, <1>8, <1>9, <1>11, <1>12, SteppedKeeps

LEMMA CallsEnd ==
  ASSUME HInv, NEW m \in Msgs, CallFails(m) \/ RejectAnswer(m) \/ RedactionFails(m) \/ Return(m)
  PROVE  Finished(m)
  <1>1. ASSUME NEW from, Handle(m, from)
        PROVE  /\ pc[m] = from /\ UNCHANGED envVars /\ hostRev' = hostRev /\ msg' = msg
               /\ rev' = rev /\ live' = live /\ armed' = armed
    BY <1>1, Zenon DEF Handle
  <1>2. \E from \in Pending : Handle(m, from)
    <2>1. CallFails(m) => pc[m] \in Pending /\ Handle(m, pc[m])
      BY DEF CallFails, Pending
    <2>2. RejectAnswer(m) \/ RedactionFails(m) \/ Return(m) => Handle(m, "waiting")
      BY Zenon DEF RejectAnswer, RedactionFails, Return
    <2>3. "waiting" \in Pending
      BY DEF Pending
    <2> QED BY <2>1, <2>2, <2>3, Zenon
  <1>3. Release(m) /\ dec' = dec /\ seq' = seq /\ wire' = wire
    BY DEF CallFails, RejectAnswer, RedactionFails, Return
  <1>4. \A a : Plain(a) => OwnAnswer(m, a)
    BY DEF Plain, OwnAnswer
  <1>5. \E x \in Outcomes : \E a : OwnAnswer(m, a) /\ Close(m, <<x>>, a)
    <2>1. CASE CallFails(m) \/ RejectAnswer(m)
      <3>1. Close(m, <<"failure">>, [Refusal("failure") EXCEPT !.kind = "error"])
        BY <2>1 DEF CallFails, RejectAnswer, recordUpstreamFailure
      <3>2. "failure" \in Outcomes
        BY DEF Outcomes
      <3> QED BY <1>4, <3>1, <3>2, PlainAnswers
    <2>2. CASE RedactionFails(m)
      <3>1. Close(m, <<"enforcementError">>, [Refusal("redaction") EXCEPT !.kind = "error"])
        BY <2>2 DEF RedactionFails
      <3>2. "enforcementError" \in Outcomes
        BY DEF Outcomes
      <3> QED BY <1>4, <3>1, <3>2, PlainAnswers
    <2>3. CASE Return(m)
      <3> DEFINE a == [kind |-> chan[m].kind, code |-> "", of |-> chan[m].for, shows |-> redacted(m)]
      <3>1. Close(m, <<"allow">>, a) /\ chan[m] # None /\ ~unenforceable(m)
        BY <2>3 DEF Return
      <3>2. chan[m].for = m
        BY <3>1 DEF HInv, Nonces
      <3>3. rev[m] \in Revisions
        BY <1>1, <1>2 DEF HInv, Mine, Pending, Requesting
      <3>4. chan[m].kind = "variant" => rev[m] = oldRev /\ proxy.upstreamRev = oldRev
        BY <3>1, <3>3 DEF unenforceable, declaresPerRequestRevision, Revisions
      <3>5. a.of = chan[m].for /\ a.kind = chan[m].kind /\ a.shows = redacted(m)
        OBVIOUS
      <3>6. dec[m].redact => redacted(m) = {}
        BY DEF redacted
      <3> HIDE DEF a
      <3>7. OwnAnswer(m, a)
        BY <3>2, <3>4, <3>5, <3>6 DEF OwnAnswer
      <3>8. "allow" \in Outcomes
        BY DEF Outcomes
      <3> QED BY <3>1, <3>7, <3>8
    <2> QED BY <2>1, <2>2, <2>3
  <1> QED BY <1>1, <1>2, <1>3, <1>5, Zenon DEF Finished

LEMMA AwaitKeeps ==
  ASSUME HInv, NEW m \in Msgs, awaitNonced(m)
  PROVE  HInv'
  <1>1. HostTypes /\ Mine(m) /\ Gated(m) /\ Nonces
    BY DEF HInv
  <1>2. /\ pc[m] = "calling" /\ proxy' = proxy /\ sends' = sends /\ killed' = killed
        /\ degraded' = degraded /\ hostRev' = hostRev /\ msg' = msg /\ rev' = rev
        /\ live' = live /\ armed' = armed
    BY Zenon DEF awaitNonced, Handle, envVars
  <1>3. /\ hostToUp[msg[m].id] = 0 /\ checkUpstreamHonorable(rev[m], msg[m])
        /\ seq' = seq + 1 /\ nonce' = [nonce EXCEPT ![m] = seq + 1]
        /\ hostToUp' = [hostToUp EXCEPT ![msg[m].id] = m]
        /\ pc' = [pc EXCEPT ![m] = "mapped"]
        /\ dec' = dec /\ tape' = tape /\ reply' = reply /\ chan' = chan /\ wire' = wire
    BY DEF awaitNonced, upstreamNonceID
  <1>4. Stepped(m) /\ SameSetting
    BY <1>2, <1>3 DEF Stepped, SameSetting, Phases, Requesting
  <1>5. m \in DOMAIN sends /\ msg[m] = sends[m] /\ msg[m] \in Messages /\ msg[m].id \in Ids
    <2>1. m \in DOMAIN sends /\ msg[m] = sends[m]
      BY <1>1, <1>2 DEF Mine
    <2>2. msg[m] \in Messages
      BY <1>1, <2>1 DEF HostTypes
    <2> QED BY <2>1, <2>2 DEF Messages
  <1>6. pc'[m] = "mapped"
    BY <1>1, <1>3 DEF HostTypes
  <1>7. Mine(m)'
    <2>1. /\ Forwardable(m) /\ Passed(m) /\ tape[m] = ObserveRecord(m) /\ dec[m] \in Decisions
          /\ msg[m].kind = "request" /\ rev[m] \in Revisions /\ Served(rev[m], msg[m]) /\ reply[m] = <<>>
      BY <1>1, <1>2 DEF Mine, Cleared, Requesting
    <2>2. Served(rev[m], msg[m])' /\ checkUpstreamHonorable(rev[m], msg[m])'
      BY <1>2, <1>3, <2>1 DEF Served, checkUpstreamHonorable, checkDeclarationReachesUpstream
    <2>3. Forwardable(m)' /\ Passed(m)' /\ ObserveRecord(m)' = ObserveRecord(m)
      BY <1>2, <1>3, <2>1 DEF Forwardable, Passed, ObserveRecord, isObserveDeny
    <2> QED BY <1>2, <1>3, <1>5, <1>6, <2>1, <2>2, <2>3 DEF Mine, Requesting, Noting, Cleared, Pending
  <1>8. Gated(m)'
    BY <1>1, <1>2, <1>4, <1>6, GatedMoves
  <1>9. Lines' /\ wire' \in Seq(LineShape)
    <2>1. \A line \in LineShape : line.msg = m /\ Backed(line) => Backed(line)'
      <3> SUFFICES ASSUME NEW line \in LineShape, line.msg = m, Backed(line) PROVE FALSE
        OBVIOUS
      <3>1. line.kind \in {"request", "notification"}
        BY DEF LineShape
      <3> QED BY <1>2, <3>1 DEF Backed
    <2> QED BY <1>3, <1>4, <2>1, LinesGrow
  <1>10. CallTypes'
    BY <1>1, <1>3, <1>5, <1>9 DEF CallTypes, HostTypes
  <1>11. Nonces'
    <2>1. \A k \in Msgs \ {m} : pc'[k] = pc[k] /\ nonce'[k] = nonce[k]
      BY <1>1, <1>3 DEF HostTypes
    <2>2. nonce'[m] = seq + 1 /\ seq \in Nat /\ \A k \in Msgs : nonce[k] \in Nat /\ nonce[k] <= seq
      BY <1>1, <1>3 DEF HostTypes, Nonces
    <2>3. \A k \in Msgs : nonce'[k] <= seq' /\ (nonce'[k] # 0 <=> pc'[k] \in Pending)
      <3> SUFFICES ASSUME NEW k \in Msgs
                   PROVE  nonce'[k] <= seq' /\ (nonce'[k] # 0 <=> pc'[k] \in Pending)
        OBVIOUS
      <3>1. CASE k = m
        BY <1>3, <1>6, <2>2, <3>1 DEF Pending
      <3>2. CASE k # m
        <4>1. nonce'[k] <= seq'
          BY <1>3, <2>1, <2>2, <3>2
        <4> QED BY <1>1, <2>1, <3>2, <4>1 DEF Nonces
      <3> QED BY <3>1, <3>2
    <2>4. \A k \in Msgs : chan'[k] # None => pc'[k] \in Pending /\ chan'[k].for = k
      <3> SUFFICES ASSUME NEW k \in Msgs, chan[k] # None
                   PROVE  pc'[k] \in Pending /\ chan'[k].for = k
        BY <1>3
      <3>1. pc[k] \in Pending /\ chan[k].for = k
        BY <1>1 DEF Nonces
      <3>2. k # m
        BY <1>2, <3>1 DEF Pending
      <3> QED BY <1>3, <2>1, <3>1, <3>2
    <2>5. \A j, k \in Msgs : nonce'[j] = nonce'[k] /\ nonce'[j] # 0 => j = k
      <3> SUFFICES ASSUME NEW j \in Msgs, NEW k \in Msgs, nonce'[j] = nonce'[k], nonce'[j] # 0, j # k
                   PROVE  FALSE
        OBVIOUS
      <3>1. CASE j # m /\ k # m
        BY <1>1, <2>1, <3>1 DEF Nonces
      <3>2. CASE j = m \/ k = m
        BY <2>1, <2>2, <3>2
      <3> QED BY <3>1, <3>2
    <2>6. \A i \in Ids : hostToUp'[i] # 0 =>
            pc'[hostToUp'[i]] \in Pending /\ msg'[hostToUp'[i]].id = i
      <3> SUFFICES ASSUME NEW i \in Ids, hostToUp'[i] # 0
                   PROVE  pc'[hostToUp'[i]] \in Pending /\ msg'[hostToUp'[i]].id = i
        OBVIOUS
      <3>1. CASE i = msg[m].id
        <4>1. hostToUp'[i] = m
          BY <1>1, <1>3, <3>1 DEF HostTypes
        <4> QED BY <1>2, <1>6, <3>1, <4>1 DEF Pending
      <3>2. CASE i # msg[m].id
        <4>1. hostToUp'[i] = hostToUp[i] /\ hostToUp[i] \in Msgs
          BY <1>1, <1>3, <1>5, <3>2 DEF HostTypes
        <4>2. pc[hostToUp[i]] \in Pending /\ msg[hostToUp[i]].id = i
          BY <1>1, <4>1 DEF Nonces
        <4>3. hostToUp[i] # m
          BY <3>2, <4>2
        <4> QED BY <1>2, <2>1, <4>1, <4>2, <4>3
      <3> QED BY <3>1, <3>2
    <2>7. \A i \in DOMAIN wire' : wire'[i].kind = "request" =>
            /\ wire'[i].nonce # 0 /\ wire'[i].nonce <= seq'
            /\ \A k \in Msgs : nonce'[k] = wire'[i].nonce => wire'[i].msg = k
      <3> SUFFICES ASSUME NEW i \in DOMAIN wire, wire[i].kind = "request"
                   PROVE  /\ wire[i].nonce # 0 /\ wire[i].nonce <= seq + 1
                          /\ \A k \in Msgs : nonce'[k] = wire[i].nonce => wire[i].msg = k
        BY <1>3
      <3>1. wire[i] \in LineShape
        BY <1>1 DEF HostTypes
      <3>2. wire[i].nonce # 0 /\ wire[i].nonce <= seq /\ wire[i].nonce \in Nat
        BY <1>1, <3>1 DEF Nonces, LineShape
      <3>3. ASSUME NEW k \in Msgs, nonce'[k] = wire[i].nonce
            PROVE  wire[i].msg = k
        <4>1. k # m
          BY <2>2, <3>2, <3>3
        <4> QED BY <1>1, <2>1, <3>3, <4>1 DEF Nonces
      <3> QED BY <2>2, <3>2, <3>3
    <2>8. \A k \in Msgs : pc'[k] = "waiting" => \E i \in DOMAIN wire' :
            wire'[i].kind = "request" /\ wire'[i].msg = k /\ wire'[i].nonce = nonce'[k]
      BY <1>1, <1>3, <1>6, <2>1 DEF Nonces
    <2> QED BY <2>3, <2>4, <2>5, <2>6, <2>7, <2>8 DEF Nonces
  <1> QED BY <1>4, <1>7, <1>8, <1>9, <1>10, <1>11, SteppedKeeps

LEMMA WriteKeeps ==
  ASSUME HInv, NEW m \in Msgs, WriteRequest(m)
  PROVE  HInv'
  <1> DEFINE l == [kind |-> "request", method |-> msg[m].method, msg |-> m,
                   nonce |-> nonce[m], declares |-> translated(m)]
  <1>1. HostTypes /\ Mine(m) /\ Gated(m) /\ Nonces
    BY DEF HInv
  <1>2. /\ pc[m] = "mapped" /\ proxy' = proxy /\ sends' = sends /\ killed' = killed
        /\ degraded' = degraded /\ hostRev' = hostRev /\ msg' = msg /\ rev' = rev
        /\ live' = live /\ armed' = armed
    BY Zenon DEF WriteRequest, Handle, envVars
  <1>3. /\ wire' = Append(wire, l) /\ pc' = [pc EXCEPT ![m] = "waiting"]
        /\ dec' = dec /\ tape' = tape /\ reply' = reply
        /\ nonce' = nonce /\ seq' = seq /\ hostToUp' = hostToUp /\ chan' = chan
    BY DEF WriteRequest
  <1>4. Stepped(m) /\ SameSetting
    BY <1>2, <1>3 DEF Stepped, SameSetting, Phases, Requesting
  <1>5. m \in DOMAIN sends /\ msg[m] = sends[m] /\ msg[m] \in Messages
    BY <1>1, <1>2 DEF Mine, HostTypes
  <1>6. pc'[m] = "waiting"
    BY <1>1, <1>3 DEF HostTypes
  <1>7. /\ Forwardable(m) /\ Passed(m) /\ tape[m] = ObserveRecord(m) /\ dec[m] \in Decisions
        /\ msg[m].kind = "request" /\ rev[m] \in Revisions /\ Served(rev[m], msg[m]) /\ reply[m] = <<>>
        /\ checkUpstreamHonorable(rev[m], msg[m])
    BY <1>1, <1>2 DEF Mine, Cleared, Requesting, Pending
  <1>8. Forwardable(m)' /\ Passed(m)' /\ ObserveRecord(m)' = ObserveRecord(m)
    BY <1>2, <1>3, <1>7 DEF Forwardable, Passed, ObserveRecord, isObserveDeny
  <1>9. Mine(m)'
    <2>1. Served(rev[m], msg[m])' /\ checkUpstreamHonorable(rev[m], msg[m])'
      BY <1>2, <1>7 DEF Served, checkUpstreamHonorable, checkDeclarationReachesUpstream
    <2> QED BY <1>2, <1>3, <1>5, <1>6, <1>7, <1>8, <2>1 DEF Mine, Requesting, Noting, Cleared, Pending
  <1>10. Gated(m)'
    BY <1>1, <1>2, <1>4, <1>6, GatedMoves
  <1>11. PICK new \in LineShape :
           /\ wire' = Append(wire, new) /\ new.kind = "request" /\ new.method = msg[m].method
           /\ new.msg = m /\ new.nonce = nonce[m] /\ new.declares = translated(m) /\ Fits(new)
    <2>1. /\ proxy.upstreamRev \in specOf(msg[m].method).in
          /\ translated(m) \in {proxy.upstreamRev} \cup IF proxy.upstreamRev = oldRev THEN {"none"} ELSE {}
          /\ translated(m) \in Declarations
      BY <1>1, <1>5, <1>7, Speaking
    <2>2. nonce[m] \in Nat /\ msg[m].method \in Methods
      BY <1>1, <1>5 DEF HostTypes, Messages
    <2>3. l \in LineShape
      BY <2>1, <2>2 DEF LineShape
    <2>4. Fits(l)
      BY <2>1 DEF Fits
    <2> QED BY <1>3, <2>3, <2>4
  <1>12. msg[m].method # "cancelled"
    BY <1>7, Registry DEF Forwardable
  <1>13. Lines' /\ wire' \in Seq(LineShape)
    <2>1. \A line \in LineShape : line.msg = m /\ Backed(line) => Backed(line)'
      <3> SUFFICES ASSUME NEW line \in LineShape, line.msg = m, Backed(line) PROVE FALSE
        OBVIOUS
      <3>1. line.kind \in {"request", "notification"}
        BY DEF LineShape
      <3> QED BY <1>2, <3>1 DEF Backed
    <2>2. Backed(new)'
      BY <1>2, <1>6, <1>7, <1>8, <1>11, <1>12 DEF Backed, Passed
    <2> QED BY <1>4, <1>11, <1>12, <2>1, <2>2, LinesGrow
  <1>14. CallTypes'
    BY <1>1, <1>3, <1>13 DEF CallTypes, HostTypes
  <1>15. Nonces'
    <2>1. \A k \in Msgs \ {m} : pc'[k] = pc[k]
      BY <1>1, <1>3 DEF HostTypes
    <2>2. \A k \in Msgs : pc'[k] \in Pending <=> pc[k] \in Pending
      BY <1>2, <1>6, <2>1 DEF Pending
    <2>3. \A k \in Msgs : /\ nonce'[k] <= seq' /\ (nonce'[k] # 0 <=> pc'[k] \in Pending)
                          /\ chan'[k] # None => pc'[k] \in Pending /\ chan'[k].for = k
      BY <1>1, <1>3, <2>2 DEF Nonces
    <2>4. \A i \in Ids : hostToUp'[i] # 0 =>
            pc'[hostToUp'[i]] \in Pending /\ msg'[hostToUp'[i]].id = i
      BY <1>1, <1>2, <1>3, <2>2 DEF Nonces, HostTypes
    <2>5. \A j, k \in Msgs : nonce'[j] = nonce'[k] /\ nonce'[j] # 0 => j = k
      BY <1>1, <1>3 DEF Nonces
    <2>6. wire \in Seq(LineShape) /\ nonce[m] # 0 /\ nonce[m] <= seq
      BY <1>1, <1>2 DEF HostTypes, Nonces, Pending
    <2>7. ASSUME NEW i \in DOMAIN wire', wire'[i].kind = "request"
          PROVE  /\ wire'[i].nonce # 0 /\ wire'[i].nonce <= seq'
                 /\ \A k \in Msgs : nonce'[k] = wire'[i].nonce => wire'[i].msg = k
      <3>1. CASE i \in DOMAIN wire
        <4>1. wire'[i] = wire[i]
          BY <1>11, <2>6, <3>1
        <4> QED BY <1>1, <1>3, <2>7, <3>1, <4>1 DEF Nonces
      <3>2. CASE i \notin DOMAIN wire
        <4>1. wire'[i] = new
          BY <1>11, <2>6, <3>2
        <4> QED BY <1>1, <1>3, <1>11, <2>6, <4>1 DEF Nonces
      <3> QED BY <3>1, <3>2
    <2>8. ASSUME NEW k \in Msgs, pc'[k] = "waiting"
          PROVE  \E i \in DOMAIN wire' :
                   wire'[i].kind = "request" /\ wire'[i].msg = k /\ wire'[i].nonce = nonce'[k]
      <3>1. CASE k = m
        <4>1. Len(wire) + 1 \in DOMAIN wire' /\ wire'[Len(wire) + 1] = new
          BY <1>11, <2>6
        <4> QED BY <1>3, <1>11, <3>1, <4>1
      <3>2. CASE k # m
        <4>1. PICK i \in DOMAIN wire : wire[i].kind = "request" /\ wire[i].msg = k /\ wire[i].nonce = nonce[k]
          BY <1>1, <2>1, <2>8, <3>2 DEF Nonces
        <4>2. i \in DOMAIN wire' /\ wire'[i] = wire[i]
          BY <1>11, <2>6, <4>1
        <4> QED BY <1>3, <4>1, <4>2
      <3> QED BY <3>1, <3>2
    <2> QED BY <2>3, <2>4, <2>5, <2>7, <2>8 DEF Nonces
  <1> QED BY <1>4, <1>9, <1>10, <1>13, <1>14, <1>15, SteppedKeeps

LEMMA AnswerKeeps ==
  ASSUME HInv, NEW m \in Msgs, UpstreamAnswers(m)
  PROVE  HInv'
  <1>1. HostTypes /\ Mine(m) /\ Gated(m) /\ Nonces
    BY DEF HInv
  <1>2. /\ pc[m] \in Pending /\ proxy' = proxy /\ sends' = sends /\ killed' = killed
        /\ degraded' = degraded /\ hostRev' = hostRev /\ msg' = msg /\ rev' = rev
        /\ live' = live /\ armed' = armed
    BY Zenon DEF UpstreamAnswers, Handle, envVars, Pending
  <1>3. /\ pc' = pc /\ dec' = dec /\ tape' = tape /\ reply' = reply
        /\ nonce' = nonce /\ seq' = seq /\ hostToUp' = hostToUp /\ wire' = wire
    BY DEF UpstreamAnswers
  <1>4. PICK i \in DOMAIN wire, k \in {"result", "variant", "error", "malformed"} :
          /\ wire[i].kind = "request" /\ wire[i].nonce = nonce[m]
          /\ chan' = [chan EXCEPT ![m] = [for |-> wire[i].msg, kind |-> k]]
    BY DEF UpstreamAnswers
  <1>5. wire[i].msg = m
    BY <1>1, <1>4 DEF Nonces
  <1>6. chan' = [chan EXCEPT ![m] = [for |-> m, kind |-> k]] /\ [for |-> m, kind |-> k] \in Deliveries
    BY <1>4, <1>5 DEF Deliveries
  <1>7. Stepped(m) /\ SameSetting /\ Untouched(m)
    <2>1. pc' = [pc EXCEPT ![m] = pc[m]] /\ pc[m] \in Phases
      BY <1>1, <1>3 DEF HostTypes
    <2> QED BY <1>2, <1>3, <2>1 DEF Stepped, SameSetting, Untouched
  <1>8. Mine(m)' /\ Gated(m)'
    BY <1>1, <1>2, <1>7, MineKept, GatedKept
  <1>9. Lines' /\ wire' \in Seq(LineShape)
    <2>1. \A line \in LineShape : line.msg = m /\ Backed(line) => Backed(line)'
      <3>1. (Passed(m)' <=> Passed(m)) /\ ObserveRecord(m)' = ObserveRecord(m)
        BY <1>7, KeptParts
      <3> QED BY <1>2, <1>3, <3>1 DEF Backed
    <2> QED BY <1>3, <1>7, <2>1, LinesGrow
  <1>10. CallTypes'
    BY <1>1, <1>3, <1>6, <1>9 DEF CallTypes, HostTypes
  <1>11. Nonces'
    <2>1. \A j \in Msgs : chan'[j] # None => pc[j] \in Pending /\ chan'[j].for = j
      BY <1>1, <1>2, <1>6 DEF HostTypes, Nonces
    <2> QED BY <1>1, <1>2, <1>3, <2>1 DEF Nonces
  <1> QED BY <1>7, <1>8, <1>9, <1>10, <1>11, SteppedKeeps

LEMMA CallingKeeps ==
  ASSUME HInv, NEW m \in Msgs, Calls(m)
  PROVE  HInv'
  BY CallsEnd, FinishedKeeps, AwaitKeeps, WriteKeeps, AnswerKeeps DEF Calls

-------------------------------------------------------------------------------
(***************************************************************************)
(* Notifications, and what is not a message's own step.                    *)
(***************************************************************************)
LEMMA NotifyingKeeps ==
  ASSUME HInv, NEW m \in Msgs, Notifies(m)
  PROVE  HInv'
  <1>1. HostTypes /\ Mine(m) /\ Gated(m) /\ Nonces
    BY DEF HInv
  <1>2. /\ pc[m] = "notifying" /\ proxy' = proxy /\ sends' = sends /\ killed' = killed
        /\ degraded' = degraded /\ hostRev' = hostRev /\ msg' = msg /\ rev' = rev
        /\ live' = live /\ armed' = armed /\ dec' = dec
    BY Zenon DEF Notifies, forwardHostNotification, forwardNotification, Handle, envVars
  <1>3. /\ m \in DOMAIN sends /\ msg[m] = sends[m] /\ msg[m].kind = "notification"
        /\ rev[m] \in Revisions /\ Served(rev[m], msg[m]) /\ disposition(m) = "forward"
        /\ msg[m] \in Messages
    BY <1>1, <1>2 DEF Mine, Noting, HostTypes
  <1>4. \E recs : Close(m, recs, None)
    BY DEF Notifies, forwardHostNotification, forwardNotification
  <1>5. /\ pc' = [pc EXCEPT ![m] = "done"] /\ (\E recs : tape' = [tape EXCEPT ![m] = @ \o recs])
        /\ reply' = reply
    BY <1>1, <1>2, <1>3, <1>4 DEF Close, HostTypes
  <1>6. Stepped(m) /\ SameSetting
    BY <1>2, <1>5 DEF Stepped, SameSetting, Phases
  <1>7. pc'[m] = "done"
    BY <1>1, <1>5 DEF HostTypes
  <1>8. Mine(m)'
    BY <1>1, <1>2, <1>3, <1>5, <1>6, MineDone
  <1>9. Gated(m)'
    BY <1>1, <1>2, <1>6, <1>7, GatedMoves
  <1>10. CASE UNCHANGED callVars
    <2>1. Nonces' /\ Lines'
      BY <1>2, <1>6, <1>7, <1>10, SteppedKeeps, CallsKept DEF Pending
    <2>2. CallTypes'
      BY <1>1, <1>10 DEF CallTypes, HostTypes, callVars
    <2> QED BY <1>6, <1>8, <1>9, <2>1, <2>2, SteppedKeeps
  <1>11. CASE WriteNotification(m) /\ (proxy.transport = "stdio" => ~forwardsPending /\ ~killed)
    <2> DEFINE target == hostToUp[msg[m].id]
               names == IF msg[m].method = "cancelled" /\ target # 0 THEN nonce[target] ELSE 0
               l == [kind |-> "notification", method |-> msg[m].method, msg |-> m,
                     nonce |-> names, declares |-> translated(m)]
    <2>1. nonce' = nonce /\ seq' = seq /\ hostToUp' = hostToUp /\ chan' = chan
      BY <1>11 DEF WriteNotification
    <2>2. \/ wire' = wire
          \/ /\ checkUpstreamHonorable(rev[m], msg[m]) /\ wire' = Append(wire, l)
             /\ msg[m].method = "cancelled" => target # 0
      BY <1>11 DEF WriteNotification
    <2>3. msg[m].id \in Ids /\ msg[m].method \in Methods /\ target \in Msgs \cup {0} /\ names \in Nat
      BY <1>1, <1>3 DEF Messages, HostTypes
    <2>4. CASE wire' = wire
      BY <1>2, <1>6, <1>7, <1>8, <1>9, <1>1, <2>1, <2>4, SteppedKeeps, CallsKept
         DEF Pending, callVars, CallTypes, HostTypes
    <2>5. CASE /\ checkUpstreamHonorable(rev[m], msg[m]) /\ wire' = Append(wire, l)
               /\ msg[m].method = "cancelled" => target # 0
      <3>1. /\ proxy.upstreamRev \in specOf(msg[m].method).in
            /\ translated(m) \in {proxy.upstreamRev} \cup IF proxy.upstreamRev = oldRev THEN {"none"} ELSE {}
            /\ translated(m) \in Declarations
        BY <1>1, <1>3, <2>5, Speaking
      <3>2. l \in LineShape
        BY <2>3, <3>1 DEF LineShape
      <3>3. Fits(l)
        BY <3>1 DEF Fits
      <3>4. PICK new \in LineShape :
              /\ wire' = Append(wire, new) /\ new.kind = "notification" /\ new.method = msg[m].method
              /\ new.msg = m /\ new.nonce = names /\ Fits(new)
        BY <2>5, <3>2, <3>3
      <3>5. ASSUME proxy.transport = "stdio", new.method = "cancelled"
            PROVE  \E h \in DOMAIN wire : Named(new, h)
        <4>1. target \in Msgs /\ target # 0 /\ new.nonce = nonce[target]
          BY <2>3, <2>5, <3>4, <3>5
        <4>2. pc[target] \in Pending /\ msg[target].id = msg[m].id
          BY <1>1, <2>3, <4>1 DEF Nonces
        <4>3. pc[target] = "waiting"
          BY <1>11, <3>5, <4>1, <4>2 DEF forwardsPending, Pending
        <4>4. PICK h \in DOMAIN wire :
                wire[h].kind = "request" /\ wire[h].msg = target /\ wire[h].nonce = nonce[target]
          BY <1>1, <4>1, <4>3 DEF Nonces
        <4>5. Named(new, h)
          BY <3>4, <4>1, <4>2, <4>4 DEF Named
        <4> QED BY <4>5
      <3>6. Backed(new)'
        <4>1. live[m]
          BY <1>1, <1>2, <1>11 DEF Gated
        <4> QED BY <1>2, <1>3, <1>7, <3>4, <4>1 DEF Backed
      <3>7. Lines' /\ wire' \in Seq(LineShape)
        <4>1. \A line \in LineShape : line.msg = m /\ Backed(line) => Backed(line)'
          BY <1>2, <1>5, <1>6, OwnLinesDone DEF Noting
        <4> QED BY <1>6, <3>4, <3>5, <3>6, <4>1, LinesGrow
      <3>8. CallTypes'
        BY <1>1, <2>1, <3>7 DEF CallTypes, HostTypes
      <3>9. Nonces'
        <4>1. \A k \in Msgs \ {m} : pc'[k] = pc[k]
          BY <1>1, <1>5 DEF HostTypes
        <4>2. \A k \in Msgs : /\ pc'[k] \in Pending <=> pc[k] \in Pending
                              /\ pc'[k] = "waiting" <=> pc[k] = "waiting"
          BY <1>2, <1>7, <4>1 DEF Pending
        <4>3. \A i \in DOMAIN wire : i \in DOMAIN wire' /\ wire'[i] = wire[i]
          BY <1>1, <3>4 DEF HostTypes
        <4>4. \A i \in DOMAIN wire' : wire'[i].kind = "request" => i \in DOMAIN wire
          BY <1>1, <3>4 DEF HostTypes
        <4>5. \A k \in Msgs : /\ nonce'[k] <= seq' /\ (nonce'[k] # 0 <=> pc'[k] \in Pending)
                              /\ chan'[k] # None => pc'[k] \in Pending /\ chan'[k].for = k
          BY <1>1, <2>1, <4>2 DEF Nonces
        <4>6. \A i \in Ids : hostToUp'[i] # 0 =>
                pc'[hostToUp'[i]] \in Pending /\ msg'[hostToUp'[i]].id = i
          BY <1>1, <1>2, <2>1, <4>2 DEF Nonces, HostTypes
        <4>7. \A i \in DOMAIN wire' : wire'[i].kind = "request" =>
                /\ wire'[i].nonce # 0 /\ wire'[i].nonce <= seq'
                /\ \A k \in Msgs : nonce'[k] = wire'[i].nonce => wire'[i].msg = k
          BY <1>1, <2>1, <4>3, <4>4 DEF Nonces
        <4>8. \A k \in Msgs : pc'[k] = "waiting" => \E i \in DOMAIN wire' :
                wire'[i].kind = "request" /\ wire'[i].msg = k /\ wire'[i].nonce = nonce'[k]
          BY <1>1, <2>1, <4>2, <4>3 DEF Nonces
        <4>9. \A j, k \in Msgs : nonce'[j] = nonce'[k] /\ nonce'[j] # 0 => j = k
          BY <1>1, <2>1 DEF Nonces
        <4> QED BY <4>5, <4>6, <4>7, <4>8, <4>9 DEF Nonces
      <3> QED BY <1>6, <1>8, <1>9, <3>7, <3>8, <3>9, SteppedKeeps
    <2> QED BY <2>2, <2>4, <2>5
  <1>12. UNCHANGED callVars \/ (WriteNotification(m) /\ (proxy.transport = "stdio" => ~forwardsPending /\ ~killed))
    BY DEF Notifies, forwardHostNotification, forwardNotification
  <1> QED BY <1>10, <1>11, <1>12

\* What the host's side does not see, and the kill switch and the sink besides.
LEMMA EnvironmentKeeps ==
  ASSUME HInv, sends' = sends, proxy' = proxy, degraded' \in {degraded, TRUE},
         killed' \in BOOLEAN, hostRev' = hostRev, pc' = pc, msg' = msg, rev' = rev, dec' = dec,
         tape' = tape, reply' = reply, UNCHANGED callVars,
         live' \in [Msgs -> BOOLEAN], \A m \in Msgs : live[m] /\ ~Waits(m) => live'[m],
         \A m \in Msgs : pc[m] \notin {"idle", "done"} /\ ~killed' => live'[m],
         armed' \in [Msgs -> BOOLEAN],
         \A m \in Msgs : armed'[m] =>
           armed[m] \/ (pc[m] \in {"queued", "decided"} /\ proxy.strict /\ degraded')
  PROVE  HInv'
  <1>1. HostTypes /\ (\A m \in Msgs : Mine(m) /\ Gated(m)) /\ Nonces /\ Lines
    BY DEF HInv
  <1>2. nonce' = nonce /\ seq' = seq /\ hostToUp' = hostToUp /\ chan' = chan /\ wire' = wire
    BY DEF callVars
  <1>3. degraded \in BOOLEAN /\ degraded' \in BOOLEAN /\ (degraded => degraded')
    BY <1>1, Zenon DEF HostTypes
  <1>4. HostTypes'
    BY <1>1, <1>2, <1>3, Zenon DEF HostTypes
  <1>5. Nonces'
    BY <1>1, <1>2 DEF Nonces
  <1>6. ASSUME NEW m \in Msgs, pc[m] \in Cleared \cup {"done"}
        PROVE  Passed(m) => Passed(m)'
    <2>1. ~Waits(m) /\ pc[m] \notin {"queued", "decided"}
      BY <1>6 DEF Waits, Cleared, Pending
    <2>2. (live[m] => live'[m]) /\ (armed'[m] => armed[m])
      BY <2>1
    <2>3. isObserveDeny(dec[m])' <=> isObserveDeny(dec[m])
      BY DEF isObserveDeny
    <2> QED BY <2>2, <2>3, Zenon DEF Passed
  <1>7. ASSUME NEW m \in Msgs
        PROVE  Mine(m)'
    <2>1. /\ Served(rev[m], msg[m])' <=> Served(rev[m], msg[m])
          /\ checkUpstreamHonorable(rev[m], msg[m])' <=> checkUpstreamHonorable(rev[m], msg[m])
      BY DEF Served, checkUpstreamHonorable, checkDeclarationReachesUpstream
    <2>2. /\ Forwardable(m)' <=> Forwardable(m)
          /\ ObserveRecord(m)' = ObserveRecord(m) /\ disposition(m)' = disposition(m)
      BY DEF Forwardable, ObserveRecord, isObserveDeny, disposition
    <2>3. Answered(m)' <=> Answered(m)
      BY DEF Answered, OwnAnswer
    <2>4. pc[m] \in Cleared => (Passed(m) => Passed(m)')
      BY <1>6
    <2> QED BY <1>1, <2>1, <2>2, <2>3, <2>4, Zenon DEF Mine
  <1>8. ASSUME NEW m \in Msgs
        PROVE  Gated(m)'
    <2>1. pc[m] = "decided" \/ (pc[m] = "notifying" /\ proxy.transport # "stdio") => ~Waits(m)
      BY DEF Waits
    <2>2. Gated(m) /\ (armed'[m] => armed[m] \/ (proxy.strict /\ degraded'))
      BY <1>1
    <2>3. /\ live[m] /\ ~Waits(m) => live'[m]
          /\ pc[m] \notin {"idle", "done"} /\ ~killed' => live'[m]
      OBVIOUS
    <2> QED BY <1>3, <2>1, <2>2, <2>3, Zenon DEF Gated
  <1>9. Lines'
    <2> SUFFICES ASSUME NEW i \in DOMAIN wire
                 PROVE  /\ Backed(wire[i])' /\ Fits(wire[i])'
                        /\ (proxy.transport = "stdio" /\ wire[i].method = "cancelled" =>
                             \E h \in 1..i - 1 : Named(wire[i], h))'
      BY <1>2 DEF Lines
    <2>1. PICK line \in LineShape : line = wire[i]
      BY <1>1 DEF HostTypes
    <2>2. line.msg \in Msgs /\ Backed(line) /\ Fits(line) /\ wire'[i] = line
      BY <1>1, <1>2, <2>1 DEF LineShape, Lines
    <2>3. pc[line.msg] \in {"waiting", "done"} /\ live[line.msg]
      BY <2>1, <2>2 DEF Backed, LineShape
    <2>4. live'[line.msg]
      BY <2>2, <2>3 DEF Waits
    <2>7. ObserveRecord(line.msg)' = ObserveRecord(line.msg) /\ (Passed(line.msg) => Passed(line.msg)')
      BY <1>6, <2>2, <2>3 DEF ObserveRecord, isObserveDeny, Cleared, Pending
    <2>8. Backed(wire[i])'
      BY <2>2, <2>4, <2>7 DEF Backed
    <2>5. Fits(wire[i])'
      BY <2>2 DEF Fits
    <2>6. \A h : Named(wire[i], h)' <=> Named(wire[i], h)
      BY <1>2 DEF Named
    <2> QED BY <1>1, <1>2, <2>8, <2>5, <2>6 DEF Lines
  <1> QED BY <1>4, <1>5, <1>7, <1>8, <1>9 DEF HInv

LEMMA ServerLeavesHost ==
  ASSUME ServerNext
  PROVE  unchangedHost
  <1>1. ASSUME NEW r, \/ Read(r) \/ Replied(r) \/ Streaming \/ \E from, to : Step(r, from, to)
        PROVE  unchangedHost
    BY <1>1, Zenon DEF Read, Replied, Streaming, Step
  <1>2. \E r : \/ Read(r) \/ Replied(r) \/ Streaming \/ \E from, to : Step(r, from, to)
    BY Zenon DEF ServerNext, admitServerRequestID, PoolSaturated, dispatch, RefuseServerRequest,
       ClearServerRequest, trackServerRequest, deliverToOne, writeToHost, Undelivered,
       recordForwardOutcome, unblockGateRefusedServerReply, ReplyRefusedByRevision,
       routeHostServerResponse, addSub, WriteFrame, FrameFails, EndStream, drain, GoneStream
  <1> QED BY <1>1, <1>2, Zenon

LEMMA HostNextKeeps ==
  ASSUME HInv, [MessagesNext]_messageVars
  PROVE  HInv'
  <1>1. HostTypes /\ \A m \in Msgs : Gated(m)
    BY DEF HInv
  <1>2. /\ live \in [Msgs -> BOOLEAN] /\ killed \in BOOLEAN /\ degraded \in BOOLEAN
        /\ armed \in [Msgs -> BOOLEAN]
    BY <1>1, Zenon DEF HostTypes
  <1>3. \A m \in Msgs : pc[m] \notin {"idle", "done"} /\ ~killed => live[m]
    BY <1>1, Zenon DEF Gated
  <1>4. CASE HostSteps
    <2>1. CASE \E m \in DOMAIN sends : Arrives(m)
      BY <2>1, ArrivalKeeps
    <2>2. CASE \E m \in Msgs : Handles(m) \/ Calls(m) \/ Notifies(m)
      BY <2>2, HandlingKeeps, CallingKeeps, NotifyingKeeps
    <2> QED BY <1>4, <2>1, <2>2, HostKinds
  <1>5. ASSUME unchangedHost \/ UNCHANGED hostVars
        PROVE  HInv'
    <2>1. /\ sends' = sends /\ proxy' = proxy /\ degraded' = degraded /\ killed' = killed
          /\ hostRev' = hostRev /\ pc' = pc /\ msg' = msg /\ rev' = rev /\ dec' = dec
          /\ tape' = tape /\ reply' = reply /\ armed' = armed /\ live' = live
          /\ UNCHANGED callVars
      BY <1>5, Zenon DEF unchangedHost, hostVars, envVars, msgVars
    <2> QED BY <1>2, <1>3, <2>1, EnvironmentKeeps, Zenon
  <1>6. CASE ServerNext
    BY <1>5, <1>6, ServerLeavesHost
  <1>7. CASE RevokeAll
    <2>1. /\ sends' = sends /\ proxy' = proxy /\ degraded' = degraded /\ killed' = ~killed
          /\ hostRev' = hostRev /\ pc' = pc /\ msg' = msg /\ rev' = rev /\ dec' = dec
          /\ tape' = tape /\ reply' = reply /\ armed' = armed /\ UNCHANGED callVars
          /\ live' = [m \in Msgs |->
                        IF Waits(m) THEN killed ELSE live[m] \/ (killed /\ m \in Active)]
      BY <1>7, Zenon DEF RevokeAll, Revoke
    <2>3. ASSUME NEW m \in Msgs
          PROVE  live'[m] = IF Waits(m) THEN killed ELSE live[m] \/ (killed /\ m \in Active)
      BY <2>1, Zenon
    <2>2. killed' \in BOOLEAN /\ live' \in [Msgs -> BOOLEAN]
      <3>1. ASSUME NEW m \in Msgs
            PROVE  (IF Waits(m) THEN killed ELSE live[m] \/ (killed /\ m \in Active)) \in BOOLEAN
        BY <1>2, Zenon
      <3> QED BY <1>2, <2>1, <3>1, Zenon
    <2>4. \A m \in Msgs : live[m] /\ ~Waits(m) => live'[m]
      BY <2>3, Zenon
    <2>5. \A m \in Msgs : pc[m] \notin {"idle", "done"} /\ ~killed' => live'[m]
      BY <2>1, <2>3, Zenon DEF Active
    <2> QED BY <1>2, <2>1, <2>2, <2>4, <2>5, EnvironmentKeeps, Zenon
  <1>10. CASE DegradeAll
    <2>1. /\ sends' = sends /\ proxy' = proxy /\ degraded' = TRUE /\ killed' = killed
          /\ hostRev' = hostRev /\ pc' = pc /\ msg' = msg /\ rev' = rev /\ dec' = dec
          /\ tape' = tape /\ reply' = reply /\ live' = live /\ UNCHANGED callVars
          /\ proxy.strict
          /\ armed' = [m \in Msgs |-> armed[m] \/ pc[m] \in {"queued", "decided"}]
      BY <1>10, Zenon DEF DegradeAll, SinkDegrades
    <2>2. armed' \in [Msgs -> BOOLEAN]
      BY <2>1, Zenon
    <2>3. \A m \in Msgs : armed'[m] =>
            armed[m] \/ (pc[m] \in {"queued", "decided"} /\ proxy.strict /\ degraded')
      BY <2>1, Zenon
    <2> QED BY <1>2, <1>3, <2>1, <2>2, <2>3, EnvironmentKeeps, Zenon
  <1>8. CASE Elapse
    <2>1. /\ sends' = sends /\ proxy' = proxy /\ degraded' = degraded /\ killed' = killed
          /\ hostRev' = hostRev /\ pc' = pc /\ msg' = msg /\ rev' = rev /\ dec' = dec
          /\ tape' = tape /\ reply' = reply /\ armed' = armed /\ live' = live
          /\ UNCHANGED callVars
      BY <1>8, Zenon DEF Elapse, envVars, msgVars
    <2> QED BY <1>2, <1>3, <2>1, EnvironmentKeeps, Zenon
  <1>9. CASE Quiet \/ UNCHANGED messageVars
    BY <1>5, <1>9 DEF Quiet, messageVars
  <1> QED BY <1>4, <1>6, <1>7, <1>8, <1>9, <1>10 DEF MessagesNext

LEMMA HostInitial ==
  ASSUME ServerInit
  PROVE  HInv
  <1>1. HostInit
    BY DEF ServerInit
  <1>2. PICK s \in Scenarios : proxy = s.proxy /\ sends = s.sends
    BY <1>1 DEF HostInit
  <1>3. proxy \in ProxyConfig /\ sends \in Seq(Messages) /\ Len(sends) <= MaxMsgs
    BY <1>2, HostAssumption
  <1>4. proxy.contextRev \in Revisions \cup {None}
    BY <1>3 DEF ProxyConfig
  <1>5. /\ killed = FALSE /\ degraded = FALSE
        /\ live = [m \in Msgs |-> FALSE] /\ armed = [m \in Msgs |-> FALSE]
    BY <1>1 DEF HostInit
  <1>6. /\ killed \in BOOLEAN /\ degraded \in BOOLEAN
        /\ live \in [Msgs -> BOOLEAN] /\ armed \in [Msgs -> BOOLEAN]
    BY <1>5, Zenon
  <1>7. /\ pc = [m \in Msgs |-> "idle"] /\ msg = [m \in Msgs |-> None] /\ hostRev = proxy.contextRev
        /\ rev = [m \in Msgs |-> None] /\ dec = [m \in Msgs |-> None]
        /\ nonce = [m \in Msgs |-> 0] /\ seq = 0 /\ hostToUp = [i \in Ids |-> 0]
        /\ chan = [m \in Msgs |-> None] /\ wire = <<>>
        /\ tape = [m \in Msgs |-> <<>>] /\ reply = [m \in Msgs |-> <<>>]
    BY <1>1 DEF HostInit
  <1>8. HostTypes
    <2>1. /\ pc \in [Msgs -> Phases] /\ msg \in [Msgs -> Messages \cup {None}]
          /\ rev \in [Msgs -> Revisions \cup {None}] /\ dec \in [Msgs -> Decisions \cup {None}]
      BY <1>7 DEF Phases
    <2>2. /\ nonce \in [Msgs -> Nat] /\ seq \in Nat /\ hostToUp \in [Ids -> Msgs \cup {0}]
          /\ chan \in [Msgs -> Deliveries \cup {None}] /\ wire \in Seq(LineShape)
      BY <1>7
    <2>3. tape = [m \in Msgs |-> tape[m]] /\ reply = [m \in Msgs |-> reply[m]]
      BY <1>7
    <2> QED BY <1>3, <1>4, <1>6, <1>7, <2>1, <2>2, <2>3, Zenon DEF HostTypes
  <1>9. ASSUME NEW m \in Msgs
        PROVE  Mine(m) /\ Gated(m)
    <2>1. pc[m] = "idle" /\ tape[m] = <<>> /\ reply[m] = <<>>
      BY <1>7
    <2>2. ~armed[m]
      BY <1>5
    <2> QED BY <2>1, <2>2 DEF Mine, Gated, Requesting, Noting, Cleared, Pending
  <1>10. Nonces
    BY <1>7 DEF Nonces, Pending
  <1>11. Lines
    BY <1>7 DEF Lines
  <1> QED BY <1>8, <1>9, <1>10, <1>11 DEF HInv

LEMMA HostAlwaysSound == MessagesSpec => []HInv
  <1>1. ServerInit => HInv
    BY HostInitial
  <1>2. HInv /\ [MessagesNext]_messageVars => HInv'
    BY HostNextKeeps
  <1> QED BY <1>1, <1>2, PTL DEF MessagesSpec

(***************************************************************************)
(* What the upstream hears is in order and in its revision, for any host   *)
(* and any interleaving of its messages: a cancellation follows, on stdio, *)
(* the request it names (forwardHostNotification, rewriteCancelToNonce),   *)
(* and a line is of the revision the upstream was opened under             *)
(* (resolveHostRevision, translateRequest).                                *)
(***************************************************************************)
THEOREM WireStaysOrderly == MessagesSpec => []WireIsOrderly
  <1>1. HInv => WireIsOrderly
    BY DEF HInv, Lines, Fits, Named, WireIsOrderly, CancelFollowsItsRequest, SpeaksUpstreamsRevision
  <1> QED BY <1>1, HostAlwaysSound, PTL

LEMMA HostGatesHold ==
  ASSUME HInv
  PROVE  GatesHold
  <1> SUFFICES ASSUME NEW m \in Msgs, Written(m)
               PROVE  live[m] /\ (msg[m].kind = "request" => ~armed[m])
    BY DEF GatesHold
  <1>1. PICK i \in DOMAIN wire : wire[i].msg = m
    BY DEF Written
  <1>2. Backed(wire[i])
    BY <1>1 DEF HInv, Lines
  <1> QED BY <1>1, <1>2 DEF Backed, Passed

\* The records of a request that was written.
LEMMA Tapes ==
  ASSUME HInv, NEW m \in Msgs, Written(m), msg[m].kind = "request"
  PROVE  /\ Passed(m)
         /\ \/ tape[m] = ObserveRecord(m) /\ Len(reply[m]) = 0
            \/ (\E x \in Outcomes : tape[m] = ObserveRecord(m) \o <<x>>) /\ Len(reply[m]) = 1
  <1>1. PICK i \in DOMAIN wire : wire[i].msg = m
    BY DEF Written
  <1>2. PICK line : line = wire[i] /\ Backed(line) /\ line.msg = m
    BY <1>1 DEF HInv, Lines
  <1>3. /\ pc[m] \in {"waiting", "done"} /\ Passed(m)
        /\ pc[m] = "done" => \E x \in Outcomes : tape[m] = ObserveRecord(m) \o <<x>>
    BY <1>2 DEF Backed
  <1>4. CASE pc[m] = "waiting"
    <2>1. tape[m] = ObserveRecord(m) /\ reply[m] = <<>>
      BY <1>4 DEF HInv, Mine, Cleared
    <2> QED BY <1>3, <2>1
  <1>5. CASE pc[m] = "done"
    <2>1. reply[m] = <<reply[m][1]>>
      BY <1>5 DEF HInv, Mine, Answered
    <2>2. Len(<<reply[m][1]>>) = 1
      OBVIOUS
    <2> QED BY <1>3, <1>5, <2>1, <2>2, Zenon
  <1> QED BY <1>3, <1>4, <1>5

LEMMA ForwardsRecorded ==
  ASSUME HInv
  PROVE  ForwardsAreOnTape
  <1> SUFFICES ASSUME NEW m \in Msgs, Written(m), msg[m].kind = "request"
               PROVE  /\ dec[m].verdict # "allow" => isObserveDeny(dec[m]) /\ Count({"observe"}, m) = 1
                      /\ Count({"allow", "failure", "enforcementError"}, m) = Len(reply[m])
    BY DEF ForwardsAreOnTape
  <1>1. /\ Passed(m)
        /\ \/ tape[m] = ObserveRecord(m) /\ Len(reply[m]) = 0
           \/ (\E x \in Outcomes : tape[m] = ObserveRecord(m) \o <<x>>) /\ Len(reply[m]) = 1
    BY Tapes
  <1>2. Cardinality({}) = 0 /\ Cardinality({1}) = 1 /\ Cardinality({2}) = 1
    BY FS_EmptySet, FS_Singleton
  <1> DEFINE at(codes) == {i \in DOMAIN tape[m] : tape[m][i] \in codes}
  <1>3. CASE tape[m] = ObserveRecord(m) /\ Len(reply[m]) = 0
    <2>1. CASE isObserveDeny(dec[m])
      <3>1. tape[m] = <<"observe">>
        BY <1>3, <2>1 DEF ObserveRecord
      <3>2. at({"observe"}) = {1} /\ at(Outcomes) = {}
        BY <3>1 DEF Outcomes
      <3> QED BY <1>2, <1>3, <2>1, <3>2 DEF Count, Outcomes
    <2>2. CASE ~isObserveDeny(dec[m])
      <3>1. tape[m] = <<>>
        BY <1>3, <2>2 DEF ObserveRecord
      <3>2. at(Outcomes) = {}
        BY <3>1
      <3> QED BY <1>1, <1>2, <1>3, <2>2, <3>2 DEF Count, Outcomes, Passed
    <2> QED BY <2>1, <2>2
  <1>4. CASE (\E x \in Outcomes : tape[m] = ObserveRecord(m) \o <<x>>) /\ Len(reply[m]) = 1
    <2>1. PICK x \in Outcomes : tape[m] = ObserveRecord(m) \o <<x>>
      BY <1>4
    <2>2. CASE isObserveDeny(dec[m])
      <3>1. Len(tape[m]) = 2 /\ DOMAIN tape[m] = 1..2 /\ tape[m][1] = "observe" /\ tape[m][2] = x
        BY <2>1, <2>2 DEF ObserveRecord
      <3>2. at({"observe"}) = {1} /\ at(Outcomes) = {2}
        BY <3>1 DEF Outcomes
      <3> QED BY <1>2, <1>4, <2>2, <3>2 DEF Count, Outcomes
    <2>3. CASE ~isObserveDeny(dec[m])
      <3>1. tape[m] = <<x>>
        BY <2>1, <2>3 DEF ObserveRecord
      <3>2. at(Outcomes) = {1}
        BY <3>1
      <3> QED BY <1>1, <1>2, <1>4, <2>3, <3>2 DEF Count, Outcomes, Passed
    <2> QED BY <2>2, <2>3
  <1> QED BY <1>1, <1>3, <1>4

LEMMA HostAnswersOwn ==
  ASSUME HInv
  PROVE  AnswersAreOwn
  <1> SUFFICES ASSUME NEW m \in Msgs
               PROVE  /\ Len(reply[m]) = IF pc[m] = "done" /\ msg[m].kind = "request" THEN 1 ELSE 0
                      /\ \A i \in DOMAIN reply[m] : OwnAnswer(m, reply[m][i])
    BY DEF AnswersAreOwn, OwnAnswer
  <1>1. CASE pc[m] = "done" /\ msg[m].kind = "request"
    <2>1. PICK a : reply[m] = <<a>> /\ OwnAnswer(m, a)
      BY <1>1 DEF HInv, Mine, Answered
    <2> QED BY <1>1, <2>1
  <1>2. CASE ~(pc[m] = "done" /\ msg[m].kind = "request")
    <2>1. reply[m] = <<>>
      BY <1>2 DEF HInv, Mine, Answered
    <2> QED BY <1>2, <2>1
  <1> QED BY <1>1, <1>2

-------------------------------------------------------------------------------
(***************************************************************************)
(* The server's requests.  Entries says what the tracker holds; Placed,    *)
(* where a request that was sent on is; Asker, by its phase, what has been *)
(* found out about it; Account and Allowed count, under each id, the       *)
(* requests and the records.                                               *)
(***************************************************************************)
AskPhases == {"idle", "pooled", "cleared", "tracked", "sent", "done"}
Started == AskPhases \ {"idle"}
Untold == {"pooled", "cleared"}
Forwarding == {"tracked", "sent"}

ServerTypes ==
  /\ asks \in Seq(ServerMsgs) /\ Len(asks) <= MaxAsks
  /\ spc \in [Asks -> AskPhases] /\ tracked \in [ServerIds -> [req: Asks \cup {0}, seq: Nat]]
  /\ nextSeq \in Nat /\ sub \in [Streams -> {"none", "open", "ending", "gone"}]
  /\ buf \in [Streams -> Seq(Asks)] /\ heard \subseteq Asks
  /\ answers \in [ServerIds -> Nat] /\ lost \in [ServerIds -> Nat]
  /\ allows \in [ServerIds -> Nat] /\ drops \in [ServerIds -> Nat]
  /\ replies \in [Asks -> Nat]
  /\ sLive \in [Asks -> BOOLEAN] /\ sArmed \in [Asks -> BOOLEAN]

There(r) == Buffered(r) \/ r \in heard

Entries ==
  \A i \in ServerIds : Held(i) =>
    LET h == tracked[i].req
    IN  /\ h \in DOMAIN asks /\ idOf(h) = i /\ replies[h] = 0
        /\ spc[h] = "tracked" \/ There(h)

Placed ==
  /\ \A r \in Asks : There(r) => r \in DOMAIN asks /\ spc[r] \in {"sent", "done"}
  /\ \A r \in Asks : r \notin heard => replies[r] = 0
  /\ \A s \in Streams : sub[s] \in {"none", "gone"} => buf[s] = <<>>

Asker(r) ==
  /\ spc[r] \notin {"idle", "done"} /\ ~killed => sLive[r]
  /\ sArmed[r] => proxy.strict /\ degraded
  /\ spc[r] \in Forwarding \cup {"cleared"} \/ There(r) =>
       sLive[r] /\ ~sArmed[r] /\ proxy.contextRev # newRev

Context == proxy.contextRev # None => hostRev = proxy.contextRev

In(phases, i) == {r \in DOMAIN asks : idOf(r) = i /\ spc[r] \in phases}
Holds(i) == IF Held(i) THEN 1 ELSE 0
RepliedTo(i) == {r \in heard : idOf(r) = i /\ replies[r] # 0}
Once(i) == \A r \in heard : idOf(r) = i => replies[r] <= 1

Account(i) ==
  Cardinality(In(Started, i)) = answers[i] + lost[i] + Cardinality(In(Untold, i)) + Holds(i)

Allowed(i) ==
  Once(i) => allows[i] + Cardinality(In(Forwarding, i))
               <= Cardinality(RepliedTo(i)) + drops[i] + Holds(i)

SInv ==
  /\ ServerTypes /\ Entries /\ Placed /\ Context /\ (\A r \in Asks : Asker(r))
  /\ \A i \in ServerIds : Account(i) /\ Allowed(i)

SameHost == proxy' = proxy /\ killed' = killed /\ degraded' = degraded /\ hostRev' = hostRev

\* How the sets that are counted change.
LEMMA Sizes ==
  ASSUME ServerTypes, NEW phases, NEW i
  PROVE  /\ IsFiniteSet(In(phases, i)) /\ Cardinality(In(phases, i)) \in Nat
         /\ IsFiniteSet(RepliedTo(i)) /\ Cardinality(RepliedTo(i)) \in Nat
         /\ DOMAIN asks \subseteq Asks
  <1>1. DOMAIN asks \subseteq Asks
    BY ServerAssumption DEF ServerTypes, Asks
  <1>2. IsFiniteSet(Asks)
    BY FS_Interval, ServerAssumption DEF Asks
  <1>3. In(phases, i) \subseteq Asks /\ RepliedTo(i) \subseteq Asks
    BY <1>1 DEF In, RepliedTo, ServerTypes
  <1> QED BY <1>1, <1>2, <1>3, FS_Subset, FS_CardinalityType

LEMMA PhaseCounts ==
  ASSUME ServerTypes, asks' = asks, NEW r \in DOMAIN asks, NEW to,
         spc' = [spc EXCEPT ![r] = to], NEW phases, NEW i
  PROVE  Cardinality(In(phases, i)') =
           Cardinality(In(phases, i)) + (IF i = idOf(r) /\ to \in phases THEN 1 ELSE 0)
                                      - (IF i = idOf(r) /\ spc[r] \in phases THEN 1 ELSE 0)
  <1> DEFINE S == In(phases, i)
             T == In(phases, i)'
  <1>1. IsFiniteSet(S) /\ Cardinality(S) \in Nat /\ r \in Asks
    BY Sizes
  <1>2. spc'[r] = to /\ \A q \in DOMAIN asks \ {r} : spc'[q] = spc[q]
    BY <1>1, Sizes DEF ServerTypes
  <1>3. /\ T = {q \in DOMAIN asks : asks[q].id = i /\ spc'[q] \in phases}
        /\ S = {q \in DOMAIN asks : asks[q].id = i /\ spc[q] \in phases}
    BY DEF In, idOf
  <1>4. r \in S <=> i = idOf(r) /\ spc[r] \in phases
    BY <1>3 DEF idOf
  <1>5. r \in T <=> i = idOf(r) /\ to \in phases
    BY <1>2, <1>3 DEF idOf
  <1>6. \A q : q # r => (q \in T <=> q \in S)
    BY <1>2, <1>3
  <1> HIDE DEF S, T
  <1>7. CASE r \in S <=> r \in T
    <2>1. S = T
      BY <1>6, <1>7
    <2> QED BY <1>1, <1>4, <1>5, <1>7, <2>1 DEF S, T
  <1>8. CASE r \notin S /\ r \in T
    <2>1. T = S \cup {r}
      BY <1>6, <1>8
    <2>2. Cardinality(T) = Cardinality(S) + 1
      BY <1>1, <1>8, <2>1, FS_AddElement
    <2> QED BY <1>1, <1>4, <1>5, <1>8, <2>2 DEF S, T
  <1>9. CASE r \in S /\ r \notin T
    <2>1. T = S \ {r}
      BY <1>6, <1>9
    <2>2. Cardinality(T) = Cardinality(S) - 1
      BY <1>1, <1>9, <2>1, FS_RemoveElement
    <2> QED BY <1>1, <1>4, <1>5, <1>9, <2>2 DEF S, T
  <1> QED BY <1>7, <1>8, <1>9

LEMMA RepliesSame ==
  ASSUME ServerTypes, Placed, asks' = asks, replies' = replies, heard \subseteq heard',
         heard' \subseteq Asks, NEW i
  PROVE  RepliedTo(i)' = RepliedTo(i) /\ (Once(i)' => Once(i))
  <1>1. \A q \in heard' : q \notin heard => replies[q] = 0
    BY DEF Placed
  <1>2. /\ RepliedTo(i)' = {q \in heard' : asks[q].id = i /\ replies[q] # 0}
        /\ RepliedTo(i) = {q \in heard : asks[q].id = i /\ replies[q] # 0}
    BY DEF RepliedTo, idOf
  <1>3. RepliedTo(i)' = RepliedTo(i)
    BY <1>1, <1>2
  <1> QED BY <1>3 DEF Once, idOf

LEMMA RepliesOne ==
  ASSUME ServerTypes, asks' = asks, heard' = heard, NEW r \in heard, Takes(r), NEW i, Once(i)'
  PROVE  /\ Once(i)
         /\ Cardinality(RepliedTo(i)') = Cardinality(RepliedTo(i)) + (IF i = idOf(r) THEN 1 ELSE 0)
  <1> DEFINE S == RepliedTo(i)
             T == RepliedTo(i)'
  <1>1. r \in Asks /\ replies'[r] = replies[r] + 1 /\ replies[r] \in Nat
          /\ \A q \in Asks \ {r} : replies'[q] = replies[q]
    BY DEF ServerTypes, Takes
  <1>2. /\ T = {q \in heard : asks[q].id = i /\ replies'[q] # 0}
        /\ S = {q \in heard : asks[q].id = i /\ replies[q] # 0}
    BY DEF RepliedTo, idOf
  <1>3. \A q \in heard : asks[q].id = i => replies'[q] <= 1
    BY DEF Once, idOf
  <1>4. Once(i)
    <2>1. \A q \in heard : q \in Asks /\ replies[q] \in Nat
      BY DEF ServerTypes
    <2>2. \A q \in heard : asks[q].id = i => replies[q] <= 1
      BY <1>1, <1>3, <2>1
    <2> QED BY <2>2 DEF Once, idOf
  <1>5. IsFiniteSet(S) /\ Cardinality(S) \in Nat
    BY Sizes
  <1> HIDE DEF S, T
  <1>6. CASE i = idOf(r)
    <2>1. replies[r] = 0
      BY <1>1, <1>3, <1>6 DEF idOf
    <2>2. r \notin S /\ T = S \cup {r}
      BY <1>1, <1>2, <1>6, <2>1 DEF idOf, ServerTypes
    <2>3. Cardinality(T) = Cardinality(S) + 1
      BY <1>5, <2>2, FS_AddElement
    <2> QED BY <1>4, <1>6, <2>3 DEF S, T
  <1>7. CASE i # idOf(r)
    <2>1. T = S
      BY <1>1, <1>2, <1>7 DEF idOf, ServerTypes
    <2> QED BY <1>4, <1>5, <1>7, <2>1 DEF S, T
  <1> QED BY <1>6, <1>7

Gave(i) ==
  \/ answers' = [answers EXCEPT ![i] = @ + 1] /\ lost' = lost
  \/ lost' = [lost EXCEPT ![i] = @ + 1] /\ answers' = answers

LEMMA Giving ==
  ASSUME ServerTypes, NEW i \in ServerIds, Gave(i)
  PROVE  /\ answers' \in [ServerIds -> Nat] /\ lost' \in [ServerIds -> Nat]
         /\ \A j \in ServerIds :
              answers'[j] + lost'[j] = answers[j] + lost[j] + (IF j = i THEN 1 ELSE 0)
  <1>1. answers \in [ServerIds -> Nat] /\ lost \in [ServerIds -> Nat]
    BY DEF ServerTypes
  <1>2. CASE answers' = [answers EXCEPT ![i] = @ + 1] /\ lost' = lost
    BY <1>1, <1>2
  <1>3. CASE lost' = [lost EXCEPT ![i] = @ + 1] /\ answers' = answers
    BY <1>1, <1>3
  <1> QED BY <1>2, <1>3 DEF Gave

LEMMA Answering ==
  ASSUME ServerTypes, NEW i \in ServerIds, NEW cats, answer(i, cats)
  PROVE  /\ answers' \in [ServerIds -> Nat] /\ lost' \in [ServerIds -> Nat]
         /\ \A j \in ServerIds :
              answers'[j] + lost'[j] = answers[j] + lost[j] + (IF j = i THEN 1 ELSE 0)
  <1>1. Gave(i)
    BY DEF answer, Gave
  <1> QED BY <1>1, Giving

LEMMA Untracking ==
  ASSUME ServerTypes, NEW i \in ServerIds, tracked' = Untracked(i)
  PROVE  /\ tracked' \in [ServerIds -> [req: Asks \cup {0}, seq: Nat]]
         /\ Holds(i)' = 0 /\ ~Held(i)'
         /\ \A j \in ServerIds \ {i} : tracked'[j] = tracked[j] /\ Holds(j)' = Holds(j)
  <1>1. tracked' = [tracked EXCEPT ![i] = noEntry] /\ noEntry.req = 0
        /\ noEntry \in [req: Asks \cup {0}, seq: Nat]
    BY DEF Untracked, noEntry
  <1>2. tracked'[i] = noEntry /\ \A j \in ServerIds \ {i} : tracked'[j] = tracked[j]
    BY <1>1 DEF ServerTypes
  <1> QED BY <1>1, <1>2 DEF ServerTypes, Holds, Held

\* Where the requests in the buffers go.
LEMMA BufferGrows ==
  ASSUME ServerTypes, NEW s \in Streams, NEW r \in Asks, buf' = [buf EXCEPT ![s] = Append(@, r)]
  PROVE  /\ buf' \in [Streams -> Seq(Asks)]
         /\ \A q : Buffered(q)' <=> Buffered(q) \/ q = r
  <1>1. buf \in [Streams -> Seq(Asks)] /\ buf[s] \in Seq(Asks)
    BY DEF ServerTypes
  <1>2. buf' \in [Streams -> Seq(Asks)] /\ buf'[s] = Append(buf[s], r)
        /\ \A t \in Streams \ {s} : buf'[t] = buf[t]
    BY <1>1
  <1>3. \A q : (\E k \in DOMAIN buf'[s] : buf'[s][k] = q) <=>
               (\E k \in DOMAIN buf[s] : buf[s][k] = q) \/ q = r
    <2> SUFFICES ASSUME NEW q
                 PROVE  (\E k \in DOMAIN buf'[s] : buf'[s][k] = q) <=>
                        (\E k \in DOMAIN buf[s] : buf[s][k] = q) \/ q = r
      OBVIOUS
    <2>1. /\ DOMAIN buf'[s] = DOMAIN buf[s] \cup {Len(buf[s]) + 1}
          /\ buf'[s][Len(buf[s]) + 1] = r
          /\ \A k \in DOMAIN buf[s] : buf'[s][k] = buf[s][k]
      BY <1>1, <1>2
    <2> QED BY <2>1
  <1>4. ASSUME NEW q
        PROVE  /\ Buffered(q) <=> \E t \in Streams : \E k \in DOMAIN buf[t] : buf[t][k] = q
               /\ Buffered(q)' <=> \E t \in Streams : \E k \in DOMAIN buf'[t] : buf'[t][k] = q
    BY DEF Buffered
  <1> QED BY <1>2, <1>3, <1>4

LEMMA BufferShrinks ==
  ASSUME ServerTypes, NEW s \in Streams, buf[s] # <<>>, buf' = [buf EXCEPT ![s] = Tail(@)]
  PROVE  /\ buf' \in [Streams -> Seq(Asks)] /\ Head(buf[s]) \in Asks /\ Buffered(Head(buf[s]))
         /\ \A q : Buffered(q)' => Buffered(q)
         /\ \A q : Buffered(q) => Buffered(q)' \/ q = Head(buf[s])
  <1>1. buf \in [Streams -> Seq(Asks)] /\ buf[s] \in Seq(Asks)
    BY DEF ServerTypes
  <1>2. buf' \in [Streams -> Seq(Asks)] /\ buf'[s] = Tail(buf[s])
        /\ \A t \in Streams \ {s} : buf'[t] = buf[t]
    BY <1>1
  <1>3. /\ 1 \in DOMAIN buf[s] /\ Head(buf[s]) = buf[s][1] /\ buf[s][1] \in Asks
        /\ \A k \in DOMAIN buf'[s] : k + 1 \in DOMAIN buf[s] /\ buf'[s][k] = buf[s][k + 1]
        /\ \A k \in DOMAIN buf[s] : k # 1 => k - 1 \in DOMAIN buf'[s] /\ buf'[s][k - 1] = buf[s][k]
    BY <1>1, <1>2
  <1>4. \A q : (\E k \in DOMAIN buf'[s] : buf'[s][k] = q) => \E k \in DOMAIN buf[s] : buf[s][k] = q
    BY <1>3
  <1>5. \A q : (\E k \in DOMAIN buf[s] : buf[s][k] = q) =>
                 (\E k \in DOMAIN buf'[s] : buf'[s][k] = q) \/ q = Head(buf[s])
    BY <1>3, SMTT(20)
  <1>6. ASSUME NEW q
        PROVE  /\ Buffered(q) <=> \E t \in Streams : \E k \in DOMAIN buf[t] : buf[t][k] = q
               /\ Buffered(q)' <=> \E t \in Streams : \E k \in DOMAIN buf'[t] : buf'[t][k] = q
    BY DEF Buffered
  <1>7. Buffered(Head(buf[s]))
    BY <1>3, <1>6
  <1>8. ASSUME NEW q, Buffered(q)'
        PROVE  Buffered(q)
    <2>1. PICK t \in Streams : \E k \in DOMAIN buf'[t] : buf'[t][k] = q
      BY <1>6, <1>8
    <2>2. \E k \in DOMAIN buf[t] : buf[t][k] = q
      BY <1>2, <1>4, <2>1
    <2> QED BY <1>6, <2>2
  <1>9. ASSUME NEW q, Buffered(q), q # Head(buf[s])
        PROVE  Buffered(q)'
    <2>1. PICK t \in Streams : \E k \in DOMAIN buf[t] : buf[t][k] = q
      BY <1>6, <1>9
    <2>2. \E k \in DOMAIN buf'[t] : buf'[t][k] = q
      <3>1. CASE t = s
        BY <1>5, <1>9, <2>1, <3>1
      <3>2. CASE t # s
        BY <1>2, <2>1, <3>2
      <3> QED BY <3>1, <3>2
    <2> QED BY <1>6, <2>2
  <1> QED BY <1>2, <1>3, <1>7, <1>8, <1>9

LEMMA AskerKept ==
  ASSUME SameHost, NEW q, Asker(q), sLive'[q] = sLive[q], sArmed'[q] = sArmed[q],
         spc'[q] \notin {"idle", "done"} => spc[q] \notin {"idle", "done"},
         spc'[q] \in Forwarding \cup {"cleared"} \/ There(q)' =>
           spc[q] \in Forwarding \cup {"cleared"} \/ There(q)
  PROVE  Asker(q)'
  <1>1. proxy' = proxy /\ killed' = killed /\ degraded' = degraded
    BY DEF SameHost
  <1> QED BY <1>1, Zenon DEF Asker

\* What the tape and the tracker owe an id, before and after a step of a handler.
Given(i) == answers[i] + lost[i] + Holds(i)
Owed(i) == drops[i] + Holds(i)
One(b) == IF b THEN 1 ELSE 0

LEMMA Amounts ==
  ASSUME ServerTypes, NEW i \in ServerIds
  PROVE  /\ answers[i] \in Nat /\ lost[i] \in Nat /\ allows[i] \in Nat /\ drops[i] \in Nat
         /\ Holds(i) \in {0, 1} /\ Given(i) \in Nat /\ Owed(i) \in Nat
  <1>1. answers[i] \in Nat /\ lost[i] \in Nat /\ allows[i] \in Nat /\ drops[i] \in Nat
    BY DEF ServerTypes
  <1>2. Holds(i) \in {0, 1}
    BY DEF Holds
  <1> QED BY <1>1, <1>2 DEF Given, Owed

LEMMA HandlerCounts ==
  ASSUME SInv, ServerTypes', asks' = asks, NEW r \in DOMAIN asks, NEW to \in Started,
         spc' = [spc EXCEPT ![r] = to], replies' = replies, heard \subseteq heard',
         NEW i \in ServerIds,
         Given(i)' = Given(i) + (IF i = idOf(r) THEN One(spc[r] = "idle" \/ spc[r] \in Untold)
                                                     - One(to \in Untold) ELSE 0),
         Owed(i)' + allows[i] >= Owed(i) + allows'[i]
           + (IF i = idOf(r) THEN One(to \in Forwarding) - One(spc[r] \in Forwarding) ELSE 0)
  PROVE  Account(i)' /\ Allowed(i)'
  <1> DEFINE s1 == Cardinality(In(Started, i))     s2 == Cardinality(In(Started, i)')
             u1 == Cardinality(In(Untold, i))      u2 == Cardinality(In(Untold, i)')
             f1 == Cardinality(In(Forwarding, i))  f2 == Cardinality(In(Forwarding, i)')
             p1 == Cardinality(RepliedTo(i))       p2 == Cardinality(RepliedTo(i)')
             g1 == Given(i)  g2 == Given(i)'  o1 == Owed(i)  o2 == Owed(i)'
             a1 == allows[i]  a2 == allows'[i]
  <1>1. ServerTypes /\ Placed /\ Account(i) /\ Allowed(i) /\ heard' \subseteq Asks
    BY DEF SInv, ServerTypes
  <1>2. s1 \in Nat /\ u1 \in Nat /\ f1 \in Nat /\ p1 \in Nat
    BY <1>1, Sizes
  <1>3. g1 \in Nat /\ o1 \in Nat /\ a1 \in Nat
    BY <1>1, Amounts
  <1>4. g2 \in Nat /\ o2 \in Nat /\ a2 \in Nat
    <2>1. /\ answers'[i] \in Nat /\ lost'[i] \in Nat /\ allows'[i] \in Nat /\ drops'[i] \in Nat
          /\ Holds(i)' \in {0, 1}
      BY DEF ServerTypes, Holds
    <2> QED BY <2>1 DEF Given, Owed
  <1>5. s2 = s1 + (IF i = idOf(r) /\ to \in Started THEN 1 ELSE 0)
                - (IF i = idOf(r) /\ spc[r] \in Started THEN 1 ELSE 0)
    BY <1>1, PhaseCounts, ZenonT(40)
  <1>6. u2 = u1 + (IF i = idOf(r) /\ to \in Untold THEN 1 ELSE 0)
                - (IF i = idOf(r) /\ spc[r] \in Untold THEN 1 ELSE 0)
    BY <1>1, PhaseCounts, ZenonT(40)
  <1>7. f2 = f1 + (IF i = idOf(r) /\ to \in Forwarding THEN 1 ELSE 0)
                - (IF i = idOf(r) /\ spc[r] \in Forwarding THEN 1 ELSE 0)
    BY <1>1, PhaseCounts, ZenonT(40)
  <1>8. p2 = p1 /\ (Once(i)' => Once(i))
    BY <1>1, RepliesSame
  <1>9. spc[r] \in AskPhases /\ (spc[r] \in Started <=> spc[r] # "idle")
    BY <1>1, Sizes DEF ServerTypes, Started
  <1>10. spc[r] = "idle" => spc[r] \notin Untold
    BY DEF Untold
  <1>11. s1 = g1 + u1
    BY <1>1, <1>2, Amounts DEF Account, Given
  <1>12. Once(i) => a1 + f1 <= p1 + o1
    BY <1>1, <1>2, Amounts DEF Allowed, Owed
  <1> HIDE DEF s1, s2, u1, u2, f1, f2, p1, p2, g1, g2, o1, o2, a1, a2
  <1>13. /\ g2 = g1 + (IF i = idOf(r) THEN One(spc[r] = "idle" \/ spc[r] \in Untold)
                                                     - One(to \in Untold) ELSE 0)
         /\ o2 + a1 >= o1 + a2
           + (IF i = idOf(r) THEN One(to \in Forwarding) - One(spc[r] \in Forwarding) ELSE 0)
    BY DEF g1, g2, o1, o2, a1, a2
  <1>14. s2 = g2 + u2
    <2>1. CASE i = idOf(r)
      <3>1. g2 = g1 + One(spc[r] = "idle" \/ spc[r] \in Untold) - One(to \in Untold)
        BY <1>3, <1>4, <1>13, <2>1 DEF One
      <3> QED BY <1>2, <1>3, <1>4, <1>5, <1>6, <1>9, <1>10, <1>11, <2>1, <3>1 DEF One
    <2>2. CASE i # idOf(r)
      BY <1>2, <1>3, <1>4, <1>5, <1>6, <1>11, <1>13, <2>2
    <2> QED BY <2>1, <2>2
  <1>15. Once(i)' => a2 + f2 <= p2 + o2
    <2>1. CASE i = idOf(r)
      <3>1. o2 + a1 >= o1 + a2 + One(to \in Forwarding) - One(spc[r] \in Forwarding)
        BY <1>3, <1>4, <1>13, <2>1 DEF One
      <3> QED BY <1>2, <1>3, <1>4, <1>7, <1>8, <1>12, <2>1, <3>1 DEF One
    <2>2. CASE i # idOf(r)
      <3>1. o2 + a1 >= o1 + a2
        BY <1>3, <1>4, <1>13, <2>2
      <3> QED BY <1>2, <1>3, <1>4, <1>7, <1>8, <1>12, <2>2, <3>1
    <2> QED BY <2>1, <2>2
  <1>16. u2 \in Int /\ f2 \in Int /\ p2 \in Int
    BY <1>2, <1>6, <1>7, <1>8
  <1>17. Account(i)'
    <2>1. g2 = answers'[i] + lost'[i] + Holds(i)' /\ answers'[i] \in Nat /\ lost'[i] \in Nat /\ Holds(i)' \in {0, 1}
      BY DEF g2, Given, ServerTypes, Holds
    <2> QED BY <1>14, <1>16, <2>1 DEF Account, s2, u2
  <1>18. Allowed(i)'
    <2>1. o2 = drops'[i] + Holds(i)' /\ drops'[i] \in Nat /\ Holds(i)' \in {0, 1}
      BY DEF o2, Owed, ServerTypes, Holds
    <2> QED BY <1>15, <1>16, <2>1 DEF Allowed, f2, p2, a2
  <1> QED BY <1>17, <1>18

\* What a step of the handler of r leaves of the rest.
LEMMA HandlerKeeps ==
  ASSUME SInv, SameHost, ServerTypes', asks' = asks, NEW r \in DOMAIN asks, NEW to \in Started,
         spc' = [spc EXCEPT ![r] = to], replies' = replies, sub' = sub,
         spc[r] # "done", spc[r] = "sent" => to = "done",
         \A q : There(q)' <=> There(q) \/ (q = r /\ to = "sent"), heard \subseteq heard',
         \A s \in Streams : sub[s] \in {"none", "gone"} => buf'[s] = buf[s],
         \A i \in ServerIds : Held(i)' =>
           \/ tracked'[i] = tracked[i] /\ (tracked[i].req = r /\ spc[r] = "tracked" => to = "sent")
           \/ tracked'[i].req = r /\ idOf(r) = i /\ spc[r] = "cleared" /\ to = "tracked",
         \A q \in Asks \ {r} : sLive'[q] = sLive[q] /\ sArmed'[q] = sArmed[q],
         Asker(r)', \A i \in ServerIds : Account(i)' /\ Allowed(i)'
  PROVE  SInv'
  <1>1. /\ ServerTypes /\ Entries /\ Placed /\ Context /\ (\A q \in Asks : Asker(q))
    BY DEF SInv
  <1>2. r \in Asks /\ spc'[r] = to /\ \A q \in Asks \ {r} : spc'[q] = spc[q]
    BY <1>1, Sizes DEF ServerTypes
  <1>3. Entries'
    <2> SUFFICES ASSUME NEW i \in ServerIds, Held(i)', NEW h, h = tracked'[i].req
                 PROVE  /\ h \in DOMAIN asks' /\ asks'[h].id = i /\ replies'[h] = 0
                        /\ spc'[h] = "tracked" \/ There(h)'
      BY DEF Entries, idOf, There
    <2>1. CASE tracked'[i] = tracked[i] /\ (tracked[i].req = r /\ spc[r] = "tracked" => to = "sent")
      <3>1. Held(i) /\ h = tracked[i].req
        BY <2>1 DEF Held
      <3>2. /\ h \in DOMAIN asks /\ asks[h].id = i /\ replies[h] = 0
            /\ spc[h] = "tracked" \/ There(h)
        BY <1>1, <3>1 DEF Entries, idOf
      <3>3. h \in Asks
        BY <1>1, <3>2, Sizes
      <3>4. spc'[h] = "tracked" \/ There(h)'
        BY <1>2, <2>1, <3>2, <3>3
      <3> QED BY <2>1, <3>2, <3>4
    <2>2. CASE tracked'[i].req = r /\ idOf(r) = i /\ spc[r] = "cleared" /\ to = "tracked"
      <3>1. r \notin heard
        BY <1>1, <1>2, <2>2 DEF Placed, There
      <3>2. replies[r] = 0
        BY <1>1, <1>2, <3>1 DEF Placed
      <3> QED BY <1>2, <2>2, <3>2 DEF idOf
    <2> QED BY <2>1, <2>2
  <1>4. Placed'
    <2>1. \A q \in Asks : There(q)' => q \in DOMAIN asks' /\ spc'[q] \in {"sent", "done"}
      <3> SUFFICES ASSUME NEW q \in Asks, There(q)' PROVE q \in DOMAIN asks /\ spc'[q] \in {"sent", "done"}
        OBVIOUS
      <3>1. CASE q = r /\ to = "sent"
        BY <1>2, <3>1
      <3>2. CASE There(q)
        <4>1. q \in DOMAIN asks /\ spc[q] \in {"sent", "done"}
          BY <1>1, <3>2 DEF Placed
        <4> QED BY <1>2, <4>1
      <3> QED BY <3>1, <3>2
    <2>2. \A q \in Asks : q \notin heard' => replies'[q] = 0
      BY <1>1 DEF Placed
    <2>3. \A s \in Streams : sub'[s] \in {"none", "gone"} => buf'[s] = <<>>
      BY <1>1 DEF Placed
    <2> QED BY <2>1, <2>2, <2>3 DEF Placed
  <1>5. Context'
    BY <1>1 DEF Context, SameHost
  <1>6. ASSUME NEW q \in Asks
        PROVE  Asker(q)'
    <2>1. CASE q = r
      BY <2>1
    <2>2. CASE q # r
      <3>1. sLive'[q] = sLive[q] /\ sArmed'[q] = sArmed[q] /\ spc'[q] = spc[q] /\ (There(q)' => There(q))
        BY <1>2, <2>2
      <3> QED BY <1>1, <3>1, AskerKept
    <2> QED BY <2>1, <2>2
  <1> QED BY <1>3, <1>4, <1>5, <1>6 DEF SInv

LEMMA UnchangedHost ==
  ASSUME unchangedHost
  PROVE  SameHost
  BY Zenon DEF unchangedHost, SameHost, envVars

\* A request is read: refused at once, or given a handler.
LEMMA ReadingKeeps ==
  ASSUME SInv, HostTypes, NEW r \in DOMAIN asks, admitServerRequestID(r) \/ PoolSaturated(r) \/ dispatch(r)
  PROVE  SInv'
  <1>1. ServerTypes /\ Placed /\ r \in Asks /\ asks[r] \in ServerMsgs /\ idOf(r) \in ServerIds
    <2>1. ServerTypes /\ Placed
      BY DEF SInv
    <2>2. asks[r] \in ServerMsgs
      BY <2>1 DEF ServerTypes
    <2> QED BY <2>1, <2>2, Sizes DEF ServerMsgs, idOf
  <1>2. Read(r)
    BY DEF admitServerRequestID, PoolSaturated, dispatch
  <1>3. /\ spc[r] = "idle" /\ asks' = asks /\ tracked' = tracked /\ nextSeq' = nextSeq /\ sub' = sub
        /\ buf' = buf /\ heard' = heard /\ replies' = replies /\ allows' = allows /\ drops' = drops
        /\ sLive' = [sLive EXCEPT ![r] = ~killed]
        /\ sArmed' = [sArmed EXCEPT ![r] = proxy.strict /\ degraded]
        /\ SameHost
    BY <1>2, UnchangedHost DEF Read
  <1>4. \/ spc' = [spc EXCEPT ![r] = "pooled"] /\ answers' = answers /\ lost' = lost
        \/ spc' = [spc EXCEPT ![r] = "done"] /\ \E cats : answer(idOf(r), cats)
    BY DEF admitServerRequestID, PoolSaturated, dispatch
  <1>5. PICK to \in {"pooled", "done"} : /\ spc' = [spc EXCEPT ![r] = to]
                                         /\ to = "pooled" => answers' = answers /\ lost' = lost
                                         /\ to = "done" => \E cats : answer(idOf(r), cats)
    BY <1>4
  <1>6. to \in Started
    BY DEF Started, AskPhases
  <1>7. /\ answers' \in [ServerIds -> Nat] /\ lost' \in [ServerIds -> Nat]
        /\ \A j \in ServerIds :
             answers'[j] + lost'[j] = answers[j] + lost[j] + (IF j = idOf(r) /\ to = "done" THEN 1 ELSE 0)
    <2>1. CASE to = "pooled"
      BY <1>1, <1>5, <2>1 DEF ServerTypes
    <2>2. CASE to = "done"
      BY <1>1, <1>5, <2>2, Answering
    <2> QED BY <2>1, <2>2
  <1>8. sLive' \in [Asks -> BOOLEAN] /\ sArmed' \in [Asks -> BOOLEAN]
    BY <1>1, <1>3, Zenon DEF ServerTypes
  <1>9. spc' \in [Asks -> AskPhases]
    BY <1>1, <1>5 DEF ServerTypes, AskPhases
  <1>10. ServerTypes'
    BY <1>1, <1>3, <1>7, <1>8, <1>9, Zenon DEF ServerTypes
  <1>11. \A q : There(q)' <=> There(q)
    BY <1>3 DEF There, Buffered
  <1>12. ~There(r)
    BY <1>1, <1>3 DEF Placed
  <1>13. \A q \in Asks \ {r} : sLive'[q] = sLive[q] /\ sArmed'[q] = sArmed[q]
    BY <1>1, <1>3 DEF ServerTypes
  <1>14. Asker(r)'
    <2>1. sLive'[r] = ~killed /\ (sArmed'[r] <=> proxy.strict /\ degraded) /\ spc'[r] = to
      BY <1>1, <1>3, <1>5 DEF ServerTypes
    <2>2. proxy' = proxy /\ killed' = killed /\ degraded' = degraded
      BY <1>3 DEF SameHost
    <2>3. to \notin Forwarding \cup {"cleared"}
      BY DEF Forwarding
    <2> QED BY <1>11, <1>12, <2>1, <2>2, <2>3, Zenon DEF Asker
  <1>15. ASSUME NEW i \in ServerIds
         PROVE  Account(i)' /\ Allowed(i)'
    <2>1. Holds(i)' = Holds(i)
      BY <1>3 DEF Holds, Held
    <2>2. Owed(i)' = Owed(i) /\ allows'[i] = allows[i]
      BY <1>3, <2>1 DEF Owed
    <2>3. /\ One(spc[r] = "idle" \/ spc[r] \in Untold) - One(to \in Untold) = IF to = "done" THEN 1 ELSE 0
          /\ One(to \in Forwarding) - One(spc[r] \in Forwarding) = 0
      BY <1>3 DEF One, Untold, Forwarding
    <2>4. Given(i)' = Given(i) + IF i = idOf(r) /\ to = "done" THEN 1 ELSE 0
      BY <1>1, <1>7, <2>1, Amounts DEF Given
    <2>5. Given(i) \in Nat /\ Owed(i) \in Nat /\ allows[i] \in Nat
      BY <1>1, Amounts
    <2>6. Given(i)' = Given(i) + (IF i = idOf(r) THEN One(spc[r] = "idle" \/ spc[r] \in Untold)
                                                     - One(to \in Untold) ELSE 0)
      BY <2>3, <2>4, <2>5
    <2>7. Owed(i)' + allows[i] >= Owed(i) + allows'[i]
           + (IF i = idOf(r) THEN One(to \in Forwarding) - One(spc[r] \in Forwarding) ELSE 0)
      BY <2>2, <2>3, <2>5
    <2> QED BY <1>3, <1>5, <1>6, <1>10, <2>6, <2>7, HandlerCounts
  <1>16. to # "sent" /\ spc[r] # "done" /\ spc[r] # "sent" /\ spc[r] # "tracked"
    BY <1>3
  <1> QED BY <1>3, <1>5, <1>6, <1>10, <1>11, <1>13, <1>14, <1>15, <1>16, HandlerKeeps

LEMMA Stepping ==
  ASSUME SInv, NEW r \in DOMAIN asks, NEW from, NEW to, Step(r, from, to)
  PROVE  /\ ServerTypes /\ Entries /\ Placed /\ Context /\ r \in Asks /\ Asker(r) /\ idOf(r) \in ServerIds
         /\ spc[r] = from /\ spc' = [spc EXCEPT ![r] = to] /\ spc'[r] = to
         /\ asks' = asks /\ replies' = replies /\ sLive' = sLive /\ sArmed' = sArmed /\ SameHost
         /\ to \in AskPhases => spc' \in [Asks -> AskPhases]
  <1>1. ServerTypes /\ Entries /\ Placed /\ Context /\ \A q \in Asks : Asker(q)
    BY DEF SInv
  <1>2. asks[r] \in ServerMsgs /\ r \in Asks
    <2>1. asks[r] \in ServerMsgs
      BY <1>1 DEF ServerTypes
    <2> QED BY <1>1, <2>1, Sizes
  <1>3. /\ spc[r] = from /\ spc' = [spc EXCEPT ![r] = to] /\ asks' = asks /\ replies' = replies
        /\ sLive' = sLive /\ sArmed' = sArmed /\ SameHost
    BY UnchangedHost, Zenon DEF Step
  <1>4. spc'[r] = to /\ (to \in AskPhases => spc' \in [Asks -> AskPhases])
    BY <1>1, <1>2, <1>3 DEF ServerTypes
  <1>5. idOf(r) \in ServerIds
    BY <1>2 DEF idOf, ServerMsgs
  <1> QED BY <1>1, <1>2, <1>3, <1>4, <1>5

\* Refused, or cleared.
LEMMA DecidingKeeps ==
  ASSUME SInv, HostTypes, NEW r \in DOMAIN asks, RefuseServerRequest(r) \/ ClearServerRequest(r)
  PROVE  SInv'
  <1>1. PICK to \in {"cleared", "done"} :
          /\ Step(r, "pooled", to)
          /\ to = "done" => \E cats : answer(idOf(r), cats)
          /\ to = "cleared" => /\ ~refuseServerRequestAcrossRevisions /\ ~killed /\ ~auditGateTripped
                               /\ answers' = answers /\ lost' = lost
    BY DEF RefuseServerRequest, ClearServerRequest
  <1>2. /\ tracked' = tracked /\ nextSeq' = nextSeq /\ sub' = sub /\ buf' = buf /\ heard' = heard
        /\ allows' = allows /\ drops' = drops
    BY DEF RefuseServerRequest, ClearServerRequest
  <1>3. to \in Started /\ to \in AskPhases
    BY DEF Started, AskPhases
  <1>4. /\ ServerTypes /\ Placed /\ Context /\ r \in Asks /\ Asker(r) /\ idOf(r) \in ServerIds
        /\ spc[r] = "pooled" /\ spc' = [spc EXCEPT ![r] = to] /\ spc'[r] = to
        /\ asks' = asks /\ replies' = replies /\ sLive' = sLive /\ sArmed' = sArmed /\ SameHost
        /\ spc' \in [Asks -> AskPhases]
    BY <1>1, <1>3, Stepping
  <1>5. /\ answers' \in [ServerIds -> Nat] /\ lost' \in [ServerIds -> Nat]
        /\ \A j \in ServerIds :
             answers'[j] + lost'[j] = answers[j] + lost[j] + (IF j = idOf(r) /\ to = "done" THEN 1 ELSE 0)
    <2>1. CASE to = "cleared"
      BY <1>1, <1>4, <2>1 DEF ServerTypes
    <2>2. CASE to = "done"
      BY <1>1, <1>4, <2>2, Answering
    <2> QED BY <2>1, <2>2
  <1>6. ServerTypes'
    BY <1>2, <1>4, <1>5, Zenon DEF ServerTypes
  <1>7. \A q : There(q)' <=> There(q)
    BY <1>2 DEF There, Buffered
  <1>8. Asker(r)'
    <2>1. CASE to = "done"
      BY <1>4, <1>7, <2>1, AskerKept DEF Forwarding
    <2>2. CASE to = "cleared"
      <3>1. sLive[r]
        BY <1>1, <1>4, <2>2 DEF Asker
      <3>2. ~sArmed[r]
        BY <1>1, <1>4, <2>2 DEF Asker, auditGateTripped
      <3>3. proxy.contextRev # newRev
        BY <1>1, <1>4, <2>2, HostAssumption
           DEF Context, refuseServerRequestAcrossRevisions, declaresPerRequestRevision, Revisions
      <3>4. proxy' = proxy
        BY <1>4 DEF SameHost
      <3> QED BY <1>4, <3>1, <3>2, <3>3, <3>4 DEF Asker
    <2> QED BY <2>1, <2>2
  <1>9. ASSUME NEW i \in ServerIds
        PROVE  Account(i)' /\ Allowed(i)'
    <2>1. Holds(i)' = Holds(i)
      BY <1>2 DEF Holds, Held
    <2>2. Owed(i)' = Owed(i) /\ allows'[i] = allows[i]
      BY <1>2, <2>1 DEF Owed
    <2>3. /\ One(spc[r] = "idle" \/ spc[r] \in Untold) - One(to \in Untold) = IF to = "done" THEN 1 ELSE 0
          /\ One(to \in Forwarding) - One(spc[r] \in Forwarding) = 0
      BY <1>4 DEF One, Untold, Forwarding
    <2>4. Given(i)' = Given(i) + IF i = idOf(r) /\ to = "done" THEN 1 ELSE 0
      BY <1>4, <1>5, <2>1, Amounts DEF Given
    <2>5. Given(i) \in Nat /\ Owed(i) \in Nat /\ allows[i] \in Nat
      BY <1>4, Amounts
    <2>6. Given(i)' = Given(i) + (IF i = idOf(r) THEN One(spc[r] = "idle" \/ spc[r] \in Untold)
                                                     - One(to \in Untold) ELSE 0)
      BY <2>3, <2>4, <2>5
    <2>7. Owed(i)' + allows[i] >= Owed(i) + allows'[i]
           + (IF i = idOf(r) THEN One(to \in Forwarding) - One(spc[r] \in Forwarding) ELSE 0)
      BY <2>2, <2>3, <2>5
    <2> QED BY <1>2, <1>3, <1>4, <1>6, <2>6, <2>7, HandlerCounts
  <1>10. to # "sent" /\ spc[r] # "done" /\ spc[r] # "sent" /\ spc[r] # "tracked"
    BY <1>4
  <1> QED BY <1>2, <1>3, <1>4, <1>6, <1>7, <1>8, <1>9, <1>10, HandlerKeeps

\* Whose entry goes when r is tracked.
LEMMA Displacing ==
  ASSUME ServerTypes, NEW r \in Asks, idOf(r) \in ServerIds, trackServerRequest(r)
  PROVE  /\ tracked' \in [ServerIds -> [req: Asks \cup {0}, seq: Nat]]
         /\ drops' \in [ServerIds -> Nat] /\ answers' \in [ServerIds -> Nat] /\ lost' \in [ServerIds -> Nat]
         /\ tracked'[idOf(r)].req = r
         /\ \A j \in ServerIds \ {idOf(r)} : tracked'[j] = tracked[j] \/ ~Held(j)'
         /\ \A j \in ServerIds :
              /\ Given(j)' = Given(j) + (IF j = idOf(r) THEN 1 ELSE 0)
              /\ Owed(j)' = Owed(j) + (IF j = idOf(r) THEN 1 ELSE 0)
  <1> DEFINE i == idOf(r)
             new == [req |-> r, seq |-> nextSeq + 1]
  <1>1. new \in [req: Asks \cup {0}, seq: Nat] /\ new.req = r /\ r # 0
    BY DEF ServerTypes, Asks
  <1>2. noEntry \in [req: Asks \cup {0}, seq: Nat] /\ noEntry.req = 0
    BY DEF noEntry
  <1>3. /\ tracked \in [ServerIds -> [req: Asks \cup {0}, seq: Nat]] /\ drops \in [ServerIds -> Nat]
        /\ answers \in [ServerIds -> Nat] /\ lost \in [ServerIds -> Nat]
    BY DEF ServerTypes
  <1>4. i \in ServerIds
    OBVIOUS
  <1>5. \/ /\ displaced(i) = {} /\ tracked' = [tracked EXCEPT ![i] = new]
           /\ answers' = answers /\ lost' = lost /\ drops' = drops
        \/ \E d \in displaced(i) :
             /\ tracked' = [tracked EXCEPT ![d] = noEntry, ![i] = new]
             /\ (\E cats : answer(d, cats)) /\ drops' = [drops EXCEPT ![d] = @ + 1]
    BY DEF trackServerRequest, unanswered
  <1>6. \A j \in ServerIds : /\ answers[j] \in Nat /\ lost[j] \in Nat /\ drops[j] \in Nat
                             /\ Holds(j) \in {0, 1} /\ (Holds(j) = 1 <=> Held(j))
    BY <1>3 DEF Holds
  <1> HIDE DEF i, new
  <1>7. CASE /\ displaced(i) = {} /\ tracked' = [tracked EXCEPT ![i] = new]
             /\ answers' = answers /\ lost' = lost /\ drops' = drops
    <2>1. ~Held(i)
      BY <1>7 DEF displaced
    <2>2. tracked' \in [ServerIds -> [req: Asks \cup {0}, seq: Nat]] /\ tracked'[i] = new
          /\ \A j \in ServerIds \ {i} : tracked'[j] = tracked[j]
      BY <1>1, <1>3, <1>4, <1>7
    <2>3. \A j \in ServerIds : Holds(j)' = IF j = i THEN 1 ELSE Holds(j)
      BY <1>1, <2>2 DEF Holds, Held
    <2>4. \A j \in ServerIds : /\ Given(j)' = Given(j) + (IF j = i THEN 1 ELSE 0)
                               /\ Owed(j)' = Owed(j) + (IF j = i THEN 1 ELSE 0)
      BY <1>6, <1>7, <2>1, <2>3 DEF Given, Owed
    <2> QED BY <1>1, <1>3, <1>7, <2>2, <2>4 DEF i
  <1>8. CASE \E d \in displaced(i) :
               /\ tracked' = [tracked EXCEPT ![d] = noEntry, ![i] = new]
               /\ (\E cats : answer(d, cats)) /\ drops' = [drops EXCEPT ![d] = @ + 1]
    <2>1. PICK d \in displaced(i) :
               /\ tracked' = [tracked EXCEPT ![d] = noEntry, ![i] = new]
               /\ (\E cats : answer(d, cats)) /\ drops' = [drops EXCEPT ![d] = @ + 1]
      BY <1>8
    <2>2. d \in ServerIds /\ Held(d) /\ (d # i => ~Held(i))
      BY <1>4, <2>1 DEF displaced, Outstanding
    <2>3. /\ tracked' \in [ServerIds -> [req: Asks \cup {0}, seq: Nat]] /\ tracked'[i] = new
          /\ d # i => tracked'[d] = noEntry
          /\ \A j \in ServerIds \ {i, d} : tracked'[j] = tracked[j]
      BY <1>1, <1>2, <1>3, <1>4, <2>1, <2>2
    <2>4. \A j \in ServerIds : Holds(j)' = IF j = i THEN 1 ELSE IF j = d THEN 0 ELSE Holds(j)
      BY <1>1, <1>2, <2>3 DEF Holds, Held
    <2>5. /\ answers' \in [ServerIds -> Nat] /\ lost' \in [ServerIds -> Nat]
          /\ \A j \in ServerIds :
               answers'[j] + lost'[j] = answers[j] + lost[j] + (IF j = d THEN 1 ELSE 0)
      BY <2>1, <2>2, Answering
    <2>6. drops' \in [ServerIds -> Nat] /\ \A j \in ServerIds : drops'[j] = drops[j] + IF j = d THEN 1 ELSE 0
      BY <1>3, <2>1, <2>2
    <2>7. \A j \in ServerIds : Given(j)' = Given(j) + (IF j = i THEN 1 ELSE 0)
      <3> SUFFICES ASSUME NEW j \in ServerIds PROVE Given(j)' = Given(j) + (IF j = i THEN 1 ELSE 0)
        OBVIOUS
      <3>1. answers'[j] \in Nat /\ lost'[j] \in Nat
        BY <2>5
      <3>2. answers'[j] + lost'[j] = answers[j] + lost[j] + (IF j = d THEN 1 ELSE 0)
        BY <2>5
      <3>3. Holds(j)' = IF j = i THEN 1 ELSE IF j = d THEN 0 ELSE Holds(j)
        BY <2>4
      <3>4. Holds(j) \in {0, 1} /\ (j = d => Holds(j) = 1) /\ (j = i /\ j # d => Holds(j) = 0)
        BY <1>6, <2>2
      <3>5. answers[j] \in Nat /\ lost[j] \in Nat
        BY <1>6
      <3> QED BY <3>1, <3>2, <3>3, <3>4, <3>5 DEF Given
    <2>8. \A j \in ServerIds : Owed(j)' = Owed(j) + (IF j = i THEN 1 ELSE 0)
      <3> SUFFICES ASSUME NEW j \in ServerIds PROVE Owed(j)' = Owed(j) + (IF j = i THEN 1 ELSE 0)
        OBVIOUS
      <3>1. Holds(j)' = IF j = i THEN 1 ELSE IF j = d THEN 0 ELSE Holds(j)
        BY <2>4
      <3>2. Holds(j) \in {0, 1} /\ (j = d => Holds(j) = 1) /\ (j = i /\ j # d => Holds(j) = 0)
        BY <1>6, <2>2
      <3> QED BY <1>6, <2>6, <3>1, <3>2 DEF Owed
    <2>9. \A j \in ServerIds \ {i} : tracked'[j] = tracked[j] \/ ~Held(j)'
      BY <1>2, <2>3 DEF Held
    <2> QED BY <1>1, <2>3, <2>5, <2>6, <2>7, <2>8, <2>9 DEF i
  <1> QED BY <1>5, <1>7, <1>8

LEMMA TrackingKeeps ==
  ASSUME SInv, NEW r \in DOMAIN asks, trackServerRequest(r)
  PROVE  SInv'
  <1>1. /\ Step(r, "cleared", "tracked") /\ nextSeq' = nextSeq + 1
        /\ sub' = sub /\ buf' = buf /\ heard' = heard /\ allows' = allows
    BY DEF trackServerRequest
  <1>2. "tracked" \in Started /\ "tracked" \in AskPhases
    BY DEF Started, AskPhases
  <1>3. /\ ServerTypes /\ Placed /\ r \in Asks /\ Asker(r) /\ idOf(r) \in ServerIds
        /\ spc[r] = "cleared" /\ spc' = [spc EXCEPT ![r] = "tracked"] /\ spc'[r] = "tracked"
        /\ asks' = asks /\ replies' = replies /\ sLive' = sLive /\ sArmed' = sArmed /\ SameHost
        /\ spc' \in [Asks -> AskPhases]
    BY <1>1, <1>2, Stepping
  <1>4. /\ tracked' \in [ServerIds -> [req: Asks \cup {0}, seq: Nat]]
        /\ drops' \in [ServerIds -> Nat] /\ answers' \in [ServerIds -> Nat] /\ lost' \in [ServerIds -> Nat]
        /\ tracked'[idOf(r)].req = r
        /\ \A j \in ServerIds \ {idOf(r)} : tracked'[j] = tracked[j] \/ ~Held(j)'
        /\ \A j \in ServerIds :
             /\ Given(j)' = Given(j) + (IF j = idOf(r) THEN 1 ELSE 0)
             /\ Owed(j)' = Owed(j) + (IF j = idOf(r) THEN 1 ELSE 0)
    BY <1>3, Displacing
  <1>5. ServerTypes'
    <2>1. nextSeq' \in Nat
      BY <1>1, <1>3 DEF ServerTypes
    <2> QED BY <1>1, <1>3, <1>4, <2>1, Zenon DEF ServerTypes
  <1>6. \A q : There(q)' <=> There(q)
    BY <1>1 DEF There, Buffered
  <1>7. Asker(r)'
    BY <1>3, <1>6, AskerKept DEF Forwarding
  <1>8. ASSUME NEW i \in ServerIds
        PROVE  Account(i)' /\ Allowed(i)'
    <2>1. /\ One(spc[r] = "idle" \/ spc[r] \in Untold) - One("tracked" \in Untold) = 1
          /\ One("tracked" \in Forwarding) - One(spc[r] \in Forwarding) = 1
      BY <1>3 DEF One, Untold, Forwarding
    <2>2. Given(i) \in Nat /\ Owed(i) \in Nat /\ allows[i] \in Nat
      BY <1>3, Amounts
    <2>3. Given(i)' = Given(i) + (IF i = idOf(r) THEN One(spc[r] = "idle" \/ spc[r] \in Untold)
                                                     - One("tracked" \in Untold) ELSE 0)
      BY <1>4, <2>1
    <2>4. Owed(i)' + allows[i] >= Owed(i) + allows'[i]
           + (IF i = idOf(r) THEN One("tracked" \in Forwarding) - One(spc[r] \in Forwarding) ELSE 0)
      BY <1>1, <1>4, <2>1, <2>2
    <2> QED BY <1>1, <1>2, <1>3, <1>5, <2>3, <2>4, HandlerCounts
  <1>9. \A i \in ServerIds : Held(i)' =>
           \/ tracked'[i] = tracked[i] /\ (tracked[i].req = r /\ spc[r] = "tracked" => "tracked" = "sent")
           \/ tracked'[i].req = r /\ idOf(r) = i /\ spc[r] = "cleared" /\ "tracked" = "tracked"
    BY <1>3, <1>4
  <1> QED BY <1>1, <1>2, <1>3, <1>5, <1>6, <1>7, <1>8, <1>9, HandlerKeeps

\* A tracked request is sent on, cannot be, or its forward is recorded.
LEMMA SendingKeeps ==
  ASSUME SInv, NEW r \in DOMAIN asks, deliverToOne(r) \/ writeToHost(r)
  PROVE  SInv'
  <1>1. /\ Step(r, "tracked", "sent") /\ tracked' = tracked /\ nextSeq' = nextSeq /\ sub' = sub
        /\ allows' = allows /\ drops' = drops /\ answers' = answers /\ lost' = lost
    BY DEF deliverToOne, writeToHost
  <1>2. "sent" \in Started /\ "sent" \in AskPhases
    BY DEF Started, AskPhases
  <1>3. /\ ServerTypes /\ Placed /\ r \in Asks /\ Asker(r) /\ idOf(r) \in ServerIds
        /\ spc[r] = "tracked" /\ spc' = [spc EXCEPT ![r] = "sent"] /\ spc'[r] = "sent"
        /\ asks' = asks /\ replies' = replies /\ sLive' = sLive /\ sArmed' = sArmed /\ SameHost
        /\ spc' \in [Asks -> AskPhases]
    BY <1>1, <1>2, Stepping
  <1>4. /\ buf' \in [Streams -> Seq(Asks)] /\ heard' \subseteq Asks /\ heard \subseteq heard'
        /\ \A q : There(q)' <=> There(q) \/ q = r
        /\ \A s \in Streams : sub[s] \in {"none", "gone"} => buf'[s] = buf[s]
    <2>1. CASE deliverToOne(r)
      <3>1. PICK s \in Streams : Open(s) /\ buf' = [buf EXCEPT ![s] = Append(@, r)]
        BY <2>1 DEF deliverToOne
      <3>2. heard' = heard
        BY <2>1 DEF deliverToOne
      <3>3. buf' \in [Streams -> Seq(Asks)] /\ \A q : Buffered(q)' <=> Buffered(q) \/ q = r
        BY <1>3, <3>1, BufferGrows
      <3>4. \A t \in Streams : sub[t] \in {"none", "gone"} => buf'[t] = buf[t]
        BY <1>3, <3>1 DEF Open, ServerTypes
      <3> QED BY <1>3, <3>2, <3>3, <3>4 DEF There, ServerTypes
    <2>2. CASE writeToHost(r)
      BY <1>3, <2>2 DEF writeToHost, There, Buffered, ServerTypes
    <2> QED BY <2>1, <2>2
  <1>5. ServerTypes'
    BY <1>1, <1>3, <1>4, Zenon DEF ServerTypes
  <1>6. Asker(r)'
    BY <1>3, AskerKept DEF Forwarding
  <1>7. ASSUME NEW i \in ServerIds
        PROVE  Account(i)' /\ Allowed(i)'
    <2>1. /\ One(spc[r] = "idle" \/ spc[r] \in Untold) - One("sent" \in Untold) = 0
          /\ One("sent" \in Forwarding) - One(spc[r] \in Forwarding) = 0
      BY <1>3 DEF One, Untold, Forwarding
    <2>2. Given(i) \in Nat /\ Owed(i) \in Nat /\ allows[i] \in Nat
      BY <1>3, Amounts
    <2>3. Given(i)' = Given(i) /\ Owed(i)' = Owed(i)
      BY <1>1 DEF Given, Owed, Holds, Held
    <2>4. Given(i)' = Given(i) + (IF i = idOf(r) THEN One(spc[r] = "idle" \/ spc[r] \in Untold)
                                                     - One("sent" \in Untold) ELSE 0)
      BY <2>1, <2>2, <2>3
    <2>5. Owed(i)' + allows[i] >= Owed(i) + allows'[i]
           + (IF i = idOf(r) THEN One("sent" \in Forwarding) - One(spc[r] \in Forwarding) ELSE 0)
      BY <1>1, <2>1, <2>2, <2>3
    <2> QED BY <1>2, <1>3, <1>4, <1>5, <2>4, <2>5, HandlerCounts
  <1>8. \A q : There(q)' <=> There(q) \/ (q = r /\ "sent" = "sent")
    BY <1>4
  <1> QED BY <1>1, <1>2, <1>3, <1>4, <1>5, <1>6, <1>7, <1>8, HandlerKeeps

\* What taking an entry, with the answer it obliges to, does to the accounts of its id.
Taken(i) ==
  /\ tracked' \in [ServerIds -> [req: Asks \cup {0}, seq: Nat]]
  /\ answers' \in [ServerIds -> Nat] /\ lost' \in [ServerIds -> Nat]
  /\ ~Held(i)' /\ Holds(i)' = 0
  /\ \A j \in ServerIds \ {i} : tracked'[j] = tracked[j] /\ Holds(j)' = Holds(j)
  /\ \A j \in ServerIds : Given(j)' = Given(j)

LEMMA Taking ==
  ASSUME ServerTypes, NEW i \in ServerIds,
         \/ Held(i) /\ Gave(i) /\ tracked' = Untracked(i)
         \/ ~Held(i) /\ answers' = answers /\ lost' = lost /\ tracked' = tracked
  PROVE  Taken(i)
  <1>1. CASE ~Held(i) /\ answers' = answers /\ lost' = lost /\ tracked' = tracked
    BY <1>1 DEF Taken, Held, Holds, Given, ServerTypes
  <1>2. CASE Held(i) /\ Gave(i) /\ tracked' = Untracked(i)
    <2>1. /\ tracked' \in [ServerIds -> [req: Asks \cup {0}, seq: Nat]]
          /\ Holds(i)' = 0 /\ ~Held(i)'
          /\ \A j \in ServerIds \ {i} : tracked'[j] = tracked[j] /\ Holds(j)' = Holds(j)
      BY <1>2, Untracking
    <2>2. /\ answers' \in [ServerIds -> Nat] /\ lost' \in [ServerIds -> Nat]
          /\ \A j \in ServerIds :
               answers'[j] + lost'[j] = answers[j] + lost[j] + (IF j = i THEN 1 ELSE 0)
      BY <1>2, Giving
    <2>3. Holds(i) = 1
      BY <1>2 DEF Holds
    <2>4. ASSUME NEW j \in ServerIds
          PROVE  Given(j)' = Given(j)
      <3>1. answers'[j] \in Nat /\ lost'[j] \in Nat /\ answers[j] \in Nat /\ lost[j] \in Nat /\ Holds(j) \in {0, 1}
        BY <2>2, Amounts
      <3>2. answers'[j] + lost'[j] = answers[j] + lost[j] + (IF j = i THEN 1 ELSE 0)
        BY <2>2
      <3>3. Holds(j)' = IF j = i THEN 0 ELSE Holds(j)
        BY <2>1
      <3> QED BY <2>3, <3>1, <3>2, <3>3 DEF Given
    <2> QED BY <2>1, <2>2, <2>4 DEF Taken
  <1> QED BY <1>1, <1>2

LEMMA UndeliveredKeeps ==
  ASSUME SInv, NEW r \in DOMAIN asks, Undelivered(r)
  PROVE  SInv'
  <1>1. /\ Step(r, "tracked", "done") /\ nextSeq' = nextSeq /\ sub' = sub /\ buf' = buf /\ heard' = heard
        /\ allows' = allows /\ drops' = drops
    BY DEF Undelivered
  <1>2. "done" \in Started /\ "done" \in AskPhases
    BY DEF Started, AskPhases
  <1>3. /\ ServerTypes /\ Placed /\ Entries /\ r \in Asks /\ Asker(r) /\ idOf(r) \in ServerIds
        /\ spc[r] = "tracked" /\ spc' = [spc EXCEPT ![r] = "done"] /\ spc'[r] = "done"
        /\ asks' = asks /\ replies' = replies /\ sLive' = sLive /\ sArmed' = sArmed /\ SameHost
        /\ spc' \in [Asks -> AskPhases]
    BY <1>1, <1>2, Stepping
  <1>4. PICK own \in ServerIds : own = idOf(r) /\ Taken(own)
    <2>1. \/ Held(idOf(r)) /\ Gave(idOf(r)) /\ tracked' = Untracked(idOf(r))
          \/ ~Held(idOf(r)) /\ answers' = answers /\ lost' = lost /\ tracked' = tracked
      BY DEF Undelivered, unanswered, answer, Gave
    <2>2. PICK own \in ServerIds : own = idOf(r)
      BY <1>3
    <2>3. Taken(own)
      BY <1>3, <2>1, <2>2, Taking
    <2> QED BY <2>2, <2>3
  <1>5. ServerTypes'
    BY <1>1, <1>3, <1>4, Zenon DEF ServerTypes, Taken
  <1>6. \A q : There(q)' <=> There(q)
    BY <1>1 DEF There, Buffered
  <1>7. Asker(r)'
    BY <1>3, <1>6, AskerKept DEF Forwarding
  <1>8. ASSUME NEW i \in ServerIds
        PROVE  Account(i)' /\ Allowed(i)'
    <2>1. /\ One(spc[r] = "idle" \/ spc[r] \in Untold) - One("done" \in Untold) = 0
          /\ One("done" \in Forwarding) - One(spc[r] \in Forwarding) = -1
      BY <1>3 DEF One, Untold, Forwarding
    <2>2. Given(i) \in Nat /\ Owed(i) \in Nat /\ allows[i] \in Nat /\ drops[i] \in Nat /\ Holds(i) \in {0, 1}
      BY <1>3, Amounts
    <2>3. Given(i)' = Given(i) /\ (i # own => Holds(i)' = Holds(i)) /\ Holds(i)' \in {0, 1}
      BY <1>4, <2>2 DEF Taken
    <2>4. Owed(i)' >= Owed(i) - IF i = idOf(r) THEN 1 ELSE 0
      BY <1>1, <1>4, <2>2, <2>3 DEF Owed
    <2>5. Owed(i)' \in Nat
      BY <1>1, <2>2, <2>3 DEF Owed
    <2>6. Given(i)' = Given(i) + (IF i = idOf(r) THEN One(spc[r] = "idle" \/ spc[r] \in Untold)
                                                     - One("done" \in Untold) ELSE 0)
      BY <2>1, <2>2, <2>3
    <2>7. Owed(i)' + allows[i] >= Owed(i) + allows'[i]
           + (IF i = idOf(r) THEN One("done" \in Forwarding) - One(spc[r] \in Forwarding) ELSE 0)
      BY <1>1, <2>1, <2>2, <2>4, <2>5
    <2> QED BY <1>1, <1>2, <1>3, <1>5, <2>6, <2>7, HandlerCounts
  <1>9. \A i \in ServerIds : Held(i)' =>
           \/ tracked'[i] = tracked[i] /\ (tracked[i].req = r /\ spc[r] = "tracked" => "done" = "sent")
           \/ tracked'[i].req = r /\ idOf(r) = i /\ spc[r] = "cleared" /\ "done" = "tracked"
    <2> SUFFICES ASSUME NEW i \in ServerIds, Held(i)'
                 PROVE  tracked'[i] = tracked[i] /\ tracked[i].req # r
      OBVIOUS
    <2>1. i # own /\ tracked'[i] = tracked[i]
      BY <1>4 DEF Taken
    <2>2. Held(i)
      BY <2>1 DEF Held
    <2> QED BY <1>3, <1>4, <2>1, <2>2 DEF Entries
  <1> QED BY <1>1, <1>2, <1>3, <1>5, <1>6, <1>7, <1>8, <1>9, HandlerKeeps

LEMMA OutcomeKeeps ==
  ASSUME SInv, NEW r \in DOMAIN asks, recordForwardOutcome(r)
  PROVE  SInv'
  <1>1. /\ Step(r, "sent", "done") /\ tracked' = tracked /\ nextSeq' = nextSeq /\ sub' = sub
        /\ buf' = buf /\ heard' = heard /\ drops' = drops /\ answers' = answers /\ lost' = lost
        /\ allows' = [allows EXCEPT ![idOf(r)] = @ + 1]
    BY DEF recordForwardOutcome
  <1>2. "done" \in Started /\ "done" \in AskPhases
    BY DEF Started, AskPhases
  <1>3. /\ ServerTypes /\ Placed /\ r \in Asks /\ Asker(r) /\ idOf(r) \in ServerIds
        /\ spc[r] = "sent" /\ spc' = [spc EXCEPT ![r] = "done"] /\ spc'[r] = "done"
        /\ asks' = asks /\ replies' = replies /\ sLive' = sLive /\ sArmed' = sArmed /\ SameHost
        /\ spc' \in [Asks -> AskPhases]
    BY <1>1, <1>2, Stepping
  <1>4. allows' \in [ServerIds -> Nat] /\ \A j \in ServerIds : allows'[j] = allows[j] + IF j = idOf(r) THEN 1 ELSE 0
    BY <1>1, <1>3 DEF ServerTypes
  <1>5. ServerTypes'
    BY <1>1, <1>3, <1>4, Zenon DEF ServerTypes
  <1>6. \A q : There(q)' <=> There(q)
    BY <1>1 DEF There, Buffered
  <1>7. Asker(r)'
    BY <1>3, <1>6, AskerKept DEF Forwarding
  <1>8. ASSUME NEW i \in ServerIds
        PROVE  Account(i)' /\ Allowed(i)'
    <2>1. /\ One(spc[r] = "idle" \/ spc[r] \in Untold) - One("done" \in Untold) = 0
          /\ One("done" \in Forwarding) - One(spc[r] \in Forwarding) = -1
      BY <1>3 DEF One, Untold, Forwarding
    <2>2. Given(i) \in Nat /\ Owed(i) \in Nat /\ allows[i] \in Nat
      BY <1>3, Amounts
    <2>3. Given(i)' = Given(i) /\ Owed(i)' = Owed(i)
      BY <1>1 DEF Given, Owed, Holds, Held
    <2>4. Given(i)' = Given(i) + (IF i = idOf(r) THEN One(spc[r] = "idle" \/ spc[r] \in Untold)
                                                     - One("done" \in Untold) ELSE 0)
      BY <2>1, <2>2, <2>3
    <2>5. Owed(i)' + allows[i] >= Owed(i) + allows'[i]
           + (IF i = idOf(r) THEN One("done" \in Forwarding) - One(spc[r] \in Forwarding) ELSE 0)
      BY <1>4, <2>1, <2>2, <2>3
    <2> QED BY <1>1, <1>2, <1>3, <1>5, <2>4, <2>5, HandlerCounts
  <1> QED BY <1>1, <1>2, <1>3, <1>5, <1>6, <1>7, <1>8, HandlerKeeps

-------------------------------------------------------------------------------
\* A step beside the handlers: of a stream, or with the host's reply.
LEMMA BesideKeeps ==
  ASSUME SInv, SameHost, ServerTypes', asks' = asks, spc' = spc, sLive' = sLive, sArmed' = sArmed,
         allows' = allows, \A q : There(q)' => There(q),
         \A q \in Asks : q \notin heard' => replies'[q] = 0,
         \A s \in Streams : sub'[s] \in {"none", "gone"} => buf'[s] = <<>>,
         \A i \in ServerIds : Held(i)' =>
           /\ tracked'[i] = tracked[i] /\ replies'[tracked[i].req] = replies[tracked[i].req]
           /\ \A q : q = tracked[i].req /\ There(q) => There(q)',
         \A i \in ServerIds : Given(i)' = Given(i),
         \A i \in ServerIds : Once(i)' =>
           Once(i) /\ \E p \in Nat : Cardinality(RepliedTo(i)') = Cardinality(RepliedTo(i)) + p
                                     /\ Owed(i)' + p >= Owed(i)
  PROVE  SInv'
  <1>1. /\ ServerTypes /\ Entries /\ Placed /\ Context /\ (\A q \in Asks : Asker(q))
        /\ \A i \in ServerIds : Account(i) /\ Allowed(i)
    BY DEF SInv
  <1>2. Entries'
    <2> SUFFICES ASSUME NEW i \in ServerIds, Held(i)', NEW h, h = tracked'[i].req
                 PROVE  /\ h \in DOMAIN asks' /\ asks'[h].id = i /\ replies'[h] = 0
                        /\ spc'[h] = "tracked" \/ There(h)'
      BY DEF Entries, idOf, There
    <2>1. Held(i) /\ h = tracked[i].req
      BY DEF Held
    <2>2. /\ h \in DOMAIN asks /\ asks[h].id = i /\ replies[h] = 0
          /\ spc[h] = "tracked" \/ There(h)
      BY <1>1, <2>1 DEF Entries, idOf
    <2> QED BY <2>1, <2>2
  <1>3. Placed'
    <2>1. \A q \in Asks : There(q)' => q \in DOMAIN asks' /\ spc'[q] \in {"sent", "done"}
      BY <1>1 DEF Placed
    <2> QED BY <2>1 DEF Placed
  <1>4. Context'
    BY <1>1 DEF Context, SameHost
  <1>5. \A q \in Asks : Asker(q)'
    BY <1>1, AskerKept
  <1>6. ASSUME NEW i \in ServerIds
        PROVE  Account(i)' /\ Allowed(i)'
    <2>1. \A phases : In(phases, i)' = In(phases, i)
      BY DEF In, idOf
    <2>2. /\ Given(i) \in Nat /\ Owed(i) \in Nat /\ allows[i] \in Nat
          /\ Given(i) = answers[i] + lost[i] + Holds(i) /\ Owed(i) = drops[i] + Holds(i)
      BY <1>1, Amounts DEF Given, Owed
    <2>3. /\ Cardinality(In(Started, i)) \in Nat /\ Cardinality(In(Untold, i)) \in Nat
          /\ Cardinality(In(Forwarding, i)) \in Nat /\ Cardinality(RepliedTo(i)) \in Nat
      BY <1>1, Sizes
    <2>4. /\ answers'[i] \in Nat /\ lost'[i] \in Nat /\ drops'[i] \in Nat /\ Holds(i)' \in {0, 1}
          /\ Given(i)' = answers'[i] + lost'[i] + Holds(i)' /\ Owed(i)' = drops'[i] + Holds(i)'
      BY DEF ServerTypes, Holds, Given, Owed
    <2>5. answers[i] \in Nat /\ lost[i] \in Nat /\ drops[i] \in Nat /\ Holds(i) \in {0, 1}
      BY <1>1, Amounts
    <2>6. Account(i)'
      <3>1. Cardinality(In(Started, i)) = Given(i) + Cardinality(In(Untold, i))
        BY <1>1, <2>2, <2>3, <2>5 DEF Account
      <3>2. Cardinality(In(Started, i)') = answers'[i] + lost'[i] + Cardinality(In(Untold, i)') + Holds(i)'
        BY <2>1, <2>2, <2>3, <2>4, <3>1
      <3> QED BY <3>2 DEF Account
    <2>7. ASSUME Once(i)'
          PROVE  allows'[i] + Cardinality(In(Forwarding, i)') <= Cardinality(RepliedTo(i)') + drops'[i] + Holds(i)'
      <3>1. PICK p \in Nat : Cardinality(RepliedTo(i)') = Cardinality(RepliedTo(i)) + p
                             /\ Owed(i)' + p >= Owed(i)
        BY <2>7
      <3>2. Once(i)
        BY <2>7
      <3>3. allows[i] + Cardinality(In(Forwarding, i)) <= Cardinality(RepliedTo(i)) + Owed(i)
        BY <1>1, <2>2, <2>3, <2>5, <3>2 DEF Allowed
      <3>4. In(Forwarding, i)' = In(Forwarding, i)
        BY <2>1
      <3>5. PICK o \in Nat : o = Owed(i)' /\ o = drops'[i] + Holds(i)'
        BY <2>4
      <3>6. PICK f \in Nat, c \in Nat : f = Cardinality(In(Forwarding, i)) /\ c = Cardinality(RepliedTo(i))
        BY <2>3
      <3>7. allows[i] + f <= c + p + o
        <4>1. PICK w \in Nat, a \in Nat : w = Owed(i) /\ a = allows[i]
          BY <2>2
        <4>2. o + p >= w
          BY <3>1, <3>5, <4>1
        <4>3. a + f <= c + w
          BY <3>3, <3>6, <4>1
        <4>4. a + f <= c + p + o
          BY <4>2, <4>3
        <4> QED BY <4>1, <4>4
      <3>8. allows'[i] + Cardinality(In(Forwarding, i)') <= c + p + (drops'[i] + Holds(i)')
        BY <3>4, <3>5, <3>6, <3>7
      <3>9. (c + p) + (drops'[i] + Holds(i)') = (c + p) + drops'[i] + Holds(i)'
        BY <2>4
      <3> QED BY <3>1, <3>6, <3>8, <3>9
    <2> QED BY <2>6, <2>7 DEF Allowed
  <1> QED BY <1>2, <1>3, <1>4, <1>5, <1>6 DEF SInv

LEMMA StreamingKeeps ==
  ASSUME SInv, NEW s \in Streams,
         addSub(s) \/ WriteFrame(s) \/ FrameFails(s) \/ EndStream(s) \/ drain(s) \/ GoneStream(s)
  PROVE  SInv'
  <1>1. Streaming
    BY Zenon DEF addSub, WriteFrame, FrameFails, EndStream, drain, GoneStream
  <1>2. /\ asks' = asks /\ spc' = spc /\ nextSeq' = nextSeq /\ replies' = replies /\ sLive' = sLive
        /\ sArmed' = sArmed /\ allows' = allows /\ SameHost
    BY <1>1, UnchangedHost, Zenon DEF Streaming
  <1>3. ServerTypes /\ Entries /\ Placed
    BY DEF SInv
  <1>4. sub' \in [Streams -> {"none", "open", "ending", "gone"}]
    BY <1>3 DEF ServerTypes, addSub, WriteFrame, FrameFails, EndStream, drain, GoneStream
  <1>5. ASSUME tracked' = tracked, drops' = drops, answers' = answers, lost' = lost,
               buf' \in [Streams -> Seq(Asks)], heard' \subseteq Asks, heard \subseteq heard',
               \A q : There(q)' <=> There(q),
               \A t \in Streams : sub'[t] \in {"none", "gone"} => buf'[t] = <<>>
        PROVE  SInv'
    <2>1. ServerTypes'
      BY <1>2, <1>3, <1>4, <1>5, Zenon DEF ServerTypes
    <2>2. \A i \in ServerIds : Given(i)' = Given(i) /\ Owed(i)' = Owed(i) /\ Owed(i) \in Nat
      BY <1>3, <1>5, Amounts DEF Given, Owed, Holds, Held
    <2>3. \A i \in ServerIds : RepliedTo(i)' = RepliedTo(i) /\ (Once(i)' => Once(i)) /\ Cardinality(RepliedTo(i)) \in Nat
      BY <1>2, <1>3, <1>5, RepliesSame, Sizes
    <2>4. \A i \in ServerIds : Once(i)' =>
            Once(i) /\ \E p \in Nat : Cardinality(RepliedTo(i)') = Cardinality(RepliedTo(i)) + p
                                      /\ Owed(i)' + p >= Owed(i)
      <3> SUFFICES ASSUME NEW i \in ServerIds
                   PROVE  Cardinality(RepliedTo(i)') = Cardinality(RepliedTo(i)) + 0 /\ Owed(i)' + 0 >= Owed(i)
        BY <2>3
      <3> QED BY <2>2, <2>3
    <2>5. \A q \in Asks : q \notin heard' => replies'[q] = 0
      BY <1>2, <1>3, <1>5 DEF Placed
    <2> QED BY <1>2, <1>5, <2>1, <2>2, <2>4, <2>5, BesideKeeps
  <1>6. CASE addSub(s) \/ EndStream(s) \/ GoneStream(s)
    <2>1. /\ buf' = buf /\ heard' = heard /\ tracked' = tracked /\ drops' = drops
          /\ answers' = answers /\ lost' = lost
      BY <1>6 DEF addSub, EndStream, GoneStream
    <2>2. \A t \in Streams : sub'[t] \in {"none", "gone"} => buf[t] = <<>>
      BY <1>3, <1>6 DEF addSub, EndStream, GoneStream, Placed, ServerTypes, Drained
    <2>3. \A q : There(q)' <=> There(q)
      BY <2>1 DEF There, Buffered
    <2> QED BY <1>3, <1>5, <2>1, <2>2, <2>3 DEF ServerTypes
  <1>7. ASSUME buf[s] # <<>>, buf' = [buf EXCEPT ![s] = Tail(@)]
        PROVE  /\ buf' \in [Streams -> Seq(Asks)] /\ Head(buf[s]) \in Asks /\ Buffered(Head(buf[s]))
               /\ \A q : Buffered(q)' => Buffered(q)
               /\ \A q : Buffered(q) => Buffered(q)' \/ q = Head(buf[s])
               /\ \A t \in Streams \ {s} : buf'[t] = buf[t]
    BY <1>3, <1>7, BufferShrinks DEF ServerTypes
  <1>8. CASE WriteFrame(s)
    <2>1. /\ buf[s] # <<>> /\ buf' = [buf EXCEPT ![s] = Tail(@)] /\ heard' = heard \cup {Head(buf[s])}
          /\ sub' = sub /\ sub[s] = "open" /\ tracked' = tracked /\ drops' = drops
          /\ answers' = answers /\ lost' = lost
      BY <1>8 DEF WriteFrame, Open
    <2>2. \A q : There(q)' <=> There(q)
      BY <1>7, <2>1 DEF There
    <2>3. \A t \in Streams : sub'[t] \in {"none", "gone"} => buf'[t] = <<>>
      BY <1>3, <1>7, <2>1 DEF Placed
    <2> QED BY <1>3, <1>5, <1>7, <2>1, <2>2, <2>3 DEF ServerTypes
  <1>9. CASE FrameFails(s) \/ drain(s)
    <2>1. /\ buf[s] # <<>> /\ buf' = [buf EXCEPT ![s] = Tail(@)] /\ heard' = heard
          /\ failServerRequestDelivery(Head(buf[s]))
          /\ (sub[s] = "open" /\ sub' = [sub EXCEPT ![s] = "ending"]) \/ (sub[s] = "ending" /\ sub' = sub)
      BY <1>9 DEF FrameFails, drain, Open
    <2>2. PICK h \in Asks : h = Head(buf[s]) /\ Buffered(h)
      BY <1>7, <2>1
    <2>3. h \in DOMAIN asks /\ asks[h] \in ServerMsgs
      BY <1>3, <2>2 DEF Placed, There, ServerTypes
    <2>4. PICK own \in ServerIds : own = idOf(h)
      BY <2>3 DEF idOf, ServerMsgs
    <2>5. unblock(own, {"serverRequestFailed"}) /\ drops' = IF Held(own) THEN [drops EXCEPT ![own] = @ + 1] ELSE drops
      BY <2>1, <2>2, <2>4 DEF failServerRequestDelivery
    <2>6. Taken(own)
      BY <1>3, <2>5, Taking DEF unblock, unanswered, answer, Gave
    <2>7. drops' \in [ServerIds -> Nat] /\ \A j \in ServerIds : Owed(j)' = Owed(j) /\ Owed(j) \in Nat
      <3>1. drops' \in [ServerIds -> Nat]
              /\ \A j \in ServerIds : drops'[j] = drops[j] + IF j = own /\ Held(own) THEN 1 ELSE 0
        BY <1>3, <2>5, SMTT(20) DEF ServerTypes
      <3>2. \A j \in ServerIds : Holds(j)' = IF j = own THEN 0 ELSE Holds(j)
        BY <2>6 DEF Taken
      <3>3. \A j \in ServerIds : drops[j] \in Nat /\ Holds(j) = IF Held(j) THEN 1 ELSE 0
        BY <1>3, Amounts DEF Holds
      <3>4. \A j \in ServerIds : Owed(j)' = Owed(j)
        BY <3>1, <3>2, <3>3 DEF Owed
      <3> QED BY <1>3, <3>1, <3>4, Amounts
    <2>8. ServerTypes'
      BY <1>2, <1>3, <1>4, <1>7, <2>1, <2>6, <2>7, Zenon DEF ServerTypes, Taken
    <2>9. /\ \A q : There(q)' => There(q)
          /\ \A q : There(q) => There(q)' \/ q = h
      BY <1>7, <2>1, <2>2 DEF There
    <2>10. \A t \in Streams : sub'[t] \in {"none", "gone"} => buf'[t] = <<>>
      BY <1>3, <1>7, <2>1 DEF Placed, ServerTypes
    <2>11. \A i \in ServerIds : Held(i)' =>
             /\ tracked'[i] = tracked[i] /\ replies'[tracked[i].req] = replies[tracked[i].req]
             /\ \A q : q = tracked[i].req /\ There(q) => There(q)'
      <3> SUFFICES ASSUME NEW i \in ServerIds, Held(i)'
                   PROVE  tracked'[i] = tracked[i] /\ tracked[i].req # h
        BY <1>2, <2>9
      <3>1. i # own /\ tracked'[i] = tracked[i]
        BY <2>6 DEF Taken
      <3>2. Held(i)
        BY <3>1 DEF Held
      <3>3. idOf(tracked[i].req) = i
        BY <1>3, <3>2 DEF Entries
      <3> QED BY <2>4, <3>1, <3>3
    <2>12. \A i \in ServerIds : Given(i)' = Given(i)
      BY <2>6 DEF Taken
    <2>13. \A i \in ServerIds : RepliedTo(i)' = RepliedTo(i) /\ (Once(i)' => Once(i)) /\ Cardinality(RepliedTo(i)) \in Nat
      <3>1. heard \subseteq heard' /\ heard' \subseteq Asks
        BY <1>3, <2>1 DEF ServerTypes
      <3> QED BY <1>2, <1>3, <3>1, RepliesSame, Sizes
    <2>14. \A i \in ServerIds : Once(i)' =>
             Once(i) /\ \E p \in Nat : Cardinality(RepliedTo(i)') = Cardinality(RepliedTo(i)) + p
                                       /\ Owed(i)' + p >= Owed(i)
      <3> SUFFICES ASSUME NEW i \in ServerIds
                   PROVE  Cardinality(RepliedTo(i)') = Cardinality(RepliedTo(i)) + 0 /\ Owed(i)' + 0 >= Owed(i)
        BY <2>13
      <3> QED BY <2>7, <2>13
    <2>15. \A q \in Asks : q \notin heard' => replies'[q] = 0
      BY <1>2, <1>3, <2>1 DEF Placed
    <2> QED BY <1>2, <2>8, <2>9, <2>10, <2>11, <2>12, <2>14, <2>15, BesideKeeps
  <1> QED BY <1>6, <1>8, <1>9

LEMMA ReplyingKeeps ==
  ASSUME SInv, NEW r \in DOMAIN asks,
         unblockGateRefusedServerReply(r) \/ ReplyRefusedByRevision(r) \/ routeHostServerResponse(r)
  PROVE  SInv'
  <1>1. Replied(r)
    BY Zenon DEF unblockGateRefusedServerReply, ReplyRefusedByRevision, routeHostServerResponse
  <1>2. /\ r \in heard /\ Held(idOf(r)) /\ asks' = asks /\ spc' = spc /\ nextSeq' = nextSeq /\ sub' = sub
        /\ buf' = buf /\ heard' = heard /\ allows' = allows /\ drops' = drops /\ sLive' = sLive
        /\ sArmed' = sArmed /\ SameHost
    BY <1>1, UnchangedHost, Zenon DEF Replied
  <1>3. ServerTypes /\ Entries /\ Placed
    BY DEF SInv
  <1>4. asks[r] \in ServerMsgs /\ r \in Asks
    BY <1>2, <1>3 DEF ServerTypes
  <1>5. PICK own \in ServerIds : own = idOf(r) /\ Held(own)
    BY <1>2, <1>4 DEF idOf, ServerMsgs
  <1>6. /\ \A q : There(q)' <=> There(q)
        /\ \A s \in Streams : sub'[s] \in {"none", "gone"} => buf'[s] = <<>>
    BY <1>2, <1>3 DEF There, Buffered, Placed
  <1>7. \/ Gave(own) /\ tracked' = Untracked(own) /\ Takes(r)
        \/ tracked' = tracked /\ answers' = answers /\ lost' = lost /\ replies' = replies
    <2>1. CASE unblockGateRefusedServerReply(r)
      BY <1>5, <2>1 DEF unblockGateRefusedServerReply, unblock, unanswered, answer, Gave
    <2>2. CASE ReplyRefusedByRevision(r)
      BY <1>5, <2>2 DEF ReplyRefusedByRevision, unblock, answer, Gave
    <2>3. CASE routeHostServerResponse(r)
      BY <1>5, <2>3 DEF routeHostServerResponse, TakenBy, Gave
    <2> QED BY <2>1, <2>2, <2>3
  <1>8. CASE tracked' = tracked /\ answers' = answers /\ lost' = lost /\ replies' = replies
    <2>1. ServerTypes'
      BY <1>2, <1>3, <1>8, Zenon DEF ServerTypes
    <2>2. \A i \in ServerIds : Given(i)' = Given(i) /\ Owed(i)' = Owed(i) /\ Owed(i) \in Nat
      BY <1>2, <1>3, <1>8, Amounts DEF Given, Owed, Holds, Held
    <2>3. \A i \in ServerIds : RepliedTo(i)' = RepliedTo(i) /\ (Once(i)' => Once(i)) /\ Cardinality(RepliedTo(i)) \in Nat
      <3>1. heard \subseteq heard' /\ heard' \subseteq Asks
        BY <1>2, <1>3 DEF ServerTypes
      <3> QED BY <1>2, <1>3, <1>8, <3>1, RepliesSame, Sizes
    <2>4. \A i \in ServerIds : Once(i)' =>
            Once(i) /\ \E p \in Nat : Cardinality(RepliedTo(i)') = Cardinality(RepliedTo(i)) + p
                                      /\ Owed(i)' + p >= Owed(i)
      <3> SUFFICES ASSUME NEW i \in ServerIds
                   PROVE  Cardinality(RepliedTo(i)') = Cardinality(RepliedTo(i)) + 0 /\ Owed(i)' + 0 >= Owed(i)
        BY <2>3
      <3> QED BY <2>2, <2>3
    <2>5. \A q \in Asks : q \notin heard' => replies'[q] = 0
      BY <1>2, <1>3, <1>8 DEF Placed
    <2> QED BY <1>2, <1>6, <1>8, <2>1, <2>2, <2>4, <2>5, BesideKeeps
  <1>9. CASE Gave(own) /\ tracked' = Untracked(own) /\ Takes(r)
    <2>1. Taken(own)
      BY <1>3, <1>5, <1>9, Taking
    <2>2. /\ replies' \in [Asks -> Nat] /\ \A q \in Asks \ {r} : replies'[q] = replies[q]
      BY <1>3, <1>4, <1>9 DEF Takes, ServerTypes
    <2>3. ServerTypes'
      BY <1>2, <1>3, <2>1, <2>2, Zenon DEF ServerTypes, Taken
    <2>4. \A i \in ServerIds : Given(i)' = Given(i)
      BY <2>1 DEF Taken
    <2>5. \A i \in ServerIds : Held(i)' =>
            /\ tracked'[i] = tracked[i] /\ replies'[tracked[i].req] = replies[tracked[i].req]
            /\ \A q : q = tracked[i].req /\ There(q) => There(q)'
      <3> SUFFICES ASSUME NEW i \in ServerIds, Held(i)'
                   PROVE  tracked'[i] = tracked[i] /\ tracked[i].req \in Asks \ {r}
        BY <1>6, <2>2
      <3>1. i # own /\ tracked'[i] = tracked[i]
        BY <2>1 DEF Taken
      <3>2. Held(i)
        BY <3>1 DEF Held
      <3>3. idOf(tracked[i].req) = i /\ tracked[i].req \in DOMAIN asks
        BY <1>3, <3>2 DEF Entries
      <3> QED BY <1>3, <1>5, <3>1, <3>3, Sizes
    <2>6. ASSUME NEW i \in ServerIds, Once(i)'
          PROVE  Once(i) /\ \E p \in Nat : Cardinality(RepliedTo(i)') = Cardinality(RepliedTo(i)) + p
                                           /\ Owed(i)' + p >= Owed(i)
      <3>1. PICK p \in {0, 1} : p = IF i = own THEN 1 ELSE 0
        OBVIOUS
      <3>2. Once(i) /\ Cardinality(RepliedTo(i)') = Cardinality(RepliedTo(i)) + p
        BY <1>2, <1>3, <1>5, <1>9, <2>6, <3>1, RepliesOne
      <3>3. /\ drops'[i] = drops[i] /\ drops[i] \in Nat /\ Holds(i) \in {0, 1}
            /\ Holds(i)' = IF i = own THEN 0 ELSE Holds(i)
        BY <1>2, <1>3, <2>1, Amounts DEF Taken
      <3>4. Owed(i)' + p >= Owed(i)
        BY <3>1, <3>3 DEF Owed
      <3> QED BY <3>1, <3>2, <3>4
    <2>7. \A q \in Asks : q \notin heard' => replies'[q] = 0
      BY <1>2, <1>3, <2>2 DEF Placed
    <2> QED BY <1>2, <1>6, <2>3, <2>4, <2>5, <2>6, <2>7, BesideKeeps
  <1> QED BY <1>7, <1>8, <1>9

LEMMA ServerNextKeeps ==
  ASSUME SInv, HInv, ServerNext
  PROVE  SInv'
  <1>1. HostTypes
    BY DEF HInv
  <1>2. ASSUME NEW r \in DOMAIN asks,
               \/ admitServerRequestID(r) \/ PoolSaturated(r) \/ dispatch(r)
               \/ RefuseServerRequest(r) \/ ClearServerRequest(r) \/ trackServerRequest(r)
               \/ deliverToOne(r) \/ writeToHost(r) \/ Undelivered(r) \/ recordForwardOutcome(r)
               \/ unblockGateRefusedServerReply(r) \/ ReplyRefusedByRevision(r)
               \/ routeHostServerResponse(r)
        PROVE  SInv'
    BY <1>1, <1>2, ReadingKeeps, DecidingKeeps, TrackingKeeps, SendingKeeps, UndeliveredKeeps,
       OutcomeKeeps, ReplyingKeeps, Zenon
  <1>3. ASSUME NEW s \in Streams,
               addSub(s) \/ WriteFrame(s) \/ FrameFails(s) \/ EndStream(s) \/ drain(s) \/ GoneStream(s)
        PROVE  SInv'
    BY <1>3, StreamingKeeps
  <1> QED BY <1>2, <1>3, Zenon DEF ServerNext

-------------------------------------------------------------------------------
\* Steps that are not the server's: the host's, the kill switch's, the sink's, time's.
LEMMA AsideKeeps ==
  ASSUME SInv, proxy' = proxy, degraded' \in {degraded, TRUE}, hostRev # None => hostRev' = hostRev,
         asks' = asks, spc' = spc, tracked' = tracked, nextSeq' = nextSeq, sub' = sub, buf' = buf,
         heard' = heard, answers' = answers, lost' = lost, replies' = replies, allows' = allows,
         drops' = drops,
         sLive' \in [Asks -> BOOLEAN], \A r \in Asks : sLive[r] /\ spc[r] # "pooled" => sLive'[r],
         \A r \in Asks : spc[r] \notin {"idle", "done"} /\ ~killed' => sLive'[r],
         sArmed' \in [Asks -> BOOLEAN],
         \A r \in Asks : sArmed'[r] =>
           sArmed[r] \/ (spc[r] = "pooled" /\ proxy.strict /\ degraded')
  PROVE  SInv'
  <1>1. /\ ServerTypes /\ Entries /\ Placed /\ Context /\ (\A r \in Asks : Asker(r))
        /\ \A i \in ServerIds : Account(i) /\ Allowed(i)
    BY DEF SInv
  <1>2. ServerTypes'
    BY <1>1, Zenon DEF ServerTypes
  <1>3. \A q : There(q)' <=> There(q)
    BY DEF There, Buffered
  <1>4. Entries'
    <2> SUFFICES ASSUME NEW i \in ServerIds, Held(i)', NEW h, h = tracked'[i].req
                 PROVE  /\ h \in DOMAIN asks' /\ asks'[h].id = i /\ replies'[h] = 0
                        /\ spc'[h] = "tracked" \/ There(h)'
      BY DEF Entries, idOf, There
    <2>1. Held(i) /\ h = tracked[i].req
      BY DEF Held
    <2>2. /\ h \in DOMAIN asks /\ asks[h].id = i /\ replies[h] = 0
          /\ spc[h] = "tracked" \/ There(h)
      BY <1>1, <2>1 DEF Entries, idOf
    <2> QED BY <1>3, <2>1, <2>2
  <1>5. Placed'
    <2>1. \A q \in Asks : There(q)' => q \in DOMAIN asks' /\ spc'[q] \in {"sent", "done"}
      BY <1>1, <1>3 DEF Placed
    <2> QED BY <1>1, <2>1 DEF Placed
  <1>6. Context'
    BY <1>1, Zenon DEF Context
  <1>7. ASSUME NEW q \in Asks
        PROVE  Asker(q)'
    <2>1. Asker(q) /\ (There(q)' <=> There(q)) /\ (sLive[q] /\ spc[q] # "pooled" => sLive'[q])
          /\ (spc[q] \notin {"idle", "done"} /\ ~killed' => sLive'[q])
          /\ (sArmed'[q] => sArmed[q] \/ (spc[q] = "pooled" /\ proxy.strict /\ degraded'))
      BY <1>1, <1>3
    <2>2. degraded => degraded'
      BY Zenon
    <2>3. spc[q] \in Forwarding \cup {"cleared"} \/ There(q) => spc[q] # "pooled"
      BY <1>1 DEF Placed, Forwarding
    <2> QED BY <2>1, <2>2, <2>3, Zenon DEF Asker
  <1>8. ASSUME NEW i \in ServerIds
        PROVE  Account(i)' /\ Allowed(i)'
    <2>1. \A phases : In(phases, i)' = In(phases, i)
      BY DEF In, idOf
    <2>2. /\ RepliedTo(i)' = RepliedTo(i) /\ Once(i)' = Once(i)
          /\ Holds(i)' = Holds(i)
      BY DEF RepliedTo, Once, idOf, Holds, Held
    <2>3. Account(i)'
      BY <1>1, <2>1, <2>2 DEF Account
    <2>4. Allowed(i)'
      BY <1>1, <2>1, <2>2 DEF Allowed
    <2> QED BY <2>3, <2>4
  <1> QED BY <1>2, <1>4, <1>5, <1>6, <1>7, <1>8 DEF SInv

HostSetting ==
  /\ proxy' = proxy /\ killed' = killed /\ degraded' \in {degraded, TRUE}
  /\ hostRev # None => hostRev' = hostRev

LEMMA HostStepsSetting ==
  ASSUME HostSteps
  PROVE  HostSetting
  <1>1. ASSUME NEW m, NEW x, Receive(m, x)
        PROVE  proxy' = proxy /\ killed' = killed /\ degraded' = degraded
    BY <1>1, Zenon DEF Receive, envVars
  <1>2. ASSUME NEW m, NEW x, enforceSessionGates(m, x) \/ refuseHostRevision(m, x)
                             \/ refuseHeaderMismatch(m, x)
        PROVE  HostSetting
    <2>1. Receive(m, x) /\ hostRev' = hostRev
      BY <1>2, Zenon DEF enforceSessionGates, refuseHostRevision, refuseHeaderMismatch
    <2> QED BY <1>1, <2>1, Zenon DEF HostSetting
  <1>3. ASSUME NEW m, NEW x, AcceptRequest(m, x) \/ RefuseBusy(m, x) \/ AcceptNotification(m, x)
        PROVE  HostSetting
    <2>1. Negotiated(m, x)
      BY <1>3, Zenon DEF AcceptRequest, RefuseBusy, AcceptNotification
    <2>2. Receive(m, x) /\ (hostRev # None => hostRev' = hostRev)
      BY <2>1 DEF Negotiated
    <2> QED BY <1>1, <2>2, Zenon DEF HostSetting
  <1>4. ASSUME NEW m, NEW from, Handle(m, from)
        PROVE  HostSetting
    BY <1>4, Zenon DEF Handle, envVars, HostSetting
  <1>6. ASSUME NEW m \in Msgs,
               \/ TornDown(m) \/ malformedDeny(m) \/ Decide(m) \/ dispatchList(m) \/ dispatchLocally(m)
               \/ Refuse(m) \/ strictAuditDenial(m) \/ Proceed(m)
               \/ CallRefused(m) \/ awaitNonced(m) \/ WriteRequest(m) \/ CallFails(m)
               \/ UpstreamAnswers(m) \/ RejectAnswer(m) \/ RedactionFails(m) \/ Return(m)
               \/ admitNotification(m) \/ forwardHostNotification(m) \/ forwardNotification(m)
        PROVE  HostSetting
    <2>1. \E from : Handle(m, from)
      BY <1>6, Zenon DEF TornDown, malformedDeny, Decide, dispatchList, dispatchLocally, Refuse,
         strictAuditDenial, Proceed, CallRefused, awaitNonced, WriteRequest, CallFails,
         UpstreamAnswers, RejectAnswer, RedactionFails, Return, admitNotification,
         forwardHostNotification, forwardNotification
    <2> QED BY <1>4, <2>1
  <1> QED BY <1>2, <1>3, <1>6, Zenon DEF HostSteps

LEMMA MessagesNextKeeps ==
  ASSUME SInv, HInv, [MessagesNext]_messageVars
  PROVE  SInv'
  <1>1. ServerTypes /\ \A r \in Asks : Asker(r)
    BY DEF SInv
  <1>2. sLive \in [Asks -> BOOLEAN] /\ sArmed \in [Asks -> BOOLEAN]
    BY <1>1, Zenon DEF ServerTypes
  <1>3. \A r \in Asks : spc[r] \notin {"idle", "done"} /\ ~killed => sLive[r]
    BY <1>1, Zenon DEF Asker
  <1>4. CASE HostSteps /\ UNCHANGED askVars
    <2>1. HostSetting
      BY <1>4, HostStepsSetting
    <2>2. /\ proxy' = proxy /\ killed' = killed /\ degraded' \in {degraded, TRUE}
          /\ hostRev # None => hostRev' = hostRev
      BY <2>1, Zenon DEF HostSetting
    <2>3. /\ asks' = asks /\ spc' = spc /\ tracked' = tracked /\ nextSeq' = nextSeq /\ sub' = sub
          /\ buf' = buf /\ heard' = heard /\ answers' = answers /\ lost' = lost /\ replies' = replies
          /\ allows' = allows /\ drops' = drops /\ sArmed' = sArmed /\ sLive' = sLive
      BY <1>4, Zenon DEF askVars
    <2> QED BY <1>2, <1>3, <2>2, <2>3, AsideKeeps, Zenon
  <1>5. CASE ServerNext
    BY <1>5, ServerNextKeeps
  <1>6. CASE RevokeAll
    <2>1. /\ proxy' = proxy /\ killed' = ~killed /\ degraded' = degraded /\ hostRev' = hostRev
          /\ asks' = asks /\ spc' = spc /\ tracked' = tracked /\ nextSeq' = nextSeq /\ sub' = sub
          /\ buf' = buf /\ heard' = heard /\ answers' = answers /\ lost' = lost /\ replies' = replies
          /\ allows' = allows /\ drops' = drops /\ sArmed' = sArmed
          /\ sLive' = [r \in Asks |-> IF spc[r] = "pooled" THEN killed
                                      ELSE sLive[r] \/ (killed /\ spc[r] \notin {"idle", "done"})]
      BY <1>6, Zenon DEF RevokeAll, Revoke
    <2>2. ASSUME NEW r \in Asks
          PROVE  sLive'[r] = IF spc[r] = "pooled" THEN killed
                             ELSE sLive[r] \/ (killed /\ spc[r] \notin {"idle", "done"})
      BY <2>1, Zenon
    <2>3. sLive' \in [Asks -> BOOLEAN]
      <3>1. killed \in BOOLEAN
        BY Zenon DEF HInv, HostTypes
      <3>2. ASSUME NEW r \in Asks
            PROVE  (IF spc[r] = "pooled" THEN killed
                    ELSE sLive[r] \/ (killed /\ spc[r] \notin {"idle", "done"})) \in BOOLEAN
        BY <1>2, <3>1, Zenon
      <3> QED BY <2>1, <3>2, Zenon
    <2>4. \A r \in Asks : sLive[r] /\ spc[r] # "pooled" => sLive'[r]
      BY <2>2, Zenon
    <2>5. \A r \in Asks : spc[r] \notin {"idle", "done"} /\ ~killed' => sLive'[r]
      BY <2>1, <2>2, Zenon
    <2> QED BY <1>2, <2>1, <2>3, <2>4, <2>5, AsideKeeps, Zenon
  <1>8. CASE DegradeAll
    <2>1. /\ proxy' = proxy /\ killed' = killed /\ degraded' = TRUE /\ hostRev' = hostRev
          /\ asks' = asks /\ spc' = spc /\ tracked' = tracked /\ nextSeq' = nextSeq /\ sub' = sub
          /\ buf' = buf /\ heard' = heard /\ answers' = answers /\ lost' = lost /\ replies' = replies
          /\ allows' = allows /\ drops' = drops /\ sLive' = sLive /\ proxy.strict
          /\ sArmed' = [r \in Asks |-> sArmed[r] \/ spc[r] = "pooled"]
      BY <1>8, Zenon DEF DegradeAll, SinkDegrades
    <2>2. sArmed' \in [Asks -> BOOLEAN]
      BY <2>1, Zenon
    <2>3. \A r \in Asks : sArmed'[r] =>
            sArmed[r] \/ (spc[r] = "pooled" /\ proxy.strict /\ degraded')
      BY <2>1, Zenon
    <2> QED BY <1>2, <1>3, <2>1, <2>2, <2>3, AsideKeeps, Zenon
  <1>7. CASE Elapse \/ Quiet \/ UNCHANGED messageVars
    <2>1. /\ proxy' = proxy /\ killed' = killed /\ degraded' = degraded /\ hostRev' = hostRev
          /\ asks' = asks /\ spc' = spc /\ tracked' = tracked /\ nextSeq' = nextSeq /\ sub' = sub
          /\ buf' = buf /\ heard' = heard /\ answers' = answers /\ lost' = lost /\ replies' = replies
          /\ allows' = allows /\ drops' = drops /\ sArmed' = sArmed /\ sLive' = sLive
      BY <1>7, Zenon DEF Elapse, Quiet, messageVars, hostVars, askVars, envVars
    <2> QED BY <1>2, <1>3, <2>1, AsideKeeps, Zenon
  <1> QED BY <1>4, <1>5, <1>6, <1>7, <1>8 DEF MessagesNext

LEMMA ServerInitial ==
  ASSUME ServerInit
  PROVE  SInv
  <1>1. asks \in Seq(ServerMsgs) /\ Len(asks) <= MaxAsks
    BY ServerAssumption DEF ServerInit
  <1>2. /\ spc = [r \in Asks |-> "idle"] /\ tracked = [i \in ServerIds |-> noEntry] /\ nextSeq = 0
        /\ sub = [s \in Streams |-> "none"] /\ buf = [s \in Streams |-> <<>>] /\ heard = {}
        /\ answers = [i \in ServerIds |-> 0] /\ lost = [i \in ServerIds |-> 0]
        /\ replies = [r \in Asks |-> 0]
        /\ allows = [i \in ServerIds |-> 0] /\ drops = [i \in ServerIds |-> 0]
    BY DEF ServerInit
  <1>3. /\ sLive = [r \in Asks |-> FALSE] /\ sArmed = [r \in Asks |-> FALSE]
    BY DEF ServerInit
  <1>4. /\ sLive \in [Asks -> BOOLEAN] /\ sArmed \in [Asks -> BOOLEAN]
    BY <1>3, Zenon
  <1>5. hostRev = proxy.contextRev
    BY DEF ServerInit, HostInit
  <1>6. noEntry \in [req: Asks \cup {0}, seq: Nat] /\ noEntry.req = 0
    BY DEF noEntry
  <1>7. ServerTypes
    <2>1. /\ spc \in [Asks -> AskPhases] /\ tracked \in [ServerIds -> [req: Asks \cup {0}, seq: Nat]]
          /\ nextSeq \in Nat /\ sub \in [Streams -> {"none", "open", "ending", "gone"}]
          /\ buf \in [Streams -> Seq(Asks)] /\ heard \subseteq Asks
          /\ answers \in [ServerIds -> Nat] /\ lost \in [ServerIds -> Nat]
          /\ allows \in [ServerIds -> Nat] /\ drops \in [ServerIds -> Nat]
          /\ replies \in [Asks -> Nat]
      BY <1>2, <1>6 DEF AskPhases
    <2> QED BY <1>1, <1>4, <2>1, Zenon DEF ServerTypes
  <1>8. \A i \in ServerIds : ~Held(i)
    BY <1>2, <1>6 DEF Held
  <1>9. \A r : ~There(r)
    BY <1>2 DEF There, Buffered
  <1>10. Entries /\ Placed /\ Context
    BY <1>2, <1>5, <1>8, <1>9 DEF Entries, Placed, Context
  <1>11. ASSUME NEW r \in Asks
         PROVE  Asker(r)
    <2>1. spc[r] = "idle" /\ ~There(r)
      BY <1>2, <1>9
    <2>2. ~sArmed[r]
      BY <1>3
    <2> QED BY <2>1, <2>2 DEF Asker, Forwarding
  <1>12. ASSUME NEW i \in ServerIds
         PROVE  Account(i) /\ Allowed(i)
    <2>1. DOMAIN asks \subseteq Asks
      BY <1>7, Sizes
    <2>2. In(Started, i) = {} /\ In(Untold, i) = {} /\ In(Forwarding, i) = {} /\ RepliedTo(i) = {}
      BY <1>2, <2>1 DEF In, Started, Untold, Forwarding, RepliedTo
    <2>3. Cardinality({}) = 0 /\ Holds(i) = 0
      BY <1>8, FS_EmptySet DEF Holds
    <2> QED BY <1>2, <2>2, <2>3 DEF Account, Allowed
  <1> QED BY <1>7, <1>10, <1>11, <1>12 DEF SInv

LEMMA ServerAlwaysSound == MessagesSpec => [](HInv /\ SInv)
  <1>1. ServerInit => SInv
    BY ServerInitial
  <1>2. SInv /\ HInv /\ [MessagesNext]_messageVars => SInv'
    BY MessagesNextKeeps
  <1> QED BY <1>1, <1>2, HostAlwaysSound, PTL DEF MessagesSpec

-------------------------------------------------------------------------------
(***************************************************************************)
(* What the invariants say of the properties.                              *)
(***************************************************************************)
LEMMA ServerPasses ==
  ASSUME SInv
  PROVE  ServerGatesHold
  <1> SUFFICES ASSUME NEW r \in DOMAIN asks, r \in heard \/ Buffered(r)
               PROVE  sLive[r] /\ ~sArmed[r] /\ proxy.contextRev # newRev
    BY DEF ServerGatesHold
  <1>1. r \in Asks
    BY Sizes DEF SInv
  <1>2. There(r) /\ Asker(r)
    BY <1>1 DEF There, SInv
  <1> QED BY <1>2, Zenon DEF Asker

LEMMA AskersCounted ==
  ASSUME SInv
  PROVE  InitiatorsAccounted
  <1> SUFFICES ASSUME NEW i \in ServerIds
               PROVE  Cardinality({r \in DOMAIN asks : idOf(r) = i /\ spc[r] # "idle"}) =
                        answers[i] + lost[i] + Cardinality(WaitingUntracked(i))
                          + (IF Held(i) THEN 1 ELSE 0)
    BY DEF InitiatorsAccounted
  <1>1. ServerTypes /\ Account(i)
    BY DEF SInv
  <1>2. \A r \in DOMAIN asks : spc[r] \in AskPhases
    BY <1>1, Sizes DEF ServerTypes
  <1>3. {r \in DOMAIN asks : idOf(r) = i /\ spc[r] # "idle"} = In(Started, i)
    BY <1>2 DEF In, Started
  <1>4. WaitingUntracked(i) = In(Untold, i)
    BY DEF WaitingUntracked, In, Untold
  <1> QED BY <1>1, <1>3, <1>4 DEF Account, Holds

LEMMA AllowsBacked ==
  ASSUME SInv
  PROVE  StandingAllowsAreReal
  <1>1. ServerTypes /\ Entries /\ Placed
    BY DEF SInv
  <1>2. ASSUME NEW i \in ServerIds, \A r \in heard : idOf(r) = i => replies[r] <= 1
        PROVE  allows[i] <= drops[i] + Cardinality({r \in heard : idOf(r) = i}
                                         \cup {r \in DOMAIN asks : idOf(r) = i /\ Buffered(r)})
    <2> DEFINE near == {r \in heard : idOf(r) = i} \cup {r \in DOMAIN asks : idOf(r) = i /\ Buffered(r)}
               told == RepliedTo(i)
    <2>1. allows[i] + Cardinality(In(Forwarding, i)) <= Cardinality(told) + drops[i] + Holds(i)
      BY <1>2 DEF SInv, Allowed, Once
    <2>2. /\ IsFiniteSet(told) /\ Cardinality(told) \in Nat /\ IsFiniteSet(In(Forwarding, i))
          /\ Cardinality(In(Forwarding, i)) \in Nat /\ allows[i] \in Nat /\ drops[i] \in Nat
          /\ DOMAIN asks \subseteq Asks
      BY <1>1, Sizes, Amounts
    <2>3. IsFiniteSet(near)
      <3>1. near \subseteq Asks
        BY <1>1, <2>2 DEF ServerTypes
      <3>2. IsFiniteSet(Asks)
        BY FS_Interval, ServerAssumption DEF Asks
      <3> QED BY <3>1, <3>2, FS_Subset
    <2>4. told \subseteq near
      BY DEF RepliedTo
    <2> HIDE DEF near, told
    <2>5. Cardinality(near) \in Nat /\ Cardinality(told) <= Cardinality(near)
      BY <2>3, <2>4, FS_Subset, FS_CardinalityType
    <2>6. CASE ~Held(i)
      <3>1. Holds(i) = 0
        BY <2>6 DEF Holds
      <3>2. allows[i] <= drops[i] + Cardinality(near)
        BY <2>1, <2>2, <2>5, <3>1
      <3> QED BY <3>2 DEF near
    <2>7. CASE Held(i)
      <3>1. Holds(i) = 1
        BY <2>7 DEF Holds
      <3>2. PICK h : h = tracked[i].req
        OBVIOUS
      <3>3. h \in DOMAIN asks /\ idOf(h) = i /\ replies[h] = 0 /\ (spc[h] = "tracked" \/ There(h))
        BY <1>1, <2>7, <3>2 DEF Entries
      <3>4. CASE There(h)
        <4>1. h \notin told /\ h \in near
          BY <3>3, <3>4 DEF told, near, RepliedTo, There
        <4>2. Cardinality(told \cup {h}) = Cardinality(told) + 1 /\ told \cup {h} \subseteq near
          BY <2>2, <2>4, <4>1, FS_AddElement
        <4>3. Cardinality(told \cup {h}) <= Cardinality(near)
          BY <2>3, <4>2, FS_Subset
        <4>4. allows[i] <= drops[i] + Cardinality(near)
          BY <2>1, <2>2, <2>5, <3>1, <4>2, <4>3
        <4> QED BY <4>4 DEF near
      <3>5. CASE spc[h] = "tracked"
        <4>1. h \in In(Forwarding, i)
          BY <3>3, <3>5 DEF In, Forwarding
        <4>2. Cardinality(In(Forwarding, i)) # 0
          BY <2>2, <4>1, FS_EmptySet
        <4>3. allows[i] <= drops[i] + Cardinality(near)
          BY <2>1, <2>2, <2>5, <3>1, <4>2
        <4> QED BY <4>3 DEF near
      <3> QED BY <3>3, <3>4, <3>5
    <2> QED BY <2>6, <2>7
  <1> QED BY <1>1, <1>2 DEF StandingAllowsAreReal, Placed

(***************************************************************************)
(* Both directions are gated past their waits, whatever the host, the      *)
(* server and the operator do and in whichever order: what reaches the     *)
(* upstream, or of the server's requests the host, is of a session that    *)
(* was not revoked when its last wait ended or at some moment since, and   *)
(* no request of either side passes a strict proxy whose tape lost a       *)
(* record before the forward was settled (Decide, dispatchList,            *)
(* forwardHostNotification, strictAuditDenial, forwardServerRequest).  A   *)
(* revocation after the kill switch was last asked, and a strict proxy's   *)
(* notifications, are not stopped by the code, nor is that claimed.        *)
(***************************************************************************)
THEOREM BothWaysStayGated == MessagesSpec => []GatesGuardBothWays
  <1>1. HInv /\ SInv => GatesGuardBothWays
    BY HostGatesHold, ServerPasses DEF GatesGuardBothWays
  <1> QED BY <1>1, ServerAlwaysSound, PTL

(***************************************************************************)
(* The tape is true in both directions: a forwarded request has its        *)
(* records, an ALLOW of a server's request stands for one that reached the *)
(* host or may, or is corrected, and a refusal without a record is in the  *)
(* count the next record carries (enforcedForwardCore,                     *)
(* failServerRequestDelivery, record_limiter.go).                          *)
(***************************************************************************)
THEOREM TapeStaysTrue == MessagesSpec => []TapeIsTrue
  <1>1. HInv /\ SInv /\ Counted => TapeIsTrue
    BY ForwardsRecorded, AllowsBacked DEF TapeIsTrue, RefusalsCounted, Counted, Sane, SaneGate
  <1> QED BY <1>1, ServerAlwaysSound, RefusalsAlwaysCounted, PTL

(***************************************************************************)
(* Every answer is the asker's own, once, and every request a server makes *)
(* is answered once, lost on the tape, still handled or still tracked, for *)
(* any reuse of ids, any displacement and any order of replies and failing *)
(* streams (awaitNonced, unblock, trackServerRequest,                      *)
(* routeHostServerResponse).                                               *)
(***************************************************************************)
THEOREM AskersStayAccounted == MessagesSpec => []AnswersAreAccounted
  <1>1. HInv /\ SInv => AnswersAreAccounted
    BY HostAnswersOwn, AskersCounted DEF AnswersAreAccounted
  <1> QED BY <1>1, ServerAlwaysSound, PTL
===============================================================================
