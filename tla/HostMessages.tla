---------------------------- MODULE HostMessages ----------------------------
(***************************************************************************)
(* A host's requests and notifications on their way through the proxy to   *)
(* an MCP server over a pipe: revision negotiation (revision.go), routing   *)
(* headers, session gates and pools (http_routing.go, stdio.go), dispatch   *)
(* (dispatch.go), the one path to the upstream (forward.go), translation    *)
(* between revisions (translate.go, result_shape.go) and the nonces under   *)
(* which requests travel (awaitNonced in stdio.go).                         *)
(*                                                                          *)
(* The policy's answer is any answer: what it may be is DecisionPoints' and *)
(* PolicyDecision's business, and waiting for a decision turn TicketQueue's *)
(* and AnchorGates'.  Methods stand for the class they are dispatched with: *)
(* toolsCall for resources/read and prompts/get, subscribe for unsubscribe,  *)
(* toolsList for the other lists, initialize for ping, cancelled for        *)
(* progress.  oldRev is 2025-11-25, newRev is 2026-07-28, where every       *)
(* request declares its revision.                                           *)
(***************************************************************************)
EXTENDS RefusalRecords, Sequences, FiniteSets

CONSTANTS oldRev, newRev,
          Scenarios,   \* the proxies and hosts to consider: a ProxyConfig, and what the
                       \* host sends, in order, see Messages
          MaxMsgs,     \* bound: messages of the host
          Ids,         \* JSON-RPC ids the host uses
          None

Revisions == {oldRev, newRev}
DefaultRevision == oldRev
Msgs == 1..MaxMsgs

\* contextRev: the revision an HTTP session was created under; None on stdio, where the
\* first message that is dispatched pins it.
ProxyConfig == [transport: {"stdio", "http"}, audit: BOOLEAN, strict: BOOLEAN,
                upstreamRev: Revisions, contextRev: Revisions \cup {None},
                slots: Nat \ {0}]

VARIABLES
  proxy, sends, \* the scenario: never changed
  hostRev,     \* the revision the host's context is pinned to
  killed,      \* the session is revoked
  kills,       \* times that changed
  degraded,    \* the audit sink has lost a record; never mended
  pc, msg, rev, dec, \* per message: phase, content, resolved revision, decision
  nonce,       \* per message: the id it travels under while its call is pending
  seq,         \* upstreamSeq
  hostToUp,    \* host id -> the message whose call is pending under it
  chan,        \* per message: what readUpstream delivered to the waiting call
  wire,        \* what the upstream was sent, in order
  tape,        \* per message: its audit records
  reply,       \* per message: what the host was answered
  meter,       \* the buckets of metered refusals
  saturation,  \* the gate of the pool of requests
  live, armed  \* history: not revoked when the message's last wait ended, or since;
               \* strict and degraded before its forward was settled

categories == {"revision", "header", "gate", "untranslatable", "undelivered", "unroutableID",
               "displaced", "refusalUndeliverable", "serverRequestFailed"}
envVars == <<proxy, sends, killed, kills, degraded>>
msgVars == <<pc, msg, rev, dec, tape, reply, live, armed>>
callVars == <<nonce, seq, hostToUp, chan, wire>>
hostVars == <<envVars, hostRev, msgVars, callVars, meter, saturation>>
-----------------------------------------------------------------------------
(* The method registry. *)

methodRegistry ==
  [toolsCall    |-> [in |-> Revisions, decide |-> TRUE,  local |-> "",     note |-> ""],
   subscribe    |-> [in |-> {oldRev},  decide |-> TRUE,  local |-> "",     note |-> ""],
   initialize   |-> [in |-> {oldRev},  decide |-> FALSE, local |-> "here", note |-> "swallow"],
   toolsList    |-> [in |-> Revisions, decide |-> FALSE, local |-> "list", note |-> ""],
   initialized  |-> [in |-> {oldRev},  decide |-> FALSE, local |-> "",     note |-> "swallow"],
   cancelled    |-> [in |-> Revisions, decide |-> FALSE, local |-> "",     note |-> "forward"],
   rootsChanged |-> [in |-> {oldRev},  decide |-> FALSE, local |-> "",     note |-> "forward"]]

Methods == DOMAIN methodRegistry \cup {"unknown"}
specOf(method) == IF method \in DOMAIN methodRegistry THEN methodRegistry[method]
                ELSE [in |-> {}, decide |-> FALSE, local |-> "", note |-> ""]
translates(method) == method \in {"toolsCall", "toolsList", "cancelled"}

\* declares: what the message's _meta says of its revision; "unreadable" when its params are
\* no JSON object, "unknown" when it names no published revision or two of them.
Declarations == Revisions \cup {"none", "unknown", "unreadable"}
Messages == [kind: {"request", "notification"}, method: Methods, id: Ids,
             declares: Declarations]

ASSUME HostAssumption ==
  /\ oldRev # newRev /\ None \notin Revisions
  /\ MaxMsgs \in Nat /\ IsFiniteSet(Ids)
  /\ \A s \in Scenarios : s.proxy \in ProxyConfig /\ s.sends \in Seq(Messages)
                          /\ Len(s.sends) <= MaxMsgs

enforces(r, method) == specOf(method).decide /\ r \in specOf(method).in
notification(r, method) == IF r \in specOf(method).in THEN specOf(method).note ELSE ""

dispatchesMessage(r, m) ==
  IF m.kind = "request"
  THEN r \in specOf(m.method).in /\ (specOf(m.method).decide \/ specOf(m.method).local # "")
  ELSE notification(r, m.method) # ""

paramsReachUpstream(m) ==
  LET s == specOf(m.method) IN s.decide \/ s.local = "list" \/ s.note = "forward"

unreadParamsReachUpstream(m) ==
  /\ paramsReachUpstream(m)
  /\ IF m.kind = "request" THEN specOf(m.method).local = "list"
                           ELSE specOf(m.method).note = "forward"

declaresPerRequestRevision(r) == r = newRev
-----------------------------------------------------------------------------
(* Negotiation: the revision a message is served under, or None for a refusal. *)

checkUpstreamHonorable(r, m) == r = proxy.upstreamRev \/ translates(m.method)

checkDeclarationReachesUpstream(r, m) ==
  \/ m.declares # "none" \/ ~declaresPerRequestRevision(r)
  \/ r # proxy.upstreamRev /\ translates(m.method)

resolveHostRevision(contextRev, m) ==
  LET r == IF m.declares \in Revisions THEN m.declares
           ELSE IF contextRev = None THEN DefaultRevision ELSE contextRev
      refused ==
        \/ m.declares = "unknown"
        \/ m.declares = "unreadable" /\ unreadParamsReachUpstream(m)
        \/ contextRev # None /\ r # contextRev
        \/ /\ paramsReachUpstream(m) /\ dispatchesMessage(r, m)
           /\ ~(checkUpstreamHonorable(r, m) /\ checkDeclarationReachesUpstream(r, m))
  IN  IF refused THEN None ELSE r
HostInit ==
  /\ \E s \in Scenarios : proxy = s.proxy /\ sends = s.sends
  /\ hostRev = proxy.contextRev
  /\ killed = FALSE /\ kills = 0 /\ degraded = FALSE
  /\ pc = [m \in Msgs |-> "idle"] /\ msg = [m \in Msgs |-> None]
  /\ rev = [m \in Msgs |-> None] /\ dec = [m \in Msgs |-> None]
  /\ nonce = [m \in Msgs |-> 0] /\ seq = 0 /\ hostToUp = [i \in Ids |-> 0]
  /\ chan = [m \in Msgs |-> None] /\ wire = <<>>
  /\ tape = [m \in Msgs |-> <<>>] /\ reply = [m \in Msgs |-> <<>>]
  /\ meter = [c \in categories |-> newRecordRateLimiter]
  /\ saturation = newSaturationGate
  /\ live = [m \in Msgs |-> FALSE] /\ armed = [m \in Msgs |-> FALSE]

\* The handler of m ends: it recorded recs and, for a request, answers.
Close(m, recs, answer) ==
  /\ pc' = [pc EXCEPT ![m] = "done"]
  /\ tape' = [tape EXCEPT ![m] = @ \o recs]
  /\ reply' = [reply EXCEPT ![m] = IF msg'[m].kind = "request" THEN Append(@, answer) ELSE @]

Refusal(code) == [kind |-> "refusal", code |-> code, of |-> 0, shows |-> {}]
-----------------------------------------------------------------------------
(* Arrival: serveHost on stdio, handleSessionPost over HTTP. *)

\* On stdio one goroutine reads, and handles notifications itself before it reads on.
Reading == proxy.transport = "stdio" =>
             \A k \in Msgs : pc[k] \notin {"gated", "notifying"}

Receive(m, x) ==
  /\ pc[m] = "idle" /\ (\A k \in 1..m - 1 : pc[k] # "idle") /\ Reading
  /\ msg' = [msg EXCEPT ![m] = x]
  /\ live' = [live EXCEPT ![m] = ~killed]
  /\ armed' = [armed EXCEPT ![m] = proxy.strict /\ degraded]
  /\ UNCHANGED <<envVars, callVars, dec>>

refuse(category) == meter' = [meter EXCEPT ![category] = admit(@)]

\* enforceSessionGates: the token is not this route's audience's or this session's owner's.
enforceSessionGates(m, x) ==
  /\ proxy.transport = "http"
  /\ Receive(m, x) /\ refuse("gate") /\ Close(m, <<>>, Refusal("gate"))
  /\ UNCHANGED <<rev, hostRev, saturation>>

refuseHostRevision(m, x) ==
  /\ resolveHostRevision(hostRev, x) = None
  /\ Receive(m, x) /\ refuse("revision") /\ Close(m, <<>>, Refusal("revision"))
  /\ UNCHANGED <<rev, hostRev, saturation>>

\* Mcp-Method or Mcp-Name does not say what the body says.
refuseHeaderMismatch(m, x) ==
  /\ proxy.transport = "http"
  /\ declaresPerRequestRevision(resolveHostRevision(hostRev, x))
  /\ Receive(m, x) /\ refuse("header") /\ Close(m, <<>>, Refusal("header"))
  /\ UNCHANGED <<rev, hostRev, saturation>>

\* The message is served under r, which pins a stdio host's context if r dispatches it.
Negotiated(m, x) ==
  LET r == resolveHostRevision(hostRev, x)
  IN  /\ r # None
      /\ Receive(m, x)
      /\ rev' = [rev EXCEPT ![m] = r]
      /\ hostRev' = IF hostRev = None /\ dispatchesMessage(r, x) THEN r ELSE hostRev
      /\ UNCHANGED meter

unslotted(x) == proxy.transport = "http" /\ x.method = "initialize"
InFlight == {k \in Msgs : pc[k] \in {"queued", "decided", "calling", "mapped", "waiting"}
                          /\ ~unslotted(msg[k])}

AcceptRequest(m, x) ==
  /\ x.kind = "request" /\ Negotiated(m, x)
  /\ unslotted(x) \/ Cardinality(InFlight) < proxy.slots
  /\ pc' = [pc EXCEPT ![m] = "queued"]
  /\ saturation' = IF unslotted(x) THEN saturation ELSE clear(saturation)
  /\ UNCHANGED <<tape, reply>>

RefuseBusy(m, x) ==
  /\ x.kind = "request" /\ Negotiated(m, x)
  /\ ~unslotted(x) /\ Cardinality(InFlight) >= proxy.slots
  /\ saturation' = saturated(saturation)
  /\ Close(m, <<>>, Refusal("busy"))

AcceptNotification(m, x) ==
  /\ x.kind = "notification" /\ Negotiated(m, x)
  /\ pc' = [pc EXCEPT ![m] = "gated"]
  /\ UNCHANGED <<tape, reply, saturation>>
-----------------------------------------------------------------------------
(* Requests: dispatchRequest. *)

Handle(m, from) == pc[m] = from /\ UNCHANGED <<envVars, hostRev, msg, rev, live, armed,
                                               meter, saturation>>
Enforced(m) == enforces(rev[m], msg[m].method)
LocalOf(m) == IF rev[m] \in specOf(msg[m].method).in THEN specOf(msg[m].method).local ELSE ""

\* Over HTTP the session is looked up again once the slot is held.
TornDown(m) ==
  /\ Handle(m, "queued") /\ proxy.transport = "http" /\ ~unslotted(msg[m])
  /\ Close(m, <<>>, Refusal("torn down"))
  /\ UNCHANGED <<dec, callVars>>

killDenied(m) == killed /\ Close(m, <<"kill">>, Refusal("kill"))

malformedDeny(m) ==
  /\ Handle(m, "queued") /\ Enforced(m)
  /\ \/ killDenied(m)
     \/ ~killed /\ Close(m, <<"malformed">>, Refusal("malformed"))
  /\ UNCHANGED <<dec, callVars>>

\* The decision point's answer; a revoked session's is a denial no mode observes away.
Decisions == [verdict: {"allow", "soft", "hard"}, auditOnly: BOOLEAN, redact: BOOLEAN]

Decide(m) ==
  /\ Handle(m, "queued") /\ Enforced(m) /\ msg[m].declares # "unreadable"
  /\ \E d \in Decisions :
       /\ killed => d.verdict = "hard"
       /\ d.verdict # "soft" => ~d.auditOnly
       /\ d.verdict = "hard" => ~d.redact
       /\ dec' = [dec EXCEPT ![m] = d]
  /\ pc' = [pc EXCEPT ![m] = "decided"]
  /\ UNCHANGED <<tape, reply, callVars>>

\* A list asks no decision point: it is forwarded, and its result filtered.
dispatchList(m) ==
  /\ Handle(m, "queued") /\ LocalOf(m) = "list" /\ ~killed
  /\ dec' = [dec EXCEPT ![m] = [verdict |-> "allow", auditOnly |-> FALSE, redact |-> FALSE]]
  /\ pc' = [pc EXCEPT ![m] = "decided"]
  /\ UNCHANGED <<tape, reply, callVars>>

\* initialize and ping are answered here; what the revision does not map is refused.
dispatchLocally(m) ==
  /\ Handle(m, "queued") /\ ~Enforced(m)
  /\ \/ killDenied(m)
     \/ ~killed /\ LocalOf(m) = "here" /\ Close(m, <<>>, [Refusal("") EXCEPT !.kind = "local"])
     \/ ~killed /\ LocalOf(m) = "" /\ Close(m, <<"unroutable">>, Refusal("unroutable"))
  /\ UNCHANGED <<dec, callVars>>
-----------------------------------------------------------------------------
(* enforcedForwardCore, up to the call. *)

isObserveDeny(d) == d.verdict = "soft" /\ (proxy.audit \/ d.auditOnly)

Refuse(m) ==
  /\ Handle(m, "decided")
  /\ dec[m].verdict # "allow" /\ ~isObserveDeny(dec[m])
  /\ Close(m, <<"deny">>, Refusal("deny"))
  /\ UNCHANGED <<dec, callVars>>

auditGateTripped == proxy.strict /\ degraded

strictAuditDenial(m) ==
  /\ Handle(m, "decided")
  /\ dec[m].verdict = "allow" \/ isObserveDeny(dec[m])
  /\ auditGateTripped
  /\ Close(m, <<"unavailable">>, Refusal("unavailable"))
  /\ UNCHANGED <<dec, callVars>>

\* mutant of Proceed: an observed denial is recorded with the outcome
ProceedUnrecorded(m) ==
  /\ Handle(m, "decided")
  /\ dec[m].verdict = "allow" \/ isObserveDeny(dec[m])
  /\ ~auditGateTripped
  /\ pc' = [pc EXCEPT ![m] = "calling"]
  /\ UNCHANGED <<reply, dec, tape, callVars>>

Proceed(m) ==
  /\ Handle(m, "decided")
  /\ dec[m].verdict = "allow" \/ isObserveDeny(dec[m])
  /\ ~auditGateTripped
  /\ pc' = [pc EXCEPT ![m] = "calling"]
  /\ tape' = [tape EXCEPT ![m] = IF isObserveDeny(dec[m]) THEN Append(@, "observe") ELSE @]
  /\ UNCHANGED <<reply, dec, callVars>>
-----------------------------------------------------------------------------
(* The call: withCrossRevisionTranslation around awaitNonced. *)

translated(m) ==
  IF rev[m] = proxy.upstreamRev THEN msg[m].declares
  ELSE IF declaresPerRequestRevision(proxy.upstreamRev) THEN proxy.upstreamRev ELSE "none"

recordUpstreamFailure(m) ==
  Close(m, <<"failure">>, [Refusal("failure") EXCEPT !.kind = "error"])

\* The call is over: its nonce and its id are free.
Release(m) ==
  /\ nonce' = [nonce EXCEPT ![m] = 0] /\ chan' = [chan EXCEPT ![m] = None]
  /\ hostToUp' = [hostToUp EXCEPT ![msg[m].id] = IF @ = m THEN 0 ELSE @]

\* errDuplicateID, or a method that does not cross between the revisions.
CallRefused(m) ==
  /\ Handle(m, "calling")
  /\ hostToUp[msg[m].id] # 0 \/ ~checkUpstreamHonorable(rev[m], msg[m])
  /\ recordUpstreamFailure(m)
  /\ UNCHANGED <<dec, callVars>>

\* mutant of upstreamNonceID: the host's own id is sent on
hostIdAsNonce(m) == CHOOSE k \in Msgs : msg[k] # None /\ msg[k].id = msg[m].id

upstreamNonceID(m) == seq + 1

awaitNonced(m) ==
  /\ Handle(m, "calling")
  /\ hostToUp[msg[m].id] = 0 /\ checkUpstreamHonorable(rev[m], msg[m])
  /\ seq' = seq + 1
  /\ nonce' = [nonce EXCEPT ![m] = upstreamNonceID(m)]
  /\ hostToUp' = [hostToUp EXCEPT ![msg[m].id] = m]
  /\ pc' = [pc EXCEPT ![m] = "mapped"]
  /\ UNCHANGED <<dec, tape, reply, chan, wire>>

WriteRequest(m) ==
  /\ Handle(m, "mapped")
  /\ wire' = Append(wire, [kind |-> "request", method |-> msg[m].method, msg |-> m,
                           nonce |-> nonce[m], declares |-> translated(m)])
  /\ pc' = [pc EXCEPT ![m] = "waiting"]
  /\ UNCHANGED <<dec, tape, reply, nonce, seq, hostToUp, chan>>

\* The write fails, the timeout expires, the host goes away, or the upstream exits.
CallFails(m) ==
  /\ pc[m] \in {"mapped", "waiting"} /\ Handle(m, pc[m])
  /\ recordUpstreamFailure(m) /\ Release(m)
  /\ UNCHANGED <<dec, seq, wire>>

\* readUpstream: the upstream answers something it was sent, at its leisure; whoever waits
\* under that nonce gets it.
UpstreamAnswers(m) ==
  /\ pc[m] \in {"mapped", "waiting"} /\ Handle(m, pc[m]) /\ chan[m] = None
  /\ \E i \in DOMAIN wire, k \in {"result", "variant", "error", "malformed"} :
       /\ wire[i].kind = "request" /\ wire[i].nonce = nonce[m]
       /\ chan' = [chan EXCEPT ![m] = [for |-> wire[i].msg, kind |-> k]]
  /\ UNCHANGED <<pc, tape, reply, dec, nonce, seq, hostToUp, wire>>
-----------------------------------------------------------------------------
(* enforcedForwardCore and dispatchList, after the call. *)

\* A variant of a result nobody here models, told apart on either leg that states them.
unenforceable(m) ==
  /\ chan[m].kind = "variant"
  /\ declaresPerRequestRevision(rev[m]) \/ rev[m] # proxy.upstreamRev

RejectAnswer(m) ==
  /\ Handle(m, "waiting") /\ chan[m] # None
  /\ chan[m].kind = "malformed" \/ unenforceable(m)
  /\ recordUpstreamFailure(m) /\ Release(m)
  /\ UNCHANGED <<dec, seq, wire>>

\* ApplyRedactObligs finds it cannot do what the decision obliges it to.
RedactionFails(m) ==
  /\ Handle(m, "waiting") /\ chan[m] # None
  /\ chan[m].kind \in {"result", "variant"} /\ ~unenforceable(m) /\ dec[m].redact
  /\ Close(m, <<"enforcementError">>, [Refusal("redaction") EXCEPT !.kind = "error"])
  /\ Release(m)
  /\ UNCHANGED <<dec, seq, wire>>

\* What the answer shows: a result is redacted, an error loses its data.
redacted(m) == IF dec[m].redact THEN {} ELSE {"field"}

Return(m) ==
  /\ Handle(m, "waiting") /\ chan[m] # None
  /\ chan[m].kind # "malformed" /\ ~unenforceable(m)
  /\ Close(m, <<"allow">>, [kind |-> chan[m].kind, code |-> "", of |-> chan[m].for,
                            shows |-> redacted(m)])
  /\ Release(m)
  /\ UNCHANGED <<dec, seq, wire>>
-----------------------------------------------------------------------------
(* Notifications: hostNotificationGate.admit, then forwardNotification. *)

disposition(m) == notification(rev[m], msg[m].method)

admitNotification(m) ==
  /\ Handle(m, "gated") /\ UNCHANGED <<dec, callVars>>
  /\ \/ disposition(m) = "swallow" /\ Close(m, <<>>, None)
     \/ disposition(m) # "swallow" /\ killed /\ Close(m, <<"kill">>, None)
     \/ /\ disposition(m) # "swallow" /\ ~killed /\ Enforced(m)
        /\ Close(m, <<"smuggled">>, None)
     \/ /\ disposition(m) = "forward" /\ ~killed
        /\ pc' = [pc EXCEPT ![m] = "notifying"] /\ UNCHANGED <<tape, reply>>
     \/ /\ disposition(m) = "" /\ ~killed /\ ~Enforced(m)
        /\ Close(m, <<"unroutable">>, None)

\* mutant of forwardsPending: notifications overtake the requests read before them
noForwardsPending == FALSE

\* fwdHostInFlight: requests read before this that are neither written nor refused.
forwardsPending == \E k \in Msgs : pc[k] \in {"queued", "decided", "calling", "mapped"}

\* Written, or dropped when it cancels no call that is pending.
WriteNotification(m) ==
  LET target == hostToUp[msg[m].id]
      names == IF msg[m].method = "cancelled" /\ target # 0 THEN nonce[target] ELSE 0
  IN  /\ wire' = IF ~checkUpstreamHonorable(rev[m], msg[m])
                    \/ (msg[m].method = "cancelled" /\ target = 0)
                 THEN wire
                 ELSE Append(wire, [kind |-> "notification", method |-> msg[m].method,
                                    msg |-> m, nonce |-> names, declares |-> translated(m)])
      /\ UNCHANGED <<nonce, seq, hostToUp, chan>>

\* mutant of forwardHostNotification: admitted once, it is not asked about again
forwardHostNotificationUnchecked(m) ==
  /\ Handle(m, "notifying") /\ proxy.transport = "stdio" /\ UNCHANGED dec
  /\ \/ Close(m, <<>>, None) /\ UNCHANGED callVars
     \/ ~forwardsPending /\ Close(m, <<>>, None) /\ WriteNotification(m)

\* stdio waits for the requests before it, and asks the kill switch again after the wait.
forwardHostNotification(m) ==
  /\ Handle(m, "notifying") /\ proxy.transport = "stdio" /\ UNCHANGED dec
  /\ \/ Close(m, <<>>, None) /\ UNCHANGED callVars \* shut down during the wait, or unwritten
     \/ ~forwardsPending /\ killed /\ Close(m, <<"kill">>, None) /\ UNCHANGED callVars
     \/ ~forwardsPending /\ ~killed /\ Close(m, <<>>, None) /\ WriteNotification(m)

forwardNotification(m) ==
  /\ Handle(m, "notifying") /\ proxy.transport = "http" /\ UNCHANGED dec
  /\ Close(m, <<>>, None) /\ WriteNotification(m)
-----------------------------------------------------------------------------
(* The environment. *)

Active == {m \in Msgs : pc[m] \notin {"idle", "done"}}

\* A request has its slot or its turn still to come, a notification its gate or, on stdio,
\* the requests read before it.
Waits(m) ==
  \/ pc[m] \in {"queued", "gated"}
  \/ pc[m] = "notifying" /\ proxy.transport = "stdio" /\ forwardsPending

Revoke ==
  /\ kills < 2 /\ kills' = kills + 1 /\ killed' = ~killed
  /\ live' = [m \in Msgs |-> IF Waits(m) THEN killed ELSE live[m] \/ (killed /\ m \in Active)]
  /\ UNCHANGED <<proxy, sends, degraded, hostRev, pc, msg, rev, dec, tape, reply, armed,
                 callVars, meter, saturation>>

\* Only a strict proxy asks.
SinkDegrades ==
  /\ proxy.strict /\ ~degraded /\ degraded' = TRUE
  /\ armed' = [m \in Msgs |-> armed[m] \/ pc[m] \in {"queued", "decided"}]
  /\ UNCHANGED <<proxy, sends, killed, kills, hostRev, pc, msg, rev, dec, tape, reply, live,
                 callVars, meter, saturation>>

HostSteps ==
  \/ \E m \in DOMAIN sends : LET x == sends[m] IN
       \/ enforceSessionGates(m, x) \/ refuseHostRevision(m, x) \/ refuseHeaderMismatch(m, x)
       \/ AcceptRequest(m, x) \/ RefuseBusy(m, x) \/ AcceptNotification(m, x)
  \/ \E m \in Msgs :
       \/ TornDown(m) \/ malformedDeny(m) \/ Decide(m) \/ dispatchList(m) \/ dispatchLocally(m)
       \/ Refuse(m) \/ strictAuditDenial(m) \/ Proceed(m)
       \/ CallRefused(m) \/ awaitNonced(m) \/ WriteRequest(m) \/ CallFails(m)
       \/ UpstreamAnswers(m) \/ RejectAnswer(m) \/ RedactionFails(m) \/ Return(m)
       \/ admitNotification(m) \/ forwardHostNotification(m) \/ forwardNotification(m)
-----------------------------------------------------------------------------
(* Properties. *)

Written(m) == \E i \in DOMAIN wire : wire[i].msg = m
Count(codes, m) == Cardinality({i \in DOMAIN tape[m] : tape[m][i] \in codes})

TypeOK ==
  /\ \E s \in Scenarios : proxy = s.proxy /\ sends = s.sends
  /\ hostRev \in Revisions \cup {None}
  /\ pc \in [Msgs -> {"idle", "queued", "decided", "calling", "mapped", "waiting",
                      "gated", "notifying", "done"}]
  /\ msg \in [Msgs -> Messages \cup {None}] /\ rev \in [Msgs -> Revisions \cup {None}]
  /\ dec \in [Msgs -> Decisions \cup {None}]
  /\ nonce \in [Msgs -> 0..MaxMsgs] /\ hostToUp \in [Ids -> 0..MaxMsgs]
  /\ meter \in [categories -> Buckets] /\ saturation \in Gates

\* Both gates are asked past the waits and not before them.  What reaches the upstream, a
\* call, a list or a notification, is of a session that was not revoked when the message's
\* last wait ended (a request's for its slot and turn, on stdio a notification's for the
\* requests read before it) or at some moment since: a revocation that lands during the wait
\* stops it, one that lands after the kill switch was asked does not.  And a request is not
\* forwarded, allowed or observed, if a strict proxy's tape lost a record before the forward
\* was settled, though the request arrived before; no notification is asked that
\* (Decide, dispatchList, forwardHostNotification, strictAuditDenial).
GatesHold ==
  \A m \in Msgs : Written(m) =>
    live[m] /\ (msg[m].kind = "request" => ~armed[m])

\* What the policy denies is forwarded only where a mode observes and the denial may be
\* observed, and then its record precedes the call; a request that was forwarded and
\* answered has exactly one record of its outcome, whatever became of the call
\* (enforcedForwardCore, dispatchList, recordUpstreamFailure).
ForwardsAreOnTape ==
  \A m \in Msgs : Written(m) /\ msg[m].kind = "request" =>
    /\ dec[m].verdict # "allow" => isObserveDeny(dec[m]) /\ Count({"observe"}, m) = 1
    /\ Count({"allow", "failure", "enforcementError"}, m) = Len(reply[m])

\* A request is answered once and a notification never; an answer that came from the
\* upstream is the answer to this very request, though the host reused its id and a late
\* answer to the first use was still under way, and shows nothing the decision redacts;
\* a result of a variant the host cannot read does not pass for a completed one
\* (awaitNonced, readUpstream, enforcedForwardCore, applyResultShape, resultCrossesToHost).
AnswersAreOwn ==
  \A m \in Msgs :
    /\ Len(reply[m]) = IF pc[m] = "done" /\ msg[m].kind = "request" THEN 1 ELSE 0
    /\ \A i \in DOMAIN reply[m] : LET r == reply[m][i] IN
         /\ r.of \in {0, m}
         /\ dec[m] # None /\ dec[m].redact => r.shows = {}
         /\ r.kind = "variant" => rev[m] = oldRev /\ proxy.upstreamRev = oldRev

\* Whatever reaches the upstream is of the revision it was opened under: the method is one
\* the revision has, and where every message declares its revision it declares that one
\* (resolveHostRevision, translateRequest).
SpeaksUpstreamsRevision ==
  \A i \in DOMAIN wire :
    /\ proxy.upstreamRev \in specOf(wire[i].method).in
    /\ wire[i].declares \in {proxy.upstreamRev}
                            \cup IF proxy.upstreamRev = oldRev THEN {"none"} ELSE {}

\* On stdio a cancellation that reaches the upstream does so after the request it names, and
\* under the name the upstream knows that request by (waitHostForwardOrShutdown,
\* rewriteCancelToNonce).
CancelFollowsItsRequest ==
  proxy.transport = "stdio" =>
    \A j \in DOMAIN wire : wire[j].method = "cancelled" =>
      \E i \in 1..j - 1 : /\ wire[i].kind = "request" /\ wire[i].nonce = wire[j].nonce
                          /\ msg[wire[i].msg].id = msg[wire[j].msg].id
=============================================================================
