--------------------------- MODULE DecisionPoints ---------------------------
(***************************************************************************)
(* The policy decision points of a route (internal/pdp/pdp.go, jwt.go,      *)
(* surface_pin.go): which manifest constraint governs a call, how a JWT     *)
(* layer composes with the manifest it wraps, what a refusal carries when   *)
(* an observing route forwards it all the same, and the two interface pins. *)
(* The decision itself is a function of the request and of the state the    *)
(* pins keep; that state changes when a tools/list result passes through.   *)
(* What the engine does once a constraint is selected is PolicyDecision;    *)
(* here it is one of the Outcomes of a request.                             *)
(***************************************************************************)
EXTENDS Naturals, Sequences, FiniteSets

CONSTANTS Tools,             \* tool names
          Resource,          \* a resource URI
          Sampling,          \* system:sampling/createMessage
          Surfaces,          \* hashes of an advertised tool surface
          Manifests,         \* the manifests a route may have, sequences of Constraint
          Tokens,            \* the validated claims a request may carry
          Listings,          \* the tools/list results an upstream may send
          MaxSurfaceEntries, \* maxSessionSurfaceEntries
          None               \* no pin, no claim set, no constraint

VARIABLES route,     \* the route: its decision points, its posture, its manifest; None if there is none
          poisoned,  \* poisonedTools: tools seen with a surface other than their pin
          surface,   \* the session's sessionSurface
          seen,      \* history: surfaces this session was shown, per tool
          doubted,   \* history: tools this session was shown in an unreadable form
          rotated    \* history: tools ever shown with another surface than their pin

pointVars == <<route, poisoned, surface, seen, doubted, rotated>>

Targets == Tools \cup {Resource, Sampling}
TypeOfName(n) == CASE n \in Tools -> "tool" [] n = Resource -> "resource" [] n = Sampling -> "system"

\* covers is what the target pattern matches, exact whether it is a literal name,
\* acts whether its actions include the one its type requires.
Constraint ==
  [covers: SUBSET Targets, exact: BOOLEAN, principal: BOOLEAN, acts: BOOLEAN, schema: BOOLEAN,
   redact: BOOLEAN, source: BOOLEAN, audit: BOOLEAN, pin: Surfaces \cup {None}]
\* One mcp.capabilities entry; cond is how its condition suffix judges the call.
CapHead == [covers: SUBSET Targets, cond: {"none", "pass", "soft", "hard"}]
Unconditional(heads) == {[h EXCEPT !.cond = "none"] : h \in heads}
\* valid is FALSE for a request whose token was not validated; aud whether it names the
\* route; member whether its claims satisfy a principal; caps its capability list, if any.
Token == [valid: BOOLEAN, aud: BOOLEAN, member: BOOLEAN, caps: {None} \cup SUBSET CapHead]
Routes == [jwt: BOOLEAN, inner: {"nil", "allowAll", "denyAll", "manifest"},
           observe: BOOLEAN, caps: Manifests]
\* What the engine makes of the call under the selected constraint: its conditions pass,
\* refuse, refuse outright; pass over the effect ceiling; its arguments miss the schema;
\* its state cannot be recorded.
Outcomes == {"pass", "soft", "hard", "over", "badArgs", "fault"}
QuestionsAbout(S) == [target: S, token: Tokens, killed: BOOLEAN, engine: Outcomes]

\* A result the decoder cannot read as one list, or one list with entries: the surfaces
\* each name is advertised with (more than one for a name listed twice), the names an
\* untrustworthy entry could present, and whether some entry hides which those are.
Listing == [form: {"ok", "bad", "ambiguous"}, entries: [Tools -> SUBSET Surfaces],
            doubtful: SUBSET Tools, hidden: BOOLEAN]

NoSurface == [hashes |-> [t \in Tools |-> None], broken |-> {}, all |-> FALSE]

ASSUME PointsAssumption ==
  /\ Resource \notin Tools /\ Sampling \notin Tools /\ Resource # Sampling
  /\ None \notin Surfaces /\ None \notin Constraint /\ None \notin Routes
  /\ Manifests \subseteq Seq(Constraint)
  /\ \A m \in Manifests : \A i \in 1..Len(m) :
       /\ \E n \in m[i].covers : \A k \in m[i].covers : TypeOfName(k) = TypeOfName(n)
       \* what the loader refuses: tool-only properties on another kind of target
       /\ (m[i].schema \/ m[i].redact \/ m[i].pin # None) => m[i].covers \subseteq Tools
       /\ (m[i].pin # None => m[i].exact)
       /\ (m[i].audit => Sampling \notin m[i].covers)
  /\ Tokens \subseteq Token
  /\ \A tok \in Tokens : tok.caps # None => Unconditional(tok.caps) # None
  /\ Listings \subseteq Listing
  /\ MaxSurfaceEntries \in Nat

PointsInit ==
  /\ route \in {None} \cup {r \in Routes : (~r.jwt => r.inner # "nil")
                               /\ (r.inner # "manifest" => r.caps = <<>>)}
  /\ poisoned = {} /\ surface = NoSurface
  /\ seen = [t \in Tools |-> {}] /\ doubted = {} /\ rotated = {}
-----------------------------------------------------------------------------
(* Responses. *)

newAllowResponse == [allow |-> TRUE, hard |-> FALSE, auditOnly |-> FALSE, redact |-> FALSE,
                     recorded |-> FALSE]
denyResponse == [newAllowResponse EXCEPT !.allow = FALSE]
hardDenyResponse == [denyResponse EXCEPT !.hard = TRUE]
Downgradable(r) == ~r.hard

\* isObserveDeny: what the transport forwards.
Forwards(r) == r.allow \/ (Downgradable(r) /\ (route.observe \/ r.auditOnly))
-----------------------------------------------------------------------------
(* Selection of the governing constraint. *)

caps == route.caps
Entries == 1..Len(caps)
matchBare(i, n) == n \in caps[i].covers
PrincipalMatches(i, tok) == caps[i].principal => tok.valid /\ tok.member

\* The tiebreak of ConstraintScorer: specificity, then a principal, then order.
Beats(i, j) ==
  \/ caps[i].exact /\ ~caps[j].exact
  \/ caps[i].exact = caps[j].exact /\ caps[i].principal /\ ~caps[j].principal
  \/ caps[i].exact = caps[j].exact /\ caps[i].principal = caps[j].principal /\ i < j
Best(S) == caps[CHOOSE i \in S : \A j \in S \ {i} : Beats(i, j)]

findConstraint(n, tok) ==
  LET fallback == {i \in Entries : matchBare(i, n) /\ PrincipalMatches(i, tok)}
      primary  == {i \in fallback : caps[i].acts}
  IN  IF primary # {} THEN Best(primary) ELSE IF fallback # {} THEN Best(fallback) ELSE None

\* Everything the manifest says of a target, whoever calls.
directivesNamingTarget(n) == \E i \in Entries : matchBare(i, n) /\ caps[i].redact
labelOutputNamingTarget(n) == \E i \in Entries : matchBare(i, n) /\ caps[i].source

\* Manifest pins, the first per name; a pin is only ever an exact tool entry.
Pinned(n) == \E i \in Entries : matchBare(i, n) /\ caps[i].pin # None
PinOf(n) == LET i == CHOOSE i \in Entries :
                       /\ matchBare(i, n) /\ caps[i].pin # None
                       /\ \A j \in Entries : matchBare(j, n) /\ caps[j].pin # None => i <= j
            IN  caps[i].pin
pinViolated(n) == n \in poisoned
Broken(n) == surface.all \/ n \in surface.broken
-----------------------------------------------------------------------------
(* What a refusal carries when it is forwarded. *)

willForwardDeny(c) == route.observe \/ (c # None /\ c.audit)

CollectObligations(n, declared) == n \in Tools /\ declared

withForwardObligationsFor(r, c, n) ==
  IF r.allow \/ r.redact \/ ~willForwardDeny(c) THEN r
  ELSE [r EXCEPT !.redact = CollectObligations(n, c.redact)]

\* mutant of withForwardObligations
withForwardObligationsNone(r, n) == r

withForwardObligations(r, n) ==
  IF r.allow \/ r.redact \/ ~willForwardDeny(None) THEN r
  ELSE [r EXCEPT !.redact = CollectObligations(n, directivesNamingTarget(n))]

\* A refusal that will be forwarded leaves the session state its call would have left;
\* when that cannot be recorded it is refused outright.
recordForwardedRefusal(r, c, q) ==
  IF ~willForwardDeny(c) \/ r.allow \/ ~Downgradable(r) THEN r
  ELSE IF q.engine = "fault" THEN hardDenyResponse ELSE [r EXCEPT !.recorded = TRUE]

recordUnmatchedForwardedState(r, q) ==
  IF labelOutputNamingTarget(q.target) /\ willForwardDeny(None)
  THEN recordForwardedRefusal(r, None, q) ELSE r
-----------------------------------------------------------------------------
(* The manifest's own decision. *)

\* The engine, with labelOutput widened to every entry that names the target.
evaluateAndRecord(q, c) ==
  recordForwardedRefusal(
    CASE q.engine = "pass" ->
           [newAllowResponse EXCEPT !.redact = CollectObligations(q.target, c.redact),
                                    !.recorded = TRUE]
      [] q.engine \in {"over", "hard", "fault"} -> hardDenyResponse
      [] OTHER -> denyResponse,
    c, q)

stamp(r, c, n) ==
  IF ~r.allow /\ ~Downgradable(r) THEN r
  ELSE withForwardObligationsFor([r EXCEPT !.auditOnly = c.audit], c, n)

\* What decideTarget does once a constraint governs the call: tool-only guards on
\* other targets, the action list, the argument schema, the engine.
decideMatched(q, c) ==
  IF q.target \notin Tools /\ (c.schema \/ c.redact) THEN hardDenyResponse
  ELSE IF ~c.acts \/ (c.schema /\ q.engine = "badArgs")
       THEN LET r == recordForwardedRefusal(denyResponse, c, q)
            IN  stamp(r, c, q.target)
       ELSE stamp(evaluateAndRecord(q, c), c, q.target)

decideTarget(q) ==
  LET n == q.target
      c == findConstraint(n, q.token)
  IN  IF q.killed \/ (n \in Tools /\ ((Pinned(n) /\ pinViolated(n)) \/ Broken(n)))
      THEN hardDenyResponse
      ELSE IF c = None
           THEN recordUnmatchedForwardedState(withForwardObligations(denyResponse, n), q)
           ELSE decideMatched(q, c)

\* Sampling: no observe posture of its own, every guard of decideTarget above.
DecideSampling(q) ==
  LET c == findConstraint(Sampling, q.token)
  IN  IF q.killed THEN hardDenyResponse
      ELSE IF c = None \/ ~c.acts THEN denyResponse
      ELSE IF c.schema \/ c.redact \/ c.audit THEN hardDenyResponse
      ELSE evaluateAndRecord(q, c)

\* Cancelling a subscription asks only whether one could have been made.
DecideResourceCancel(q) ==
  LET c == findConstraint(q.target, q.token)
  IN  IF q.killed THEN hardDenyResponse
      ELSE IF c = None THEN denyResponse
      ELSE [(IF c.acts THEN newAllowResponse ELSE denyResponse) EXCEPT !.auditOnly = c.audit]
-----------------------------------------------------------------------------
(* What the manifest adds to a refusal of the layer around it. *)

hardenOnBrokenInterface(r, n) ==
  n \in Tools /\ ((Pinned(n) /\ pinViolated(n)) \/ Broken(n))

\* The ceiling, asked without running a condition: only where the governing
\* constraint permits the action at all.
hardenOnEffectCeiling(q) ==
  LET c == findConstraint(q.target, q.token) IN c # None /\ c.acts /\ q.engine = "over"

\* mutant of HardenRefusal
HardenRefusalObligationsOnly(r, q) ==
  IF r.allow \/ ~Downgradable(r) THEN r
  ELSE recordUnmatchedForwardedState(withForwardObligations(r, q.target), q)

HardenRefusal(r, q) ==
  IF r.allow \/ ~Downgradable(r) THEN r
  ELSE IF hardenOnBrokenInterface(r, q.target) \/ hardenOnEffectCeiling(q) THEN hardDenyResponse
  ELSE recordUnmatchedForwardedState(withForwardObligations(r, q.target), q)
-----------------------------------------------------------------------------
(* The decision points. *)

\* AlwaysAllowPDP answers only to the kill switch, DenyAllPDP refuses everything.
allowUnlessKilled(q) == IF q.killed THEN hardDenyResponse ELSE newAllowResponse

InnerCheckKill(q) ==
  CASE route.inner = "denyAll" -> denyResponse
    [] route.inner # "denyAll" /\ q.killed -> hardDenyResponse
    [] OTHER -> newAllowResponse

InnerHarden(r, q) == IF route.inner = "manifest" THEN HardenRefusal(r, q) ELSE r

InnerDecide(q) ==
  CASE route.inner = "manifest" /\ q.target = Sampling -> DecideSampling(q)
    [] route.inner = "manifest" /\ q.target # Sampling -> decideTarget(q)
    [] route.inner = "denyAll" -> denyResponse
    [] OTHER -> allowUnlessKilled(q)

InnerCancel(q) == IF route.inner = "manifest" THEN DecideResourceCancel(q) ELSE InnerDecide(q)

innerEnforces == route.inner \in {"denyAll", "manifest"}

\* The JWT layer refused on its own terms: a token may only restrict, so what the
\* inner point would have refused outright stays refused outright.
withInnerVerdicts(r, q) ==
  IF route.inner = "nil" \/ ~Downgradable(r) THEN r
  ELSE IF ~InnerCheckKill(q).allow THEN InnerCheckKill(q)
  ELSE InnerHarden(r, q)

routeAudienceSatisfied(tok) == tok.aud
HasCapabilities(tok) == tok.caps # None
buildConstraints(tok, n) == {h \in tok.caps : n \in h.covers}
\* Any covering claim whose conditions pass grants; the hardest refusal is kept.
evaluateJWTConditions(heads) ==
  IF \E h \in heads : h.cond \in {"none", "pass"} THEN newAllowResponse
  ELSE IF \E h \in heads : h.cond = "hard" THEN hardDenyResponse
  ELSE denyResponse

\* Killed, not validated, or for another audience: refused on every posture.
jwtBarred(q) == q.killed \/ ~q.token.valid \/ ~routeAudienceSatisfied(q.token)

\* The verdict of the capability claims alone.
claimVerdict(q) ==
  IF ~HasCapabilities(q.token)
  THEN IF innerEnforces THEN newAllowResponse ELSE denyResponse
  ELSE evaluateJWTConditions(buildConstraints(q.token, q.target))

JWTDecide(q) ==
  IF jwtBarred(q) THEN hardDenyResponse
  ELSE IF ~claimVerdict(q).allow THEN withInnerVerdicts(claimVerdict(q), q)
  ELSE IF route.inner = "nil" THEN newAllowResponse ELSE InnerDecide(q)

\* sampling is not expressible as a claim, so a claim list denies it.
JWTDecideSampling(q) ==
  IF jwtBarred(q) THEN hardDenyResponse
  ELSE IF HasCapabilities(q.token) \/ ~innerEnforces THEN denyResponse
  ELSE InnerDecide(q)

JWTDecideResourceCancel(q) ==
  IF jwtBarred(q) THEN hardDenyResponse
  ELSE IF HasCapabilities(q.token)
       THEN IF buildConstraints(q.token, q.target) = {} THEN denyResponse
            ELSE IF route.inner = "nil" THEN newAllowResponse ELSE InnerCancel(q)
       ELSE IF innerEnforces THEN InnerCancel(q) ELSE denyResponse

Decide(q) ==
  CASE ~route.jwt -> InnerDecide(q)
    [] route.jwt /\ q.target = Sampling -> JWTDecideSampling(q)
    [] OTHER -> JWTDecide(q)

\* A subscription is cancelled.
DecideCancel(q) == IF route.jwt THEN JWTDecideResourceCancel(q) ELSE InnerCancel(q)
-----------------------------------------------------------------------------
(* A list result on its way to the host. *)

Unreadable(l) == l.form # "ok" \/ l.hidden

\* Whether a tools/list result for this caller reaches the manifest's pins: an observing
\* route records it and forwards it whole, an enforcing one filters it, and a caller the
\* JWT layer shows nothing still has it recorded when the inner point enforces.
Arms(tok) ==
  /\ route.inner = "manifest"
  /\ \/ ~route.jwt \/ route.observe
     \/ (~tok.valid \/ ~routeAudienceSatisfied(tok)) /\ innerEnforces
     \/ HasCapabilities(tok) \/ innerEnforces

\* The manifest's pins: entry by entry, the pinned tools that no longer match, or that
\* an unreadable part could be about, are poisoned for good.
armPinsFromToolsList(l) ==
  poisoned \cup {t \in Tools : Pinned(t) /\ (\/ l.entries[t] \ {PinOf(t)} # {}
                                             \/ t \in l.doubtful \/ Unreadable(l))}

\* markBroken: past the bound the whole session is broken.
markBroken(sf, names) ==
  [sf EXCEPT !.broken = @ \cup names,
             !.all = @ \/ Cardinality(sf.broken \cup names) > MaxSurfaceEntries]

\* mutant of Observe
ObserveRebaselining(sf, l, first) ==
  [sf EXCEPT !.hashes = [t \in Tools |-> IF l.entries[t] = {} THEN @[t] ELSE first[t]]]

\* SurfaceBaseline.Observe: an unknown tool is baselined on sight, by the first of the
\* entries that name it; one that differs from its baseline is broken.
Observe(sf, l, first) ==
  LET fresh == {t \in Tools : sf.hashes[t] = None /\ l.entries[t] # {}}
      known == {t \in Tools : sf.hashes[t] # None}
      full  == Cardinality(known \cup fresh) > MaxSurfaceEntries
      kept  == [t \in Tools |-> IF t \in fresh THEN first[t] ELSE sf.hashes[t]]
  IN  IF full THEN [sf EXCEPT !.all = TRUE]
      ELSE [markBroken(sf, {t \in known \cup fresh : l.entries[t] \ {kept[t]} # {}})
              EXCEPT !.hashes = kept]

\* A tools/list result passes: the pins are recorded before the host sees it. The two
\* stores are monotone, so results that pass at once are as good as one after the other.
ListTools(armed) ==
  /\ \E l \in Listings, first \in [Tools -> Surfaces] :
       /\ \A t \in Tools : IF l.entries[t] # {} THEN first[t] \in l.entries[t]
                           ELSE first[t] = CHOOSE h \in Surfaces : TRUE
       /\ IF armed
          THEN /\ poisoned' = armPinsFromToolsList(l)
               /\ surface' = IF Unreadable(l) THEN [surface EXCEPT !.all = TRUE]
                             ELSE Observe(markBroken(surface, l.doubtful), l, first)
          ELSE UNCHANGED <<poisoned, surface>>
       /\ seen' = [t \in Tools |-> seen[t] \cup l.entries[t]]
       /\ doubted' = doubted \cup (IF Unreadable(l) THEN Tools ELSE l.doubtful)
       /\ rotated' = rotated \cup {t \in Tools : Pinned(t) /\ l.entries[t] \ {PinOf(t)} # {}}
  /\ UNCHANGED route

\* The session ends and its id is used again: its baseline goes, the manifest's pins stay.
ReleaseSession ==
  /\ surface' = NoSurface
  /\ seen' = [t \in Tools |-> {}]
  /\ doubted' = {}
  /\ UNCHANGED <<route, poisoned, rotated>>

\* The manifest keeps a readable entry the caller's constraint permits and no pin refuses.
keepByManifestEntry(n, tok) ==
  LET c == findConstraint(n, tok)
  IN  /\ c # None /\ c.acts
      /\ n \in Tools => ~(Pinned(n) /\ pinViolated(n)) /\ ~Broken(n)

innerFilter(n, tok) ==
  CASE route.inner = "manifest" -> keepByManifestEntry(n, tok)
    [] route.inner = "denyAll" -> FALSE
    [] OTHER -> TRUE

\* Whether an enforcing route leaves a readable entry in the list this caller is shown.
filterList(n, tok) ==
  IF ~route.jwt THEN innerFilter(n, tok)
  ELSE /\ tok.valid /\ routeAudienceSatisfied(tok)
       /\ IF HasCapabilities(tok) THEN innerFilter(n, tok) /\ buildConstraints(tok, n) # {}
          ELSE innerEnforces /\ innerFilter(n, tok)

PointsNext == route # None /\ ((\E armed \in {Arms(tok) : tok \in Tokens} : ListTools(armed)) \/ ReleaseSession)

PointsSpec == PointsInit /\ [][PointsNext]_pointVars
-----------------------------------------------------------------------------
(* Properties. *)

PointsTypeOK ==
  /\ route \in {None} \cup Routes
  /\ poisoned \subseteq Tools
  /\ surface \in [hashes: [Tools -> Surfaces \cup {None}], broken: SUBSET Tools, all: BOOLEAN]
  /\ seen \in [Tools -> SUBSET Surfaces]
  /\ doubted \subseteq Tools /\ rotated \subseteq Tools

\* Under a manifest, no decision point, posture, token or audit-only entry forwards a call
\* of a tool that this session was shown with two surfaces, or in a form that cannot be
\* read, or that any session was ever shown with another surface than its pin
\* (armPinsFromToolsList, SurfaceBaseline.Observe, decideTarget, HardenRefusal).
PinsHold ==
  route.inner = "manifest" =>
    \A q \in QuestionsAbout({t \in Tools : Cardinality(seen[t]) > 1} \cup doubted \cup rotated) :
      ~Forwards(Decide(q))

\* The constraints that speak for a forwarded call: the one that governs it or, when none
\* does, every one that names it.
SpokenFor(q) ==
  IF findConstraint(q.target, q.token) # None THEN {findConstraint(q.target, q.token)}
  ELSE {caps[i] : i \in {i \in Entries : matchBare(i, q.target)}}

\* Whatever forwards a tool call, an allow, an observing route or an audit-only entry, and
\* whichever layer refused it first: a redaction the manifest declares for it goes along
\* (CollectObligations, withForwardObligationsFor, withForwardObligations, HardenRefusal).
RedactionFollowsForward ==
  route.inner = "manifest" =>
    \A q \in QuestionsAbout(Tools) :
      (\E c \in SpokenFor(q) : c.redact) /\ Forwards(Decide(q))
      => Decide(q).redact

\* A call that reaches a target any entry declares a source leaves its mark on the
\* session, although the call was refused and merely observed, or no entry governs this
\* caller (evaluateAndRecord, recordForwardedRefusal, recordUnmatchedForwardedState).
LabelsFollowForward ==
  route.inner = "manifest" =>
    \A q \in QuestionsAbout({t \in Tools : labelOutputNamingTarget(t)}) :
      Forwards(Decide(q)) => Decide(q).recorded

\* The JWT layer answers sampling for a token with a capability list itself, by a plain
\* deny that withInnerVerdicts never composes with the inner point's (jwt.go:1143-1146).
ClaimsDenySampling(q) == q.target = Sampling /\ HasCapabilities(q.token)

\* Wrapped in the JWT layer a decision allows nothing the inner point refuses, and forwards
\* nothing a kill, a pin or the effect ceiling of the inner point holds back, whatever the
\* claims say (JWTPDP.Decide, DecideSampling, withInnerVerdicts). Two cases are left out of
\* the second part. A refusal by a condition the JWT layer never ran is beyond its
\* knowledge. And where the claims deny sampling, an observing route forwards what the
\* manifest alone refuses outright (over its effect ceiling, or an entry sampling cannot
\* honour), so there "a JWT may only restrict" (jwt.go:1208-1213) is not so.
TokenOnlyRestricts ==
  route.jwt /\ route.inner # "nil" =>
    \A q \in QuestionsAbout(Targets) :
      /\ Decide(q).allow => InnerDecide(q).allow
      /\ Forwards(Decide(q)) /\ ~ClaimsDenySampling(q) /\ q.engine \notin {"hard", "fault"}
           => Forwards(InnerDecide(q))

\* A cancellation is a token's to restrict too, and what could be subscribed to can be
\* cancelled again, although the conditions, the ceiling and the claims are not asked a
\* second time (DecideResourceCancel of both points against Decide).
SubscriptionsCanBeCancelled ==
  \A q \in QuestionsAbout({Resource}) :
    /\ Decide(q).allow => DecideCancel(q).allow
    /\ DecideCancel(q).allow /\ route.inner # "nil" => InnerCancel(q).allow

\* A caller that is not killed asks for n with arguments the engine judges so.
Asked(n, tok, outcome) == [target |-> n, token |-> tok, killed |-> FALSE, engine |-> outcome]

\* The same token, whose claims accept the arguments too.
Agreeable(tok) ==
  [tok EXCEPT !.caps = IF @ = None THEN None ELSE Unconditional(@)]

\* The list a caller is shown and the calls it may make agree: what would be allowed is
\* listed, and what is listed is refused for its arguments only (filterList,
\* keepByManifestEntry against decideTarget, JWTPDP.Decide).
ListAgreesWithDecide ==
  \A n \in Tools \cup {Resource}, tok \in Tokens :
    IF filterList(n, tok) THEN Decide(Asked(n, Agreeable(tok), "pass")).allow
    ELSE \A outcome \in Outcomes : ~Decide(Asked(n, tok, outcome)).allow

\* A tool whose surface moved away from its pin is refused from then on, and a listing
\* shows exactly the tools a call of which would pass.
SurfaceIsEnforced == route # None => PinsHold /\ ListAgreesWithDecide

\* What a forward owes goes along whichever layer or posture lets it through: the redaction
\* of the entry that governs the call or, when none does, of every entry that names its
\* target, and the labels of any entry that declares the target a source.
ForwardsCarryTheirDuties == route # None => RedactionFollowsForward /\ LabelsFollowForward

\* A token never lets through what the manifest alone would refuse, for sampling only when
\* it carries no capability list and for conditions only as far as the JWT layer runs them
\* (TokenOnlyRestricts), and it strands no subscription it allowed.
TokenRestricts == route # None => TokenOnlyRestricts /\ SubscriptionsCanBeCancelled
=============================================================================
