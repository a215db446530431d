------------------------------- MODULE MCStdio -------------------------------
(* What must end, for TLC: a behaviour is about the stdio proxy's decision   *)
(* turn under load, the HTTP transport's turn of one session whose sampling  *)
(* competes with its host requests, or the stdio proxy's start, service and  *)
(* teardown.                                                                *)
EXTENDS TicketQueue, StdioLifecycle

CONSTANTS a1, h1, h2, s1, s2, Parts

VARIABLES part,
          gates, gatesBuilt, gateRefs, pinHeld, at,          \* of AnchorGates: registry, built,
          turn, stage, registered, reading, pin, waiters,    \* refs, pinned; the others as there
          split, cache, closed, entryGate, users, retired, counted, gate, tier, entry, spare

OneAnchor == [r \in Requests |-> a1]

\* The upstreams a teardown may meet, all of which answer their start.
Base == [rev |-> "new", manifest |-> None, strict |-> FALSE, opener |-> "ok", version |-> <<>>,
         pages |-> <<>>, eof |-> TRUE, term |-> TRUE, wraps |-> FALSE, escapes |-> FALSE,
         breaksOff |-> FALSE, handles |-> FALSE]
Teardowns ==
  {[Base EXCEPT !.eof = e, !.term = t, !.wraps = w, !.escapes = x, !.handles = TRUE] :
     e \in BOOLEAN, t \in BOOLEAN, w \in BOOLEAN, x \in BOOLEAN}
  \cup {[Base EXCEPT !.wraps = w, !.handles = TRUE, !.breaksOff = TRUE] : w \in BOOLEAN}

\* One that ignores the end of its input and sends a line that is no message.
Daemon == {[Base EXCEPT !.eof = FALSE, !.breaksOff = TRUE]}

Openings == {[Base EXCEPT !.rev = r, !.opener = o] : r \in {"old", "new"},
             o \in {"ok", "unknownVersion", "otherRevision", "error", "malformed", "silent"}}

Cap(n, g, p, h, s) == [names |-> n, glob |-> g, score |-> 1, tool |-> TRUE, principal |-> p, pin |-> h,
                       reviewed |-> {}, schema |-> s]
Closed == (<<>> :> [type |-> "any", closed |-> TRUE]) @@ (<<"x">> :> [type |-> "number", closed |-> FALSE])
Manifests == {[caps |-> c, version |-> v] :
  v \in {<<>>, <<"1", "*">>},
  c \in {{Cap({"a"}, FALSE, FALSE, "h", None)},
         {Cap({"a"}, FALSE, FALSE, None, Closed), Cap({"a", "b"}, TRUE, FALSE, None, None)},
         {Cap({"a"}, FALSE, TRUE, "h", None), Cap({"a"}, TRUE, FALSE, None, None)},
         {Cap({"a"}, FALSE, TRUE, None, None), Cap({"a"}, TRUE, FALSE, None, None)}}}

Live(x) == (<<>> :> "any") @@ (<<x>> :> "integer")
Tool(n, h, l, c) == [name |-> n, hash |-> h, live |-> l, clear |-> c]
A == Tool("a", "h", Live("x"), TRUE)
Others == {A, Tool("a", "g", Live("y"), TRUE), Tool("a", "h", None, FALSE), Tool("b", "h", None, TRUE)}
P(ts, n, f) == [tools |-> ts, next |-> n, bytes |-> 1, fault |-> f]
Listings ==
  {<<P({t}, None, f)>> : t \in Others, f \in {"none", "error"}}
  \cup {<<P({A}, "c", "none"), P({t}, n, f)>> : t \in Others, n \in {None, "c"}, f \in {"none", "error"}}
  \cup {<<P({A}, "c", "none"), P({}, "d", "none"), P({t}, None, "none")>> : t \in Others}
  \cup {<<[P({A}, None, "none") EXCEPT !.bytes = MaxBytes + 1]>>, <<P(Others, None, "none")>>}
Probes == {[Base EXCEPT !.manifest = m, !.strict = s, !.version = v, !.pages = l] :
           m \in Manifests, s \in BOOLEAN, v \in {<<"1", "2">>, <<"2">>}, l \in Listings}

AllScenarios == Teardowns \cup Openings \cup Probes

\* One session whose sampling g3 competes with the host request g1 on its own anchor
\* while another, g2, spans to a second anchor.
LoneRequests == {"g1", "g2", "g3"}
Gates == INSTANCE AnchorGates
  WITH Anchors <- {"a", "b"}, Sessions <- {"s"}, Requests <- LoneRequests, Sampling <- {"g3"},
       SessionOf <- [r \in LoneRequests |-> "s"], PinAnchor <- [s \in {"s"} |-> "a"],
       AnchorOf <- [r \in LoneRequests |-> IF r = "g2" THEN "b" ELSE "a"],
       CacheCap <- 1, MaxGates <- 4,
       registry <- gates, built <- gatesBuilt, refs <- gateRefs, pinned <- pinHeld
gatesVars == <<gates, gatesBuilt, gateRefs, pinHeld, at, turn, stage, registered, reading, pin,
               waiters, split, cache, closed, entryGate, users, retired, counted, gate, tier,
               entry, spare>>

allVars == <<part, vars, lifeVars, gatesVars>>
MCInit == /\ part \in Parts /\ Init /\ Gates!GatesInit
          /\ \/ part = "life" /\ LifeInit
             \/ part # "life" /\ scn = Base /\ main = "returned" /\ Fresh
MCNext == /\ UNCHANGED part
          /\ \/ part = "turn" /\ Next /\ UNCHANGED <<lifeVars, gatesVars>>
             \/ part = "life" /\ LifeNext /\ UNCHANGED <<vars, gatesVars>>
             \/ part = "gates" /\ Gates!GatesNext /\ UNCHANGED <<vars, lifeVars>>
MCSpec == MCInit /\ [][MCNext]_allVars /\ Fairness /\ LifeFairness /\ Gates!GatesFairness

\* Turns end, on both transports: nobody with a stdio ticket waits for ever, every host
\* request on its way to an HTTP turn decides, and a session whose upstream is gone gives
\* all its references back (TicketQueue.EveryTicketAnswered, AnchorGates.Settled).
TurnsEnd == EveryTicketAnswered /\ <>[]Gates!Settled

\* A sampling decision never runs past a host request of its session that decided under
\* another anchor, and decisions on one anchor are one at a time
\* (AnchorGates.SamplingKeepsItsTurn).
SamplingKeepsItsTurn == Gates!SamplingKeepsItsTurn
==============================================================================
