------------------------------ MODULE AnchorGates -----------------------------
(***************************************************************************)
(* The HTTP transport's decision turn (internal/transport/anchor_gate.go,  *)
(* keyed_registry.go, session_gate_cache.go and the parts of               *)
(* http_session.go, http_routing.go and forward.go that use them).         *)
(*                                                                         *)
(* A route files one reference-counted gate per state anchor; a gate is a  *)
(* one-slot channel.  A request reaches its anchor's gate through its      *)
(* session's pin, through the session's cache of gates for other anchors,  *)
(* or through the registry.  Teardown returns the session's references     *)
(* after a bounded drain of the requests counted in it.                    *)
(*                                                                         *)
(* A session here is a session object: the table of live sessions is keyed *)
(* by id, and a test of identity is registered[s].  A cached entry is      *)
(* named by the request that filed it.                                     *)
(***************************************************************************)
EXTENDS Integers, FiniteSets

CONSTANTS
  Anchors, Sessions,
  Requests,    \* each passes through once
  Sampling,    \* the server-initiated ones; the others are host POSTs
  SessionOf,   \* the session a request names, or whose upstream sent it
  AnchorOf,    \* the anchor a host request resolves to
  PinAnchor,   \* the anchor a session resolved to at registration
  CacheCap,    \* maxCachedSessionGates
  MaxGates     \* bound: gates built during a behaviour

ASSUME GateAssumption ==
  /\ Sampling \subseteq Requests
  /\ SessionOf \in [Requests -> Sessions]
  /\ AnchorOf \in [Requests -> Anchors]
  /\ PinAnchor \in [Sessions -> Anchors]
  /\ \A r \in Sampling : AnchorOf[r] = PinAnchor[SessionOf[r]]
  /\ IsFiniteSet(Requests) /\ IsFiniteSet(Sessions)
  /\ {"free", "none"} \cap Requests = {}
  /\ CacheCap \in Nat \ {0} /\ MaxGates \in Nat

VARIABLES
  registry,    \* per anchor: the gate filed under it, or NoGate
  built,       \* gates built so far; a gate is the number it was built with
  refs,        \* per gate: its references
  turn,        \* per gate: the request in its channel, or Free
  stage,       \* per session: new, live, draining, closing, gone
  registered,  \* sessions in the proxy's table
  reading,     \* sessions whose upstream reader runs
  pin,         \* per session: its pinned gate
  pinned,      \* sessions whose pin's reference is not returned yet
  waiters,     \* sessions whose pin a waiter goroutine will drop
  split,       \* sessions that resolved an anchor other than their pin's
  cache,       \* per session: its filed entries
  closed,      \* sessions whose cache is closed
  entryGate,   \* per entry: its gate
  users,       \* per entry: the requests using it
  retired,     \* entries taken out of their cache while in use
  at,          \* per request: how far it is
  counted,     \* requests counted in their session's inFlight or server pool
  gate,        \* per request: the gate it takes its turn on, or NoGate
  tier,        \* per request: pin, cache or registry
  entry,       \* per request: the cached entry it uses
  spare        \* per request: a gate it references for the cache, or NoGate

gateVars == <<registry, built, refs>>
sessionVars == <<stage, registered, reading, pin, pinned, waiters, split>>
cacheVars == <<cache, closed, entryGate, users, retired>>
requestVars == <<gate, tier, entry, spare>>
turnVars == <<registry, built, refs, turn, stage, registered, reading, pin, pinned, waiters, split,
          cache, closed, entryGate, users, retired, at, counted, gate, tier, entry, spare>>

NoGate == 0
Gates == 1..MaxGates
Free == "free"
NoEntry == "none"

GatesInit ==
  /\ registry = [a \in Anchors |-> NoGate] /\ built = 0
  /\ refs = [g \in Gates |-> 0]
  /\ turn = [g \in Gates |-> Free]
  /\ stage = [s \in Sessions |-> "new"]
  /\ registered = {} /\ reading = {} /\ pinned = {} /\ waiters = {} /\ split = {} /\ closed = {}
  /\ pin = [s \in Sessions |-> NoGate]
  /\ cache = [s \in Sessions |-> {}]
  /\ entryGate = [e \in Requests |-> NoGate]
  /\ users = [e \in Requests |-> 0]
  /\ retired = {}
  /\ at = [r \in Requests |-> "new"]
  /\ counted = {}
  /\ gate = [r \in Requests |-> NoGate]
  /\ tier = [r \in Requests |-> "pin"]
  /\ entry = [r \in Requests |-> NoEntry]
  /\ spare = [r \in Requests |-> NoGate]

-------------------------------------------------------------------------------
(* keyedRegistry *)

\* hold: g is the gate of a, built and filed now if there is none, with one
\* more reference.
hold(a, g) ==
  /\ refs' = [refs EXCEPT ![g] = @ + 1]
  /\ \/ /\ registry[a] # NoGate
        /\ g = registry[a]
        /\ UNCHANGED <<registry, built>>
     \/ /\ registry[a] = NoGate
        /\ g = built + 1
        /\ built' = g
        /\ registry' = [registry EXCEPT ![a] = g]

\* The references in gs are dropped; a gate without references leaves.
drop(gs) ==
  /\ refs' = [g \in Gates |-> IF g \in gs THEN refs[g] - 1 ELSE refs[g]]
  /\ registry' = [a \in Anchors |->
       IF registry[a] \in gs /\ refs'[registry[a]] = 0 THEN NoGate ELSE registry[a]]
  /\ UNCHANGED built

-------------------------------------------------------------------------------
(* Sessions *)

\* registerSession pins the gate of the session's own anchor.
holdDecisionGate(s) ==
  /\ stage[s] = "new"
  /\ \E g \in Gates : hold(PinAnchor[s], g) /\ pin' = [pin EXCEPT ![s] = g]
  /\ pinned' = pinned \cup {s}
  /\ stage' = [stage EXCEPT ![s] = "live"]
  /\ registered' = registered \cup {s}
  /\ reading' = reading \cup {s}
  /\ UNCHANGED <<turn, waiters, split, cacheVars, at, counted, requestVars>>

\* A DELETE, a kill, the idle reaper or a shutdown takes the session off the
\* table, and then closes its upstream.
Delete(s) ==
  /\ s \in registered
  /\ registered' = registered \ {s}
  /\ UNCHANGED <<gateVars, turn, stage, reading, pin, pinned, waiters, split, cacheVars, at, counted,
                 requestVars>>

\* The upstream closes, on its own or not, and readUpstream returns.
ReaderExits(s) ==
  /\ s \in reading
  /\ reading' = reading \ {s}
  /\ UNCHANGED <<gateVars, turn, stage, registered, pin, pinned, waiters, split, cacheVars, at, counted,
                 requestVars>>

\* finishSessionCleanup starts.
finishSessionCleanup(s) ==
  /\ stage[s] = "live" /\ s \notin reading
  /\ stage' = [stage EXCEPT ![s] = "draining"]
  /\ registered' = registered \ {s}
  /\ UNCHANGED <<gateVars, turn, reading, pin, pinned, waiters, split, cacheVars, at, counted, requestVars>>

InFlight(s) == {r \in counted : SessionOf[r] = s}

DropPin(s) ==
  /\ pinned' = pinned \ {s}
  /\ drop({pin[s]})

\* Mutant: the timed-out drain drops the pin under a running request.
releaseSessionObjectStateAnyway(s) ==
  /\ stage[s] = "draining"
  /\ stage' = [stage EXCEPT ![s] = "closing"]
  /\ DropPin(s) /\ UNCHANGED waiters
  /\ UNCHANGED <<turn, registered, reading, pin, split, cacheVars, at, counted, requestVars>>

\* Both drains are over, or timed out.  With a handler still in flight the pin
\* is left to a waiter.
releaseSessionObjectState(s) ==
  /\ stage[s] = "draining"
  /\ stage' = [stage EXCEPT ![s] = "closing"]
  /\ \/ InFlight(s) = {} /\ DropPin(s) /\ UNCHANGED waiters
     \/ InFlight(s) # {} /\ waiters' = waiters \cup {s} /\ UNCHANGED <<pinned, gateVars>>
  /\ UNCHANGED <<turn, registered, reading, pin, split, cacheVars, at, counted, requestVars>>

awaitAndDropDecideGate(s) ==
  /\ s \in waiters /\ InFlight(s) = {}
  /\ waiters' = waiters \ {s}
  /\ DropPin(s)
  /\ UNCHANGED <<turn, stage, registered, reading, pin, split, cacheVars, at, counted, requestVars>>

\* Mutant: entries are dropped under the requests that use them.
RetireDropping(es) ==
  /\ UNCHANGED retired
  /\ drop({entryGate[e] : e \in es})

\* retireLocked, for the entries es that leave a cache: the reference of one
\* without users is dropped, one in use is retired.
retireLocked(es) ==
  /\ retired' = retired \cup {e \in es : users[e] > 0}
  /\ drop({entryGate[e] : e \in {e \in es : users[e] = 0}})

\* gateCache.close: every entry leaves, and nothing is admitted any more.
close(s) ==
  /\ stage[s] = "closing"
  /\ stage' = [stage EXCEPT ![s] = "gone"]
  /\ closed' = closed \cup {s}
  /\ cache' = [cache EXCEPT ![s] = {}]
  /\ retireLocked(cache[s])
  /\ UNCHANGED <<turn, registered, reading, pin, pinned, waiters, split, entryGate, users, at, counted,
                 requestVars>>

-------------------------------------------------------------------------------
(* handleSessionPost up to the turn *)

GoTo(r, l) == at' = [at EXCEPT ![r] = l]

\* getSession finds the session.
Resolve(r) ==
  /\ at[r] = "new" /\ r \notin Sampling /\ SessionOf[r] \in registered
  /\ GoTo(r, "resolved")
  /\ UNCHANGED <<gateVars, turn, sessionVars, cacheVars, counted, requestVars>>

CountIn(r) ==
  /\ at[r] = "resolved"
  /\ GoTo(r, "counted")
  /\ counted' = counted \cup {r}
  /\ UNCHANGED <<gateVars, turn, sessionVars, cacheVars, requestVars>>

\* A session gate, the kill check or the request cap may refuse.  Else the
\* session must still be the one on the table; its anchor is noted.
Admit(r) ==
  LET s == SessionOf[r]
  IN  /\ at[r] = "counted" /\ r \notin Sampling
      /\ \/ GoTo(r, "returning") /\ UNCHANGED split
         \/ /\ s \in registered
            /\ GoTo(r, "admitted")
            /\ split' = IF AnchorOf[r] # PinAnchor[s] THEN split \cup {s} ELSE split
      /\ UNCHANGED <<gateVars, turn, stage, registered, reading, pin, pinned, waiters, cacheVars,
                     counted, requestVars>>

\* The reader hands a server-initiated request to the session's pool, which
\* counts it before its goroutine starts.
dispatch(r) ==
  /\ at[r] = "new" /\ r \in Sampling /\ SessionOf[r] \in reading
  /\ counted' = counted \cup {r}
  /\ GoTo(r, "counted")
  /\ UNCHANGED <<gateVars, turn, sessionVars, cacheVars, requestVars>>

\* decideSampling before the turn: refused once the session spans anchors.
AskSplit(r) ==
  /\ at[r] = "counted" /\ r \in Sampling
  /\ GoTo(r, IF SessionOf[r] \in split THEN "returning" ELSE "admitted")
  /\ UNCHANGED <<gateVars, turn, sessionVars, cacheVars, counted, requestVars>>

-------------------------------------------------------------------------------
(* beginTurn: pin, cache, registry *)

\* gateFor: the pin is read without a lock and never cleared.
UsePin(r) ==
  /\ at[r] = "admitted" /\ AnchorOf[r] = PinAnchor[SessionOf[r]]
  /\ gate' = [gate EXCEPT ![r] = pin[SessionOf[r]]]
  /\ tier' = [tier EXCEPT ![r] = "pin"]
  /\ GoTo(r, "queued")
  /\ UNCHANGED <<gateVars, turn, sessionVars, cacheVars, counted, entry, spare>>

Spans(r) == AnchorOf[r] # PinAnchor[SessionOf[r]]
Cached(r) == {e \in cache[SessionOf[r]] : AnchorOf[e] = AnchorOf[r]}
Full(s) == Cardinality(cache[s]) >= CacheCap

\* r uses entry e for its turn.
UseEntry(r, e, g, n) ==
  /\ entry' = [entry EXCEPT ![r] = e]
  /\ gate' = [gate EXCEPT ![r] = g]
  /\ tier' = [tier EXCEPT ![r] = "cache"]
  /\ users' = [users EXCEPT ![e] = n]

\* lookup finds an entry, or finds none and says whether one would be admitted.
\* A full cache admits when its coldest entry has gone a whole pass unused:
\* both answers are possible.
lookup(r) ==
  /\ at[r] = "admitted" /\ Spans(r)
  /\ \/ /\ SessionOf[r] \notin closed
        /\ \E e \in Cached(r) : UseEntry(r, e, entryGate[e], users[e] + 1)
        /\ GoTo(r, "queued")
        /\ UNCHANGED entryGate
     \/ /\ SessionOf[r] \notin closed /\ Cached(r) = {}
        /\ GoTo(r, "missed")
        /\ UNCHANGED <<users, entryGate, gate, tier, entry>>
     \/ /\ SessionOf[r] \in closed \/ (Cached(r) = {} /\ Full(SessionOf[r]))
        /\ GoTo(r, "uncached")
        /\ UNCHANGED <<users, entryGate, gate, tier, entry>>
  /\ UNCHANGED <<gateVars, turn, sessionVars, cache, closed, retired, counted, spare>>

HoldForCache(r) ==
  /\ at[r] = "missed"
  /\ \E g \in Gates : hold(AnchorOf[r], g) /\ spare' = [spare EXCEPT ![r] = g]
  /\ GoTo(r, "inserting")
  /\ UNCHANGED <<turn, sessionVars, cacheVars, counted, gate, tier, entry>>

\* insert takes the reference over into a new entry, shedding one if full.
\* The victim is the coldest entry; which one that is, is left open.
InsertKept(r) ==
  LET s == SessionOf[r]
  IN  /\ at[r] = "inserting" /\ s \notin closed /\ Cached(r) = {}
      /\ \E victims \in SUBSET cache[s] :
           /\ Cardinality(victims) = (IF Full(s) THEN 1 ELSE 0)
           /\ cache' = [cache EXCEPT ![s] = (@ \ victims) \cup {r}]
           /\ retireLocked(victims)
      /\ entryGate' = [entryGate EXCEPT ![r] = spare[r]]
      /\ UseEntry(r, r, spare[r], 1)
      /\ spare' = [spare EXCEPT ![r] = NoGate]
      /\ GoTo(r, "queued")
      /\ UNCHANGED <<turn, sessionVars, closed, counted>>

\* insert does not take it: another request filed the anchor first, or the
\* cache was closed or filled up meanwhile.
InsertNotKept(r) ==
  LET s == SessionOf[r]
  IN  /\ at[r] = "inserting"
      /\ \/ /\ s \notin closed
            /\ \E e \in Cached(r) : UseEntry(r, e, entryGate[e], users[e] + 1)
            /\ GoTo(r, "surplus")
            /\ UNCHANGED entryGate
         \/ /\ s \in closed \/ (Cached(r) = {} /\ Full(s))
            /\ GoTo(r, "surplus")
            /\ UNCHANGED <<users, entryGate, gate, tier, entry>>
      /\ UNCHANGED <<gateVars, turn, sessionVars, cache, closed, retired, counted, spare>>

\* The surplus reference goes back; without an entry the registry serves.
DropSurplus(r) ==
  /\ at[r] = "surplus"
  /\ drop({spare[r]})
  /\ spare' = [spare EXCEPT ![r] = NoGate]
  /\ GoTo(r, IF entry[r] = NoEntry THEN "uncached" ELSE "queued")
  /\ UNCHANGED <<turn, sessionVars, cacheVars, counted, gate, tier, entry>>

\* anchorGates.acquire references the gate before the wait.
UseRegistry(r) ==
  /\ at[r] = "uncached"
  /\ \E g \in Gates : hold(AnchorOf[r], g) /\ gate' = [gate EXCEPT ![r] = g]
  /\ tier' = [tier EXCEPT ![r] = "registry"]
  /\ GoTo(r, "queued")
  /\ UNCHANGED <<turn, sessionVars, cacheVars, counted, entry, spare>>

-------------------------------------------------------------------------------
(* The turn *)

\* The send on the gate's one-slot channel.
take(r) ==
  /\ at[r] = "queued" /\ turn[gate[r]] = Free
  /\ turn' = [turn EXCEPT ![gate[r]] = r]
  /\ GoTo(r, IF r \in Sampling THEN "turned" ELSE "deciding")
  /\ UNCHANGED <<gateVars, sessionVars, cacheVars, counted, requestVars>>

\* A bounded waiter whose window ended on a taken turn: on a stuck holder or at
\* the ceiling it gives up, else it waits again.  Which one depends on timing
\* only, so it may always give up.
GiveUp(r) ==
  /\ at[r] = "queued" /\ r \in Sampling /\ turn[gate[r]] # Free
  /\ GoTo(r, "returning")
  /\ UNCHANGED <<gateVars, turn, sessionVars, cacheVars, counted, requestVars>>

RecheckSkipped(r) ==
  /\ at[r] = "turned"
  /\ GoTo(r, "deciding")
  /\ UNCHANGED <<gateVars, turn, sessionVars, cacheVars, counted, requestVars>>

\* decideSampling asks again once it holds the turn.
RecheckSplit(r) ==
  /\ at[r] = "turned"
  /\ GoTo(r, IF SessionOf[r] \in split THEN "ending" ELSE "deciding")
  /\ UNCHANGED <<gateVars, turn, sessionVars, cacheVars, counted, requestVars>>

Decide(r) ==
  /\ at[r] = "deciding"
  /\ GoTo(r, "ending")
  /\ UNCHANGED <<gateVars, turn, sessionVars, cacheVars, counted, requestVars>>

\* The end func frees the channel, and then returns what the turn was on.
Release(r) ==
  /\ at[r] = "ending"
  /\ turn' = [turn EXCEPT ![gate[r]] = Free]
  /\ GoTo(r, IF tier[r] = "pin" THEN "returning" ELSE "leaving")
  /\ UNCHANGED <<gateVars, sessionVars, cacheVars, counted, requestVars>>

\* releaser: the last user of a retired entry returns its reference.
LeaveEntry(r) ==
  LET e == entry[r]
  IN  /\ users' = [users EXCEPT ![e] = @ - 1]
      /\ \/ /\ e \in retired /\ users[e] = 1
            /\ drop({entryGate[e]})
            /\ retired' = retired \ {e}
         \/ /\ ~(e \in retired /\ users[e] = 1)
            /\ UNCHANGED <<gateVars, retired>>

Leave(r) ==
  /\ at[r] = "leaving"
  /\ \/ tier[r] = "cache" /\ LeaveEntry(r)
     \/ tier[r] = "registry" /\ drop({gate[r]}) /\ UNCHANGED <<users, retired>>
  /\ GoTo(r, "returning")
  /\ UNCHANGED <<turn, sessionVars, cache, closed, entryGate, counted, requestVars>>

\* The forward is over and the handler returns; its deferred end func and
\* decrement run.
Return(r) ==
  /\ at[r] = "returning"
  /\ counted' = counted \ {r}
  /\ GoTo(r, "done")
  /\ UNCHANGED <<gateVars, turn, sessionVars, cacheVars, requestVars>>

-------------------------------------------------------------------------------
SessionStep(s) ==
  \/ holdDecisionGate(s) \/ Delete(s) \/ ReaderExits(s) \/ finishSessionCleanup(s)
  \/ releaseSessionObjectState(s) \/ awaitAndDropDecideGate(s) \/ close(s)

Reach(r) ==
  \/ Resolve(r) \/ CountIn(r) \/ Admit(r) \/ dispatch(r) \/ AskSplit(r)
  \/ UsePin(r) \/ lookup(r) \/ HoldForCache(r) \/ InsertKept(r) \/ InsertNotKept(r)
  \/ DropSurplus(r) \/ UseRegistry(r)

Finish(r) == RecheckSplit(r) \/ Decide(r) \/ Release(r) \/ Leave(r) \/ Return(r)

\* Every session is gone and no request is under way.
GatesFinished ==
  /\ \A s \in Sessions : stage[s] = "gone"
  /\ \A r \in Requests : at[r] \in {"new", "done"}
  /\ UNCHANGED turnVars

GatesNext ==
  \/ \E s \in Sessions : SessionStep(s)
  \/ \E r \in Requests : Reach(r) \/ take(r) \/ GiveUp(r) \/ Finish(r)
  \/ GatesFinished

GatesSpec == GatesInit /\ [][GatesNext]_turnVars

\* Goroutines run.  Senders blocked on a channel are served in turn, hence the
\* strong fairness.  A decision ends, because its backend calls time out, and
\* so does a forward.  Nothing makes a session end.
GatesFairness ==
  /\ \A r \in Requests : WF_turnVars(Reach(r) /\ at[r] # "new") /\ SF_turnVars(take(r)) /\ WF_turnVars(Finish(r))
  /\ \A s \in Sessions : /\ WF_turnVars(finishSessionCleanup(s)) /\ WF_turnVars(releaseSessionObjectState(s))
                         /\ WF_turnVars(awaitAndDropDecideGate(s)) /\ WF_turnVars(close(s))

-------------------------------------------------------------------------------
(* Properties *)

GatesTypeOK ==
  /\ registry \in [Anchors -> Gates \cup {NoGate}] /\ built \in 0..MaxGates
  /\ refs \in [Gates -> Nat]
  /\ turn \in [Gates -> Requests \cup {Free}]
  /\ stage \in [Sessions -> {"new", "live", "draining", "closing", "gone"}]
  /\ registered \subseteq Sessions /\ reading \subseteq Sessions /\ pinned \subseteq Sessions
  /\ waiters \subseteq pinned /\ split \subseteq Sessions /\ closed \subseteq Sessions
  /\ pin \in [Sessions -> Gates \cup {NoGate}]
  /\ cache \in [Sessions -> SUBSET Requests]
  /\ \A s \in Sessions : Cardinality(cache[s]) <= CacheCap
  /\ entryGate \in [Requests -> Gates \cup {NoGate}]
  /\ users \in [Requests -> Nat]
  /\ retired \subseteq Requests /\ counted \subseteq Requests
  /\ at \in [Requests -> {"new", "resolved", "counted", "admitted", "missed", "inserting", "surplus",
                          "uncached", "queued", "turned", "deciding", "ending", "leaving",
                          "returning", "done"}]
  /\ gate \in [Requests -> Gates \cup {NoGate}]
  /\ tier \in [Requests -> {"pin", "cache", "registry"}]
  /\ entry \in [Requests -> Requests \cup {NoEntry}]
  /\ spare \in [Requests -> Gates \cup {NoGate}]

\* One decision at a time per anchor, across the sessions and the three ways to
\* a gate, although gates are dropped and rebuilt, entries are shed, and
\* sessions are torn down under their requests.
Deciding == [a \in Anchors |-> {r \in Requests : at[r] = "deciding" /\ AnchorOf[r] = a}]
Turn == INSTANCE DecisionTurn WITH inTurn <- Deciding
ImplementsTurn == Turn!DSpec

\* A request that waits for a turn or has it is on the gate filed under its
\* anchor: no gate is reclaimed under a request, whoever else lets go of it.
GateOutlivesItsUsers ==
  \A r \in Requests : at[r] \in {"queued", "turned", "deciding", "ending"} =>
    gate[r] # NoGate /\ registry[AnchorOf[r]] = gate[r]

\* The entries that own a reference: filed in their session's cache, or retired and
\* in use.
Entries == {e \in Requests : e \in cache[SessionOf[e]] \/ (e \in retired /\ users[e] > 0)}

\* Every reference of a gate has an owner who will return it: a pin, a cached
\* or retired entry, a request on its way into the cache, or one on the
\* registry tier.  A gate without references is not filed.
EveryReferenceOwned ==
  /\ \A g \in Gates :
       refs[g] = Cardinality({s \in pinned : pin[s] = g})
               + Cardinality({e \in Entries : entryGate[e] = g})
               + Cardinality({r \in Requests : spare[r] = g})
               + Cardinality({r \in Requests : gate[r] = g /\ tier[r] = "registry"
                                /\ at[r] \in {"queued", "deciding", "ending", "leaving"}})
  /\ \A a \in Anchors : registry[a] # NoGate => refs[registry[a]] > 0

\* Every reference of a gate has one owner who returns it, so no gate is reclaimed
\* under a request that waits for its turn or has it, however sessions end and cached
\* entries are shed (keyedRegistry, cachedGate).
GatesAreHeld == EveryReferenceOwned /\ GateOutlivesItsUsers

\* A sampling decision starts only if no host request of its session has
\* decided under another anchor, whose taint its own anchor does not show.
SamplingKeepsToItsAnchor ==
  \A r \in Sampling : at[r] # "deciding" /\ at'[r] = "deciding" =>
    \A h \in Requests \ Sampling :
      SessionOf[h] = SessionOf[r] /\ Spans(h) => at[h] \notin {"deciding", "ending", "leaving"}

\* A sampling decision never runs past a host request of its session that decided under
\* another anchor, and decisions on one anchor are one at a time (decideSampling).
SamplingKeepsItsTurn ==
  /\ Turn!DInit
  /\ [][[Turn!DNext]_Deciding /\ SamplingKeepsToItsAnchor]_turnVars

\* A host request on its way to a turn decides, though bounded waiters and other
\* sessions compete for it and teardown is under way; and a session whose upstream
\* is gone gives all its references back, although the drain may give up on a
\* request still in flight.  A request and a session pass through once, so this is
\* to say that in the end nobody is left on the way.
OnItsWay(r) == at[r] \in {"admitted", "missed", "inserting", "surplus", "uncached", "queued"}
Settled ==
  /\ \A r \in Requests \ Sampling : ~OnItsWay(r)
  /\ \A s \in Sessions : stage[s] # "new" /\ s \notin reading =>
       s \notin pinned /\ \A e \in Entries \cup retired : SessionOf[e] # s
===============================================================================
