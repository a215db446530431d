---------------------------- MODULE HttpSessions ----------------------------
(***************************************************************************)
(* The session table of the HTTP transport (internal/transport/             *)
(* http_session.go, first_request_session.go, http_routing.go).  A request  *)
(* that finds no session starts a worker: it reserves a slot, opens an      *)
(* upstream, registers the worker under its id and checks the upstream for  *)
(* drift.  The id of a handshake is minted; the id of a first request is    *)
(* derived from the caller, so several attempts may share it and join each  *)
(* other's workers.  Beside them run the kill handler, the revocation       *)
(* sweeper, the reaper, DELETE, upstreams that exit, the cleanup goroutine  *)
(* of every worker, and shutdown.                                           *)
(*                                                                         *)
(* A worker has the name of the attempt that built it.  A step is a section *)
(* under p.mu, an atomic load or store, or a call that blocks.              *)
(***************************************************************************)
EXTENDS Naturals, FiniteSets

CONSTANTS Attempts,    \* requests that may have to create a session
          Caller,      \* the id derived from the one caller identity of the model
          Caps,        \* the values of --max-sessions considered
          MaxKills,    \* bound on kills issued
          None,        \* no worker
          Global       \* the scope of a kill of everything

VARIABLES derived,      \* attempts of hosts without a handshake: their id is derived
          maxSessions,  \* p.maxSessions
          pc,           \* where each attempt stands
          target,       \* the worker an attempt found, waits for and is served on
          startGen,     \* reapGen as the attempt read it on arrival
          sessions,     \* p.sessions: id -> worker
          establishing, \* p.establishing
          reapGen,      \* p.reapGen
          stopping,     \* Serve: "no", "draining" (listener down), "yes" (shuttingDown)
          initing,      \* workers with initInProgress set
          life,         \* the worker: its upstream, then its cleanup goroutine
          closing,      \* workers whose close() has been called and whose upstream still runs
          killed,       \* scopes the kill switch names
          kills,        \* kills issued
          unannounced,  \* kills committed whose observers have not been called yet
          killer,       \* scope of the kill request being handled
          revoked,      \* the one-slot revocation signal
          sweep,        \* workers the sweeper has still to look at
          vetted,       \* history: workers that passed the drift check
          exposed       \* history: registered while their id's state was being released

table == <<sessions, establishing, reapGen, stopping>>
kill  == <<killed, kills, unannounced, killer, revoked, sweep>>
work  == <<initing, life, closing, vetted, exposed>>
vars  == <<derived, maxSessions, pc, target, startGen, table, kill, work>>

Stages == {"new", "lookup", "await", "check", "reserve", "open", "register", "drift",
           "unregister", "settle", "confirm", "release", "adopt", "awaitAdopted",
           "post", "awaitPost", "served", "refused"}
Answered == {"served", "refused"}
\* "open" is an upstream not yet registered; from "gone" on its output has ended.
Lives    == {"none", "open", "live", "gone", "drain", "release", "over"}
Keys     == Attempts \cup {Caller}
\* A handshake mints an id nobody else has: the worker's own name stands for it.
KeyOf(a) == IF a \in derived THEN Caller ELSE a
\* What a kill can name: everything, or the id of a worker.
Scopes   == {Global} \cup {KeyOf(a) : a \in Attempts}
Running(W) == {a \in W : life[a] = "live"}
Workers  == {sessions[k] : k \in Keys} \ {None}    \* snapshotSessions
Registered(a) == sessions[KeyOf(a)] = a
sessionKilled(a) == killed \cap {Global, KeyOf(a)} # {}
\* Attempts between tryReserveSessionSlot and releaseSessionSlot.
Reserving == {a \in Attempts : pc[a] \in {"open", "register", "drift", "unregister", "settle",
                                          "confirm", "release"}}

ASSUME SessionAssumption ==
  /\ IsFiniteSet(Attempts)
  /\ Caps \subseteq Nat \ {0} /\ MaxKills \in Nat
  /\ Caller \notin Attempts /\ None \notin Keys /\ Global \notin Keys

TypeOK ==
  /\ derived \subseteq Attempts /\ maxSessions \in Caps
  /\ pc \in [Attempts -> Stages]
  /\ target \in [Attempts -> Attempts \cup {None}]
  /\ startGen \in [Attempts -> Nat]
  /\ sessions \in [Keys -> Attempts \cup {None}]
  /\ establishing \in Nat /\ reapGen \in Nat
  /\ stopping \in {"no", "draining", "yes"}
  /\ initing \subseteq Attempts /\ closing \subseteq Attempts
  /\ life \in [Attempts -> Lives]
  /\ killed \subseteq Keys \cup {Global}
  /\ kills \in 0..MaxKills
  /\ unannounced \subseteq Keys \cup {Global}
  /\ killer \in Keys \cup {Global, None}
  /\ revoked \in BOOLEAN
  /\ sweep \subseteq Attempts
  /\ vetted \subseteq Attempts /\ exposed \subseteq Attempts

Init ==
  /\ derived \in SUBSET Attempts /\ maxSessions \in Caps
  /\ pc = [a \in Attempts |-> "new"]
  /\ target = [a \in Attempts |-> None]
  /\ startGen = [a \in Attempts |-> 0]
  /\ sessions = [k \in Keys |-> None]
  /\ establishing = 0 /\ reapGen = 0 /\ stopping = "no"
  /\ initing = {} /\ closing = {}
  /\ life = [a \in Attempts |-> "none"]
  /\ killed = {} /\ kills = 0 /\ unannounced = {} /\ killer = None /\ revoked = FALSE /\ sweep = {}
  /\ vetted = {} /\ exposed = {}

\* The next stage of an attempt and the worker it has in hand there.
Goto(a, stage, b) ==
  /\ pc' = [pc EXCEPT ![a] = stage]
  /\ target' = [target EXCEPT ![a] = b]
  /\ UNCHANGED <<derived, maxSessions>>
-----------------------------------------------------------------------------
(* The attempt, up to the worker's registration. *)

\* currentReapGen is read before any kill check; a handshake goes straight to
\* them, a first request first looks for its worker.
Arrive(a) ==
  /\ pc[a] = "new" /\ stopping = "no"
  /\ startGen' = [startGen EXCEPT ![a] = reapGen]
  /\ Goto(a, IF a \in derived THEN "lookup" ELSE "check", None)
  /\ UNCHANGED <<table, kill, work>>

\* getSession(key): a registered worker is awaited, otherwise the attempt goes on.
Find(a, from, found, missing) ==
  /\ pc[a] = from
  /\ LET b == sessions[KeyOf(a)] IN Goto(a, IF b # None THEN found ELSE missing, b)
  /\ UNCHANGED <<startGen, table, kill, work>>

firstRequestSession(a) == Find(a, "lookup", "await", "check")

\* awaitEstablished: the worker no longer comes up and is still the registered one.
StillComing(b) == b \in initing
workerServable(a) == sessions[KeyOf(a)] = target[a]

awaitEstablished(a, at, gone) ==
  /\ pc[a] = at /\ ~StillComing(target[a])
  /\ Goto(a, IF workerServable(a) THEN "post" ELSE gone, None)
  /\ UNCHANGED <<startGen, table, kill, work>>

\* The client goes away while its request waits.
waiterGone(a) ==
  /\ pc[a] \in {"await", "awaitAdopted", "awaitPost"}
  /\ Goto(a, "refused", None)
  /\ UNCHANGED <<startGen, table, kill, work>>

\* CheckKill, then the audience and strict-audit gates, which may refuse anyone.
\* A handshake has no session id yet: only the global scope names it.
creationGates(a) ==
  /\ pc[a] = "check"
  /\ LET scopes == IF a \in derived THEN {Global, KeyOf(a)} ELSE {Global}
     IN  \/ killed \cap scopes = {} /\ Goto(a, "reserve", None)
         \/ Goto(a, "refused", None)
  /\ UNCHANGED <<startGen, table, kill, work>>

\* mutant of SlotFree
SlotFreeOfWorkers == Cardinality(Workers) < maxSessions

SlotFree == Cardinality(Workers) + establishing < maxSessions

\* At the limit a first request may still join the worker that took the slot.
tryReserveSessionSlot(a) ==
  /\ pc[a] = "reserve"
  /\ IF SlotFree
     THEN /\ establishing' = establishing + 1
          /\ initing' = initing \cup {a}
          /\ Goto(a, "open", None)
     ELSE /\ Goto(a, IF a \in derived THEN "adopt" ELSE "refused", None)
          /\ UNCHANGED <<establishing, initing>>
  /\ UNCHANGED <<startGen, sessions, reapGen, stopping, kill, life, closing, vetted, exposed>>

\* newSession / newRemoteSession: the upstream starts and answers its opener, or not.
OpenUpstream(a) ==
  /\ pc[a] = "open"
  /\ \/ Goto(a, "register", None) /\ life' = [life EXCEPT ![a] = "open"]
     \/ Goto(a, "settle", None) /\ UNCHANGED life
  /\ UNCHANGED <<startGen, table, kill, initing, closing, vetted, exposed>>

MayRegister(a) ==
  /\ stopping # "yes"
  /\ reapGen = startGen[a]
  /\ Cardinality(Workers) < maxSessions
  /\ sessions[KeyOf(a)] = None

\* On any refusal the fresh upstream is killed; the cleanup goroutine only exists
\* once the worker is registered.
registerSession(a) ==
  /\ pc[a] = "register"
  /\ IF MayRegister(a)
     THEN /\ sessions' = [sessions EXCEPT ![KeyOf(a)] = a]
          /\ life' = [life EXCEPT ![a] = "live"]
          /\ exposed' = IF \E b \in Attempts : life[b] = "release" /\ KeyOf(b) = KeyOf(a)
                        THEN exposed \cup {a} ELSE exposed
          /\ Goto(a, "drift", None)
     ELSE /\ life' = [life EXCEPT ![a] = "over"]
          /\ Goto(a, "settle", None)
          /\ UNCHANGED <<sessions, exposed>>
  /\ UNCHANGED <<startGen, establishing, reapGen, stopping, kill, initing, closing, vetted>>
-----------------------------------------------------------------------------
(* The attempt, from registration to its answer. *)

\* The upstream's listing becomes the surface baseline and is judged; a drifted
\* upstream is closed.
runDriftCheckOrTeardown(a) ==
  /\ pc[a] = "drift"
  /\ \/ Goto(a, "settle", None) /\ vetted' = vetted \cup {a} /\ UNCHANGED closing
     \/ Goto(a, "unregister", None) /\ closing' = closing \cup Running({a}) /\ UNCHANGED vetted
  /\ UNCHANGED <<startGen, table, kill, initing, life, exposed>>

Unregister(a) == sessions' = IF Registered(a) THEN [sessions EXCEPT ![KeyOf(a)] = None] ELSE sessions

DropDrifted(a) ==
  /\ pc[a] = "unregister"
  /\ Unregister(a)
  /\ Goto(a, "settle", None)
  /\ UNCHANGED <<startGen, establishing, reapGen, stopping, kill, work>>

\* mutant of finishEstablishing
finishEstablishingOnSuccess(a) ==
  /\ pc[a] = "settle"
  /\ initing' = IF a \in vetted THEN initing \ {a} ELSE initing
  /\ Goto(a, "confirm", None)
  /\ UNCHANGED <<startGen, table, kill, life, closing, vetted, exposed>>

\* finishEstablishing ends the window in which every sweep spares the worker, and
\* only then asks whether a kill fell into it.
finishEstablishing(a) ==
  /\ pc[a] = "settle"
  /\ initing' = initing \ {a}
  /\ Goto(a, "confirm", None)
  /\ UNCHANGED <<startGen, table, kill, life, closing, vetted, exposed>>

\* mutant of KilledMeanwhile
KilledMeanwhileUnasked(a) == FALSE

KilledMeanwhile(a) == Registered(a) /\ sessionKilled(a)

ReclaimIfKilled(a) ==
  /\ pc[a] = "confirm"
  /\ closing' = IF KilledMeanwhile(a) THEN closing \cup Running({a}) ELSE closing
  /\ Goto(a, "release", None)
  /\ UNCHANGED <<startGen, table, kill, initing, life, vetted, exposed>>

\* The deferred release of the slot.  Then a handshake is answered on its worker, a
\* first request posts to its own, and a failed one looks for a concurrent worker.
releaseSessionSlot(a) ==
  /\ pc[a] = "release"
  /\ establishing' = IF establishing > 0 THEN establishing - 1 ELSE 0
  /\ CASE a \in vetted /\ a \in derived -> Goto(a, "post", None)
       [] a \in vetted /\ a \notin derived -> Goto(a, "served", a)
       [] a \notin vetted /\ a \in derived -> Goto(a, "adopt", None)
       [] OTHER -> Goto(a, "refused", None)
  /\ UNCHANGED <<startGen, sessions, reapGen, stopping, kill, work>>

createFirstRequestSession(a) == Find(a, "adopt", "awaitAdopted", "refused")

\* handleSessionPost resolves the id once more and waits for the worker in turn.
ResolveSession(a) == Find(a, "post", "awaitPost", "refused")

awaitServableWorker(a) ==
  /\ pc[a] = "awaitPost" /\ ~StillComing(target[a])
  /\ IF workerServable(a) /\ ~sessionKilled(target[a])
     THEN Goto(a, "served", target[a]) ELSE Goto(a, "refused", None)
  /\ UNCHANGED <<startGen, table, kill, work>>

Attempt(a) ==
  \/ firstRequestSession(a)
  \/ awaitEstablished(a, "await", "check")
  \/ creationGates(a)
  \/ tryReserveSessionSlot(a)
  \/ OpenUpstream(a)
  \/ registerSession(a)
  \/ runDriftCheckOrTeardown(a)
  \/ DropDrifted(a)
  \/ finishEstablishing(a)
  \/ ReclaimIfKilled(a)
  \/ releaseSessionSlot(a)
  \/ createFirstRequestSession(a)
  \/ awaitEstablished(a, "awaitAdopted", "refused")
  \/ ResolveSession(a)
  \/ awaitServableWorker(a)
-----------------------------------------------------------------------------
(* Kills, the sweeper and the reaper. *)

attempt == <<derived, maxSessions, pc, target, startGen>>

\* What a kill adds to the kill switch: a scope already there is no news.
Gained(scope) == {scope} \ killed

\* A kill is committed to this process's kill switch under its lock, by its own
\* handler (which goes on to tear down) or for another process ...
KillSession(scope) ==
  /\ kills < MaxKills /\ killer = None
  /\ killed' = killed \cup {scope} /\ kills' = kills + 1
  /\ unannounced' = unannounced \cup Gained(scope)
  /\ killer' \in {scope, None}
  /\ UNCHANGED <<attempt, table, work, revoked, sweep>>

\* ... and its observer called outside it: onRevocation fills the one-slot signal.
notify(scope) ==
  /\ scope \in unannounced
  /\ unannounced' = unannounced \ {scope} /\ revoked' = TRUE
  /\ UNCHANGED <<attempt, table, work, killed, kills, killer, sweep>>

ReviveSession(scope) ==
  /\ scope \in killed
  /\ killed' = killed \ {scope}
  /\ UNCHANGED <<attempt, table, work, kills, unannounced, killer, revoked, sweep>>

\* The kill handler tears down when KillSession has returned.
handleKill == killer # None /\ killer \notin unannounced

\* Every registered worker leaves the table and is closed.
drainAllSessions ==
  /\ sessions' = [k \in Keys |-> None]
  /\ closing' = closing \cup Running(Workers)
  /\ UNCHANGED <<establishing, initing, life, vetted, exposed>>

teardownAllSessionsForGlobalKill ==
  /\ handleKill /\ killer = Global
  /\ drainAllSessions
  /\ reapGen' = reapGen + 1
  /\ killer' = None
  /\ UNCHANGED <<attempt, stopping, killed, kills, unannounced, revoked, sweep>>

Remove(k) ==
  /\ sessions' = [sessions EXCEPT ![k] = None]
  /\ closing' = closing \cup Running({sessions[k]} \ {None})
  /\ UNCHANGED <<attempt, establishing, reapGen, stopping, initing, life, vetted, exposed>>

teardownSessionByID ==
  /\ handleKill /\ killer \in Keys
  /\ Remove(killer)
  /\ killer' = None
  /\ UNCHANGED <<killed, kills, unannounced, revoked, sweep>>

\* reclaimOnRevocation takes the signal, then sweepKilledSessions its snapshot.
reclaimOnRevocation ==
  /\ revoked /\ sweep = {} /\ stopping = "no"
  /\ revoked' = FALSE /\ sweep' = Workers
  /\ UNCHANGED <<attempt, table, work, killed, kills, unannounced, killer>>

\* reclaimKilledSession asks again before it closes; a kill revived in between is
\* one the sweep never saw.
sweepKilledSessions(a) ==
  /\ a \in sweep
  /\ sweep' = sweep \ {a}
  /\ closing' = IF a \notin initing /\ sessionKilled(a) THEN closing \cup Running({a}) ELSE closing
  /\ UNCHANGED <<attempt, table, killed, kills, unannounced, killer, revoked, initing, life, vetted, exposed>>

\* reapOnce closes what is idle when it looks and idle when it looks again, and what a
\* kill names; how idle a worker is is up to its traffic.  A worker in its
\* establishing window is spared.
reapOnce(a) ==
  /\ a \in Running(Workers) \ (initing \cup closing) /\ stopping = "no"
  /\ closing' = closing \cup {a}
  /\ UNCHANGED <<attempt, table, kill, initing, life, vetted, exposed>>
-----------------------------------------------------------------------------
(* The end of a worker. *)

handleMCPDelete(k) ==
  /\ sessions[k] # None /\ stopping = "no"
  /\ Remove(k)
  /\ UNCHANGED kill

Live(a, from, to) ==
  /\ life[a] = from
  /\ life' = [life EXCEPT ![a] = to]
  /\ closing' = closing \ {a}
  /\ UNCHANGED <<attempt, establishing, reapGen, stopping, kill, initing, vetted>>

\* close() has ended the upstream, or it ends by itself.
UpstreamEnds(a) == Live(a, "live", "gone") /\ UNCHANGED <<sessions, exposed>>

\* The cleanup goroutine gives the id up first ...
unregisterSession(a) ==
  /\ Live(a, "gone", IF Registered(a) \/ sessions[KeyOf(a)] = None THEN "drain" ELSE "over")
  /\ Unregister(a)
  /\ UNCHANGED exposed

\* mutant of NoSuccessor
NoSuccessorAssumed(a) == TRUE

NoSuccessor(a) == sessions[KeyOf(a)] = None

\* ... waits for its own requests, asks again whether the id has a new owner ...
RecheckOwner(a) ==
  /\ Live(a, "drain", IF NoSuccessor(a) THEN "release" ELSE "over")
  /\ UNCHANGED <<sessions, exposed>>

\* Whether another release of the same id's state is under way.
ReleasedElsewhere(a) == \E c \in Attempts \ {a} : life[c] = "release" /\ KeyOf(c) = KeyOf(a)

\* ... and clears the flow labels and the surface baseline the id names.
releaseSessionIDState(a) ==
  /\ Live(a, "release", "over")
  /\ exposed' = IF ReleasedElsewhere(a) THEN exposed
                ELSE exposed \ {b \in Attempts : KeyOf(b) = KeyOf(a)}
  /\ UNCHANGED sessions

\* Serve returns: the sweeper and the reaper stop, the listener drains for a
\* bounded time, and what is left is closed.
ServeEnds ==
  /\ stopping = "no"
  /\ stopping' = "draining"
  /\ UNCHANGED <<attempt, sessions, establishing, reapGen, kill, work>>

closeAllSessions ==
  /\ stopping = "draining"
  /\ stopping' = "yes"
  /\ drainAllSessions
  /\ UNCHANGED <<attempt, reapGen, kill>>

Finished ==
  /\ stopping = "yes" /\ \A a \in Attempts : pc[a] \in Answered \cup {"new"}
  /\ UNCHANGED vars

Next ==
  \/ \E a \in Attempts : Arrive(a) \/ Attempt(a) \/ waiterGone(a)
  \/ \E scope \in Scopes : KillSession(scope) \/ notify(scope) \/ ReviveSession(scope)
  \/ teardownAllSessionsForGlobalKill
  \/ teardownSessionByID
  \/ reclaimOnRevocation
  \/ \E a \in Attempts : sweepKilledSessions(a)
  \/ \E a \in Attempts : reapOnce(a)
  \/ \E k \in Keys : handleMCPDelete(k)
  \/ \E a \in Attempts : UpstreamEnds(a) \/ unregisterSession(a) \/ RecheckOwner(a)
                         \/ releaseSessionIDState(a)
  \/ ServeEnds
  \/ closeAllSessions
  \/ Finished

Spec == Init /\ [][Next]_vars
-----------------------------------------------------------------------------
(* Properties. *)

\* The limit counts workers still coming up: the workers registered and the attempts that
\* hold a reservation never exceed --max-sessions together, and the counter
\* tryReserveSessionSlot reads is the number of reservations held.
CapCoversStarting ==
  /\ establishing = Cardinality(Reserving)
  /\ Cardinality(Workers \cup Reserving) <= maxSessions

\* No message runs on a worker that has not passed the drift check, whichever of
\* the three ways (own creation, lookup, adoption) led to it.
ServedOnVettedWorker == \A a \in Attempts : pc[a] = "served" => target[a] \in vetted

\* A global kill fences creations that began before it: what is registered began in
\* the current generation.  And a worker past its establishing window that a kill
\* names is being closed, or somebody is still going to look at it.
KillReachesEveryWorker ==
  /\ \A b \in Workers : startGen[b] = reapGen
  /\ \A b \in Running(Workers) \ closing :
       sessionKilled(b) => \/ pc[b] \in {"drift", "settle", "confirm"}
                           \/ unannounced # {} \/ revoked \/ b \in sweep
                           \/ stopping # "no"

\* The labels and pins of a live session are released under it only in the one
\* window the code accepts: it registered while the release call was running.
ReleaseSparesSuccessors ==
  \A a \in Attempts : life[a] = "release" => sessions[KeyOf(a)] \in exposed \cup {None}

\* Whoever waits for a worker waits for a creator that is still on its way to
\* finishEstablishing, whatever became of the upstream: no wait is for ever.
WaitsEnd == \A b \in initing : pc[b] \in {"open", "register", "drift", "unregister", "settle"}

\* After shutdown no upstream is left to run: a registered one is being closed, one
\* that was coming up has still to be refused by registerSession.
ShutdownEndsUpstreams ==
  stopping = "yes" => \A a \in Attempts : /\ life[a] = "live" => a \in closing
                                          /\ life[a] = "open" => pc[a] = "register"

\* A message runs only on a worker that passed the drift check, and a worker a kill names
\* is reached wherever it stands (runDriftCheckOrTeardown, sweepKilledSessions).
OnlyFitWorkersServe == ServedOnVettedWorker /\ KillReachesEveryWorker

\* Nobody is stranded: a wait is for a creator on its way, and shutdown leaves no upstream
\* behind (finishEstablishing, closeAllSessions).
NobodyIsStranded == WaitsEnd /\ ShutdownEndsUpstreams
=============================================================================
