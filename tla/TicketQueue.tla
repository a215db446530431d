----------------------------- MODULE TicketQueue ------------------------------
(***************************************************************************)
(* The stdio transport's decision turn (internal/transport/serialize.go,   *)
(* keyed_registry.go): one FIFO of tickets per state anchor.  The single   *)
(* reader takes a host request's ticket as it arrives; the request's own   *)
(* goroutine waits for that ticket, decides, and advances the turn.  A     *)
(* server-initiated (sampling) request waits with a bound and, when it     *)
(* gives up, abandons its ticket for the turn to skip.  A queue without    *)
(* pins is dropped from the registry once it has served all its tickets,   *)
(* and the next ticket on the anchor builds a new one.                     *)
(*                                                                         *)
(* Every step below runs under the registry's mutex, except TimerArmed.    *)
(***************************************************************************)
EXTENDS Integers, FiniteSets

CONSTANTS
  Anchors,
  Requests,    \* requests that take a ticket; each passes through once
  Sampling,    \* the server-initiated ones, which wait with a bound
  AnchorOf,    \* the anchor a request resolves to
  MaxQueues,   \* bound: queues built during a behaviour
  MaxPins      \* bound: pins taken during a behaviour

ASSUME TicketAssumption ==
  /\ Sampling \subseteq Requests
  /\ AnchorOf \in [Requests -> Anchors] /\ Anchors # {}
  /\ MaxQueues \in Nat /\ MaxPins \in Nat

VARIABLES
  registry,    \* per anchor: the queue filed under it, or NoQueue
  built,       \* queues built so far; a queue is the number it was built with
  refs,        \* per queue: its pins
  handed,      \* per queue: the next ticket to hand out
  serving,     \* per queue: the ticket allowed to decide
  abandoned,   \* per queue: the tickets the turn must skip
  key,         \* per queue: the anchor it was filed under
  pinned,      \* pins taken so far
  pc,          \* per request: how far it is
  queue,       \* per request: the queue of its ticket
  ticket,      \* per request: its ticket number
  asleep,      \* requests blocked in cond.Wait
  armed,       \* sampling requests whose timer runs
  expired,     \* sampling requests whose window has run out
  holder       \* per request: the ticket served when its window opened

registryVars == <<registry, built, refs, key, pinned>>
queueVars == <<handed, serving, abandoned>>
waitVars == <<asleep, armed, expired, holder>>
ticketVars == <<queue, ticket>>
vars == <<registry, built, refs, handed, serving, abandoned, key, pinned, pc, queue, ticket,
          asleep, armed, expired, holder>>

NoQueue == 0
Queues == 1..MaxQueues

Init ==
  /\ registry = [a \in Anchors |-> NoQueue]
  /\ built = 0
  /\ refs = [q \in Queues |-> 0]
  /\ handed = [q \in Queues |-> 0]
  /\ serving = [q \in Queues |-> 0]
  /\ abandoned = [q \in Queues |-> {}]
  /\ key = [q \in Queues |-> CHOOSE a \in Anchors : TRUE]
  /\ pinned = 0
  /\ pc = [r \in Requests |-> "new"]
  /\ queue = [r \in Requests |-> NoQueue]
  /\ ticket = [r \in Requests |-> 0]
  /\ asleep = {} /\ armed = {} /\ expired = {}
  /\ holder = [r \in Requests |-> 0]

-------------------------------------------------------------------------------
(* keyedRegistry *)

\* q is the queue filed under a, built and filed now if there is none.
entryLocked(a, q) ==
  \/ /\ registry[a] # NoQueue
     /\ q = registry[a]
     /\ UNCHANGED <<registry, built, key>>
  \/ /\ registry[a] = NoQueue
     /\ q = built + 1
     /\ built' = q
     /\ registry' = [registry EXCEPT ![a] = q]
     /\ key' = [key EXCEPT ![q] = a]

\* Mutants: a queue leaves with tickets outstanding; a pin is dropped again by
\* a backstop; a woken waiter does not re-check its turn; the turn stops at an
\* abandoned ticket; the turn moves without a broadcast.
ReclaimableUnserved(q, n, served) == n = 0

\* Whether q may leave the registry, with its pins and its turn as given.
Reclaimable(q, n, served) == n = 0 /\ handed[q] = served

\* reapLocked: the registry without q, if q may leave it and is still filed.
Reaped(q, n, served) ==
  IF Reclaimable(q, n, served) /\ registry[key[q]] = q
    THEN [registry EXCEPT ![key[q]] = NoQueue]
    ELSE registry

\* A caller pins the anchor's queue, as Start does for the proxy's life.
Hold(a) ==
  /\ pinned < MaxPins
  /\ \E q \in Queues :
       /\ entryLocked(a, q)
       /\ refs' = [refs EXCEPT ![q] = @ + 1]
  /\ pinned' = pinned + 1
  /\ UNCHANGED <<queueVars, pc, ticketVars, waitVars>>

\* The func Hold returned; idempotent, so it counts once per pin.
Drop(q) ==
  /\ refs[q] > 0
  /\ refs' = [refs EXCEPT ![q] = @ - 1]
  /\ registry' = Reaped(q, refs[q] - 1, serving[q])
  /\ UNCHANGED <<built, key, pinned, queueVars, pc, ticketVars, waitVars>>

-------------------------------------------------------------------------------
(* Tickets *)

\* The queue of r's ticket: the anchor's (take), or one the caller has pinned,
\* without asking the registry (takeOn).
TicketQueueOf(r, q) ==
  \/ entryLocked(AnchorOf[r], q)
  \/ /\ refs[q] > 0 /\ key[q] = AnchorOf[r]
     /\ UNCHANGED <<registry, built, key>>

Take(r) ==
  /\ pc[r] = "new"
  /\ \E q \in Queues :
       /\ TicketQueueOf(r, q)
       /\ queue' = [queue EXCEPT ![r] = q]
       /\ ticket' = [ticket EXCEPT ![r] = handed[q]]
       /\ handed' = [handed EXCEPT ![q] = @ + 1]
  /\ pc' = [pc EXCEPT ![r] = "ticketed"]
  /\ UNCHANGED <<refs, pinned, serving, abandoned, waitVars>>

\* beginWithin arms the timer before it takes the lock.
TimerArmed(r) ==
  /\ pc[r] = "ticketed" /\ r \in Sampling
  /\ pc' = [pc EXCEPT ![r] = "entering"]
  /\ armed' = armed \cup {r}
  /\ UNCHANGED <<registryVars, queueVars, ticketVars, asleep, expired, holder>>

Broadcast(q) == asleep' = {w \in asleep : queue[w] # q}

\* The timer's callback.
TimerFires(r) ==
  /\ r \in armed
  /\ armed' = armed \ {r}
  /\ expired' = expired \cup {r}
  /\ Broadcast(queue[r])
  /\ UNCHANGED <<registryVars, queueVars, pc, ticketVars, holder>>

MyTurnUnchecked(r) == pc[r] = "waiting" \/ serving[queue[r]] = ticket[r]

MyTurn(r) == serving[queue[r]] = ticket[r]

\* The request's turn has come; its timer is stopped.
Granted(r) ==
  /\ MyTurn(r)
  /\ pc' = [pc EXCEPT ![r] = "deciding"]
  /\ armed' = armed \ {r}
  /\ expired' = expired \ {r}
  /\ asleep' = asleep \ {r}
  /\ UNCHANGED <<queueVars, holder>>

\* abandonLocked: the request will not begin its ticket.
Abandon(r) ==
  /\ abandoned' = [abandoned EXCEPT ![queue[r]] = @ \cup {ticket[r]}]
  /\ pc' = [pc EXCEPT ![r] = "refused"]
  /\ armed' = armed \ {r}
  /\ expired' = expired \ {r}
  /\ asleep' = asleep \ {r}
  /\ UNCHANGED <<handed, serving, holder>>

Sleep(r) ==
  /\ asleep' = asleep \cup {r}
  /\ pc' = [pc EXCEPT ![r] = "waiting"]
  /\ UNCHANGED queueVars

\* A waiter whose window ran out.  It gives up on a holder that kept the turn
\* for the whole window, or at the ceiling; else it waits for the new holder.
WindowOver(r, seen, ceiling) ==
  \/ /\ serving[queue[r]] = seen \/ ceiling
     /\ Abandon(r)
  \/ /\ serving[queue[r]] # seen /\ ~ceiling
     /\ holder' = [holder EXCEPT ![r] = serving[queue[r]]]
     /\ expired' = expired \ {r}
     /\ armed' = armed \cup {r}
     /\ Sleep(r)

\* beginWithin enters its loop.  A host request waits without a bound.
Begin(r) ==
  /\ pc[r] = (IF r \in Sampling THEN "entering" ELSE "ticketed")
  /\ \/ Granted(r)
     \/ /\ ~MyTurn(r) /\ r \in expired
        /\ \E ceiling \in BOOLEAN : WindowOver(r, serving[queue[r]], ceiling)
     \/ /\ ~MyTurn(r) /\ r \notin expired
        /\ holder' = [holder EXCEPT ![r] = serving[queue[r]]]
        /\ Sleep(r)
        /\ UNCHANGED <<armed, expired>>
  /\ UNCHANGED <<registryVars, ticketVars>>

\* A waiter woken by a broadcast runs its loop again.
Wake(r) ==
  /\ pc[r] = "waiting" /\ r \notin asleep
  /\ \/ Granted(r)
     \/ /\ ~MyTurn(r) /\ r \in expired
        /\ \E ceiling \in BOOLEAN : WindowOver(r, holder[r], ceiling)
     \/ /\ ~MyTurn(r) /\ r \notin expired
        /\ Sleep(r)
        /\ UNCHANGED <<armed, expired, holder>>
  /\ UNCHANGED <<registryVars, ticketVars>>

\* The first ticket after the one served that still has a waiter.
IsNextServed(q, n) ==
  /\ n > serving[q] /\ n \notin abandoned[q]
  /\ \A k \in serving[q] + 1 .. n - 1 : k \in abandoned[q]

\* advanceLocked: step over the abandoned tickets and forget them.
advanceLocked(q, n) ==
  /\ IsNextServed(q, n)
  /\ serving' = [serving EXCEPT ![q] = n]
  /\ abandoned' = [abandoned EXCEPT ![q] = {k \in @ : k > n}]

AdvanceTurnQuietly(r) ==
  LET q == queue[r]
  IN  \E n \in serving[q] + 1 .. handed[q] :
        /\ advanceLocked(q, n)
        /\ registry' = Reaped(q, refs[q], n)
        /\ UNCHANGED asleep

AdvanceTurn(r) ==
  LET q == queue[r]
  IN  \E n \in serving[q] + 1 .. handed[q] :
        /\ advanceLocked(q, n)
        /\ registry' = Reaped(q, refs[q], n)
        /\ Broadcast(q)

\* The end func, called right after the decision and before the forward.
End(r) ==
  /\ pc[r] = "deciding"
  /\ pc' = [pc EXCEPT ![r] = "forwarding"]
  /\ AdvanceTurn(r)
  /\ UNCHANGED <<built, refs, key, pinned, handed, ticketVars, armed, expired, holder>>

\* The handler returns and calls the same end func as a backstop: sync.OnceFunc
\* makes it do nothing.
Return(r) ==
  /\ pc[r] = "forwarding"
  /\ pc' = [pc EXCEPT ![r] = "done"]
  /\ UNCHANGED <<registryVars, queueVars, ticketVars, waitVars>>

-------------------------------------------------------------------------------
Step(r) == \/ Take(r) \/ TimerArmed(r) \/ TimerFires(r) \/ Begin(r) \/ Wake(r) \/ End(r) \/ Return(r)

\* All requests have passed; the pins may stay.
Finished ==
  /\ \A r \in Requests : pc[r] \in {"done", "refused"}
  /\ UNCHANGED vars

Next ==
  \/ \E r \in Requests : Step(r)
  \/ \E a \in Anchors : Hold(a)
  \/ \E q \in Queues : Drop(q)
  \/ Finished

Spec == Init /\ [][Next]_vars

\* A goroutine that can run does, a timer fires, a decision ends: it makes
\* only backend calls that carry their own timeouts.
Fairness ==
  \A r \in Requests :
    /\ WF_vars(TimerArmed(r)) /\ WF_vars(TimerFires(r))
    /\ WF_vars(Begin(r)) /\ WF_vars(Wake(r)) /\ WF_vars(End(r))

FairSpec == Spec /\ Fairness

-------------------------------------------------------------------------------
(* Properties *)

Waiting == {"ticketed", "entering", "waiting"}
Outstanding == Waiting \cup {"deciding"}

TypeOK ==
  /\ registry \in [Anchors -> Queues \cup {NoQueue}]
  /\ built \in 0..MaxQueues
  /\ key \in [Queues -> Anchors]
  /\ refs \in [Queues -> Nat]
  /\ pinned \in Nat
  /\ handed \in [Queues -> Nat]
  /\ serving \in [Queues -> Nat]
  /\ abandoned \in [Queues -> SUBSET Nat]
  /\ pc \in [Requests -> {"new", "forwarding", "done", "refused"} \cup Outstanding]
  /\ queue \in [Requests -> Queues \cup {NoQueue}]
  /\ ticket \in [Requests -> Nat]
  /\ holder \in [Requests -> Nat]
  /\ asleep \subseteq Requests /\ armed \subseteq Sampling /\ expired \subseteq Sampling

\* One decision at a time per anchor, although the queue of an anchor is
\* dropped and rebuilt, tickets are abandoned, and pins come and go.
Turn == INSTANCE DecisionTurn WITH
          inTurn <- [a \in Anchors |-> {r \in Requests : pc[r] = "deciding" /\ AnchorOf[r] = a}]
ImplementsTurn == Turn!DSpec

Before(s, r) ==
  \/ queue[s] < queue[r]
  \/ queue[s] = queue[r] /\ ticket[s] < ticket[r]

\* Decisions run in the order in which the reader received the requests: one
\* that decides leaves none behind that came earlier on its anchor.
ReceiptOrder ==
  \A r, s \in Requests :
    /\ pc[r] = "deciding" /\ AnchorOf[s] = AnchorOf[r]
    /\ pc[s] \in Outstanding /\ s # r
    => Before(r, s)

\* The ticket being served always belongs to a request that will use it: no
\* abandoned ticket is a hole later requests wait behind.
NoHole ==
  \A q \in Queues : serving[q] < handed[q] =>
    \E r \in Requests : queue[r] = q /\ ticket[r] = serving[q] /\ pc[r] \in Outstanding

\* Decisions follow the order of receipt and no abandoned ticket stops the queue
\* (serialize.go: advanceLocked).
OrderWithoutHoles == ReceiptOrder /\ NoHole

\* Every host request with a ticket decides, however many bounded waiters gave up
\* before it, and every bounded waiter decides or is refused: a request passes
\* through once, so in the end nobody with a ticket waits and no host was refused.
EveryTicketAnswered ==
  <>[]\A r \in Requests : /\ pc[r] \notin {"ticketed", "entering", "waiting"}
                          /\ pc[r] = "refused" => r \in Sampling

===============================================================================
