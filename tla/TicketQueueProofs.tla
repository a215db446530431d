-------------------------- MODULE TicketQueueProofs ---------------------------
(***************************************************************************)
(* The stdio decision turn for any number of anchors, requests, queues and *)
(* pins: the state stays well-typed, no ticket becomes a hole, and the     *)
(* decisions on an anchor exclude each other.                              *)
(*                                                                         *)
(* Mutual exclusion is not inductive by itself.  It rests on the fact that *)
(* every outstanding ticket of an anchor is on the one queue filed under   *)
(* it (Filed), which in turn needs that a queue with tickets to serve has  *)
(* an owner for each of them or has marked it abandoned (Covered).         *)
(*                                                                         *)
(* Then the life of the proxy those turns are taken in, for any manifest,  *)
(* any listing and any upstream: what is served was vetted, and teardown   *)
(* is complete.                                                            *)
(***************************************************************************)
EXTENDS TicketQueue, StdioLifecycle, TLAPS

\* A request with a ticket to use holds it on the queue of its anchor.
Filed ==
  \A r \in Requests : pc[r] \in Outstanding =>
    /\ queue[r] \in Queues
    /\ registry[AnchorOf[r]] = queue[r]
    /\ key[queue[r]] = AnchorOf[r]

\* A pinned queue is the one filed under its key.
PinsFiled == \A q \in Queues : refs[q] > 0 => registry[key[q]] = q

\* What is filed was built, under the key it is filed by.
KeysMatch ==
  \A a \in Anchors : registry[a] # NoQueue => key[registry[a]] = a /\ registry[a] <= built

\* A queue not built yet has no history.
QueuesAreFresh ==
  \A q \in Queues : q > built =>
    handed[q] = 0 /\ serving[q] = 0 /\ abandoned[q] = {} /\ refs[q] = 0

\* An outstanding ticket is still ahead of the turn, or has it.
InRange ==
  \A r \in Requests : pc[r] \in Outstanding =>
    /\ serving[queue[r]] <= ticket[r] /\ ticket[r] < handed[queue[r]]
    /\ ticket[r] \notin abandoned[queue[r]]
    /\ pc[r] = "deciding" => ticket[r] = serving[queue[r]]

\* No two outstanding requests share a ticket.
Unique ==
  \A r, s \in Requests :
    pc[r] \in Outstanding /\ pc[s] \in Outstanding /\ queue[r] = queue[s] /\ ticket[r] = ticket[s]
    => r = s

\* The turn never passes what was handed out, and skips only what lies ahead.
AbandonedAhead ==
  \A q \in Queues :
    /\ serving[q] <= handed[q]
    /\ \A n \in abandoned[q] : serving[q] < n /\ n < handed[q]

\* Every ticket from the one served on is abandoned or has its request.
Covered ==
  \A q \in Queues : \A n \in serving[q] .. handed[q] - 1 :
    \/ n \in abandoned[q]
    \/ \E r \in Requests : pc[r] \in Outstanding /\ queue[r] = q /\ ticket[r] = n

IInv ==
  /\ TypeOK /\ Filed /\ PinsFiled /\ KeysMatch /\ QueuesAreFresh
  /\ InRange /\ Unique /\ AbandonedAhead /\ Covered

-------------------------------------------------------------------------------
\* The initial state satisfies the inductive invariant.
LEMMA InitIInv == Init => IInv
  <1> SUFFICES ASSUME Init PROVE IInv
    OBVIOUS
  <1>1. TypeOK
    <2>1. key \in [Queues -> Anchors]
      BY TicketAssumption DEF Init
    <2>2. QED
      BY <2>1, TicketAssumption DEF Init, TypeOK, NoQueue, Queues
  <1>2. QED
    BY <1>1, TicketAssumption
       DEF Init, IInv, Filed, PinsFiled, KeysMatch, QueuesAreFresh, InRange, Unique, AbandonedAhead, Covered,
           Outstanding, Waiting, NoQueue, Queues

\* A step that leaves queues and tickets alone, and lets a request decide only
\* when its ticket is the one served, preserves the invariant.
LEMMA QuietPreserves ==
  ASSUME IInv, TypeOK', UNCHANGED <<registryVars, queueVars, ticketVars>>,
         \A r \in Requests : pc'[r] \in Outstanding <=> pc[r] \in Outstanding,
         \A r \in Requests : pc'[r] = "deciding" => pc[r] = "deciding" \/ MyTurn(r)
  PROVE  IInv'
  <1> USE DEF registryVars, queueVars, ticketVars
  <1>1. Filed' BY DEF IInv, Filed
  <1>2. PinsFiled' /\ KeysMatch' /\ QueuesAreFresh' /\ AbandonedAhead'
    BY DEF IInv, PinsFiled, KeysMatch, QueuesAreFresh, AbandonedAhead
  <1>3. InRange' BY DEF IInv, InRange, MyTurn
  <1>4. Unique' BY DEF IInv, Unique
  <1>5. Covered' BY DEF IInv, Covered
  <1>6. QED BY <1>1, <1>2, <1>3, <1>4, <1>5 DEF IInv

\* The steps of a waiter that neither get nor give up the turn.
LEMMA WaiterPreserves ==
  ASSUME IInv, NEW r \in Requests,
         TimerArmed(r) \/ TimerFires(r) \/ Return(r)
  PROVE  IInv'
  <1> USE DEF IInv
  <1>1. TypeOK'
    BY DEF TypeOK, TimerArmed, TimerFires, Return, Broadcast, registryVars, queueVars, ticketVars,
           waitVars, Outstanding, Waiting
  <1>2. UNCHANGED <<registryVars, queueVars, ticketVars>>
    BY DEF TimerArmed, TimerFires, Return
  <1>3. /\ \A s \in Requests : pc'[s] \in Outstanding <=> pc[s] \in Outstanding
        /\ \A s \in Requests : pc'[s] = "deciding" => pc[s] = "deciding"
    BY DEF TypeOK, TimerArmed, TimerFires, Return, Outstanding, Waiting
  <1>4. QED BY <1>1, <1>2, <1>3, QuietPreserves

\* A request that goes to sleep keeps its ticket.
LEMMA SleepPreserves ==
  ASSUME IInv, NEW r \in Requests, pc[r] \in Waiting, Sleep(r),
         UNCHANGED <<registryVars, ticketVars>>,
         armed' \subseteq Sampling, expired' \subseteq Sampling, holder' \in [Requests -> Nat]
  PROVE  IInv'
  <1> USE DEF IInv
  <1>1. TypeOK'
    BY DEF TypeOK, Sleep, registryVars, queueVars, ticketVars, Outstanding, Waiting
  <1>2. /\ \A s \in Requests : pc'[s] \in Outstanding <=> pc[s] \in Outstanding
        /\ \A s \in Requests : pc'[s] = "deciding" => pc[s] = "deciding"
    BY DEF TypeOK, Sleep, Outstanding, Waiting
  <1>3. QED BY <1>1, <1>2, QuietPreserves DEF Sleep

\* The turn is granted to the request whose ticket is served.
LEMMA GrantedPreserves ==
  ASSUME IInv, NEW r \in Requests, pc[r] \in Waiting, Granted(r),
         UNCHANGED <<registryVars, ticketVars>>
  PROVE  IInv'
  <1> USE DEF IInv
  <1>1. TypeOK'
    BY DEF TypeOK, Granted, registryVars, queueVars, ticketVars, Outstanding, Waiting
  <1>2. /\ \A s \in Requests : pc'[s] \in Outstanding <=> pc[s] \in Outstanding
        /\ \A s \in Requests : pc'[s] = "deciding" => pc[s] = "deciding" \/ MyTurn(s)
    BY DEF TypeOK, Granted, Outstanding, Waiting
  <1>3. QED BY <1>1, <1>2, QuietPreserves DEF Granted

\* An abandoned ticket is ahead of the turn and marked.
LEMMA AbandonPreserves ==
  ASSUME IInv, NEW r \in Requests, pc[r] \in Waiting, ~MyTurn(r), Abandon(r),
         UNCHANGED <<registryVars, ticketVars>>
  PROVE  IInv'
  <1> USE DEF IInv, registryVars, ticketVars
  <1> DEFINE q == queue[r]
  <1>0. /\ q \in Queues /\ pc[r] \in Outstanding
        /\ serving[q] < ticket[r] /\ ticket[r] < handed[q]
        /\ ticket[r] \in Nat /\ serving[q] \in Nat
    BY DEF TypeOK, Filed, InRange, MyTurn, Outstanding
  <1>1. TypeOK'
    BY <1>0 DEF TypeOK, Abandon, Outstanding, Waiting
  <1>2. \A s \in Requests : pc'[s] \in Outstanding <=> pc[s] \in Outstanding /\ s # r
    BY DEF TypeOK, Abandon, Outstanding, Waiting
  <1>3. \A s \in Requests : s # r => pc'[s] = pc[s]
    BY DEF TypeOK, Abandon
  <1>4. \A p \in Queues : abandoned'[p] = IF p = q THEN abandoned[p] \cup {ticket[r]} ELSE abandoned[p]
    BY <1>0 DEF TypeOK, Abandon
  <1>5. Filed' BY <1>2 DEF Filed
  <1>6. PinsFiled' /\ KeysMatch' BY DEF PinsFiled, KeysMatch
  <1>7. QueuesAreFresh'
    BY <1>0, <1>4 DEF QueuesAreFresh, Abandon, TypeOK
  <1>8. InRange'
    <2> SUFFICES ASSUME NEW s \in Requests, pc'[s] \in Outstanding
                 PROVE  /\ serving'[queue'[s]] <= ticket'[s] /\ ticket'[s] < handed'[queue'[s]]
                        /\ ticket'[s] \notin abandoned'[queue'[s]]
                        /\ pc'[s] = "deciding" => ticket'[s] = serving'[queue'[s]]
      BY DEF InRange
    <2>1. s # r /\ pc[s] \in Outstanding /\ queue[s] \in Queues
      BY <1>2 DEF Filed
    <2>2. queue[s] = q => ticket[s] # ticket[r]
      BY <2>1, <1>0 DEF Unique
    <2>3. QED BY <2>1, <2>2, <1>3, <1>4 DEF InRange, Abandon
  <1>9. Unique' BY <1>2 DEF Unique
  <1>10. AbandonedAhead'
    BY <1>0, <1>4 DEF AbandonedAhead, Abandon
  <1>11. Covered'
    <2> SUFFICES ASSUME NEW p \in Queues, NEW n \in serving[p] .. handed[p] - 1,
                        n \notin abandoned'[p]
                 PROVE  \E s \in Requests : pc'[s] \in Outstanding /\ queue[s] = p /\ ticket[s] = n
      BY DEF Covered, Abandon
    <2>1. n \notin abandoned[p]
      BY <1>4
    <2>2. PICK s \in Requests : pc[s] \in Outstanding /\ queue[s] = p /\ ticket[s] = n
      BY <2>1 DEF Covered
    <2>3. s # r
      BY <2>2, <1>4, <1>0
    <2>4. QED BY <2>2, <2>3, <1>2
  <1>12. QED BY <1>1, <1>5, <1>6, <1>7, <1>8, <1>9, <1>10, <1>11

\* What a waiter does when its window is over.
LEMMA WindowOverPreserves ==
  ASSUME IInv, NEW r \in Sampling, pc[r] \in Waiting, ~MyTurn(r),
         NEW seen, NEW ceiling \in BOOLEAN, WindowOver(r, seen, ceiling),
         UNCHANGED <<registryVars, ticketVars>>
  PROVE  IInv'
  <1>0. r \in Requests BY TicketAssumption
  <1>1. CASE Abandon(r)
    BY <1>0, <1>1, AbandonPreserves
  <1>2. CASE /\ holder' = [holder EXCEPT ![r] = serving[queue[r]]]
             /\ expired' = expired \ {r}
             /\ armed' = armed \cup {r}
             /\ Sleep(r)
    <2>1. queue[r] \in Queues
      BY <1>0 DEF IInv, Filed, Outstanding
    <2>2. QED
      BY <1>0, <1>2, <2>1, SleepPreserves DEF IInv, TypeOK
  <1>3. QED BY <1>1, <1>2 DEF WindowOver

\* Entering the wait, and waking up in it.
LEMMA BeginPreserves ==
  ASSUME IInv, NEW r \in Requests, Begin(r) \/ Wake(r)
  PROVE  IInv'
  <1>0. /\ pc[r] \in Waiting /\ queue[r] \in Queues
        /\ UNCHANGED <<registryVars, ticketVars>>
    BY DEF IInv, Filed, Outstanding, Waiting, Begin, Wake
  <1>1. CASE Granted(r)
    BY <1>0, <1>1, GrantedPreserves
  <1>2. CASE ~MyTurn(r) /\ r \in expired /\ \E ceiling \in BOOLEAN :
               WindowOver(r, serving[queue[r]], ceiling) \/ WindowOver(r, holder[r], ceiling)
    <2>1. r \in Sampling
      BY <1>2 DEF IInv, TypeOK
    <2>2. QED BY <1>0, <1>2, <2>1, WindowOverPreserves
  <1>3. CASE /\ Sleep(r) /\ UNCHANGED <<armed, expired>>
             /\ holder' \in {holder, [holder EXCEPT ![r] = serving[queue[r]]]}
    <2>1. /\ armed' \subseteq Sampling /\ expired' \subseteq Sampling
          /\ holder' \in [Requests -> Nat]
      BY <1>0, <1>3 DEF IInv, TypeOK
    <2>2. QED
      BY <1>0, <1>3, <2>1, SleepPreserves
  <1>4. QED BY <1>1, <1>2, <1>3 DEF Begin, Wake

-------------------------------------------------------------------------------
\* Looking up or filing the queue of an anchor: what was filed stays filed, and
\* the anchor's queue is q afterwards.
LEMMA EntryEffect ==
  ASSUME IInv, NEW a \in Anchors, NEW q \in Queues, entryLocked(a, q)
  PROVE  /\ registry' \in [Anchors -> Queues \cup {NoQueue}]
         /\ built' \in 0..MaxQueues /\ built <= built'
         /\ key' \in [Queues -> Anchors]
         /\ registry'[a] = q /\ key'[q] = a /\ q <= built'
         /\ \A b \in Anchors : b # a => registry'[b] = registry[b]
         /\ registry[a] # NoQueue => registry[a] = q
         /\ \A p \in Queues : p <= built => key'[p] = key[p]
         /\ \A p \in Queues : p <= built' => p <= built \/ p = q
  <1> USE DEF IInv, TypeOK
  <1>1. CASE registry[a] # NoQueue
    <2>1. q = registry[a] /\ UNCHANGED <<registry, built, key>>
      BY <1>1 DEF entryLocked
    <2>2. key[q] = a /\ q <= built /\ built \in 0..MaxQueues
      BY <1>1, <2>1 DEF KeysMatch
    <2>3. QED BY <1>1, <2>1, <2>2
  <1>2. CASE registry[a] = NoQueue
    <2>1. /\ q = built + 1 /\ built' = q
          /\ registry' = [registry EXCEPT ![a] = q]
          /\ key' = [key EXCEPT ![q] = a]
      BY <1>2 DEF entryLocked
    <2>2. /\ registry' \in [Anchors -> Queues \cup {NoQueue}] /\ key' \in [Queues -> Anchors]
          /\ built \in Nat /\ MaxQueues \in Nat
      BY <2>1, TicketAssumption
    <2>3. /\ registry'[a] = q /\ key'[q] = a
          /\ \A b \in Anchors : b # a => registry'[b] = registry[b]
          /\ \A p \in Queues : p # q => key'[p] = key[p]
      BY <2>1
    <2>4. QED BY <1>2, <2>1, <2>2, <2>3 DEF Queues
  <1>3. QED BY <1>1, <1>2

\* The registry after reapLocked: at most the queue of that key has left, and
\* then it had no pins and no tickets to serve.
LEMMA ReapedEffect ==
  ASSUME IInv, NEW q \in Queues, NEW n, NEW served, registry' = Reaped(q, n, served)
  PROVE  /\ registry' \in [Anchors -> Queues \cup {NoQueue}]
         /\ \A a \in Anchors :
              \/ registry'[a] = registry[a]
              \/ /\ registry'[a] = NoQueue /\ a = key[q] /\ registry[a] = q
                 /\ n = 0 /\ handed[q] = served
  BY DEF IInv, TypeOK, Reaped, Reclaimable, NoQueue

\* A ticket is handed out on the queue of the request's anchor.
LEMMA TakePreserves ==
  ASSUME IInv, NEW r \in Requests, Take(r)
  PROVE  IInv'
  <1> USE DEF IInv
  <1>0. AnchorOf[r] \in Anchors
    BY TicketAssumption
  <1>1. PICK q \in Queues : /\ TicketQueueOf(r, q)
                            /\ queue' = [queue EXCEPT ![r] = q]
                            /\ ticket' = [ticket EXCEPT ![r] = handed[q]]
                            /\ handed' = [handed EXCEPT ![q] = @ + 1]
    BY DEF Take
  <1>2. entryLocked(AnchorOf[r], q)
    <2>1. CASE /\ refs[q] > 0 /\ key[q] = AnchorOf[r]
               /\ UNCHANGED <<registry, built, key>>
      BY <2>1 DEF PinsFiled, entryLocked, NoQueue, Queues
    <2>2. QED BY <1>1, <2>1 DEF TicketQueueOf
  <1>3. /\ registry' \in [Anchors -> Queues \cup {NoQueue}]
        /\ built' \in 0..MaxQueues /\ built <= built'
        /\ key' \in [Queues -> Anchors]
        /\ registry'[AnchorOf[r]] = q /\ key'[q] = AnchorOf[r] /\ q <= built'
        /\ \A b \in Anchors : b # AnchorOf[r] => registry'[b] = registry[b]
        /\ registry[AnchorOf[r]] # NoQueue => registry[AnchorOf[r]] = q
        /\ \A p \in Queues : p <= built => key'[p] = key[p]
        /\ \A p \in Queues : p <= built' => p <= built \/ p = q
    BY <1>0, <1>2, EntryEffect
  <1>4. /\ pc[r] = "new" /\ pc' = [pc EXCEPT ![r] = "ticketed"]
        /\ UNCHANGED <<refs, pinned, serving, abandoned, waitVars>>
    BY DEF Take
  <1>5. TypeOK'
    <2>1. /\ handed' \in [Queues -> Nat] /\ ticket' \in [Requests -> Nat]
          /\ queue' \in [Requests -> Queues \cup {NoQueue}]
      BY <1>1 DEF TypeOK
    <2>2. pc' \in [Requests -> {"new", "forwarding", "done", "refused"} \cup Outstanding]
      BY <1>4 DEF TypeOK, Outstanding, Waiting
    <2>3. QED BY <1>3, <1>4, <2>1, <2>2 DEF TypeOK, waitVars
  <1>6. \A s \in Requests : s # r => pc'[s] = pc[s] /\ queue'[s] = queue[s] /\ ticket'[s] = ticket[s]
    BY <1>1, <1>4 DEF TypeOK
  <1>7. /\ pc'[r] = "ticketed" /\ queue'[r] = q /\ ticket'[r] = handed[q] /\ handed[q] \in Nat
        /\ \A p \in Queues : handed'[p] = IF p = q THEN handed[p] + 1 ELSE handed[p]
    BY <1>1, <1>4 DEF TypeOK
  <1>8. Filed'
    <2> SUFFICES ASSUME NEW s \in Requests, pc'[s] \in Outstanding, s # r
                 PROVE  /\ queue'[s] \in Queues
                        /\ registry'[AnchorOf[s]] = queue'[s]
                        /\ key'[queue'[s]] = AnchorOf[s]
      BY <1>3, <1>7 DEF Filed
    <2>1. /\ queue[s] \in Queues /\ registry[AnchorOf[s]] = queue[s]
          /\ key[queue[s]] = AnchorOf[s] /\ AnchorOf[s] \in Anchors
      BY <1>6, TicketAssumption DEF Filed
    <2>2. queue[s] # NoQueue /\ queue[s] <= built
      BY <2>1 DEF KeysMatch, NoQueue, Queues
    <2>3. QED BY <1>3, <1>6, <2>1, <2>2
  <1>9. PinsFiled'
    <2> SUFFICES ASSUME NEW p \in Queues, refs[p] > 0 PROVE registry'[key'[p]] = p
      BY <1>4 DEF PinsFiled
    <2>1. registry[key[p]] = p /\ key[p] \in Anchors /\ p # NoQueue
      BY DEF PinsFiled, TypeOK, NoQueue, Queues
    <2>2. p <= built
      BY <2>1 DEF KeysMatch
    <2>3. QED BY <1>3, <2>1, <2>2
  <1>10. KeysMatch'
    <2> SUFFICES ASSUME NEW b \in Anchors, registry'[b] # NoQueue, b # AnchorOf[r]
                 PROVE  key'[registry'[b]] = b /\ registry'[b] <= built'
      BY <1>3 DEF KeysMatch
    <2>1. registry'[b] = registry[b] /\ registry[b] \in Queues
      BY <1>3 DEF TypeOK
    <2>2. key[registry[b]] = b /\ registry[b] <= built
      BY <2>1 DEF KeysMatch
    <2>3. QED BY <1>3, <2>1, <2>2 DEF TypeOK, Queues
  <1>11. QueuesAreFresh'
    BY <1>3, <1>4, <1>7 DEF QueuesAreFresh, TypeOK, Queues
  <1>12. AbandonedAhead'
    BY <1>4, <1>7 DEF AbandonedAhead, TypeOK
  <1>13. InRange'
    <2> SUFFICES ASSUME NEW s \in Requests, pc'[s] \in Outstanding
                 PROVE  /\ serving'[queue'[s]] <= ticket'[s] /\ ticket'[s] < handed'[queue'[s]]
                        /\ ticket'[s] \notin abandoned'[queue'[s]]
                        /\ pc'[s] = "deciding" => ticket'[s] = serving'[queue'[s]]
      BY DEF InRange
    <2>1. CASE s = r
      BY <1>4, <1>7, <2>1 DEF AbandonedAhead, TypeOK
    <2>2. CASE s # r
      <3>1. pc[s] \in Outstanding /\ queue[s] \in Queues
        BY <1>6, <2>2 DEF Filed
      <3>2. QED BY <1>4, <1>6, <1>7, <2>2, <3>1 DEF InRange, TypeOK
    <2>3. QED BY <2>1, <2>2
  <1>14. Unique'
    <2>1. \A s \in Requests : s # r /\ pc'[s] \in Outstanding /\ queue'[s] = q => ticket'[s] # handed[q]
      BY <1>6 DEF InRange, TypeOK
    <2>2. QED BY <1>6, <1>7, <2>1 DEF Unique
  <1>15. Covered'
    <2> SUFFICES ASSUME NEW p \in Queues, NEW n \in serving[p] .. handed'[p] - 1,
                        n \notin abandoned[p]
                 PROVE  \E s \in Requests : pc'[s] \in Outstanding /\ queue'[s] = p /\ ticket'[s] = n
      BY <1>4 DEF Covered
    <2>1. CASE p = q /\ n = handed[q]
      BY <1>7, <2>1 DEF Outstanding, Waiting
    <2>2. CASE ~(p = q /\ n = handed[q])
      <3>1. n \in serving[p] .. handed[p] - 1
        BY <1>7, <2>2 DEF TypeOK
      <3>2. PICK s \in Requests : pc[s] \in Outstanding /\ queue[s] = p /\ ticket[s] = n
        BY <3>1 DEF Covered
      <3>3. s # r
        BY <3>2, <1>4 DEF Outstanding, Waiting
      <3>4. QED BY <1>6, <3>2, <3>3
    <2>3. QED BY <2>1, <2>2
  <1>16. QED BY <1>5, <1>8, <1>9, <1>10, <1>11, <1>12, <1>13, <1>14, <1>15

\* A pin on the anchor's queue, filed now if there was none.
LEMMA HoldPreserves ==
  ASSUME IInv, NEW a \in Anchors, Hold(a)
  PROVE  IInv'
  <1> USE DEF IInv
  <1>1. PICK q \in Queues : entryLocked(a, q) /\ refs' = [refs EXCEPT ![q] = @ + 1]
    BY DEF Hold
  <1>2. /\ registry' \in [Anchors -> Queues \cup {NoQueue}]
        /\ built' \in 0..MaxQueues /\ built <= built'
        /\ key' \in [Queues -> Anchors]
        /\ registry'[a] = q /\ key'[q] = a /\ q <= built'
        /\ \A b \in Anchors : b # a => registry'[b] = registry[b]
        /\ registry[a] # NoQueue => registry[a] = q
        /\ \A p \in Queues : p <= built => key'[p] = key[p]
        /\ \A p \in Queues : p <= built' => p <= built \/ p = q
    BY <1>1, EntryEffect
  <1>3. UNCHANGED <<queueVars, pc, ticketVars, waitVars>> /\ pinned' = pinned + 1
    BY DEF Hold
  <1> USE DEF queueVars, ticketVars, waitVars
  <1>4. TypeOK'
    <2>1. refs' \in [Queues -> Nat]
      BY <1>1 DEF TypeOK
    <2>2. QED BY <1>2, <1>3, <2>1 DEF TypeOK
  <1>5. \A p \in Queues : p # q => refs'[p] = refs[p]
    BY <1>1 DEF TypeOK
  <1>6. Filed'
    <2> SUFFICES ASSUME NEW s \in Requests, pc[s] \in Outstanding
                 PROVE  /\ queue[s] \in Queues /\ registry'[AnchorOf[s]] = queue[s]
                        /\ key'[queue[s]] = AnchorOf[s]
      BY <1>3 DEF Filed
    <2>1. /\ queue[s] \in Queues /\ registry[AnchorOf[s]] = queue[s]
          /\ key[queue[s]] = AnchorOf[s] /\ AnchorOf[s] \in Anchors
      BY TicketAssumption DEF Filed
    <2>2. queue[s] # NoQueue /\ queue[s] <= built
      BY <2>1 DEF KeysMatch, NoQueue, Queues
    <2>3. QED BY <1>2, <2>1, <2>2
  <1>7. PinsFiled'
    <2> SUFFICES ASSUME NEW p \in Queues, refs'[p] > 0, p # q PROVE registry'[key'[p]] = p
      BY <1>2 DEF PinsFiled
    <2>1. registry[key[p]] = p /\ key[p] \in Anchors /\ p # NoQueue
      <3>1. refs[p] > 0
        BY <1>5
      <3>2. p # NoQueue
        BY DEF NoQueue, Queues
      <3>3. key[p] \in Anchors
        BY DEF TypeOK
      <3>4. QED BY <3>1, <3>2, <3>3 DEF PinsFiled
    <2>2. p <= built
      BY <2>1 DEF KeysMatch
    <2>3. QED BY <1>2, <2>1, <2>2
  <1>8. KeysMatch'
    <2> SUFFICES ASSUME NEW b \in Anchors, registry'[b] # NoQueue, b # a
                 PROVE  key'[registry'[b]] = b /\ registry'[b] <= built'
      BY <1>2 DEF KeysMatch
    <2>1. registry'[b] = registry[b] /\ registry[b] \in Queues
      BY <1>2 DEF TypeOK
    <2>2. key[registry[b]] = b /\ registry[b] <= built
      BY <2>1 DEF KeysMatch
    <2>3. QED BY <1>2, <2>1, <2>2 DEF TypeOK, Queues
  <1>9. QueuesAreFresh'
    BY <1>2, <1>3, <1>5 DEF QueuesAreFresh, TypeOK, Queues
  <1>10. InRange' /\ Unique' /\ AbandonedAhead' /\ Covered'
    BY <1>3 DEF InRange, Unique, AbandonedAhead, Covered
  <1>11. QED BY <1>4, <1>6, <1>7, <1>8, <1>9, <1>10

\* A pin is returned; the queue leaves only with no ticket to serve.
LEMMA DropPreserves ==
  ASSUME IInv, NEW q \in Queues, Drop(q)
  PROVE  IInv'
  <1> USE DEF IInv, queueVars, ticketVars, waitVars
  <1>1. /\ refs[q] > 0 /\ refs' = [refs EXCEPT ![q] = @ - 1]
        /\ UNCHANGED <<built, key, pinned, queueVars, pc, ticketVars, waitVars>>
    BY DEF Drop
  <1>2. /\ registry' \in [Anchors -> Queues \cup {NoQueue}]
        /\ \A a \in Anchors :
             \/ registry'[a] = registry[a]
             \/ /\ registry'[a] = NoQueue /\ a = key[q] /\ registry[a] = q
                /\ refs[q] - 1 = 0 /\ handed[q] = serving[q]
    <2>1. registry' = Reaped(q, refs[q] - 1, serving[q])
      BY DEF Drop
    <2> DEFINE k == refs[q] - 1
    <2>2. \A n, served : registry' = Reaped(q, n, served) =>
            /\ registry' \in [Anchors -> Queues \cup {NoQueue}]
            /\ \A a \in Anchors :
                 \/ registry'[a] = registry[a]
                 \/ /\ registry'[a] = NoQueue /\ a = key[q] /\ registry[a] = q
                    /\ n = 0 /\ handed[q] = served
      BY ReapedEffect
    <2>3. registry' = Reaped(q, k, serving[q])
      BY <2>1
    <2> HIDE DEF k
    <2>4. /\ registry' \in [Anchors -> Queues \cup {NoQueue}]
          /\ \A a \in Anchors :
               \/ registry'[a] = registry[a]
               \/ /\ registry'[a] = NoQueue /\ a = key[q] /\ registry[a] = q
                  /\ k = 0 /\ handed[q] = serving[q]
      BY <2>2, <2>3
    <2>5. QED BY <2>4 DEF k
  <1>3. refs' \in [Queues -> Nat] /\ \A p \in Queues : refs'[p] = IF p = q THEN refs[p] - 1 ELSE refs[p]
    BY <1>1 DEF TypeOK
  <1>4. TypeOK'
    BY <1>1, <1>2, <1>3 DEF TypeOK
  <1>5. Filed'
    <2> SUFFICES ASSUME NEW s \in Requests, pc[s] \in Outstanding
                 PROVE  registry'[AnchorOf[s]] = registry[AnchorOf[s]]
      BY <1>1 DEF Filed
    <2>1. /\ registry[AnchorOf[s]] = queue[s] /\ AnchorOf[s] \in Anchors /\ queue[s] \in Queues
          /\ serving[queue[s]] <= ticket[s] /\ ticket[s] < handed[queue[s]]
      BY TicketAssumption DEF Filed, InRange
    <2>2. QED BY <1>2, <2>1 DEF TypeOK
  <1>6. PinsFiled'
    BY <1>1, <1>2, <1>3 DEF PinsFiled, TypeOK
  <1>7. KeysMatch' BY <1>1, <1>2 DEF KeysMatch
  <1>8. QueuesAreFresh' BY <1>1, <1>3 DEF QueuesAreFresh, TypeOK
  <1>9. InRange' /\ Unique' /\ AbandonedAhead' /\ Covered'
    BY <1>1 DEF InRange, Unique, AbandonedAhead, Covered
  <1>10. QED BY <1>4, <1>5, <1>6, <1>7, <1>8, <1>9

\* The turn advances to the first ticket that still has a request, past the
\* deciding one's and the abandoned ones.
LEMMA EndPreserves ==
  ASSUME IInv, NEW r \in Requests, End(r)
  PROVE  IInv'
  <1> USE DEF IInv, ticketVars
  <1> DEFINE q == queue[r]
  <1>0. q \in Queues /\ pc[r] \in Outstanding /\ ticket[r] = serving[q]
    BY DEF Filed, InRange, End, Outstanding
  <1>1. PICK n \in serving[q] + 1 .. handed[q] :
          /\ advanceLocked(q, n)
          /\ registry' = Reaped(q, refs[q], n)
          /\ Broadcast(q)
    BY DEF End, AdvanceTurn
  <1>2. /\ pc' = [pc EXCEPT ![r] = "forwarding"]
        /\ UNCHANGED <<built, refs, key, pinned, handed, ticketVars, armed, expired, holder>>
    BY DEF End
  <1>3. /\ registry' \in [Anchors -> Queues \cup {NoQueue}]
        /\ \A a \in Anchors :
             \/ registry'[a] = registry[a]
             \/ /\ registry'[a] = NoQueue /\ a = key[q] /\ registry[a] = q
                /\ refs[q] = 0 /\ handed[q] = n
    BY <1>0, <1>1, ReapedEffect
  <1>4. /\ n \in Nat /\ n > serving[q] /\ n <= handed[q] /\ n \notin abandoned[q]
        /\ \A k \in serving[q] + 1 .. n - 1 : k \in abandoned[q]
    BY <1>0, <1>1 DEF advanceLocked, IsNextServed, TypeOK
  <1>5. /\ serving' = [serving EXCEPT ![q] = n]
        /\ abandoned' = [abandoned EXCEPT ![q] = {k \in @ : k > n}]
        /\ asleep' = {w \in asleep : queue[w] # q}
    BY <1>1 DEF advanceLocked, Broadcast
  <1>6. TypeOK'
    <2>1. /\ serving' \in [Queues -> Nat] /\ abandoned' \in [Queues -> SUBSET Nat]
          /\ asleep' \subseteq Requests
      BY <1>0, <1>4, <1>5 DEF TypeOK
    <2>2. pc' \in [Requests -> {"new", "forwarding", "done", "refused"} \cup Outstanding]
      BY <1>2 DEF TypeOK
    <2>3. QED BY <1>2, <1>3, <2>1, <2>2 DEF TypeOK
  <1>7. /\ \A s \in Requests : pc'[s] \in Outstanding <=> pc[s] \in Outstanding /\ s # r
        /\ \A s \in Requests : s # r => pc'[s] = pc[s]
    BY <1>2 DEF TypeOK, Outstanding, Waiting
  <1>8. /\ \A p \in Queues : serving'[p] = IF p = q THEN n ELSE serving[p]
        /\ \A p \in Queues : abandoned'[p] = IF p = q THEN {k \in abandoned[p] : k > n} ELSE abandoned[p]
    BY <1>0, <1>5 DEF TypeOK
  <1>9. ASSUME NEW s \in Requests, pc[s] \in Outstanding, s # r, queue[s] = q
        PROVE  ticket[s] >= n /\ ticket[s] < handed[q] /\ pc[s] # "deciding"
    <2>1. /\ serving[q] <= ticket[s] /\ ticket[s] < handed[q] /\ ticket[s] \notin abandoned[q]
          /\ ticket[s] # ticket[r]
          /\ pc[s] = "deciding" => ticket[s] = serving[q]
      BY <1>0, <1>9 DEF InRange, Unique
    <2>2. serving[q] \in Nat /\ ticket[s] \in Nat
      BY <1>0 DEF TypeOK
    <2>3. ticket[s] \notin serving[q] + 1 .. n - 1
      BY <1>4, <2>1
    <2>4. QED BY <1>0, <1>4, <2>1, <2>2, <2>3
  <1>10. Filed'
    <2> SUFFICES ASSUME NEW s \in Requests, pc[s] \in Outstanding, s # r
                 PROVE  registry'[AnchorOf[s]] = registry[AnchorOf[s]]
      BY <1>2, <1>7 DEF Filed
    <2>1. registry[AnchorOf[s]] = queue[s] /\ AnchorOf[s] \in Anchors /\ queue[s] \in Queues
      BY TicketAssumption DEF Filed
    <2>2. QED BY <1>3, <1>4, <1>9, <2>1 DEF TypeOK
  <1>11. PinsFiled'
    BY <1>2, <1>3 DEF PinsFiled, TypeOK
  <1>12. KeysMatch' BY <1>2, <1>3 DEF KeysMatch
  <1>13. QueuesAreFresh'
    <2>1. q <= built
      BY <1>0, TicketAssumption DEF Filed, KeysMatch, NoQueue, Queues
    <2>2. ASSUME NEW p \in Queues, p > built PROVE p # q
      BY <1>0, <2>1, <2>2 DEF TypeOK, Queues
    <2>3. QED BY <1>2, <1>8, <2>2 DEF QueuesAreFresh
  <1>14. InRange'
    <2> SUFFICES ASSUME NEW s \in Requests, pc[s] \in Outstanding, s # r
                 PROVE  /\ serving'[queue[s]] <= ticket[s] /\ ticket[s] < handed[queue[s]]
                        /\ ticket[s] \notin abandoned'[queue[s]]
                        /\ pc[s] = "deciding" => ticket[s] = serving'[queue[s]]
      BY <1>2, <1>7 DEF InRange
    <2>1. /\ queue[s] \in Queues /\ ticket[s] < handed[queue[s]]
          /\ ticket[s] \notin abandoned[queue[s]]
          /\ serving[queue[s]] <= ticket[s]
          /\ pc[s] = "deciding" => ticket[s] = serving[queue[s]]
      BY DEF Filed, InRange
    <2>2. CASE queue[s] = q
      BY <1>4, <1>8, <1>9, <2>1, <2>2 DEF TypeOK
    <2>3. CASE queue[s] # q
      BY <1>8, <2>1, <2>3
    <2>4. QED BY <2>2, <2>3
  <1>15. Unique' BY <1>2, <1>7 DEF Unique
  <1>16. AbandonedAhead'
    <2> SUFFICES ASSUME NEW p \in Queues
                 PROVE  /\ serving'[p] <= handed[p]
                        /\ \A k \in abandoned'[p] : serving'[p] < k /\ k < handed[p]
      BY <1>2 DEF AbandonedAhead
    <2>1. CASE p = q
      <3>1. serving'[p] = n /\ abandoned'[p] = {k \in abandoned[q] : k > n}
        BY <1>8, <2>1
      <3>2. \A k \in abandoned[q] : k < handed[q]
        BY <1>0 DEF AbandonedAhead
      <3>3. n <= handed[p]
        BY <1>4, <2>1
      <3>4. QED BY <2>1, <3>1, <3>2, <3>3
    <2>2. CASE p # q
      BY <1>8, <2>2 DEF AbandonedAhead
    <2>3. QED BY <2>1, <2>2
  <1>17. Covered'
    <2> SUFFICES ASSUME NEW p \in Queues, NEW k \in serving'[p] .. handed[p] - 1,
                        k \notin abandoned'[p]
                 PROVE  \E s \in Requests : pc'[s] \in Outstanding /\ queue[s] = p /\ ticket[s] = k
      BY <1>2 DEF Covered
    <2>1. k \notin abandoned[p] /\ k \in serving[p] .. handed[p] - 1
      <3>1. CASE p = q
        <4>1. k \in n .. handed[q] - 1 /\ serving[q] \in Nat /\ handed[q] \in Nat
          <5>1. serving'[p] = n
            BY <1>8, <3>1
          <5>2. serving[q] \in Nat /\ handed[q] \in Nat
            BY <1>0 DEF TypeOK
          <5>3. QED BY <3>1, <5>1, <5>2
        <4>2. k = n \/ k \notin abandoned[q]
          <5>1. abandoned'[q] = {j \in abandoned[q] : j > n} /\ k \notin abandoned'[q]
            BY <1>0, <1>8, <3>1
          <5>2. n \in Nat
            BY <1>4
          <5>3. QED BY <4>1, <5>1, <5>2
        <4>3. QED BY <1>4, <3>1, <4>1, <4>2
      <3>2. CASE p # q
        BY <1>8, <3>2
      <3>3. QED BY <3>1, <3>2
    <2>2. PICK s \in Requests : pc[s] \in Outstanding /\ queue[s] = p /\ ticket[s] = k
      BY <2>1 DEF Covered
    <2>3. s # r
      BY <1>0, <1>4, <1>8, <2>2 DEF TypeOK
    <2>4. QED BY <1>7, <2>2, <2>3
  <1>18. QED BY <1>6, <1>10, <1>11, <1>12, <1>13, <1>14, <1>15, <1>16, <1>17

\* The invariant is inductive.
LEMMA NextPreserves == IInv /\ [Next]_vars => IInv'
  <1> SUFFICES ASSUME IInv, [Next]_vars PROVE IInv'
    OBVIOUS
  <1>1. CASE \E r \in Requests : Step(r)
    <2>1. PICK r \in Requests : Step(r)
      BY <1>1
    <2>2. QED
      BY <2>1, TakePreserves, WaiterPreserves, BeginPreserves, EndPreserves DEF Step
  <1>2. CASE \E a \in Anchors : Hold(a)
    BY <1>2, HoldPreserves
  <1>3. CASE \E q \in Queues : Drop(q)
    BY <1>3, DropPreserves
  <1>4. CASE UNCHANGED vars
    <2>1. TypeOK'
      BY <1>4 DEF IInv, TypeOK, vars
    <2>2. QED BY <1>4, <2>1, QuietPreserves DEF vars, registryVars, queueVars, ticketVars
  <1>5. QED BY <1>1, <1>2, <1>3, <1>4 DEF Next, Finished

\* Every reachable state satisfies the inductive invariant.
LEMMA Invariance == Spec => []IInv
  BY InitIInv, NextPreserves, PTL DEF Spec

-------------------------------------------------------------------------------
\* The registry, the queues and the requests stay well-typed: no pin count goes
\* negative and no timer runs for a host request.
THEOREM TypeCorrect == Spec => []TypeOK
  <1>1. IInv => TypeOK
    BY DEF IInv
  <1>2. QED BY <1>1, Invariance, PTL

\* The ticket a queue serves belongs to a request that will use it, whatever was
\* abandoned before it: advanceLocked never stops at a hole.
THEOREM NoTicketIsAHole == Spec => []NoHole
  <1>1. IInv => NoHole
    <2> SUFFICES ASSUME IInv, NEW q \in Queues, serving[q] < handed[q]
                 PROVE  \E r \in Requests : queue[r] = q /\ ticket[r] = serving[q] /\ pc[r] \in Outstanding
      BY DEF NoHole
    <2>1. serving[q] \in serving[q] .. handed[q] - 1 /\ serving[q] \notin abandoned[q]
      BY DEF IInv, TypeOK, AbandonedAhead
    <2>2. QED BY <2>1 DEF IInv, Covered
  <1>2. QED BY <1>1, Invariance, PTL

\* A request decides only when no outstanding request of its anchor holds an
\* earlier ticket: decisions follow the order in which the reader took tickets.
THEOREM DecidesInReceiptOrder == Spec => []ReceiptOrder
  <1>1. IInv => ReceiptOrder
    <2> SUFFICES ASSUME IInv, NEW r \in Requests, NEW s \in Requests,
                        pc[r] = "deciding", AnchorOf[s] = AnchorOf[r],
                        pc[s] \in Outstanding, s # r
                 PROVE  Before(r, s)
      BY DEF ReceiptOrder
    <2>1. pc[r] \in Outstanding
      BY DEF Outstanding
    <2>2. queue[r] = queue[s] /\ queue[r] \in Queues
      BY <2>1 DEF IInv, Filed
    <2>3. ticket[r] = serving[queue[r]] /\ serving[queue[r]] <= ticket[s] /\ ticket[r] # ticket[s]
      BY <2>1, <2>2 DEF IInv, InRange, Unique
    <2>4. QED BY <2>2, <2>3 DEF Before, IInv, TypeOK
  <1>2. QED BY <1>1, Invariance, PTL

\* Decisions follow receipt and the queue never stops at an abandoned ticket
\* (await, abandon and advanceLocked together).
THEOREM OrderHasNoHoles == Spec => []OrderWithoutHoles
  <1>1. ReceiptOrder /\ NoHole => OrderWithoutHoles
    BY DEF OrderWithoutHoles
  <1>2. QED BY <1>1, NoTicketIsAHole, DecidesInReceiptOrder, PTL

\* Two requests deciding at once are on different anchors.
LEMMA OneDecides ==
  ASSUME IInv, NEW r \in Requests, NEW s \in Requests,
         pc[r] = "deciding", pc[s] \in Outstanding, AnchorOf[r] = AnchorOf[s],
         ticket[s] = serving[queue[s]]
  PROVE  r = s
  <1>1. pc[r] \in Outstanding
    BY DEF Outstanding
  <1>2. QED BY <1>1 DEF IInv, Filed, InRange, Unique

\* The queues implement the decision turn: entering is being granted the turn,
\* leaving is the end func, and no other step is visible.
THEOREM ImplementsDecisionTurn == Spec => ImplementsTurn
  <1> DEFINE inTurn(a) == {r \in Requests : pc[r] = "deciding" /\ AnchorOf[r] = a}
             deciders == [a \in Anchors |-> inTurn(a)]
  <1>1. Init => Turn!DInit
    BY DEF Init, Turn!DInit
  <1>2. IInv /\ [Next]_vars => [Turn!DNext]_deciders
    <2> SUFFICES ASSUME IInv, [Next]_vars PROVE [Turn!DNext]_deciders
      OBVIOUS
    <2>1. ASSUME \A r \in Requests : pc'[r] = "deciding" <=> pc[r] = "deciding"
          PROVE  [Turn!DNext]_deciders
      BY <2>1
    <2>2. ASSUME NEW r \in Requests, pc[r] \in Waiting, Granted(r)
          PROVE  Turn!DNext
      <3> DEFINE a == AnchorOf[r]
      <3>1. a \in Anchors /\ \A s \in Requests : pc'[s] = IF s = r THEN "deciding" ELSE pc[s]
        BY <2>2, TicketAssumption DEF IInv, TypeOK, Granted
      <3>2. inTurn(a) = {}
        <4> SUFFICES ASSUME NEW s \in Requests, pc[s] = "deciding", AnchorOf[s] = a PROVE FALSE
          OBVIOUS
        <4>1. s = r
          BY <2>2, OneDecides DEF Granted, MyTurn, Outstanding
        <4>2. QED BY <2>2, <4>1 DEF Waiting
      <3>3. deciders' = [deciders EXCEPT ![a] = {r}]
        <4>1. \A b \in Anchors : {s \in Requests : pc'[s] = "deciding" /\ AnchorOf[s] = b}
                                  = IF b = a THEN {r} ELSE inTurn(b)
          BY <3>1, <3>2
        <4>2. QED BY <4>1
      <3>4. Turn!Enter(a, r)
        BY <3>1, <3>2, <3>3 DEF Turn!Enter
      <3>5. QED BY <3>1, <3>4 DEF Turn!DNext
    <2>3. ASSUME NEW r \in Requests, End(r)
          PROVE  Turn!DNext
      <3> DEFINE a == AnchorOf[r]
      <3>1. /\ a \in Anchors /\ pc[r] = "deciding"
            /\ \A s \in Requests : pc'[s] = IF s = r THEN "forwarding" ELSE pc[s]
        BY <2>3, TicketAssumption DEF IInv, TypeOK, End
      <3>2. ASSUME NEW s \in Requests, pc[s] = "deciding", AnchorOf[s] = a
            PROVE  s = r
        BY <3>1, <3>2, OneDecides DEF IInv, InRange, Outstanding
      <3>3. deciders' = [deciders EXCEPT ![a] = {}]
        <4>1. \A b \in Anchors : {s \in Requests : pc'[s] = "deciding" /\ AnchorOf[s] = b}
                                  = IF b = a THEN {} ELSE inTurn(b)
          BY <3>1, <3>2
        <4>2. QED BY <4>1
      <3>4. deciders[a] # {}
        BY <3>1
      <3>5. Turn!Leave(a)
        BY <3>3, <3>4 DEF Turn!Leave
      <3>6. QED BY <3>1, <3>5 DEF Turn!DNext
    <2>4. CASE \E r \in Requests : Begin(r) \/ Wake(r)
      <3>1. PICK r \in Requests : Begin(r) \/ Wake(r)
        BY <2>4
      <3>2. pc[r] \in Waiting
        BY <3>1 DEF Begin, Wake, Waiting
      <3>3. CASE Granted(r)
        BY <2>2, <3>2, <3>3
      <3>4. CASE ~Granted(r)
        <4>1. Abandon(r) \/ Sleep(r)
          BY <3>1, <3>4 DEF Begin, Wake, WindowOver
        <4>2. \A s \in Requests : pc'[s] = "deciding" <=> pc[s] = "deciding"
          BY <3>2, <4>1 DEF Abandon, Sleep, Waiting, IInv, TypeOK
        <4>3. QED BY <2>1, <4>2
      <3>5. QED BY <3>3, <3>4
    <2>5. CASE \E r \in Requests : Take(r) \/ TimerArmed(r) \/ TimerFires(r) \/ Return(r)
      <3>1. \A r \in Requests : pc'[r] = "deciding" <=> pc[r] = "deciding"
        BY <2>5 DEF Take, TimerArmed, TimerFires, Return, IInv, TypeOK
      <3>2. QED BY <2>1, <3>1
    <2>6. CASE UNCHANGED pc
      BY <2>1, <2>6
    <2>7. QED BY <2>3, <2>4, <2>5, <2>6 DEF Next, Step, Hold, Drop, Finished, vars
  <1>3. QED
    BY <1>1, <1>2, Invariance, PTL DEF Spec, ImplementsTurn, Turn!DSpec

-----------------------------------------------------------------------------
(* The life of the stdio proxy.                                              *)

\* Start's teardown, from the point where the reader is done or given up; and from the
\* point where the child is reaped.
Stopped == {"stopping", "waiting", "drainHost", "drainServer", "releasing", "returned"}
WaitedFor == {"drainHost", "drainServer", "releasing", "returned"}

\* What has been read of the listing is its first pages, all with a page to follow.
PagesAreRead ==
  /\ scn \in Scenarios /\ listing.pages \in Nat
  /\ listing.tools = UNION {scn.pages[k].tools : k \in 1 .. listing.pages}
  /\ \A k \in 1 .. listing.pages : scn.pages[k].next # None

\* The probe's result and the baseline are the whole listing; an error leaves no baseline.
BaselineIsProbed ==
  /\ probe # None => probe = WholeListing
  /\ baseline # None => boot \in {"checking", "done"} /\ baseline = WholeListing /\ probe # None
  /\ bootErr = "error" => boot = "done" /\ baseline = None

\* A start-up that ended well ended with the drift check.
StartIsChecked ==
  /\ boot = "done" /\ bootErr = "none" /\ scn.manifest # None =>
       driftCheck(scn.manifest, probe, scn.version, scn.strict)
  /\ Served => boot = "done" /\ bootErr = "none"

\* The child is started once, and reaped at the end only; a start that failed after that
\* has killed it and its group.
ChildIsTended ==
  /\ main = "connecting" => child = "unborn" /\ boot = "off" /\ reader = "off"
  /\ child = "unborn" => main \in {"connecting", "failed"}
  /\ child = "reaped" => main \in WaitedFor \cup {"failed"}
  /\ main \in WaitedFor => child = "reaped"
  /\ main \in {"reaping", "failed"} /\ child # "unborn" => child # "running" /\ "group" \notin descendants
  /\ main = "failed" /\ child # "unborn" => child = "reaped" \/ "reap" \in gaveUp

\* The reader ends with the output, and the teardown goes on without it only if it gave up.
ReaderIsTended ==
  /\ main \in Stopped => reader = "ended" \/ "reader" \in gaveUp
  /\ main \in Stopped \cup {"forced"} \/ reader = "ended" => scn.breaksOff \/ "group" \notin descendants

\* The handlers are drained, or the wait for them gave up.
HandlersAreDrained ==
  /\ hostHandlers \in Nat /\ serverHandlers \in Nat
  /\ main \in {"drainServer", "releasing"} => hostHandlers = 0 \/ "host" \in gaveUp
  /\ main = "releasing" => serverHandlers = 0 \/ {"server", "reader"} \cap gaveUp # {}

LifeIInv == PagesAreRead /\ BaselineIsProbed /\ StartIsChecked /\ ChildIsTended /\ ReaderIsTended /\ HandlersAreDrained

\* The last page of a listing whose earlier pages were read makes it whole.
LEMMA LastPageCompletes ==
  ASSUME PagesAreRead, listing.pages < Len(scn.pages), Page.next = None
  PROVE  WithPage.tools = WholeListing
  <1> DEFINE n == listing.pages + 1
  <1>1. scn.pages[n] = Page /\ n \in 1 .. Len(scn.pages) /\ Len(scn.pages) \in Nat /\ listing.pages \in Nat
    BY LifeAssumption DEF PagesAreRead, Scenario, Page
  <1>2. scn.pages[n].next = None /\ \A k \in 1 .. (n - 1) : scn.pages[k].next # None
    BY <1>1 DEF PagesAreRead
  <1>3. ASSUME NEW m \in 1 .. Len(scn.pages), scn.pages[m].next = None, \A k \in 1 .. (m - 1) : scn.pages[k].next # None
        PROVE  m = n
    <2>1. ~(m < n)
      BY <1>1, <1>2, <1>3
    <2>2. ~(n < m)
      BY <1>1, <1>2, <1>3
    <2>3. QED
      BY <1>1, <2>1, <2>2
  <1> HIDE DEF n
  <1>4. Last1 = n
    BY <1>1, <1>2, <1>3 DEF Last1
  <1>5. WholeListing = UNION {scn.pages[k].tools : k \in 1 .. n}
    BY <1>1, <1>2, <1>4 DEF WholeListing
  <1>6. WithPage.tools = listing.tools \cup scn.pages[n].tools
    BY <1>1 DEF WithPage
  <1>7. \A k : k \in 1 .. n <=> k \in 1 .. listing.pages \/ k = n
    BY <1>1 DEF n
  <1>8. QED
    BY <1>5, <1>6, <1>7 DEF PagesAreRead

LEMMA LifeBegins == LifeInit => LifeIInv
  <1> SUFFICES ASSUME LifeInit PROVE LifeIInv
    OBVIOUS
  <1>1. PagesAreRead
    <2>1. listing.pages = 0 /\ listing.tools = {}
      BY DEF LifeInit, Fresh, NoPages
    <2>2. QED
      BY <2>1 DEF LifeInit, PagesAreRead
  <1>2. QED
    BY <1>1 DEF LifeInit, Fresh, LifeIInv, BaselineIsProbed, StartIsChecked, ChildIsTended, ReaderIsTended, HandlersAreDrained,
        Served, Stopped, WaitedFor

\* What the start-up goroutine does.
LEMMA BootSteps ==
  ASSUME LifeIInv, Boot
  PROVE  LifeIInv'
  <1> USE DEF LifeIInv
  <1>1. UNCHANGED <<scn, main, child, descendants, input, output, reader, gaveUp, hostHandlers, serverHandlers>>
    BY DEF Boot, SendOpener, OpenerReply, SendCompletion, SendProbe, PageReply, StartupReadFails, RecordListing, CheckDrift,
           procVars, handlerVars
  <1>0. boot # "off"
    BY DEF Boot, SendOpener, OpenerReply, SendCompletion, SendProbe, PageReply, StartupReadFails, RecordListing, CheckDrift
  <1>2. ChildIsTended' /\ ReaderIsTended' /\ HandlersAreDrained'
    BY <1>1, <1>0 DEF ChildIsTended, ReaderIsTended, HandlersAreDrained
  <1>3. WholeListing' = WholeListing
    BY <1>1 DEF WholeListing, Last1
  <1>4. boot # "done" /\ bootErr # "error" /\ ~Served
    BY DEF Boot, SendOpener, OpenerReply, SendCompletion, SendProbe, PageReply, StartupReadFails, RecordListing, CheckDrift,
           BaselineIsProbed, StartIsChecked
  <1>5. ~Served'
    BY <1>1, <1>4 DEF Served
  <1>6. CASE ProbeFails /\ UNCHANGED baseline /\ boot \in {"probing", "awaitingPage"}
    <2>1. PagesAreRead'
      BY <1>1, <1>6 DEF ProbeFails, PagesAreRead
    <2>2. BaselineIsProbed'
      BY <1>1, <1>3, <1>4, <1>6 DEF ProbeFails, BaselineIsProbed
    <2>3. StartIsChecked'
      BY <1>1, <1>5, <1>6 DEF ProbeFails, StartIsChecked
    <2>4. QED
      BY <1>2, <2>1, <2>2, <2>3
  <1>7. CASE BootDone("error") /\ UNCHANGED <<listing, probe, baseline>> /\ boot # "checking"
    <2>1. PagesAreRead'
      BY <1>1, <1>7 DEF BootDone, PagesAreRead
    <2>2. BaselineIsProbed'
      BY <1>1, <1>3, <1>4, <1>7 DEF BootDone, BaselineIsProbed
    <2>3. StartIsChecked'
      BY <1>1, <1>5, <1>7 DEF BootDone, StartIsChecked
    <2>4. QED
      BY <1>2, <2>1, <2>2, <2>3
  <1>8. CASE boot' \in {"awaitingOpener", "completing", "probing", "awaitingPage"} /\ bootErr' = bootErr
             /\ UNCHANGED <<listing, probe, baseline>> /\ boot # "checking"
    <2>1. PagesAreRead'
      BY <1>1, <1>8 DEF PagesAreRead
    <2>2. BaselineIsProbed'
      BY <1>1, <1>3, <1>4, <1>8 DEF BaselineIsProbed
    <2>3. StartIsChecked'
      BY <1>1, <1>5, <1>8 DEF StartIsChecked
    <2>4. QED
      BY <1>2, <2>1, <2>2, <2>3
  <1>9. CASE BootDone("none") /\ scn.manifest = None /\ UNCHANGED <<listing, probe, baseline>> /\ boot # "checking"
    <2>1. PagesAreRead'
      BY <1>1, <1>9 DEF BootDone, PagesAreRead
    <2>2. BaselineIsProbed'
      BY <1>1, <1>3, <1>4, <1>9 DEF BootDone, BaselineIsProbed
    <2>3. StartIsChecked'
      BY <1>1, <1>5, <1>9 DEF BootDone, StartIsChecked
    <2>4. QED
      BY <1>2, <2>1, <2>2, <2>3
  <1>10. ASSUME NEW next, next = AfterOpening, Opened(next), UNCHANGED <<listing, probe, baseline>>, boot # "checking"
         PROVE  LifeIInv'
    BY <1>8, <1>9, <1>10 DEF Opened, AfterOpening
  <1>11. CASE SendOpener
    BY <1>7, <1>8, <1>11 DEF SendOpener, Written
  <1>12. CASE OpenerReply
    <2>1. boot = "awaitingOpener" /\ UNCHANGED <<listing, probe, baseline>>
      BY <1>12 DEF OpenerReply
    <2>2. \/ Opened(AfterOpening)
          \/ boot' = "completing" /\ UNCHANGED bootErr
          \/ BootDone("error")
      BY <1>12 DEF OpenerReply, Opened
    <2>3. QED
      BY <1>7, <1>8, <1>10, <2>1, <2>2
  <1>13. CASE SendCompletion
    BY <1>7, <1>10, <1>13 DEF SendCompletion
  <1>14. CASE SendProbe
    BY <1>6, <1>8, <1>14 DEF SendProbe
  <1>15. CASE StartupReadFails
    BY <1>6, <1>7, <1>15 DEF StartupReadFails
  <1>16. CASE RecordListing
    <2>1. PagesAreRead'
      BY <1>1, <1>16 DEF RecordListing, PagesAreRead
    <2>2. BaselineIsProbed'
      BY <1>1, <1>3, <1>4, <1>16 DEF RecordListing, BaselineIsProbed
    <2>3. StartIsChecked'
      BY <1>1, <1>5, <1>16 DEF RecordListing, StartIsChecked
    <2>4. QED
      BY <1>2, <2>1, <2>2, <2>3
  <1>17. CASE CheckDrift
    <2>1. boot = "checking" /\ boot' = "done" /\ UNCHANGED <<listing, probe>>
      BY <1>17 DEF CheckDrift, BootDone
    <2>2. CASE driftCheck(scn.manifest, probe, scn.version, scn.strict)
      <3>1. bootErr' = "none" /\ baseline' = baseline
        BY <1>17, <2>2 DEF CheckDrift, BootDone
      <3>2. PagesAreRead' /\ BaselineIsProbed'
        BY <1>1, <1>3, <2>1, <3>1 DEF PagesAreRead, BaselineIsProbed
      <3>3. StartIsChecked'
        BY <1>1, <1>5, <2>1, <2>2 DEF StartIsChecked
      <3>4. QED
        BY <1>2, <3>2, <3>3
    <2>3. CASE ~driftCheck(scn.manifest, probe, scn.version, scn.strict)
      <3>1. bootErr' = "error" /\ baseline' = None
        BY <1>17, <2>3 DEF CheckDrift, BootDone
      <3>2. PagesAreRead' /\ BaselineIsProbed'
        BY <1>1, <1>3, <2>1, <3>1 DEF PagesAreRead, BaselineIsProbed
      <3>3. StartIsChecked'
        BY <1>1, <1>5, <3>1 DEF StartIsChecked
      <3>4. QED
        BY <1>2, <3>2, <3>3
    <2>4. QED
      BY <2>2, <2>3
  <1>18. CASE PageReply
    <2>0. boot = "awaitingPage" /\ listing.pages < Len(scn.pages) /\ UNCHANGED baseline
      BY <1>18 DEF PageReply
    <2>1. CASE ProbeFails
      BY <1>6, <2>0, <2>1
    <2>2. CASE Page.next = None /\ probe' = WithPage.tools /\ boot' = "recording" /\ UNCHANGED <<listing, bootErr>>
      <3>1. probe' = WholeListing
        BY <2>0, <2>2, LastPageCompletes
      <3>2. baseline = None
        BY <2>0 DEF BaselineIsProbed
      <3>3. PagesAreRead' /\ BaselineIsProbed'
        BY <1>1, <1>3, <1>4, <2>0, <2>2, <3>1, <3>2 DEF PagesAreRead, BaselineIsProbed
      <3>4. StartIsChecked'
        BY <1>5, <2>2 DEF StartIsChecked
      <3>5. QED
        BY <1>2, <3>3, <3>4
    <2>3. CASE Page.next # None /\ listing' = WithPage /\ boot' = "probing" /\ UNCHANGED <<probe, bootErr>>
      <3> DEFINE n == listing.pages + 1
      <3>1. /\ listing'.pages = n /\ listing'.tools = listing.tools \cup scn.pages[n].tools
            /\ scn.pages[n].next # None
        BY <2>3 DEF WithPage, Page
      <3>2. n \in Nat /\ \A k : k \in 1 .. n <=> k \in 1 .. listing.pages \/ k = n
        BY DEF PagesAreRead
      <3> HIDE DEF n
      <3>3. PagesAreRead'
        <4>1. listing'.tools = UNION {scn.pages[k].tools : k \in 1 .. n}
          BY <3>1, <3>2 DEF PagesAreRead
        <4>2. \A k \in 1 .. n : scn.pages[k].next # None
          BY <3>1, <3>2 DEF PagesAreRead
        <4>3. QED
          BY <1>1, <3>1, <3>2, <4>1, <4>2 DEF PagesAreRead
      <3>4. BaselineIsProbed' /\ StartIsChecked'
        BY <1>1, <1>3, <1>4, <1>5, <2>0, <2>3 DEF BaselineIsProbed, StartIsChecked
      <3>5. QED
        BY <1>2, <3>3, <3>4
    <2>4. QED
      BY <1>18, <2>1, <2>2, <2>3 DEF PageReply
  <1>19. QED
    BY <1>11, <1>12, <1>13, <1>14, <1>15, <1>16, <1>17, <1>18 DEF Boot

\* A step that leaves the start-up work alone keeps what is known of the listing.
LEMMA ListingIsKept ==
  ASSUME LifeIInv, UNCHANGED <<scn, bootVars>>, baseline' = baseline \/ baseline' = None,
         Served' => Served \/ (boot = "done" /\ bootErr = "none")
  PROVE  PagesAreRead' /\ BaselineIsProbed' /\ StartIsChecked'
  <1> USE DEF LifeIInv
  <1>1. UNCHANGED <<scn, boot, bootErr, listing, probe>>
    BY DEF bootVars
  <1>2. WholeListing' = WholeListing
    BY <1>1 DEF WholeListing, Last1
  <1>3. PagesAreRead'
    BY <1>1 DEF PagesAreRead
  <1>4. BaselineIsProbed'
    BY <1>1, <1>2 DEF BaselineIsProbed
  <1>5. StartIsChecked'
    BY <1>1 DEF StartIsChecked
  <1>6. QED
    BY <1>3, <1>4, <1>5

\* What the upstream's processes, the reader, the handlers, the host and the signals do.
LEMMA OtherSteps ==
  ASSUME LifeIInv, ~Over, UNCHANGED <<scn, bootVars, baseline, gaveUp>>,
         \/ ChildExits \/ \E d \in descendants : DescendantExits(d)
         \/ Cancel \/ HostRequest \/ HostCloses \/ Signal
         \/ ReadUpstream \/ ReaderEnds \/ HostHandlerReturns \/ ServerHandlerReturns \/ WriterPoisoned
         \/ SignalUpstream \/ KillTimerFires
  PROVE  LifeIInv'
  <1> USE DEF LifeIInv
  <1>1. boot' = boot /\ scn' = scn
    BY DEF bootVars
  <1>2. \/ main' = main
        \/ HostCloses
    BY DEF ChildExits, DescendantExits, Cancel, HostRequest, HostCloses, Signal, ReadUpstream, ReaderEnds, HostHandlerReturns,
           ServerHandlerReturns, WriterPoisoned, SignalUpstream, KillTimerFires
  <1>3. PagesAreRead' /\ BaselineIsProbed' /\ StartIsChecked'
    <2>1. Served' => Served
      BY <1>2 DEF Served, HostCloses
    <2>2. QED
      BY <2>1, ListingIsKept
  <1>4. CASE UNCHANGED <<main, child, descendants, reader, hostHandlers, serverHandlers>>
    BY <1>1, <1>3, <1>4 DEF ChildIsTended, ReaderIsTended, HandlersAreDrained
  <1>5. CASE UNCHANGED <<main, reader, hostHandlers, serverHandlers>>
             /\ child' \in {child, "exited"} /\ (child' # child => child = "running")
             /\ descendants' \subseteq descendants
    <2>1. ChildIsTended'
      BY <1>1, <1>5 DEF ChildIsTended, WaitedFor
    <2>2. ReaderIsTended' /\ HandlersAreDrained'
      BY <1>1, <1>5 DEF ReaderIsTended, HandlersAreDrained
    <2>3. QED
      BY <1>3, <2>1, <2>2
  <1>6. CASE killUpstream /\ UNCHANGED <<main, reader, hostHandlers, serverHandlers>>
    BY <1>5, <1>6 DEF killUpstream
  <1>7. CASE ChildExits
    BY <1>5, <1>7 DEF ChildExits, handlerVars
  <1>8. CASE \E d \in descendants : DescendantExits(d)
    BY <1>5, <1>8 DEF DescendantExits, handlerVars
  <1>9. CASE Cancel \/ Signal \/ SignalUpstream
    BY <1>4, <1>9 DEF Cancel, Signal, SignalUpstream, procVars, handlerVars
  <1>10. CASE WriterPoisoned \/ KillTimerFires
    BY <1>6, <1>10 DEF WriterPoisoned, KillTimerFires, handlerVars
  <1>11. CASE HostCloses
    <2>1. main = "serving" /\ main' = "finishing" /\ UNCHANGED <<child, descendants, reader, hostHandlers, serverHandlers>>
      BY <1>11 DEF HostCloses, procVars, handlerVars
    <2>2. ChildIsTended' /\ ReaderIsTended' /\ HandlersAreDrained'
      BY <1>1, <2>1 DEF ChildIsTended, ReaderIsTended, HandlersAreDrained, Stopped, WaitedFor
    <2>3. QED
      BY <1>3, <2>2
  <1>12. CASE HostRequest \/ ReadUpstream \/ HostHandlerReturns \/ ServerHandlerReturns
    <2>1. UNCHANGED <<main, child, descendants, reader>>
      BY <1>12 DEF HostRequest, ReadUpstream, HostHandlerReturns, ServerHandlerReturns, procVars
    <2>2. ChildIsTended' /\ ReaderIsTended'
      BY <1>1, <2>1 DEF ChildIsTended, ReaderIsTended
    <2>3. HandlersAreDrained'
      <3>1. CASE HostRequest
        BY <2>1, <3>1 DEF HostRequest, HandlersAreDrained
      <3>2. CASE ReadUpstream
        BY <2>1, <3>2 DEF ReadUpstream, HandlersAreDrained, ReaderIsTended, Stopped
      <3>3. CASE HostHandlerReturns
        BY <2>1, <3>3 DEF HostHandlerReturns, HandlersAreDrained
      <3>4. CASE ServerHandlerReturns
        BY <2>1, <3>4 DEF ServerHandlerReturns, HandlersAreDrained
      <3>5. QED
        BY <1>12, <3>1, <3>2, <3>3, <3>4
    <2>4. QED
      BY <1>3, <2>2, <2>3
  <1>13. CASE ReaderEnds
    <2>1. /\ UNCHANGED <<main, child, descendants, hostHandlers, serverHandlers>> /\ reader' = "ended"
          /\ ~OutputOpen \/ scn.breaksOff \/ child = "reaped"
      BY <1>13 DEF ReaderEnds, procVars, handlerVars
    <2>2. scn.breaksOff \/ "group" \notin descendants
      BY <2>1 DEF OutputOpen, ReaderIsTended, ChildIsTended, Over, Stopped, WaitedFor
    <2>3. main # "connecting"
      BY <1>13 DEF ReaderEnds, ChildIsTended
    <2>4. ChildIsTended' /\ ReaderIsTended' /\ HandlersAreDrained'
      BY <1>1, <2>1, <2>2, <2>3 DEF ChildIsTended, ReaderIsTended, HandlersAreDrained
    <2>5. QED
      BY <1>3, <2>4
  <1>14. QED
    BY <1>7, <1>8, <1>9, <1>10, <1>11, <1>12, <1>13

\* What Start does.
LEMMA StartStepsKeep ==
  ASSUME LifeIInv, StartSteps
  PROVE  LifeIInv'
  <1> USE DEF LifeIInv, Stopped, WaitedFor
  <1> USE DEF procVars, handlerVars
  <1>1. CASE connectUpstream
    <2>1. /\ main = "connecting" /\ UNCHANGED <<scn, bootErr, listing, probe, baseline, reader, hostHandlers, serverHandlers>>
          /\ \/ main' = "starting" /\ boot' = "opening" /\ child' = "running"
             \/ main' = "failed" /\ boot' = boot /\ UNCHANGED <<child, descendants>>
      BY <1>1 DEF connectUpstream
    <2>2. child = "unborn" /\ boot = "off" /\ reader = "off" /\ baseline = None /\ bootErr # "error"
      BY <2>1 DEF ChildIsTended, BaselineIsProbed
    <2>3. WholeListing' = WholeListing
      BY <2>1 DEF WholeListing, Last1
    <2>4. PagesAreRead'
      BY <2>1 DEF PagesAreRead
    <2>5. BaselineIsProbed' /\ StartIsChecked'
      BY <2>1, <2>2, <2>3 DEF BaselineIsProbed, StartIsChecked, Served
    <2>6. ChildIsTended' /\ ReaderIsTended' /\ HandlersAreDrained'
      BY <2>1, <2>2 DEF ChildIsTended, ReaderIsTended, HandlersAreDrained
    <2>7. QED
      BY <2>4, <2>5, <2>6
  <1>2. ASSUME ~connectUpstream
        PROVE  UNCHANGED <<scn, bootVars>> /\ (baseline' = baseline \/ baseline' = None)
    BY <1>2 DEF StartSteps, StartServing, StartFails, BudgetExpires, Reap, ServeReturns, Teardown, CloseInput, awaitUpstreamDrain,
        AwaitForced, stopKillTimer, waitUpstream, awaitHostDecisionsDrained, awaitServerRequestsDrained, ReleaseSession
  <1>3. ASSUME ~connectUpstream, Served' => Served \/ (boot = "done" /\ bootErr = "none"),
               ChildIsTended', ReaderIsTended', HandlersAreDrained'
        PROVE  LifeIInv'
    BY <1>2, <1>3, ListingIsKept
  <1>4. ASSUME main # "connecting" PROVE ~connectUpstream
    BY <1>4 DEF connectUpstream
  <1> USE DEF ChildIsTended, ReaderIsTended, HandlersAreDrained, Served
  <1>5. CASE StartServing
    <2>1. /\ main = "starting" /\ boot = "done" /\ bootErr = "none" /\ main' = "serving" /\ reader' = "reading"
          /\ UNCHANGED <<scn, boot, child, descendants, hostHandlers, serverHandlers, gaveUp>>
      BY <1>5 DEF StartServing, bootVars
    <2>2. ChildIsTended' /\ ReaderIsTended' /\ HandlersAreDrained'
      BY <2>1
    <2>3. QED
      BY <1>3, <1>4, <2>1, <2>2
  <1>6. CASE StartFails \/ BudgetExpires
    <2>1. /\ main \in {"starting", "abandoning"} /\ main' \in {"abandoning", "reaping"} /\ killUpstream
          /\ UNCHANGED <<scn, boot, reader, hostHandlers, serverHandlers>>
      BY <1>6 DEF StartFails, BudgetExpires, bootVars
    <2>2. child \notin {"reaped", "unborn"}
      BY <2>1
    <2>3. child' \notin {"reaped", "unborn", "running"} /\ descendants' = descendants \ {"group"}
      BY <2>1, <2>2 DEF killUpstream
    <2>4. ChildIsTended' /\ ReaderIsTended' /\ HandlersAreDrained'
      BY <2>1, <2>3
    <2>5. QED
      BY <1>3, <1>4, <2>1, <2>4
  <1>7. CASE Reap
    <2>1. /\ main = "reaping" /\ main' = "failed" /\ UNCHANGED <<scn, boot, descendants, reader, hostHandlers, serverHandlers>>
          /\ \/ child = "exited" /\ child' = "reaped" /\ UNCHANGED gaveUp
             \/ gaveUp' = gaveUp \cup {"reap"} /\ UNCHANGED child
      BY <1>7 DEF Reap, bootVars
    <2>2. ChildIsTended'
      BY <2>1
    <2>3. ReaderIsTended' /\ HandlersAreDrained'
      BY <2>1
    <2>4. QED
      BY <1>3, <1>4, <2>1, <2>2, <2>3
  <1>8. CASE ServeReturns \/ CloseInput
    <2>1. /\ main \in {"serving", "finishing", "closing"} /\ main' \in {"closing", "draining"}
          /\ UNCHANGED <<scn, boot, child, descendants, reader, hostHandlers, serverHandlers, gaveUp>>
      BY <1>8 DEF ServeReturns, CloseInput, bootVars
    <2>2. ChildIsTended' /\ ReaderIsTended' /\ HandlersAreDrained'
      BY <2>1
    <2>3. QED
      BY <1>3, <1>4, <2>1, <2>2
  <1>9. CASE awaitUpstreamDrain
    <2>1. /\ main = "draining" /\ UNCHANGED <<scn, boot, reader, hostHandlers, serverHandlers, gaveUp>>
          /\ \/ reader = "ended" /\ main' = "stopping" /\ UNCHANGED <<child, descendants>>
             \/ main' = "forced" /\ killUpstream
      BY <1>9 DEF awaitUpstreamDrain, bootVars
    <2>2. child \notin {"reaped", "unborn"}
      BY <2>1
    <2>3. CASE main' = "forced" /\ killUpstream
      <3>1. child' \notin {"reaped", "unborn", "running"} /\ "group" \notin descendants'
        BY <2>2, <2>3 DEF killUpstream
      <3>2. ChildIsTended' /\ ReaderIsTended' /\ HandlersAreDrained'
        BY <2>1, <2>3, <3>1
      <3>3. QED
        BY <1>3, <1>4, <2>1, <2>3, <3>2
    <2>4. CASE reader = "ended" /\ main' = "stopping" /\ UNCHANGED <<child, descendants>>
      <3>1. ChildIsTended' /\ ReaderIsTended' /\ HandlersAreDrained'
        BY <2>1, <2>4
      <3>2. QED
        BY <1>3, <1>4, <2>1, <2>4, <3>1
    <2>5. QED
      BY <2>1, <2>3, <2>4
  <1>10. CASE AwaitForced \/ stopKillTimer
    <2>1. /\ \/ main = "forced" /\ main' = "stopping" /\ (reader = "ended" \/ "reader" \in gaveUp')
             \/ main = "stopping" /\ main' = "waiting" /\ gaveUp' = gaveUp
          /\ UNCHANGED <<scn, boot, child, descendants, reader, hostHandlers, serverHandlers>>
      BY <1>10 DEF AwaitForced, stopKillTimer, bootVars
    <2>2. ChildIsTended' /\ ReaderIsTended' /\ HandlersAreDrained'
      BY <2>1
    <2>3. QED
      BY <1>3, <1>4, <2>1, <2>2
  <1>11. CASE waitUpstream
    <2>1. /\ main = "waiting" /\ main' = "drainHost" /\ child' = "reaped"
          /\ UNCHANGED <<scn, boot, descendants, reader, hostHandlers, serverHandlers, gaveUp>>
      BY <1>11 DEF waitUpstream, bootVars
    <2>2. ChildIsTended' /\ ReaderIsTended' /\ HandlersAreDrained'
      BY <2>1
    <2>3. QED
      BY <1>3, <1>4, <2>1, <2>2
  <1>12. CASE awaitHostDecisionsDrained \/ awaitServerRequestsDrained \/ ReleaseSession
    <2>1. /\ \/ main = "drainHost" /\ main' = "drainServer" /\ (hostHandlers = 0 \/ "host" \in gaveUp')
             \/ main = "drainServer" /\ main' = "releasing" /\ (serverHandlers = 0 \/ "server" \in gaveUp')
             \/ main = "releasing" /\ main' = "returned"
          /\ UNCHANGED <<scn, boot, child, descendants, reader, hostHandlers, serverHandlers>> /\ gaveUp \subseteq gaveUp'
      BY <1>12 DEF awaitHostDecisionsDrained, awaitServerRequestsDrained, ReleaseSession, bootVars
    <2>2. ChildIsTended' /\ ReaderIsTended' /\ HandlersAreDrained'
      BY <2>1
    <2>3. QED
      BY <1>3, <1>4, <2>1, <2>2
  <1>13. QED
    BY <1>1, <1>5, <1>6, <1>7, <1>8, <1>9, <1>10, <1>11, <1>12 DEF StartSteps, Teardown

\* A tool's warnings by an entry that covers it are warnings of the comparison.
LEMMA CoveringWarns ==
  ASSUME NEW m, NEW tools, NEW version, NEW t \in tools, NEW c \in coveringMatches(m.caps, t.name),
         NEW w \in ToolWarnings(c, t)
  PROVE  w \in CheckManifestDrift(m, tools, version)
  <1> DEFINE Found(u) == LET covering == coveringMatches(m.caps, u.name)
                         IN  IF covering = {} THEN {Warn("uncovered", u.name)}
                             ELSE UNION {ToolWarnings(e, u) : e \in covering}
  <1>1. w \in Found(t)
    OBVIOUS
  <1>2. w \in UNION {Found(u) : u \in tools}
    BY <1>1
  <1>3. QED
    BY <1>2 DEF CheckManifestDrift

\* So are those of an entry no tool matches.
LEMMA AbsenceWarns ==
  ASSUME NEW m, NEW tools, NEW version, NEW w \in AbsentWarnings(m.caps, tools)
  PROVE  w \in CheckManifestDrift(m, tools, version)
  BY DEF CheckManifestDrift

\* What a comparison that lets a session start has established: the pinned tools are listed
\* as pinned, and under strict checking no pattern stands in for an entry of its own.
LEMMA DriftIsCaught ==
  ASSUME NEW m, NEW tools, NEW version, NEW strict,
         \A c \in m.caps : c.score \in 0 .. (Exact - 1), driftCheck(m, tools, version, strict)
  PROVE  /\ \A c \in m.caps :
              IsPinnedExactTool(c) =>
                /\ tools # None
                /\ \E t \in tools : t.name \in c.names
                /\ \A t \in tools : t.name \in c.names => t.hash = c.pin /\ t.clear
         /\ strict =>
              /\ tools # None
              /\ \A t \in tools, c \in m.caps :
                   c.tool /\ c.glob /\ t.name \in c.names =>
                     \E d \in m.caps : d.tool /\ t.name \in d.names /\ ~d.principal /\ (~d.glob \/ d.score > c.score)
  <1>0. ASSUME NEW e \in m.caps PROVE e.score \in Nat /\ e.score <= Exact /\ Exact \in Nat
    <2>1. PICK k : k = e.score
      OBVIOUS
    <2>2. k \in 0 .. (Exact - 1)
      BY <2>1
    <2>3. k \in Nat /\ k <= Exact /\ Exact \in Nat
      BY <2>2 DEF Exact
    <2>4. QED
      BY <2>1, <2>3
  <1>1. ASSUME strict \/ \E c \in m.caps : IsPinnedExactTool(c)
        PROVE  /\ tools # None /\ \A t \in tools : t.clear
               /\ \A w \in CheckManifestDrift(m, tools, version) : ~IsCritical(w)
               /\ strict => \A w \in CheckManifestDrift(m, tools, version) : ~IsFatal(w)
    BY <1>1 DEF driftCheck, driftProbeUnavailable, manifestHasPinnedDescriptions, evaluateDrift
  <1>2. ASSUME NEW c \in m.caps, IsPinnedExactTool(c)
        PROVE  /\ tools # None
               /\ \E t \in tools : t.name \in c.names
               /\ \A t \in tools : t.name \in c.names => t.hash = c.pin /\ t.clear
    <2>1. tools # None /\ \A t \in tools : t.clear
      BY <1>1, <1>2
    <2>2. c.tool /\ ~c.glob
      BY <1>2 DEF IsPinnedExactTool, IsExactTool
    <2>3. ASSUME \A t \in tools : t.name \notin c.names PROVE FALSE
      <3> DEFINE Kind(e) == IF \E d \in m.caps : d.names = e.names /\ d.glob = e.glob /\ IsPinnedExactTool(d)
                            THEN "fm2Pinned" ELSE "fm2"
                 Absent == {e \in m.caps : e.tool /\ \A t \in tools : ~Matches(e, t.name)}
      <3>1. c \in Absent
        BY <2>2, <2>3 DEF Matches
      <3>2. Kind(c) = "fm2Pinned"
        BY <1>2
      <3>3. Warn(Kind(c), c.names) \in {Warn(Kind(e), e.names) : e \in Absent}
        BY <3>1
      <3>4. AbsentWarnings(m.caps, tools) = {Warn(Kind(e), e.names) : e \in Absent}
        BY DEF AbsentWarnings
      <3> HIDE DEF Kind, Absent
      <3>5. Warn("fm2Pinned", c.names) \in CheckManifestDrift(m, tools, version)
        <4>1. Warn("fm2Pinned", c.names) \in AbsentWarnings(m.caps, tools)
          BY <3>2, <3>3, <3>4
        <4>2. QED
          BY <4>1, AbsenceWarns
      <3>6. IsCritical(Warn("fm2Pinned", c.names))
        BY DEF IsCritical, Warn
      <3>7. QED
        BY <1>1, <1>2, <3>5, <3>6
    <2>4. ASSUME NEW t \in tools, t.name \in c.names, t.hash # c.pin PROVE FALSE
      <3>1. \A d \in m.caps : Specificity(d) <= Specificity(c)
        BY <1>0, <2>2 DEF Specificity
      <3>2. c \in coveringMatches(m.caps, t.name)
        BY <2>2, <2>4, <3>1 DEF coveringMatches, Matches
      <3>3. Warn("fm5", t.name) \in {Warn("fm5", t.name) : x \in {y \in {1} : IsPinnedExactTool(c) /\ t.hash # c.pin}}
        BY <1>2, <2>4
      <3>4. Warn("fm5", t.name) \in ToolWarnings(c, t)
        BY <3>3 DEF ToolWarnings
      <3>5. Warn("fm5", t.name) \in CheckManifestDrift(m, tools, version)
        BY <3>2, <3>4, CoveringWarns
      <3>6. IsCritical(Warn("fm5", t.name))
        BY DEF IsCritical, Warn
      <3>7. QED
        BY <1>1, <1>2, <3>5, <3>6
    <2>5. QED
      BY <2>1, <2>3, <2>4
  <1>3. ASSUME strict, NEW t \in tools, NEW c \in m.caps, c.tool, c.glob, t.name \in c.names,
               \A d \in m.caps : d.tool /\ t.name \in d.names /\ ~d.principal => d.glob /\ ~(d.score > c.score)
        PROVE  FALSE
    <2>1. ASSUME NEW d \in m.caps, Matches(d, t.name), ~d.principal PROVE Specificity(d) <= Specificity(c)
      <3>1. d.glob /\ ~(d.score > c.score)
        BY <1>3, <2>1 DEF Matches
      <3>2. d.score \in Nat /\ c.score \in Nat
        BY <1>0
      <3>3. QED
        BY <1>3, <3>1, <3>2 DEF Specificity
    <2>2. c \in coveringMatches(m.caps, t.name)
      BY <1>3, <2>1 DEF coveringMatches, Matches
    <2>3. Warn("fm1", t.name) \in {Warn("fm1", t.name) : x \in {y \in {1} : c.glob}}
      BY <1>3
    <2>4. Warn("fm1", t.name) \in ToolWarnings(c, t)
      BY <2>3 DEF ToolWarnings
    <2>5. Warn("fm1", t.name) \in CheckManifestDrift(m, tools, version)
      BY <2>2, <2>4, CoveringWarns
    <2>6. IsFatal(Warn("fm1", t.name))
      BY DEF IsFatal, Warn
    <2>7. QED
      BY <1>1, <1>3, <2>5, <2>6
  <1>4. ASSUME strict PROVE tools # None
    BY <1>1, <1>4
  <1>5. QED
    BY <1>2, <1>3, <1>4

LEMMA LifeStep == LifeIInv /\ [LifeNext]_lifeVars => LifeIInv'
  <1> SUFFICES ASSUME LifeIInv, [LifeNext]_lifeVars PROVE LifeIInv'
    OBVIOUS
  <1>1. CASE UNCHANGED lifeVars
    <2>1. UNCHANGED <<scn, main, boot, bootErr, listing, probe, baseline, child, descendants, reader, hostHandlers,
                      serverHandlers, gaveUp>>
      BY <1>1 DEF lifeVars, bootVars, procVars, handlerVars
    <2>2. PagesAreRead' /\ BaselineIsProbed' /\ StartIsChecked'
      BY <2>1, ListingIsKept DEF bootVars, Served
    <2>3. ChildIsTended' /\ ReaderIsTended' /\ HandlersAreDrained'
      BY <2>1 DEF LifeIInv, ChildIsTended, ReaderIsTended, HandlersAreDrained
    <2>4. QED
      BY <2>2, <2>3 DEF LifeIInv
  <1>2. CASE ~Over /\ StartSteps
    BY <1>2, StartStepsKeep
  <1>3. CASE ~Over /\ Boot
    BY <1>3, BootSteps
  <1>4. CASE /\ ~Over
             /\ \/ ChildExits \/ \E d \in descendants : DescendantExits(d)
                \/ Cancel \/ HostRequest \/ HostCloses \/ Signal
                \/ ReadUpstream \/ ReaderEnds \/ HostHandlerReturns \/ ServerHandlerReturns \/ WriterPoisoned
                \/ SignalUpstream \/ KillTimerFires
    <2>1. UNCHANGED <<scn, bootVars, baseline, gaveUp>>
      BY <1>4 DEF ChildExits, DescendantExits, Cancel, HostRequest, HostCloses, Signal, ReadUpstream, ReaderEnds,
                  HostHandlerReturns, ServerHandlerReturns, WriterPoisoned, SignalUpstream, KillTimerFires
    <2>2. QED
      BY <1>4, <2>1, OtherSteps
  <1>5. QED
    BY <1>1, <1>2, <1>3, <1>4 DEF LifeNext

\* The listing, the start, the child, the reader and the handlers are as the code keeps them,
\* whatever the upstream, the host and the signals do (Start, stdio.go).
THEOREM LifeInvariant == LifeSpec => []LifeIInv
  BY LifeBegins, LifeStep, PTL DEF LifeSpec

\* StdioProxy.Start with FetchAllToolPages and MakeDriftCheck: a session is served only after
\* the manifest's pins were compared with the whole listing, on every page of it, and the
\* baseline is never part of a listing.
THEOREM StartIsAlwaysVetted == LifeSpec => []StartIsVetted
  <1>1. LifeIInv => StartIsVetted
    <2> SUFFICES ASSUME LifeIInv PROVE StartIsVetted
      OBVIOUS
    <2> USE DEF LifeIInv
    <2>1. BaselineIsTheWholeListing
      BY DEF BaselineIsProbed, BaselineIsTheWholeListing
    <2>2. ASSUME Served, scn.manifest # None
          PROVE  /\ driftCheck(scn.manifest, probe, scn.version, scn.strict)
                 /\ \A c \in scn.manifest.caps : c.score \in 0 .. (Exact - 1)
                 /\ probe # None => probe = WholeListing
      <3>1. scn.manifest # None => \A c \in scn.manifest.caps : c.score \in 0 .. (Exact - 1)
        BY LifeAssumption DEF PagesAreRead, Scenario
      <3>2. QED
        BY <2>2, <3>1 DEF StartIsChecked, BaselineIsProbed
    <2>3. ServedAsReviewed
      <3> SUFFICES ASSUME Served, scn.manifest # None
                   PROVE  ServedAsReviewed
        BY DEF ServedAsReviewed
      <3> DEFINE m == scn.manifest
                 strict == scn.strict
                 version == scn.version
      <3>1. /\ driftCheck(m, probe, version, strict) /\ \A c \in m.caps : c.score \in 0 .. (Exact - 1)
            /\ probe # None => probe = WholeListing
        BY <2>2
      <3> HIDE DEF m, strict, version
      <3>2. /\ \A c \in m.caps :
                 IsPinnedExactTool(c) =>
                   /\ probe # None
                   /\ \E t \in probe : t.name \in c.names
                   /\ \A t \in probe : t.name \in c.names => t.hash = c.pin /\ t.clear
            /\ strict =>
                 /\ probe # None
                 /\ \A t \in probe, c \in m.caps :
                      c.tool /\ c.glob /\ t.name \in c.names =>
                        \E d \in m.caps : d.tool /\ t.name \in d.names /\ ~d.principal /\ (~d.glob \/ d.score > c.score)
        BY <3>1, DriftIsCaught
      <3>3. \A c \in m.caps :
              c.tool /\ ~c.glob /\ c.pin # None =>
                /\ \E t \in WholeListing : t.name \in c.names
                /\ \A t \in WholeListing : t.name \in c.names => t.hash = c.pin /\ t.clear
        BY <3>1, <3>2 DEF IsPinnedExactTool, IsExactTool
      <3>4. strict =>
              /\ probe # None
              /\ \A t \in WholeListing, c \in m.caps :
                   c.tool /\ c.glob /\ t.name \in c.names =>
                     \E d \in m.caps : d.tool /\ t.name \in d.names /\ ~d.principal /\ (~d.glob \/ d.score > c.score)
        BY <3>1, <3>2
      <3>5. QED
        BY <3>3, <3>4 DEF ServedAsReviewed, m, strict
    <2>4. QED
      BY <2>1, <2>3 DEF StartIsVetted
  <1>2. QED
    BY <1>1, LifeInvariant, PTL

\* Start's teardown (stdio.go:480-554, killUpstreamProcess): the session's state is released
\* after the decisions on it or after the bounded wait for them, and when Start has returned
\* no child of it runs and none is left unreaped but by a bounded reap that gave up.
THEOREM TeardownIsAlwaysComplete == LifeSpec => TeardownIsComplete
  <1>1. LifeIInv => NoChildLeft
    BY DEF LifeIInv, ChildIsTended, ReaderIsTended, NoChildLeft, Over, Stopped, WaitedFor
  <1>2. LifeIInv /\ [LifeNext]_lifeVars =>
          [main' = "returned" /\ main # "returned" =>
             /\ hostHandlers = 0 \/ "host" \in gaveUp
             /\ serverHandlers = 0 \/ {"server", "reader"} \cap gaveUp # {}]_lifeVars
    <2> SUFFICES ASSUME LifeIInv, LifeNext, main' = "returned", main # "returned"
                 PROVE  /\ hostHandlers = 0 \/ "host" \in gaveUp
                        /\ serverHandlers = 0 \/ {"server", "reader"} \cap gaveUp # {}
      BY DEF lifeVars
    <2>1. main = "releasing"
      BY DEF LifeNext, lifeVars, StartSteps, connectUpstream, StartServing, StartFails, BudgetExpires, Reap, ServeReturns,
             Teardown, CloseInput, awaitUpstreamDrain, AwaitForced, stopKillTimer, waitUpstream, awaitHostDecisionsDrained,
             awaitServerRequestsDrained, ReleaseSession, Boot, SendOpener, OpenerReply, SendCompletion, SendProbe, PageReply,
             StartupReadFails, RecordListing, CheckDrift, ChildExits, DescendantExits, Cancel, HostRequest, HostCloses, Signal,
             ReadUpstream, ReaderEnds, HostHandlerReturns, ServerHandlerReturns, WriterPoisoned, SignalUpstream, KillTimerFires
    <2>2. QED
      BY <2>1 DEF LifeIInv, HandlersAreDrained
  <1>3. QED
    BY <1>1, <1>2, LifeInvariant, PTL DEF LifeSpec, TeardownIsComplete, ReleaseSparesDecisions
===============================================================================
