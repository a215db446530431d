------------------------------ MODULE KeyFetch ------------------------------
(***************************************************************************)
(* Token verification against an identity provider's keys: the JWKS cache   *)
(* (pkg/capability/jwkscache.go) behind its circuit breaker, and the rotation *)
(* protocol of VerifyWithKeyRotation (jwks.go).  The cache's fetches are the *)
(* breaker's callers: at most one forced and one background fetch at a time  *)
(* (singleflight), which any number of verifications share.                  *)
(*                                                                          *)
(* The provider publishes key sets 1, 2, ...; set n holds key n alone, so a  *)
(* rotation withdraws a key.  A token names the key it claims; it is         *)
(* genuine when that key signed it.  Refusals for a token's claims come after *)
(* its signature and touch no shared state, and are left out, as is the      *)
(* cache of tokens verified within the last 30 seconds.                      *)
(***************************************************************************)
EXTENDS CircuitBreaker

CONSTANTS forced, background, \* the two fetches of the singleflight group
          Verifiers,          \* requests whose tokens are verified
          MaxKey,             \* bound: key sets the provider publishes
          cacheTTL, negativeKIDTTL, \* in ticks
          FetchTimeout,       \* the HTTP client's timeout, in ticks
          MaxWindows          \* bound: half-open windows of a provider outage

Flights == {forced, background}
Keys == 1..MaxKey
Sentinel == 0        \* sharedRefreshSentinel; also the absent key set
Tokens == [kid: Keys, genuine: BOOLEAN]

ASSUME KeyAssumption ==
  /\ forced # background /\ Flights \subseteq Callers
  /\ MaxKey \in Nat \ {0} /\ cacheTTL \in Nat \ {0} /\ negativeKIDTTL \in Nat \ {0}
  /\ FetchTimeout \in Nat \ {0} /\ MaxWindows \in Nat

VARIABLES
  library,     \* TRUE: the breaker alone, under callers that may cancel
  idp,         \* environment: the key set the provider serves
  jwks,        \* the cached key set, 0 before the first
  age,         \* ticks since fetchedAt, saturated at cacheTTL
  installedFetchGen, \* the ticket of the fetch whose set is installed, see Ticketed
  flight,      \* the fetches: phase, ticket, what was served, ticks since the start
  negKIDs,     \* ticks an absence is still remembered, 0 = not remembered
  verify,      \* what each verification is doing
  gone,        \* history: ticks since the provider withdrew a key, saturated
  floor        \* history: what the provider served when the installed fetch began

keyVars == <<idp, jwks, age, installedFetchGen, flight, negKIDs,
             verify, gone, floor>>
allVars == <<vars, keyVars, library>>
cacheVars == <<jwks, age, installedFetchGen, floor>>

NoFlight == [phase |-> "idle", ticket |-> 0, served |-> 0, age |-> 0, floor |-> 0]
NoVerify == [pc |-> "idle", token |-> [kid |-> 1, genuine |-> TRUE], keys |-> 0,
             changed |-> FALSE, why |-> "kid"]
\* How long after its withdrawal a key may still be believed in.
TrustBound == FetchTimeout + cacheTTL

KeyTypeOK ==
  /\ idp \in Keys /\ jwks \in Keys \cup {0} /\ age \in 0..cacheTTL
  /\ installedFetchGen \in 0..2
  /\ flight \in [Flights -> [phase: {"idle", "asking", "served"}, ticket: 0..2,
                             served: Keys \cup {0}, age: 0..FetchTimeout, floor: Keys \cup {0}]]
  /\ negKIDs \in [Keys \cup {Sentinel} -> 0..negativeKIDTTL]
  /\ verify \in [Verifiers -> [pc: {"idle", "wait", "got", "forceWait", "forceGot"},
                               token: Tokens, keys: Keys \cup {0}, changed: BOOLEAN,
                               why: {"kid", "verify"}]]
  /\ gone \in [Keys -> 0..TrustBound] /\ floor \in Keys \cup {0}

KeyInit ==
  /\ Init /\ library \in BOOLEAN
  /\ idp = 1 /\ jwks = 0 /\ age = cacheTTL /\ installedFetchGen = 0
  /\ flight = [f \in Flights |-> NoFlight]
  /\ negKIDs = [k \in Keys \cup {Sentinel} |-> 0]
  /\ verify = [v \in Verifiers |-> NoVerify]
  /\ gone = [k \in Keys |-> 0] /\ floor = 0

\* mutant of freshAt
freshAtInclusive == jwks # 0 /\ age <= cacheTTL

freshAt == jwks # 0 /\ age < cacheTTL
-----------------------------------------------------------------------------
(* refresh: a verification joins the fetch that is under way or leads a new one. *)

\* fetchTicket++ for f. Tickets are compared and nothing else, so those that still matter
\* are kept by rank: the other fetch's 1, if it is under way, and this one's next.
Ticketed(f, g) ==
  LET started == [phase |-> "asking", ticket |-> 2, served |-> 0, age |-> 0, floor |-> idp]
  IN  /\ flight' = [flight EXCEPT ![f] = started,
                       ![g] = IF flight[g].phase = "idle" THEN @ ELSE [@ EXCEPT !.ticket = 1]]
      /\ installedFetchGen' =
           IF flight[g].phase # "idle" /\ flight[g].ticket <= installedFetchGen THEN 1 ELSE 0

JoinFlight(v, me, f) ==
  /\ flight[f].phase # "idle"
  /\ verify' = [verify EXCEPT ![v] = me]
  /\ UNCHANGED <<flight, installedFetchGen>>
  /\ UNCHANGED vars

\* circuitbreaker.Do admits the fetch.
StartFetch(v, me, f) ==
  /\ flight[f].phase = "idle" /\ Allow(f)
  /\ upstream = "down" => halfOpenGen' <= MaxWindows
  /\ Ticketed(f, IF f = forced THEN background ELSE forced)
  /\ verify' = [verify EXCEPT ![v] = me]

\* ErrOpen: the breaker refuses the fetch, and the token with it.
RefuseFetch(v, f) ==
  /\ flight[f].phase = "idle"
  /\ \/ state = "open" /\ ~CooledDown
     \/ state = "half-open" /\ halfOpenProbes = HalfOpenMaxProbes
  /\ verify' = [verify EXCEPT ![v] = NoVerify]
  /\ UNCHANGED <<flight, installedFetchGen>>
  /\ UNCHANGED vars

refresh(v, me, f) == JoinFlight(v, me, f) \/ StartFetch(v, me, f) \/ RefuseFetch(v, f)
-----------------------------------------------------------------------------
(* Verifications. *)

FindKeys(keys, kid) == {kid} \cap {keys}

kidRecentlyAbsent(kid) == negKIDs[kid] > 0

\* The two signals that answer a forced refresh from the cache.
Suppressed(me) ==
  /\ jwks # 0
  /\ kidRecentlyAbsent(Sentinel) \/ (me.why = "kid" /\ kidRecentlyAbsent(me.token.kid))

\* Whether VerifyWithKeyRotation accepts the token on these keys.
Verifies(token, keys) == token.genuine /\ FindKeys(keys, token.kid) # {}

\* A key set that does not settle a token leads, once, to a forced refresh: because no key
\* has that name (forceRefreshForKIDLive) or because the signature does not verify
\* (forceRefreshForVerifyLive). A suppressed one is answered from the cache, for good.
forceRefresh(me, keys) ==
  [me EXCEPT !.pc = "forceWait", !.keys = 0,
             !.why = IF FindKeys(keys, me.token.kid) = {} THEN "kid" ELSE "verify"]

Resolve(v, me, keys) ==
  LET asking == forceRefresh(me, keys)
      settled == Verifies(me.token, keys) \/ Suppressed(asking)
  IN  \/ /\ settled
         /\ verify' = [verify EXCEPT ![v] = NoVerify]
         /\ UNCHANGED <<flight, installedFetchGen>>
         /\ UNCHANGED vars
      \/ ~settled /\ refresh(v, asking, forced)

\* ValidateToken: against the cached key set, or the one a background fetch brings when
\* the cached one is stale (getKeysLive).
ValidateToken(v, token) ==
  /\ verify[v].pc = "idle"
  /\ LET me == [NoVerify EXCEPT !.token = token, !.pc = "wait"]
     IN  \/ freshAt /\ Resolve(v, me, jwks)
         \/ ~freshAt /\ refresh(v, me, background)
  /\ UNCHANGED <<idp, jwks, age, floor, negKIDs, gone>>

\* The background fetch answered.
getKeysLive(v) ==
  /\ verify[v].pc = "got"
  /\ Resolve(v, verify[v], verify[v].keys)
  /\ UNCHANGED <<idp, jwks, age, floor, negKIDs, gone>>

\* markKIDAbsent: an absence already remembered keeps its hour.
markKIDAbsent(marks) ==
  negKIDs' = [k \in DOMAIN negKIDs |->
                IF k \in marks /\ negKIDs[k] = 0 THEN negativeKIDTTL ELSE negKIDs[k]]

\* The forced fetch answered: remember what it could not resolve, and that it brought
\* nothing new; verify once more.
forceRefreshed(v) ==
  LET me == verify[v]
      absent == me.why = "kid" /\ FindKeys(me.keys, me.token.kid) = {}
  IN  /\ me.pc = "forceGot"
      /\ markKIDAbsent((IF absent THEN {me.token.kid} ELSE {})
                       \cup (IF ~me.changed /\ (absent \/ me.why = "verify") THEN {Sentinel} ELSE {}))
      /\ verify' = [verify EXCEPT ![v] = NoVerify]
      /\ UNCHANGED <<idp, cacheVars, flight, gone>>
      /\ UNCHANGED vars
-----------------------------------------------------------------------------
(* Fetches. *)

Waiting(f) == {v \in Verifiers : verify[v].pc = IF f = background THEN "wait" ELSE "forceWait"}

\* fetchKeys: the provider answers with the set it serves at that moment.
ServeKeys(f) ==
  /\ flight[f].phase = "asking"
  /\ flight' = [flight EXCEPT ![f].phase = "served", ![f].served = idp]
  /\ UNCHANGED <<idp, cacheVars, negKIDs, verify, gone>>
  /\ UNCHANGED vars

\* Everyone who waits for a fetch goes on with its result, or is refused with its error.
Answer(f, keys, changed) ==
  verify' = [v \in Verifiers |->
    IF v \notin Waiting(f) THEN verify[v]
    ELSE IF keys = 0 THEN NoVerify
    ELSE [verify[v] EXCEPT !.pc = IF f = background THEN "got" ELSE "forceGot",
                           !.keys = keys, !.changed = changed]]

\* The fetch failed, timed out, or brought an empty or oversized set.
FetchFails(f) ==
  /\ flight[f].phase \in {"asking", "served"}
  /\ Fail(f)
  /\ flight' = [flight EXCEPT ![f] = NoFlight]
  /\ Answer(f, 0, FALSE)
  /\ UNCHANGED <<idp, cacheVars, negKIDs, gone>>

\* mutant of NewestStarted
NewestFinished(f) == TRUE

NewestStarted(f) == flight[f].ticket > installedFetchGen

\* Only the set of the fetch that started last is kept; a fetch overtaken by a later one
\* answers with what is installed.
Install(f) ==
  LET mine == flight[f]
      result == IF NewestStarted(f) \/ jwks = 0 THEN mine.served ELSE jwks
  IN  /\ mine.phase = "served" /\ Succeed(f)
      /\ IF NewestStarted(f)
         THEN /\ jwks' = mine.served /\ age' = 0 /\ floor' = mine.floor
              /\ installedFetchGen' = mine.ticket
         ELSE UNCHANGED <<jwks, age, installedFetchGen, floor>>
      /\ flight' = [flight EXCEPT ![f] = NoFlight]
      /\ Answer(f, result, result # jwks)
      /\ UNCHANGED <<idp, negKIDs, gone>>
-----------------------------------------------------------------------------
(* The environment: the provider rotates its key and recovers, and time passes. *)

Rotate ==
  /\ idp < MaxKey
  /\ idp' = idp + 1
  /\ UNCHANGED <<cacheVars, flight, negKIDs, verify, gone>>
  /\ UNCHANGED vars

IdPRecovers == Recover /\ UNCHANGED keyVars

Less(n) == IF n > 0 THEN n - 1 ELSE 0
More(n, max) == IF n < max THEN n + 1 ELSE n

\* One tick for everybody; no fetch outlives the client's timeout.
KeyTick ==
  /\ \A f \in Flights : flight[f].phase # "idle" => flight[f].age < FetchTimeout
  /\ sinceFailure' = Saturate(sinceFailure) /\ sinceTrip' = Saturate(sinceTrip)
  /\ age' = More(age, cacheTTL)
  /\ negKIDs' = [k \in DOMAIN negKIDs |-> Less(negKIDs[k])]
  /\ gone' = [k \in Keys |-> IF k < idp THEN More(gone[k], TrustBound) ELSE gone[k]]
  /\ flight' = [f \in Flights |-> IF flight[f].phase = "idle" THEN flight[f]
                                  ELSE [flight[f] EXCEPT !.age = @ + 1]]
  /\ UNCHANGED <<state, consecutiveFails, halfOpenProbes, halfOpenSuccess, halfOpenGen, call,
                 upstream, epoch, proved, streak, idp, jwks, installedFetchGen,
                 verify, floor>>

VerifySteps(v) == getKeysLive(v) \/ forceRefreshed(v)
FlightSteps(f) == ServeKeys(f) \/ Install(f)

KeyNext ==
  \/ \E v \in Verifiers, token \in Tokens : token.kid <= idp /\ ValidateToken(v, token)
  \/ \E v \in Verifiers : VerifySteps(v)
  \/ \E f \in Flights : FlightSteps(f) \/ FetchFails(f)
  \/ Rotate \/ IdPRecovers \/ KeyTick

\* A step of the cache, and one of the breaker on its own.
InCache(A) == ~library /\ A /\ UNCHANGED library
Alone(A) == library /\ A /\ UNCHANGED <<keyVars, library>>

AllNext == InCache(KeyNext) \/ Alone(Next)

\* Beside the breaker's own fairness: goroutines run, the provider answers or its client
\* times out, rotations come to an end, and a client with a token of the last key, once
\* there is one, keeps trying.
Newest == [kid |-> MaxKey, genuine |-> TRUE]
KeyFairness ==
  /\ WF_allVars(InCache(KeyTick)) /\ WF_allVars(InCache(IdPRecovers))
  /\ WF_allVars(InCache(Rotate))
  /\ \A v \in Verifiers : WF_allVars(InCache(VerifySteps(v)))
  /\ \A f \in Flights : WF_allVars(InCache(FlightSteps(f)))
  /\ SF_allVars(InCache(idp = MaxKey /\ \E v \in Verifiers : ValidateToken(v, Newest)))
LibraryFairness ==
  /\ WF_allVars(Alone(Tick)) /\ WF_allVars(Alone(Recover))
  /\ \A c \in Callers : WF_allVars(Alone(Allow(c))) /\ WF_allVars(Alone(Succeed(c)))

KeySpec == KeyInit /\ [][AllNext]_allVars /\ KeyFairness /\ LibraryFairness
-----------------------------------------------------------------------------
(* Properties. *)

\* Whatever finishes last, the cached keys are no older than those the provider served
\* when the latest of the installed fetches began: a slow fetch cannot bring a withdrawn
\* key back for a whole TTL (JWKSCache.refresh, "completion order cannot undo start order").
CompletionCannotUndoStart ==
  [][~library => floor' >= floor /\ jwks' >= floor']_allVars

\* A key the provider withdrew stops being believed: no later than a fetch and a TTL after
\* the withdrawal the cache serves it no more, whatever fetches overlap, fail or are
\* overtaken (freshAt, refresh).
WithdrawnKeysExpire == ~library /\ freshAt => gone[jwks] < TrustBound

\* A key the provider rotated in reaches the cache, and stays: neither the absences
\* remembered for it, nor the budget other tokens keep charging, nor an open breaker, nor
\* an overtaken fetch keeps its tokens out for ever (ForceRefreshForKID, "Bounded and
\* self-healing").
RotationArrives == <>[](library \/ jwks = MaxKey)

\* Recovery is complete: the breaker in front of the provider closes for good and the
\* rotated key arrives (CircuitBreaker.RecoversForGood, RotationArrives).
RecoveryIsComplete == RecoversForGood /\ RotationArrives
=============================================================================
