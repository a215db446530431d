--------------------------- MODULE SessionKillTTL ---------------------------
(***************************************************************************)
(* How long a session kill lasts when `eunox kill --redis-addr` writes it   *)
(* (cmd/eunox/kill.go) for proxies with a lifetime of their own             *)
(* (pkg/killswitch/session_ttl.go).  A proxy that serves advertises its     *)
(* lifetime under one Redis key and renews it on every reconcile tick; the  *)
(* command reads the key, settles the lifetime and writes the tombstone.    *)
(*                                                                         *)
(* A lifetime is a number of ticks, 0 for a tombstone that never expires; a *)
(* flag is what an operator passes, where 0 is the default and a negative   *)
(* value means never.  One tick is the reconcile interval.                  *)
(***************************************************************************)
EXTENDS Integers, FiniteSets

CONSTANTS Instances,       \* proxies on the Redis
          TTLFlags,        \* values of --killswitch-session-ttl
          DefaultLifetime, \* defaultSessionKillTTL
          ExpiryFactor,    \* sessionTTLKeyExpiryFactor
          MaxStarts,       \* bound on proxy starts
          MaxKillCommands, \* bound on commands run
          Absent           \* no value

Forever == 1000

ASSUME LifetimeAssumption ==
  /\ TTLFlags \subseteq Int
  /\ DefaultLifetime \in Nat \ {0} /\ ExpiryFactor \in 1 .. Forever - 1
  /\ MaxStarts \in Nat /\ MaxKillCommands \in Nat

VARIABLES instance,  \* per proxy: "down", "up" (starting) or "ready" (past its ready hook)
          lifetime,  \* per proxy: its effective session-kill TTL
          advert,    \* the published value: [life, left], or Absent
          tomb,      \* the kills written: their lifetime, or Absent
          command,   \* the `eunox kill` being run
          starts, commands,
          \* History, read by the properties only.
          away,      \* per proxy: ticks since it last served, saturated
          tenure     \* per proxy: ticks it has served with this lifetime, saturated

fleet == <<instance, lifetime, starts>>
tvars == <<fleet, advert, tomb, command, commands, away, tenure>>

Kinds == {"session", "agent", "jti", "global"}
NoCommand == [phase |-> "idle"]
Resolve(flag, default) == IF flag = 0 THEN default ELSE IF flag < 0 THEN 0 ELSE flag
NormalizeSessionKillTTL(flag) == Resolve(flag, DefaultLifetime)

LifetimeInit ==
  /\ instance = [p \in Instances |-> "down"] /\ lifetime = [p \in Instances |-> 0]
  /\ advert = Absent /\ tomb = [k \in Kinds |-> Absent]
  /\ command = NoCommand /\ starts = 0 /\ commands = 0
  /\ away = [p \in Instances |-> ExpiryFactor] /\ tenure = [p \in Instances |-> 0]
-----------------------------------------------------------------------------
(* The proxies. *)

StartInstance(p, flag) ==
  /\ instance[p] = "down" /\ starts < MaxStarts
  /\ starts' = starts + 1
  /\ instance' = [instance EXCEPT ![p] = "up"]
  /\ lifetime' = [lifetime EXCEPT ![p] = NormalizeSessionKillTTL(flag)]
  /\ tenure' = [tenure EXCEPT ![p] = 0]
  /\ UNCHANGED <<advert, tomb, command, commands, away>>

\* The process ends, on its way up or later.
StopInstance(p) ==
  /\ instance[p] # "down"
  /\ instance' = [instance EXCEPT ![p] = "down"]
  /\ UNCHANGED <<lifetime, starts, advert, tomb, command, commands, away, tenure>>

\* The ready hook: the transport stands, and from here on the reconcile loop renews.
ServeReady(p) ==
  /\ instance[p] = "up"
  /\ instance' = [instance EXCEPT ![p] = "ready"]
  /\ away' = [away EXCEPT ![p] = 0]
  /\ UNCHANGED <<lifetime, starts, advert, tomb, command, commands, tenure>>

\* sessionTTLPublished: nothing is advertised before the ready hook has run.
MayPublish(p) == instance[p] = "ready"

\* Mutant of publishedValueExpiry: the key never lapses.
publishedValueExpiryNone(life) == Forever

\* A lifetime that never ends is advertised without expiry.
publishedValueExpiry(life) == IF life = 0 THEN Forever ELSE ExpiryFactor

\* The SET of the ready hook and of every reconcile tick; one that fails changes
\* nothing.  (The GET before it only serves to warn of a value that differs.)
PublishSessionKillTTL(p) ==
  /\ MayPublish(p)
  /\ advert' = [life |-> lifetime[p], left |-> publishedValueExpiry(lifetime[p])]
  /\ UNCHANGED <<fleet, tomb, command, commands, away, tenure>>

\* The proxy's own kill, by /control/kill.
ProxyKillsSession(p) ==
  /\ instance[p] = "ready"
  /\ tomb' = [tomb EXCEPT !["session"] = lifetime[p]]
  /\ UNCHANGED <<fleet, advert, command, commands, away, tenure>>
-----------------------------------------------------------------------------
(* The command. *)

\* resolveKillTarget and runRedisKillTransport: exactly one target, and the lifetime
\* flag only where a session tombstone is written.
Accepted(args) ==
  /\ Cardinality(args.targets) = 1
  /\ args.flagSet => ~args.revive /\ args.targets = {"session"}

Exit(code, applied, lost) == [phase |-> "done", exit |-> code, applied |-> applied, lost |-> lost]

cmdKill(args) ==
  /\ command.phase \in {"idle", "done"} /\ commands < MaxKillCommands
  /\ commands' = commands + 1
  /\ command' = IF Accepted(args)
                THEN [phase |-> IF args.revive \/ args.targets # {"session"} THEN "write" ELSE "lookup",
                      kind |-> CHOOSE k \in args.targets : TRUE, revive |-> args.revive,
                      flag |-> args.flag, flagSet |-> args.flagSet, life |-> 0]
                ELSE Exit(1, FALSE, FALSE)
  /\ UNCHANGED <<fleet, advert, tomb, away, tenure>>

\* longerTombstone: never outlives everything.
longerTombstone(a, b) == IF a = 0 \/ b = 0 THEN 0 ELSE IF a > b THEN a ELSE b

ResolveSessionKillTTLConflict(local, published) == longerTombstone(local, published)

\* The lifetime the tombstone gets, and whether stderr names a fallback.
resolveSessionKillTTL(flag, flagSet, published) ==
  LET local == NormalizeSessionKillTTL(flag)
  IN  IF published = Absent THEN [life |-> local, told |-> TRUE]
      ELSE IF ~flagSet THEN [life |-> published.life, told |-> FALSE]
      ELSE [life |-> ResolveSessionKillTTLConflict(local, published.life), told |-> FALSE]

\* A failed lookup falls back as an absent value does.
ReadPublishedSessionKillTTL ==
  /\ command.phase = "lookup"
  /\ \E found \in {advert, Absent} :
       command' = [command EXCEPT !.phase = "write",
                     !.life = resolveSessionKillTTL(command.flag, command.flagSet, found).life]
  /\ UNCHANGED <<fleet, advert, tomb, commands, away, tenure>>

\* Only session kills expire.
dimensionTTL(kind, life) == IF kind = "session" THEN life ELSE 0

\* runRedisKill: the SET or DEL lands, lands with its reply lost, or does not land.
runRedisKill ==
  /\ command.phase = "write"
  /\ \/ /\ tomb' = [tomb EXCEPT ![command.kind] =
                      IF command.revive THEN Absent ELSE dimensionTTL(command.kind, command.life)]
        /\ command' \in {[command EXCEPT !.phase = "notify"], Exit(1, TRUE, TRUE)}
     \/ /\ command' = Exit(1, FALSE, FALSE)
        /\ UNCHANGED tomb
  /\ UNCHANGED <<fleet, advert, commands, away, tenure>>

\* ErrPublishFailed means the write did land.
killWriteOutcome(delivered) == 0

PublishEvent ==
  /\ command.phase = "notify"
  /\ \E delivered \in BOOLEAN : command' = Exit(killWriteOutcome(delivered), TRUE, FALSE)
  /\ UNCHANGED <<fleet, advert, tomb, commands, away, tenure>>
-----------------------------------------------------------------------------
Less(n) == IF n \in {0, Forever} THEN n ELSE n - 1
More(n) == IF n < ExpiryFactor THEN n + 1 ELSE n

LifetimeTick ==
  /\ advert' = IF advert = Absent \/ advert.left = 1 THEN Absent ELSE [advert EXCEPT !.left = Less(@)]
  /\ away' = [p \in Instances |-> IF instance[p] = "ready" THEN 0 ELSE More(away[p])]
  /\ tenure' = [p \in Instances |-> IF instance[p] = "ready" THEN More(tenure[p]) ELSE tenure[p]]
  /\ UNCHANGED <<fleet, tomb, command, commands>>

Arguments == [targets : {{}, {"session"}, {"agent"}, {"session", "jti"}}, revive : BOOLEAN,
              flag : TTLFlags, flagSet : BOOLEAN]

LifetimeNext ==
  \/ \E p \in Instances :
       \/ \E flag \in TTLFlags : StartInstance(p, flag)
       \/ StopInstance(p) \/ ServeReady(p)
       \/ PublishSessionKillTTL(p) \/ ProxyKillsSession(p)
  \/ \E args \in Arguments : (args.flagSet \/ args.flag = 0) /\ cmdKill(args)
  \/ ReadPublishedSessionKillTTL \/ runRedisKill \/ PublishEvent
  \/ LifetimeTick

LifetimeSpec == LifetimeInit /\ [][LifetimeNext]_tvars
-----------------------------------------------------------------------------
Covers(a, b) == longerTombstone(a, b) = a

\* p has served alone, with one lifetime, for as long as an advertised value lives.
Settled(p) ==
  /\ instance[p] = "ready" /\ tenure[p] >= ExpiryFactor
  /\ \A q \in Instances \ {p} : away[q] >= ExpiryFactor

\* However many renewals of its own failed, whatever proxies before it advertised and
\* however they ended, a session kill that the command writes without telling of a
\* fallback lasts at least as long as the one serving proxy's own kills ("the two cannot
\* silently disagree", cmd/eunox/kill.go:125): a stale value can only over-block.
SilentKillsOutlast ==
  \A p \in Instances : Settled(p) =>
    \A flag \in TTLFlags, flagSet \in BOOLEAN :
      LET r == resolveSessionKillTTL(flag, flagSet, advert)
      IN  r.told \/ Covers(r.life, lifetime[p])

\* The exit code answers whether the revocation landed: 0 only if it did, 1 only if it
\* did not or nobody can know (killUsage's exit codes).
ExitTellsWhetherItLanded ==
  command.phase = "done" => /\ command.exit = 0 => command.applied
                            /\ command.exit = 1 => ~command.applied \/ command.lost

\* A kill command that says nothing went wrong set a tombstone that outlives the sessions
\* it is for, and its exit status tells whether the kill landed (cmd/eunox/kill.go).
KillCommandIsHonest == SilentKillsOutlast /\ ExitTellsWhetherItLanded
=============================================================================
