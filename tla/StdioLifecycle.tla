--------------------------- MODULE StdioLifecycle ---------------------------
(***************************************************************************)
(* The life of a stdio proxy over a subprocess upstream                     *)
(* (StdioProxy.Start in internal/transport/stdio.go, with drift_probe.go,   *)
(* upstream_open.go and subprocess_env.go): the bounded start that opens    *)
(* the upstream, lists its tools and compares them with the manifest; the   *)
(* serving of the host; and the teardown, which ends on a closed host, a    *)
(* cancelled context, an upstream that is gone, or a signal.                *)
(*                                                                          *)
(* Start runs beside the goroutine of the start-up work, the reader of the  *)
(* upstream's output, the signal handler, its SIGKILL timer, the handlers,  *)
(* and the upstream's processes: the child, a descendant in its process     *)
(* group that holds the output open, and one that escaped the group.  A     *)
(* SIGKILL takes effect at once.  Every wait that is bounded may end at its *)
(* bound at any time.                                                       *)
(***************************************************************************)
EXTENDS ManifestDrift, FiniteSets

CONSTANTS Scenarios,     \* see Scenario
          MaxPages,      \* maxToolsListPages
          MaxTools,      \* maxToolsListTools
          MaxBytes,      \* maxToolsListBytes
          MaxHandlers    \* bound: handlers in flight, of either kind

\* What the proxy is configured with and what it meets: revision, manifest (None: no drift
\* check) and strict; how the upstream answers the opener, its version and the pages of its
\* tools; whether it exits on EOF and on a signal, has a descendant in its group or out of
\* it, and may break off its output while it runs; whether requests, signals and
\* cancellations come.  A page is [tools, next, bytes, fault].  No pattern scores as high as
\* an exact match does, by the margin of exactMatchSpecificity.
Scenario(s) ==
  /\ s.rev \in {"old", "new"} /\ s.strict \in BOOLEAN
  /\ s.opener \in {"ok", "unknownVersion", "otherRevision", "error", "malformed", "silent"}
  /\ s.eof \in BOOLEAN /\ s.term \in BOOLEAN /\ s.wraps \in BOOLEAN /\ s.escapes \in BOOLEAN
  /\ s.breaksOff \in BOOLEAN /\ s.handles \in BOOLEAN
  /\ Len(s.pages) \in Nat
  /\ s.manifest # None => \A c \in s.manifest.caps : c.score \in 0..(Exact - 1)

ASSUME LifeAssumption ==
  /\ \A s \in Scenarios : Scenario(s)
  /\ {MaxPages, MaxTools, MaxBytes, MaxHandlers} \subseteq Nat

VARIABLES scn,             \* the scenario
          main,            \* how far Start is
          boot,            \* how far the start-up goroutine is
          bootErr,         \* what it sent on done
          listing,         \* FetchAllToolPages: the tools, the cursors seen, pages and bytes so far
          probe,           \* what the probe returned: a set of tools, or None
          baseline,        \* the surface recorded for the session, or None
          child,           \* unborn, running, exited, or reaped by Wait
          descendants,     \* those of group and escaped that hold the output open
          input, output,   \* whether the child's input is open, and the child's own output
          reader,          \* readUpstream: off, reading or ended
          signalled,       \* a signal waits in sigCh
          handler,         \* the signal goroutine: off, listening, got, sent or done
          termed,          \* the child and its group have been sent the signal
          timer,           \* killTimer: unset, armed, fired or stopped
          ctxDone,         \* the context Start runs under is cancelled
          hostHandlers, serverHandlers,
          gaveUp           \* which bounded waits ended at their bound

bootVars == <<boot, bootErr, listing, probe>>
procVars == <<child, descendants, input, output>>
signalVars == <<signalled, handler, termed, timer>>
handlerVars == <<hostHandlers, serverHandlers>>
lifeVars == <<scn, main, bootVars, baseline, procVars, reader, signalVars, ctxDone, handlerVars, gaveUp>>

NoPages == [tools |-> {}, seen |-> {}, pages |-> 0, bytes |-> 0]

Fresh ==
  /\ boot = "off" /\ bootErr = "none"
  /\ listing = NoPages /\ probe = None /\ baseline = None
  /\ child = "unborn" /\ descendants = {} /\ input = FALSE /\ output = FALSE
  /\ reader = "off"
  /\ signalled = FALSE /\ handler = "off" /\ termed = FALSE /\ timer = "unset"
  /\ ctxDone = FALSE
  /\ hostHandlers = 0 /\ serverHandlers = 0
  /\ gaveUp = {}

LifeInit == scn \in Scenarios /\ main = "connecting" /\ Fresh
-----------------------------------------------------------------------------
(* Start and the upstream's processes. *)

\* Someone still has the write end of the output.
OutputOpen == output \/ descendants # {}

connectUpstream ==
  /\ main = "connecting"
  /\ \/ /\ main' = "starting" /\ boot' = "opening"
        /\ child' = "running" /\ input' = TRUE /\ output' = TRUE
        /\ descendants' = (IF scn.wraps THEN {"group"} ELSE {}) \cup (IF scn.escapes THEN {"escaped"} ELSE {})
     \/ main' = "failed" /\ UNCHANGED <<boot, procVars>>
  /\ UNCHANGED <<scn, bootErr, listing, probe, baseline, reader, signalVars, ctxDone, handlerVars, gaveUp>>

\* killUpstreamProcess: the child, and unless it was reaped already its group.
killUpstream ==
  /\ child' = IF child = "running" THEN "exited" ELSE child
  /\ output' = FALSE
  /\ descendants' = IF child = "reaped" THEN descendants ELSE descendants \ {"group"}
  /\ UNCHANGED input

\* The child exits: by itself, on the end of its input, or on the signal.
ChildExits ==
  /\ child = "running"
  /\ child' = "exited" /\ output' = FALSE
  /\ UNCHANGED <<scn, main, bootVars, baseline, descendants, input, reader, signalVars, ctxDone,
                 handlerVars, gaveUp>>

Told == (~input /\ scn.eof) \/ (termed /\ scn.term)

\* A descendant exits; one in the group does when it is told as well.
DescendantExits(d) ==
  /\ d \in descendants
  /\ descendants' = descendants \ {d}
  /\ UNCHANGED <<scn, main, bootVars, baseline, child, input, output, reader, signalVars, ctxDone,
                 handlerVars, gaveUp>>

Cancel ==
  /\ ~ctxDone /\ scn.handles
  /\ ctxDone' = TRUE
  /\ UNCHANGED <<scn, main, bootVars, baseline, procVars, reader, signalVars, handlerVars, gaveUp>>
-----------------------------------------------------------------------------
(* The start-up goroutine: initUpstream, then the drift check. *)

BootDone(err) == boot' = "done" /\ bootErr' = err

\* A write fails once the child is gone.
Written(next) ==
  \/ child = "running" /\ boot' = next /\ UNCHANGED bootErr
  \/ child # "running" /\ BootDone("error")

SendOpener ==
  /\ boot = "opening"
  /\ Written("awaitingOpener")
  /\ UNCHANGED <<scn, main, listing, probe, baseline, procVars, reader, signalVars, ctxDone,
                 handlerVars, gaveUp>>

AfterOpening == IF scn.manifest = None THEN "done" ELSE "probing"
Opened(next) == IF next = "done" THEN BootDone("none") ELSE boot' = next /\ UNCHANGED bootErr

\* ApplyUpstreamOpenerResult.  A version this build does not speak is only noted; a
\* published one other than the opened is refused.
OpenerReply ==
  /\ boot = "awaitingOpener" /\ child = "running" /\ output /\ scn.opener # "silent"
  /\ IF scn.opener \in {"ok", "unknownVersion"}
     THEN Opened(IF scn.rev = "old" THEN "completing" ELSE AfterOpening)
     ELSE BootDone("error")
  /\ UNCHANGED <<scn, main, listing, probe, baseline, procVars, reader, signalVars, ctxDone,
                 handlerVars, gaveUp>>

\* UpstreamOpenerCompletion: notifications/initialized, on a revision that has it.
SendCompletion ==
  /\ boot = "completing"
  /\ \/ child = "running" /\ Opened(AfterOpening)
     \/ child # "running" /\ BootDone("error")
  /\ UNCHANGED <<scn, main, listing, probe, baseline, procVars, reader, signalVars, ctxDone,
                 handlerVars, gaveUp>>

\* FetchAllToolPages gives up: no listing.
ProbeFails == probe' = None /\ boot' = "checking" /\ UNCHANGED <<listing, bootErr>>

SendProbe ==
  /\ boot = "probing"
  /\ \/ listing.pages = MaxPages /\ ProbeFails
     \/ /\ listing.pages < MaxPages
        /\ \/ child = "running" /\ boot' = "awaitingPage" /\ UNCHANGED <<probe, listing, bootErr>>
           \/ child # "running" /\ ProbeFails
  /\ UNCHANGED <<scn, main, baseline, procVars, reader, signalVars, ctxDone, handlerVars, gaveUp>>

Page == scn.pages[listing.pages + 1]
PageRefused ==
  \/ Page.fault # "none"
  \/ Page.bytes > MaxBytes - listing.bytes
  \/ Cardinality(Page.tools) > MaxTools - Cardinality(listing.tools)
WithPage == [tools |-> listing.tools \cup Page.tools, seen |-> listing.seen \cup {Page.next},
             pages |-> listing.pages + 1, bytes |-> listing.bytes + Page.bytes]

\* One page arrives: refused, the last one, one whose cursor was seen before, or one more
\* to go.
PageReply ==
  /\ boot = "awaitingPage" /\ child = "running" /\ output /\ listing.pages < Len(scn.pages)
  /\ \/ PageRefused /\ ProbeFails
     \/ /\ ~PageRefused /\ Page.next = None
        /\ probe' = WithPage.tools /\ boot' = "recording" /\ UNCHANGED <<listing, bootErr>>
     \/ ~PageRefused /\ Page.next # None /\ Page.next \in listing.seen /\ ProbeFails
     \/ /\ ~PageRefused /\ Page.next # None /\ Page.next \notin listing.seen
        /\ listing' = WithPage /\ boot' = "probing" /\ UNCHANGED <<probe, bootErr>>
  /\ UNCHANGED <<scn, main, baseline, procVars, reader, signalVars, ctxDone, handlerVars, gaveUp>>

\* awaitStartupReply returns its read error: the output ended, or broke off.  Any message
\* but the reply is dropped, a request among them answered with an error.
StartupReadFails ==
  /\ boot \in {"awaitingOpener", "awaitingPage"}
  /\ ~OutputOpen \/ scn.breaksOff
  /\ IF boot = "awaitingPage" THEN ProbeFails ELSE BootDone("error") /\ UNCHANGED <<listing, probe>>
  /\ UNCHANGED <<scn, main, baseline, procVars, reader, signalVars, ctxDone, handlerVars, gaveUp>>

\* RecordObservedToolHashes, of a whole listing only.
RecordListing ==
  /\ boot = "recording"
  /\ baseline' = probe /\ boot' = "checking"
  /\ UNCHANGED <<scn, main, bootErr, listing, probe, procVars, reader, signalVars, ctxDone,
                 handlerVars, gaveUp>>

\* A refusal is recorded and the session's state released.
CheckDrift ==
  /\ boot = "checking"
  /\ IF driftCheck(scn.manifest, probe, scn.version, scn.strict)
     THEN BootDone("none") /\ UNCHANGED baseline
     ELSE BootDone("error") /\ baseline' = None
  /\ UNCHANGED <<scn, main, listing, probe, procVars, reader, signalVars, ctxDone, handlerVars, gaveUp>>
-----------------------------------------------------------------------------
(* Start: the bounded start. *)

\* The start-up work is done: the reader and the signal handler start, and the host is served.
StartServing ==
  /\ main = "starting" /\ boot = "done" /\ bootErr = "none"
  /\ main' = "serving" /\ reader' = "reading" /\ handler' = "listening"
  /\ UNCHANGED <<scn, bootVars, baseline, procVars, signalled, termed, timer, ctxDone, handlerVars, gaveUp>>

\* The goroutine failed; or the wait for a killed one is over.
StartFails ==
  /\ \/ main = "starting" /\ boot = "done" /\ bootErr = "error" /\ UNCHANGED gaveUp
     \/ main = "abandoning" /\ boot = "done" /\ UNCHANGED gaveUp
     \/ main = "abandoning" /\ gaveUp' = gaveUp \cup {"boot"}
  /\ main' = "reaping" /\ killUpstream
  /\ UNCHANGED <<scn, bootVars, baseline, reader, signalVars, ctxDone, handlerVars>>

\* runBoundedStartup's budget, or the caller's context, ends first.
BudgetExpires ==
  /\ main = "starting"
  /\ main' = "abandoning" /\ killUpstream
  /\ UNCHANGED <<scn, bootVars, baseline, reader, signalVars, ctxDone, handlerVars, gaveUp>>

\* The bounded Wait of a failed start.
Reap ==
  /\ main = "reaping"
  /\ \/ child = "exited" /\ child' = "reaped" /\ UNCHANGED gaveUp
     \/ gaveUp' = gaveUp \cup {"reap"} /\ UNCHANGED child
  /\ main' = "failed"
  /\ UNCHANGED <<scn, bootVars, baseline, descendants, input, output, reader, signalVars, ctxDone,
                 handlerVars>>
-----------------------------------------------------------------------------
(* Serving. *)

\* readUpstream: a server request starts a handler.  What was written before the output
\* closed, or before Wait closed its read end, may still be in the buffers.
ReadUpstream ==
  /\ reader = "reading" /\ scn.handles /\ serverHandlers < MaxHandlers
  /\ serverHandlers' = serverHandlers + 1
  /\ UNCHANGED <<scn, main, bootVars, baseline, procVars, reader, signalVars, ctxDone, hostHandlers, gaveUp>>

\* The end of the output, a line that is no message, or the read end closed by Wait.
ReaderEnds ==
  /\ reader = "reading"
  /\ ~OutputOpen \/ scn.breaksOff \/ child = "reaped"
  /\ reader' = "ended"
  /\ UNCHANGED <<scn, main, bootVars, baseline, procVars, signalVars, ctxDone, handlerVars, gaveUp>>

HostRequest ==
  /\ main = "serving" /\ scn.handles /\ hostHandlers < MaxHandlers
  /\ hostHandlers' = hostHandlers + 1
  /\ UNCHANGED <<scn, main, bootVars, baseline, procVars, reader, signalVars, ctxDone, serverHandlers, gaveUp>>

HostHandlerReturns ==
  /\ hostHandlers > 0 /\ hostHandlers' = hostHandlers - 1
  /\ UNCHANGED <<scn, main, bootVars, baseline, procVars, reader, signalVars, ctxDone, serverHandlers, gaveUp>>

ServerHandlerReturns ==
  /\ serverHandlers > 0 /\ serverHandlers' = serverHandlers - 1
  /\ UNCHANGED <<scn, main, bootVars, baseline, procVars, reader, signalVars, ctxDone, hostHandlers, gaveUp>>

\* A frame to the host or to the upstream was cut short: the poison hook kills.
WriterPoisoned ==
  /\ reader # "off" /\ hostHandlers + serverHandlers > 0
  /\ child = "running"
  /\ killUpstream
  /\ UNCHANGED <<scn, main, bootVars, baseline, reader, signalVars, ctxDone, handlerVars, gaveUp>>

\* The host closed its end: serveHost waits for its handlers.
HostCloses ==
  /\ main = "serving" /\ main' = "finishing"
  /\ UNCHANGED <<scn, bootVars, baseline, procVars, reader, signalVars, ctxDone, handlerVars, gaveUp>>

\* serveHost returns: its handlers are done, or at once on a cancelled context or an
\* upstream that is gone.
ServeReturns ==
  /\ \/ main = "finishing" /\ hostHandlers = 0
     \/ main = "serving" /\ (ctxDone \/ reader = "ended")
  /\ main' = "closing"
  /\ UNCHANGED <<scn, bootVars, baseline, procVars, reader, signalVars, ctxDone, handlerVars, gaveUp>>
-----------------------------------------------------------------------------
(* The signal goroutine and its timer. *)

Signal ==
  /\ handler # "off" /\ scn.handles /\ ~signalled /\ main \in {"serving", "finishing", "closing"}
  /\ signalled' = TRUE
  /\ UNCHANGED <<scn, main, bootVars, baseline, procVars, reader, handler, termed, timer, ctxDone,
                 handlerVars, gaveUp>>

\* signalUpstream: the child and its group are signalled, and then the fallback is armed.
SignalUpstream ==
  /\ \/ handler = "listening" /\ signalled /\ handler' = "got" /\ UNCHANGED <<termed, timer>>
     \/ handler = "got" /\ handler' = "sent" /\ termed' = (termed \/ child # "reaped") /\ UNCHANGED timer
     \/ handler = "sent" /\ handler' = "done" /\ timer' = "armed" /\ UNCHANGED termed
  /\ UNCHANGED <<scn, main, bootVars, baseline, procVars, reader, signalled, ctxDone, handlerVars, gaveUp>>

KillTimerFires ==
  /\ timer = "armed" /\ timer' = "fired" /\ killUpstream
  /\ UNCHANGED <<scn, main, bootVars, baseline, reader, signalled, handler, termed, ctxDone, handlerVars,
                 gaveUp>>
-----------------------------------------------------------------------------
(* Start: the teardown. *)

\* signal.Stop and close(sigCh): a listening goroutine with nothing to read ends.  The
\* child's input is closed.
CloseInput ==
  /\ main = "closing" /\ main' = "draining"
  /\ handler' = IF handler = "listening" /\ ~signalled THEN "done" ELSE handler
  /\ input' = FALSE
  /\ UNCHANGED <<scn, bootVars, baseline, child, descendants, output, reader, signalled, termed, timer,
                 ctxDone, handlerVars, gaveUp>>

DrainWithoutKill ==
  /\ main = "draining"
  /\ reader = "ended"
  /\ main' = "stopping"
  /\ UNCHANGED <<scn, bootVars, baseline, procVars, reader, signalVars, ctxDone, handlerVars, gaveUp>>

\* awaitUpstreamDrain: the reader is done, or the delay passed and the upstream is killed.
awaitUpstreamDrain ==
  /\ main = "draining"
  /\ \/ reader = "ended" /\ main' = "stopping" /\ UNCHANGED procVars
     \/ main' = "forced" /\ killUpstream
  /\ UNCHANGED <<scn, bootVars, baseline, reader, signalVars, ctxDone, handlerVars, gaveUp>>

\* The wait after the kill is bounded too: a descendant may hold the output open.
AwaitForced ==
  /\ main = "forced" /\ main' = "stopping"
  /\ \/ reader = "ended" /\ UNCHANGED gaveUp
     \/ gaveUp' = gaveUp \cup {"reader"}
  /\ UNCHANGED <<scn, bootVars, baseline, procVars, reader, signalVars, ctxDone, handlerVars>>

stopKillTimer ==
  /\ main = "stopping" /\ main' = "waiting"
  /\ timer' = IF timer = "armed" THEN "stopped" ELSE timer
  /\ UNCHANGED <<scn, bootVars, baseline, procVars, reader, signalled, handler, termed, ctxDone,
                 handlerVars, gaveUp>>

\* Wait, which nothing bounds; it closes the read end of the output.
waitUpstream ==
  /\ main = "waiting" /\ child = "exited"
  /\ child' = "reaped" /\ main' = "drainHost"
  /\ UNCHANGED <<scn, bootVars, baseline, descendants, input, output, reader, signalVars, ctxDone,
                 handlerVars, gaveUp>>

\* The two bounded drains of the handlers.
awaitHostDecisionsDrained ==
  /\ main = "drainHost" /\ main' = "drainServer"
  /\ \/ hostHandlers = 0 /\ UNCHANGED gaveUp
     \/ hostHandlers > 0 /\ gaveUp' = gaveUp \cup {"host"}
  /\ UNCHANGED <<scn, bootVars, baseline, procVars, reader, signalVars, ctxDone, handlerVars>>

SkipServerDrain ==
  /\ main = "drainServer" /\ main' = "releasing"
  /\ UNCHANGED <<scn, bootVars, baseline, procVars, reader, signalVars, ctxDone, handlerVars, gaveUp>>

awaitServerRequestsDrained ==
  /\ main = "drainServer" /\ main' = "releasing"
  /\ \/ serverHandlers = 0 /\ UNCHANGED gaveUp
     \/ serverHandlers > 0 /\ gaveUp' = gaveUp \cup {"server"}
  /\ UNCHANGED <<scn, bootVars, baseline, procVars, reader, signalVars, ctxDone, handlerVars>>

ReleaseSession ==
  /\ main = "releasing" /\ main' = "returned" /\ baseline' = None
  /\ UNCHANGED <<scn, bootVars, procVars, reader, signalVars, ctxDone, handlerVars, gaveUp>>

Over == main \in {"failed", "returned"}
Boot == SendOpener \/ OpenerReply \/ SendCompletion \/ SendProbe \/ PageReply \/ StartupReadFails
        \/ RecordListing \/ CheckDrift
Teardown == CloseInput \/ awaitUpstreamDrain \/ AwaitForced \/ stopKillTimer \/ waitUpstream
            \/ awaitHostDecisionsDrained \/ awaitServerRequestsDrained \/ ReleaseSession
StartSteps == connectUpstream \/ StartServing \/ StartFails \/ BudgetExpires \/ Reap \/ ServeReturns \/ Teardown

\* Start has returned: the proxy's process ends with it.
LifeNext ==
  \/ /\ ~Over
     /\ \/ StartSteps \/ Boot
        \/ ChildExits \/ \E d \in descendants : DescendantExits(d)
        \/ Cancel \/ HostRequest \/ HostCloses \/ Signal
        \/ ReadUpstream \/ ReaderEnds \/ HostHandlerReturns \/ ServerHandlerReturns \/ WriterPoisoned
        \/ SignalUpstream \/ KillTimerFires
  \/ Over /\ UNCHANGED lifeVars

LifeSpec == LifeInit /\ [][LifeNext]_lifeVars

\* Start's own goroutine and its timers make progress; so do the reader, a host
\* handler, a child that heeds what it is told.  The host, the upstream's answers and the signals
\* owe nothing.
LifeFairness ==
  /\ WF_lifeVars(~Over /\ StartSteps)
  /\ WF_lifeVars(~Over /\ ReaderEnds)
  /\ WF_lifeVars(~Over /\ HostHandlerReturns)
  /\ WF_lifeVars(~Over /\ Told /\ ChildExits)
-----------------------------------------------------------------------------
(* Properties. *)

\* The listing the upstream would have given, all pages of it and none refused.
Last1 == CHOOSE n \in 1..Len(scn.pages) : scn.pages[n].next = None /\ \A k \in 1..(n - 1) : scn.pages[k].next # None
WholeListing ==
  UNION {scn.pages[k].tools : k \in 1..(IF \E n \in 1..Len(scn.pages) : scn.pages[n].next = None
                                        THEN Last1 ELSE Len(scn.pages))}

Served == main \in {"serving", "finishing"}

\* Start, stdio.go:449-479, with FetchAllToolPages and MakeDriftCheck: a session is served
\* only if every pinned tool was listed and every entry under its name, on whichever page,
\* has the pinned hash and can be read one way only; under strict checking only if no tool
\* is governed by a pattern for want of an entry of its own.
ServedAsReviewed ==
  Served /\ scn.manifest # None =>
    /\ \A c \in scn.manifest.caps :
         c.tool /\ ~c.glob /\ c.pin # None =>
           /\ \E t \in WholeListing : t.name \in c.names
           /\ \A t \in WholeListing : t.name \in c.names => t.hash = c.pin /\ t.clear
    /\ scn.strict =>
         /\ probe # None
         /\ \A t \in WholeListing, c \in scn.manifest.caps :
              c.tool /\ c.glob /\ t.name \in c.names =>
                \E d \in scn.manifest.caps : d.tool /\ t.name \in d.names /\ ~d.principal
                                             /\ (~d.glob \/ d.score > c.score)

\* stdio.go:454-462: the surface a session is pinned to is the whole listing, never the
\* pages read before a failure; and a start the drift check refused leaves none behind.
BaselineIsTheWholeListing ==
  /\ baseline # None => baseline = WholeListing /\ probe # None
  /\ main = "failed" /\ boot = "done" /\ bootErr = "error" => baseline = None

\* What is served was reviewed, on a baseline that is a whole listing (Start,
\* FetchAllToolPages, MakeDriftCheck).
StartIsVetted == ServedAsReviewed /\ BaselineIsTheWholeListing

\* stdio.go:549-554 and awaitDrained: the session's state is released only when no handler
\* that could still decide on it runs, or the wait for it reached its bound.
ReleaseSparesDecisions ==
  [][main' = "returned" /\ main # "returned" =>
       /\ hostHandlers = 0 \/ "host" \in gaveUp
       /\ serverHandlers = 0 \/ {"server", "reader"} \cap gaveUp # {}]_lifeVars

\* stdio.go:480-491, 541: when Start returns, the child was reaped, unless the bounded reap
\* of a failed start gave up; and nothing of its group is left holding the output, unless an
\* upstream that broke off its output was never killed.
NoChildLeft ==
  Over /\ child # "unborn" => /\ child = "reaped" \/ (main = "failed" /\ "reap" \in gaveUp)
                              /\ child # "running"
                              /\ main = "failed" \/ ~scn.breaksOff => "group" \notin descendants

\* Teardown is complete and in order: state is released after the decisions on it, and
\* when Start has returned no child is left (Start's teardown, killUpstreamProcess).
TeardownIsComplete == ReleaseSparesDecisions /\ []NoChildLeft

\* stdio.go:720-744, 798-821: once a start or a teardown has begun it ends, in service or
\* with Start's return.
StartReturns == <>[](main \in {"serving", "failed", "returned"})
=============================================================================
