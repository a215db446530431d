----------------------------- MODULE MCDecision -----------------------------
(* The policy decision for TLC.  A behaviour is about one half of it: the    *)
(* engine's order and the state shared by instances and sessions             *)
(* (PolicyDecision), or what the decision points in front of the engine make *)
(* of a manifest, a token and the surfaces an upstream shows                 *)
(* (DecisionPoints).                                                         *)
EXTENDS PolicyDecision, DecisionPoints, TLC

CONSTANTS i1, i2, s1, s2, t1, r1, r2, r3,
          tool1, tool2, tool3, h1, h2, uri, sampling,
          Parts   \* the halves a run is about

VARIABLE part

Symmetry == Permutations(Requests)

-------------------------------------------------------------------------------
(* Calls of the engine.                                                        *)

\* A plain tool call that a policy with sequenceBlock records, on instance i1.
Plain ==
  [instance |-> i1, session |-> s1, task |-> NoTask, barred |-> FALSE, matched |-> TRUE,
   wellFormed |-> TRUE, anchorless |-> FALSE, sink |-> FALSE, allow |-> {}, declared |-> {},
   out |-> {}, after |-> {}, name |-> {"read"}, alias |-> {}, quota |-> FALSE,
   over |-> FALSE, observe |-> "no"]

Source == [Plain EXCEPT !.out = {"pii"}]
Sink == [Plain EXCEPT !.sink = TRUE, !.allow = {"web"}, !.name = {"send"}]
Gated == [Sink EXCEPT !.after = {"read"}, !.out = {"web"}]

OnTask(c) == [c EXCEPT !.task = t1]
Beside(c) == [c EXCEPT !.instance = i2, !.session = s2]

\* One instance, one session: every posture and refusal.
SessionCalls ==
  {Source, Sink, Gated,
   [Source EXCEPT !.alias = {"bare"}, !.out = {"pii", "web"}, !.quota = TRUE],
   [Source EXCEPT !.wellFormed = FALSE, !.observe = "entry"],
   [Source EXCEPT !.matched = FALSE, !.observe = "route"],
   [Gated EXCEPT !.quota = TRUE, !.observe = "route"],
   [Sink EXCEPT !.after = {"bare"}, !.declared = {"web"}, !.quota = TRUE, !.over = TRUE],
   [Source EXCEPT !.anchorless = TRUE, !.wellFormed = FALSE, !.observe = "route"],
   [Source EXCEPT !.barred = TRUE, !.observe = "route"]}

\* Two instances decide for one task; one of them also serves a session of its own.
TaskCalls ==
  {OnTask(Source), Beside(OnTask(Source)), Beside(OnTask(Sink)),
   OnTask([Source EXCEPT !.out = {"pii", "web"}, !.quota = TRUE]),
   Beside(OnTask([Gated EXCEPT !.quota = TRUE, !.observe = "entry"])),
   Source, Sink}

MixedCalls == SessionCalls \cup TaskCalls

\* A behaviour with a task in it is about the calls that serve the task.
OneSetting ==
  (\E r \in Requests : call[r] \in TaskCalls \ SessionCalls) => \A r \in Requests : call[r] \in TaskCalls

\* Two instances decide for one session id, derived from the caller's identity.
SharedSessionCalls ==
  {Source, Sink, [Source EXCEPT !.instance = i2]}

-------------------------------------------------------------------------------
(* Routes of the decision points: one session that may remember two of three   *)
(* tools, and two surfaces.                                                    *)

Entry(covers, exact) ==
  [covers |-> covers, exact |-> exact, principal |-> FALSE, acts |-> TRUE, schema |-> FALSE,
   redact |-> FALSE, source |-> FALSE, audit |-> FALSE, pin |-> None]
Tool1 == Entry({tool1}, TRUE)
AllTools == Entry({tool1, tool2, tool3}, FALSE)

\* Entries for tool1 alone, and patterns over every tool.
Exact == {Tool1, [Tool1 EXCEPT !.principal = TRUE, !.redact = TRUE],
          [Tool1 EXCEPT !.principal = TRUE, !.source = TRUE],
          [Tool1 EXCEPT !.acts = FALSE, !.audit = TRUE, !.source = TRUE],
          [Tool1 EXCEPT !.audit = TRUE, !.redact = TRUE, !.schema = TRUE],
          [Tool1 EXCEPT !.pin = h1], [Tool1 EXCEPT !.pin = h1, !.audit = TRUE, !.principal = TRUE]}
Glob == {[AllTools EXCEPT !.redact = TRUE, !.source = TRUE], [AllTools EXCEPT !.audit = TRUE]}
NoAction == [AllTools EXCEPT !.acts = FALSE]
NoTools == <<Entry({uri}, TRUE), Entry({sampling}, TRUE)>>

MCManifests ==
  {<<>>, <<NoAction, Tool1>>, <<NoAction, [Tool1 EXCEPT !.pin = h1]>>}
  \cup {<<e>> \o NoTools : e \in Exact} \cup {<<g, e>> : g \in Glob, e \in Exact}

Claims(cs) == [valid |-> TRUE, aud |-> TRUE, member |-> TRUE, caps |-> cs]
MCTokens ==
  {[Claims(None) EXCEPT !.valid = FALSE], [Claims({}) EXCEPT !.aud = FALSE],
   Claims(None), [Claims(None) EXCEPT !.member = FALSE],
   Claims({[covers |-> {tool1, uri}, cond |-> "none"]}),
   Claims({[covers |-> {tool1}, cond |-> "soft"], [covers |-> {tool1}, cond |-> "hard"]}),
   [Claims({[covers |-> {tool1}, cond |-> "soft"], [covers |-> {tool2}, cond |-> "pass"]})
      EXCEPT !.member = FALSE]}

List(a, b) ==
  [form |-> "ok", entries |-> (tool1 :> a @@ tool2 :> b @@ tool3 :> {}), doubtful |-> {}, hidden |-> FALSE]
MCListings ==
  {List({h1}, {h1}), [List({}, {}) EXCEPT !.entries[tool3] = {h1}],
     List({h2}, {}), List({h1, h2}, {}), List({}, {h2}),
     [List({}, {h1}) EXCEPT !.doubtful = {tool1}], [List({h1}, {}) EXCEPT !.hidden = TRUE],
     [List({}, {}) EXCEPT !.form = "bad"], [List({}, {}) EXCEPT !.form = "ambiguous"]}

-------------------------------------------------------------------------------
MCInit ==
  /\ part \in Parts
  /\ PointsInit
  /\ \/ part = "engine" /\ route = None
     \/ part = "points" /\ route # None /\ call = [r \in Requests |-> Source]
  /\ Init
  /\ OneSetting

MCNext ==
  /\ UNCHANGED part
  /\ \/ part = "engine" /\ Next /\ UNCHANGED pointVars
     \/ part = "points" /\ PointsNext /\ UNCHANGED vars

MCSpec == MCInit /\ [][MCNext]_<<part, vars, pointVars>>
=============================================================================
