---------------------------- MODULE ManifestDrift ----------------------------
(***************************************************************************)
(* The start-up comparison of a manifest with the tools an upstream lists   *)
(* (internal/drift/drift.go): which entries cover a tool, what each entry   *)
(* finds wrong, and whether the session may start.                          *)
(*                                                                          *)
(* A manifest is [caps, version]; an entry of it is a record                *)
(*   names, glob, score  what its target matches, whether it is a pattern,  *)
(*                       and how specific it is when it is one              *)
(*   tool                whether the target is a tool: target               *)
(*   principal           whether it applies to some callers only            *)
(*   pin                 its descriptionHash, or None                       *)
(*   reviewed            the arguments its conditions name                  *)
(*   schema              its argumentSchema, or None                        *)
(* and a live tool is [name, hash, live, clear]: what is hashed of it, its  *)
(* inputSchema or None, and whether the entry's JSON keys are unambiguous.  *)
(* Schemas are functions from the paths of arguments they declare; the root *)
(* is <<>>.  The manifest's side gives each path [type, closed], the live   *)
(* side a type; a type is "any" where it is a union or absent.              *)
(***************************************************************************)
EXTENDS Naturals, Sequences, SequencesExt

CONSTANT None

Exact == 1000  \* exactMatchSpecificity: above every pattern's score

Matches(c, name) == c.tool /\ name \in c.names
Specificity(c) == IF c.glob THEN c.score ELSE Exact
IsExactTool(c) == c.tool /\ ~c.glob
IsPinnedExactTool(c) == IsExactTool(c) /\ c.pin # None

\* A broken reading: only the most specific entries cover, whoever they are for.
MostSpecificOnly(caps, name) ==
  {c \in caps : Matches(c, name) /\ \A d \in caps : Matches(d, name) => Specificity(d) <= Specificity(c)}

\* coveringMatches: every entry that could govern some caller's call.  One for some callers
\* only hides none of the others.
coveringMatches(caps, name) ==
  {c \in caps :
     /\ Matches(c, name)
     /\ \A d \in caps : Matches(d, name) /\ ~d.principal => Specificity(d) <= Specificity(c)}

Parent(p) == Front(p)
TypesCompatible(want, got) ==
  want = got \/ {want, got} \subseteq {"number", "integer"} \/ "any" \in {want, got}

\* pinnedArgumentNames, without the arguments nested in others.
PinnedArguments(c) ==
  c.reviewed \cup (IF c.schema = None THEN {} ELSE {p[1] : p \in {q \in DOMAIN c.schema : Len(q) = 1}})

\* collectStructuralDrift: what a closed level does not declare, but for a top-level
\* argument a condition has reviewed, and what changed its type.  A level is compared when
\* both sides have every level above it.
structuralDrift(c, live) ==
  LET declared == DOMAIN c.schema
      both == declared \cap DOMAIN live
  IN  {p \in DOMAIN live \ {<<>>} :
         \/ /\ p \notin declared /\ Parent(p) \in both /\ c.schema[Parent(p)].closed
            /\ ~(Len(p) = 1 /\ p[1] \in c.reviewed)
         \/ p \in both /\ ~TypesCompatible(c.schema[p].type, live[p])}

Warn(kind, of) == [kind |-> kind, of |-> of]

\* fm1, fm5, and fm3 with fm6 or, without an inputSchema, schema_absent.
ToolWarnings(c, t) ==
  {Warn("fm1", t.name) : x \in {y \in {1} : c.glob}}
  \cup {Warn("fm5", t.name) : x \in {y \in {1} : IsPinnedExactTool(c) /\ t.hash # c.pin}}
  \cup (IF t.live = None
        THEN {Warn("schemaAbsent", t.name) : x \in {y \in {1} : PinnedArguments(c) # {}}}
        ELSE {Warn("fm3", t.name) : a \in {a \in PinnedArguments(c) : <<a>> \notin DOMAIN t.live}}
             \cup {Warn("fm6", t.name) : p \in {p \in DOMAIN t.live : c.schema # None /\ IsExactTool(c)
                                                                       /\ p \in structuralDrift(c, t.live)}})

\* matchServerVersion: segment by segment; a last "*" takes one segment or more.
matchServerVersion(want, got) ==
  \/ want = <<>>
  \/ /\ Len(got) >= Len(want) /\ got # <<>>
     /\ \A i \in 1..Len(want) : want[i] \in {"*", got[i]}
     /\ Last(want) # "*" => Len(got) = Len(want)

AbsentWarnings(caps, tools) ==
  {Warn(IF \E d \in caps : d.names = c.names /\ d.glob = c.glob /\ IsPinnedExactTool(d)
        THEN "fm2Pinned" ELSE "fm2", c.names) :
     c \in {c \in caps : c.tool /\ \A t \in tools : ~Matches(c, t.name)}}

CheckManifestDrift(m, tools, version) ==
  {Warn("fm4", m.version) : x \in {y \in {1} : ~matchServerVersion(m.version, version)}}
  \cup (UNION {LET covering == coveringMatches(m.caps, t.name)
               IN  IF covering = {} THEN {Warn("uncovered", t.name)}
                   ELSE UNION {ToolWarnings(c, t) : c \in covering} : t \in tools})
  \cup AbsentWarnings(m.caps, tools)

IsFatal(w) == w.kind \in {"fm1", "fm2", "fm4", "fm6", "fm2Pinned"}
IsCritical(w) == w.kind \in {"fm5", "fm2Pinned"}

evaluateDrift(m, tools, version, strict) ==
  LET warnings == CheckManifestDrift(m, tools, version)
  IN  /\ \A w \in warnings : ~IsCritical(w)
      /\ strict => \A w \in warnings : ~IsFatal(w)

manifestHasPinnedDescriptions(m) == \E c \in m.caps : IsPinnedExactTool(c)

driftProbeUnavailable(m, strict) == ~manifestHasPinnedDescriptions(m) /\ ~strict

\* MakeDriftCheck's function: whether the session may start on this listing, or on none.
\* ParseToolsListResult refuses a listing one of whose entries can be read two ways.
driftCheck(m, listing, version, strict) ==
  IF listing = None \/ \E t \in listing : ~t.clear
  THEN driftProbeUnavailable(m, strict)
  ELSE evaluateDrift(m, listing, version, strict)
==============================================================================
