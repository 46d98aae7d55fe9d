---------------------------- MODULE WikilinkSync -----------------------------
(***************************************************************************)
(* AttachSection writes the text of an artifact and then SyncWikilinks     *)
(* makes the "wikilink" source of its outgoing edges follow that text,     *)
(* while others link the same artifacts by hand (LinkArtifacts: AddEdge).  *)
(* The text is the set of targets it mentions; all of them resolve.        *)
(* LinkArtifacts makes no AddEdge where it has read an edge, which comes   *)
(* to the same on SQLite: AddEdge leaves an edge that is there alone.      *)
(***************************************************************************)
EXTENDS EdgeSources

CONSTANT Editors    \* the callers that edit the text; the others link by hand

ASSUME WikilinkAssumption == Editors \subseteq Callers /\ "wikilink" \in Sources

VARIABLES
    text,       \* the targets the stored text mentions
    sync,       \* [Editors -> locals of AttachSection and SyncWikilinks]
    manual      \* history: targets linked by hand and not unlinked since

vars == <<edgeVars, text, sync, manual>>

Sync == [at : {"idle", "read", "edges", "apply"},
         missing : SUBSET Targets, surplus : SUBSET Targets]

Init ==
    /\ EdgesInit
    /\ text = {}
    /\ sync = [e \in Editors |-> [at |-> "idle", missing |-> {}, surplus |-> {}]]
    /\ manual = {}

\* Get, change the section, Put; then SyncWikilinks.
AttachSection(e, T) ==
    /\ sync[e].at = "idle"
    /\ text' = T
    /\ sync' = [sync EXCEPT ![e].at = "read"]
    /\ UNCHANGED <<edgeVars, manual>>

\* desired: the artifact is read again.
ReadText(e) ==
    /\ sync[e].at = "read"
    /\ sync' = [sync EXCEPT ![e] = [at |-> "edges", missing |-> text, surplus |-> {}]]
    /\ UNCHANGED <<edgeVars, text, manual>>

\* wikilinkEdges
Existing == {t \in linked : "wikilink" \in sources[t]}

\* (mutant) what is no longer mentioned stays
SurplusNone(desired) == {}

Surplus(desired) == Existing \ desired

ReadEdges(e) ==
    /\ sync[e].at = "edges"
    /\ LET desired == sync[e].missing
       IN  sync' = [sync EXCEPT ![e] = [at |-> "apply", missing |-> desired \ Existing,
                                        surplus |-> Surplus(desired)]]
    /\ UNCHANGED <<edgeVars, text, manual>>

\* A source is added or removed per target; errors are logged and passed over.
AddMissing(e, t) ==
    /\ sync[e].at = "apply"
    /\ t \in sync[e].missing
    /\ Begin(e, "add", t, "wikilink")
    /\ sync' = [sync EXCEPT ![e].missing = @ \ {t}]
    /\ UNCHANGED <<text, manual>>

RemoveSurplus(e, t) ==
    /\ sync[e].at = "apply"
    /\ sync[e].missing = {}
    /\ t \in sync[e].surplus
    /\ Begin(e, "remove", t, "wikilink")
    /\ sync' = [sync EXCEPT ![e].surplus = @ \ {t}]
    /\ UNCHANGED <<text, manual>>

Applied(e) == sync[e].missing = {} /\ sync[e].surplus = {}

SyncReturn(e) ==
    /\ sync[e].at = "apply"
    /\ Applied(e)
    /\ Returned(e)
    /\ sync' = [sync EXCEPT ![e].at = "idle"]
    /\ UNCHANGED <<edgeVars, text, manual>>

Linker(c, op, t) ==
    /\ op \in Ops
    /\ Begin(c, op, t, "manual")
    /\ UNCHANGED <<text, sync, manual>>

CallStep(c) ==
    /\ Advance(c)
    /\ manual' = CASE At(c, "link", "start") -> manual \union {calls[c].to}
                   [] At(c, "unlink", "start") -> manual \ {calls[c].to}
                   [] OTHER -> manual
    /\ UNCHANGED <<text, sync>>

Editing(e) == ReadText(e) \/ ReadEdges(e) \/ SyncReturn(e)
              \/ \E t \in Targets : AddMissing(e, t) \/ RemoveSurplus(e, t)

Next ==
    \/ \E e \in Editors : Editing(e) \/ \E T \in SUBSET Targets : AttachSection(e, T)
    \/ \E c \in Callers \ Editors, op \in Ops, t \in Targets : Linker(c, op, t)
    \/ \E c \in Callers : CallStep(c)

Spec == Init /\ [][Next]_vars

------------------------------------------------------------------------------
(* Properties.                                                             *)

TypeOK ==
    /\ EdgesTypeOK
    /\ text \subseteq Targets
    /\ sync \in [Editors -> Sync]
    /\ \A e \in Editors : sync[e].at = "idle" =>
            sync[e].missing = {} /\ sync[e].surplus = {}
    /\ manual \subseteq Targets

\* When no edit is in progress, the wikilink edges are those of the text
\* (SyncWikilinks), whatever was linked by hand meanwhile.
WikilinksMatch == (\A e \in Editors : sync[e].at = "idle") => Existing = text

\* Syncing the text never takes the source of a manual edge away, nor its edge.
ManualKept ==
    [][\A t \in Targets : t \in linked /\ "manual" \in sources[t] =>
          \/ t \in linked' /\ "manual" \in sources'[t]
          \/ \E c \in Callers : At(c, "unlink", "start") /\ calls[c].to = t]_vars

\* An edge linked by hand stays until it is unlinked.
ManualSurvives == manual \subseteq linked
==============================================================================
