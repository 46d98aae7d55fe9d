----------------------------- MODULE EdgeSources -----------------------------
(***************************************************************************)
(* The edges that leave one artifact and the set of sources declaring      *)
(* each, under concurrent callers of AddEdgeSource, RemoveEdgeSource,      *)
(* AddEdge and RemoveEdge.  On SQLite the first two are several statements *)
(* without a transaction: the set is read on a reader connection and       *)
(* written back whole.  MemoryStore runs each call under its mutex.        *)
(* Targets stands for the <<relation, target>> pairs; weights are left out.*)
(***************************************************************************)
EXTENDS FiniteSets

CONSTANTS
    Targets,
    Sources,
    Callers,
    Backend,    \* "sqlite" or "memory"
    Ops         \* the calls made, a subset of AllOps

AllOps == {"add", "remove", "link", "unlink"}

ASSUME EdgeSourcesAssumption ==
    /\ "manual" \in Sources
    /\ Backend \in {"sqlite", "memory"}
    /\ Ops \subseteq AllOps
    /\ Targets # {}

VARIABLES
    linked,     \* the targets there is an edge to
    sources,    \* [Targets -> its source set; {} where there is no edge]
    calls       \* [Callers -> the call in progress, or how the last one ended]

edgeVars == <<linked, sources, calls>>

Call == [op : AllOps, to : Targets, source : Sources, set : SUBSET Sources,
         at : {"start", "read", "update", "delete", "done", "failed"}]

NoCall == [op |-> "link", to |-> CHOOSE t \in Targets : TRUE, source |-> "manual",
           set |-> {}, at |-> "done"]

Returned(c) == calls[c].at \in {"done", "failed"}

EdgesInit ==
    /\ linked = {}
    /\ sources = [t \in Targets |-> {}]
    /\ calls = [c \in Callers |-> NoCall]

Begin(c, op, t, s) ==
    /\ Returned(c)
    /\ calls' = [calls EXCEPT ![c] =
                    [op |-> op, to |-> t, source |-> s, set |-> {}, at |-> "start"]]
    /\ UNCHANGED <<linked, sources>>

Move(c, at) == calls' = [calls EXCEPT ![c].at = at]

Return(c, at) == calls' = [calls EXCEPT ![c] = [NoCall EXCEPT !.at = at]]

At(c, op, at) == calls[c].op = op /\ calls[c].at = at

\* Continue at `at`, holding the set to write back.
Hold(c, at, set) == calls' = [calls EXCEPT ![c].at = at, ![c].set = set]

Store(t, set) ==
    /\ linked' = linked \union {t}
    /\ sources' = [sources EXCEPT ![t] = set]

Drop(t) ==
    /\ linked' = linked \ {t}
    /\ sources' = [sources EXCEPT ![t] = {}]

UnchangedEdges == UNCHANGED <<linked, sources>>

------------------------------------------------------------------------------
(* SQLiteStore.                                                            *)

\* INSERT OR IGNORE with the one source; an existing edge is read next.
InsertSource(c) ==
    /\ Backend = "sqlite"
    /\ At(c, "add", "start")
    /\ LET k == calls[c]
       IN  IF k.to \in linked THEN Move(c, "read") /\ UnchangedEdges
                              ELSE Return(c, "done") /\ Store(k.to, {k.source})

\* (mutant) the set is replaced
MergedOnly(old, s) == {s}

\* addToSourceSet
Merged(old, s) == old \union {s}

ReadToAdd(c) ==
    /\ At(c, "add", "read")
    /\ LET k == calls[c]
           merged == Merged(sources[k.to], k.source)
       IN  \/ k.to \notin linked /\ Return(c, "failed")
           \/ k.to \in linked /\ merged = sources[k.to] /\ Return(c, "done")
           \/ k.to \in linked /\ merged # sources[k.to] /\ Hold(c, "update", merged)
    /\ UnchangedEdges

\* (mutant) only a missing edge has nothing left
RemovesEdgeNever(remaining) == FALSE

RemovesEdge(remaining) == remaining = {}

\* removeFromSourceSet, and what is to be done with the result.
ReadToRemove(c) ==
    /\ Backend = "sqlite"
    /\ At(c, "remove", "start")
    /\ LET k == calls[c]
           remaining == sources[k.to] \ {k.source}
       IN  CASE k.to \notin linked -> Return(c, "done")
             [] k.to \in linked /\ RemovesEdge(remaining) -> Move(c, "delete")
             [] k.to \in linked /\ ~RemovesEdge(remaining) /\ remaining = sources[k.to] ->
                    Return(c, "done")
             [] OTHER -> Hold(c, "update", remaining)
    /\ UnchangedEdges

\* UPDATE of whatever row is there now; none is no error.
UpdateSources(c) ==
    /\ calls[c].at = "update"
    /\ LET k == calls[c]
       IN  IF k.to \in linked THEN Store(k.to, k.set) ELSE UnchangedEdges
    /\ Return(c, "done")

DeleteEdge(c) ==
    /\ calls[c].at = "delete"
    /\ Drop(calls[c].to)
    /\ Return(c, "done")

------------------------------------------------------------------------------
(* MemoryStore.  An edge it is given by AddEdge has no sources.            *)

AddInMemory(c) ==
    /\ Backend = "memory"
    /\ At(c, "add", "start")
    /\ Store(calls[c].to, Merged(sources[calls[c].to], calls[c].source))
    /\ Return(c, "done")

RemoveInMemory(c) ==
    /\ Backend = "memory"
    /\ At(c, "remove", "start")
    /\ LET t == calls[c].to
           remaining == sources[t] \ {calls[c].source}
       IN  CASE t \notin linked -> UnchangedEdges
             [] t \in linked /\ RemovesEdge(remaining) -> Drop(t)
             [] OTHER -> Store(t, remaining)
    /\ Return(c, "done")

------------------------------------------------------------------------------
(* Both: AddEdge is INSERT OR IGNORE of a manual edge on SQLite, and       *)
(* replaces the edge in memory.  RemoveEdge removes it, whoever declared it.*)

AddEdge(c) ==
    /\ At(c, "link", "start")
    /\ LET t == calls[c].to
       IN  CASE Backend = "memory" -> Store(t, {})
             [] Backend = "sqlite" /\ t \notin linked -> Store(t, {"manual"})
             [] OTHER -> UnchangedEdges
    /\ Return(c, "done")

RemoveEdge(c) ==
    /\ At(c, "unlink", "start")
    /\ Drop(calls[c].to)
    /\ Return(c, "done")

------------------------------------------------------------------------------
Advance(c) ==
    \/ InsertSource(c) \/ ReadToAdd(c) \/ ReadToRemove(c) \/ UpdateSources(c) \/ DeleteEdge(c)
    \/ AddInMemory(c) \/ RemoveInMemory(c)
    \/ AddEdge(c) \/ RemoveEdge(c)

EdgesNext ==
    \E c \in Callers :
        \/ \E op \in Ops, t \in Targets, s \in Sources : Begin(c, op, t, s)
        \/ Advance(c)

EdgesSpec == EdgesInit /\ [][EdgesNext]_edgeVars

------------------------------------------------------------------------------
(* Properties.                                                             *)

EdgesTypeOK ==
    /\ linked \subseteq Targets
    /\ sources \in [Targets -> SUBSET Sources]
    /\ calls \in [Callers -> Call]
    /\ \A c \in Callers : calls[c].at = "update" => calls[c].set # {}

\* An edge is stored exactly while some source declares it, however the
\* statements of concurrent calls interleave (store.go, on RemoveEdgeSource).
LinkedIffDeclared == \A t \in Targets : t \in linked <=> sources[t] # {}

\* Every call of AddEdgeSource, RemoveEdgeSource and RemoveEdge that answers no
\* error takes effect at one instant, and none is lost (store.go, GraphStore).
Abstract == INSTANCE SourceSets
              WITH declared <- sources,
                   pending <- [c \in Callers |->
                       IF Returned(c) THEN {}
                       ELSE {[op |-> calls[c].op, to |-> calls[c].to, source |-> calls[c].source]}],
                   failed <- {c \in Callers : calls[c].at = "failed"}
SourceSetsSpec == Abstract!Spec
==============================================================================
