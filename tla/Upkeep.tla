-------------------------------- MODULE Upkeep --------------------------------
(***************************************************************************)
(* The operations that maintain the work graph in bulk, next to the agents *)
(* of Lifecycle: SetField(status) over many ids, with Cascade, and         *)
(* BulkSetField, which ends in it; SetField of a field that is neither a   *)
(* status nor an edge; UpsertArtifact; Import of export records; Check and *)
(* CheckFix.  Each is a job: a sequence of store calls by a keeper between *)
(* which the agents change statuses.  The edges that upserts and imports   *)
(* write pass none of the guards of Lifecycle.                             *)
(*                                                                         *)
(* The store is the SQLite one, whose Get answers an error that Upsert     *)
(* does not take for "not found": an id that is not stored is refused.     *)
(* The List and ListEdges a check begins with are one step, as are the     *)
(* reads it makes of one artifact; wikilinks have a module of their own.   *)
(***************************************************************************)
EXTENDS Lifecycle

CONSTANTS
    Keepers,    \* the callers that run jobs
    Worked,     \* the ids whose status the other agents change
    Jobs,       \* the jobs the keepers run, a subset of AllJobs
    Bulks,      \* the sets of ids a bulk or cascading SetField is called with
    Upserts,    \* the <<id, parent, dependency>> UpsertArtifact is called with
    Records     \* export records: an id, a status and the outgoing edges

AllJobs == {"bulk", "cascade", "field", "upsert", "import", "check"}

RecordType == [id : Artifacts, status : Statuses,
               parentOf : SUBSET Artifacts, dependsOn : SUBSET Artifacts]

ASSUME UpkeepAssumption ==
    /\ Keepers \subseteq Agents
    /\ Worked \subseteq Artifacts
    /\ Jobs \subseteq AllJobs
    /\ Bulks \subseteq SUBSET Artifacts
    /\ Upserts \subseteq Artifacts \X (Artifacts \union {None}) \X (Artifacts \union {None})
    /\ Records \subseteq RecordType

VARIABLES
    job,        \* [Keepers -> the job it runs]
    mended      \* history: a CheckFix has returned, and no upsert or import began since

allVars == <<vars, job, mended>>

------------------------------------------------------------------------------
(* Jobs.  A job has its place (at) and the locals it still uses: the       *)
(* artifact it writes with the status it read, the ids and edges still to  *)
(* visit, the children a cascade still has to change, and the violations   *)
(* a check has found.                                                      *)

NoJob == [at |-> "none", id |-> None, snap |-> None, to |-> None, force |-> FALSE,
          cascade |-> FALSE, parent |-> None, dep |-> None, ids |-> {}, kids |-> {},
          closed |-> {}, parents |-> {}, deps |-> {}, found |-> {}]

Busy(k) == job[k].at # "none"

\* The keeper is between two store calls of its job, none of Lifecycle's under way.
In(k, place) == job[k].at = place /\ Idle(k)

Turn(k, j) == job' = [job EXCEPT ![k] = j]

Enter(k, kind, j) ==
    /\ kind \in Jobs
    /\ Idle(k) /\ ~Busy(k)
    /\ Turn(k, j)
    /\ UNCHANGED vars

UpkeepInit ==
    /\ Init
    /\ job = [k \in Keepers |-> NoJob]
    /\ mended = FALSE

------------------------------------------------------------------------------
(* SetField(status) over a list of ids, one after the other; a refusal     *)
(* does not end the list.  Cascade goes on to the stored children of an id *)
(* whose write succeeded, and no further.                                  *)

BulkSetField(k, S, to) ==
    /\ Enter(k, "bulk", [NoJob EXCEPT !.at = "list", !.ids = S, !.to = to])
    /\ UNCHANGED mended

\* Modelled for the statuses that close an artifact.
CascadeSetField(k, S, to, force) ==
    /\ to \in Terminal
    /\ Enter(k, "cascade", [NoJob EXCEPT !.at = "list", !.ids = S, !.to = to,
                                         !.force = force, !.cascade = TRUE])
    /\ UNCHANGED mended

Refused(x, to, force) ==
    \/ ~Exists(x)
    \/ ~force /\ ~(ValidateStatus(KindOf[x], status[x], to) /\ Activatable(x, to))

\* The children of an id come before the next id, and have no children visited.
SetNext(k) ==
    /\ In(k, "list") /\ job[k].id = None
    /\ LET j == job[k]
       IN  \E x \in IF j.kids = {} THEN j.ids ELSE j.kids :
             LET left == IF j.kids = {} THEN [j EXCEPT !.ids = @ \ {x}]
                                        ELSE [j EXCEPT !.kids = @ \ {x}]
             IN  \/ /\ SetStatus(k, x, j.to, j.force)
                    /\ Turn(k, IF j.kids = {} /\ j.cascade THEN [left EXCEPT !.id = x] ELSE left)
                 \/ /\ Refused(x, j.to, j.force)
                    /\ Turn(k, left)
                    /\ UNCHANGED vars
    /\ UNCHANGED mended

\* The write went through if this call closed the artifact.
ReadChildren(k) ==
    /\ In(k, "list") /\ job[k].id # None
    /\ LET x == job[k].id
           went == <<"closed", x>> \in touched[k]
       IN  Turn(k, [job[k] EXCEPT !.id = None,
                                  !.kids = IF went THEN Children(x) ELSE {},
                                  !.closed = IF went THEN @ \union {x} ELSE @])
    /\ UNCHANGED <<vars, mended>>

EndList(k) ==
    /\ In(k, "list")
    /\ job[k].id = None /\ job[k].ids = {} /\ job[k].kids = {}
    /\ Turn(k, NoJob)
    /\ UNCHANGED <<vars, mended>>

------------------------------------------------------------------------------
(* Writes of the whole row as it was read: its status is put back, with no *)
(* guard and no reconciler.                                                *)

SetOtherField(k, x) ==
    /\ Exists(x)
    /\ Enter(k, "field", [NoJob EXCEPT !.at = "row", !.id = x, !.snap = status[x]])
    /\ UNCHANGED mended

\* Merged labels keep the status the row had: it comes first among them.
UpsertArtifact(k, x, p, d) ==
    /\ Exists(x)
    /\ Enter(k, "upsert", [NoJob EXCEPT !.at = "row", !.id = x, !.snap = status[x],
                                        !.parent = p, !.dep = d])
    /\ mended' = FALSE

PutRow(k) ==
    /\ In(k, "row")
    /\ LET j == job[k]
       IN  /\ status' = [status EXCEPT ![j.id] = j.snap]
           /\ Turn(k, CASE j.parent # None -> [j EXCEPT !.at = "old parents"]
                        [] j.parent = None /\ j.dep # None -> [j EXCEPT !.at = "dep"]
                        [] OTHER -> NoJob)
    /\ UNCHANGED <<graph, stack, touched, mended>>

UpsertReadParents(k) ==
    /\ In(k, "old parents")
    /\ Turn(k, [job[k] EXCEPT !.at = "parent", !.parents = Parents(job[k].id)])
    /\ UNCHANGED <<vars, mended>>

\* Neither ValidChild, nor the number of parents, nor loops are looked at.
UpsertParent(k) ==
    /\ In(k, "parent")
    /\ LET j == job[k]
       IN  \/ \E p \in j.parents :
                /\ parentOf' = parentOf \ {<<p, j.id>>}
                /\ Turn(k, [j EXCEPT !.parents = @ \ {p}])
           \/ /\ j.parents = {}
              /\ parentOf' = parentOf \union {<<j.parent, j.id>>}
              /\ Turn(k, IF j.dep = None THEN NoJob ELSE [j EXCEPT !.at = "dep"])
    /\ UNCHANGED <<status, dependsOn, stack, touched, mended>>

\* A dependency that is not stored is an error; what was written stays.
UpsertDependency(k) ==
    /\ In(k, "dep")
    /\ dependsOn' = IF Exists(job[k].dep) THEN dependsOn \union {<<job[k].id, job[k].dep>>}
                                          ELSE dependsOn
    /\ Turn(k, NoJob)
    /\ UNCHANGED <<status, parentOf, stack, touched, mended>>

\* The record's row is put whatever is stored under its id, then its edges.
ImportRecord(k, r) ==
    /\ "import" \in Jobs
    /\ Idle(k) /\ ~Busy(k)
    /\ status' = [status EXCEPT ![r.id] = r.status]
    /\ Turn(k, [NoJob EXCEPT !.at = "edges", !.parents = {r.id} \X r.parentOf,
                             !.deps = {r.id} \X r.dependsOn])
    /\ mended' = FALSE
    /\ UNCHANGED <<graph, stack, touched>>

ImportEdge(k) ==
    /\ In(k, "edges")
    /\ LET j == job[k]
       IN  \/ \E e \in j.parents : /\ parentOf' = parentOf \union {e}
                                   /\ UNCHANGED dependsOn
                                   /\ Turn(k, [j EXCEPT !.parents = @ \ {e}])
           \/ \E e \in j.deps : /\ dependsOn' = dependsOn \union {e}
                                /\ UNCHANGED parentOf
                                /\ Turn(k, [j EXCEPT !.deps = @ \ {e}])
           \/ /\ j.parents = {} /\ j.deps = {}
              /\ Turn(k, NoJob)
              /\ UNCHANGED graph
    /\ UNCHANGED <<status, stack, touched, mended>>

------------------------------------------------------------------------------
(* Check: the violations CheckFix repairs.  A check follows the first      *)
(* parent of an artifact, which is any of them: the query has no order.    *)

\* One parent of every artifact that has one.
FirstParents ==
    {f \in [Artifacts -> Artifacts \union {None}] :
        \A x \in Artifacts : IF Parents(x) = {} THEN f[x] = None ELSE f[x] \in Parents(x)}

InvalidParent(x, first) ==
    first[x] # None /\ Exists(first[x]) /\ ~ValidChild(first[x], x)

\* Following first parents from x never ends, on a loop through x or above it.
ParentCycle(x, first) ==
    LET up == {<<y, first[y]>> : y \in {z \in Artifacts : first[z] # None}}
    IN  \E y \in Artifacts : (y = x \/ Reaches(up, x, y)) /\ Reaches(up, y, y)

\* isEdgeAllowed for depends_on, which the relationships allow to any kind.
MayDepend(x) == KindOf[x] # "knowledge.context"

InvalidRelation(x, deps) == ~MayDepend(x) /\ \E e \in deps : e[1] = x /\ Exists(e[2])

StartCheck(k) ==
    /\ Enter(k, "check", [NoJob EXCEPT !.at = "check", !.ids = {x \in Artifacts : Exists(x)},
                                       !.deps = dependsOn])
    /\ UNCHANGED mended

CheckArtifact(k) ==
    /\ In(k, "check")
    /\ \E x \in job[k].ids, first \in FirstParents :
         LET found == {c \in {"parent", "relation"} :
                \/ c = "parent" /\ (InvalidParent(x, first) \/ ParentCycle(x, first))
                \/ c = "relation" /\ InvalidRelation(x, job[k].deps)}
         IN  Turn(k, [job[k] EXCEPT !.ids = @ \ {x}, !.found = @ \union (found \X {x})])
    /\ UNCHANGED <<vars, mended>>

------------------------------------------------------------------------------
(* CheckFix: the edges of a violating artifact are read again, and removed *)
(* one by one.                                                             *)

StartFix(k) ==
    /\ In(k, "check") /\ job[k].ids = {}
    /\ Turn(k, [job[k] EXCEPT !.at = "fix", !.deps = {}])
    /\ UNCHANGED <<vars, mended>>

\* (mutant) only one of the parents is unset
OneParentEdge(x) == {<<p, x>> : p \in {q \in Parents(x) : q = CHOOSE r \in Parents(x) : TRUE}}

ParentEdges(x) == Parents(x) \X {x}

\* The next violation: which edges go.  All the parents, but only the relations
\* that are still not permitted.
FixNext(k) ==
    /\ In(k, "fix") /\ job[k].parents = {} /\ job[k].deps = {}
    /\ \E v \in job[k].found :
         LET x == v[2]
             rest == [job[k] EXCEPT !.found = @ \ {v}]
         IN  Turn(k, IF v[1] = "parent"
                     THEN [rest EXCEPT !.parents = ParentEdges(x)]
                     ELSE [rest EXCEPT !.deps =
                             {e \in dependsOn : e[1] = x /\ Exists(x) /\ Exists(e[2]) /\ ~MayDepend(x)}])
    /\ UNCHANGED <<vars, mended>>

RemoveEdge(k) ==
    /\ In(k, "fix")
    /\ \/ \E e \in job[k].parents : /\ parentOf' = parentOf \ {e}
                                    /\ UNCHANGED dependsOn
                                    /\ Turn(k, [job[k] EXCEPT !.parents = @ \ {e}])
       \/ \E e \in job[k].deps : /\ dependsOn' = dependsOn \ {e}
                                 /\ UNCHANGED parentOf
                                 /\ Turn(k, [job[k] EXCEPT !.deps = @ \ {e}])
    /\ UNCHANGED <<status, stack, touched, mended>>

EndFix(k) ==
    /\ In(k, "fix")
    /\ job[k].found = {} /\ job[k].parents = {} /\ job[k].deps = {}
    /\ Turn(k, NoJob)
    /\ mended' = TRUE
    /\ UNCHANGED vars

------------------------------------------------------------------------------
StartJob(k) ==
    \/ \E S \in Bulks, to \in Targets : BulkSetField(k, S, to)
    \/ \E S \in Bulks, to \in Targets, force \in Forces : CascadeSetField(k, S, to, force)
    \/ \E x \in Worked : SetOtherField(k, x)
    \/ \E u \in Upserts : UpsertArtifact(k, u[1], u[2], u[3])
    \/ \E r \in Records : ImportRecord(k, r)
    \/ StartCheck(k)

AdvanceJob(k) ==
    \/ SetNext(k) \/ ReadChildren(k) \/ EndList(k)
    \/ PutRow(k) \/ UpsertReadParents(k) \/ UpsertParent(k) \/ UpsertDependency(k)
    \/ ImportEdge(k)
    \/ CheckArtifact(k) \/ StartFix(k) \/ FixNext(k) \/ RemoveEdge(k) \/ EndFix(k)

Work(a) ==
    /\ \E x \in Worked, to \in Targets, force \in Forces : SetStatus(a, x, to, force)
    /\ UNCHANGED <<job, mended>>

Proceed(a) == Advance(a) /\ UNCHANGED <<job, mended>>

UpkeepNext ==
    \/ \E a \in Agents \ Keepers : Work(a)
    \/ \E a \in Agents : Proceed(a)
    \/ \E k \in Keepers : StartJob(k) \/ AdvanceJob(k)

UpkeepSpec == UpkeepInit /\ [][UpkeepNext]_allVars

\* A call or job that has begun runs to its end.
FairUpkeepSpec ==
    /\ UpkeepSpec
    /\ \A a \in Agents : WF_allVars(Proceed(a))
    /\ \A k \in Keepers : WF_allVars(AdvanceJob(k))

------------------------------------------------------------------------------
(* Properties.                                                             *)

\* A CheckFix that runs while nobody else writes edges leaves a graph in which
\* every parent_of edge is permitted, none is on a loop, and every dependency is
\* permitted, whatever upserts and imports wrote before (Check, CheckFix).
Repaired ==
    mended =>
        /\ \A e \in parentOf : Exists(e[1]) /\ Exists(e[2]) => ValidChild(e[1], e[2])
        /\ \A x \in Artifacts : ~Reaches(parentOf, x, x)
        /\ \A e \in dependsOn : Exists(e[1]) /\ Exists(e[2]) => MayDepend(e[1])

\* Every call and every job returns, whatever the others' rollups, reopenings and
\* repairs do meanwhile (SetField, UpsertArtifact, CheckFix).
JobsReturn ==
    /\ \A a \in Agents : []<>Idle(a)
    /\ \A k \in Keepers : []<>(~Busy(k))

\* A cascade is applied "recursively to children": when it ends, nothing below an
\* artifact it closed is unfinished (SetFieldOptions.Cascade).
CascadeReaches ==
    [][\A k \in Keepers : \A x \in job[k].closed : EndList(k) =>
          \A y \in Artifacts : Exists(y) /\ Reaches(parentOf, x, y) => status[y] \in Terminal]_allVars

\* CheckFix removes no parent_of edge that is permitted and on no loop: a parent
\* set meanwhile, or of an artifact that only hangs below a loop (CheckFix).
FixKeepsValid ==
    [][\A k \in Keepers : \A e \in parentOf \ parentOf' : RemoveEdge(k) =>
          \/ Exists(e[1]) /\ Exists(e[2]) /\ ~ValidChild(e[1], e[2])
          \/ Reaches(parentOf, e[1], e[1])]_allVars

\* Only a status change changes a status: a write of another field leaves it to
\* whoever set it last (SetField, UpsertArtifact).
StatusKept == [][\A k \in Keepers : PutRow(k) => status' = status]_allVars

==============================================================================
