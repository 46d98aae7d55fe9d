------------------------------ MODULE Lifecycle ------------------------------
(***************************************************************************)
(* The work graph of the protocol layer: artifacts with a lifecycle        *)
(* status, parent_of and depends_on edges, and the operations that move    *)
(* them.  SetField(status), LinkArtifacts, UnlinkArtifacts, SetField       *)
(* (parent, depends_on), CreateArtifact and DeleteArtifact are sequences   *)
(* of store calls, each atomic, and another agent may run between any two. *)
(* A status change runs the reconcilers, which change further statuses:    *)
(* an agent therefore holds a stack of frames, as the Go call stack does.  *)
(*                                                                         *)
(* The reads one guard makes (all children, all dependencies) are one      *)
(* step.  Labels other than the status, sections, scopes and events are    *)
(* left out; quality gates and templates are taken to be absent.           *)
(***************************************************************************)
EXTENDS Naturals, Sequences, FiniteSets

CONSTANTS
    Artifacts,      \* artifact ids
    Agents,         \* concurrent callers of the protocol
    KindOf,         \* [Artifacts -> Kinds]: the kind an id has when created
    Ready,          \* ids that hold the sections activation requires
    Ops,            \* the operations the callers use, a subset of AllOps
    Targets,        \* the statuses the callers ask for
    Forces,         \* the force flags the callers use
    Careful,        \* TRUE: callers name stored artifacts, and create only free ids
    Linkable,       \* the <<from, to>> pairs the callers connect
    Seeded,         \* ids stored at the start, in their default status
    SeedParents,    \* parent_of edges at the start
    SeedDeps        \* depends_on edges at the start

Kinds == {"effort.campaign", "effort.goal", "effort.task", "knowledge.context"}

AllOps == {"status", "parent_of", "depends_on", "unlink", "setparent",
           "setdeps", "create", "delete"}

Statuses == {"work.draft", "work.active", "work.blocked", "work.complete",
             "cancelled", "retired", "archived"}

None == "none"      \* no artifact, or no row with this id

ASSUME LifecycleAssumption ==
    /\ None \notin Artifacts
    /\ KindOf \in [Artifacts -> Kinds]
    /\ Ops \subseteq AllOps
    /\ Targets \subseteq Statuses
    /\ Forces \subseteq BOOLEAN
    /\ Careful \in BOOLEAN
    /\ Linkable \subseteq Artifacts \X Artifacts
    /\ Seeded \subseteq Artifacts
    /\ SeedParents \subseteq Seeded \X Seeded
    /\ SeedDeps \subseteq Seeded \X Seeded

VARIABLES
    status,     \* [Artifacts -> status, or None when there is no row]
    parentOf,   \* the parent_of edges
    dependsOn,  \* the depends_on edges
    stack,      \* [Agents -> call stack, the innermost frame last]
    touched     \* history: what the agent's current or last operation closed or opened

vars == <<status, parentOf, dependsOn, stack, touched>>

------------------------------------------------------------------------------
(* The vocabulary: label traits and relationships of the seeded registry.  *)

Terminal == {"work.complete", "cancelled", "retired", "archived"}

Container == {"effort.campaign", "effort.goal"}

\* (mutant) statuses before the work.* migration
DefaultStatusOld(k) == IF k = "knowledge.context" THEN "active" ELSE "draft"

DefaultStatus(k) == IF k = "knowledge.context" THEN "work.active" ELSE "work.draft"

\* ActiveStatus of a kind, or work.active for a kind that declares none.
ActiveStatus == "work.active"

TaskTransitions ==
    {<<"work.draft", "work.active">>, <<"work.draft", "work.complete">>,
     <<"work.draft", "cancelled">>, <<"work.active", "work.complete">>,
     <<"work.active", "work.draft">>, <<"work.active", "cancelled">>,
     <<"work.blocked", "work.active">>, <<"work.blocked", "work.draft">>,
     <<"work.blocked", "cancelled">>, <<"work.complete", "retired">>,
     <<"work.complete", "archived">>, <<"cancelled", "work.draft">>,
     <<"cancelled", "retired">>, <<"cancelled", "archived">>}

\* A kind without declared transitions accepts every registered status;
\* cancelled is a label trait but not a registered status.
ValidateStatus(k, from, to) ==
    IF k = "effort.task" THEN from = to \/ <<from, to>> \in TaskTransitions
                         ELSE to # "cancelled"

AllowedChild ==
    {<<"effort.campaign", "effort.goal">>, <<"effort.goal", "effort.task">>}
        \union ({"knowledge.context"} \X Kinds)

\* (mutant) any child under a kind that may have children
ValidChildAny(p, c) == KindOf[p] \in Container \union {"knowledge.context"}

ValidChild(p, c) == <<KindOf[p], KindOf[c]>> \in AllowedChild

\* (mutant) only the first relationship found is enforced
MaxParentsGoalOnly(k) == IF k = "effort.goal" THEN 1 ELSE 0

\* maxIncoming of the parent_of relationships into a kind; 0 is unlimited.
MaxParents(k) == IF k \in {"effort.goal", "effort.task"} THEN 1 ELSE 0

------------------------------------------------------------------------------
(* Store reads.                                                            *)

Exists(x) == status[x] # None

Parents(x) == {p \in Artifacts : <<p, x>> \in parentOf}

\* Children joins the edges with the rows: a dangling edge yields nothing.
Children(x) == {c \in Artifacts : <<x, c>> \in parentOf /\ Exists(c)}

ChildrenTerminal(x) == \A c \in Children(x) : status[c] \in Terminal

DependsTerminal(x) ==
    \A d \in Artifacts : <<x, d>> \in dependsOn /\ Exists(d) => status[d] \in Terminal

\* x is reached from y along one or more edges of E.
Reaches(E, y, x) ==
    \A S \in SUBSET Artifacts :
        (\A e \in E : e[1] = y \/ e[1] \in S => e[2] \in S) => x \in S

\* (mutant) a walk of depth one
WouldCycleShallow(E, from, to) == from = to \/ <<to, from>> \in E

\* Walk from `to` meets `from`: the edge from -> to would close a loop.
WouldCycle(E, from, to) == from = to \/ Reaches(E, to, from)

------------------------------------------------------------------------------
(* Call stacks.  A frame holds the locals of one protocol function:        *)
(*   pc     where it is          snap   the status read into its artifact  *)
(*   id     its artifact         to     the status it asks for, or read of *)
(*   force  its force flag              the link target                    *)
(*   other  the second artifact  todo   edges still to visit               *)
(*   cur    the ancestor reached by a cycle check, or the dependency       *)

PCs == {"children", "deps", "put", "auto", "rollup", "rollnext", "reopen",
        "climb", "maxparents", "linkadd", "cycle", "adddep", "parentcycle",
        "oldparents", "unparent", "olddeps", "undep", "create", "cparent", "cdep"}

Frame == [pc : PCs, id : Artifacts, snap : Statuses \union {None},
          to : Statuses \union {None}, force : BOOLEAN,
          other : Artifacts \union {None}, cur : Artifacts \union {None},
          todo : SUBSET Artifacts]

StatusFrame(pc, x, snap, to, force) ==
    [pc |-> pc, id |-> x, snap |-> snap, to |-> to, force |-> force,
     other |-> None, cur |-> None, todo |-> {}]

EdgeFrame(pc, x, snap, to, other, cur, todo) ==
    [pc |-> pc, id |-> x, snap |-> snap, to |-> to, force |-> FALSE,
     other |-> other, cur |-> cur, todo |-> todo]

Idle(a) == stack[a] = <<>>
Top(a) == stack[a][Len(stack[a])]
At(a, pc) == ~Idle(a) /\ Top(a).pc = pc

Begin(a, f) ==
    /\ Idle(a)
    /\ stack' = [stack EXCEPT ![a] = <<f>>]
    /\ touched' = [touched EXCEPT ![a] = {}]

Return(a) == stack' = [stack EXCEPT ![a] = SubSeq(@, 1, Len(@) - 1)]

Become(a, f) == stack' = [stack EXCEPT ![a] = [@ EXCEPT ![Len(@)] = f]]

\* Continue as f once the callee g has returned.
Call(a, f, g) ==
    stack' = [stack EXCEPT ![a] = Append([@ EXCEPT ![Len(@)] = f], g)]

Touch(a, hows, x) == touched' = [touched EXCEPT ![a] = @ \union (hows \X {x})]

graph == <<parentOf, dependsOn>>

------------------------------------------------------------------------------
Init ==
    /\ status = [x \in Artifacts |-> IF x \in Seeded THEN DefaultStatus(KindOf[x]) ELSE None]
    /\ parentOf = SeedParents
    /\ dependsOn = SeedDeps
    /\ stack = [a \in Agents |-> <<>>]
    /\ touched = [a \in Agents |-> {}]

------------------------------------------------------------------------------
(* SetField(status): validation, the guards of the rules, the write, and   *)
(* the reconcilers the write triggers.                                     *)

\* required_sections: a task is activated with its must- and should-sections present.
Activatable(x, to) == to = "work.active" /\ KindOf[x] = "effort.task" => x \in Ready

\* (mutant) the container guard dropped
FirstGuardDeps(to) == IF to = "work.complete" THEN "deps" ELSE "put"

FirstGuard(to) == IF to = "work.complete" THEN "children" ELSE "put"

SetStatus(a, x, to, force) ==
    /\ "status" \in Ops
    /\ Exists(x)
    /\ force \/ (ValidateStatus(KindOf[x], status[x], to) /\ Activatable(x, to))
    /\ Begin(a, StatusFrame(FirstGuard(to), x, status[x], to, force))
    /\ UNCHANGED <<status, graph>>

\* (mutant) the flag read the wrong way round
AfterChildrenInverted(f) == IF f.force THEN "deps" ELSE "put"

AfterChildren(f) == IF f.force THEN "put" ELSE "deps"

\* children_complete, which force does not bypass.
GuardChildrenComplete(a) ==
    /\ At(a, "children")
    /\ LET f == Top(a)
       IN  IF ChildrenTerminal(f.id)
           THEN Become(a, [f EXCEPT !.pc = AfterChildren(f)])
           ELSE Return(a)
    /\ UNCHANGED <<status, graph, touched>>

GuardDependsOnComplete(a) ==
    /\ At(a, "deps")
    /\ LET f == Top(a)
       IN  IF DependsTerminal(f.id) THEN Become(a, [f EXCEPT !.pc = "put"]) ELSE Return(a)
    /\ UNCHANGED <<status, graph, touched>>

\* (mutant) only completion, not every closing status, is rolled up
ReconcilerComplete(from, to) ==
    IF to = "work.complete" THEN "auto"
    ELSE IF from \in Terminal /\ to \notin Terminal THEN "climb" ELSE "none"

\* (mutant) no reconciler for a reopened artifact
ReconcilerNoReopen(from, to) == IF to \in Terminal THEN "auto" ELSE "none"

\* The reconciler a write of `to` over the status `from` starts.
Reconciler(from, to) ==
    IF to \in Terminal THEN "auto" ELSE IF from \in Terminal THEN "climb" ELSE "none"

\* The write is an upsert of the whole row: it also brings a deleted row back.
PutStatus(a) ==
    /\ At(a, "put")
    /\ LET f == Top(a)
           next == Reconciler(f.snap, f.to)
       IN  /\ status' = [status EXCEPT ![f.id] = f.to]
           /\ IF next = "none" THEN Return(a) ELSE Become(a, [f EXCEPT !.pc = next])
           /\ Touch(a, IF f.to \in Terminal THEN {"closed"}
                       ELSE {"opened" : s \in {f.snap} \intersect Terminal}, f.id)
    /\ UNCHANGED graph

\* The parent is an unfinished container.
Open(p) == Exists(p) /\ status[p] \notin Terminal /\ KindOf[p] \in Container

Complete(p) == StatusFrame("children", p, status[p], "work.complete", FALSE)

\* The first parent only; the children that are stored decide.
AutoCompleteParent(a) ==
    /\ At(a, "auto")
    /\ LET rest == [Top(a) EXCEPT !.pc = "rollup"]
       IN  \/ Parents(Top(a).id) = {} /\ Become(a, rest)
           \/ \E p \in Parents(Top(a).id) :
                IF Open(p) /\ Children(p) # {} /\ ChildrenTerminal(p)
                THEN Call(a, rest, Complete(p))
                ELSE Become(a, rest)
    /\ UNCHANGED <<status, graph, touched>>

StartRollup(a) ==
    /\ At(a, "rollup")
    /\ Become(a, [Top(a) EXCEPT !.pc = "rollnext", !.todo = Parents(Top(a).id)])
    /\ UNCHANGED <<status, graph, touched>>

\* Every parent edge in turn; a child edge that dangles counts as unfinished.
AllEdgesDone(p) ==
    LET targets == {c \in Artifacts : <<p, c>> \in parentOf}
    IN  targets # {} /\ \A c \in targets : status[c] \in Terminal

CompletionRollup(a) ==
    /\ At(a, "rollnext")
    /\ LET f == Top(a)
       IN  \/ f.todo = {} /\ Return(a)
           \/ \E p \in f.todo :
                LET rest == [f EXCEPT !.todo = @ \ {p}]
                IN  IF Open(p) /\ AllEdgesDone(p)
                    THEN Call(a, rest, Complete(p))
                    ELSE Become(a, rest)
    /\ UNCHANGED <<status, graph, touched>>

\* A forced write of the active status, as reopenAncestors makes.
Activate(x, from) == StatusFrame("put", x, from, ActiveStatus, TRUE)

\* reopenAncestors on the artifact the caller has read.
ReopenAncestors(a) ==
    /\ At(a, "reopen")
    /\ LET f == Top(a)
           rest == [f EXCEPT !.pc = "climb"]
       IN  IF f.snap \in Terminal THEN Call(a, rest, Activate(f.id, f.snap))
                                  ELSE Become(a, rest)
    /\ UNCHANGED <<status, graph, touched>>

\* (mutant) the loop variable is not advanced
AscendNot(f, p) == f

Ascend(f, p) == [f EXCEPT !.id = p]

\* One turn of its loop: the first parent is read, and reopened if it is closed.
ClimbToParent(a) ==
    /\ At(a, "climb")
    /\ LET f == Top(a)
       IN  \/ Parents(f.id) = {} /\ Return(a)
           \/ \E p \in Parents(f.id) :
                CASE ~Exists(p) -> Return(a)
                  [] status[p] \in Terminal ->
                        Call(a, Ascend(f, p), Activate(p, status[p]))
                  [] OTHER -> Become(a, Ascend(f, p))
    /\ UNCHANGED <<status, graph, touched>>

------------------------------------------------------------------------------
(* LinkArtifacts and UnlinkArtifacts.  Several targets in one call behave  *)
(* as calls with one target each: no guard of one target depends on        *)
(* another's edge.                                                         *)

LinkParentOf(a, p, c) ==
    /\ "parent_of" \in Ops
    /\ Exists(p) /\ Exists(c)
    /\ ValidChild(p, c)
    /\ Begin(a, EdgeFrame("maxparents", p, status[p], status[c], c, None, {}))
    /\ UNCHANGED <<status, graph>>

CheckMaxParents(a) ==
    /\ At(a, "maxparents")
    /\ LET f == Top(a)
           max == MaxParents(KindOf[f.other])
       IN  IF max > 0 /\ Cardinality(Parents(f.other)) + 1 > max
           THEN Return(a)
           ELSE Become(a, [f EXCEPT !.pc = "linkadd"])
    /\ UNCHANGED <<status, graph, touched>>

OpensAncestors(f) == f.to \notin Terminal

\* An unfinished child reopens its new ancestors, from the parent as it was read.
AddParentEdge(a) ==
    /\ At(a, "linkadd")
    /\ LET f == Top(a)
       IN  /\ parentOf' = parentOf \union {<<f.id, f.other>>}
           /\ IF OpensAncestors(f) THEN Become(a, [f EXCEPT !.pc = "reopen"]) ELSE Return(a)
           /\ Touch(a, {"opened" : s \in {f.to} \ Terminal}, f.other)
    /\ UNCHANGED <<status, dependsOn>>

LinkDependsOn(a, x, d) ==
    /\ "depends_on" \in Ops
    /\ Exists(x) /\ Exists(d)
    /\ KindOf[x] # "knowledge.context"
    /\ Begin(a, EdgeFrame("cycle", x, None, None, None, d, {}))
    /\ UNCHANGED <<status, graph>>

CheckCycle(a) ==
    /\ At(a, "cycle")
    /\ LET f == Top(a)
       IN  IF WouldCycle(dependsOn, f.id, f.cur) THEN Return(a)
                                                 ELSE Become(a, [f EXCEPT !.pc = "adddep"])
    /\ UNCHANGED <<status, graph, touched>>

AddDependsOn(a) ==
    /\ At(a, "adddep")
    /\ dependsOn' = dependsOn \union {<<Top(a).id, Top(a).cur>>}
    /\ Return(a)
    /\ UNCHANGED <<status, parentOf, touched>>

\* No guard and no reconciler: the edge is removed whatever it leaves behind.
Unlink(a, x, y) ==
    /\ "unlink" \in Ops
    /\ Idle(a)
    /\ \/ parentOf' = parentOf \ {<<x, y>>} /\ UNCHANGED dependsOn
       \/ dependsOn' = dependsOn \ {<<x, y>>} /\ UNCHANGED parentOf
    /\ touched' = [touched EXCEPT ![a] = {}]
    /\ UNCHANGED <<status, stack>>

------------------------------------------------------------------------------
(* SetField(parent) and SetField(depends_on).                              *)

\* p = None clears the parent.  A parent that is not stored is not refused.
SetParent(a, x, p) ==
    /\ "setparent" \in Ops
    /\ Exists(x)
    /\ p # None =>
         /\ Careful => Exists(p)
         /\ Exists(p) => ValidChild(p, x)
         /\ p # x
    /\ Begin(a, EdgeFrame(IF p = None THEN "oldparents" ELSE "parentcycle",
                          x, None, None, p, p, {}))
    /\ UNCHANGED <<status, graph>>

\* One turn of wouldCycleParent: the first parent of the ancestor reached.
CheckParentCycle(a) ==
    /\ At(a, "parentcycle")
    /\ LET f == Top(a)
       IN  \/ Parents(f.cur) = {} /\ Become(a, [f EXCEPT !.pc = "oldparents"])
           \/ \E q \in Parents(f.cur) :
                IF q = f.id THEN Return(a) ELSE Become(a, [f EXCEPT !.cur = q])
    /\ UNCHANGED <<status, graph, touched>>

ReadOldParents(a) ==
    /\ At(a, "oldparents")
    /\ Become(a, [Top(a) EXCEPT !.pc = "unparent", !.todo = Parents(Top(a).id)])
    /\ UNCHANGED <<status, graph, touched>>

\* The parent edges read are removed one by one, then the new one is added.
ReplaceParent(a) ==
    /\ At(a, "unparent")
    /\ LET f == Top(a)
       IN  \/ \E p \in f.todo :
                /\ parentOf' = parentOf \ {<<p, f.id>>}
                /\ Become(a, [f EXCEPT !.todo = @ \ {p}])
           \/ /\ f.todo = {}
              /\ parentOf' = IF f.other = None THEN parentOf
                                               ELSE parentOf \union {<<f.other, f.id>>}
              /\ Return(a)
    /\ UNCHANGED <<status, dependsOn, touched>>

\* A comma-separated list behaves as one call per dependency.  Whether the
\* dependency is stored is not checked.
SetDependsOn(a, x, d) ==
    /\ "setdeps" \in Ops
    /\ Exists(x)
    /\ d # None /\ Careful => Exists(d)
    /\ Begin(a, EdgeFrame(IF d = None THEN "olddeps" ELSE "cycle",
                          x, None, None, None, d, {}))
    /\ UNCHANGED <<status, graph>>

ReadOldDependencies(a) ==
    /\ At(a, "olddeps")
    /\ Become(a, [Top(a) EXCEPT !.pc = "undep",
                                !.todo = {d \in Artifacts : <<Top(a).id, d>> \in dependsOn}])
    /\ UNCHANGED <<status, graph, touched>>

ClearDependsOn(a) ==
    /\ At(a, "undep")
    /\ LET f == Top(a)
       IN  \/ \E d \in f.todo : /\ dependsOn' = dependsOn \ {<<f.id, d>>}
                                /\ Become(a, [f EXCEPT !.todo = @ \ {d}])
           \/ f.todo = {} /\ Return(a) /\ UNCHANGED dependsOn
    /\ UNCHANGED <<status, parentOf, touched>>

------------------------------------------------------------------------------
(* CreateArtifact and DeleteArtifact.                                      *)

\* The parent must allow the kind if it is stored; otherwise nothing is checked.
CreateArtifact(a, x, s, p, d) ==
    /\ "create" \in Ops
    /\ ValidateStatus(KindOf[x], s, s)
    /\ Careful => ~Exists(x) /\ (p # None => Exists(p)) /\ (d # None => Exists(d))
    /\ p # None /\ Exists(p) => ValidChild(p, x)
    /\ Begin(a, EdgeFrame("create", x, None, s, p, d, {}))
    /\ UNCHANGED <<status, graph>>

\* An id in use is overwritten.
PutNew(a) ==
    /\ At(a, "create")
    /\ status' = [status EXCEPT ![Top(a).id] = Top(a).to]
    /\ Become(a, [Top(a) EXCEPT !.pc = "cparent"])
    /\ UNCHANGED <<graph, touched>>

AddNewParent(a) ==
    /\ At(a, "cparent")
    /\ LET f == Top(a)
       IN  parentOf' = IF f.other = None THEN parentOf ELSE parentOf \union {<<f.other, f.id>>}
    /\ Become(a, [Top(a) EXCEPT !.pc = "cdep"])
    /\ UNCHANGED <<status, dependsOn, touched>>

\* A dependency that is not stored is an error after the row was written.
AddNewDependency(a) ==
    /\ At(a, "cdep")
    /\ LET f == Top(a)
       IN  dependsOn' = IF f.cur # None /\ Exists(f.cur)
                        THEN dependsOn \union {<<f.id, f.cur>>} ELSE dependsOn
    /\ Return(a)
    /\ UNCHANGED <<status, parentOf, touched>>

\* (mutant) only the edges that leave x
DetachedOutgoing(E, x) == {e \in E : e[1] # x}

Detached(E, x) == {e \in E : x \notin {e[1], e[2]}}

\* One transaction: the row and every edge at either end.
Delete(a, x) ==
    /\ "delete" \in Ops
    /\ Idle(a)
    /\ Exists(x)
    /\ status' = [status EXCEPT ![x] = None]
    /\ parentOf' = Detached(parentOf, x)
    /\ dependsOn' = Detached(dependsOn, x)
    /\ touched' = [touched EXCEPT ![a] = {}]
    /\ UNCHANGED stack

------------------------------------------------------------------------------
Start(a) ==
    \/ \E x \in Artifacts, to \in Targets, force \in Forces : SetStatus(a, x, to, force)
    \/ \E e \in Linkable : \/ LinkParentOf(a, e[1], e[2])
                           \/ LinkDependsOn(a, e[1], e[2])
                           \/ Unlink(a, e[1], e[2])
                           \/ SetParent(a, e[2], e[1])
                           \/ SetDependsOn(a, e[1], e[2])
    \/ \E x \in Artifacts : \/ SetParent(a, x, None)
                            \/ SetDependsOn(a, x, None)
                            \/ Delete(a, x)
    \/ \E x \in Artifacts : \E s \in Targets \union {DefaultStatus(KindOf[x])},
             p \in {None} \union {e[1] : e \in {l \in Linkable : l[2] = x}},
             d \in {None} \union {e[2] : e \in {l \in Linkable : l[1] = x}} :
                CreateArtifact(a, x, s, p, d)

Advance(a) ==
    \/ GuardChildrenComplete(a) \/ GuardDependsOnComplete(a) \/ PutStatus(a)
    \/ AutoCompleteParent(a) \/ StartRollup(a) \/ CompletionRollup(a)
    \/ ReopenAncestors(a) \/ ClimbToParent(a)
    \/ CheckMaxParents(a) \/ AddParentEdge(a) \/ CheckCycle(a) \/ AddDependsOn(a)
    \/ CheckParentCycle(a) \/ ReadOldParents(a) \/ ReplaceParent(a)
    \/ ReadOldDependencies(a) \/ ClearDependsOn(a)
    \/ PutNew(a) \/ AddNewParent(a) \/ AddNewDependency(a)

Next == \E a \in Agents : Start(a) \/ Advance(a)

Spec == Init /\ [][Next]_vars

\* A call that has begun runs to its end: the Go scheduler runs every goroutine.
FairSpec == Spec /\ \A a \in Agents : WF_vars(Advance(a))

------------------------------------------------------------------------------
(* Properties.                                                             *)

Rows == [Artifacts -> Statuses \union {None}]

TypeOK ==
    /\ status \in Rows
    /\ parentOf \subseteq Artifacts \X Artifacts
    /\ dependsOn \subseteq Artifacts \X Artifacts
    /\ stack \in [Agents -> Seq(Frame)]
    /\ touched \in [Agents -> SUBSET ({"closed", "opened"} \X Artifacts)]

Completes(x) == Exists(x) /\ status[x] # "work.complete" /\ status'[x] = "work.complete"

\* Nothing is completed over an unfinished child, forced or not
\* (guardChildrenComplete; rule children_complete is not forceable).
ChildrenFirst == [][\A x \in Artifacts : Completes(x) => ChildrenTerminal(x)]_vars

\* Nothing is completed over an unfinished dependency unless the caller forced
\* it; the rollup never forces (guardDependsOnComplete, setStatus).
DependenciesFirst ==
    [][\A x \in Artifacts : Completes(x) =>
          \/ DependsTerminal(x)
          \/ \E a \in Agents : At(a, "put") /\ Top(a).id = x /\ Top(a).force]_vars

Quiet == \A a \in Agents : Idle(a)

Touched(how) == {x \in Artifacts : \E a \in Agents : <<how, x>> \in touched[a]}

\* When a call that closed x has returned, every container above x that could be
\* completed has been: one left open has an unfinished or dangling child, or an
\* unfinished dependency (autoCompleteParent, completionRollup, recursively).
RollupReaches ==
    Quiet => \A x \in Touched("closed") : Exists(x) /\ status[x] \in Terminal =>
                \A p \in Parents(x) : Open(p) => ~AllEdgesDone(p) \/ ~DependsTerminal(p)

\* When a call that reopened x, or linked it unfinished under a parent, has
\* returned, no ancestor of x is closed (reopenAncestors).
ReopenReaches ==
    Quiet => \A x \in Touched("opened") : Exists(x) /\ status[x] \notin Terminal =>
                \A p \in Artifacts :
                    Exists(p) /\ Reaches(parentOf, p, x) => status[p] \notin Terminal

\* maxIncoming: 1 - a goal or a task never gets a second parent, although linking
\* counts the parents in one store call and adds the edge in another.
OneParent ==
    \A x \in Artifacts :
        KindOf[x] \in {"effort.goal", "effort.task"} => Cardinality(Parents(x)) <= 1

\* Relationships are a closed world: whichever operation wrote a parent_of edge,
\* a relationship permits it (isEdgeAllowed, ValidChild).
ClosedWorld ==
    \A e \in parentOf : Exists(e[1]) /\ Exists(e[2]) => <<KindOf[e[1]], KindOf[e[2]]>> \in AllowedChild

\* Edges join stored artifacts: callers that name stored ones leave no dangling
\* edge, whatever they delete and create again (Delete, CreateArtifact).
NoDangling == Quiet => \A e \in parentOf \union dependsOn : Exists(e[1]) /\ Exists(e[2])

\* cycleGuard: true - no operation or sequence of operations closes a loop of
\* depends_on edges.
DependsOnAcyclic == \A x \in Artifacts : ~Reaches(dependsOn, x, x)

\* Setting a parent never closes a loop of parent_of edges, given that none of
\* the other operations does (wouldCycleParent).
ParentsAcyclic == \A x \in Artifacts : ~Reaches(parentOf, x, x)

\* An unforced write moves a task along its transition map, from the status the
\* row has when it is written (ValidateStatus).
TransitionMap ==
    [][\A a \in Agents : At(a, "put") /\ stack'[a] # stack[a] /\ ~Top(a).force =>
          LET x == Top(a).id IN ValidateStatus(KindOf[x], status[x], status'[x])]_vars

\* Every call returns: rollups and reopenings that trigger each other end.
CallsReturn == \A a \in Agents : []<>Idle(a)

==============================================================================
