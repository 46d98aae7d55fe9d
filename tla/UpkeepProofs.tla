----------------------------- MODULE UpkeepProofs -----------------------------
(* Proofs about Upkeep, for every set of artifacts and agents, with one    *)
(* keeper: a CheckFix repairs the graph, although it follows one parent    *)
(* of each artifact only.                                                  *)
EXTENDS Upkeep, LifecycleProofs

------------------------------------------------------------------------------
(* What the callers, and the edges there can be, must be like.             *)

\* The jobs run one after another.
OneKeeper == \A k, l \in Keepers : k = l

\* Every parent_of edge that anything writes.
Possible ==
    SeedParents \union {<<u[2], u[1]>> : u \in {v \in Upserts : v[2] # None}}
                \union UNION {{r.id} \X r.parentOf : r \in Records}

\* Whichever parent of x a check follows, it is one to be removed.
Unfit(x) ==
    /\ x \in Seeded
    /\ \A e \in Possible : e[2] = x => \/ e[1] = x
                                       \/ e[1] \in Seeded /\ ~ValidChild(e[1], x)

\* A check cannot be misled by the parent it follows: an artifact only ever has
\* one, or none that may stay.
Telling ==
    \A x \in Artifacts : \/ Unfit(x)
                         \/ \A d, e \in Possible : d[2] = x /\ e[2] = x => d = e

LEMMA PossibleType == Possible \subseteq Artifacts \X Artifacts
<1>1. SeedParents \subseteq Artifacts \X Artifacts
  BY LifecycleAssumption
<1>2. ASSUME NEW u \in Upserts, u[2] # None PROVE <<u[2], u[1]>> \in Artifacts \X Artifacts
  BY <1>2, UpkeepAssumption
<1>3. ASSUME NEW r \in Records PROVE {r.id} \X r.parentOf \subseteq Artifacts \X Artifacts
  BY UpkeepAssumption DEF RecordType
<1> QED
  BY <1>1, <1>2, <1>3 DEF Possible

------------------------------------------------------------------------------
(* Loops.                                                                  *)

LEMMA ReachEdge ==
    ASSUME NEW E, NEW x, NEW y, <<y, x>> \in E
    PROVE  Reaches(E, y, x)
  BY DEF Reaches

\* One edge further.
LEMMA ReachOn ==
    ASSUME NEW E, NEW x, NEW y, NEW z, Reaches(E, y, x), <<x, z>> \in E
    PROVE  Reaches(E, y, z)
  BY DEF Reaches

\* One edge earlier.
LEMMA ReachBefore ==
    ASSUME NEW E, NEW x, NEW y, NEW z, Reaches(E, y, x), <<z, y>> \in E
    PROVE  Reaches(E, z, x)
  BY DEF Reaches

\* With more edges, no less is reached.
LEMMA ReachMore ==
    ASSUME NEW E, NEW F, E \subseteq F, NEW x, NEW y, Reaches(E, y, x)
    PROVE  Reaches(F, y, x)
  BY DEF Reaches

\* The last edge of the way.
LEMMA ReachLast ==
    ASSUME NEW E \in SUBSET (Artifacts \X Artifacts), NEW x \in Artifacts, NEW y \in Artifacts,
           Reaches(E, y, x)
    PROVE  \E z \in Artifacts : <<z, x>> \in E /\ (z = y \/ Reaches(E, y, z))
<1> SUFFICES ASSUME \A z \in Artifacts : <<z, x>> \in E => z # y /\ ~Reaches(E, y, z)
             PROVE  FALSE
  OBVIOUS
<1>1. PICK R : R = {z \in Artifacts : Reaches(E, y, z) /\ z # x}
  OBVIOUS
<1>2. Closed(E, y, R)
  <2> SUFFICES ASSUME NEW e \in E, e[1] = y \/ e[1] \in R PROVE e[2] \in R
    BY DEF Closed
  <2>1. e = <<e[1], e[2]>> /\ e[1] \in Artifacts /\ e[2] \in Artifacts
    OBVIOUS
  <2>2. e[2] # x
    BY <1>1, <2>1
  <2>3. Reaches(E, y, e[2])
    BY <1>1, <2>1, ReachEdge, ReachOn
  <2> QED
    BY <1>1, <2>1, <2>2, <2>3
<1> QED
  BY <1>1, <1>2, NotReached

\* The way back along the edges turned round.
LEMMA ReachBack ==
    ASSUME NEW E \in SUBSET (Artifacts \X Artifacts), NEW F, \A e \in E : <<e[2], e[1]>> \in F,
           NEW x \in Artifacts, NEW y \in Artifacts, Reaches(E, y, x)
    PROVE  Reaches(F, x, y)
<1> SUFFICES ASSUME NEW S \in SUBSET Artifacts, Closed(F, x, S), y \notin S PROVE FALSE
  BY NotReached
<1>1. PICK T : T = Artifacts \ (S \union {x})
  OBVIOUS
<1>2. Closed(E, y, T)
  <2> SUFFICES ASSUME NEW e \in E, e[1] = y \/ e[1] \in T, e[2] \notin T PROVE FALSE
    BY DEF Closed
  <2>1. PICK d \in F : d = <<e[2], e[1]>>
    OBVIOUS
  <2>2. d[1] = e[2] /\ d[2] = e[1] /\ e[2] \in Artifacts
    BY <2>1
  <2>3. d[2] \in S
    BY <1>1, <2>2 DEF Closed
  <2> QED
    BY <1>1, <2>2, <2>3
<1> QED
  BY <1>1, <1>2, NotReached

------------------------------------------------------------------------------
(* The agents.  They change statuses, so whatever they do in between, rows *)
(* stay and no edge is written.                                            *)

SameRows == \A x \in Artifacts : Exists(x)' <=> Exists(x)

\* A call changes statuses, of stored artifacts.
ChangesStatus(a) ==
    /\ Inner(a)
    /\ Idle(a) \/ Asking(Top(a))
    /\ \A f \in Frames(a) : Exists(f.id)

LEMMA ChangesPermitted ==
    ASSUME NEW a \in Agents, ChangesStatus(a)
    PROVE  MayGoOn(a)
  BY AskingPermitted DEF ChangesStatus, MayGoOn

LEMMA ChangesStable ==
    ASSUME NEW a \in Agents, NEW b \in Agents \ {a}, TypeInv, OthersStay(a), SameRows,
           ChangesStatus(b)
    PROVE  ChangesStatus(b)'
<1>1. stack'[b] = stack[b]
  BY DEF OthersStay
<1>2. \A f \in Frames(b) : f.id \in Artifacts
  BY FramesNow DEF GoodFrame, Frame
<1>3. Frames(b)' = Frames(b) /\ Top(b)' = Top(b) /\ Idle(b)' = Idle(b) /\ Inner(b)' = Inner(b)
  BY <1>1 DEF Frames, Top, Idle, Inner
<1> QED
  BY <1>2, <1>3 DEF ChangesStatus, SameRows, Asking

\* The steps of a call, on the rows and the artifacts it is at.
LEMMA StatusStepRows ==
    ASSUME TypeInv, NEW a \in Agents, ChangesStatus(a), StatusStep(a)
    PROVE  SameRows /\ \A f \in Frames(a)' : Exists(f.id)'
<1>0. PICK f : f = Top(a)
  OBVIOUS
<1> USE <1>0 DEF At
<1>1. ~Idle(a)
  BY DEF StatusStep, GuardChildrenComplete, GuardDependsOnComplete, PutStatus,
         AutoCompleteParent, StartRollup, CompletionRollup, ReopenAncestors, ClimbToParent
<1>2. f \in GoodFrame /\ f \in Frame /\ f \in Frames(a) /\ Below(a) \subseteq Frames(a)
  BY <1>1, TopType, FramesNow DEF GoodFrame
<1>3. Asking(f) /\ Exists(f.id) /\ f.id \in Artifacts
  BY <1>1, <1>2 DEF ChangesStatus, Frame
<1>4. \A g \in Below(a) : g \in GoodFrame /\ g.id \in Artifacts /\ Exists(g.id)
  BY <1>2, FramesNow DEF ChangesStatus, GoodFrame, Frame
<1> DEFINE Done == SameRows /\ \A g \in Frames(a)' : Exists(g.id)'
<1>5. ASSUME UNCHANGED status, NEW N, Frames(a)' \subseteq Below(a) \union N,
             \A g \in N : Exists(g.id)
      PROVE  Done
  <2>1. SameRows /\ \A x : Exists(x)' <=> Exists(x)
    BY <1>5 DEF SameRows, Exists
  <2> QED
    BY <1>4, <1>5, <2>1
<1>r. ASSUME UNCHANGED status, Return(a) PROVE Done
  <2>1. PICK N : N = {}
    OBVIOUS
  <2>2. Frames(a)' \subseteq Below(a) \union N /\ \A x \in N : Exists(x.id)
    BY <1>1, <1>r, <2>1, FramesNext
  <2> QED
    BY <1>r, <1>5, <2>2
<1>b. ASSUME UNCHANGED status, NEW g, Become(a, g), Exists(g.id) PROVE Done
  <2>1. PICK N : N = {g}
    OBVIOUS
  <2>2. Frames(a)' \subseteq Below(a) \union N /\ \A x \in N : Exists(x.id)
    BY <1>1, <1>b, <2>1, FramesNext
  <2> QED
    BY <1>b, <1>5, <2>2
<1>c. ASSUME UNCHANGED status, NEW g \in GoodFrame, NEW h \in GoodFrame, Call(a, g, h),
             Exists(g.id), Exists(h.id)
      PROVE  Done
  <2>1. PICK N : N = {g, h}
    OBVIOUS
  <2>2. Frames(a)' \subseteq Below(a) \union N /\ \A x \in N : Exists(x.id)
    BY <1>1, <1>c, <2>1, FramesNext
  <2> QED
    BY <1>c, <1>5, <2>2
<1>k. ASSUME NEW p \in Artifacts, Exists(p)
      PROVE  Complete(p) \in GoodFrame /\ Complete(p).id = p
  BY <1>k, StoreType, StatusFrameType DEF Complete, StatusFrame, FreePCs, PCs, Statuses
<1>l. ASSUME NEW p \in Artifacts, NEW from \in Statuses \union {None}
      PROVE  Activate(p, from) \in GoodFrame /\ Activate(p, from).id = p
  BY StatusFrameType DEF Activate, ActiveStatus, StatusFrame, FreePCs, PCs, Statuses
<1>u. /\ \A pc \in FreePCs : [f EXCEPT !.pc = pc] \in GoodFrame /\ [f EXCEPT !.pc = pc].id = f.id
      /\ \A p \in Artifacts : [f EXCEPT !.id = p].id = p
      /\ f.pc \in FreePCs => \A p \in Artifacts : [f EXCEPT !.id = p] \in GoodFrame
      /\ \A T : [f EXCEPT !.pc = "rollnext", !.todo = T].id = f.id
      /\ \A p : [f EXCEPT !.todo = @ \ {p}] \in GoodFrame /\ [f EXCEPT !.todo = @ \ {p}].id = f.id
  BY <1>2 DEF GoodFrame, Frame, FreePCs
<1>6. CASE PutStatus(a)
  <2>1. /\ f.pc = "put" /\ status' = [status EXCEPT ![f.id] = f.to]
        /\ \/ Return(a)
           \/ Become(a, [f EXCEPT !.pc = Reconciler(f.snap, f.to)])
    BY <1>6 DEF PutStatus
  <2>2. SameRows
    BY <1>3, <2>1 DEF SameRows, Exists, Asking, TypeInv, Rows
  <2>3. PICK h : h = [f EXCEPT !.pc = Reconciler(f.snap, f.to)]
    OBVIOUS
  <2>4. h.id = f.id
    BY <1>2, <2>3 DEF Frame
  <2>5. Frames(a)' \subseteq Below(a) \union {h}
    BY <1>1, <2>1, <2>3, FramesNext
  <2> QED
    BY <1>3, <1>4, <2>2, <2>4, <2>5 DEF SameRows
<1>7. CASE GuardChildrenComplete(a) \/ GuardDependsOnComplete(a) \/ StartRollup(a)
  <2>1. UNCHANGED status
    BY <1>7 DEF GuardChildrenComplete, GuardDependsOnComplete, StartRollup
  <2>2. \/ Return(a)
        \/ \E pc \in {"deps", "put"} : Become(a, [f EXCEPT !.pc = pc])
        \/ Become(a, [f EXCEPT !.pc = "rollnext", !.todo = Parents(f.id)])
    BY <1>7 DEF GuardChildrenComplete, GuardDependsOnComplete, StartRollup, AfterChildren
  <2>3. \A pc \in {"deps", "put"} : [f EXCEPT !.pc = pc].id = f.id
    BY <1>2 DEF Frame
  <2> QED
    BY <1>3, <1>r, <1>b, <1>u, <2>1, <2>2, <2>3
<1>8. CASE AutoCompleteParent(a)
  <2> DEFINE rest == [f EXCEPT !.pc = "rollup"]
  <2>1. UNCHANGED status
    BY <1>8 DEF AutoCompleteParent
  <2>2. rest \in GoodFrame /\ rest.id = f.id
    BY <1>u DEF FreePCs, PCs
  <2>3. \/ Become(a, rest)
        \/ \E p \in Artifacts : Exists(p) /\ Call(a, rest, Complete(p))
    BY <1>8 DEF AutoCompleteParent, Parents, Open
  <2> QED
    BY <1>3, <1>b, <1>c, <1>k, <2>1, <2>2, <2>3
<1>9. CASE CompletionRollup(a)
  <2> DEFINE rest(p) == [f EXCEPT !.todo = @ \ {p}]
  <2>1. UNCHANGED status /\ f.todo \subseteq Artifacts
    BY <1>2, <1>9 DEF CompletionRollup, Frame
  <2>2. \/ Return(a)
        \/ \E p \in Artifacts : \/ Become(a, rest(p))
                                \/ Exists(p) /\ Call(a, rest(p), Complete(p))
    BY <1>9, <2>1 DEF CompletionRollup, Open
  <2>3. \A p : rest(p) \in GoodFrame /\ Exists(rest(p).id)
    BY <1>3, <1>u
  <2> QED
    BY <1>r, <1>b, <1>c, <1>k, <2>1, <2>2, <2>3
<1>10. CASE ReopenAncestors(a)
  <2> DEFINE rest == [f EXCEPT !.pc = "climb"]
  <2>1. UNCHANGED status /\ f.snap \in Statuses \union {None}
    BY <1>2, <1>10 DEF ReopenAncestors, Frame
  <2>2. rest \in GoodFrame /\ rest.id = f.id
    BY <1>u DEF FreePCs, PCs
  <2>3. Become(a, rest) \/ Call(a, rest, Activate(f.id, f.snap))
    BY <1>10 DEF ReopenAncestors
  <2> QED
    BY <1>3, <1>b, <1>c, <1>l, <2>1, <2>2, <2>3
<1>11. CASE ClimbToParent(a)
  <2> DEFINE up(p) == [f EXCEPT !.id = p]
  <2>1. UNCHANGED status /\ f.pc = "climb"
    BY <1>11 DEF ClimbToParent
  <2>2. \A p \in Artifacts : up(p) \in GoodFrame /\ up(p).id = p
    BY <1>u, <2>1 DEF FreePCs, PCs
  <2>3. \/ Return(a)
        \/ \E p \in Artifacts : /\ Exists(p)
                                /\ Become(a, up(p)) \/ Call(a, up(p), Activate(p, status[p]))
    <3>1. ASSUME NEW p \in Parents(f.id),
                 CASE ~Exists(p) -> Return(a)
                   [] status[p] \in Terminal -> Call(a, Ascend(f, p), Activate(p, status[p]))
                   [] OTHER -> Become(a, Ascend(f, p))
          PROVE  \/ Return(a)
                 \/ Exists(p) /\ (Become(a, up(p)) \/ Call(a, up(p), Activate(p, status[p])))
      BY <3>1 DEF Ascend, Exists, Terminal, None
    <3> QED
      BY <1>11, <3>1 DEF ClimbToParent, Parents
  <2>4. ASSUME NEW p \in Artifacts, Exists(p),
               Become(a, up(p)) \/ Call(a, up(p), Activate(p, status[p]))
        PROVE  Done
    <3>1. PICK g : g = up(p)
      OBVIOUS
    <3>2. PICK h : h = Activate(p, status[p])
      OBVIOUS
    <3>3. g \in GoodFrame /\ h \in GoodFrame /\ Exists(g.id) /\ Exists(h.id)
      BY <1>l, <2>2, <2>4, <3>1, <3>2, StoreType
    <3> QED
      BY <1>b, <1>c, <2>1, <2>4, <3>1, <3>2, <3>3
  <2> QED
    BY <1>r, <2>1, <2>3, <2>4
<1> QED
  BY <1>6, <1>7, <1>8, <1>9, <1>10, <1>11 DEF StatusStep

\* An agent's call, as it begins and as it goes on.
LEMMA AgentsStep ==
    ASSUME TypeInv, \A b \in Agents : ChangesStatus(b), NEW a \in Agents,
           \/ \E x \in Artifacts, to \in Statuses, force \in BOOLEAN : SetStatus(a, x, to, force)
           \/ Advance(a)
    PROVE  /\ TypeInv'
           /\ \A b \in Agents : ChangesStatus(b)'
           /\ UNCHANGED graph
           /\ SameRows
<1>1. ASSUME SameRows, OthersStay(a), ChangesStatus(a)'
      PROVE  \A b \in Agents : ChangesStatus(b)'
  BY <1>1, ChangesStable
<1>2. ASSUME NEW x \in Artifacts, NEW to \in Statuses, NEW force \in BOOLEAN,
             SetStatus(a, x, to, force)
      PROVE  TypeInv' /\ (\A b \in Agents : ChangesStatus(b)') /\ UNCHANGED graph /\ SameRows
  <2>1. PICK g : g = StatusFrame(FirstGuard(to), x, status[x], to, force)
    OBVIOUS
  <2>2. Begin(a, g) /\ UNCHANGED <<status, graph>> /\ Exists(x)
    BY <1>2, <2>1 DEF SetStatus
  <2>3. g \in GoodFrame
    BY <2>1, <2>2, StatusFrameType, StoreType DEF FirstGuard, FreePCs, PCs
  <2>4. SameRows /\ Exists(x)'
    BY <2>2 DEF SameRows, Exists
  <2>5. TypeInv'
    BY <2>2, <2>3, BeginType DEF TypeInv, graph, Stacks
  <2>6. ChangesStatus(a)'
    <3>1. Inner(a)' /\ Top(a)' = g /\ Frames(a)' = {g}
      BY <2>2, BeginInner, FramesNext
    <3>2. g.pc \in {"children", "put"} /\ g.to = to /\ g.id = x /\ to # None
      BY <2>1 DEF StatusFrame, FirstGuard, Statuses, None
    <3> QED
      BY <2>4, <3>1, <3>2 DEF ChangesStatus, Asking, StatusPCs
  <2> QED
    BY <1>1, <2>2, <2>4, <2>5, <2>6, MovesOwnStack
<1>3. CASE Advance(a)
  <2>1. ~EdgeStep(a)
    <3>1. ~Idle(a) => Top(a).pc \in StatusPCs
      BY DEF ChangesStatus, Asking
    <3> QED
      BY <3>1 DEF At, EdgeStep, CheckMaxParents, AddParentEdge, CheckCycle, AddDependsOn,
         CheckParentCycle, ReadOldParents, ReplaceParent, ReadOldDependencies, ClearDependsOn,
         PutNew, AddNewParent, AddNewDependency, StatusPCs
  <2>2. StatusStep(a)
    BY <1>3, <2>1, AdvanceSplit
  <2>3. TypeInv'
    BY <1>3, AdvanceType
  <2>4. /\ Inner(a)' /\ (~Idle(a)' => Asking(Top(a)')) /\ OthersStay(a) /\ UNCHANGED graph
        /\ SameRows /\ \A f \in Frames(a)' : Exists(f.id)'
    BY <2>2, StatusSteps, StatusStepRows, ChangesPermitted
  <2>5. ChangesStatus(a)'
    BY <2>4 DEF ChangesStatus, Asking
  <2> QED
    BY <1>1, <2>3, <2>4, <2>5
<1> QED
  BY <1>2, <1>3

------------------------------------------------------------------------------
(* What a check is there to find, by the graph and not by the parent it    *)
(* happens to follow, and how a job comes to repair it.                    *)

\* The edges to artifacts whose parents all have to go are found anyway: a loop
\* through one of them is broken there.
Plain == {e \in parentOf : ~Unfit(e[2])}

Bad(e) ==
    /\ Exists(e[2])
    /\ \/ Unfit(e[2])
       \/ Exists(e[1]) /\ ~ValidChild(e[1], e[2])
       \/ Reaches(Plain, e[2], e[1])

BadDependency(d) == Exists(d[1]) /\ Exists(d[2]) /\ ~MayDepend(d[1])

Clean == (\A e \in parentOf : ~Bad(e)) /\ (\A d \in dependsOn : ~BadDependency(d))

\* Everything bad is still to be looked at, found, or about to be removed.
Owed(j) ==
    /\ j.at = "check" =>
         /\ j.parents = {} /\ j.deps = dependsOn
         /\ \A e \in parentOf : Bad(e) => e[2] \in j.ids \/ <<"parent", e[2]>> \in j.found
         /\ \A d \in dependsOn :
                BadDependency(d) => d[1] \in j.ids \/ <<"relation", d[1]>> \in j.found
    /\ j.at = "fix" =>
         /\ \A e \in parentOf : Bad(e) => e \in j.parents \/ <<"parent", e[2]>> \in j.found
         /\ \A d \in dependsOn :
                BadDependency(d) => d \in j.deps \/ <<"relation", d[1]>> \in j.found

\* A job that writes a row or an edge has read a stored artifact, adds an edge
\* among those there can be, and began after mended was reset.
Placed(j) ==
    /\ j.at = "list" => j.to \in Statuses
    /\ j.at = "row" => /\ j.id \in Artifacts /\ Exists(j.id) /\ j.snap \in Statuses
                       /\ mended => j.parent = None /\ j.dep = None
                       /\ j.parent # None => <<j.parent, j.id>> \in Possible
    /\ j.at \in {"old parents", "parent"} =>
         ~mended /\ j.id \in Artifacts /\ Exists(j.id) /\ <<j.parent, j.id>> \in Possible
    /\ j.at = "dep" => ~mended /\ j.id \in Artifacts /\ j.dep \in Artifacts
    /\ j.at = "edges" => /\ ~mended /\ j.parents \subseteq Possible
                         /\ \A e \in j.parents : e[1] \in Artifacts /\ Exists(e[1])

Job == [at : {"none", "list", "row", "old parents", "parent", "dep", "edges", "check", "fix"},
        id : Artifacts \union {None}, snap : Statuses \union {None},
        to : Statuses \union {None}, force : BOOLEAN, cascade : BOOLEAN,
        parent : Artifacts \union {None}, dep : Artifacts \union {None},
        ids : SUBSET Artifacts, kids : SUBSET Artifacts, closed : SUBSET Artifacts,
        parents : SUBSET (Artifacts \union (Artifacts \X Artifacts)),
        deps : SUBSET (Artifacts \X Artifacts),
        found : SUBSET ({"parent", "relation"} \X Artifacts)]

\* Every edge has a stored end.
HalfStored == \A e \in parentOf : Exists(e[1]) \/ Exists(e[2])

KeepInv ==
    /\ TypeInv
    /\ \A a \in Agents : ChangesStatus(a)
    /\ parentOf \subseteq Possible
    /\ HalfStored
    /\ \A x \in Seeded : Exists(x)
    /\ job \in [Keepers -> Job]
    /\ mended \in BOOLEAN
    /\ \A k \in Keepers : Placed(job[k]) /\ Owed(job[k])
    /\ mended => Clean

\* While no edge and no row comes or goes, what is to be repaired is the same.
LEMMA SameGraph ==
    ASSUME TypeInv, UNCHANGED graph, SameRows
    PROVE  /\ \A j : Owed(j)' <=> Owed(j)
           /\ Clean' <=> Clean
           /\ HalfStored' <=> HalfStored
           /\ UNCHANGED mended => \A j : Placed(j) => Placed(j)'
<1>1. \A e \in Artifacts \X Artifacts : Bad(e)' <=> Bad(e)
  <2>1. Plain' = Plain
    BY DEF Plain, Unfit, ValidChild, graph
  <2>2. \A x, y : Reaches(Plain, x, y)' <=> Reaches(Plain, x, y)
    BY <2>1 DEF Reaches
  <2> QED
    BY <2>2 DEF Bad, SameRows, Unfit, ValidChild
<1>2. \A d \in Artifacts \X Artifacts : BadDependency(d)' <=> BadDependency(d)
  BY DEF BadDependency, MayDepend, SameRows
<1>3. \A j : Owed(j)' <=> Owed(j)
  BY <1>1, <1>2 DEF Owed, TypeInv, graph
<1>4. Clean' <=> Clean
  BY <1>1, <1>2 DEF Clean, TypeInv, graph
<1>5. HalfStored' <=> HalfStored
  BY DEF HalfStored, SameRows, TypeInv, graph
<1>6. ASSUME UNCHANGED mended, NEW j, Placed(j) PROVE Placed(j)'
  <2>1. \A x \in Artifacts : Exists(x)' <=> Exists(x)
    BY DEF SameRows
  <2>2. Possible' = Possible
    BY DEF Possible
  <2> QED
    BY <1>6, <2>1, <2>2 DEF Placed
<1> QED
  BY <1>3, <1>4, <1>5, <1>6

\* A job that goes on where the graph stands.
LEMMA TurnsJob ==
    ASSUME OneKeeper, KeepInv, NEW k \in Keepers, NEW j \in Job, Turn(k, j),
           TypeInv', \A a \in Agents : ChangesStatus(a)', UNCHANGED graph, SameRows,
           mended' \in BOOLEAN, Placed(j)', Owed(j), mended' => Clean
    PROVE  KeepInv'
<1>1. job' \in [Keepers -> Job] /\ \A l \in Keepers : job'[l] = j
  BY DEF KeepInv, Turn, OneKeeper
<1>2. Owed(j)' /\ (mended' => Clean') /\ HalfStored'
  BY SameGraph DEF KeepInv
<1>3. (\A x \in Seeded : Exists(x))' /\ (parentOf \subseteq Possible)'
  BY LifecycleAssumption DEF KeepInv, SameRows, graph, Possible
<1>4. (\A l \in Keepers : Placed(job[l]) /\ Owed(job[l]))'
  BY <1>1, <1>2
<1> QED
  BY <1>1, <1>2, <1>3, <1>4 DEF KeepInv

\* Nothing but the job moves.
LEMMA OnlyJob ==
    ASSUME KeepInv, UNCHANGED vars
    PROVE  TypeInv' /\ (\A a \in Agents : ChangesStatus(a)') /\ UNCHANGED graph /\ SameRows
<1>1. TypeInv' /\ UNCHANGED graph /\ SameRows
  BY DEF KeepInv, TypeInv, vars, graph, SameRows, Exists
<1>2. \A a \in Agents : ChangesStatus(a)'
  BY DEF KeepInv, ChangesStatus, vars, graph, Inner, Idle, Top, Frames, Exists, Asking
<1> QED
  BY <1>1, <1>2

------------------------------------------------------------------------------
(* A check.                                                                *)

\* Whichever parents it follows, a check reports the artifact below a bad edge.
LEMMA CheckFinds ==
    ASSUME Telling, KeepInv, NEW e \in parentOf, Bad(e), NEW first \in FirstParents
    PROVE  InvalidParent(e[2], first) \/ ParentCycle(e[2], first)
<1>1. PICK p \in Artifacts, x \in Artifacts : e = <<p, x>>
  BY DEF KeepInv, TypeInv
<1>2. \A d \in parentOf : /\ d[1] \in Artifacts /\ d[2] \in Artifacts /\ d = <<d[1], d[2]>>
                          /\ first[d[2]] \in Artifacts /\ <<first[d[2]], d[2]>> \in parentOf
  <2> SUFFICES ASSUME NEW d \in parentOf
               PROVE  /\ d[1] \in Artifacts /\ d[2] \in Artifacts /\ d = <<d[1], d[2]>>
                      /\ first[d[2]] \in Artifacts /\ <<first[d[2]], d[2]>> \in parentOf
    OBVIOUS
  <2>1. d[1] \in Artifacts /\ d[2] \in Artifacts /\ d = <<d[1], d[2]>>
    BY DEF KeepInv, TypeInv
  <2>2. d[1] \in Parents(d[2])
    BY <2>1 DEF Parents
  <2>3. first[d[2]] \in Parents(d[2])
    BY <2>1, <2>2 DEF FirstParents
  <2> QED
    BY <2>1, <2>3 DEF Parents
<1>3. PICK up : up = {<<y, first[y]>> : y \in {z \in Artifacts : first[z] # None}}
  OBVIOUS
<1>4. \A d \in parentOf : <<d[2], first[d[2]]>> \in up
  BY <1>2, <1>3, LifecycleAssumption
<1>5. Reaches(up, x, x) => ParentCycle(x, first)
  BY <1>1, <1>3 DEF ParentCycle
<1>6. first[x] \in Artifacts /\ first[x] # None /\ <<first[x], x>> \in parentOf
  BY <1>1, <1>2, LifecycleAssumption
<1>7. CASE Unfit(x)
  <2>1. <<first[x], x>> \in Possible
    BY <1>6 DEF KeepInv
  <2>2. first[x] = x \/ (first[x] \in Seeded /\ ~ValidChild(first[x], x))
    BY <1>7, <2>1 DEF Unfit
  <2>3. CASE first[x] = x
    <3>1. <<x, x>> \in up
      BY <1>1, <1>4, <2>3
    <3> QED
      BY <1>1, <1>5, <3>1, ReachEdge
  <2>4. CASE first[x] \in Seeded /\ ~ValidChild(first[x], x)
    BY <1>1, <1>6, <2>4 DEF InvalidParent, KeepInv
  <2> QED
    BY <2>2, <2>3, <2>4
<1>8. ASSUME ~Unfit(x), Exists(p), ~ValidChild(p, x)
      PROVE  InvalidParent(x, first)
  <2>1. <<first[x], x>> \in Possible /\ <<p, x>> \in Possible
    BY <1>1, <1>6 DEF KeepInv
  <2>2. first[x] = p
    BY <1>8, <2>1 DEF Telling
  <2> QED
    BY <1>6, <1>8, <2>2 DEF InvalidParent
<1>9. ASSUME ~Unfit(x), Reaches(Plain, x, p)
      PROVE  ParentCycle(x, first)
  <2>1. Plain \subseteq parentOf /\ <<p, x>> \in Plain /\ Plain \in SUBSET (Artifacts \X Artifacts)
    BY <1>1, <1>9 DEF Plain, KeepInv, TypeInv
  <2>2. \A d \in Plain : <<d[2], d[1]>> \in up
    <3> SUFFICES ASSUME NEW d \in Plain PROVE <<d[2], d[1]>> \in up
      OBVIOUS
    <3>1. d \in Possible /\ <<first[d[2]], d[2]>> \in Possible /\ d[2] \in Artifacts /\ ~Unfit(d[2])
      BY <1>2, <2>1 DEF Plain, KeepInv
    <3>2. PICK c : c = <<first[d[2]], d[2]>>
      OBVIOUS
    <3>3. c \in Possible /\ c[1] = first[d[2]] /\ c[2] = d[2]
      BY <3>1, <3>2
    <3>4. c = d
      BY <3>1, <3>3 DEF Telling
    <3> QED
      BY <1>4, <2>1, <3>3, <3>4
  <2>3. Reaches(Plain, x, x)
    BY <1>9, <2>1, ReachOn
  <2>4. Reaches(up, x, x)
    BY <1>1, <2>1, <2>2, <2>3, ReachBack
  <2> QED
    BY <1>5, <2>4
<1> QED
  BY <1>1, <1>7, <1>8, <1>9 DEF Bad

LEMMA CheckArtifactStep ==
    ASSUME OneKeeper, Telling, KeepInv, NEW k \in Keepers, CheckArtifact(k)
    PROVE  KeepInv'
<1>1. PICK x \in job[k].ids, first \in FirstParents :
         Turn(k, [job[k] EXCEPT
                    !.ids = @ \ {x},
                    !.found = @ \union ({c \in {"parent", "relation"} :
                        \/ c = "parent" /\ (InvalidParent(x, first) \/ ParentCycle(x, first))
                        \/ c = "relation" /\ InvalidRelation(x, job[k].deps)} \X {x})])
  BY DEF CheckArtifact
<1>2. job[k] \in Job /\ Placed(job[k]) /\ Owed(job[k]) /\ job[k].at = "check"
  BY DEF KeepInv, CheckArtifact, In
<1>3. x \in Artifacts
  BY <1>2 DEF Job
<1>4. PICK C : C = {c \in {"parent", "relation"} :
                        \/ c = "parent" /\ (InvalidParent(x, first) \/ ParentCycle(x, first))
                        \/ c = "relation" /\ InvalidRelation(x, job[k].deps)}
  OBVIOUS
<1>5. PICK j : j = [job[k] EXCEPT !.ids = @ \ {x}, !.found = @ \union (C \X {x})]
  OBVIOUS
<1>6. /\ j \in Job /\ j.at = "check" /\ j.parents = job[k].parents /\ j.deps = job[k].deps
      /\ j.ids = job[k].ids \ {x} /\ j.found = job[k].found \union (C \X {x})
  BY <1>2, <1>3, <1>4, <1>5 DEF Job
<1>7. Turn(k, j) /\ UNCHANGED <<vars, mended>>
  BY <1>1, <1>4, <1>5 DEF CheckArtifact
<1>8. Placed(j)'
  BY <1>6 DEF Placed
<1>9. Owed(j)
  <2>1. ASSUME NEW e \in parentOf, Bad(e) PROVE e[2] \in j.ids \/ <<"parent", e[2]>> \in j.found
    <3>1. CASE e[2] = x
      <4>1. "parent" \in C
        BY <1>4, <2>1, <3>1, CheckFinds
      <4> QED
        BY <1>6, <3>1, <4>1
    <3>2. CASE e[2] # x
      BY <1>2, <1>6, <2>1, <3>2 DEF Owed
    <3> QED
      BY <3>1, <3>2
  <2>2. ASSUME NEW d \in dependsOn, BadDependency(d)
        PROVE  d[1] \in j.ids \/ <<"relation", d[1]>> \in j.found
    <3>1. CASE d[1] = x
      <4>1. "relation" \in C
        BY <1>2, <1>4, <2>2, <3>1 DEF InvalidRelation, BadDependency, Owed
      <4> QED
        BY <1>6, <3>1, <4>1
    <3>2. CASE d[1] # x
      BY <1>2, <1>6, <2>2, <3>2 DEF Owed
    <3> QED
      BY <3>1, <3>2
  <2> QED
    BY <1>2, <1>6, <2>1, <2>2 DEF Owed
<1> QED
  BY <1>6, <1>7, <1>8, <1>9, OnlyJob, TurnsJob DEF KeepInv

LEMMA NoJobType ==
    /\ NoJob \in Job
    /\ NoJob.at = "none" /\ NoJob.parent = None /\ NoJob.dep = None
  BY DEF NoJob, Job

LEMMA StartCheckStep ==
    ASSUME OneKeeper, KeepInv, NEW k \in Keepers, StartCheck(k)
    PROVE  KeepInv'
<1>1. PICK j : j = [NoJob EXCEPT !.at = "check", !.ids = {x \in Artifacts : Exists(x)},
                                 !.deps = dependsOn]
  OBVIOUS
<1>2. Turn(k, j) /\ UNCHANGED <<vars, mended>>
  BY <1>1 DEF StartCheck, Enter
<1>3. /\ j \in Job /\ j.at = "check" /\ j.ids = {x \in Artifacts : Exists(x)}
      /\ j.deps = dependsOn /\ j.parents = {}
  BY <1>1, NoJobType DEF Job, NoJob, KeepInv, TypeInv
<1>4. Placed(j)'
  BY <1>3 DEF Placed
<1>5. Owed(j)
  BY <1>3 DEF Owed, Bad, BadDependency, KeepInv, TypeInv
<1> QED
  BY <1>2, <1>3, <1>4, <1>5, OnlyJob, TurnsJob DEF KeepInv

LEMMA StartFixStep ==
    ASSUME OneKeeper, KeepInv, NEW k \in Keepers, StartFix(k)
    PROVE  KeepInv'
<1>1. PICK j : j = [job[k] EXCEPT !.at = "fix", !.deps = {}]
  OBVIOUS
<1>2. /\ Turn(k, j) /\ UNCHANGED <<vars, mended>>
      /\ job[k] \in Job /\ Owed(job[k]) /\ job[k].at = "check" /\ job[k].ids = {}
  BY <1>1 DEF StartFix, In, KeepInv
<1>3. j \in Job /\ j.at = "fix" /\ j.found = job[k].found
  BY <1>1, <1>2 DEF Job
<1>4. Placed(j)'
  BY <1>3 DEF Placed
<1>5. Owed(j)
  BY <1>2, <1>3 DEF Owed
<1> QED
  BY <1>2, <1>3, <1>4, <1>5, OnlyJob, TurnsJob DEF KeepInv

------------------------------------------------------------------------------
(* A repair.                                                               *)

\* The edges of an artifact that was found are read again: all that were owed.
LEMMA FixNextStep ==
    ASSUME OneKeeper, KeepInv, NEW k \in Keepers, FixNext(k)
    PROVE  KeepInv'
<1>1. /\ job[k] \in Job /\ Owed(job[k]) /\ job[k].at = "fix"
      /\ job[k].parents = {} /\ job[k].deps = {} /\ UNCHANGED <<vars, mended>>
  BY DEF FixNext, In, KeepInv
<1>2. PICK v \in job[k].found :
         Turn(k, IF v[1] = "parent"
                 THEN [[job[k] EXCEPT !.found = @ \ {v}] EXCEPT !.parents = ParentEdges(v[2])]
                 ELSE [[job[k] EXCEPT !.found = @ \ {v}] EXCEPT !.deps =
                        {e \in dependsOn : e[1] = v[2] /\ Exists(v[2]) /\ Exists(e[2])
                                             /\ ~MayDepend(v[2])}])
  BY DEF FixNext
<1>3. v \in {"parent", "relation"} \X Artifacts
  BY <1>1 DEF Job
<1>4. PICK x \in Artifacts : x = v[2] /\ v = <<v[1], x>> /\ v[1] \in {"parent", "relation"}
  BY <1>3
<1>5. CASE v[1] = "parent"
  <2>1. PICK j : j = [[job[k] EXCEPT !.found = @ \ {v}] EXCEPT !.parents = ParentEdges(x)]
    OBVIOUS
  <2>2. ParentEdges(x) \subseteq Artifacts \X Artifacts
    BY <1>4 DEF ParentEdges, Parents
  <2>3. /\ j \in Job /\ j.at = "fix" /\ j.found = job[k].found \ {v}
        /\ j.parents = ParentEdges(x) /\ j.deps = {}
    BY <1>1, <2>1, <2>2 DEF Job
  <2>4. Turn(k, j)
    BY <1>2, <1>4, <1>5, <2>1
  <2>5. Placed(j)'
    BY <2>3 DEF Placed
  <2>6. ASSUME NEW e \in parentOf, Bad(e) PROVE e \in j.parents \/ <<"parent", e[2]>> \in j.found
    <3>1. e = <<e[1], e[2]>> /\ e[1] \in Artifacts
      BY DEF KeepInv, TypeInv
    <3>2. <<"parent", e[2]>> \in job[k].found
      BY <1>1, <2>6 DEF Owed
    <3>3. CASE e[2] = x
      <4>1. e[1] \in Parents(x)
        BY <3>1, <3>3 DEF Parents
      <4> QED
        BY <2>3, <3>1, <3>3, <4>1 DEF ParentEdges
    <3> QED
      BY <1>4, <2>3, <3>2, <3>3
  <2>7. ASSUME NEW d \in dependsOn, BadDependency(d)
        PROVE  d \in j.deps \/ <<"relation", d[1]>> \in j.found
    BY <1>1, <1>4, <1>5, <2>3, <2>7 DEF Owed
  <2>8. Owed(j)
    BY <2>3, <2>6, <2>7 DEF Owed
  <2> QED
    BY <1>1, <2>3, <2>4, <2>5, <2>8, OnlyJob, TurnsJob DEF KeepInv
<1>6. CASE v[1] = "relation"
  <2>0. PICK D : D = {e \in dependsOn : e[1] = x /\ Exists(x) /\ Exists(e[2]) /\ ~MayDepend(x)}
    OBVIOUS
  <2>1. PICK j : j = [[job[k] EXCEPT !.found = @ \ {v}] EXCEPT !.deps = D]
    OBVIOUS
  <2>2. D \subseteq Artifacts \X Artifacts
    BY <2>0 DEF KeepInv, TypeInv
  <2>3. /\ j \in Job /\ j.at = "fix" /\ j.found = job[k].found \ {v}
        /\ j.parents = {} /\ j.deps = D
    BY <1>1, <2>1, <2>2 DEF Job
  <2>4. Turn(k, j)
    BY <1>2, <1>4, <1>6, <2>0, <2>1
  <2>5. Placed(j)'
    BY <2>3 DEF Placed
  <2>6. ASSUME NEW e \in parentOf, Bad(e) PROVE e \in j.parents \/ <<"parent", e[2]>> \in j.found
    BY <1>1, <1>4, <1>6, <2>3, <2>6 DEF Owed
  <2>7. ASSUME NEW d \in dependsOn, BadDependency(d)
        PROVE  d \in j.deps \/ <<"relation", d[1]>> \in j.found
    BY <1>1, <1>4, <2>0, <2>3, <2>7 DEF Owed, BadDependency
  <2>8. Owed(j)
    BY <2>3, <2>6, <2>7 DEF Owed
  <2> QED
    BY <1>1, <2>3, <2>4, <2>5, <2>8, OnlyJob, TurnsJob DEF KeepInv
<1> QED
  BY <1>4, <1>5, <1>6

\* A job that goes on and writes an edge.
LEMMA TurnsEdges ==
    ASSUME OneKeeper, KeepInv, NEW k \in Keepers, NEW j \in Job, Turn(k, j),
           UNCHANGED <<status, stack, touched>>, parentOf' \subseteq Possible,
           dependsOn' \subseteq Artifacts \X Artifacts, HalfStored',
           mended' \in BOOLEAN, Placed(j)', Owed(j)', mended' => Clean'
    PROVE  KeepInv'
<1>1. job' \in [Keepers -> Job] /\ \A l \in Keepers : job'[l] = j
  BY DEF KeepInv, Turn, OneKeeper
<1>2. TypeInv'
  BY PossibleType DEF KeepInv, TypeInv
<1>3. (\A a \in Agents : ChangesStatus(a))'
  BY DEF KeepInv, ChangesStatus, Inner, Idle, Top, Frames, Exists, Asking
<1>4. (\A x \in Seeded : Exists(x))' /\ (parentOf \subseteq Possible)'
  BY DEF KeepInv, Exists, Possible
<1>5. (\A l \in Keepers : Placed(job[l]) /\ Owed(job[l]))'
  BY <1>1
<1> QED
  BY <1>1, <1>2, <1>3, <1>4, <1>5 DEF KeepInv

\* With fewer edges, no more of them are bad.
LEMMA FewerBad ==
    ASSUME parentOf' \subseteq parentOf, UNCHANGED status
    PROVE  \A e : Bad(e)' => Bad(e)
<1>1. Plain' \subseteq Plain
  BY DEF Plain, Unfit, ValidChild
<1>2. \A x, y : Reaches(Plain, y, x)' => Reaches(Plain, y, x)
  <2>1. \A x, y : Reaches(Plain, y, x)' <=> Reaches(Plain', y, x)
    BY DEF Reaches
  <2> QED
    BY <1>1, <2>1, ReachMore
<1> QED
  BY <1>2 DEF Bad, Exists, Unfit, ValidChild

LEMMA RemoveEdgeStep ==
    ASSUME OneKeeper, KeepInv, NEW k \in Keepers, RemoveEdge(k)
    PROVE  KeepInv'
<1>1. /\ job[k] \in Job /\ Owed(job[k]) /\ job[k].at = "fix"
      /\ UNCHANGED <<status, stack, touched, mended>>
  BY DEF RemoveEdge, In, KeepInv
<1>2. PICK e : \/ /\ parentOf' = parentOf \ {e} /\ UNCHANGED dependsOn
                  /\ Turn(k, [job[k] EXCEPT !.parents = @ \ {e}])
               \/ /\ dependsOn' = dependsOn \ {e} /\ UNCHANGED parentOf
                  /\ Turn(k, [job[k] EXCEPT !.deps = @ \ {e}])
  BY DEF RemoveEdge
<1>3. parentOf' \subseteq parentOf /\ dependsOn' \subseteq dependsOn
  BY <1>2
<1>4. PICK j : /\ Turn(k, j)
               /\ \/ /\ parentOf' = parentOf \ {e} /\ UNCHANGED dependsOn
                     /\ j = [job[k] EXCEPT !.parents = @ \ {e}]
                  \/ /\ dependsOn' = dependsOn \ {e} /\ UNCHANGED parentOf
                     /\ j = [job[k] EXCEPT !.deps = @ \ {e}]
  BY <1>2
<1>5. /\ j \in Job /\ j.at = "fix" /\ j.found = job[k].found
      /\ \A d : d \in job[k].parents /\ d \notin j.parents => d \notin parentOf'
      /\ \A d : d \in job[k].deps /\ d \notin j.deps => d \notin dependsOn'
  <2>1. CASE parentOf' = parentOf \ {e} /\ j = [job[k] EXCEPT !.parents = @ \ {e}]
    <3>1. /\ j \in Job /\ j.at = "fix" /\ j.found = job[k].found
          /\ j.parents = job[k].parents \ {e} /\ j.deps = job[k].deps
      BY <1>1, <2>1 DEF Job
    <3> QED
      BY <2>1, <3>1
  <2>2. CASE dependsOn' = dependsOn \ {e} /\ j = [job[k] EXCEPT !.deps = @ \ {e}]
    <3>1. /\ j \in Job /\ j.at = "fix" /\ j.found = job[k].found
          /\ j.parents = job[k].parents /\ j.deps = job[k].deps \ {e}
      BY <1>1, <2>2 DEF Job
    <3> QED
      BY <2>2, <3>1
  <2> QED
    BY <1>4, <2>1, <2>2
<1>6. Placed(j)'
  BY <1>5 DEF Placed
<1>7. Owed(j)'
  <2>1. ASSUME NEW d \in parentOf', Bad(d)' PROVE d \in j.parents \/ <<"parent", d[2]>> \in j.found
    <3>1. d \in parentOf /\ Bad(d)
      BY <1>1, <1>3, <2>1, FewerBad
    <3> QED
      BY <1>1, <1>5, <2>1, <3>1 DEF Owed
  <2>2. ASSUME NEW d \in dependsOn', BadDependency(d)'
        PROVE  d \in j.deps \/ <<"relation", d[1]>> \in j.found
    <3>1. d \in dependsOn /\ BadDependency(d)
      BY <1>1, <1>3, <2>2 DEF BadDependency, Exists, MayDepend
    <3> QED
      BY <1>1, <1>5, <2>2, <3>1 DEF Owed
  <2> QED
    BY <1>5, <2>1, <2>2 DEF Owed
<1>8. HalfStored' /\ parentOf' \subseteq Possible /\ dependsOn' \subseteq Artifacts \X Artifacts
  BY <1>1, <1>3 DEF KeepInv, TypeInv, HalfStored, Exists
<1>9. mended' \in BOOLEAN /\ (mended' => Clean')
  <2>1. \A d : BadDependency(d)' <=> BadDependency(d)
    BY <1>1 DEF BadDependency, Exists, MayDepend
  <2> QED
    BY <1>1, <1>3, <2>1, FewerBad DEF KeepInv, Clean
<1> QED
  BY <1>1, <1>4, <1>5, <1>6, <1>7, <1>8, <1>9, TurnsEdges

\* When nothing is left that was found, nothing bad is left.
LEMMA EndFixStep ==
    ASSUME OneKeeper, KeepInv, NEW k \in Keepers, EndFix(k)
    PROVE  KeepInv'
<1>1. /\ Turn(k, NoJob) /\ UNCHANGED vars /\ mended' = TRUE
      /\ Owed(job[k]) /\ job[k].at = "fix"
      /\ job[k].found = {} /\ job[k].parents = {} /\ job[k].deps = {}
  BY DEF EndFix, In, KeepInv
<1>2. Clean
  BY <1>1 DEF Owed, Clean
<1>3. Placed(NoJob)' /\ Owed(NoJob)
  BY NoJobType DEF Placed, Owed
<1> QED
  BY <1>1, <1>2, <1>3, NoJobType, OnlyJob, TurnsJob

------------------------------------------------------------------------------
(* The jobs that set statuses.                                             *)

\* A job begins; nothing else moves.
LEMMA EntersJob ==
    ASSUME OneKeeper, KeepInv, NEW k \in Keepers, NEW j \in Job, Turn(k, j), UNCHANGED vars,
           j.at \in {"list", "row"}, Placed(j)', mended' \in {mended, FALSE}
    PROVE  KeepInv'
<1>1. Owed(j)
  BY DEF Owed
<1>2. mended' \in BOOLEAN /\ (mended' => Clean)
  <2>1. CASE mended' = FALSE
    BY <2>1
  <2>2. CASE mended' = mended
    BY <2>2 DEF KeepInv
  <2> QED
    BY <2>1, <2>2
<1> QED
  BY <1>1, <1>2, OnlyJob, TurnsJob

LEMMA ListStarts ==
    ASSUME OneKeeper, KeepInv, NEW k \in Keepers, NEW S \in Bulks, NEW to \in Targets,
           BulkSetField(k, S, to) \/ \E force \in Forces : CascadeSetField(k, S, to, force)
    PROVE  KeepInv'
<1>1. S \in SUBSET Artifacts /\ to \in Statuses /\ Forces \subseteq BOOLEAN
  BY LifecycleAssumption, UpkeepAssumption
<1>2. PICK force \in BOOLEAN, cascade \in BOOLEAN :
         /\ UNCHANGED <<vars, mended>>
         /\ \/ Turn(k, [NoJob EXCEPT !.at = "list", !.ids = S, !.to = to])
            \/ Turn(k, [NoJob EXCEPT !.at = "list", !.ids = S, !.to = to,
                                     !.force = force, !.cascade = TRUE])
  BY <1>1 DEF BulkSetField, CascadeSetField, Enter
<1>3. PICK j : /\ Turn(k, j)
               /\ \/ j = [NoJob EXCEPT !.at = "list", !.ids = S, !.to = to]
                  \/ j = [NoJob EXCEPT !.at = "list", !.ids = S, !.to = to,
                                       !.force = force, !.cascade = TRUE]
  BY <1>2
<1>4. j \in Job /\ j.at = "list" /\ j.to = to
  <2>1. CASE j = [NoJob EXCEPT !.at = "list", !.ids = S, !.to = to]
    BY <1>1, <2>1, NoJobType DEF Job
  <2>2. CASE j = [NoJob EXCEPT !.at = "list", !.ids = S, !.to = to,
                               !.force = force, !.cascade = TRUE]
    BY <1>1, <2>2, NoJobType DEF Job
  <2> QED
    BY <1>3, <2>1, <2>2
<1>5. Placed(j)'
  BY <1>1, <1>4 DEF Placed
<1> QED
  BY <1>2, <1>3, <1>4, <1>5, EntersJob

\* Each id is set as any agent would set it, or refused.
LEMMA SetNextStep ==
    ASSUME OneKeeper, KeepInv, NEW k \in Keepers, SetNext(k)
    PROVE  KeepInv'
<1>1. job[k] \in Job /\ Placed(job[k]) /\ job[k].at = "list" /\ UNCHANGED mended
  BY DEF SetNext, In, KeepInv
<1>2. PICK x, j :
         /\ x \in Artifacts /\ Turn(k, j)
         /\ SetStatus(k, x, job[k].to, job[k].force) \/ UNCHANGED vars
         /\ \/ j = [job[k] EXCEPT !.ids = @ \ {x}]
            \/ j = [job[k] EXCEPT !.kids = @ \ {x}]
            \/ j = [[job[k] EXCEPT !.ids = @ \ {x}] EXCEPT !.id = x]
  <2>1. PICK x \in IF job[k].kids = {} THEN job[k].ids ELSE job[k].kids :
          LET left == IF job[k].kids = {} THEN [job[k] EXCEPT !.ids = @ \ {x}]
                                          ELSE [job[k] EXCEPT !.kids = @ \ {x}]
          IN  \/ /\ SetStatus(k, x, job[k].to, job[k].force)
                 /\ Turn(k, IF job[k].kids = {} /\ job[k].cascade THEN [left EXCEPT !.id = x]
                                                                  ELSE left)
              \/ /\ Refused(x, job[k].to, job[k].force)
                 /\ Turn(k, left)
                 /\ UNCHANGED vars
    BY DEF SetNext
  <2>2. x \in Artifacts
    BY <1>1, <2>1 DEF Job
  <2> QED
    BY <2>1, <2>2
<1>3. j \in Job /\ j.at = "list" /\ j.to = job[k].to
  <2>1. CASE j = [job[k] EXCEPT !.ids = @ \ {x}]
    BY <1>1, <2>1 DEF Job
  <2>2. CASE j = [job[k] EXCEPT !.kids = @ \ {x}]
    BY <1>1, <2>2 DEF Job
  <2>3. CASE j = [[job[k] EXCEPT !.ids = @ \ {x}] EXCEPT !.id = x]
    BY <1>1, <1>2, <2>3 DEF Job
  <2> QED
    BY <1>2, <2>1, <2>2, <2>3
<1>4. k \in Agents /\ job[k].to \in Statuses /\ job[k].force \in BOOLEAN
  BY <1>1, UpkeepAssumption DEF Job, Placed
<1>5. TypeInv' /\ (\A a \in Agents : ChangesStatus(a)') /\ UNCHANGED graph /\ SameRows
  BY <1>2, <1>4, AgentsStep, OnlyJob DEF KeepInv
<1>6. Placed(j)' /\ Owed(j)
  BY <1>3, <1>4 DEF Placed, Owed
<1> QED
  BY <1>1, <1>2, <1>3, <1>5, <1>6, TurnsJob DEF KeepInv

LEMMA ListSteps ==
    ASSUME OneKeeper, KeepInv, NEW k \in Keepers, ReadChildren(k) \/ EndList(k)
    PROVE  KeepInv'
<1>1. job[k] \in Job /\ Placed(job[k]) /\ job[k].at = "list" /\ UNCHANGED <<vars, mended>>
  BY DEF ReadChildren, EndList, In, KeepInv
<1>2. CASE EndList(k)
  <2>1. Turn(k, NoJob)
    BY <1>2 DEF EndList
  <2>2. Placed(NoJob)' /\ Owed(NoJob)
    BY NoJobType DEF Placed, Owed
  <2> QED
    BY <1>1, <2>1, <2>2, NoJobType, OnlyJob, TurnsJob DEF KeepInv
<1>3. CASE ReadChildren(k)
  <2>1. PICK K, C, j :
          /\ Turn(k, j) /\ K \subseteq Artifacts /\ C \subseteq Artifacts
          /\ j = [job[k] EXCEPT !.id = None, !.kids = K, !.closed = C]
    <3>1. job[k].id \in Artifacts /\ job[k].closed \subseteq Artifacts
      BY <1>1, <1>3 DEF ReadChildren, Job
    <3>2. Children(job[k].id) \subseteq Artifacts
      BY DEF Children
    <3>3. PICK K : K = IF <<"closed", job[k].id>> \in touched[k] THEN Children(job[k].id) ELSE {}
      OBVIOUS
    <3>4. PICK C : C = IF <<"closed", job[k].id>> \in touched[k]
                       THEN job[k].closed \union {job[k].id} ELSE job[k].closed
      OBVIOUS
    <3>5. Turn(k, [job[k] EXCEPT !.id = None, !.kids = K, !.closed = C])
      BY <1>3, <3>3, <3>4 DEF ReadChildren
    <3>6. PICK j : j = [job[k] EXCEPT !.id = None, !.kids = K, !.closed = C]
      OBVIOUS
    <3>7. K \subseteq Artifacts /\ C \subseteq Artifacts /\ Turn(k, j)
      BY <3>1, <3>2, <3>3, <3>4, <3>5, <3>6
    <3> QED
      BY <3>6, <3>7
  <2>2. j \in Job /\ j.at = "list" /\ j.to = job[k].to
    BY <1>1, <2>1 DEF Job
  <2>3. Placed(j)'
    BY <1>1, <2>2 DEF Placed
  <2> QED
    BY <1>1, <2>1, <2>2, <2>3, EntersJob
<1> QED
  BY <1>2, <1>3

------------------------------------------------------------------------------
(* The jobs that write rows and edges.                                     *)

LEMMA RowStarts ==
    ASSUME OneKeeper, KeepInv, NEW k \in Keepers,
           \/ \E x \in Worked : SetOtherField(k, x)
           \/ \E u \in Upserts : UpsertArtifact(k, u[1], u[2], u[3])
    PROVE  KeepInv'
<1> DEFINE From(x, p, d, j) ==
               /\ x \in Artifacts /\ Exists(x) /\ UNCHANGED vars
               /\ p # None => <<p, x>> \in Possible
               /\ j \in Job /\ j.at = "row" /\ j.id = x /\ j.snap = status[x]
               /\ j.parent = p /\ j.dep = d
               /\ Turn(k, j)
               /\ mended' = FALSE \/ (mended' = mended /\ p = None /\ d = None)
<1>1. PICK x, p, d, j : From(x, p, d, j)
  <2>1. ASSUME NEW x \in Worked, SetOtherField(k, x)
        PROVE  \E p, d, j : From(x, p, d, j)
    <3>1. PICK j : j = [NoJob EXCEPT !.at = "row", !.id = x, !.snap = status[x]]
      OBVIOUS
    <3>2. x \in Artifacts /\ Exists(x) /\ UNCHANGED <<vars, mended>> /\ Turn(k, j)
      BY <2>1, <3>1, UpkeepAssumption DEF SetOtherField, Enter
    <3>3. status[x] \in Statuses
      BY <3>2, StoreType DEF KeepInv
    <3>4. /\ j \in Job /\ j.at = "row" /\ j.id = x /\ j.snap = status[x]
          /\ j.parent = None /\ j.dep = None
      BY <3>1, <3>2, <3>3, NoJobType DEF Job
    <3> QED
      BY <3>2, <3>4
  <2>2. ASSUME NEW u \in Upserts, UpsertArtifact(k, u[1], u[2], u[3])
        PROVE  \E x, p, d, j : From(x, p, d, j)
    <3>1. PICK x, p, d : x = u[1] /\ p = u[2] /\ d = u[3]
      OBVIOUS
    <3>2. PICK j : j = [NoJob EXCEPT !.at = "row", !.id = x, !.snap = status[x],
                                     !.parent = p, !.dep = d]
      OBVIOUS
    <3>3. /\ x \in Artifacts /\ p \in Artifacts \union {None} /\ d \in Artifacts \union {None}
          /\ p # None => <<p, x>> \in Possible
      BY <3>1, UpkeepAssumption DEF Possible
    <3>4. Exists(x) /\ UNCHANGED vars /\ mended' = FALSE /\ Turn(k, j)
      BY <2>2, <3>1, <3>2 DEF UpsertArtifact, Enter
    <3>5. status[x] \in Statuses
      BY <3>3, <3>4, StoreType DEF KeepInv
    <3>6. /\ j \in Job /\ j.at = "row" /\ j.id = x /\ j.snap = status[x]
          /\ j.parent = p /\ j.dep = d
      BY <3>2, <3>3, <3>5, NoJobType DEF Job
    <3> QED
      BY <3>3, <3>4, <3>6
  <2> QED
    BY <2>1, <2>2
<1>2. status[x] \in Statuses
  BY <1>1, StoreType DEF KeepInv
<1>4. Placed(j)'
  <2>1. Exists(x)' /\ Possible' = Possible
    BY <1>1 DEF vars, Exists, Possible
  <2>2. mended' => p = None /\ d = None
    BY <1>1
  <2> QED
    BY <1>1, <1>2, <2>1, <2>2 DEF Placed
<1>5. mended' \in {mended, FALSE}
  BY <1>1
<1> QED
  BY <1>1, <1>4, <1>5, EntersJob

\* A row is written as it was read: no row comes or goes.
LEMMA PutRowStep ==
    ASSUME OneKeeper, KeepInv, NEW k \in Keepers, PutRow(k)
    PROVE  KeepInv'
<1>1. /\ job[k] \in Job /\ Placed(job[k]) /\ job[k].at = "row"
      /\ status' = [status EXCEPT ![job[k].id] = job[k].snap]
      /\ UNCHANGED <<graph, stack, touched, mended>>
  BY DEF PutRow, In, KeepInv
<1>2. job[k].id \in Artifacts /\ Exists(job[k].id) /\ job[k].snap \in Statuses
  BY <1>1 DEF Placed
<1>3. SameRows
  BY <1>1, <1>2 DEF SameRows, Exists, KeepInv, TypeInv, Rows, Statuses, None
<1>4. TypeInv'
  BY <1>1, <1>2 DEF KeepInv, TypeInv, Rows, graph
<1>5. \A a \in Agents : ChangesStatus(a)'
  <2> SUFFICES ASSUME NEW a \in Agents PROVE ChangesStatus(a)'
    OBVIOUS
  <2>1. \A f \in Frames(a) : f.id \in Artifacts
    BY FramesNow DEF KeepInv, GoodFrame, Frame
  <2>2. Frames(a)' = Frames(a) /\ Top(a)' = Top(a) /\ Idle(a)' = Idle(a) /\ Inner(a)' = Inner(a)
    BY <1>1 DEF Frames, Top, Idle, Inner
  <2> QED
    BY <1>3, <2>1, <2>2 DEF KeepInv, ChangesStatus, SameRows, Asking
<1>6. PICK j : /\ Turn(k, j)
               /\ \/ j = [job[k] EXCEPT !.at = "old parents"] /\ job[k].parent # None
                  \/ j = [job[k] EXCEPT !.at = "dep"] /\ job[k].parent = None /\ job[k].dep # None
                  \/ j = NoJob
  <2>1. PICK j : j = CASE job[k].parent # None -> [job[k] EXCEPT !.at = "old parents"]
                       [] job[k].parent = None /\ job[k].dep # None -> [job[k] EXCEPT !.at = "dep"]
                       [] OTHER -> NoJob
    OBVIOUS
  <2>2. Turn(k, j)
    BY <2>1 DEF PutRow
  <2> QED
    BY <2>1, <2>2
<1>7. mended => job[k].parent = None /\ job[k].dep = None
  BY <1>1 DEF Placed
<1>8. j \in Job /\ Placed(j)' /\ Owed(j)
  <2>1. CASE j = [job[k] EXCEPT !.at = "old parents"] /\ job[k].parent # None
    <3>1. /\ j \in Job /\ j.at = "old parents" /\ j.id = job[k].id /\ j.parent = job[k].parent
      BY <1>1, <2>1 DEF Job
    <3>2. ~mended' /\ <<j.parent, j.id>> \in Possible
      BY <1>1, <1>7, <2>1, <3>1 DEF Placed
    <3>3. j.id \in Artifacts /\ Exists(j.id)'
      BY <1>2, <1>3, <3>1 DEF SameRows
    <3>4. Possible' = Possible
      BY DEF Possible
    <3> QED
      BY <3>1, <3>2, <3>3, <3>4 DEF Placed, Owed
  <2>2. CASE j = [job[k] EXCEPT !.at = "dep"] /\ job[k].parent = None /\ job[k].dep # None
    <3>1. j \in Job /\ j.at = "dep" /\ j.id = job[k].id /\ j.dep = job[k].dep
      BY <1>1, <2>2 DEF Job
    <3>0. j.dep \in Artifacts
      BY <2>2, <3>1 DEF Job
    <3>2. ~mended'
      BY <1>1, <1>7, <2>2
    <3> QED
      BY <1>2, <3>0, <3>1, <3>2 DEF Placed, Owed
  <2>3. CASE j = NoJob
    BY <2>3, NoJobType DEF Placed, Owed
  <2> QED
    BY <1>6, <2>1, <2>2, <2>3
<1>9. mended' \in BOOLEAN /\ (mended' => Clean)
  BY <1>1 DEF KeepInv
<1> QED
  BY <1>1, <1>3, <1>4, <1>5, <1>6, <1>8, <1>9, TurnsJob

LEMMA UpsertSteps ==
    ASSUME OneKeeper, KeepInv, NEW k \in Keepers,
           UpsertReadParents(k) \/ UpsertParent(k) \/ UpsertDependency(k)
    PROVE  KeepInv'
<1>1. job[k] \in Job /\ Placed(job[k]) /\ UNCHANGED <<status, stack, touched, mended>>
  BY DEF UpsertReadParents, UpsertParent, UpsertDependency, vars, KeepInv
<1>2. CASE UpsertReadParents(k)
  <2>1. PICK j : j = [job[k] EXCEPT !.at = "parent", !.parents = Parents(job[k].id)]
    OBVIOUS
  <2>2. Turn(k, j) /\ UNCHANGED <<vars, mended>> /\ job[k].at = "old parents"
    BY <1>2, <2>1 DEF UpsertReadParents, In
  <2>3. j \in Job /\ j.at = "parent" /\ j.id = job[k].id /\ j.parent = job[k].parent
    BY <1>1, <2>1 DEF Job, Parents
  <2>4. ~mended /\ j.id \in Artifacts /\ Exists(j.id) /\ <<j.parent, j.id>> \in Possible
    BY <1>1, <2>2, <2>3 DEF Placed
  <2>5. Exists(j.id)' /\ Possible' = Possible
    BY <1>1, <2>4 DEF Exists, Possible
  <2>6. Placed(j)' /\ Owed(j)
    BY <1>1, <2>3, <2>4, <2>5 DEF Placed, Owed
  <2> QED
    BY <2>2, <2>3, <2>6, OnlyJob, TurnsJob DEF KeepInv
<1>3. CASE UpsertParent(k)
  <2>1. /\ job[k].at = "parent" /\ UNCHANGED dependsOn /\ ~mended
        /\ job[k].id \in Artifacts /\ Exists(job[k].id) /\ <<job[k].parent, job[k].id>> \in Possible
    BY <1>1, <1>3 DEF UpsertParent, In, Placed
  <2>2. PICK j :
          /\ Turn(k, j)
          /\ \/ /\ \E p : parentOf' = parentOf \ {<<p, job[k].id>>}
                /\ \E T : j = [job[k] EXCEPT !.parents = T] /\ T \subseteq job[k].parents
             \/ /\ parentOf' = parentOf \union {<<job[k].parent, job[k].id>>}
                /\ \/ j = NoJob
                   \/ j = [job[k] EXCEPT !.at = "dep"] /\ job[k].dep # None
    <3>1. CASE \E p \in job[k].parents : /\ parentOf' = parentOf \ {<<p, job[k].id>>}
                                         /\ Turn(k, [job[k] EXCEPT !.parents = @ \ {p}])
      <4>1. PICK p \in job[k].parents : /\ parentOf' = parentOf \ {<<p, job[k].id>>}
                                        /\ Turn(k, [job[k] EXCEPT !.parents = @ \ {p}])
        BY <3>1
      <4>2. PICK T : T = job[k].parents \ {p}
        OBVIOUS
      <4>3. PICK j : j = [job[k] EXCEPT !.parents = T]
        OBVIOUS
      <4> QED
        BY <4>1, <4>2, <4>3
    <3>2. CASE /\ parentOf' = parentOf \union {<<job[k].parent, job[k].id>>}
               /\ Turn(k, IF job[k].dep = None THEN NoJob ELSE [job[k] EXCEPT !.at = "dep"])
      BY <3>2
    <3> QED
      BY <1>3, <3>1, <3>2 DEF UpsertParent
  <2>3. parentOf' \subseteq Possible /\ HalfStored'
    <3>1. \A e \in parentOf' : e \in parentOf \/ e = <<job[k].parent, job[k].id>>
      BY <2>2
    <3> QED
      BY <1>1, <2>1, <3>1 DEF KeepInv, HalfStored, Exists
  <2>4. j \in Job /\ Placed(j)' /\ Owed(j)'
    <3>1. CASE \E T : j = [job[k] EXCEPT !.parents = T] /\ T \subseteq job[k].parents
      <4>1. PICK T : j = [job[k] EXCEPT !.parents = T] /\ T \subseteq job[k].parents
        BY <3>1
      <4>2. j \in Job /\ j.at = "parent" /\ j.id = job[k].id /\ j.parent = job[k].parent
        BY <1>1, <2>1, <4>1 DEF Job
      <4>3. Exists(j.id)' /\ Possible' = Possible
        BY <1>1, <2>1, <4>2 DEF Exists, Possible
      <4> QED
        BY <1>1, <2>1, <4>2, <4>3 DEF Placed, Owed
    <3>2. CASE j = NoJob
      BY <3>2, NoJobType DEF Placed, Owed
    <3>3. CASE j = [job[k] EXCEPT !.at = "dep"] /\ job[k].dep # None
      <4>1. j \in Job /\ j.at = "dep" /\ j.id \in Artifacts /\ j.dep \in Artifacts
        BY <1>1, <2>1, <3>3 DEF Job
      <4> QED
        BY <1>1, <2>1, <4>1 DEF Placed, Owed
    <3> QED
      BY <2>2, <3>1, <3>2, <3>3
  <2>5. dependsOn' \subseteq Artifacts \X Artifacts /\ mended' = FALSE
    BY <1>1, <2>1 DEF KeepInv, TypeInv
  <2> QED
    BY <1>1, <2>2, <2>3, <2>4, <2>5, TurnsEdges
<1>4. CASE UpsertDependency(k)
  <2>1. /\ job[k].at = "dep" /\ UNCHANGED parentOf /\ ~mended /\ Turn(k, NoJob)
        /\ job[k].id \in Artifacts /\ job[k].dep \in Artifacts
        /\ dependsOn' \subseteq dependsOn \union {<<job[k].id, job[k].dep>>}
    BY <1>1, <1>4 DEF UpsertDependency, In, Placed
  <2>2. Placed(NoJob)' /\ Owed(NoJob)'
    BY NoJobType DEF Placed, Owed
  <2>3. /\ parentOf' \subseteq Possible /\ HalfStored' /\ mended' = FALSE
        /\ dependsOn' \subseteq Artifacts \X Artifacts
    BY <1>1, <2>1 DEF KeepInv, TypeInv, HalfStored, Exists
  <2> QED
    BY <1>1, <2>1, <2>2, <2>3, NoJobType, TurnsEdges
<1> QED
  BY <1>2, <1>3, <1>4

\* An imported row may be new; its edges are written from it.
LEMMA ImportRecordStep ==
    ASSUME OneKeeper, KeepInv, NEW k \in Keepers, NEW r \in Records, ImportRecord(k, r)
    PROVE  KeepInv'
<1>1. r.id \in Artifacts /\ r.status \in Statuses /\ r.parentOf \subseteq Artifacts
      /\ r.dependsOn \subseteq Artifacts
  BY UpkeepAssumption DEF RecordType
<1>2. PICK P, D : P = {r.id} \X r.parentOf /\ D = {r.id} \X r.dependsOn
  OBVIOUS
<1>3. PICK j : j = [NoJob EXCEPT !.at = "edges", !.parents = P, !.deps = D]
  OBVIOUS
<1>4. /\ status' = [status EXCEPT ![r.id] = r.status] /\ Turn(k, j) /\ mended' = FALSE
      /\ UNCHANGED <<graph, stack, touched>>
  BY <1>2, <1>3 DEF ImportRecord
<1>5. P \subseteq Artifacts \X Artifacts /\ D \subseteq Artifacts \X Artifacts /\ P \subseteq Possible
  BY <1>1, <1>2 DEF Possible
<1>6. j \in Job /\ j.at = "edges" /\ j.parents = P
  BY <1>3, <1>5, NoJobType DEF Job
<1>7. NoRowLost /\ Exists(r.id)'
  BY <1>1, <1>4 DEF NoRowLost, Exists, KeepInv, TypeInv, Rows, Statuses, None
<1>8. TypeInv'
  BY <1>1, <1>4 DEF KeepInv, TypeInv, Rows, graph
<1>9. \A a \in Agents : ChangesStatus(a)'
  <2> SUFFICES ASSUME NEW a \in Agents PROVE ChangesStatus(a)'
    OBVIOUS
  <2>1. \A f \in Frames(a) : f.id \in Artifacts
    BY FramesNow DEF KeepInv, GoodFrame, Frame
  <2>2. Frames(a)' = Frames(a) /\ Top(a)' = Top(a) /\ Idle(a)' = Idle(a) /\ Inner(a)' = Inner(a)
    BY <1>4 DEF Frames, Top, Idle, Inner
  <2> QED
    BY <1>7, <2>1, <2>2 DEF KeepInv, ChangesStatus, NoRowLost, Asking
<1>10. HalfStored' /\ (\A x \in Seeded : Exists(x))' /\ (parentOf \subseteq Possible)'
  BY <1>4, <1>7, LifecycleAssumption DEF KeepInv, HalfStored, NoRowLost, TypeInv, graph, Possible
<1>11. Placed(j)' /\ Owed(j)'
  <2>1. \A e \in P : e[1] = r.id
    BY <1>2
  <2>2. Possible' = Possible
    BY DEF Possible
  <2> QED
    BY <1>1, <1>4, <1>5, <1>6, <1>7, <2>1, <2>2 DEF Placed, Owed
<1>12. job' \in [Keepers -> Job] /\ \A l \in Keepers : job'[l] = j
  BY <1>4, <1>6 DEF KeepInv, Turn, OneKeeper
<1>13. (\A l \in Keepers : Placed(job[l]) /\ Owed(job[l]))'
  BY <1>11, <1>12
<1> QED
  BY <1>4, <1>8, <1>9, <1>10, <1>12, <1>13 DEF KeepInv

LEMMA ImportEdgeStep ==
    ASSUME OneKeeper, KeepInv, NEW k \in Keepers, ImportEdge(k)
    PROVE  KeepInv'
<1>1. /\ job[k] \in Job /\ job[k].at = "edges" /\ UNCHANGED <<status, stack, touched, mended>>
      /\ ~mended /\ job[k].parents \subseteq Possible
      /\ \A e \in job[k].parents : e[1] \in Artifacts /\ Exists(e[1])
  BY DEF ImportEdge, In, KeepInv, Placed
<1>2. mended' = FALSE /\ mended' \in BOOLEAN
  BY <1>1 DEF KeepInv
<1>3. ASSUME NEW e \in job[k].parents, parentOf' = parentOf \union {e}, UNCHANGED dependsOn,
             Turn(k, [job[k] EXCEPT !.parents = @ \ {e}])
      PROVE  KeepInv'
  <2>1. PICK j : j = [job[k] EXCEPT !.parents = @ \ {e}]
    OBVIOUS
  <2>2. j \in Job /\ j.at = "edges" /\ j.parents \subseteq job[k].parents
    BY <1>1, <2>1 DEF Job
  <2>3. parentOf' \subseteq Possible /\ HalfStored'
        /\ dependsOn' \subseteq Artifacts \X Artifacts
    BY <1>1, <1>3 DEF KeepInv, TypeInv, HalfStored, Exists
  <2>4. Placed(j)' /\ Owed(j)'
    <3>1. Possible' = Possible /\ \A x : Exists(x)' <=> Exists(x)
      BY <1>1 DEF Possible, Exists
    <3> QED
      BY <1>1, <1>2, <2>2, <3>1 DEF Placed, Owed
  <2> QED
    BY <1>1, <1>2, <1>3, <2>1, <2>2, <2>3, <2>4, TurnsEdges
<1>4. ASSUME NEW e \in job[k].deps, dependsOn' = dependsOn \union {e}, UNCHANGED parentOf,
             Turn(k, [job[k] EXCEPT !.deps = @ \ {e}])
      PROVE  KeepInv'
  <2>1. PICK j : j = [job[k] EXCEPT !.deps = @ \ {e}]
    OBVIOUS
  <2>2. /\ j \in Job /\ j.at = "edges" /\ j.parents = job[k].parents
        /\ e \in Artifacts \X Artifacts
    BY <1>1, <2>1 DEF Job
  <2>3. parentOf' \subseteq Possible /\ HalfStored'
        /\ dependsOn' \subseteq Artifacts \X Artifacts
    BY <1>1, <1>4, <2>2 DEF KeepInv, TypeInv, HalfStored, Exists
  <2>4. Placed(j)' /\ Owed(j)'
    <3>1. Possible' = Possible /\ \A x : Exists(x)' <=> Exists(x)
      BY <1>1 DEF Possible, Exists
    <3> QED
      BY <1>1, <1>2, <2>2, <3>1 DEF Placed, Owed
  <2> QED
    BY <1>1, <1>2, <1>4, <2>1, <2>2, <2>3, <2>4, TurnsEdges
<1>5. ASSUME Turn(k, NoJob), UNCHANGED graph
      PROVE  KeepInv'
  <2>1. Placed(NoJob)' /\ Owed(NoJob)'
    BY NoJobType DEF Placed, Owed
  <2>2. parentOf' \subseteq Possible /\ HalfStored'
        /\ dependsOn' \subseteq Artifacts \X Artifacts
    BY <1>1, <1>5 DEF KeepInv, TypeInv, HalfStored, Exists, graph
  <2> QED
    BY <1>1, <1>2, <1>5, <2>1, <2>2, NoJobType, TurnsEdges
<1> QED
  BY <1>3, <1>4, <1>5 DEF ImportEdge

------------------------------------------------------------------------------
(* The theorem.                                                            *)

\* A step of the agents beside the jobs.
LEMMA AgentsKeep ==
    ASSUME KeepInv, UNCHANGED <<job, mended>>,
           TypeInv', \A a \in Agents : ChangesStatus(a)', UNCHANGED graph, SameRows
    PROVE  KeepInv'
<1>1. (\A k \in Keepers : Placed(job[k]) /\ Owed(job[k]))'
  <2>1. \A k \in Keepers : Placed(job[k])' /\ Owed(job[k])' 
    <3> SUFFICES ASSUME NEW k \in Keepers PROVE Placed(job[k])' /\ Owed(job[k])'
      OBVIOUS
    <3>1. PICK j : j = job[k] /\ j = job'[k]
      OBVIOUS
    <3>2. Placed(j)' /\ Owed(j)'
      BY <3>1, SameGraph DEF KeepInv
    <3> QED
      BY <3>1, <3>2
  <2> QED
    BY <2>1
<1>2. (mended => Clean)' /\ HalfStored'
  BY SameGraph DEF KeepInv
<1>3. (\A x \in Seeded : Exists(x))' /\ (parentOf \subseteq Possible)'
  BY LifecycleAssumption DEF KeepInv, SameRows, graph, Possible
<1> QED
  BY <1>1, <1>2, <1>3 DEF KeepInv

LEMMA KeepStep ==
    ASSUME OneKeeper, Telling, KeepInv, [UpkeepNext]_allVars
    PROVE  KeepInv'
<1>1. ASSUME NEW a \in Agents, Work(a) \/ Proceed(a)
      PROVE  KeepInv'
  <2>1. \/ \E x \in Artifacts, to \in Statuses, force \in BOOLEAN : SetStatus(a, x, to, force)
        \/ Advance(a)
    BY <1>1, LifecycleAssumption, UpkeepAssumption DEF Work, Proceed
  <2>2. UNCHANGED <<job, mended>>
    BY <1>1 DEF Work, Proceed
  <2> QED
    BY <2>1, <2>2, AgentsStep, AgentsKeep DEF KeepInv
<1>2. ASSUME NEW k \in Keepers, StartJob(k)
      PROVE  KeepInv'
  BY <1>2, ListStarts, RowStarts, ImportRecordStep, StartCheckStep DEF StartJob
<1>3. ASSUME NEW k \in Keepers, AdvanceJob(k)
      PROVE  KeepInv'
  BY <1>3, SetNextStep, ListSteps, PutRowStep, UpsertSteps, ImportEdgeStep, CheckArtifactStep,
     StartFixStep, FixNextStep, RemoveEdgeStep, EndFixStep DEF AdvanceJob
<1>4. CASE UNCHANGED allVars
  BY <1>4, OnlyJob, AgentsKeep DEF allVars
<1> QED
  BY <1>1, <1>2, <1>3, <1>4 DEF UpkeepNext

LEMMA KeepStarts == UpkeepInit => KeepInv
<1> SUFFICES ASSUME UpkeepInit PROVE KeepInv
  OBVIOUS
<1>1. Init /\ TypeInv
  BY InitType DEF UpkeepInit
<1>2. \A a \in Agents : ChangesStatus(a)
  BY <1>1 DEF Init, ChangesStatus, Inner, Idle, Frames
<1>3. \A x \in Seeded : x \in Artifacts /\ Exists(x)
  BY <1>1, LifecycleAssumption, DefaultType DEF Init, Exists, Statuses, None
<1>4. parentOf \subseteq Possible /\ HalfStored
  BY <1>1, <1>3, LifecycleAssumption DEF Init, Possible, HalfStored
<1>5. \A k \in Keepers : job[k] = NoJob /\ Placed(NoJob) /\ Owed(NoJob)
  BY NoJobType DEF UpkeepInit, Placed, Owed
<1>6. job \in [Keepers -> Job] /\ mended = FALSE
  BY NoJobType DEF UpkeepInit
<1> QED
  BY <1>1, <1>2, <1>3, <1>4, <1>5, <1>6 DEF KeepInv

\* No edge is bad: then none is on a loop either.
LEMMA CleanRepaired ==
    ASSUME KeepInv, Clean
    PROVE  Repaired
<1>1. parentOf \in SUBSET (Artifacts \X Artifacts)
  BY DEF KeepInv, TypeInv
<1>2. ASSUME NEW e \in parentOf, Exists(e[1]), Exists(e[2]) PROVE ValidChild(e[1], e[2])
  BY <1>2 DEF Clean, Bad
<1>3. Plain = parentOf
  BY DEF Clean, Bad, Unfit, KeepInv, Plain
<1>4. ASSUME NEW x \in Artifacts, Reaches(parentOf, x, x), Exists(x) PROVE FALSE
  <2>1. PICK z \in Artifacts : <<z, x>> \in parentOf /\ (z = x \/ Reaches(parentOf, x, z))
    BY <1>1, <1>4, ReachLast
  <2>2. Reaches(Plain, x, z)
    BY <1>3, <1>4, <2>1
  <2>3. PICK e : e = <<z, x>>
    OBVIOUS
  <2> QED
    BY <1>4, <2>1, <2>2, <2>3 DEF Clean, Bad
<1>5. ASSUME NEW x \in Artifacts, Reaches(parentOf, x, x), ~Exists(x) PROVE FALSE
  <2>1. PICK z \in Artifacts : <<z, x>> \in parentOf /\ (z = x \/ Reaches(parentOf, x, z))
    BY <1>1, <1>5, ReachLast
  <2>2. PICK e : e = <<z, x>>
    OBVIOUS
  <2>3. Exists(z)
    BY <1>5, <2>1, <2>2 DEF KeepInv, HalfStored
  <2>4. Reaches(parentOf, z, z)
    BY <1>5, <2>1, <2>3, ReachBefore
  <2> QED
    BY <1>4, <2>3, <2>4
<1>6. \A d \in dependsOn : Exists(d[1]) /\ Exists(d[2]) => MayDepend(d[1])
  BY DEF Clean, BadDependency
<1> QED
  BY <1>2, <1>4, <1>5, <1>6 DEF Repaired

\* A CheckFix that nobody else writes edges beside leaves only permitted edges
\* and no loop, whatever was imported or upserted before and whatever statuses
\* change meanwhile (CheckFix), if the parent a check follows tells enough: of
\* two parents, one that may stay would hide the other.
THEOREM CheckFixRepairs ==
    ASSUME OneKeeper, Telling
    PROVE  UpkeepSpec => []Repaired
<1>1. UpkeepInit => KeepInv
  BY KeepStarts
<1>2. KeepInv /\ [UpkeepNext]_allVars => KeepInv'
  BY KeepStep
<1>3. KeepInv => Repaired
  <2> SUFFICES ASSUME KeepInv, mended PROVE Repaired
    BY DEF Repaired
  <2>1. Clean
    BY DEF KeepInv
  <2> QED
    BY <2>1, CleanRepaired
<1> QED
  BY <1>1, <1>2, <1>3, PTL DEF UpkeepSpec
==============================================================================
