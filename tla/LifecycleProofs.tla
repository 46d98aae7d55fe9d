--------------------------- MODULE LifecycleProofs ---------------------------
(* Proofs about Lifecycle, for every set of artifacts and agents: the      *)
(* guards on a status, which edges there are, whatever the callers did, and *)
(* that the reconcilers leave no ancestor behind.                          *)
EXTENDS Lifecycle, FiniteSetTheorems, TLAPS

------------------------------------------------------------------------------
(* Call stacks keep their type.                                            *)

\* TypeOK is not inductive: a frame that is about to add an edge must hold the
\* artifact at its other end.
GoodFrame == {f \in Frame : /\ f.pc \in {"maxparents", "linkadd"} => f.other # None
                            /\ f.pc \in {"cycle", "adddep"} => f.cur # None}

Stacks == [Agents -> Seq(GoodFrame)]

TypeInv ==
    /\ status \in Rows
    /\ parentOf \subseteq Artifacts \X Artifacts
    /\ dependsOn \subseteq Artifacts \X Artifacts
    /\ stack \in Stacks
    /\ touched \in [Agents -> SUBSET ({"closed", "opened"} \X Artifacts)]

\* The steps a frame may be at whatever else it holds.
FreePCs == PCs \ {"maxparents", "linkadd", "cycle", "adddep"}

\* The strengthened invariant is about the types TypeOK names.
LEMMA TypeInvType == TypeInv => TypeOK
<1>1. Seq(GoodFrame) \subseteq Seq(Frame)
  <2>1. GoodFrame \subseteq Frame
    BY DEF GoodFrame
  <2> QED
    BY <2>1
<1> QED
  BY <1>1 DEF TypeInv, TypeOK, Stacks

\* The innermost frame of a call in progress is a frame.
LEMMA TopType ==
    ASSUME TypeInv, NEW a \in Agents, ~Idle(a)
    PROVE  /\ Top(a) \in GoodFrame
           /\ Len(stack[a]) \in 1 .. Len(stack[a])
           /\ Len(stack[a]) \in Nat
  BY DEF TypeInv, Stacks, Idle, Top

\* Begin makes a stack of one frame.
LEMMA BeginType ==
    ASSUME TypeInv, NEW a \in Agents, NEW f \in GoodFrame, Begin(a, f)
    PROVE  stack' \in Stacks /\ touched' \in [Agents -> SUBSET ({"closed", "opened"} \X Artifacts)]
  BY DEF TypeInv, Begin, Stacks

\* Return drops the innermost frame.
LEMMA ReturnType ==
    ASSUME TypeInv, NEW a \in Agents, ~Idle(a), Return(a)
    PROVE  stack' \in Stacks
<1>1. SubSeq(stack[a], 1, Len(stack[a]) - 1) \in Seq(GoodFrame)
  BY DEF TypeInv, Stacks, Idle
<1> QED
  BY <1>1 DEF TypeInv, Return, Stacks

\* Become replaces it.
LEMMA BecomeType ==
    ASSUME TypeInv, NEW a \in Agents, ~Idle(a), NEW f \in GoodFrame, Become(a, f)
    PROVE  stack' \in Stacks
<1>1. [stack[a] EXCEPT ![Len(stack[a])] = f] \in Seq(GoodFrame)
  BY DEF TypeInv, Stacks, Idle
<1> QED
  BY <1>1 DEF TypeInv, Become, Stacks

\* Call replaces it and adds the callee's.
LEMMA CallType ==
    ASSUME TypeInv, NEW a \in Agents, ~Idle(a), NEW f \in GoodFrame, NEW g \in GoodFrame, Call(a, f, g)
    PROVE  stack' \in Stacks
<1>1. [stack[a] EXCEPT ![Len(stack[a])] = f] \in Seq(GoodFrame)
  BY DEF TypeInv, Stacks, Idle
<1>2. Append([stack[a] EXCEPT ![Len(stack[a])] = f], g) \in Seq(GoodFrame)
  BY <1>1
<1> QED
  BY <1>2 DEF TypeInv, Call, Stacks

------------------------------------------------------------------------------
(* Frames and the values that go into them.                                *)

\* The frame of a status change is a frame.
LEMMA StatusFrameType ==
    ASSUME NEW pc \in FreePCs, NEW x \in Artifacts, NEW snap \in Statuses \union {None},
           NEW to \in Statuses \union {None}, NEW force \in BOOLEAN
    PROVE  StatusFrame(pc, x, snap, to, force) \in GoodFrame
  BY DEF StatusFrame, Frame, GoodFrame, FreePCs

\* The frame of an edge operation is a frame.
LEMMA EdgeFrameType ==
    ASSUME NEW pc \in PCs, NEW x \in Artifacts, NEW snap \in Statuses \union {None},
           NEW to \in Statuses \union {None}, NEW other \in Artifacts \union {None},
           NEW cur \in Artifacts \union {None}, NEW todo \in SUBSET Artifacts,
           pc \in {"maxparents", "linkadd"} => other # None,
           pc \in {"cycle", "adddep"} => cur # None
    PROVE  EdgeFrame(pc, x, snap, to, other, cur, todo) \in GoodFrame
  BY DEF EdgeFrame, Frame, GoodFrame

\* A frame stays one when it moves on, advances to another artifact or edge, or
\* changes what is left to visit.
LEMMA FrameUpdate ==
    ASSUME NEW f \in GoodFrame
    PROVE  /\ \A pc \in FreePCs : [f EXCEPT !.pc = pc] \in GoodFrame
           /\ f.pc = "maxparents" => [f EXCEPT !.pc = "linkadd"] \in GoodFrame
           /\ f.pc = "cycle" => [f EXCEPT !.pc = "adddep"] \in GoodFrame
           /\ \A x \in Artifacts : /\ [f EXCEPT !.id = x] \in GoodFrame
                                   /\ [f EXCEPT !.cur = x] \in GoodFrame
           /\ \A p \in Artifacts : [f EXCEPT !.todo = @ \ {p}] \in GoodFrame
           /\ \A pc \in FreePCs, T \in SUBSET Artifacts :
                  [f EXCEPT !.pc = pc, !.todo = T] \in GoodFrame
<1> USE LifecycleAssumption DEF Frame, GoodFrame, FreePCs
<1>1. \A pc \in FreePCs : [f EXCEPT !.pc = pc] \in GoodFrame
  OBVIOUS
<1>2. f.pc = "maxparents" => [f EXCEPT !.pc = "linkadd"] \in GoodFrame
  BY DEF PCs
<1>3. f.pc = "cycle" => [f EXCEPT !.pc = "adddep"] \in GoodFrame
  BY DEF PCs
<1>4. \A x \in Artifacts : [f EXCEPT !.id = x] \in GoodFrame
  OBVIOUS
<1>5. \A x \in Artifacts : [f EXCEPT !.cur = x] \in GoodFrame
  OBVIOUS
<1>6. \A p \in Artifacts : [f EXCEPT !.todo = @ \ {p}] \in GoodFrame
  OBVIOUS
<1>7. \A pc \in FreePCs, T \in SUBSET Artifacts : [f EXCEPT !.pc = pc, !.todo = T] \in GoodFrame
  OBVIOUS
<1> QED
  BY <1>1, <1>2, <1>3, <1>4, <1>5, <1>6, <1>7

\* The default status of every kind is a status.
LEMMA DefaultType == \A x \in Artifacts : DefaultStatus(KindOf[x]) \in Statuses
  BY DEF DefaultStatus, Statuses

\* A stored row has a status, and an agent that is at some step is not idle.
LEMMA StoreType ==
    ASSUME TypeInv
    PROVE  /\ \A x \in Artifacts : Exists(x) => status[x] \in Statuses
           /\ \A x \in Artifacts : status[x] \in Statuses \union {None}
           /\ \A x \in Artifacts : Parents(x) \in SUBSET Artifacts
  BY DEF TypeInv, Rows, Exists, Parents

------------------------------------------------------------------------------
(* Every operation that starts, and every step, keeps the types.           *)

LEMMA InitType == Init => TypeInv
<1> SUFFICES ASSUME Init PROVE TypeInv
  OBVIOUS
<1>1. status \in Rows
  BY DefaultType DEF Init, Rows
<1>2. stack \in [Agents -> Seq(GoodFrame)]
  BY DEF Init
<1> QED
  BY <1>1, <1>2, LifecycleAssumption DEF Init, TypeInv, Stacks

\* An operation that starts puts one frame on the stack, or is one store call.
LEMMA StartType ==
    ASSUME TypeInv, NEW a \in Agents, Start(a)
    PROVE  TypeInv'
<1> USE StoreType, DefaultType
<1>0. ASSUME NEW f \in GoodFrame, Begin(a, f), UNCHANGED <<status, graph>>
      PROVE  TypeInv'
  BY <1>0, BeginType DEF TypeInv, graph, Stacks
<1>1. ASSUME NEW x \in Artifacts, NEW to \in Targets, NEW force \in Forces,
             SetStatus(a, x, to, force)
      PROVE  TypeInv'
  <2>1. StatusFrame(FirstGuard(to), x, status[x], to, force) \in GoodFrame
    BY <1>1, StatusFrameType, LifecycleAssumption DEF FirstGuard, FreePCs, PCs
  <2> QED
    BY <1>1, <2>1, <1>0 DEF SetStatus
<1>2. ASSUME NEW p \in Artifacts, NEW c \in Artifacts, LinkParentOf(a, p, c)
      PROVE  TypeInv'
  <2>1. EdgeFrame("maxparents", p, status[p], status[c], c, None, {}) \in GoodFrame
    BY EdgeFrameType, LifecycleAssumption DEF PCs
  <2> QED
    BY <1>2, <2>1, <1>0 DEF LinkParentOf
<1>3. ASSUME NEW x \in Artifacts, NEW d \in Artifacts, LinkDependsOn(a, x, d)
      PROVE  TypeInv'
  <2>1. EdgeFrame("cycle", x, None, None, None, d, {}) \in GoodFrame
    BY EdgeFrameType, LifecycleAssumption DEF PCs
  <2> QED
    BY <1>3, <2>1, <1>0 DEF LinkDependsOn
<1>4. ASSUME NEW x \in Artifacts, NEW y \in Artifacts, Unlink(a, x, y)
      PROVE  TypeInv'
  BY <1>4 DEF Unlink, TypeInv, Idle
<1>5. ASSUME NEW x \in Artifacts, NEW p \in Artifacts \union {None}, SetParent(a, x, p)
      PROVE  TypeInv'
  <2>1. EdgeFrame(IF p = None THEN "oldparents" ELSE "parentcycle",
                  x, None, None, p, p, {}) \in GoodFrame
    BY EdgeFrameType, LifecycleAssumption DEF PCs
  <2> QED
    BY <1>5, <2>1, <1>0 DEF SetParent
<1>6. ASSUME NEW x \in Artifacts, NEW d \in Artifacts \union {None}, SetDependsOn(a, x, d)
      PROVE  TypeInv'
  <2>1. EdgeFrame(IF d = None THEN "olddeps" ELSE "cycle", x, None, None, None, d, {}) \in GoodFrame
    BY EdgeFrameType, LifecycleAssumption DEF PCs
  <2> QED
    BY <1>6, <2>1, <1>0 DEF SetDependsOn
<1>7. ASSUME NEW x \in Artifacts, NEW s \in Statuses, NEW p \in Artifacts \union {None},
             NEW d \in Artifacts \union {None}, CreateArtifact(a, x, s, p, d)
      PROVE  TypeInv'
  <2>1. EdgeFrame("create", x, None, s, p, d, {}) \in GoodFrame
    BY EdgeFrameType, LifecycleAssumption DEF PCs
  <2> QED
    BY <1>7, <2>1, <1>0 DEF CreateArtifact
<1>8. ASSUME NEW x \in Artifacts, Delete(a, x)
      PROVE  TypeInv'
  BY <1>8 DEF Delete, Detached, TypeInv, Rows, Idle
<1>9. \A e \in Linkable : e[1] \in Artifacts /\ e[2] \in Artifacts
  BY LifecycleAssumption
<1>10. Targets \subseteq Statuses
  BY LifecycleAssumption
<1> QED
  BY <1>1, <1>2, <1>3, <1>4, <1>5, <1>6, <1>7, <1>8, <1>9, <1>10 DEF Start

\* A step of a call returns, moves its frame on, or calls a status change.
LEMMA AdvanceType ==
    ASSUME TypeInv, NEW a \in Agents, Advance(a)
    PROVE  TypeInv'
<1> USE DEF At
<1> DEFINE Typed == stack' \in Stacks
<1>0. ASSUME Typed, UNCHANGED <<status, graph, touched>>
      PROVE  TypeInv'
  BY <1>0 DEF TypeInv, graph, Stacks
<1>a. ASSUME ~Idle(a), Return(a) PROVE Typed
  BY <1>a, ReturnType
<1>b. ASSUME ~Idle(a), NEW f \in GoodFrame, Become(a, f) PROVE Typed
  BY <1>b, BecomeType
<1>c. ASSUME ~Idle(a), NEW f \in GoodFrame, NEW g \in GoodFrame, Call(a, f, g) PROVE Typed
  BY <1>c, CallType
<1>d. \A p \in Artifacts : Complete(p) \in GoodFrame
  BY StatusFrameType, StoreType DEF Complete, FreePCs, PCs, Statuses
<1>e. \A x \in Artifacts, from \in Statuses \union {None} : Activate(x, from) \in GoodFrame
  BY StatusFrameType DEF Activate, ActiveStatus, FreePCs, PCs, Statuses
<1>f. ASSUME ~Idle(a)
      PROVE  /\ Top(a).id \in Artifacts
             /\ Top(a).snap \in Statuses \union {None}
             /\ Top(a).to \in Statuses \union {None}
             /\ Top(a).other \in Artifacts \union {None}
             /\ Top(a).cur \in Artifacts \union {None}
             /\ Top(a).todo \in SUBSET Artifacts
             /\ Top(a).pc = "linkadd" => Top(a).other \in Artifacts
             /\ Top(a).pc = "adddep" => Top(a).cur \in Artifacts
             /\ Top(a) \in GoodFrame
  BY <1>f, TopType DEF Frame, GoodFrame
<1>g. ASSUME ~Idle(a)
      PROVE  /\ \A pc \in FreePCs : [Top(a) EXCEPT !.pc = pc] \in GoodFrame
             /\ Top(a).pc = "maxparents" => [Top(a) EXCEPT !.pc = "linkadd"] \in GoodFrame
             /\ Top(a).pc = "cycle" => [Top(a) EXCEPT !.pc = "adddep"] \in GoodFrame
             /\ \A x \in Artifacts : /\ [Top(a) EXCEPT !.id = x] \in GoodFrame
                                     /\ [Top(a) EXCEPT !.cur = x] \in GoodFrame
             /\ \A p \in Artifacts : [Top(a) EXCEPT !.todo = @ \ {p}] \in GoodFrame
             /\ \A pc \in FreePCs, T \in SUBSET Artifacts :
                    [Top(a) EXCEPT !.pc = pc, !.todo = T] \in GoodFrame
  BY <1>f, <1>g, FrameUpdate
<1>1. CASE GuardChildrenComplete(a)
  <2>1. AfterChildren(Top(a)) \in FreePCs
    BY DEF AfterChildren, FreePCs, PCs
  <2> QED
    BY <1>1, <2>1, <1>0, <1>a, <1>b, <1>f, <1>g DEF GuardChildrenComplete
<1>2. CASE GuardDependsOnComplete(a)
  BY <1>2, <1>0, <1>a, <1>b, <1>f, <1>g DEF GuardDependsOnComplete, FreePCs, PCs
<1>3. CASE PutStatus(a)
  <2> DEFINE f == Top(a)
             next == Reconciler(f.snap, f.to)
  <2>0. ~Idle(a) /\ f.id \in Artifacts /\ f.to \in Statuses \union {None}
    BY <1>3, <1>f DEF PutStatus
  <2>1. next \in FreePCs \union {"none"}
    BY DEF Reconciler, FreePCs, PCs
  <2>2. Typed
    BY <1>3, <2>1, <1>a, <1>b, <1>f, <1>g DEF PutStatus
  <2>3. status' \in Rows /\ touched' \in [Agents -> SUBSET ({"closed", "opened"} \X Artifacts)]
    BY <1>3, <2>0 DEF PutStatus, TypeInv, Rows, Touch
  <2> QED
    BY <1>3, <2>2, <2>3 DEF PutStatus, TypeInv, graph, Stacks
<1>4. CASE AutoCompleteParent(a)
  BY <1>4, <1>0, <1>b, <1>c, <1>d, <1>f, <1>g, StoreType DEF AutoCompleteParent, FreePCs, PCs
<1>5. CASE StartRollup(a)
  BY <1>5, <1>0, <1>b, <1>f, <1>g, StoreType DEF StartRollup, FreePCs, PCs
<1>6. CASE CompletionRollup(a)
  BY <1>6, <1>0, <1>a, <1>b, <1>c, <1>d, <1>f, <1>g, StoreType DEF CompletionRollup
<1>7. CASE ReopenAncestors(a)
  BY <1>7, <1>0, <1>b, <1>c, <1>e, <1>f, <1>g DEF ReopenAncestors, FreePCs, PCs
<1>8. CASE ClimbToParent(a)
  BY <1>8, <1>0, <1>a, <1>b, <1>c, <1>e, <1>f, <1>g, StoreType DEF ClimbToParent, Ascend
<1>9. CASE CheckMaxParents(a)
  BY <1>9, <1>0, <1>a, <1>b, <1>f, <1>g, StoreType DEF CheckMaxParents, FreePCs, PCs
<1>10. CASE AddParentEdge(a)
  <2>1. At(a, "linkadd")
    BY <1>10 DEF AddParentEdge
  <2>2. Typed
    BY <1>10, <1>a, <1>b, <1>f, <1>g DEF AddParentEdge, FreePCs, PCs
  <2>3. Top(a).id \in Artifacts /\ Top(a).other \in Artifacts
    BY <2>1, <1>f
  <2>4. parentOf' \subseteq Artifacts \X Artifacts
    BY <1>10, <2>3 DEF AddParentEdge, TypeInv
  <2>5. touched' \in [Agents -> SUBSET ({"closed", "opened"} \X Artifacts)]
    BY <1>10, <2>3 DEF AddParentEdge, TypeInv, Touch
  <2> QED
    BY <1>10, <2>2, <2>4, <2>5 DEF AddParentEdge, TypeInv
<1>11. CASE CheckCycle(a)
  BY <1>11, <1>0, <1>a, <1>b, <1>f, <1>g DEF CheckCycle, FreePCs, PCs
<1>12. CASE AddDependsOn(a)
  <2>1. Typed
    BY <1>12, <1>a, <1>b, <1>f, <1>g DEF AddDependsOn
  <2>2. Top(a).id \in Artifacts /\ Top(a).cur \in Artifacts
    BY <1>12, <1>f DEF AddDependsOn
  <2>3. dependsOn' \subseteq Artifacts \X Artifacts
    BY <1>12, <2>2 DEF AddDependsOn, TypeInv
  <2> QED
    BY <1>12, <2>1, <2>3 DEF AddDependsOn, TypeInv
<1>13. CASE CheckParentCycle(a)
  <2>1. ~Idle(a) /\ [Top(a) EXCEPT !.pc = "oldparents"] \in GoodFrame
    BY <1>13, <1>g DEF CheckParentCycle, FreePCs, PCs
  <2>2. \A q \in Parents(Top(a).cur) : [Top(a) EXCEPT !.cur = q] \in GoodFrame
    BY <2>1, <1>g DEF Parents
  <2>3. Typed
    BY <1>13, <2>1, <2>2, <1>a, <1>b DEF CheckParentCycle
  <2> QED
    BY <1>13, <2>3, <1>0 DEF CheckParentCycle
<1>14. CASE ReadOldParents(a)
  BY <1>14, <1>0, <1>b, <1>f, <1>g, StoreType DEF ReadOldParents, FreePCs, PCs
<1>15. CASE ReplaceParent(a)
  <2>1. Typed
    BY <1>15, <1>a, <1>b, <1>f, <1>g, StoreType DEF ReplaceParent
  <2>2. ~Idle(a) /\ Top(a).id \in Artifacts /\ Top(a).other \in Artifacts \union {None}
    BY <1>15, <1>f DEF ReplaceParent
  <2>3. \/ parentOf' \subseteq parentOf
        \/ Top(a).other # None /\ parentOf' = parentOf \union {<<Top(a).other, Top(a).id>>}
    BY <1>15 DEF ReplaceParent
  <2>4. parentOf' \subseteq Artifacts \X Artifacts
    BY <2>2, <2>3 DEF TypeInv
  <2> QED
    BY <1>15, <2>1, <2>4 DEF ReplaceParent, TypeInv
<1>16. CASE ReadOldDependencies(a)
  BY <1>16, <1>0, <1>b, <1>f, <1>g DEF ReadOldDependencies, FreePCs, PCs
<1>17. CASE ClearDependsOn(a)
  <2>1. Typed
    BY <1>17, <1>a, <1>b, <1>f, <1>g DEF ClearDependsOn
  <2> QED
    BY <1>17, <2>1, <1>f DEF ClearDependsOn, TypeInv, Stacks
<1>18. CASE PutNew(a)
  <2>1. Typed
    BY <1>18, <1>a, <1>b, <1>f, <1>g DEF PutNew, FreePCs, PCs
  <2> QED
    BY <1>18, <2>1, <1>f DEF PutNew, TypeInv, Stacks, Rows, graph
<1>19. CASE AddNewParent(a)
  <2>1. Typed
    BY <1>19, <1>a, <1>b, <1>f, <1>g DEF AddNewParent, FreePCs, PCs
  <2> QED
    <3>1. ~Idle(a)
      BY <1>19 DEF AddNewParent
    <3>2. Top(a).id \in Artifacts /\ (Top(a).other # None => Top(a).other \in Artifacts)
      BY <3>1, <1>f
    <3>3. parentOf' \subseteq Artifacts \X Artifacts
      <4>1. parentOf \subseteq Artifacts \X Artifacts
        BY DEF TypeInv
      <4>2. \/ parentOf' = parentOf
            \/ Top(a).other # None /\ parentOf' = parentOf \union {<<Top(a).other, Top(a).id>>}
        BY <1>19 DEF AddNewParent
      <4> QED
        BY <3>2, <4>1, <4>2
    <3> QED
      BY <1>19, <2>1, <3>3 DEF AddNewParent, TypeInv, Stacks
<1>20. CASE AddNewDependency(a)
  <2>1. Typed
    BY <1>20, <1>a, <1>b, <1>f, <1>g DEF AddNewDependency
  <2> QED
    <3>1. ~Idle(a)
      BY <1>20 DEF AddNewDependency
    <3>2. Top(a).id \in Artifacts /\ (Top(a).cur # None => Top(a).cur \in Artifacts)
      BY <3>1, <1>f
    <3>3. dependsOn' \subseteq Artifacts \X Artifacts
      <4>1. dependsOn \subseteq Artifacts \X Artifacts
        BY DEF TypeInv
      <4>2. \/ dependsOn' = dependsOn
            \/ Top(a).cur # None /\ dependsOn' = dependsOn \union {<<Top(a).id, Top(a).cur>>}
        BY <1>20 DEF AddNewDependency
      <4> QED
        BY <3>2, <4>1, <4>2
    <3> QED
      BY <1>20, <2>1, <3>3 DEF AddNewDependency, TypeInv, Stacks
<1> QED
  BY <1>1, <1>2, <1>3, <1>4, <1>5, <1>6, <1>7, <1>8, <1>9, <1>10, <1>11, <1>12, <1>13,
     <1>14, <1>15, <1>16, <1>17, <1>18, <1>19, <1>20 DEF Advance

------------------------------------------------------------------------------
\* The strengthened invariant holds in every reachable state.
LEMMA TypeInvHolds == Spec => []TypeInv
<1>1. Init => TypeInv
  BY InitType
<1>2. TypeInv /\ [Next]_vars => TypeInv'
  <2> SUFFICES ASSUME TypeInv, [Next]_vars PROVE TypeInv'
    OBVIOUS
  <2>1. CASE Next
    BY <2>1, StartType, AdvanceType DEF Next
  <2>2. CASE UNCHANGED vars
    BY <2>2 DEF vars, TypeInv
  <2> QED
    BY <2>1, <2>2
<1> QED
  BY <1>1, <1>2, PTL DEF Spec

\* Whatever the callers do, in whatever interleaving, every row has a known
\* status, every edge and every call its shape (Lifecycle, TypeOK).
THEOREM TypeCorrect == Spec => []TypeOK
  BY TypeInvHolds, TypeInvType, PTL

------------------------------------------------------------------------------
(* What a lone caller's guards have established when it writes.  A status  *)
(* change in progress above another leaves it waiting in a reconciler, so  *)
(* only the innermost frame may hold the result of a guard.                *)

Waiting == {"rollup", "rollnext", "climb"}

Inner(a) == \A i \in 1 .. Len(stack[a]) - 1 : stack[a][i].pc \in Waiting

Guarded(f) ==
    /\ f.to = "work.complete" /\ f.pc \in {"deps", "put"} => ChildrenTerminal(f.id)
    /\ f.to = "work.complete" /\ f.pc = "put" => f.force \/ DependsTerminal(f.id)
    /\ f.pc = "create" => ~Exists(f.id)

GuardInv == \A a \in Agents : Inner(a) /\ (~Idle(a) => \A f : f = Top(a) => Guarded(f))

\* A frame that is at no such step needs nothing.
Harmless(f) == f.pc \notin {"deps", "put", "create"}

LEMMA HarmlessGuarded == \A f : Harmless(f) => Guarded(f) /\ Guarded(f)'
  BY DEF Harmless, Guarded

\* Return uncovers a frame that waits.
LEMMA ReturnInner ==
    ASSUME TypeInv, NEW a \in Agents, ~Idle(a), Inner(a), Return(a)
    PROVE  Inner(a)' /\ (~Idle(a)' => Top(a)'.pc \in Waiting /\ Harmless(Top(a)'))
<1> DEFINE n == Len(stack[a])
<1>1. stack[a] \in Seq(GoodFrame) /\ n \in Nat \ {0}
  BY DEF TypeInv, Stacks, Idle
<1>2. stack'[a] = SubSeq(stack[a], 1, n - 1)
  BY DEF Return, TypeInv, Stacks
<1>3. Len(stack'[a]) = n - 1 /\ \A i \in 1 .. n - 1 : stack'[a][i] = stack[a][i]
  BY <1>1, <1>2
<1>4. Inner(a)'
  BY <1>1, <1>3 DEF Inner
<1>5. ASSUME ~Idle(a)' PROVE n - 1 \in 1 .. n - 1
  BY <1>1, <1>2, <1>5 DEF Idle
<1> QED
  BY <1>3, <1>4, <1>5 DEF Inner, Top, Harmless, Waiting

\* Become changes the innermost frame only.
LEMMA BecomeInner ==
    ASSUME TypeInv, NEW a \in Agents, ~Idle(a), Inner(a), NEW f, Become(a, f)
    PROVE  Inner(a)' /\ Top(a)' = f
<1> DEFINE n == Len(stack[a])
<1>1. stack[a] \in Seq(GoodFrame) /\ n \in Nat \ {0}
  BY DEF TypeInv, Stacks, Idle
<1>2. stack'[a] = [stack[a] EXCEPT ![n] = f]
  BY DEF Become, TypeInv, Stacks
<1>3. /\ Len(stack'[a]) = n /\ stack'[a][n] = f
      /\ \A i \in 1 .. n - 1 : stack'[a][i] = stack[a][i]
  BY <1>1, <1>2
<1> QED
  BY <1>1, <1>3 DEF Inner, Top

\* Call leaves the caller waiting below the callee.
LEMMA CallInner ==
    ASSUME TypeInv, NEW a \in Agents, ~Idle(a), Inner(a), NEW f \in GoodFrame, NEW g \in GoodFrame,
           f.pc \in Waiting, Call(a, f, g)
    PROVE  Inner(a)' /\ Top(a)' = g
<1> DEFINE n == Len(stack[a])
<1>1. stack[a] \in Seq(GoodFrame) /\ n \in Nat \ {0}
  BY DEF TypeInv, Stacks, Idle
<1>2. stack'[a] = Append([stack[a] EXCEPT ![n] = f], g)
  BY DEF Call, TypeInv, Stacks
<1>3. [stack[a] EXCEPT ![n] = f] \in Seq(GoodFrame)
  BY <1>1
<1>4. /\ Len(stack'[a]) = n + 1 /\ stack'[a][n + 1] = g /\ stack'[a][n] = f
      /\ \A i \in 1 .. n - 1 : stack'[a][i] = stack[a][i]
  BY <1>1, <1>2, <1>3
<1> QED
  BY <1>1, <1>4 DEF Inner, Top

\* Begin makes one frame.
LEMMA BeginInner ==
    ASSUME TypeInv, NEW a \in Agents, NEW f, Begin(a, f)
    PROVE  Inner(a)' /\ Top(a)' = f
  BY DEF TypeInv, Stacks, Begin, Inner, Top

\* What the guards found stands while no row and no edge changes.
LEMMA GuardedStable ==
    ASSUME UNCHANGED <<status, graph>>
    PROVE  \A f : Guarded(f)' <=> Guarded(f)
  BY DEF Guarded, ChildrenTerminal, Children, DependsTerminal, Exists, graph

------------------------------------------------------------------------------
(* One step of a lone caller.                                              *)

Held(a) == Inner(a) /\ (~Idle(a) => \A f : f = Top(a) => Guarded(f))

\* What may be said of a row the step completes.
Justified(a) ==
    \A x \in Artifacts : Completes(x) =>
        /\ ChildrenTerminal(x)
        /\ DependsTerminal(x) \/ (At(a, "put") /\ Top(a).id = x /\ Top(a).force)

\* An operation that starts completes nothing and claims nothing.
LEMMA StartHeld ==
    ASSUME Careful, TypeInv, NEW a \in Agents, Held(a), Start(a)
    PROVE  Held(a)' /\ Justified(a)
<1>1. ASSUME NEW f, Begin(a, f), Guarded(f), UNCHANGED <<status, graph>>
      PROVE  Held(a)' /\ Justified(a)
  <2>1. Inner(a)' /\ Top(a)' = f
    BY <1>1, BeginInner
  <2>2. Guarded(f)'
    BY <1>1, GuardedStable
  <2> QED
    BY <1>1, <2>1, <2>2 DEF Held, Justified, Completes
<1>2. ASSUME NEW x \in Artifacts, NEW to \in Targets, NEW force \in Forces,
             SetStatus(a, x, to, force)
      PROVE  Held(a)' /\ Justified(a)
  <2>1. Guarded(StatusFrame(FirstGuard(to), x, status[x], to, force))
    BY DEF Guarded, StatusFrame, FirstGuard
  <2> QED
    BY <1>1, <1>2, <2>1 DEF SetStatus
<1>3. ASSUME NEW p \in Artifacts, NEW c \in Artifacts, LinkParentOf(a, p, c)
      PROVE  Held(a)' /\ Justified(a)
  <2>1. Guarded(EdgeFrame("maxparents", p, status[p], status[c], c, None, {}))
    BY DEF Guarded, EdgeFrame
  <2> QED
    BY <1>1, <1>3, <2>1 DEF LinkParentOf
<1>4. ASSUME NEW x \in Artifacts, NEW d \in Artifacts, LinkDependsOn(a, x, d)
      PROVE  Held(a)' /\ Justified(a)
  <2>1. Guarded(EdgeFrame("cycle", x, None, None, None, d, {}))
    BY DEF Guarded, EdgeFrame
  <2> QED
    BY <1>1, <1>4, <2>1 DEF LinkDependsOn
<1>5. ASSUME NEW x \in Artifacts, NEW y \in Artifacts, Unlink(a, x, y)
      PROVE  Held(a)' /\ Justified(a)
  BY <1>5 DEF Unlink, Held, Inner, Idle, Justified, Completes
<1>6. ASSUME NEW x \in Artifacts, NEW p \in Artifacts \union {None}, SetParent(a, x, p)
      PROVE  Held(a)' /\ Justified(a)
  <2>1. Guarded(EdgeFrame(IF p = None THEN "oldparents" ELSE "parentcycle",
                          x, None, None, p, p, {}))
    BY DEF Guarded, EdgeFrame
  <2> QED
    BY <1>1, <1>6, <2>1 DEF SetParent
<1>7. ASSUME NEW x \in Artifacts, NEW d \in Artifacts \union {None}, SetDependsOn(a, x, d)
      PROVE  Held(a)' /\ Justified(a)
  <2>1. Guarded(EdgeFrame(IF d = None THEN "olddeps" ELSE "cycle", x, None, None, None, d, {}))
    BY DEF Guarded, EdgeFrame
  <2> QED
    BY <1>1, <1>7, <2>1 DEF SetDependsOn
<1>8. ASSUME NEW x \in Artifacts, NEW s, NEW p, NEW d, CreateArtifact(a, x, s, p, d)
      PROVE  Held(a)' /\ Justified(a)
  <2>1. Guarded(EdgeFrame("create", x, None, s, p, d, {}))
    BY <1>8 DEF CreateArtifact, Guarded, EdgeFrame
  <2> QED
    BY <1>1, <1>8, <2>1 DEF CreateArtifact
<1>9. ASSUME NEW x \in Artifacts, Delete(a, x)
      PROVE  Held(a)' /\ Justified(a)
  <2>1. Held(a)'
    BY <1>9 DEF Delete, Held, Inner, Idle
  <2>2. \A y \in Artifacts : ~Completes(y)
    BY <1>9 DEF Delete, Completes, TypeInv, Rows, None
  <2> QED
    BY <2>1, <2>2 DEF Justified
<1>10. \A e \in Linkable : e[1] \in Artifacts /\ e[2] \in Artifacts
  BY LifecycleAssumption
<1> QED
  BY <1>2, <1>3, <1>4, <1>5, <1>6, <1>7, <1>8, <1>9, <1>10 DEF Start

\* A step of a call completes a row only on the strength of its guards.
LEMMA AdvanceHeld ==
    ASSUME TypeInv, NEW a \in Agents, Held(a), Advance(a)
    PROVE  Held(a)' /\ Justified(a)
<1> USE DEF At
<1>r. ASSUME ~Idle(a), Return(a)
      PROVE  Held(a)'
  <2>1. Inner(a)' /\ (~Idle(a)' => Harmless(Top(a)'))
    BY <1>r, ReturnInner DEF Held
  <2> QED
    BY <2>1, HarmlessGuarded DEF Held
<1>b. ASSUME ~Idle(a), NEW f, Become(a, f), Harmless(f) \/ Guarded(f)'
      PROVE  Held(a)'
  <2>1. Inner(a)' /\ Top(a)' = f
    BY <1>b, BecomeInner DEF Held
  <2> QED
    BY <1>b, <2>1, HarmlessGuarded DEF Held
<1>c. ASSUME ~Idle(a), NEW f \in GoodFrame, NEW g \in GoodFrame, f.pc \in Waiting,
             Call(a, f, g), Harmless(g) \/ Guarded(g)'
      PROVE  Held(a)'
  <2>1. Inner(a)' /\ Top(a)' = g
    BY <1>c, CallInner DEF Held
  <2> QED
    BY <1>c, <2>1, HarmlessGuarded DEF Held
<1>j. ASSUME UNCHANGED status
      PROVE  Justified(a)
  BY <1>j DEF Justified, Completes
<1>f. ASSUME ~Idle(a)
      PROVE  /\ Top(a) \in GoodFrame /\ Top(a) \in Frame /\ Top(a).id \in Artifacts
             /\ Guarded(Top(a))
             /\ \A pc \in FreePCs : [Top(a) EXCEPT !.pc = pc] \in GoodFrame
             /\ \A x \in Artifacts : [Top(a) EXCEPT !.id = x] \in GoodFrame
             /\ \A p \in Artifacts : [Top(a) EXCEPT !.todo = @ \ {p}] \in GoodFrame
  BY <1>f, TopType, FrameUpdate DEF GoodFrame, Frame, Held
<1>k. ASSUME NEW p \in Artifacts, Exists(p)
      PROVE  Complete(p) \in GoodFrame /\ Harmless(Complete(p))
  <2>1. Complete(p) \in GoodFrame
    BY <1>k, StoreType, StatusFrameType DEF Complete, FreePCs, PCs, Statuses
  <2> QED
    BY <2>1 DEF Complete, StatusFrame, Harmless
<1>l. ASSUME NEW x \in Artifacts, NEW from \in Statuses \union {None}
      PROVE  Activate(x, from) \in GoodFrame /\ Guarded(Activate(x, from))'
  <2>1. Activate(x, from) \in GoodFrame
    BY StatusFrameType DEF Activate, ActiveStatus, FreePCs, PCs, Statuses
  <2>2. Guarded(Activate(x, from))'
    BY DEF Activate, StatusFrame, Guarded, ActiveStatus
  <2> QED
    BY <2>1, <2>2
<1>1. CASE GuardChildrenComplete(a)
  <2> DEFINE g == [Top(a) EXCEPT !.pc = AfterChildren(Top(a))]
  <2>1. ~Idle(a) /\ UNCHANGED <<status, graph>>
    BY <1>1 DEF GuardChildrenComplete
  <2>2. ASSUME ChildrenTerminal(Top(a).id) PROVE Guarded(g)
    BY <2>1, <2>2, <1>f DEF Guarded, AfterChildren, Frame
  <2>3. Return(a) \/ (Become(a, g) /\ ChildrenTerminal(Top(a).id))
    BY <1>1 DEF GuardChildrenComplete
  <2>4. ASSUME Become(a, g), ChildrenTerminal(Top(a).id) PROVE Held(a)'
    BY <2>1, <2>2, <2>4, <1>b, GuardedStable
  <2> QED
    BY <2>1, <2>3, <2>4, <1>r, <1>j
<1>2. CASE GuardDependsOnComplete(a)
  <2> DEFINE g == [Top(a) EXCEPT !.pc = "put"]
  <2>1. ~Idle(a) /\ UNCHANGED <<status, graph>> /\ Top(a).pc = "deps"
    BY <1>2 DEF GuardDependsOnComplete
  <2>2. ASSUME DependsTerminal(Top(a).id) PROVE Guarded(g)
    BY <2>1, <2>2, <1>f DEF Guarded, Frame
  <2>3. Return(a) \/ (Become(a, g) /\ DependsTerminal(Top(a).id))
    BY <1>2 DEF GuardDependsOnComplete
  <2>4. ASSUME Become(a, g), DependsTerminal(Top(a).id) PROVE Held(a)'
    BY <2>1, <2>2, <2>4, <1>b, GuardedStable
  <2> QED
    BY <2>1, <2>3, <2>4, <1>r, <1>j
<1>3. CASE PutStatus(a)
  <2> DEFINE f == Top(a)
             next == Reconciler(f.snap, f.to)
             g == [f EXCEPT !.pc = next]
  <2>1. ~Idle(a) /\ f.pc = "put" /\ status' = [status EXCEPT ![f.id] = f.to]
    BY <1>3 DEF PutStatus
  <2>2. next # "none" => Harmless(g)
    BY <2>1, <1>f DEF Reconciler, Harmless, Frame
  <2>3. Return(a) \/ (next # "none" /\ Become(a, g))
    BY <1>3 DEF PutStatus
  <2>4. Held(a)'
    BY <2>1, <2>2, <2>3, <1>r, <1>b
  <2>5. Justified(a)
    <3> SUFFICES ASSUME NEW x \in Artifacts, Completes(x)
                 PROVE  /\ ChildrenTerminal(x)
                        /\ DependsTerminal(x) \/ (At(a, "put") /\ Top(a).id = x /\ Top(a).force)
      BY DEF Justified
    <3>1. x = f.id /\ f.to = "work.complete"
      BY <2>1, <1>f DEF Completes, TypeInv, Rows
    <3> QED
      BY <2>1, <3>1, <1>f DEF Guarded
  <2> QED
    BY <2>4, <2>5
<1>4. CASE AutoCompleteParent(a)
  <2> DEFINE rest == [Top(a) EXCEPT !.pc = "rollup"]
  <2>1. ~Idle(a) /\ UNCHANGED status
    BY <1>4 DEF AutoCompleteParent
  <2>2. rest \in GoodFrame /\ rest.pc = "rollup" /\ Harmless(rest)
    BY <2>1, <1>f DEF Frame, FreePCs, PCs, Harmless
  <2>3. \/ Become(a, rest)
        \/ \E p \in Artifacts : Exists(p) /\ Call(a, rest, Complete(p))
    BY <1>4 DEF AutoCompleteParent, Parents, Open
  <2>4. Held(a)'
    BY <2>1, <2>2, <2>3, <1>b, <1>c, <1>k DEF Waiting
  <2> QED
    BY <2>1, <2>4, <1>j
<1>5. CASE StartRollup(a)
  <2> DEFINE g == [Top(a) EXCEPT !.pc = "rollnext", !.todo = Parents(Top(a).id)]
  <2>1. ~Idle(a) /\ UNCHANGED status /\ Become(a, g)
    BY <1>5 DEF StartRollup
  <2>2. Harmless(g)
    BY <2>1, <1>f DEF Frame, Harmless
  <2> QED
    BY <2>1, <2>2, <1>b, <1>j
<1>6. CASE CompletionRollup(a)
  <2> DEFINE rest(p) == [Top(a) EXCEPT !.todo = @ \ {p}]
  <2>1. ~Idle(a) /\ UNCHANGED status /\ Top(a).pc = "rollnext"
    BY <1>6 DEF CompletionRollup
  <2>2. Top(a).todo \in SUBSET Artifacts
    BY <2>1, <1>f DEF Frame
  <2>3. \A p \in Artifacts : rest(p) \in GoodFrame /\ rest(p).pc = "rollnext" /\ Harmless(rest(p))
    BY <2>1, <1>f DEF Frame, Harmless
  <2>4. \/ Return(a)
        \/ \E p \in Artifacts : \/ Become(a, rest(p))
                                \/ Exists(p) /\ Call(a, rest(p), Complete(p))
    BY <1>6, <2>2 DEF CompletionRollup, Open
  <2>5. Held(a)'
    BY <2>1, <2>3, <2>4, <1>r, <1>b, <1>c, <1>k DEF Waiting
  <2> QED
    BY <2>1, <2>5, <1>j
<1>7. CASE ReopenAncestors(a)
  <2> DEFINE rest == [Top(a) EXCEPT !.pc = "climb"]
  <2>1. ~Idle(a) /\ UNCHANGED status
    BY <1>7 DEF ReopenAncestors
  <2>2. rest \in GoodFrame /\ rest.pc = "climb" /\ Harmless(rest)
    BY <2>1, <1>f DEF Frame, FreePCs, PCs, Harmless
  <2>3. Top(a).id \in Artifacts /\ Top(a).snap \in Statuses \union {None}
    BY <2>1, <1>f DEF Frame
  <2>4. Become(a, rest) \/ Call(a, rest, Activate(Top(a).id, Top(a).snap))
    BY <1>7 DEF ReopenAncestors
  <2>5. Held(a)'
    BY <2>1, <2>2, <2>3, <2>4, <1>b, <1>c, <1>l DEF Waiting
  <2> QED
    BY <2>1, <2>5, <1>j
<1>8. CASE ClimbToParent(a)
  <2> DEFINE up(p) == [Top(a) EXCEPT !.id = p]
  <2>1. ~Idle(a) /\ UNCHANGED status /\ Top(a).pc = "climb"
    BY <1>8 DEF ClimbToParent
  <2>2. \A p \in Artifacts : up(p) \in GoodFrame /\ up(p).pc = "climb" /\ Harmless(up(p))
    BY <2>1, <1>f DEF Frame, Harmless
  <2>3. \/ Return(a)
        \/ \E p \in Artifacts : Become(a, up(p)) \/ Call(a, up(p), Activate(p, status[p]))
    BY <1>8 DEF ClimbToParent, Parents, Ascend
  <2>4. Held(a)'
    BY <2>1, <2>2, <2>3, <1>r, <1>b, <1>c, <1>l, StoreType DEF Waiting
  <2> QED
    BY <2>1, <2>4, <1>j
<1>9. CASE CheckMaxParents(a)
  <2> DEFINE g == [Top(a) EXCEPT !.pc = "linkadd"]
  <2>1. ~Idle(a) /\ UNCHANGED status /\ (Return(a) \/ Become(a, g))
    BY <1>9 DEF CheckMaxParents
  <2>2. Harmless(g)
    BY <2>1, <1>f DEF Frame, Harmless
  <2> QED
    BY <2>1, <2>2, <1>r, <1>b, <1>j
<1>10. CASE AddParentEdge(a)
  <2> DEFINE g == [Top(a) EXCEPT !.pc = "reopen"]
  <2>1. ~Idle(a) /\ UNCHANGED status /\ (Return(a) \/ Become(a, g))
    BY <1>10 DEF AddParentEdge
  <2>2. Harmless(g)
    BY <2>1, <1>f DEF Frame, Harmless
  <2> QED
    BY <2>1, <2>2, <1>r, <1>b, <1>j
<1>11. CASE CheckCycle(a)
  <2> DEFINE g == [Top(a) EXCEPT !.pc = "adddep"]
  <2>1. ~Idle(a) /\ UNCHANGED status /\ (Return(a) \/ Become(a, g))
    BY <1>11 DEF CheckCycle
  <2>2. Harmless(g)
    BY <2>1, <1>f DEF Frame, Harmless
  <2> QED
    BY <2>1, <2>2, <1>r, <1>b, <1>j
<1>12. CASE AddDependsOn(a)
  BY <1>12, <1>r, <1>j DEF AddDependsOn
<1>13. CASE CheckParentCycle(a)
  <2> DEFINE g == [Top(a) EXCEPT !.pc = "oldparents"]
             up(q) == [Top(a) EXCEPT !.cur = q]
  <2>1. ~Idle(a) /\ UNCHANGED status /\ Top(a).pc = "parentcycle"
    BY <1>13 DEF CheckParentCycle
  <2>2. Return(a) \/ Become(a, g) \/ \E q \in Artifacts : Become(a, up(q))
    BY <1>13 DEF CheckParentCycle, Parents
  <2>3. Harmless(g) /\ \A q \in Artifacts : Harmless(up(q))
    BY <2>1, <1>f DEF Frame, Harmless
  <2>4. Held(a)'
    BY <2>1, <2>2, <2>3, <1>r, <1>b
  <2> QED
    BY <2>1, <2>4, <1>j
<1>14. CASE ReadOldParents(a)
  <2> DEFINE g == [Top(a) EXCEPT !.pc = "unparent", !.todo = Parents(Top(a).id)]
  <2>1. ~Idle(a) /\ UNCHANGED status /\ Become(a, g)
    BY <1>14 DEF ReadOldParents
  <2>2. Harmless(g)
    BY <2>1, <1>f DEF Frame, Harmless
  <2> QED
    BY <2>1, <2>2, <1>b, <1>j
<1>15. CASE ReplaceParent(a)
  <2> DEFINE rest(p) == [Top(a) EXCEPT !.todo = @ \ {p}]
  <2>1. ~Idle(a) /\ UNCHANGED status /\ Top(a).pc = "unparent"
    BY <1>15 DEF ReplaceParent
  <2>2. Return(a) \/ \E p \in Artifacts : Become(a, rest(p))
    BY <1>15, <2>1, <1>f DEF ReplaceParent, Frame
  <2>3. \A p : Harmless(rest(p))
    BY <2>1, <1>f DEF Frame, Harmless
  <2> QED
    BY <2>1, <2>2, <2>3, <1>r, <1>b, <1>j
<1>16. CASE ReadOldDependencies(a)
  <2> DEFINE g == [Top(a) EXCEPT !.pc = "undep",
                                 !.todo = {d \in Artifacts : <<Top(a).id, d>> \in dependsOn}]
  <2>1. ~Idle(a) /\ UNCHANGED status /\ Become(a, g)
    BY <1>16 DEF ReadOldDependencies
  <2>2. Harmless(g)
    BY <2>1, <1>f DEF Frame, Harmless
  <2> QED
    BY <2>1, <2>2, <1>b, <1>j
<1>17. CASE ClearDependsOn(a)
  <2> DEFINE rest(d) == [Top(a) EXCEPT !.todo = @ \ {d}]
  <2>1. ~Idle(a) /\ UNCHANGED status /\ Top(a).pc = "undep"
    BY <1>17 DEF ClearDependsOn
  <2>2. Return(a) \/ \E d \in Artifacts : Become(a, rest(d))
    BY <1>17, <2>1, <1>f DEF ClearDependsOn, Frame
  <2>3. \A d : Harmless(rest(d))
    BY <2>1, <1>f DEF Frame, Harmless
  <2> QED
    BY <2>1, <2>2, <2>3, <1>r, <1>b, <1>j
<1>18. CASE PutNew(a)
  <2> DEFINE g == [Top(a) EXCEPT !.pc = "cparent"]
  <2>1. ~Idle(a) /\ Top(a).pc = "create" /\ Become(a, g)
    BY <1>18 DEF PutNew
  <2>2. Harmless(g)
    BY <2>1, <1>f DEF Frame, Harmless
  <2>3. \A x \in Artifacts : ~Completes(x)
    BY <1>18, <2>1, <1>f DEF PutNew, Completes, Guarded, TypeInv, Rows
  <2>4. Held(a)'
    BY <2>1, <2>2, <1>b
  <2> QED
    BY <2>3, <2>4 DEF Justified
<1>19. CASE AddNewParent(a)
  <2> DEFINE g == [Top(a) EXCEPT !.pc = "cdep"]
  <2>1. ~Idle(a) /\ UNCHANGED status /\ Become(a, g)
    BY <1>19 DEF AddNewParent
  <2>2. Harmless(g)
    BY <2>1, <1>f DEF Frame, Harmless
  <2> QED
    BY <2>1, <2>2, <1>b, <1>j
<1>20. CASE AddNewDependency(a)
  BY <1>20, <1>r, <1>j DEF AddNewDependency
<1> QED
  BY <1>1, <1>2, <1>3, <1>4, <1>5, <1>6, <1>7, <1>8, <1>9, <1>10, <1>11, <1>12, <1>13,
     <1>14, <1>15, <1>16, <1>17, <1>18, <1>19, <1>20 DEF Advance

------------------------------------------------------------------------------
Alone == \A a, b \in Agents : a = b

\* A lone caller holds what its guards found until it writes.
LEMMA GuardInvHolds ==
    ASSUME Alone, Careful
    PROVE  Spec => [](TypeInv /\ GuardInv)
<1>1. Init => GuardInv
  BY DEF Init, GuardInv, Inner, Idle
<1>2. TypeInv /\ GuardInv /\ [Next]_vars => GuardInv'
  <2> SUFFICES ASSUME TypeInv, GuardInv, [Next]_vars PROVE GuardInv'
    OBVIOUS
  <2>1. CASE UNCHANGED vars
    BY <2>1, GuardedStable DEF vars, graph, GuardInv, Inner, Idle, Top
  <2>2. ASSUME NEW a \in Agents, Start(a) \/ Advance(a) PROVE GuardInv'
    <3>1. Held(a)
      BY DEF GuardInv, Held
    <3>2. Held(a)'
      BY <2>2, <3>1, StartHeld, AdvanceHeld
    <3> QED
      BY <3>2 DEF GuardInv, Held, Alone
  <2> QED
    BY <2>1, <2>2 DEF Next
<1> QED
  BY <1>1, <1>2, TypeInvHolds, PTL DEF Spec

\* One caller at a time never completes anything over an unfinished child, nor,
\* unless it forces it, over an unfinished dependency: the rollups it sets off
\* included (setStatusForce, guardChildrenComplete, guardDependsOnComplete).
THEOREM ChildrenGuarded ==
    ASSUME Alone, Careful
    PROVE  Spec => ChildrenFirst
<1>1. TypeInv /\ GuardInv /\ [Next]_vars
          => [\A x \in Artifacts : Completes(x) => ChildrenTerminal(x)]_vars
  <2> SUFFICES ASSUME TypeInv, GuardInv, NEW a \in Agents, Start(a) \/ Advance(a)
               PROVE  \A x \in Artifacts : Completes(x) => ChildrenTerminal(x)
    BY DEF Next
  <2>1. Held(a)
    BY DEF GuardInv, Held
  <2> QED
    BY <2>1, StartHeld, AdvanceHeld DEF Justified
<1> QED
  BY <1>1, GuardInvHolds, PTL DEF Spec, ChildrenFirst

\* The same for dependencies (DependenciesFirst).
THEOREM DependenciesGuarded ==
    ASSUME Alone, Careful
    PROVE  Spec => DependenciesFirst
<1> DEFINE Allowed(x) == \/ DependsTerminal(x)
                         \/ \E a \in Agents : At(a, "put") /\ Top(a).id = x /\ Top(a).force
<1>1. TypeInv /\ GuardInv /\ [Next]_vars => [\A x \in Artifacts : Completes(x) => Allowed(x)]_vars
  <2> SUFFICES ASSUME TypeInv, GuardInv, NEW a \in Agents, Start(a) \/ Advance(a)
               PROVE  \A x \in Artifacts : Completes(x) => Allowed(x)
    BY DEF Next
  <2>1. Held(a)
    BY DEF GuardInv, Held
  <2> QED
    BY <2>1, StartHeld, AdvanceHeld DEF Justified
<1> QED
  BY <1>1, GuardInvHolds, PTL DEF Spec, DependenciesFirst

------------------------------------------------------------------------------
(* A step of one caller leaves the others' calls alone.                    *)

OthersStay(a) == \A b \in Agents \ {a} : stack'[b] = stack[b]

\* Whichever way a call moves, it moves its own stack.
LEMMA MovesOwnStack ==
    ASSUME TypeInv, NEW a \in Agents
    PROVE  /\ \A f : Begin(a, f) => OthersStay(a)
           /\ \A f : Become(a, f) => OthersStay(a)
           /\ \A f, g : Call(a, f, g) => OthersStay(a)
           /\ Return(a) => OthersStay(a)
           /\ UNCHANGED stack => OthersStay(a)
  BY DEF TypeInv, Stacks, Begin, Become, Call, Return, OthersStay

------------------------------------------------------------------------------
(* ClosedWorld, for any number of callers.  A call that will add an edge   *)
(* was let through by the relationships when it began; kinds never change, *)
(* so what others do meanwhile does not matter.                            *)

Permitted(f) ==
    /\ f.pc \in {"children", "deps", "put", "create"} => f.to # None
    /\ f.pc \in {"maxparents", "linkadd"} => ValidChild(f.id, f.other)
    /\ f.pc \in {"parentcycle", "oldparents", "unparent", "create", "cparent"} /\ f.other # None
           => ValidChild(f.other, f.id)

\* The innermost frame of the call a is in may go on.
MayGoOn(a) == Inner(a) /\ (~Idle(a) => \A f : f = Top(a) => Permitted(f))

EdgesPermitted == \A e \in parentOf : ValidChild(e[1], e[2])

PermitInv == EdgesPermitted /\ \A a \in Agents : MayGoOn(a)

\* A frame that waits for a callee needs no permission.
LEMMA WaitingPermitted == \A f : f.pc \in Waiting => Permitted(f)
  BY DEF Waiting, Permitted

\* Callers that do not move stay as they are.
LEMMA OthersGoOn ==
    ASSUME NEW a \in Agents, NEW b \in Agents \ {a}, OthersStay(a), MayGoOn(b)
    PROVE  MayGoOn(b)'
  BY DEF OthersStay, MayGoOn, Inner, Idle, Top

\* An operation begins only as the relationships allow.
LEMMA StartPermitted ==
    ASSUME Careful, TypeInv, NEW a \in Agents, MayGoOn(a), Start(a)
    PROVE  MayGoOn(a)' /\ OthersStay(a) /\ parentOf' \subseteq parentOf
<1> DEFINE Done == MayGoOn(a)' /\ OthersStay(a) /\ parentOf' \subseteq parentOf
<1>1. ASSUME NEW f, Begin(a, f), Permitted(f), UNCHANGED <<status, graph>>
      PROVE  Done
  <2>1. Inner(a)' /\ Top(a)' = f
    BY <1>1, BeginInner
  <2>2. MayGoOn(a)'
    BY <1>1, <2>1 DEF MayGoOn, Permitted
  <2> QED
    BY <1>1, <2>2, MovesOwnStack DEF graph
<1>2. ASSUME NEW x \in Artifacts, NEW to \in Targets, NEW force \in Forces,
             SetStatus(a, x, to, force)
      PROVE  Done
  <2>1. to # None
    BY LifecycleAssumption DEF Statuses, None
  <2>2. Permitted(StatusFrame(FirstGuard(to), x, status[x], to, force))
    BY <2>1 DEF Permitted, StatusFrame, FirstGuard
  <2> QED
    BY <1>1, <1>2, <2>2 DEF SetStatus
<1>3. ASSUME NEW p \in Artifacts, NEW c \in Artifacts, LinkParentOf(a, p, c)
      PROVE  Done
  <2>1. Permitted(EdgeFrame("maxparents", p, status[p], status[c], c, None, {}))
    BY <1>3 DEF LinkParentOf, Permitted, EdgeFrame
  <2> QED
    BY <1>1, <1>3, <2>1 DEF LinkParentOf
<1>4. ASSUME NEW x \in Artifacts, NEW d \in Artifacts, LinkDependsOn(a, x, d)
      PROVE  Done
  <2>1. Permitted(EdgeFrame("cycle", x, None, None, None, d, {}))
    BY DEF Permitted, EdgeFrame
  <2> QED
    BY <1>1, <1>4, <2>1 DEF LinkDependsOn
<1>5. ASSUME NEW x \in Artifacts, NEW y \in Artifacts, Unlink(a, x, y)
      PROVE  Done
  <2>1. UNCHANGED stack /\ parentOf' \subseteq parentOf /\ Idle(a)
    BY <1>5 DEF Unlink
  <2> QED
    BY <2>1, MovesOwnStack DEF MayGoOn, Inner, Idle
<1>6. ASSUME NEW x \in Artifacts, NEW p \in Artifacts \union {None}, SetParent(a, x, p)
      PROVE  Done
  <2>1. Permitted(EdgeFrame(IF p = None THEN "oldparents" ELSE "parentcycle",
                            x, None, None, p, p, {}))
    BY <1>6 DEF SetParent, Permitted, EdgeFrame
  <2> QED
    BY <1>1, <1>6, <2>1 DEF SetParent
<1>7. ASSUME NEW x \in Artifacts, NEW d \in Artifacts \union {None}, SetDependsOn(a, x, d)
      PROVE  Done
  <2>1. Permitted(EdgeFrame(IF d = None THEN "olddeps" ELSE "cycle", x, None, None, None, d, {}))
    BY DEF Permitted, EdgeFrame
  <2> QED
    BY <1>1, <1>7, <2>1 DEF SetDependsOn
<1>8. ASSUME NEW x \in Artifacts, NEW s \in Statuses, NEW p, NEW d, CreateArtifact(a, x, s, p, d)
      PROVE  Done
  <2>1. s # None
    BY DEF Statuses, None
  <2>2. Permitted(EdgeFrame("create", x, None, s, p, d, {}))
    BY <1>8, <2>1 DEF CreateArtifact, Permitted, EdgeFrame
  <2> QED
    BY <1>1, <1>8, <2>2 DEF CreateArtifact
<1>9. ASSUME NEW x \in Artifacts, Delete(a, x)
      PROVE  Done
  <2>1. UNCHANGED stack /\ parentOf' \subseteq parentOf /\ Idle(a)
    BY <1>9 DEF Delete, Detached
  <2> QED
    BY <2>1, MovesOwnStack DEF MayGoOn, Inner, Idle
<1>10. /\ \A e \in Linkable : e[1] \in Artifacts /\ e[2] \in Artifacts
       /\ Targets \subseteq Statuses
       /\ \A x \in Artifacts : DefaultStatus(KindOf[x]) \in Statuses
  BY LifecycleAssumption, DefaultType
<1> QED
  BY <1>2, <1>3, <1>4, <1>5, <1>6, <1>7, <1>8, <1>9, <1>10 DEF Start

------------------------------------------------------------------------------
(* A status change never touches the graph.                                *)

StatusStep(a) ==
    \/ GuardChildrenComplete(a) \/ GuardDependsOnComplete(a) \/ PutStatus(a)
    \/ AutoCompleteParent(a) \/ StartRollup(a) \/ CompletionRollup(a)
    \/ ReopenAncestors(a) \/ ClimbToParent(a)

StatusPCs == {"children", "deps", "put", "auto", "rollup", "rollnext", "reopen", "climb"}

\* The frame of a status change asks for a status.
Asking(f) == f.pc \in StatusPCs /\ (f.pc \in {"children", "deps", "put"} => f.to # None)

LEMMA WaitingAsks == \A f : f.pc \in Waiting => Asking(f)
  BY DEF Waiting, Asking, StatusPCs

NoRowLost == \A x \in Artifacts : Exists(x) => Exists(x)'

\* It adds and removes no edge, deletes no row, and leads to status changes only.
LEMMA StatusSteps ==
    ASSUME TypeInv, NEW a \in Agents, MayGoOn(a), StatusStep(a)
    PROVE  /\ Inner(a)' /\ (~Idle(a)' => Asking(Top(a)'))
           /\ OthersStay(a)
           /\ UNCHANGED graph
           /\ NoRowLost
<1> USE DEF At
<1> DEFINE Moved == Inner(a)' /\ (~Idle(a)' => Asking(Top(a)')) /\ OthersStay(a)
<1>r. ASSUME ~Idle(a), Return(a) PROVE Moved
  BY <1>r, ReturnInner, WaitingAsks, MovesOwnStack DEF MayGoOn
<1>b. ASSUME ~Idle(a), NEW f, Become(a, f), Asking(f) PROVE Moved
  BY <1>b, BecomeInner, MovesOwnStack DEF MayGoOn
<1>c. ASSUME ~Idle(a), NEW f \in GoodFrame, NEW g \in GoodFrame, f.pc \in Waiting,
             Call(a, f, g), Asking(g)
      PROVE  Moved
  BY <1>c, CallInner, MovesOwnStack DEF MayGoOn
<1>n. ASSUME UNCHANGED status PROVE NoRowLost
  BY <1>n DEF NoRowLost, Exists
<1>f. ASSUME ~Idle(a)
      PROVE  /\ Top(a) \in GoodFrame /\ Top(a) \in Frame /\ Top(a).id \in Artifacts
             /\ Permitted(Top(a))
             /\ \A pc \in FreePCs : [Top(a) EXCEPT !.pc = pc] \in GoodFrame
             /\ \A x \in Artifacts : [Top(a) EXCEPT !.id = x] \in GoodFrame
             /\ \A p \in Artifacts : [Top(a) EXCEPT !.todo = @ \ {p}] \in GoodFrame
  BY <1>f, TopType, FrameUpdate DEF GoodFrame, Frame, MayGoOn
<1>k. ASSUME NEW p \in Artifacts, Exists(p)
      PROVE  Complete(p) \in GoodFrame /\ Asking(Complete(p))
  <2>1. Complete(p) \in GoodFrame
    BY <1>k, StoreType, StatusFrameType DEF Complete, FreePCs, PCs, Statuses
  <2> QED
    BY <2>1 DEF Complete, StatusFrame, Asking, StatusPCs, None
<1>l. ASSUME NEW x \in Artifacts, NEW from \in Statuses \union {None}
      PROVE  Activate(x, from) \in GoodFrame /\ Asking(Activate(x, from))
  <2>1. Activate(x, from) \in GoodFrame
    BY StatusFrameType DEF Activate, ActiveStatus, FreePCs, PCs, Statuses
  <2> QED
    BY <2>1 DEF Activate, StatusFrame, ActiveStatus, Asking, StatusPCs, None
<1>1. CASE GuardChildrenComplete(a)
  <2> DEFINE g == [Top(a) EXCEPT !.pc = AfterChildren(Top(a))]
  <2>1. ~Idle(a) /\ UNCHANGED <<status, graph>> /\ Top(a).pc = "children"
    BY <1>1 DEF GuardChildrenComplete
  <2>2. Asking(g)
    BY <2>1, <1>f DEF Permitted, Asking, AfterChildren, StatusPCs, Frame
  <2>3. Return(a) \/ Become(a, g)
    BY <1>1 DEF GuardChildrenComplete
  <2> QED
    BY <2>1, <2>2, <2>3, <1>r, <1>b, <1>n
<1>2. CASE GuardDependsOnComplete(a)
  <2> DEFINE g == [Top(a) EXCEPT !.pc = "put"]
  <2>1. ~Idle(a) /\ UNCHANGED <<status, graph>> /\ Top(a).pc = "deps"
    BY <1>2 DEF GuardDependsOnComplete
  <2>2. Asking(g)
    BY <2>1, <1>f DEF Permitted, Asking, StatusPCs, Frame
  <2>3. Return(a) \/ Become(a, g)
    BY <1>2 DEF GuardDependsOnComplete
  <2> QED
    BY <2>1, <2>2, <2>3, <1>r, <1>b, <1>n
<1>3. CASE PutStatus(a)
  <2> DEFINE f == Top(a)
             next == Reconciler(f.snap, f.to)
             g == [f EXCEPT !.pc = next]
  <2>1. /\ ~Idle(a) /\ f.pc = "put" /\ status' = [status EXCEPT ![f.id] = f.to]
        /\ UNCHANGED graph
    BY <1>3 DEF PutStatus
  <2>2. next # "none" => Asking(g)
    BY <2>1, <1>f DEF Reconciler, Asking, StatusPCs, Frame
  <2>3. Return(a) \/ (next # "none" /\ Become(a, g))
    BY <1>3 DEF PutStatus
  <2>4. NoRowLost
    BY <2>1, <1>f DEF NoRowLost, Exists, Permitted, TypeInv, Rows
  <2> QED
    BY <2>1, <2>2, <2>3, <2>4, <1>r, <1>b
<1>4. CASE AutoCompleteParent(a)
  <2> DEFINE rest == [Top(a) EXCEPT !.pc = "rollup"]
  <2>1. ~Idle(a) /\ UNCHANGED <<status, graph>>
    BY <1>4 DEF AutoCompleteParent
  <2>2. rest \in GoodFrame /\ rest.pc = "rollup" /\ Asking(rest)
    BY <2>1, <1>f DEF Frame, FreePCs, PCs, Asking, StatusPCs
  <2>3. \/ Become(a, rest)
        \/ \E p \in Artifacts : Exists(p) /\ Call(a, rest, Complete(p))
    BY <1>4 DEF AutoCompleteParent, Parents, Open
  <2> QED
    BY <2>1, <2>2, <2>3, <1>b, <1>c, <1>k, <1>n DEF Waiting
<1>5. CASE StartRollup(a)
  <2> DEFINE g == [Top(a) EXCEPT !.pc = "rollnext", !.todo = Parents(Top(a).id)]
  <2>1. ~Idle(a) /\ UNCHANGED <<status, graph>> /\ Become(a, g)
    BY <1>5 DEF StartRollup
  <2>2. Asking(g)
    BY <2>1, <1>f DEF Frame, Asking, StatusPCs
  <2> QED
    BY <2>1, <2>2, <1>b, <1>n
<1>6. CASE CompletionRollup(a)
  <2> DEFINE rest(p) == [Top(a) EXCEPT !.todo = @ \ {p}]
  <2>1. ~Idle(a) /\ UNCHANGED <<status, graph>> /\ Top(a).pc = "rollnext"
    BY <1>6 DEF CompletionRollup
  <2>2. Top(a).todo \in SUBSET Artifacts
    BY <2>1, <1>f DEF Frame
  <2>3. \A p \in Artifacts : rest(p) \in GoodFrame /\ rest(p).pc = "rollnext" /\ Asking(rest(p))
    BY <2>1, <1>f DEF Frame, Asking, StatusPCs
  <2>4. \/ Return(a)
        \/ \E p \in Artifacts : \/ Become(a, rest(p))
                                \/ Exists(p) /\ Call(a, rest(p), Complete(p))
    BY <1>6, <2>2 DEF CompletionRollup, Open
  <2> QED
    BY <2>1, <2>3, <2>4, <1>r, <1>b, <1>c, <1>k, <1>n DEF Waiting
<1>7. CASE ReopenAncestors(a)
  <2> DEFINE rest == [Top(a) EXCEPT !.pc = "climb"]
  <2>1. ~Idle(a) /\ UNCHANGED <<status, graph>>
    BY <1>7 DEF ReopenAncestors
  <2>2. rest \in GoodFrame /\ rest.pc = "climb" /\ Asking(rest)
    BY <2>1, <1>f DEF Frame, FreePCs, PCs, Asking, StatusPCs
  <2>3. Top(a).id \in Artifacts /\ Top(a).snap \in Statuses \union {None}
    BY <2>1, <1>f DEF Frame
  <2>4. Become(a, rest) \/ Call(a, rest, Activate(Top(a).id, Top(a).snap))
    BY <1>7 DEF ReopenAncestors
  <2> QED
    BY <2>1, <2>2, <2>3, <2>4, <1>b, <1>c, <1>l, <1>n DEF Waiting
<1>8. CASE ClimbToParent(a)
  <2> DEFINE up(p) == [Top(a) EXCEPT !.id = p]
  <2>1. ~Idle(a) /\ UNCHANGED <<status, graph>> /\ Top(a).pc = "climb"
    BY <1>8 DEF ClimbToParent
  <2>2. \A p \in Artifacts : up(p) \in GoodFrame /\ up(p).pc = "climb" /\ Asking(up(p))
    BY <2>1, <1>f DEF Frame, Asking, StatusPCs
  <2>3. \/ Return(a)
        \/ \E p \in Artifacts : Become(a, up(p)) \/ Call(a, up(p), Activate(p, status[p]))
    BY <1>8 DEF ClimbToParent, Parents, Ascend
  <2> QED
    BY <2>1, <2>2, <2>3, <1>r, <1>b, <1>c, <1>l, <1>n, StoreType DEF Waiting
<1> QED
  BY <1>1, <1>2, <1>3, <1>4, <1>5, <1>6, <1>7, <1>8 DEF StatusStep

\* What it leads to is permitted.
LEMMA AskingPermitted == \A f : Asking(f) => Permitted(f)
  BY DEF Asking, StatusPCs, Permitted

------------------------------------------------------------------------------
(* The steps of the calls that do touch the graph.                         *)

EdgeStep(a) ==
    \/ CheckMaxParents(a) \/ AddParentEdge(a) \/ CheckCycle(a) \/ AddDependsOn(a)
    \/ CheckParentCycle(a) \/ ReadOldParents(a) \/ ReplaceParent(a)
    \/ ReadOldDependencies(a) \/ ClearDependsOn(a)
    \/ PutNew(a) \/ AddNewParent(a) \/ AddNewDependency(a)

LEMMA AdvanceSplit == \A a : Advance(a) <=> StatusStep(a) \/ EdgeStep(a)
  BY DEF Advance, StatusStep, EdgeStep

\* They add an edge between kinds that a relationship permits, and go on as the
\* guard that let them begin allowed.
LEMMA EdgeStepPermitted ==
    ASSUME TypeInv, EdgesPermitted, NEW a \in Agents, MayGoOn(a), EdgeStep(a)
    PROVE  MayGoOn(a)' /\ OthersStay(a) /\ EdgesPermitted'
<1> USE DEF At
<1> DEFINE Moved == MayGoOn(a)' /\ OthersStay(a)
<1>r. ASSUME ~Idle(a), Return(a) PROVE Moved
  <2>1. Inner(a)' /\ (~Idle(a)' => Top(a)'.pc \in Waiting)
    BY <1>r, ReturnInner DEF MayGoOn
  <2>2. ~Idle(a)' => Permitted(Top(a)')
    BY <2>1, WaitingPermitted
  <2> QED
    BY <1>r, <2>1, <2>2, MovesOwnStack DEF MayGoOn, Permitted
<1>b. ASSUME ~Idle(a), NEW f, Become(a, f), Permitted(f) PROVE Moved
  <2>1. Inner(a)' /\ Top(a)' = f
    BY <1>b, BecomeInner DEF MayGoOn
  <2> QED
    BY <1>b, <2>1, MovesOwnStack DEF MayGoOn, Permitted
<1>e. ASSUME \/ parentOf' \subseteq parentOf
             \/ \E p, c : ValidChild(p, c) /\ parentOf' = parentOf \union {<<p, c>>}
      PROVE  EdgesPermitted'
  <2>1. ASSUME NEW e \in parentOf' PROVE ValidChild(e[1], e[2])
    <3>1. e \in parentOf \/ \E p, c : ValidChild(p, c) /\ e = <<p, c>>
      BY <1>e, <2>1
    <3> QED
      BY <3>1 DEF EdgesPermitted
  <2> QED
    BY <2>1 DEF EdgesPermitted, ValidChild
<1>f. ASSUME ~Idle(a)
      PROVE  Top(a) \in Frame /\ Permitted(Top(a))
  BY <1>f, TopType DEF GoodFrame, MayGoOn
<1>1. CASE CheckMaxParents(a)
  <2> DEFINE g == [Top(a) EXCEPT !.pc = "linkadd"]
  <2>1. ~Idle(a) /\ Top(a).pc = "maxparents" /\ UNCHANGED parentOf /\ (Return(a) \/ Become(a, g))
    BY <1>1 DEF CheckMaxParents, graph
  <2>2. Permitted(g)
    BY <2>1, <1>f DEF Permitted, Frame
  <2> QED
    BY <2>1, <2>2, <1>r, <1>b, <1>e
<1>2. CASE AddParentEdge(a)
  <2> DEFINE g == [Top(a) EXCEPT !.pc = "reopen"]
  <2>1. /\ ~Idle(a) /\ Top(a).pc = "linkadd" /\ (Return(a) \/ Become(a, g))
        /\ parentOf' = parentOf \union {<<Top(a).id, Top(a).other>>}
    BY <1>2 DEF AddParentEdge
  <2>2. Permitted(g) /\ ValidChild(Top(a).id, Top(a).other)
    BY <2>1, <1>f DEF Permitted, Frame
  <2> QED
    BY <2>1, <2>2, <1>r, <1>b, <1>e
<1>3. CASE CheckCycle(a)
  <2> DEFINE g == [Top(a) EXCEPT !.pc = "adddep"]
  <2>1. ~Idle(a) /\ UNCHANGED parentOf /\ (Return(a) \/ Become(a, g))
    BY <1>3 DEF CheckCycle, graph
  <2>2. Permitted(g)
    BY <2>1, <1>f DEF Permitted, Frame
  <2> QED
    BY <2>1, <2>2, <1>r, <1>b, <1>e
<1>4. CASE AddDependsOn(a)
  BY <1>4, <1>r, <1>e DEF AddDependsOn
<1>5. CASE CheckParentCycle(a)
  <2> DEFINE g == [Top(a) EXCEPT !.pc = "oldparents"]
             up(q) == [Top(a) EXCEPT !.cur = q]
  <2>1. ~Idle(a) /\ UNCHANGED parentOf /\ Top(a).pc = "parentcycle"
    BY <1>5 DEF CheckParentCycle, graph
  <2>2. Return(a) \/ Become(a, g) \/ \E q \in Artifacts : Become(a, up(q))
    BY <1>5 DEF CheckParentCycle, Parents
  <2>3. Permitted(g) /\ \A q \in Artifacts : Permitted(up(q))
    BY <2>1, <1>f DEF Permitted, Frame
  <2> QED
    BY <2>1, <2>2, <2>3, <1>r, <1>b, <1>e
<1>6. CASE ReadOldParents(a)
  <2> DEFINE g == [Top(a) EXCEPT !.pc = "unparent", !.todo = Parents(Top(a).id)]
  <2>1. ~Idle(a) /\ UNCHANGED parentOf /\ Top(a).pc = "oldparents" /\ Become(a, g)
    BY <1>6 DEF ReadOldParents, graph
  <2>2. Permitted(g)
    BY <2>1, <1>f DEF Permitted, Frame
  <2> QED
    BY <2>1, <2>2, <1>b, <1>e
<1>7. CASE ReplaceParent(a)
  <2> DEFINE rest(p) == [Top(a) EXCEPT !.todo = @ \ {p}]
  <2>1. ~Idle(a) /\ Top(a).pc = "unparent"
    BY <1>7 DEF ReplaceParent
  <2>2. \/ Return(a) /\ parentOf' = parentOf
        \/ /\ Return(a) /\ Top(a).other # None
           /\ parentOf' = parentOf \union {<<Top(a).other, Top(a).id>>}
        \/ \E p \in Top(a).todo : Become(a, rest(p)) /\ parentOf' \subseteq parentOf
    BY <1>7 DEF ReplaceParent
  <2>3. \A p : Permitted(rest(p))
    BY <2>1, <1>f DEF Permitted, Frame
  <2>4. Top(a).other # None => ValidChild(Top(a).other, Top(a).id)
    BY <2>1, <1>f DEF Permitted
  <2> QED
    BY <2>1, <2>2, <2>3, <2>4, <1>r, <1>b, <1>e
<1>8. CASE ReadOldDependencies(a)
  <2> DEFINE g == [Top(a) EXCEPT !.pc = "undep",
                                 !.todo = {d \in Artifacts : <<Top(a).id, d>> \in dependsOn}]
  <2>1. ~Idle(a) /\ UNCHANGED parentOf /\ Become(a, g)
    BY <1>8 DEF ReadOldDependencies, graph
  <2>2. Permitted(g)
    BY <2>1, <1>f DEF Permitted, Frame
  <2> QED
    BY <2>1, <2>2, <1>b, <1>e
<1>9. CASE ClearDependsOn(a)
  <2> DEFINE rest(d) == [Top(a) EXCEPT !.todo = @ \ {d}]
  <2>1. ~Idle(a) /\ UNCHANGED parentOf /\ Top(a).pc = "undep"
    BY <1>9 DEF ClearDependsOn
  <2>2. Return(a) \/ \E d \in Top(a).todo : Become(a, rest(d))
    BY <1>9 DEF ClearDependsOn
  <2>3. \A d : Permitted(rest(d))
    BY <2>1, <1>f DEF Permitted, Frame
  <2> QED
    BY <2>1, <2>2, <2>3, <1>r, <1>b, <1>e
<1>10. CASE PutNew(a)
  <2> DEFINE g == [Top(a) EXCEPT !.pc = "cparent"]
  <2>1. ~Idle(a) /\ UNCHANGED parentOf /\ Top(a).pc = "create" /\ Become(a, g)
    BY <1>10 DEF PutNew, graph
  <2>2. Permitted(g)
    BY <2>1, <1>f DEF Permitted, Frame
  <2> QED
    BY <2>1, <2>2, <1>b, <1>e
<1>11. CASE AddNewParent(a)
  <2> DEFINE g == [Top(a) EXCEPT !.pc = "cdep"]
  <2>1. ~Idle(a) /\ Top(a).pc = "cparent" /\ Become(a, g)
    BY <1>11 DEF AddNewParent
  <2>2. Permitted(g) /\ (Top(a).other # None => ValidChild(Top(a).other, Top(a).id))
    BY <2>1, <1>f DEF Permitted, Frame
  <2>3. \/ parentOf' = parentOf
        \/ /\ Top(a).other # None
           /\ parentOf' = parentOf \union {<<Top(a).other, Top(a).id>>}
    BY <1>11 DEF AddNewParent
  <2> QED
    BY <2>1, <2>2, <2>3, <1>b, <1>e
<1>12. CASE AddNewDependency(a)
  BY <1>12, <1>r, <1>e DEF AddNewDependency
<1> QED
  BY <1>1, <1>2, <1>3, <1>4, <1>5, <1>6, <1>7, <1>8, <1>9, <1>10, <1>11, <1>12 DEF EdgeStep

SeedsPermitted == \A e \in SeedParents : ValidChild(e[1], e[2])

\* Every edge, and every edge about to be added, is permitted.
LEMMA PermitInvHolds ==
    ASSUME Careful, SeedsPermitted
    PROVE  Spec => [](TypeInv /\ PermitInv)
<1>1. Init => PermitInv
  BY DEF Init, SeedsPermitted, PermitInv, EdgesPermitted, MayGoOn, Inner, Idle
<1>2. TypeInv /\ PermitInv /\ [Next]_vars => PermitInv'
  <2> SUFFICES ASSUME TypeInv, PermitInv, [Next]_vars PROVE PermitInv'
    OBVIOUS
  <2>1. CASE UNCHANGED vars
    BY <2>1 DEF vars, PermitInv, EdgesPermitted, MayGoOn, Inner, Idle, Top
  <2>2. ASSUME NEW a \in Agents, Start(a) \/ Advance(a) PROVE PermitInv'
    <3>0. MayGoOn(a) /\ EdgesPermitted
      BY DEF PermitInv
    <3>1. ASSUME Start(a) PROVE MayGoOn(a)' /\ OthersStay(a) /\ EdgesPermitted'
      BY <3>0, <3>1, StartPermitted DEF EdgesPermitted
    <3>2. ASSUME StatusStep(a) PROVE MayGoOn(a)' /\ OthersStay(a) /\ EdgesPermitted'
      <4>1. /\ Inner(a)' /\ (~Idle(a)' => Asking(Top(a)'))
            /\ OthersStay(a) /\ UNCHANGED graph
        BY <3>0, <3>2, StatusSteps
      <4>2. ~Idle(a)' => Permitted(Top(a)')
        BY <4>1, AskingPermitted
      <4> QED
        BY <3>0, <4>1, <4>2 DEF MayGoOn, Permitted, EdgesPermitted, graph
    <3>3. ASSUME EdgeStep(a) PROVE MayGoOn(a)' /\ OthersStay(a) /\ EdgesPermitted'
      BY <3>0, <3>3, EdgeStepPermitted
    <3>4. MayGoOn(a)' /\ OthersStay(a) /\ EdgesPermitted'
      BY <2>2, <3>1, <3>2, <3>3, AdvanceSplit
    <3>5. \A b \in Agents \ {a} : MayGoOn(b)'
      BY <3>4, OthersGoOn DEF PermitInv
    <3> QED
      BY <3>4, <3>5 DEF PermitInv
  <2> QED
    BY <2>1, <2>2 DEF Next
<1> QED
  BY <1>1, <1>2, TypeInvHolds, PTL DEF Spec

\* Whatever any number of callers do at the same time, a parent_of edge is one
\* a relationship permits, as long as they name stored artifacts (isEdgeAllowed,
\* ValidChild: each operation checks before it begins, and kinds do not change).
THEOREM WorldClosed ==
    ASSUME Careful, SeedsPermitted
    PROVE  Spec => []ClosedWorld
<1>1. PermitInv => ClosedWorld
  BY DEF PermitInv, EdgesPermitted, ClosedWorld, ValidChild
<1> QED
  BY <1>1, PermitInvHolds, PTL

------------------------------------------------------------------------------
(* Reachability.  x is reached from y when every set closed under the      *)
(* edges from y on holds x; so one closed set without x shows it is not.   *)

Closed(E, y, S) == \A e \in E : e[1] = y \/ e[1] \in S => e[2] \in S

Acyclic(E) == \A x \in Artifacts : ~Reaches(E, x, x)

LEMMA NotReached ==
    ASSUME NEW E, NEW x, NEW y
    PROVE  ~Reaches(E, y, x) <=> \E S \in SUBSET Artifacts : Closed(E, y, S) /\ x \notin S
  BY DEF Reaches, Closed

\* Removing edges closes no loop.
LEMMA AcyclicRemove ==
    ASSUME NEW E, NEW F \in SUBSET E, Acyclic(E)
    PROVE  Acyclic(F)
<1> SUFFICES ASSUME NEW x \in Artifacts PROVE ~Reaches(F, x, x)
  BY DEF Acyclic
<1>1. PICK S \in SUBSET Artifacts : Closed(E, x, S) /\ x \notin S
  BY NotReached DEF Acyclic
<1>2. Closed(F, x, S)
  BY <1>1 DEF Closed
<1> QED
  BY <1>1, <1>2, NotReached

\* Adding an edge from -> to closes no loop unless `from` is reached from `to`:
\* the walk of wouldCycle looks for the only loops there can be.
LEMMA AcyclicAdd ==
    ASSUME NEW E, Acyclic(E), NEW from \in Artifacts, NEW to \in Artifacts,
           ~WouldCycle(E, from, to)
    PROVE  Acyclic(E \union {<<from, to>>})
<1> DEFINE F == E \union {<<from, to>>}
<1> SUFFICES ASSUME NEW x \in Artifacts PROVE ~Reaches(F, x, x)
  BY DEF Acyclic
<1>1. PICK B \in SUBSET Artifacts : Closed(E, to, B) /\ from \notin B
  BY NotReached DEF WouldCycle
<1>2. PICK S \in SUBSET Artifacts : Closed(E, x, S) /\ x \notin S
  BY NotReached DEF Acyclic
<1> DEFINE T == B \union {to}
<1>3. from \notin T /\ \A e \in E : e[1] \in T => e[2] \in T
  BY <1>1 DEF WouldCycle, Closed
<1>4. CASE x \in T
  <2>1. Closed(F, x, T \intersect S)
    BY <1>2, <1>3, <1>4 DEF Closed
  <2>2. T \intersect S \in SUBSET Artifacts /\ x \notin T \intersect S
    BY <1>2
  <2> QED
    BY <2>1, <2>2, NotReached
<1>5. CASE x \notin T
  <2>1. Closed(F, x, S \union T)
    BY <1>2, <1>3 DEF Closed
  <2>2. S \union T \in SUBSET Artifacts /\ x \notin S \union T
    BY <1>2, <1>5
  <2> QED
    BY <2>1, <2>2, NotReached
<1> QED
  BY <1>4, <1>5

Untouched(E, x) == \A e \in E : x \notin {e[1], e[2]}

\* No walk leads to an artifact without edges.
LEMMA UntouchedNotReached ==
    ASSUME NEW E \in SUBSET (Artifacts \X Artifacts), NEW x, NEW y \in Artifacts,
           Untouched(E, x), x # y
    PROVE  ~WouldCycle(E, x, y)
<1>1. Closed(E, y, Artifacts \ {x})
  BY DEF Closed, Untouched
<1> QED
  BY <1>1, NotReached DEF WouldCycle

------------------------------------------------------------------------------
(* The graph of a lone careful caller: an artifact has the parents its     *)
(* kind may have, edges join stored artifacts, and dependencies close no   *)
(* loop.  The three need each other: the first dependency and parent of a  *)
(* new artifact are not checked, and close no loop because a deleted or    *)
(* never stored artifact has left no edge.                                 *)

Single ==
    \A x \in Artifacts : MaxParents(KindOf[x]) > 0 => \A p, q \in Parents(x) : p = q

Stored == \A e \in parentOf \union dependsOn : Exists(e[1]) /\ Exists(e[2])

GraphOK == Single /\ Stored /\ Acyclic(dependsOn)

\* What the checks a call has made say of the edge it is about to add.
Sound(f) ==
    /\ f.pc = "create" => ~Exists(f.id)
    /\ f.pc \in {"maxparents", "linkadd", "cycle", "adddep", "parentcycle", "oldparents",
                 "unparent", "cparent", "cdep"} => Exists(f.id)
    /\ f.pc \in {"maxparents", "linkadd", "parentcycle", "oldparents", "unparent",
                 "create", "cparent"} /\ f.other # None => Exists(f.other)
    /\ f.pc \in {"cycle", "adddep"} => Exists(f.cur)
    /\ f.pc \in {"create", "cparent", "cdep"} => f.cur # f.id
    /\ f.pc = "linkadd" /\ MaxParents(KindOf[f.other]) > 0 => Parents(f.other) = {}
    /\ f.pc = "unparent" => Parents(f.id) \subseteq f.todo
    /\ f.pc = "cparent" => Untouched(parentOf, f.id)
    /\ f.pc \in {"cparent", "cdep"} => Untouched(dependsOn, f.id)
    /\ f.pc = "adddep" => ~WouldCycle(dependsOn, f.id, f.cur)

\* The innermost frame of the call a is in is sound.
SoundCall(a) == ~Idle(a) => \A f : f = Top(a) => Sound(f)

StructInv == GraphOK /\ \A a \in Agents : SoundCall(a)

\* The frame of a status change, and one that waits, claims nothing.
LEMMA StatusSound ==
    \A f : f.pc \in StatusPCs \union Waiting => Sound(f) /\ Sound(f)'
  BY DEF StatusPCs, Waiting, Sound

\* What was checked stands while no row and no edge changes.
LEMMA SoundStable ==
    ASSUME UNCHANGED <<status, graph>>
    PROVE  \A f : Sound(f)' <=> Sound(f)
  BY DEF Sound, graph, Exists, Parents, Untouched, WouldCycle, Reaches

\* The graph is as good after a step that only removes edges and keeps the rows.
LEMMA GraphShrinks ==
    ASSUME GraphOK, parentOf' \subseteq parentOf, dependsOn' \subseteq dependsOn,
           \A e \in parentOf' \union dependsOn' : \A x \in {e[1], e[2]} : Exists(x) => Exists(x)'
    PROVE  GraphOK'
<1>1. Single'
  BY DEF GraphOK, Single, Parents
<1>2. Stored'
  BY DEF GraphOK, Stored
<1>3. Acyclic(dependsOn')
  BY AcyclicRemove DEF GraphOK
<1> QED
  BY <1>1, <1>2, <1>3 DEF GraphOK, Acyclic, Reaches

\* An operation that starts names stored artifacts, or a free id to create.
LEMMA StartSound ==
    ASSUME Careful, TypeInv, GraphOK, NEW a \in Agents, Start(a)
    PROVE  GraphOK' /\ SoundCall(a)'
<1> DEFINE Kept == GraphOK' /\ SoundCall(a)'
<1>1. ASSUME NEW f, Begin(a, f), Sound(f), UNCHANGED <<status, graph>>
      PROVE  Kept
  <2>1. Top(a)' = f
    BY <1>1, BeginInner
  <2>2. SoundCall(a)'
    BY <1>1, <2>1, SoundStable DEF SoundCall
  <2>3. GraphOK'
    BY <1>1, GraphShrinks DEF graph, Exists
  <2> QED
    BY <2>2, <2>3
<1>2. ASSUME NEW x \in Artifacts, NEW to \in Targets, NEW force \in Forces,
             SetStatus(a, x, to, force)
      PROVE  Kept
  <2>1. Sound(StatusFrame(FirstGuard(to), x, status[x], to, force))
    BY StatusSound DEF StatusFrame, FirstGuard, StatusPCs
  <2> QED
    BY <1>1, <1>2, <2>1 DEF SetStatus
<1>3. ASSUME NEW p \in Artifacts, NEW c \in Artifacts, LinkParentOf(a, p, c)
      PROVE  Kept
  <2>1. Sound(EdgeFrame("maxparents", p, status[p], status[c], c, None, {}))
    BY <1>3 DEF LinkParentOf, Sound, EdgeFrame
  <2> QED
    BY <1>1, <1>3, <2>1 DEF LinkParentOf
<1>4. ASSUME NEW x \in Artifacts, NEW d \in Artifacts, LinkDependsOn(a, x, d)
      PROVE  Kept
  <2>1. Sound(EdgeFrame("cycle", x, None, None, None, d, {}))
    BY <1>4 DEF LinkDependsOn, Sound, EdgeFrame
  <2> QED
    BY <1>1, <1>4, <2>1 DEF LinkDependsOn
<1>5. ASSUME NEW x \in Artifacts, NEW y \in Artifacts, Unlink(a, x, y)
      PROVE  Kept
  <2>1. GraphOK'
    BY <1>5, GraphShrinks DEF Unlink, Exists
  <2> QED
    BY <1>5, <2>1 DEF Unlink, SoundCall, Idle
<1>6. ASSUME NEW x \in Artifacts, NEW p \in Artifacts \union {None}, SetParent(a, x, p)
      PROVE  Kept
  <2>1. Sound(EdgeFrame(IF p = None THEN "oldparents" ELSE "parentcycle",
                        x, None, None, p, p, {}))
    BY <1>6 DEF SetParent, Sound, EdgeFrame
  <2> QED
    BY <1>1, <1>6, <2>1 DEF SetParent
<1>7. ASSUME NEW x \in Artifacts, NEW d \in Artifacts \union {None}, SetDependsOn(a, x, d)
      PROVE  Kept
  <2>1. Sound(EdgeFrame(IF d = None THEN "olddeps" ELSE "cycle", x, None, None, None, d, {}))
    BY <1>7 DEF SetDependsOn, Sound, EdgeFrame
  <2> QED
    BY <1>1, <1>7, <2>1 DEF SetDependsOn
<1>8. ASSUME NEW x \in Artifacts, NEW s, NEW p, NEW d \in Artifacts \union {None},
             CreateArtifact(a, x, s, p, d)
      PROVE  Kept
  <2>1. ~Exists(x) /\ (p # None => Exists(p)) /\ (d # None => Exists(d)) /\ x # None
    BY <1>8, LifecycleAssumption DEF CreateArtifact
  <2>2. d # x
    BY <2>1
  <2>3. Sound(EdgeFrame("create", x, None, s, p, d, {}))
    BY <2>1, <2>2 DEF Sound, EdgeFrame
  <2> QED
    BY <1>1, <1>8, <2>3 DEF CreateArtifact
<1>9. ASSUME NEW x \in Artifacts, Delete(a, x)
      PROVE  Kept
  <2>1. \A y \in Artifacts \ {x} : Exists(y) => Exists(y)'
    BY <1>9 DEF Delete, Exists, TypeInv, Rows
  <2>2. /\ parentOf' \subseteq parentOf /\ dependsOn' \subseteq dependsOn
        /\ \A e \in parentOf' \union dependsOn' : {e[1], e[2]} \subseteq Artifacts \ {x}
    BY <1>9 DEF Delete, Detached, TypeInv
  <2>3. GraphOK'
    BY <2>1, <2>2, GraphShrinks
  <2> QED
    BY <1>9, <2>3 DEF Delete, SoundCall, Idle
<1>10. \A e \in Linkable : e[1] \in Artifacts /\ e[2] \in Artifacts
  BY LifecycleAssumption
<1> QED
  BY <1>2, <1>3, <1>4, <1>5, <1>6, <1>7, <1>8, <1>9, <1>10 DEF Start

\* A status change leaves the graph as good as it was.
LEMMA StatusStepSound ==
    ASSUME TypeInv, GraphOK, NEW a \in Agents, MayGoOn(a), StatusStep(a)
    PROVE  GraphOK' /\ SoundCall(a)'
<1>1. /\ ~Idle(a)' => Top(a)'.pc \in StatusPCs
      /\ UNCHANGED graph /\ NoRowLost
  BY StatusSteps DEF Asking
<1>2. SoundCall(a)'
  BY <1>1, StatusSound DEF SoundCall
<1>3. \A e \in parentOf' \union dependsOn' : {e[1], e[2]} \subseteq Artifacts
  BY <1>1 DEF graph, TypeInv
<1>4. GraphOK'
  BY <1>1, <1>3, GraphShrinks DEF graph, NoRowLost
<1> QED
  BY <1>2, <1>4

------------------------------------------------------------------------------
(* The steps that add and remove edges.                                    *)

\* Linking counts the parents.
LEMMA CountsParents ==
    ASSUME Single, NEW x \in Artifacts, MaxParents(KindOf[x]) > 0,
           ~(Cardinality(Parents(x)) + 1 > MaxParents(KindOf[x]))
    PROVE  Parents(x) = {}
<1> SUFFICES ASSUME NEW p \in Parents(x) PROVE FALSE
  OBVIOUS
<1>1. Parents(x) = {p}
  BY DEF Single
<1>2. Cardinality(Parents(x)) = 1
  BY <1>1, FS_Singleton
<1>3. MaxParents(KindOf[x]) = 1
  BY DEF MaxParents
<1> QED
  BY <1>2, <1>3

\* A first parent for an artifact that has none.
LEMMA FirstParent ==
    ASSUME TypeInv, GraphOK, NEW p \in Artifacts, NEW x \in Artifacts,
           MaxParents(KindOf[x]) > 0 => Parents(x) = {},
           Exists(p), Exists(x), UNCHANGED <<status, dependsOn>>,
           parentOf' = parentOf \union {<<p, x>>}
    PROVE  GraphOK'
<1>1. Single'
  BY DEF GraphOK, Single, Parents, MaxParents
<1>2. Stored'
  BY DEF GraphOK, Stored, Exists
<1>3. Acyclic(dependsOn')
  BY DEF GraphOK
<1> QED
  BY <1>1, <1>2, <1>3 DEF GraphOK, Acyclic, Reaches

\* A dependency that closes no loop.
LEMMA NextDependency ==
    ASSUME TypeInv, GraphOK, NEW x \in Artifacts, NEW d \in Artifacts,
           ~WouldCycle(dependsOn, x, d), Exists(x), Exists(d), UNCHANGED <<status, parentOf>>,
           dependsOn' = dependsOn \union {<<x, d>>}
    PROVE  GraphOK'
<1>1. Single'
  BY DEF GraphOK, Single, Parents, MaxParents
<1>2. Stored'
  BY DEF GraphOK, Stored, Exists
<1>3. Acyclic(dependsOn')
  BY AcyclicAdd DEF GraphOK
<1> QED
  BY <1>1, <1>2, <1>3 DEF GraphOK, Acyclic, Reaches

\* A step of a call adds an edge only on the strength of its checks.
LEMMA EdgeStepSound ==
    ASSUME TypeInv, GraphOK, NEW a \in Agents, MayGoOn(a), SoundCall(a), EdgeStep(a)
    PROVE  GraphOK' /\ SoundCall(a)'
<1>0. PICK f : f = Top(a)
  OBVIOUS
<1> USE <1>0 DEF At
<1> DEFINE Same == UNCHANGED <<status, graph>>
<1>r. ASSUME ~Idle(a), Return(a) PROVE SoundCall(a)'
  <2>1. ~Idle(a)' => Top(a)'.pc \in Waiting
    BY <1>r, ReturnInner DEF MayGoOn
  <2> QED
    BY <2>1, StatusSound DEF SoundCall
<1>b. ASSUME ~Idle(a), NEW g, Become(a, g), Sound(g)' PROVE SoundCall(a)'
  <2>1. Top(a)' = g
    BY <1>b, BecomeInner DEF MayGoOn
  <2> QED
    BY <1>b, <2>1 DEF SoundCall
<1>s. ASSUME Same PROVE GraphOK'
  BY <1>s, GraphShrinks DEF graph, Exists
<1>f. ASSUME ~Idle(a)
      PROVE  /\ f \in Frame /\ Sound(f) /\ Permitted(f) /\ f.id \in Artifacts
             /\ f.other # None => f.other \in Artifacts
             /\ f.cur # None => f.cur \in Artifacts
             /\ f.pc \in {"maxparents", "linkadd"} => f.other # None
             /\ f.pc \in {"cycle", "adddep"} => f.cur # None
  BY <1>f, TopType DEF GoodFrame, Frame, MayGoOn, SoundCall
<1>1. CASE CheckMaxParents(a)
  <2> DEFINE g == [f EXCEPT !.pc = "linkadd"]
             max == MaxParents(KindOf[f.other])
  <2>1. /\ ~Idle(a) /\ f.pc = "maxparents" /\ Same
        /\ Return(a) \/ (Become(a, g) /\ ~(max > 0 /\ Cardinality(Parents(f.other)) + 1 > max))
    BY <1>1 DEF CheckMaxParents
  <2>2. ASSUME ~(max > 0 /\ Cardinality(Parents(f.other)) + 1 > max)
        PROVE  Sound(g)
    <3>1. max > 0 => Parents(f.other) = {}
      BY <2>1, <2>2, <1>f, CountsParents DEF GraphOK
    <3> QED
      BY <2>1, <3>1, <1>f DEF Sound, Frame
  <2> QED
    BY <2>1, <2>2, <1>r, <1>b, <1>s, SoundStable
<1>2. CASE AddParentEdge(a)
  <2> DEFINE g == [f EXCEPT !.pc = "reopen"]
  <2>1. /\ ~Idle(a) /\ f.pc = "linkadd" /\ (Return(a) \/ Become(a, g))
        /\ parentOf' = parentOf \union {<<f.id, f.other>>} /\ UNCHANGED <<status, dependsOn>>
    BY <1>2 DEF AddParentEdge
  <2>2. Sound(g)'
    BY <2>1, <1>f, StatusSound DEF Frame, StatusPCs
  <2>3. GraphOK'
    BY <2>1, <1>f, FirstParent DEF Sound
  <2> QED
    BY <2>1, <2>2, <2>3, <1>r, <1>b
<1>3. CASE CheckCycle(a)
  <2> DEFINE g == [f EXCEPT !.pc = "adddep"]
  <2>1. /\ ~Idle(a) /\ f.pc = "cycle" /\ Same
        /\ Return(a) \/ (Become(a, g) /\ ~WouldCycle(dependsOn, f.id, f.cur))
    BY <1>3 DEF CheckCycle
  <2>2. ~WouldCycle(dependsOn, f.id, f.cur) => Sound(g)
    BY <2>1, <1>f DEF Sound, Frame
  <2> QED
    BY <2>1, <2>2, <1>r, <1>b, <1>s, SoundStable
<1>4. CASE AddDependsOn(a)
  <2>1. /\ ~Idle(a) /\ f.pc = "adddep" /\ Return(a)
        /\ dependsOn' = dependsOn \union {<<f.id, f.cur>>} /\ UNCHANGED <<status, parentOf>>
    BY <1>4 DEF AddDependsOn
  <2>2. GraphOK'
    BY <2>1, <1>f, NextDependency DEF Sound
  <2> QED
    BY <2>1, <2>2, <1>r
<1>5. CASE CheckParentCycle(a)
  <2> DEFINE g == [f EXCEPT !.pc = "oldparents"]
             up(q) == [f EXCEPT !.cur = q]
  <2>1. ~Idle(a) /\ Same /\ f.pc = "parentcycle"
    BY <1>5 DEF CheckParentCycle
  <2>2. Return(a) \/ Become(a, g) \/ \E q \in Artifacts : Become(a, up(q))
    BY <1>5 DEF CheckParentCycle, Parents
  <2>3. Sound(g) /\ \A q \in Artifacts : Sound(up(q))
    BY <2>1, <1>f DEF Sound, Frame
  <2> QED
    BY <2>1, <2>2, <2>3, <1>r, <1>b, <1>s, SoundStable
<1>6. CASE ReadOldParents(a)
  <2> DEFINE g == [f EXCEPT !.pc = "unparent", !.todo = Parents(f.id)]
  <2>1. ~Idle(a) /\ Same /\ f.pc = "oldparents" /\ Become(a, g)
    BY <1>6 DEF ReadOldParents
  <2>2. Sound(g)
    BY <2>1, <1>f DEF Sound, Frame
  <2> QED
    BY <2>1, <2>2, <1>b, <1>s, SoundStable
<1>7. CASE ReplaceParent(a)
  <2> DEFINE rest(p) == [f EXCEPT !.todo = @ \ {p}]
  <2>1. ~Idle(a) /\ f.pc = "unparent" /\ UNCHANGED <<status, dependsOn>>
    BY <1>7 DEF ReplaceParent
  <2>2. Sound(f) /\ f \in Frame
    BY <2>1, <1>f
  <2>3. ASSUME NEW p \in f.todo, parentOf' = parentOf \ {<<p, f.id>>}, Become(a, rest(p))
        PROVE  GraphOK' /\ SoundCall(a)'
    <3>1. GraphOK'
      BY <2>1, <2>3, GraphShrinks DEF Exists
    <3>2. Sound(rest(p))'
      BY <2>1, <2>2, <2>3 DEF Sound, Frame, Exists, Parents
    <3> QED
      BY <2>1, <2>3, <3>1, <3>2, <1>b
  <2>4. ASSUME f.todo = {}, Return(a),
               parentOf' = IF f.other = None THEN parentOf ELSE parentOf \union {<<f.other, f.id>>}
        PROVE  GraphOK' /\ SoundCall(a)'
    <3>1. Parents(f.id) = {} /\ Exists(f.id) /\ (f.other # None => Exists(f.other))
      BY <2>1, <2>2, <2>4 DEF Sound
    <3>2. GraphOK'
      BY <2>1, <2>4, <3>1, <1>f, <1>s, FirstParent DEF graph
    <3> QED
      BY <2>1, <2>4, <3>2, <1>r
  <2> QED
    BY <1>7, <2>3, <2>4 DEF ReplaceParent
<1>8. CASE ReadOldDependencies(a)
  <2> DEFINE g == [f EXCEPT !.pc = "undep", !.todo = {d \in Artifacts : <<f.id, d>> \in dependsOn}]
  <2>1. ~Idle(a) /\ Same /\ Become(a, g)
    BY <1>8 DEF ReadOldDependencies
  <2>2. Sound(g)
    BY <2>1, <1>f DEF Sound, Frame
  <2> QED
    BY <2>1, <2>2, <1>b, <1>s, SoundStable
<1>9. CASE ClearDependsOn(a)
  <2> DEFINE rest(d) == [f EXCEPT !.todo = @ \ {d}]
  <2>1. /\ ~Idle(a) /\ UNCHANGED <<status, parentOf>> /\ f.pc = "undep"
        /\ dependsOn' \subseteq dependsOn
        /\ Return(a) \/ \E d \in f.todo : Become(a, rest(d))
    BY <1>9 DEF ClearDependsOn
  <2>2. \A d : Sound(rest(d))'
    BY <2>1, <1>f DEF Sound, Frame
  <2>3. GraphOK'
    BY <2>1, GraphShrinks DEF Exists
  <2> QED
    BY <2>1, <2>2, <2>3, <1>r, <1>b
<1>10. CASE PutNew(a)
  <2> DEFINE g == [f EXCEPT !.pc = "cparent"]
  <2>1. /\ ~Idle(a) /\ UNCHANGED graph /\ f.pc = "create" /\ Become(a, g)
        /\ status' = [status EXCEPT ![f.id] = f.to]
    BY <1>10 DEF PutNew
  <2>2. Exists(f.id)' /\ \A x \in Artifacts : Exists(x) => Exists(x)'
    BY <2>1, <1>f DEF Exists, Permitted, TypeInv, Rows
  <2>3. Untouched(parentOf, f.id) /\ Untouched(dependsOn, f.id)
    BY <2>1, <1>f DEF Sound, GraphOK, Stored, Untouched
  <2>4. Sound(g)'
    BY <2>1, <2>2, <2>3, <1>f DEF Sound, Frame, Untouched, graph
  <2>5. GraphOK'
    <3>1. \A e \in parentOf' \union dependsOn' : {e[1], e[2]} \subseteq Artifacts
      BY <2>1 DEF graph, TypeInv
    <3> QED
      BY <2>1, <2>2, <3>1, GraphShrinks DEF graph
  <2> QED
    BY <2>1, <2>4, <2>5, <1>b
<1>11. CASE AddNewParent(a)
  <2> DEFINE g == [f EXCEPT !.pc = "cdep"]
  <2>1. /\ ~Idle(a) /\ f.pc = "cparent" /\ Become(a, g) /\ UNCHANGED <<status, dependsOn>>
        /\ parentOf' = IF f.other = None THEN parentOf ELSE parentOf \union {<<f.other, f.id>>}
    BY <1>11 DEF AddNewParent
  <2>2. Sound(g)'
    BY <2>1, <1>f DEF Sound, Frame, Untouched, Exists
  <2>3. Parents(f.id) = {} /\ Exists(f.id) /\ (f.other # None => Exists(f.other))
    BY <2>1, <1>f DEF Sound, Untouched, Parents
  <2>4. GraphOK'
    BY <2>1, <2>3, <1>f, <1>s, FirstParent DEF graph
  <2> QED
    BY <2>1, <2>2, <2>4, <1>b
<1>12. CASE AddNewDependency(a)
  <2>1. /\ ~Idle(a) /\ f.pc = "cdep" /\ Return(a) /\ UNCHANGED <<status, parentOf>>
        /\ dependsOn' = IF f.cur # None /\ Exists(f.cur)
                        THEN dependsOn \union {<<f.id, f.cur>>} ELSE dependsOn
    BY <1>12 DEF AddNewDependency
  <2>2. Exists(f.id) /\ Untouched(dependsOn, f.id) /\ f.cur # f.id
    BY <2>1, <1>f DEF Sound
  <2>3. f.cur # None => ~WouldCycle(dependsOn, f.id, f.cur)
    BY <2>1, <2>2, <1>f, UntouchedNotReached DEF TypeInv
  <2>4. GraphOK'
    BY <2>1, <2>2, <2>3, <1>f, <1>s, NextDependency DEF graph
  <2> QED
    BY <2>1, <2>4, <1>r
<1> QED
  BY <1>1, <1>2, <1>3, <1>4, <1>5, <1>6, <1>7, <1>8, <1>9, <1>10, <1>11, <1>12 DEF EdgeStep

------------------------------------------------------------------------------
\* The store begins with a graph the operations could have made.
SeedsSound ==
    /\ SeedsPermitted
    /\ \A x \in Artifacts : MaxParents(KindOf[x]) > 0 =>
            \A p, q \in Artifacts : <<p, x>> \in SeedParents /\ <<q, x>> \in SeedParents => p = q
    /\ Acyclic(SeedDeps)

LEMMA InitGraph == Init /\ SeedsSound => StructInv
<1> SUFFICES ASSUME Init, SeedsSound PROVE StructInv
  OBVIOUS
<1>1. Single
  BY DEF Init, SeedsSound, Single, Parents
<1>2. Stored
  <2>1. \A x \in Seeded : status[x] \in Statuses
    BY DefaultType, LifecycleAssumption DEF Init
  <2> QED
    BY <2>1, LifecycleAssumption DEF Init, Stored, Exists, Statuses, None
<1>3. Acyclic(dependsOn)
  BY DEF Init, SeedsSound
<1> QED
  BY <1>1, <1>2, <1>3 DEF StructInv, GraphOK, SoundCall, Init, Idle

\* A lone careful caller keeps the graph as its kinds and checks demand.
LEMMA StructInvHolds ==
    ASSUME Alone, Careful, SeedsSound
    PROVE  Spec => [](TypeInv /\ PermitInv /\ StructInv)
<1>1. TypeInv /\ PermitInv /\ StructInv /\ [Next]_vars => StructInv'
  <2> SUFFICES ASSUME TypeInv, PermitInv, StructInv, [Next]_vars PROVE StructInv'
    OBVIOUS
  <2>1. CASE UNCHANGED vars
    <3>1. UNCHANGED <<status, graph>>
      BY <2>1 DEF vars, graph
    <3>2. GraphOK'
      BY <3>1, GraphShrinks DEF StructInv, graph, Exists
    <3> QED
      BY <2>1, <3>1, <3>2, SoundStable DEF vars, StructInv, SoundCall, Idle, Top
  <2>2. ASSUME NEW a \in Agents, Start(a) \/ Advance(a) PROVE StructInv'
    <3>1. MayGoOn(a) /\ SoundCall(a) /\ GraphOK
      BY DEF PermitInv, StructInv
    <3>2. GraphOK' /\ SoundCall(a)'
      BY <2>2, <3>1, StartSound, StatusStepSound, EdgeStepSound, AdvanceSplit
    <3> QED
      BY <3>2 DEF StructInv, Alone
  <2> QED
    BY <2>1, <2>2 DEF Next
<1>2. Init => StructInv
  BY InitGraph
<1>3. SeedsPermitted
  BY DEF SeedsSound
<1>4. Spec => [](TypeInv /\ PermitInv)
  BY <1>3, PermitInvHolds
<1> QED
  BY <1>1, <1>2, <1>4, PTL DEF Spec

\* Whatever a lone careful caller creates, links, moves and deletes, in whatever
\* order, a goal and a task have one parent at most (LinkArtifacts counts the
\* parents; SetField(parent) takes them away; CreateArtifact takes a free id).
THEOREM ParentsBounded ==
    ASSUME Alone, Careful, SeedsSound
    PROVE  Spec => []OneParent
<1>1. StructInv => OneParent
  <2> SUFFICES ASSUME StructInv, NEW x \in Artifacts, KindOf[x] \in {"effort.goal", "effort.task"}
               PROVE  Cardinality(Parents(x)) <= 1
    BY DEF OneParent
  <2>1. \A p, q \in Parents(x) : p = q
    BY DEF StructInv, GraphOK, Single, MaxParents
  <2>2. CASE Parents(x) = {}
    BY <2>2, FS_EmptySet
  <2>3. CASE Parents(x) # {}
    <3>1. PICK p : p \in Parents(x)
      BY <2>3
    <3>2. Parents(x) = {p}
      BY <2>1, <3>1
    <3> QED
      BY <3>2, FS_Singleton
  <2> QED
    BY <2>2, <2>3
<1> QED
  BY <1>1, StructInvHolds, PTL

\* No operation of such a caller leaves an edge without an artifact at its end,
\* even for the time of a call (Delete takes the edges; what an operation names
\* is stored until it returns).
THEOREM NoneDangles ==
    ASSUME Alone, Careful, SeedsSound
    PROVE  Spec => []NoDangling
<1>1. StructInv => NoDangling
  BY DEF StructInv, GraphOK, Stored, NoDangling
<1> QED
  BY <1>1, StructInvHolds, PTL

\* No sequence of such operations closes a loop of dependencies (wouldCycle
\* before each edge; a created artifact's first dependency is not checked, and
\* closes none because no edge is left at a free id).
THEOREM DependenciesAcyclic ==
    ASSUME Alone, Careful, SeedsSound
    PROVE  Spec => []DependsOnAcyclic
<1>1. StructInv => DependsOnAcyclic
  BY DEF StructInv, GraphOK, Acyclic, DependsOnAcyclic
<1> QED
  BY <1>1, StructInvHolds, PTL

------------------------------------------------------------------------------
(* The frames of a call, without their order.                              *)

Frames(a) == {stack[a][i] : i \in 1 .. Len(stack[a])}

Below(a) == {stack[a][i] : i \in 1 .. Len(stack[a]) - 1}

LEMMA FramesNow ==
    ASSUME TypeInv, NEW a \in Agents
    PROVE  /\ Idle(a) => Frames(a) = {}
           /\ ~Idle(a) => Frames(a) = Below(a) \union {Top(a)}
           /\ Frames(a) \subseteq GoodFrame
           /\ Inner(a) => \A f \in Below(a) : f.pc \in Waiting
<1>1. stack[a] \in Seq(GoodFrame)
  BY DEF TypeInv, Stacks
<1>2. ASSUME ~Idle(a) PROVE Frames(a) = Below(a) \union {Top(a)}
  <2> DEFINE n == Len(stack[a])
  <2>1. n \in Nat \ {0}
    BY <1>1, <1>2 DEF Idle
  <2>2. 1 .. n = (1 .. n - 1) \union {n}
    BY <2>1
  <2> QED
    BY <2>2 DEF Frames, Below, Top
<1> QED
  BY <1>1, <1>2 DEF Idle, Frames, Below, Inner

\* What each move of a call does to them.
LEMMA FramesNext ==
    ASSUME TypeInv, NEW a \in Agents
    PROVE  /\ \A f : Begin(a, f) => Frames(a)' = {f}
           /\ ~Idle(a) /\ Return(a) => Frames(a)' = Below(a)
           /\ \A f : ~Idle(a) /\ Become(a, f) => Frames(a)' = Below(a) \union {f}
           /\ \A f \in GoodFrame, g \in GoodFrame :
                 ~Idle(a) /\ Call(a, f, g) => Frames(a)' = Below(a) \union {f, g}
<1> DEFINE n == Len(stack[a])
<1>1. stack[a] \in Seq(GoodFrame)
  BY DEF TypeInv, Stacks
<1>2. ~Idle(a) => n \in Nat \ {0}
  BY <1>1 DEF Idle
<1>3. ASSUME NEW f, Begin(a, f) PROVE Frames(a)' = {f}
  <2>1. stack'[a] = <<f>>
    BY <1>3 DEF Begin, TypeInv, Stacks
  <2> QED
    BY <2>1 DEF Frames
<1>4. ASSUME ~Idle(a), Return(a) PROVE Frames(a)' = Below(a)
  <2>1. stack'[a] = SubSeq(stack[a], 1, n - 1)
    BY <1>4 DEF Return, TypeInv, Stacks
  <2>2. Len(stack'[a]) = n - 1 /\ \A i \in 1 .. n - 1 : stack'[a][i] = stack[a][i]
    BY <1>1, <1>2, <1>4, <2>1
  <2> QED
    BY <2>2 DEF Frames, Below
<1>5. ASSUME ~Idle(a), NEW f, Become(a, f) PROVE Frames(a)' = Below(a) \union {f}
  <2>1. stack'[a] = [stack[a] EXCEPT ![n] = f]
    BY <1>5 DEF Become, TypeInv, Stacks
  <2>2. /\ Len(stack'[a]) = n /\ stack'[a][n] = f
        /\ \A i \in 1 .. n - 1 : stack'[a][i] = stack[a][i]
    BY <1>1, <1>2, <1>5, <2>1
  <2>3. 1 .. n = (1 .. n - 1) \union {n}
    BY <1>2, <1>5
  <2> QED
    BY <2>2, <2>3 DEF Frames, Below
<1>6. ASSUME ~Idle(a), NEW f \in GoodFrame, NEW g \in GoodFrame, Call(a, f, g)
      PROVE  Frames(a)' = Below(a) \union {f, g}
  <2>1. stack'[a] = Append([stack[a] EXCEPT ![n] = f], g)
    BY <1>6 DEF Call, TypeInv, Stacks
  <2>2. [stack[a] EXCEPT ![n] = f] \in Seq(GoodFrame)
    BY <1>1, <1>2, <1>6
  <2>3. /\ Len(stack'[a]) = n + 1 /\ stack'[a][n + 1] = g /\ stack'[a][n] = f
        /\ \A i \in 1 .. n - 1 : stack'[a][i] = stack[a][i]
    BY <1>1, <1>2, <1>6, <2>1, <2>2
  <2>4. 1 .. n + 1 = (1 .. n - 1) \union {n, n + 1}
    BY <1>2, <1>6
  <2> QED
    BY <2>3, <2>4 DEF Frames, Below
<1> QED
  BY <1>3, <1>4, <1>5, <1>6

------------------------------------------------------------------------------
(* What a lone caller's reconcilers have done and still have to do.  One   *)
(* operation only closes artifacts, or only opens them: no reconciler      *)
(* starts the other.                                                       *)

ClosedHere(a) == {x \in Artifacts : <<"closed", x>> \in touched[a]}

OpenedHere(a) == {x \in Artifacts : <<"opened", x>> \in touched[a]}

Closing(f) ==
    \/ f.pc \in {"children", "deps", "auto", "rollup", "rollnext"}
    \/ f.pc = "put" /\ f.to \in Terminal

Direction(a) ==
    \/ OpenedHere(a) = {} /\ \A f \in Frames(a) : Closing(f)
    \/ ClosedHere(a) = {} /\ \A f \in Frames(a) : ~Closing(f)

\* The status a frame has read is still that of its artifact.
Fresh(f) ==
    f.pc \in {"children", "deps", "put", "maxparents", "linkadd", "reopen"}
        => f.snap = status[f.id]

\* A rollup has come up from a child this operation closed.
FromChild(a, x) == Open(x) /\ \E c \in ClosedHere(a) : x \in Parents(c)

FrameInv(a, f) ==
    /\ Fresh(f)
    /\ f.pc \notin StatusPCs => touched[a] = {}
    /\ f.pc \in {"children", "deps"} => f.to = "work.complete"
    /\ f.pc \in {"children", "deps", "put"} /\ Closing(f) => touched[a] = {} \/ FromChild(a, f.id)
    /\ f.pc \in {"auto", "rollup", "rollnext"} => f.id \in ClosedHere(a)
    /\ f.pc = "rollnext" => f.todo \subseteq Parents(f.id)

ClosedStay(a) == \A x \in ClosedHere(a) : status[x] \in Terminal

\* What this operation closed has one open container above it.
Frontier(a) ==
    \A x, y \in ClosedHere(a) : \A p \in Parents(x), q \in Parents(y) :
        Open(p) /\ Open(q) => p = q

\* f will yet try to complete p.
WillComplete(f, p) ==
    \/ f.pc \in {"children", "deps", "put"} /\ f.id = p
    \/ f.pc \in {"auto", "rollup"} /\ p \in Parents(f.id)
    \/ f.pc = "rollnext" /\ p \in f.todo

Completable(p) == Open(p) /\ AllEdgesDone(p) /\ DependsTerminal(p)

RollupPending(a) ==
    \A x \in ClosedHere(a) : \A p \in Parents(x) :
        Completable(p) => \E f \in Frames(a) : WillComplete(f, p)

RollupInv(a) ==
    /\ Direction(a)
    /\ \A f \in Frames(a) : FrameInv(a, f)
    /\ ClosedStay(a)
    /\ Frontier(a)
    /\ RollupPending(a)

LEMMA FreshStable ==
    ASSUME UNCHANGED status
    PROVE  \A f : Fresh(f)' <=> Fresh(f)
  BY DEF Fresh

\* An operation that begins has touched nothing.
LEMMA BeginsUntouched ==
    ASSUME TypeInv, NEW a \in Agents, Start(a)
    PROVE  /\ touched'[a] = {}
           /\ \/ Frames(a)' = {}
              \/ \E f : /\ Frames(a)' = {f} /\ Fresh(f)'
                        /\ f.pc \notin {"auto", "rollup", "rollnext"}
                        /\ f.pc \in {"children", "deps"} => f.to = "work.complete"
<1> DEFINE Begun(f) == /\ Fresh(f) /\ f.pc \notin {"auto", "rollup", "rollnext"}
                       /\ f.pc \in {"children", "deps"} => f.to = "work.complete"
           Done == /\ touched'[a] = {}
                   /\ Frames(a)' = {} \/ \E f : Frames(a)' = {f} /\ Begun(f)'
<1>1. ASSUME NEW f, Begin(a, f), Begun(f), UNCHANGED <<status, graph>>
      PROVE  Done
  <2>1. Frames(a)' = {f} /\ Begun(f)'
    BY <1>1, FramesNext, FreshStable
  <2> QED
    BY <1>1, <2>1 DEF Begin, TypeInv
<1>2. ASSUME Idle(a), UNCHANGED stack, touched' = [touched EXCEPT ![a] = {}]
      PROVE  Done
  <2>1. Frames(a)' = {}
    BY <1>2, FramesNow DEF Frames
  <2> QED
    BY <1>2, <2>1 DEF TypeInv
<1>3. ASSUME NEW x \in Artifacts, NEW to \in Targets, NEW force \in Forces,
             SetStatus(a, x, to, force)
      PROVE  Done
  <2>1. Begun(StatusFrame(FirstGuard(to), x, status[x], to, force))
    BY DEF StatusFrame, FirstGuard, Fresh
  <2> HIDE DEF Begun, Done
  <2> QED
    BY <1>1, <1>3, <2>1 DEF SetStatus
<1>4. ASSUME NEW p \in Artifacts, NEW c \in Artifacts, LinkParentOf(a, p, c)
      PROVE  Done
  <2>1. Begun(EdgeFrame("maxparents", p, status[p], status[c], c, None, {}))
    BY DEF EdgeFrame, Fresh
  <2> HIDE DEF Begun, Done
  <2> QED
    BY <1>1, <1>4, <2>1 DEF LinkParentOf
<1>5. ASSUME NEW x \in Artifacts, NEW d \in Artifacts, LinkDependsOn(a, x, d)
      PROVE  Done
  <2>1. Begun(EdgeFrame("cycle", x, None, None, None, d, {}))
    BY DEF EdgeFrame, Fresh
  <2> HIDE DEF Begun, Done
  <2> QED
    BY <1>1, <1>5, <2>1 DEF LinkDependsOn
<1>6. ASSUME NEW x \in Artifacts, NEW p \in Artifacts \union {None}, SetParent(a, x, p)
      PROVE  Done
  <2>1. Begun(EdgeFrame(IF p = None THEN "oldparents" ELSE "parentcycle",
                        x, None, None, p, p, {}))
    BY DEF EdgeFrame, Fresh
  <2> HIDE DEF Begun, Done
  <2> QED
    BY <1>1, <1>6, <2>1 DEF SetParent
<1>7. ASSUME NEW x \in Artifacts, NEW d \in Artifacts \union {None}, SetDependsOn(a, x, d)
      PROVE  Done
  <2>1. Begun(EdgeFrame(IF d = None THEN "olddeps" ELSE "cycle", x, None, None, None, d, {}))
    BY DEF EdgeFrame, Fresh
  <2> HIDE DEF Begun, Done
  <2> QED
    BY <1>1, <1>7, <2>1 DEF SetDependsOn
<1>8. ASSUME NEW x \in Artifacts, NEW s, NEW p, NEW d, CreateArtifact(a, x, s, p, d)
      PROVE  Done
  <2>1. Begun(EdgeFrame("create", x, None, s, p, d, {}))
    BY DEF EdgeFrame, Fresh
  <2> HIDE DEF Begun, Done
  <2> QED
    BY <1>1, <1>8, <2>1 DEF CreateArtifact
<1>9. \A x \in Artifacts : /\ Delete(a, x) => Done
                           /\ \A y \in Artifacts : Unlink(a, x, y) => Done
  <2> HIDE DEF Done
  <2> QED
    BY <1>2 DEF Delete, Unlink
<1>10. \A e \in Linkable : e[1] \in Artifacts /\ e[2] \in Artifacts
  BY LifecycleAssumption
<1>11. Done
  <2> HIDE DEF Done
  <2> QED
    BY <1>3, <1>4, <1>5, <1>6, <1>7, <1>8, <1>9, <1>10 DEF Start
<1> QED
  BY <1>11

LEMMA BeginsRollupInv ==
    ASSUME TypeInv, NEW a \in Agents, Start(a)
    PROVE  RollupInv(a)'
<1>1. touched'[a] = {} /\ ClosedHere(a)' = {} /\ OpenedHere(a)' = {}
  BY BeginsUntouched DEF ClosedHere, OpenedHere
<1>2. ClosedStay(a)' /\ Frontier(a)' /\ RollupPending(a)'
  BY <1>1 DEF ClosedStay, Frontier, RollupPending
<1>3. CASE Frames(a)' = {}
  BY <1>1, <1>2, <1>3 DEF RollupInv, Direction
<1>4. ASSUME NEW f, Frames(a)' = {f}, Fresh(f)', f.pc \notin {"auto", "rollup", "rollnext"},
             f.pc \in {"children", "deps"} => f.to = "work.complete"
      PROVE  RollupInv(a)'
  <2>1. FrameInv(a, f)'
    BY <1>1, <1>4 DEF FrameInv, Fresh
  <2>2. Direction(a)'
    BY <1>1, <1>4 DEF Direction, Closing
  <2> QED
    BY <1>2, <1>4, <2>1, <2>2 DEF RollupInv
<1> QED
  BY <1>3, <1>4, BeginsUntouched

\* A frame that climbs owes the rollup nothing.
LEMMA ClimbFrame == \A a, f : f.pc = "climb" => FrameInv(a, f) /\ FrameInv(a, f)' /\ ~Closing(f)
  BY DEF FrameInv, Fresh, StatusPCs, Closing

\* The steps on edges touch no status, until a linked child is about to open
\* what it is linked under.
LEMMA EdgeStepMoves ==
    ASSUME TypeInv, NEW a \in Agents, MayGoOn(a), EdgeStep(a), \A f \in Frames(a) : Fresh(f)
    PROVE  /\ ~Idle(a) /\ Top(a).pc \notin StatusPCs
           /\ \/ /\ UNCHANGED touched
                 /\ \/ Frames(a)' = Below(a)
                    \/ \E g : Frames(a)' = Below(a) \union {g} /\ g.pc \notin StatusPCs /\ Fresh(g)'
              \/ /\ AddParentEdge(a)
                 /\ \/ Frames(a)' = Below(a)
                    \/ \E g : /\ Frames(a)' = Below(a) \union {g} /\ Fresh(g)'
                              /\ g = [Top(a) EXCEPT !.pc = "reopen"]
<1>0. PICK f : f = Top(a)
  OBVIOUS
<1> USE <1>0 DEF At
<1> DEFINE Onward == \/ Frames(a)' = Below(a)
                     \/ \E g : Frames(a)' = Below(a) \union {g} /\ g.pc \notin StatusPCs /\ Fresh(g)'
<1>1. ~Idle(a) /\ f.pc \notin StatusPCs
  BY DEF EdgeStep, CheckMaxParents, AddParentEdge, CheckCycle, AddDependsOn, CheckParentCycle,
         ReadOldParents, ReplaceParent, ReadOldDependencies, ClearDependsOn, PutNew,
         AddNewParent, AddNewDependency, StatusPCs
<1>2. f \in Frame /\ Fresh(f)
  BY <1>1, TopType, FramesNow DEF GoodFrame
<1>r. ASSUME Return(a) PROVE Onward
  BY <1>1, <1>r, FramesNext
<1>b. ASSUME NEW g, Become(a, g), g.pc \notin StatusPCs, Fresh(g)' PROVE Onward
  BY <1>1, <1>b, FramesNext
<1>c. ASSUME NEW g, g.pc \notin {"children", "deps", "put", "maxparents", "linkadd", "reopen"}
      PROVE  Fresh(g)'
  BY <1>c DEF Fresh
<1>3. CASE CheckMaxParents(a)
  <2> DEFINE g == [f EXCEPT !.pc = "linkadd"]
  <2>1. f.pc = "maxparents" /\ UNCHANGED <<status, touched>> /\ (Return(a) \/ Become(a, g))
    BY <1>3 DEF CheckMaxParents
  <2>2. g.pc \notin StatusPCs /\ Fresh(g)'
    BY <1>2, <2>1 DEF Frame, StatusPCs, Fresh
  <2> QED
    BY <1>1, <2>1, <2>2, <1>r, <1>b
<1>4. CASE AddParentEdge(a)
  <2> DEFINE g == [f EXCEPT !.pc = "reopen"]
  <2>1. f.pc = "linkadd" /\ UNCHANGED status /\ (Return(a) \/ Become(a, g))
    BY <1>4 DEF AddParentEdge
  <2>2. Fresh(g)'
    BY <1>2, <2>1 DEF Frame, Fresh
  <2> QED
    BY <1>1, <1>4, <2>1, <2>2, FramesNext
<1>5. CASE CheckCycle(a)
  <2> DEFINE g == [f EXCEPT !.pc = "adddep"]
  <2>1. UNCHANGED touched /\ (Return(a) \/ Become(a, g)) /\ g.pc = "adddep"
    BY <1>2, <1>5 DEF CheckCycle, Frame
  <2> QED
    BY <1>1, <2>1, <1>r, <1>b, <1>c DEF StatusPCs
<1>6. CASE AddDependsOn(a)
  BY <1>1, <1>6, <1>r DEF AddDependsOn
<1>7. CASE CheckParentCycle(a)
  <2> DEFINE g == [f EXCEPT !.pc = "oldparents"]
             up(q) == [f EXCEPT !.cur = q]
  <2>1. UNCHANGED touched /\ f.pc = "parentcycle"
    BY <1>7 DEF CheckParentCycle
  <2>2. Return(a) \/ Become(a, g) \/ \E q \in Artifacts : Become(a, up(q))
    BY <1>7 DEF CheckParentCycle, Parents
  <2>3. g.pc = "oldparents" /\ \A q \in Artifacts : up(q).pc = "parentcycle"
    BY <1>2, <2>1 DEF Frame
  <2> QED
    BY <1>1, <2>1, <2>2, <2>3, <1>r, <1>b, <1>c DEF StatusPCs
<1>8. CASE ReadOldParents(a)
  <2> DEFINE g == [f EXCEPT !.pc = "unparent", !.todo = Parents(f.id)]
  <2>1. UNCHANGED touched /\ Become(a, g)
    BY <1>8 DEF ReadOldParents
  <2>2. g.pc = "unparent"
    BY <1>2 DEF Frame
  <2>3. PICK h : h = g
    OBVIOUS
  <2> QED
    BY <1>1, <2>1, <2>2, <2>3, <1>b, <1>c DEF StatusPCs
<1>9. CASE ReplaceParent(a)
  <2> DEFINE rest(p) == [f EXCEPT !.todo = @ \ {p}]
  <2>1. f.pc = "unparent" /\ UNCHANGED touched
        /\ (Return(a) \/ \E p \in f.todo : Become(a, rest(p)))
    BY <1>9 DEF ReplaceParent
  <2>2. \A p : rest(p).pc = "unparent"
    BY <1>2, <2>1 DEF Frame
  <2> QED
    BY <1>1, <2>1, <2>2, <1>r, <1>b, <1>c DEF StatusPCs
<1>10. CASE ReadOldDependencies(a)
  <2> DEFINE g == [f EXCEPT !.pc = "undep", !.todo = {d \in Artifacts : <<f.id, d>> \in dependsOn}]
  <2>1. UNCHANGED touched /\ Become(a, g)
    BY <1>10 DEF ReadOldDependencies
  <2>2. g.pc = "undep"
    BY <1>2 DEF Frame
  <2>3. PICK h : h = g
    OBVIOUS
  <2> QED
    BY <1>1, <2>1, <2>2, <2>3, <1>b, <1>c DEF StatusPCs
<1>11. CASE ClearDependsOn(a)
  <2> DEFINE rest(d) == [f EXCEPT !.todo = @ \ {d}]
  <2>1. f.pc = "undep" /\ UNCHANGED touched
        /\ (Return(a) \/ \E d \in f.todo : Become(a, rest(d)))
    BY <1>11 DEF ClearDependsOn
  <2>2. \A d : rest(d).pc = "undep"
    BY <1>2, <2>1 DEF Frame
  <2> QED
    BY <1>1, <2>1, <2>2, <1>r, <1>b, <1>c DEF StatusPCs
<1>12. CASE PutNew(a)
  <2> DEFINE g == [f EXCEPT !.pc = "cparent"]
  <2>1. UNCHANGED touched /\ Become(a, g) /\ g.pc = "cparent"
    BY <1>2, <1>12 DEF PutNew, Frame
  <2> QED
    BY <1>1, <2>1, <1>b, <1>c DEF StatusPCs
<1>13. CASE AddNewParent(a)
  <2> DEFINE g == [f EXCEPT !.pc = "cdep"]
  <2>1. UNCHANGED touched /\ Become(a, g) /\ g.pc = "cdep"
    BY <1>2, <1>13 DEF AddNewParent, Frame
  <2> QED
    BY <1>1, <2>1, <1>b, <1>c DEF StatusPCs
<1>14. CASE AddNewDependency(a)
  BY <1>1, <1>14, <1>r DEF AddNewDependency
<1> QED
  BY <1>3, <1>4, <1>5, <1>6, <1>7, <1>8, <1>9, <1>10, <1>11, <1>12, <1>13, <1>14 DEF EdgeStep

LEMMA EdgeStepRollupInv ==
    ASSUME TypeInv, NEW a \in Agents, MayGoOn(a), RollupInv(a), EdgeStep(a)
    PROVE  RollupInv(a)'
<1>1. \A f \in Frames(a) : FrameInv(a, f) /\ Fresh(f)
  BY DEF RollupInv, FrameInv
<1>2. ~Idle(a) /\ Top(a).pc \notin StatusPCs
  BY <1>1, EdgeStepMoves
<1>3. touched[a] = {}
  BY <1>1, <1>2, FramesNow DEF FrameInv
<1>4. \A f \in Below(a) : f.pc = "climb"
  <2>1. ~Closing(Top(a))
    BY <1>2 DEF Closing, StatusPCs
  <2>2. \A f \in Below(a) : ~Closing(f) /\ f.pc \in Waiting
    BY <1>2, <2>1, FramesNow DEF RollupInv, Direction, MayGoOn
  <2> QED
    BY <2>2 DEF Waiting, Closing
<1>5. \A f \in Below(a) : FrameInv(a, f)' /\ ~Closing(f)
  BY <1>4, ClimbFrame
<1>6. ASSUME ClosedHere(a)' = {}, NEW g, FrameInv(a, g)', ~Closing(g),
             Frames(a)' = Below(a) \/ Frames(a)' = Below(a) \union {g}
      PROVE  RollupInv(a)'
  BY <1>5, <1>6 DEF RollupInv, Direction, ClosedStay, Frontier, RollupPending
<1>7. ASSUME UNCHANGED touched, Frames(a)' = Below(a)
      PROVE  RollupInv(a)'
  BY <1>3, <1>5, <1>7 DEF RollupInv, Direction, ClosedStay, Frontier, RollupPending, ClosedHere
<1>8. ASSUME UNCHANGED touched, NEW g, Frames(a)' = Below(a) \union {g}, g.pc \notin StatusPCs,
             Fresh(g)'
      PROVE  RollupInv(a)'
  <2>1. FrameInv(a, g)' /\ ~Closing(g)
    BY <1>3, <1>8 DEF FrameInv, Closing, StatusPCs
  <2> QED
    BY <1>3, <1>6, <1>8, <2>1 DEF ClosedHere
<1>9. ASSUME AddParentEdge(a), NEW g, g = [Top(a) EXCEPT !.pc = "reopen"], Fresh(g)',
             Frames(a)' = Below(a) \/ Frames(a)' = Below(a) \union {g}
      PROVE  RollupInv(a)'
  <2>1. g.pc = "reopen"
    BY <1>2, <1>9, TopType DEF GoodFrame, Frame
  <2>2. FrameInv(a, g)' /\ ~Closing(g)
    BY <1>9, <2>1 DEF FrameInv, Closing, StatusPCs
  <2>3. ClosedHere(a)' = {}
    BY <1>3, <1>9 DEF AddParentEdge, Touch, ClosedHere, TypeInv
  <2> QED
    BY <1>6, <1>9, <2>2, <2>3
<1>10. ASSUME AddParentEdge(a), Frames(a)' = Below(a) PROVE RollupInv(a)'
  BY <1>3, <1>5, <1>10 DEF AddParentEdge, Touch, TypeInv, RollupInv, Direction, ClosedStay,
     Frontier, RollupPending, ClosedHere
<1> QED
  BY <1>1, <1>7, <1>8, <1>9, <1>10, EdgeStepMoves

\* A goal or a task is the only kind of artifact a container may hold, and has one parent.
LEMMA OneContainer ==
    ASSUME EdgesPermitted, Single, NEW x, NEW p \in Parents(x), NEW q \in Parents(x),
           x \in Artifacts, Open(p)
    PROVE  p = q
<1>1. <<KindOf[p], KindOf[x]>> \in AllowedChild /\ KindOf[p] \in Container
  BY DEF EdgesPermitted, ValidChild, Parents, Open
<1>2. KindOf[x] \in {"effort.goal", "effort.task"}
  BY <1>1 DEF AllowedChild, Container
<1> QED
  BY <1>2 DEF Single, MaxParents

\* A step that only moves the innermost frame on.
LEMMA RollupMoves ==
    ASSUME TypeInv, NEW a \in Agents, RollupInv(a), ~Idle(a),
           UNCHANGED <<status, graph, touched>>
    PROVE  \A N : (/\ Frames(a)' = Below(a) \union N
                   /\ \A g \in N : FrameInv(a, g) /\ (Closing(g) <=> Closing(Top(a)))
                   /\ \A p : Completable(p) /\ WillComplete(Top(a), p)
                             => \E g \in N : WillComplete(g, p))
                  => RollupInv(a)'
<1> SUFFICES ASSUME NEW N, Frames(a)' = Below(a) \union N,
                    \A g \in N : FrameInv(a, g) /\ (Closing(g) <=> Closing(Top(a))),
                    \A p : Completable(p) /\ WillComplete(Top(a), p)
                           => \E g \in N : WillComplete(g, p)
             PROVE  RollupInv(a)'
  OBVIOUS
<1>1. /\ \A f : FrameInv(a, f)' <=> FrameInv(a, f)
      /\ \A p : Completable(p)' <=> Completable(p)
      /\ \A p : Open(p)' <=> Open(p)
      /\ \A x : Parents(x)' = Parents(x)
      /\ \A f, p : WillComplete(f, p)' <=> WillComplete(f, p)
      /\ ClosedHere(a)' = ClosedHere(a) /\ OpenedHere(a)' = OpenedHere(a)
  BY DEF FrameInv, Fresh, FromChild, ClosedHere, OpenedHere, Completable, Open, AllEdgesDone,
         DependsTerminal, Exists, WillComplete, Parents, graph
<1>2. Frames(a) = Below(a) \union {Top(a)}
  BY FramesNow
<1>3. \A f \in Frames(a)' : FrameInv(a, f)'
  BY <1>1, <1>2 DEF RollupInv
<1>4. Direction(a)'
  BY <1>1, <1>2 DEF RollupInv, Direction
<1>5. ClosedStay(a)' /\ Frontier(a)'
  BY <1>1 DEF RollupInv, ClosedStay, Frontier
<1>6. RollupPending(a)'
  <2> SUFFICES ASSUME NEW x \in ClosedHere(a), NEW p \in Parents(x), Completable(p)
               PROVE  \E f \in Frames(a)' : WillComplete(f, p)
    BY <1>1 DEF RollupPending
  <2>1. PICK f \in Frames(a) : WillComplete(f, p)
    BY DEF RollupInv, RollupPending
  <2> QED
    BY <1>2, <2>1
<1> QED
  BY <1>3, <1>4, <1>5, <1>6 DEF RollupInv

\* The write that closes an artifact starts the rollup of what is above it.
LEMMA CloseRollupInv ==
    ASSUME TypeInv, EdgesPermitted, Single, NEW a \in Agents, MayGoOn(a), RollupInv(a),
           PutStatus(a), Top(a).to \in Terminal
    PROVE  RollupInv(a)'
<1>0. PICK f : f = Top(a)
  OBVIOUS
<1> USE <1>0
<1> DEFINE x == f.id
           g == [f EXCEPT !.pc = "auto"]
<1>1. /\ ~Idle(a) /\ f.pc = "put" /\ f.to \in Terminal /\ UNCHANGED graph
      /\ status' = [status EXCEPT ![x] = f.to]
      /\ touched' = [touched EXCEPT ![a] = @ \union ({"closed"} \X {x})]
  BY DEF PutStatus, At, Touch
<1>2. f \in Frame /\ x \in Artifacts /\ FrameInv(a, f) /\ Closing(f)
  BY <1>1, TopType, FramesNow DEF GoodFrame, Frame, RollupInv, Closing
<1>3. Frames(a)' = Below(a) \union {g}
  BY <1>1, FramesNext DEF PutStatus, Reconciler
<1>4. ClosedHere(a)' = ClosedHere(a) \union {x} /\ OpenedHere(a)' = OpenedHere(a)
  BY <1>1, <1>2 DEF ClosedHere, OpenedHere, TypeInv
<1>5. /\ g.pc = "auto" /\ g.id = x
      /\ \A h \in Below(a) : h.pc \in {"rollup", "rollnext"} /\ FrameInv(a, h)
      /\ OpenedHere(a) = {}
  <2>1. Frames(a) = Below(a) \union {f}
    BY <1>1, FramesNow
  <2>2. OpenedHere(a) = {} /\ \A h \in Frames(a) : Closing(h)
    BY <1>2, <2>1 DEF RollupInv, Direction
  <2>3. \A h \in Below(a) : h.pc \in Waiting
    BY FramesNow DEF MayGoOn
  <2> QED
    BY <1>2, <2>1, <2>2, <2>3 DEF Frame, Waiting, Closing, RollupInv
<1>6. Direction(a)'
  BY <1>3, <1>4, <1>5 DEF Direction, Closing
<1>7. \A y : Parents(y)' = Parents(y)
  BY <1>1 DEF Parents, graph
<1>8. \A h \in Frames(a)' : FrameInv(a, h)'
  BY <1>3, <1>4, <1>5, <1>7 DEF FrameInv, Fresh, StatusPCs, Closing
<1>9. ClosedStay(a)'
  BY <1>1, <1>2, <1>4 DEF ClosedStay, RollupInv, TypeInv, Rows
<1>10. \A p \in Artifacts : Open(p)' <=> Open(p) /\ p # x
  BY <1>1, <1>2 DEF Open, Exists, TypeInv, Rows, Terminal, None
\* x was the one open container above what was closed before.
<1>11. \A y \in ClosedHere(a) : \A p \in Parents(y) : ~Open(p)'
  <2> SUFFICES ASSUME NEW y \in ClosedHere(a), NEW p \in Parents(y), Open(p), p # x
               PROVE  FALSE
    BY <1>10 DEF Parents
  <2>1. FromChild(a, x)
    BY <1>1, <1>2 DEF FrameInv, ClosedHere
  <2> QED
    BY <2>1 DEF FromChild, RollupInv, Frontier
<1>12. Frontier(a)'
  <2>1. \A p, q \in Parents(x) : Open(p)' /\ Open(q)' => p = q
    BY <1>2, <1>10, OneContainer DEF Parents
  <2> QED
    BY <1>4, <1>7, <1>11, <2>1 DEF Frontier
<1>13. RollupPending(a)'
  <2> SUFFICES ASSUME NEW y \in ClosedHere(a)', NEW p \in Parents(y)', Completable(p)'
               PROVE  \E h \in Frames(a)' : WillComplete(h, p)'
    BY DEF RollupPending
  <2>1. y = x
    BY <1>4, <1>7, <1>11 DEF Completable
  <2>2. WillComplete(g, p)'
    BY <1>5, <2>1 DEF WillComplete
  <2> QED
    BY <1>3, <2>2
<1> QED
  BY <1>6, <1>8, <1>9, <1>12, <1>13 DEF RollupInv

\* Below a frame that opens, all frames climb.
LEMMA ClimbsBelow ==
    ASSUME TypeInv, NEW a \in Agents, MayGoOn(a), RollupInv(a), ~Idle(a), ~Closing(Top(a))
    PROVE  /\ \A f \in Below(a) : f.pc = "climb"
           /\ ClosedHere(a) = {}
<1>1. Frames(a) = Below(a) \union {Top(a)}
  BY FramesNow
<1>2. ClosedHere(a) = {} /\ \A f \in Below(a) : ~Closing(f) /\ f.pc \in Waiting
  BY <1>1, FramesNow DEF RollupInv, Direction, MayGoOn
<1> QED
  BY <1>2 DEF Closing, Waiting

\* A write that opens an artifact leaves nothing to roll up.
LEMMA OpenRollupInv ==
    ASSUME TypeInv, NEW a \in Agents, MayGoOn(a), RollupInv(a),
           PutStatus(a), Top(a).to \notin Terminal
    PROVE  RollupInv(a)'
<1>0. PICK f : f = Top(a)
  OBVIOUS
<1> USE <1>0
<1> DEFINE g == [f EXCEPT !.pc = "climb"]
<1>1. ~Idle(a) /\ f.pc = "put" /\ f.to \notin Terminal /\ f \in Frame
  BY TopType DEF PutStatus, At, GoodFrame
<1>2. (\A h \in Below(a) : h.pc = "climb") /\ ClosedHere(a) = {}
  BY <1>1, ClimbsBelow DEF Closing
<1>3. Frames(a)' = Below(a) \/ Frames(a)' = Below(a) \union {g}
  BY <1>1, FramesNext DEF PutStatus, Reconciler
<1>4. \A h \in Frames(a)' : h.pc = "climb"
  BY <1>1, <1>2, <1>3 DEF Frame
<1>5. ClosedHere(a)' = {}
  BY <1>1, <1>2 DEF PutStatus, Touch, ClosedHere, TypeInv
<1> QED
  BY <1>4, <1>5, ClimbFrame DEF RollupInv, Direction, ClosedStay, Frontier, RollupPending

\* Every step of a status change keeps what the rollup has still to do.
LEMMA StatusStepRollupInv ==
    ASSUME TypeInv, EdgesPermitted, Single, NEW a \in Agents, MayGoOn(a), RollupInv(a),
           StatusStep(a)
    PROVE  RollupInv(a)'
<1>0. PICK f : f = Top(a)
  OBVIOUS
<1> USE <1>0 DEF At
<1>1. ~Idle(a)
  BY DEF StatusStep, GuardChildrenComplete, GuardDependsOnComplete, PutStatus,
         AutoCompleteParent, StartRollup, CompletionRollup, ReopenAncestors, ClimbToParent
<1>2. f \in GoodFrame /\ f \in Frame /\ FrameInv(a, f)
  BY <1>1, TopType, FramesNow DEF GoodFrame, RollupInv
<1> DEFINE Same == UNCHANGED <<status, graph, touched>>
<1>s. ASSUME Same
      PROVE  \A N : (/\ Frames(a)' = Below(a) \union N
                     /\ \A h \in N : FrameInv(a, h) /\ (Closing(h) <=> Closing(f))
                     /\ \A p : Completable(p) /\ WillComplete(f, p)
                               => \E h \in N : WillComplete(h, p))
                    => RollupInv(a)'
  BY <1>1, <1>s, RollupMoves
<1>r. ASSUME Same, Return(a), \A p : Completable(p) => ~WillComplete(f, p)
      PROVE  RollupInv(a)'
  <2>0. PICK N : N = {}
    OBVIOUS
  <2>1. Frames(a)' = Below(a) \union N
    BY <1>1, <1>r, <2>0, FramesNext
  <2>2. \A p : Completable(p) /\ WillComplete(f, p) => \E h \in N : WillComplete(h, p)
    BY <1>r, <2>0
  <2>3. \A h \in N : FrameInv(a, h) /\ (Closing(h) <=> Closing(f))
    BY <2>0
  <2> QED
    BY <1>s, <1>r, <2>1, <2>2, <2>3
<1>b. ASSUME Same, NEW g, Become(a, g), FrameInv(a, g), Closing(g) <=> Closing(f),
             \A p : Completable(p) /\ WillComplete(f, p) => WillComplete(g, p)
      PROVE  RollupInv(a)'
  <2>0. PICK N : N = {g}
    OBVIOUS
  <2>1. Frames(a)' = Below(a) \union N
    BY <1>1, <1>b, <2>0, FramesNext
  <2>2. \A h \in N : FrameInv(a, h) /\ (Closing(h) <=> Closing(f))
    BY <1>b, <2>0
  <2>3. \A p : Completable(p) /\ WillComplete(f, p) => \E h \in N : WillComplete(h, p)
    BY <1>b, <2>0
  <2> QED
    BY <1>s, <1>b, <2>1, <2>2, <2>3
<1>c. ASSUME Same, NEW g \in GoodFrame, NEW h \in GoodFrame, Call(a, g, h),
             FrameInv(a, g), FrameInv(a, h), Closing(g) <=> Closing(f), Closing(h) <=> Closing(f),
             \A p : Completable(p) /\ WillComplete(f, p) => WillComplete(g, p) \/ WillComplete(h, p)
      PROVE  RollupInv(a)'
  <2>0. PICK N : N = {g, h}
    OBVIOUS
  <2>1. Frames(a)' = Below(a) \union N
    BY <1>1, <1>c, <2>0, FramesNext
  <2>2. \A k \in N : FrameInv(a, k) /\ (Closing(k) <=> Closing(f))
    BY <1>c, <2>0
  <2>3. \A p : Completable(p) /\ WillComplete(f, p) => \E k \in N : WillComplete(k, p)
    BY <1>c, <2>0
  <2> QED
    BY <1>s, <1>c, <2>1, <2>2, <2>3
<1>k. ASSUME NEW p \in Artifacts, Open(p), FromChild(a, p)
      PROVE  /\ Complete(p) \in GoodFrame /\ FrameInv(a, Complete(p)) /\ Closing(Complete(p))
             /\ WillComplete(Complete(p), p)
  <2>1. Complete(p) \in GoodFrame
    BY <1>k, StoreType, StatusFrameType DEF Open, Complete, FreePCs, PCs, Statuses
  <2> QED
    BY <1>k, <2>1 DEF Complete, StatusFrame, FrameInv, Fresh, Closing, StatusPCs, WillComplete
<1>l. ASSUME NEW x \in Artifacts
      PROVE  /\ Activate(x, status[x]) \in GoodFrame /\ FrameInv(a, Activate(x, status[x]))
             /\ ~Closing(Activate(x, status[x]))
  <2>1. Activate(x, status[x]) \in GoodFrame
    BY StatusFrameType, StoreType DEF Activate, ActiveStatus, FreePCs, PCs, Statuses
  <2>2. ActiveStatus \notin Terminal
    BY DEF ActiveStatus, Terminal
  <2> QED
    BY <2>1, <2>2 DEF Activate, StatusFrame, FrameInv, Fresh, Closing, StatusPCs
<1>m. ASSUME ~Closing(f)
      PROVE  \A p : f.pc # "put" => ~WillComplete(f, p)
  BY <1>m DEF Closing, WillComplete
<1>3. CASE GuardChildrenComplete(a)
  <2> DEFINE g == [f EXCEPT !.pc = AfterChildren(f)]
  <2>1. f.pc = "children" /\ Same
    BY <1>3 DEF GuardChildrenComplete
  <2>2. FrameInv(a, g) /\ Closing(g) /\ Closing(f)
    BY <1>2, <2>1 DEF FrameInv, Frame, Fresh, Closing, AfterChildren, StatusPCs, Terminal
  <2>3. \A p : WillComplete(f, p) => WillComplete(g, p)
    BY <1>2, <2>1 DEF WillComplete, Frame, AfterChildren
  <2>4. ASSUME ~ChildrenTerminal(f.id), NEW p, Completable(p) PROVE ~WillComplete(f, p)
    BY <2>1, <2>4 DEF WillComplete, Completable, AllEdgesDone, ChildrenTerminal, Children
  <2>5. Become(a, g) \/ (Return(a) /\ ~ChildrenTerminal(f.id))
    BY <1>3 DEF GuardChildrenComplete
  <2> QED
    BY <2>1, <2>2, <2>3, <2>4, <2>5, <1>r, <1>b
<1>4. CASE GuardDependsOnComplete(a)
  <2> DEFINE g == [f EXCEPT !.pc = "put"]
  <2>1. f.pc = "deps" /\ Same
    BY <1>4 DEF GuardDependsOnComplete
  <2>2. FrameInv(a, g) /\ Closing(g) /\ Closing(f)
    BY <1>2, <2>1 DEF FrameInv, Frame, Fresh, Closing, StatusPCs, Terminal
  <2>3. \A p : WillComplete(f, p) => WillComplete(g, p)
    BY <1>2, <2>1 DEF WillComplete, Frame
  <2>4. ASSUME ~DependsTerminal(f.id), NEW p, Completable(p) PROVE ~WillComplete(f, p)
    BY <2>1, <2>4 DEF WillComplete, Completable
  <2>5. Become(a, g) \/ (Return(a) /\ ~DependsTerminal(f.id))
    BY <1>4 DEF GuardDependsOnComplete
  <2> QED
    BY <2>1, <2>2, <2>3, <2>4, <2>5, <1>r, <1>b
<1>5. CASE PutStatus(a)
  BY <1>5, CloseRollupInv, OpenRollupInv
<1>6. CASE AutoCompleteParent(a)
  <2> DEFINE g == [f EXCEPT !.pc = "rollup"]
  <2>1. f.pc = "auto" /\ Same
    BY <1>6 DEF AutoCompleteParent
  <2>2. g \in GoodFrame /\ FrameInv(a, g) /\ Closing(g) /\ Closing(f)
    BY <1>2, <2>1, FrameUpdate DEF FreePCs, PCs, FrameInv, Frame, Fresh, Closing, StatusPCs
  <2>3. \A p : WillComplete(f, p) => WillComplete(g, p)
    BY <1>2, <2>1 DEF WillComplete, Frame
  <2>4. f.id \in ClosedHere(a)
    BY <1>2, <2>1 DEF FrameInv
  <2>5. \/ Become(a, g)
        \/ \E p \in Artifacts : Open(p) /\ FromChild(a, p) /\ Call(a, g, Complete(p))
    BY <1>6, <2>4 DEF AutoCompleteParent, FromChild, Parents
  <2>6. ASSUME NEW p \in Artifacts, Open(p), FromChild(a, p), Call(a, g, Complete(p))
        PROVE  RollupInv(a)'
    <3>1. PICK h : h = Complete(p)
      OBVIOUS
    <3> QED
      BY <2>1, <2>2, <2>3, <2>6, <3>1, <1>c, <1>k
  <2> QED
    BY <2>1, <2>2, <2>3, <2>5, <2>6, <1>b
<1>7. CASE StartRollup(a)
  <2> DEFINE g == [f EXCEPT !.pc = "rollnext", !.todo = Parents(f.id)]
  <2>1. f.pc = "rollup" /\ Same /\ Become(a, g)
    BY <1>7 DEF StartRollup
  <2>2. FrameInv(a, g) /\ Closing(g) /\ Closing(f)
    BY <1>2, <2>1 DEF FrameInv, Frame, Fresh, Closing, StatusPCs
  <2>3. \A p : WillComplete(f, p) => WillComplete(g, p)
    BY <1>2, <2>1 DEF WillComplete, Frame
  <2> QED
    BY <2>1, <2>2, <2>3, <1>b
<1>8. CASE CompletionRollup(a)
  <2> DEFINE rest(p) == [f EXCEPT !.todo = @ \ {p}]
  <2>1. f.pc = "rollnext" /\ Same /\ f.todo \subseteq Parents(f.id) /\ f.id \in ClosedHere(a)
        /\ f.todo \subseteq Artifacts
    BY <1>2, <1>8 DEF CompletionRollup, FrameInv, Frame
  <2>2. \A p \in Artifacts : rest(p) \in GoodFrame
    BY <1>2, FrameUpdate
  <2>3. \A p : FrameInv(a, rest(p)) /\ Closing(rest(p)) /\ Closing(f)
    BY <1>2, <2>1 DEF FrameInv, Frame, Fresh, Closing, StatusPCs
  <2>4. \A p, q : WillComplete(f, q) => WillComplete(rest(p), q) \/ q = p
    BY <1>2, <2>1 DEF WillComplete, Frame
  <2>5. ASSUME f.todo = {}, Return(a) PROVE RollupInv(a)'
    BY <2>1, <2>5, <1>r DEF WillComplete
  <2>6. ASSUME NEW p \in f.todo, ~(Open(p) /\ AllEdgesDone(p)), Become(a, rest(p))
        PROVE  RollupInv(a)'
    <3>1. \A q : Completable(q) /\ WillComplete(f, q) => WillComplete(rest(p), q)
      BY <2>4, <2>6 DEF Completable
    <3> QED
      BY <2>1, <2>3, <2>6, <3>1, <1>b
  <2>7. ASSUME NEW p \in f.todo, Open(p), Call(a, rest(p), Complete(p))
        PROVE  RollupInv(a)'
    <3>1. p \in Artifacts /\ FromChild(a, p)
      BY <2>1, <2>7 DEF FromChild
    <3>2. PICK h : h = Complete(p)
      OBVIOUS
    <3> QED
      BY <2>1, <2>2, <2>3, <2>4, <2>7, <3>1, <3>2, <1>c, <1>k
  <2>8. \/ f.todo = {} /\ Return(a)
        \/ \E p \in f.todo : \/ Open(p) /\ Call(a, rest(p), Complete(p))
                             \/ ~(Open(p) /\ AllEdgesDone(p)) /\ Become(a, rest(p))
    BY <1>8 DEF CompletionRollup
  <2> QED
    BY <2>5, <2>6, <2>7, <2>8
<1>9. CASE ReopenAncestors(a)
  <2> DEFINE g == [f EXCEPT !.pc = "climb"]
  <2>1. f.pc = "reopen" /\ Same /\ f.snap = status[f.id] /\ f.id \in Artifacts
    BY <1>2, <1>9 DEF ReopenAncestors, FrameInv, Fresh, Frame
  <2>2. g.pc = "climb" /\ g \in GoodFrame
    BY <1>2, <2>1, FrameUpdate DEF Frame, FreePCs, PCs
  <2>3. FrameInv(a, g) /\ ~Closing(g) /\ ~Closing(f) /\ \A p : ~WillComplete(f, p)
    BY <2>1, <2>2, ClimbFrame DEF Closing, WillComplete
  <2>4. PICK h : h = Activate(f.id, status[f.id])
    OBVIOUS
  <2>5. Become(a, g) \/ Call(a, g, h)
    BY <1>9, <2>1, <2>4 DEF ReopenAncestors
  <2> QED
    BY <2>1, <2>2, <2>3, <2>4, <2>5, <1>b, <1>c, <1>l
<1>10. CASE ClimbToParent(a)
  <2> DEFINE up(p) == [f EXCEPT !.id = p]
  <2>1. f.pc = "climb" /\ Same
    BY <1>10 DEF ClimbToParent
  <2>2. \A p \in Artifacts : up(p).pc = "climb" /\ up(p) \in GoodFrame
    BY <1>2, <2>1, FrameUpdate DEF Frame
  <2>3. ~Closing(f) /\ \A p : ~WillComplete(f, p)
    BY <2>1 DEF Closing, WillComplete
  <2>4. \A p \in Artifacts : FrameInv(a, up(p)) /\ ~Closing(up(p))
    BY <2>2, ClimbFrame
  <2>5. \/ Return(a)
        \/ \E p \in Artifacts : Become(a, up(p)) \/ Call(a, up(p), Activate(p, status[p]))
    BY <1>10 DEF ClimbToParent, Parents, Ascend
  <2>6. ASSUME NEW p \in Artifacts, Call(a, up(p), Activate(p, status[p]))
        PROVE  RollupInv(a)'
    <3>1. PICK h : h = Activate(p, status[p])
      OBVIOUS
    <3> QED
      BY <2>1, <2>2, <2>3, <2>4, <2>6, <3>1, <1>c, <1>l
  <2> QED
    BY <2>1, <2>3, <2>4, <2>5, <2>6, <1>r, <1>b
<1> QED
  BY <1>3, <1>4, <1>5, <1>6, <1>7, <1>8, <1>9, <1>10 DEF StatusStep

\* Every state a lone agent reaches knows what is still to be rolled up.
LEMMA RollupInvHolds ==
    ASSUME Alone, Careful, SeedsPermitted, SeedsSound
    PROVE  Spec => [](TypeInv /\ PermitInv /\ StructInv /\ \A a \in Agents : RollupInv(a))
<1> DEFINE All == \A a \in Agents : RollupInv(a)
<1>1. Init => All
  <2> SUFFICES ASSUME Init, NEW a \in Agents PROVE RollupInv(a)
    OBVIOUS
  <2>1. Frames(a) = {} /\ touched[a] = {}
    BY DEF Init, Frames
  <2> QED
    BY <2>1 DEF RollupInv, Direction, ClosedStay, Frontier, RollupPending, ClosedHere, OpenedHere
<1>2. ASSUME TypeInv, PermitInv, StructInv, All, [Next]_vars PROVE All'
  <2> SUFFICES ASSUME NEW a \in Agents PROVE RollupInv(a)'
    OBVIOUS
  <2>1. CASE UNCHANGED vars
    <3>1. /\ \A f : FrameInv(a, f)' <=> FrameInv(a, f)
          /\ \A p : Completable(p)' <=> Completable(p)
          /\ \A p : Open(p)' <=> Open(p)
          /\ \A x : Parents(x)' = Parents(x)
          /\ \A f, p : WillComplete(f, p)' <=> WillComplete(f, p)
          /\ ClosedHere(a)' = ClosedHere(a) /\ OpenedHere(a)' = OpenedHere(a)
          /\ Frames(a)' = Frames(a)
      BY <2>1 DEF vars, FrameInv, Fresh, FromChild, ClosedHere, OpenedHere, Completable, Open,
                  AllEdgesDone, DependsTerminal, Exists, WillComplete, Parents, Frames
    <3>2. RollupInv(a)
      BY <1>2
    <3>3. Direction(a)' /\ \A f \in Frames(a)' : FrameInv(a, f)'
      BY <3>1, <3>2 DEF RollupInv, Direction
    <3>4. ClosedStay(a)' /\ Frontier(a)'
      BY <2>1, <3>1, <3>2 DEF vars, RollupInv, ClosedStay, Frontier
    <3>5. RollupPending(a)'
      BY <3>1, <3>2 DEF RollupInv, RollupPending
    <3> QED
      BY <3>3, <3>4, <3>5 DEF RollupInv
  <2>2. ASSUME NEW b \in Agents, Start(b) \/ Advance(b) PROVE RollupInv(a)'
    <3>1. a = b
      BY DEF Alone
    <3>2. CASE Start(b)
      BY <1>2, <3>1, <3>2, BeginsRollupInv
    <3>3. CASE StatusStep(b)
      BY <1>2, <3>1, <3>3, StatusStepRollupInv DEF PermitInv, StructInv, GraphOK
    <3>4. CASE EdgeStep(b)
      BY <1>2, <3>1, <3>4, EdgeStepRollupInv DEF PermitInv
    <3> QED
      BY <2>2, <3>2, <3>3, <3>4, AdvanceSplit
  <2> QED
    BY <1>2, <2>1, <2>2 DEF Next
<1> QED
  BY <1>1, <1>2, StructInvHolds, PermitInvHolds, PTL DEF Spec

\* When a lone careful caller's call that closed an artifact has returned, every
\* container above it that could be completed has been (autoCompleteParent,
\* completionRollup), however far the rollup had to climb.
THEOREM RollupComplete ==
    ASSUME Alone, Careful, SeedsSound
    PROVE  Spec => []RollupReaches
<1>1. (\A a \in Agents : RollupInv(a)) /\ TypeInv => RollupReaches
  <2> SUFFICES ASSUME \A a \in Agents : RollupInv(a), TypeInv, Quiet,
                      NEW x \in Touched("closed"), NEW p \in Parents(x), Completable(p)
               PROVE  FALSE
    BY DEF RollupReaches, Completable
  <2>1. PICK a \in Agents : x \in ClosedHere(a)
    BY DEF Touched, ClosedHere
  <2>2. Frames(a) = {}
    BY FramesNow DEF Quiet
  <2> QED
    BY <2>1, <2>2 DEF RollupInv, RollupPending
<1>2. SeedsPermitted
  BY DEF SeedsSound
<1> QED
  BY <1>1, <1>2, RollupInvHolds, PTL

------------------------------------------------------------------------------
(* What reopening has still to do.  reopenAncestors climbs the first       *)
(* parent only: where an artifact may have two (a campaign or a note below *)
(* notes), the other branch stays closed.  Work artifacts have one.        *)

WorkOnly == \A x \in Artifacts : KindOf[x] # "knowledge.context"

OneAbove(E) == \A d, e \in E : d[2] = e[2] => d[1] = e[1]

LEMMA WorkHasOneParent ==
    ASSUME TypeInv, WorkOnly, EdgesPermitted, Single
    PROVE  OneAbove(parentOf)
<1> SUFFICES ASSUME NEW d \in parentOf, NEW e \in parentOf, d[2] = e[2] PROVE d[1] = e[1]
  BY DEF OneAbove
<1>1. /\ d = <<d[1], d[2]>> /\ e = <<e[1], e[2]>>
      /\ d[1] \in Artifacts /\ d[2] \in Artifacts /\ e[1] \in Artifacts
  BY DEF TypeInv
<1>2. ValidChild(d[1], d[2]) /\ KindOf[d[1]] # "knowledge.context"
  BY <1>1 DEF EdgesPermitted, WorkOnly
<1>3. MaxParents(KindOf[d[2]]) > 0
  BY <1>2 DEF ValidChild, AllowedChild, MaxParents
<1>4. d[1] \in Parents(d[2]) /\ e[1] \in Parents(d[2])
  BY <1>1 DEF Parents
<1> QED
  BY <1>1, <1>3, <1>4 DEF Single

\* A walk that ends in y came through the one edge into y.
LEMMA ReachParent ==
    ASSUME NEW E, NEW p, NEW q, NEW y \in Artifacts, \A e \in E : e[2] = y => e[1] = q,
           Reaches(E, p, y), p # q
    PROVE  Reaches(E, p, q)
<1> SUFFICES ASSUME NEW S \in SUBSET Artifacts, Closed(E, p, S), q \notin S PROVE FALSE
  BY NotReached
<1>1. Closed(E, p, S \ {y})
  BY DEF Closed
<1> QED
  BY <1>1, NotReached

\* Nothing leads to y when no edge does.
LEMMA ReachNoParent ==
    ASSUME NEW E \in SUBSET (Artifacts \X Artifacts), NEW p, NEW y \in Artifacts,
           \A e \in E : e[2] # y
    PROVE  ~Reaches(E, p, y)
<1>1. Closed(E, p, Artifacts \ {y})
  BY DEF Closed
<1> QED
  BY <1>1, NotReached

\* f will yet open p, if p is closed.
WillOpen(f, p) ==
    \/ f.pc = "put" /\ f.to \notin Terminal /\ f.id = p
    \/ f.pc = "climb" /\ Reaches(parentOf, p, f.id)
    \/ f.pc = "reopen" /\ (f.id = p \/ Reaches(parentOf, p, f.id))

ReopenPending(a) ==
    \A x \in OpenedHere(a) : status[x] \notin Terminal =>
        \A p \in Artifacts : Reaches(parentOf, p, x) /\ status[p] \in Terminal =>
            \E f \in Frames(a) : WillOpen(f, p)

\* Steps that write no status and no edge hand over what is still to be opened.
LEMMA ReopenMoves ==
    ASSUME TypeInv, NEW a \in Agents, ReopenPending(a), ~Idle(a),
           UNCHANGED <<status, graph, touched>>
    PROVE  \A N : (/\ Frames(a)' = Below(a) \union N
                   /\ \A p \in Artifacts : status[p] \in Terminal /\ WillOpen(Top(a), p)
                             => \E g \in N : WillOpen(g, p))
                  => ReopenPending(a)'
<1> SUFFICES ASSUME NEW N, Frames(a)' = Below(a) \union N,
                    \A p \in Artifacts : status[p] \in Terminal /\ WillOpen(Top(a), p)
                           => \E g \in N : WillOpen(g, p)
             PROVE  ReopenPending(a)'
  OBVIOUS
<1>1. /\ \A f, p : WillOpen(f, p)' <=> WillOpen(f, p)
      /\ \A p, x : Reaches(parentOf, p, x)' <=> Reaches(parentOf, p, x)
      /\ OpenedHere(a)' = OpenedHere(a) /\ UNCHANGED status
  BY DEF WillOpen, Reaches, OpenedHere, graph
<1>2. Frames(a) = Below(a) \union {Top(a)}
  BY FramesNow
<1> QED
  BY <1>1, <1>2 DEF ReopenPending

\* The write that opens an artifact goes on to open what is above it.
LEMMA PutReopenPending ==
    ASSUME TypeInv, NEW a \in Agents, RollupInv(a), ReopenPending(a),
           PutStatus(a), Top(a).to \notin Terminal
    PROVE  ReopenPending(a)'
<1>0. PICK f : f = Top(a)
  OBVIOUS
<1> USE <1>0
<1> DEFINE y == f.id
           g == [f EXCEPT !.pc = "climb"]
<1>1. /\ ~Idle(a) /\ f.pc = "put" /\ f.to \notin Terminal /\ UNCHANGED parentOf
      /\ status' = [status EXCEPT ![y] = f.to]
      /\ touched' = [touched EXCEPT ![a] = @ \union ({"opened" : s \in {f.snap} \intersect Terminal} \X {y})]
  BY DEF PutStatus, At, Touch, graph
<1>2. f \in Frame /\ y \in Artifacts /\ f.snap = status[y]
  BY <1>1, TopType, FramesNow DEF GoodFrame, Frame, RollupInv, FrameInv, Fresh
<1>3. OpenedHere(a)' = OpenedHere(a) \union {x \in {y} : f.snap \in Terminal}
  BY <1>1, <1>2 DEF OpenedHere, TypeInv
<1>4. Frames(a) = Below(a) \union {f}
  BY <1>1, FramesNow
<1>5. IF f.snap \in Terminal THEN Frames(a)' = Below(a) \union {g} ELSE Frames(a)' = Below(a)
  BY <1>1, FramesNext DEF PutStatus, Reconciler
<1>6. /\ \A h, p : WillOpen(h, p)' <=> WillOpen(h, p)
      /\ \A p, x : Reaches(parentOf, p, x)' <=> Reaches(parentOf, p, x)
  BY <1>1 DEF WillOpen, Reaches
<1>7. \A x \in Artifacts : status'[x] = (IF x = y THEN f.to ELSE status[x])
  BY <1>1, <1>2 DEF TypeInv, Rows
<1> SUFFICES ASSUME NEW x \in OpenedHere(a)', status'[x] \notin Terminal, NEW p \in Artifacts,
                    Reaches(parentOf, p, x), status'[p] \in Terminal
             PROVE  \E h \in Frames(a)' : WillOpen(h, p)
  BY <1>6 DEF ReopenPending
<1>8. p # y /\ status[p] \in Terminal
  BY <1>1, <1>7
<1>9. CASE x = y /\ f.snap \in Terminal
  <2>1. g.pc = "climb" /\ g.id = y
    BY <1>2 DEF Frame
  <2> QED
    BY <1>5, <1>9, <2>1 DEF WillOpen
<1>10. CASE ~(x = y /\ f.snap \in Terminal)
  <2>1. x \in OpenedHere(a) /\ x \in Artifacts
    BY <1>3, <1>10 DEF OpenedHere
  <2>2. status[x] \notin Terminal
    BY <1>2, <1>7, <1>10, <2>1
  <2>3. PICK h \in Frames(a) : WillOpen(h, p)
    BY <1>8, <2>1, <2>2 DEF ReopenPending
  <2>4. h # f
    BY <1>1, <1>8, <2>3 DEF WillOpen
  <2> QED
    BY <1>4, <1>5, <2>3, <2>4
<1> QED
  BY <1>9, <1>10

\* Every step of a status change keeps what is still to be opened.
LEMMA StatusStepReopenPending ==
    ASSUME TypeInv, OneAbove(parentOf), Stored, NEW a \in Agents, MayGoOn(a), RollupInv(a),
           RollupInv(a)', ReopenPending(a), StatusStep(a)
    PROVE  ReopenPending(a)'
<1>0. PICK f : f = Top(a)
  OBVIOUS
<1> USE <1>0 DEF At
<1>1. ~Idle(a)
  BY DEF StatusStep, GuardChildrenComplete, GuardDependsOnComplete, PutStatus,
         AutoCompleteParent, StartRollup, CompletionRollup, ReopenAncestors, ClimbToParent
<1>2. f \in GoodFrame /\ f \in Frame /\ FrameInv(a, f) /\ f \in Frames(a)
  BY <1>1, TopType, FramesNow DEF GoodFrame, RollupInv
<1> DEFINE Same == UNCHANGED <<status, graph, touched>>
<1>s. ASSUME Same
      PROVE  \A N : (/\ Frames(a)' = Below(a) \union N
                     /\ \A p \in Artifacts : status[p] \in Terminal /\ WillOpen(f, p)
                               => \E h \in N : WillOpen(h, p))
                    => ReopenPending(a)'
  BY <1>1, <1>s, ReopenMoves
<1>n. ASSUME OpenedHere(a)' = {} PROVE ReopenPending(a)'
  BY <1>n DEF ReopenPending
<1>3. CASE Closing(f)
  <2>1. OpenedHere(a) = {}
    BY <1>2, <1>3 DEF RollupInv, Direction
  <2>2. CASE PutStatus(a)
    <3>1. f.pc = "put" /\ f.to \in Terminal
      BY <1>3, <2>2 DEF Closing, PutStatus
    <3>2. touched' = [touched EXCEPT ![a] = @ \union ({"closed"} \X {f.id})]
      BY <2>2, <3>1 DEF PutStatus, Touch
    <3>3. OpenedHere(a)' = {}
      BY <2>1, <3>2 DEF OpenedHere, TypeInv
    <3> QED
      BY <3>3, <1>n
  <2>3. CASE ~PutStatus(a)
    <3>1. UNCHANGED touched
      BY <2>3 DEF StatusStep, GuardChildrenComplete, GuardDependsOnComplete,
         AutoCompleteParent, StartRollup, CompletionRollup, ReopenAncestors, ClimbToParent
    <3>2. OpenedHere(a)' = {}
      BY <2>1, <3>1 DEF OpenedHere
    <3> QED
      BY <3>2, <1>n
  <2> QED
    BY <2>2, <2>3
<1>4. CASE PutStatus(a) /\ ~Closing(f)
  <2>1. f.pc = "put"
    BY <1>4 DEF PutStatus
  <2> QED
    BY <1>4, <2>1, PutReopenPending DEF Closing
<1>5. CASE ReopenAncestors(a)
  <2> DEFINE g == [f EXCEPT !.pc = "climb"]
  <2>1. f.pc = "reopen" /\ Same /\ f.snap = status[f.id] /\ f.id \in Artifacts
    BY <1>2, <1>5 DEF ReopenAncestors, FrameInv, Fresh, Frame
  <2>2. g.pc = "climb" /\ g.id = f.id /\ g \in GoodFrame
    BY <1>2, <2>1, FrameUpdate DEF Frame, FreePCs, PCs
  <2>3. PICK h : h = Activate(f.id, status[f.id])
    OBVIOUS
  <2>4. h \in GoodFrame /\ h.pc = "put" /\ h.id = f.id /\ h.to \notin Terminal
    <3>1. h \in GoodFrame
      BY <2>1, <2>3, StatusFrameType, StoreType DEF Activate, ActiveStatus, FreePCs, PCs, Statuses
    <3> QED
      BY <2>3, <3>1 DEF Activate, ActiveStatus, StatusFrame, Terminal
  <2>5. \/ f.snap \in Terminal /\ Call(a, g, h)
        \/ f.snap \notin Terminal /\ Become(a, g)
    BY <1>5, <2>1, <2>3 DEF ReopenAncestors
  <2>6. CASE f.snap \in Terminal /\ Call(a, g, h)
    <3>1. PICK N : N = {g, h}
      OBVIOUS
    <3>2. Frames(a)' = Below(a) \union N
      BY <1>1, <2>2, <2>4, <2>6, <3>1, FramesNext
    <3>3. \A p \in Artifacts : WillOpen(f, p) => \E k \in N : WillOpen(k, p)
      BY <2>1, <2>2, <2>4, <3>1 DEF WillOpen
    <3> QED
      BY <2>1, <3>2, <3>3, <1>s
  <2>7. CASE f.snap \notin Terminal /\ Become(a, g)
    <3>1. PICK N : N = {g}
      OBVIOUS
    <3>2. Frames(a)' = Below(a) \union N
      BY <1>1, <2>2, <2>7, <3>1, FramesNext
    <3>3. \A p \in Artifacts : status[p] \in Terminal /\ WillOpen(f, p) => \E k \in N : WillOpen(k, p)
      BY <2>1, <2>2, <2>7, <3>1 DEF WillOpen
    <3> QED
      BY <2>1, <3>2, <3>3, <1>s
  <2> QED
    BY <2>5, <2>6, <2>7
<1>6. CASE ClimbToParent(a)
  <2> DEFINE up(q) == [f EXCEPT !.id = q]
  <2>1. f.pc = "climb" /\ Same /\ f.id \in Artifacts
    BY <1>2, <1>6 DEF ClimbToParent, Frame
  <2>2. \A q \in Artifacts : up(q).pc = "climb" /\ up(q).id = q /\ up(q) \in GoodFrame
    BY <1>2, <2>1, FrameUpdate DEF Frame
  <2>3. CASE Parents(f.id) = {} /\ Return(a)
    <3>0. PICK N : N = {}
      OBVIOUS
    <3>1. \A e \in parentOf : e[2] # f.id
      BY <2>3 DEF Parents, TypeInv
    <3>2. \A p \in Artifacts : ~WillOpen(f, p)
      BY <2>1, <3>1, ReachNoParent DEF WillOpen, TypeInv
    <3>3. Frames(a)' = Below(a) \union N
      BY <1>1, <2>3, <3>0, FramesNext
    <3>4. \A p \in Artifacts : status[p] \in Terminal /\ WillOpen(f, p) => \E k \in N : WillOpen(k, p)
      BY <3>2
    <3> QED
      BY <2>1, <3>3, <3>4, <1>s
  <2>4. ASSUME NEW q \in Parents(f.id),
               \/ ~Exists(q) /\ Return(a)
               \/ status[q] \in Terminal /\ Call(a, up(q), Activate(q, status[q]))
               \/ status[q] \notin Terminal /\ Become(a, up(q))
        PROVE  ReopenPending(a)'
    <3>1. q \in Artifacts /\ Exists(q) /\ \A e \in parentOf : e[2] = f.id => e[1] = q
      BY <2>1 DEF Parents, OneAbove, Stored
    <3>2. \A p : WillOpen(f, p) => p = q \/ Reaches(parentOf, p, q)
      BY <2>1, <3>1, ReachParent DEF WillOpen
    <3>3. CASE status[q] \in Terminal /\ Call(a, up(q), Activate(q, status[q]))
      <4>1. PICK h : h = Activate(q, status[q])
        OBVIOUS
      <4>2. h \in GoodFrame /\ h.pc = "put" /\ h.id = q /\ h.to \notin Terminal
        <5>1. h \in GoodFrame
          BY <3>1, <4>1, StatusFrameType, StoreType DEF Activate, ActiveStatus, FreePCs, PCs, Statuses
        <5> QED
          BY <4>1, <5>1 DEF Activate, ActiveStatus, StatusFrame, Terminal
      <4>3. PICK N : N = {up(q), h}
        OBVIOUS
      <4>4. Frames(a)' = Below(a) \union N
        BY <1>1, <2>2, <3>1, <3>3, <4>1, <4>2, <4>3, FramesNext
      <4>5. \A p \in Artifacts : status[p] \in Terminal /\ WillOpen(f, p) => \E k \in N : WillOpen(k, p)
        BY <2>2, <3>1, <3>2, <4>2, <4>3 DEF WillOpen
      <4> QED
        BY <2>1, <4>4, <4>5, <1>s
    <3>4. CASE status[q] \notin Terminal /\ Become(a, up(q))
      <4>3. PICK N : N = {up(q)}
        OBVIOUS
      <4>4. Frames(a)' = Below(a) \union N
        BY <1>1, <3>4, <4>3, FramesNext
      <4>5. \A p \in Artifacts : status[p] \in Terminal /\ WillOpen(f, p) => \E k \in N : WillOpen(k, p)
        BY <2>2, <3>1, <3>2, <3>4, <4>3 DEF WillOpen
      <4> QED
        BY <2>1, <4>4, <4>5, <1>s
    <3> QED
      BY <2>4, <3>1, <3>3, <3>4
  <2>5. \/ Parents(f.id) = {} /\ Return(a)
        \/ \E q \in Parents(f.id) :
               \/ ~Exists(q) /\ Return(a)
               \/ status[q] \in Terminal /\ Call(a, up(q), Activate(q, status[q]))
               \/ status[q] \notin Terminal /\ Become(a, up(q))
    BY <1>6 DEF ClimbToParent, Ascend
  <2> QED
    BY <2>3, <2>4, <2>5
<1>7. ~Closing(f) => PutStatus(a) \/ ReopenAncestors(a) \/ ClimbToParent(a)
  BY DEF StatusStep, Closing, GuardChildrenComplete, GuardDependsOnComplete,
         AutoCompleteParent, StartRollup, CompletionRollup
<1> QED
  BY <1>3, <1>4, <1>5, <1>6, <1>7

\* An edge to an unfinished child sets out to open what is above it; no other
\* step of an edge operation opens anything.
LEMMA EdgeStepReopenPending ==
    ASSUME TypeInv, TypeInv', OneAbove(parentOf)', NEW a \in Agents, MayGoOn(a), RollupInv(a),
           EdgeStep(a)
    PROVE  ReopenPending(a)'
<1>1. \A f \in Frames(a) : FrameInv(a, f) /\ Fresh(f)
  BY DEF RollupInv, FrameInv
<1>2. ~Idle(a) /\ Top(a).pc \notin StatusPCs
  BY <1>1, EdgeStepMoves
<1>3. touched[a] = {}
  BY <1>1, <1>2, FramesNow DEF FrameInv
<1>4. CASE UNCHANGED touched
  BY <1>3, <1>4 DEF ReopenPending, OpenedHere
<1>5. CASE AddParentEdge(a)
  <2>0. PICK f : f = Top(a)
    OBVIOUS
  <2> USE <2>0
  <2> DEFINE g == [f EXCEPT !.pc = "reopen"]
  <2>1. /\ f \in Frame /\ f.other \in Artifacts /\ f.id \in Artifacts
        /\ parentOf' = parentOf \union {<<f.id, f.other>>} /\ UNCHANGED status
    BY <1>2, <1>5, TopType DEF AddParentEdge, At, GoodFrame, Frame
  <2>2. CASE f.to \in Terminal
    <3>1. UNCHANGED touched
      BY <1>3, <1>5, <2>2 DEF AddParentEdge, Touch, TypeInv
    <3> QED
      BY <1>4, <3>1
  <2>3. CASE f.to \notin Terminal
    <3>1. Frames(a)' = Below(a) \union {g}
      BY <1>2, <1>5, <2>3, FramesNext DEF AddParentEdge, OpensAncestors
    <3>2. OpenedHere(a)' \subseteq {f.other}
      BY <1>3, <1>5 DEF AddParentEdge, Touch, OpenedHere, TypeInv
    <3>3. \A e \in parentOf' : e[2] = f.other => e[1] = f.id
      <4>1. PICK d : d = <<f.id, f.other>>
        OBVIOUS
      <4>2. d[1] = f.id /\ d[2] = f.other /\ d \in parentOf'
        BY <2>1, <4>1
      <4> QED
        BY <4>2 DEF OneAbove
    <3>4. \A p : Reaches(parentOf', p, f.other) => p = f.id \/ Reaches(parentOf', p, f.id)
      BY <2>1, <3>3, ReachParent
    <3>5. g.pc = "reopen" /\ g.id = f.id
      BY <2>1 DEF Frame
    <3>6. \A p : Reaches(parentOf', p, f.other) => WillOpen(g, p)'
      BY <3>4, <3>5 DEF WillOpen, Reaches
    <3>7. \A p, x : Reaches(parentOf, p, x)' <=> Reaches(parentOf', p, x)
      BY DEF Reaches
    <3> QED
      BY <3>1, <3>2, <3>6, <3>7 DEF ReopenPending
  <2> QED
    BY <2>2, <2>3
<1> QED
  BY <1>1, <1>4, <1>5, EdgeStepMoves

LEMMA ReopenPendingHolds ==
    ASSUME Alone, Careful, SeedsSound, WorkOnly
    PROVE  Spec => [](TypeInv /\ \A a \in Agents : ReopenPending(a))
<1> DEFINE Before == TypeInv /\ PermitInv /\ StructInv /\ \A a \in Agents : RollupInv(a)
           All == \A a \in Agents : ReopenPending(a)
<1>1. Init => All
  BY DEF Init, ReopenPending, OpenedHere
<1>2. Before /\ Before' /\ All /\ [Next]_vars => All'
  <2> SUFFICES ASSUME Before, Before', All, [Next]_vars, NEW a \in Agents
               PROVE  ReopenPending(a)'
    OBVIOUS
  <2>1. OneAbove(parentOf) /\ OneAbove(parentOf)'
    <3>1. OneAbove(parentOf)
      BY WorkHasOneParent DEF PermitInv, StructInv, GraphOK
    <3>2. OneAbove(parentOf)'
      BY WorkHasOneParent, PTL DEF PermitInv, StructInv, GraphOK
    <3> QED
      BY <3>1, <3>2
  <2>2. CASE UNCHANGED vars
    <3>1. /\ \A f, p : WillOpen(f, p)' <=> WillOpen(f, p)
          /\ \A p, x : Reaches(parentOf, p, x)' <=> Reaches(parentOf, p, x)
          /\ OpenedHere(a)' = OpenedHere(a) /\ Frames(a)' = Frames(a) /\ UNCHANGED status
      BY <2>2 DEF vars, WillOpen, Reaches, OpenedHere, Frames
    <3> QED
      BY <3>1 DEF ReopenPending
  <2>3. ASSUME NEW b \in Agents, Start(b) \/ Advance(b) PROVE ReopenPending(a)'
    <3>1. a = b
      BY DEF Alone
    <3>2. CASE Start(b)
      BY <3>1, <3>2, BeginsUntouched DEF ReopenPending, OpenedHere
    <3>3. MayGoOn(a) /\ RollupInv(a) /\ RollupInv(a)' /\ Stored
      BY DEF PermitInv, StructInv, GraphOK
    <3>4. CASE StatusStep(b)
      BY <2>1, <3>1, <3>3, <3>4, StatusStepReopenPending
    <3>5. CASE EdgeStep(b)
      BY <2>1, <3>1, <3>3, <3>5, EdgeStepReopenPending
    <3> QED
      BY <2>3, <3>2, <3>4, <3>5, AdvanceSplit
  <2> QED
    BY <2>2, <2>3 DEF Next
<1>3. SeedsPermitted
  BY DEF SeedsSound
<1> QED
  BY <1>1, <1>2, <1>3, RollupInvHolds, PTL DEF Spec

\* When a call that reopened an artifact, or linked it unfinished, has returned,
\* no ancestor of it is closed, however far above (reopenAncestors), in a store
\* of campaigns, goals and tasks.
THEOREM ReopenComplete ==
    ASSUME Alone, Careful, SeedsSound, WorkOnly
    PROVE  Spec => []ReopenReaches
<1>1. TypeInv /\ (\A a \in Agents : ReopenPending(a)) => ReopenReaches
  <2> SUFFICES ASSUME TypeInv, \A a \in Agents : ReopenPending(a), Quiet,
                      NEW x \in Touched("opened"), status[x] \notin Terminal,
                      NEW p \in Artifacts, Reaches(parentOf, p, x), status[p] \in Terminal
               PROVE  FALSE
    BY DEF ReopenReaches
  <2>1. PICK a \in Agents : x \in OpenedHere(a)
    BY DEF Touched, OpenedHere
  <2>2. Frames(a) = {}
    BY FramesNow DEF Quiet
  <2> QED
    BY <2>1, <2>2 DEF ReopenPending
<1> QED
  BY <1>1, ReopenPendingHolds, PTL
==============================================================================
