----------------------------- MODULE MCLifecycle -----------------------------
(* Small work graphs for model checking Lifecycle. *)
EXTENDS Lifecycle, TLC

\* A campaign with one goal and two tasks, and a second goal to depend on.
WorkKinds == [x \in Artifacts |->
                CASE x = "c" -> "effort.campaign"
                  [] x \in {"g", "h"} -> "effort.goal"
                  [] x \in {"t", "u"} -> "effort.task"
                  [] OTHER -> "knowledge.context"]

TreeLinks == {<<"c", "g">>, <<"g", "t">>, <<"g", "u">>}
TreeEdges == {<<"c", "g">>, <<"g", "t">>}
TaskDependency == {<<"g", "u">>}

\* Two goals that may depend on each other, a task under either, a note.
StructureLinks == {<<"g", "t">>, <<"h", "t">>, <<"g", "h">>, <<"h", "g">>, <<"k", "g">>, <<"t", "g">>}

\* A chain of three, linked from the start.
ChainLinks == {<<"c", "g">>, <<"g", "t">>}

GoalTask == {<<"g", "t">>}

TwoGoals == {<<"g", "t">>, <<"h", "t">>}

TaskUnderTask == {<<"u", "t">>}

\* Notes: l already has two parents, m and k, as linking allows.
NoteEdges == {<<"m", "l">>, <<"k", "l">>}
NoteLinks == {<<"l", "k">>}

NoEdges == {}
==============================================================================
