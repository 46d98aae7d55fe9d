------------------------------ MODULE MCUpkeep ------------------------------
(* A goal with a task, and notes, for model checking Upkeep. *)
EXTENDS Upkeep, TLC

ChainKinds == [x \in Artifacts |->
                CASE x = "c" -> "effort.campaign"
                  [] x = "g" -> "effort.goal"
                  [] x \in {"t", "u"} -> "effort.task"
                  [] OTHER -> "knowledge.context"]

ChainEdges == {<<"g", "t">>}

CampaignEdges == {<<"c", "g">>, <<"g", "t">>}

\* A note under a task, and depending on it: no relationship permits either.
NoteUpserts == {<<"n", "t", "t">>}

\* A note that was exported when it was its own parent.
NoteRecords == {[id |-> "n", status |-> "work.active", parentOf |-> {"n"}, dependsOn |-> {"t"}]}

\* A task below a note that is its own parent.
BelowUpserts == {<<"n", "n", None>>, <<"t", "n", None>>}

NoRecords == {}

NoEdges == {}
==============================================================================
