----------------------------- MODULE SourceSets ------------------------------
(***************************************************************************)
(* What GraphStore promises of multi-source edges: an edge is the set of   *)
(* the sources that declare it, it exists while that set is not empty, and *)
(* every call takes effect at one instant between its start and its end.   *)
(***************************************************************************)
CONSTANTS Targets,  \* the edges: <<relation, target>> pairs of one artifact
          Sources,  \* "manual", "wikilink", ...
          Callers

VARIABLES declared, \* [Targets -> the sources that declare the edge]
          pending,  \* [Callers -> the calls in progress: at most one]
          failed    \* the callers whose last call was answered with an error

Calls == [op : {"add", "remove", "link", "unlink"}, to : Targets, source : Sources]

Init ==
    /\ declared = [t \in Targets |-> {}]
    /\ pending = [c \in Callers |-> {}]
    /\ failed = {}

Invoke(c, call) ==
    /\ pending[c] = {}
    /\ pending' = [pending EXCEPT ![c] = {call}]
    /\ failed' = failed \ {c}
    /\ UNCHANGED declared

After(call) ==
    LET S == declared[call.to]
    IN  CASE call.op = "add"    -> S \union {call.source}
          [] call.op = "remove" -> S \ {call.source}
          [] call.op = "link"   -> S \union {"manual"}
          [] call.op = "unlink" -> {}

Perform(c, call) ==
    /\ call \in pending[c]
    /\ declared' = [declared EXCEPT ![call.to] = After(call)]
    /\ pending' = [pending EXCEPT ![c] = {}]
    /\ UNCHANGED failed

\* A call that fails changes nothing.
Fail(c) ==
    /\ pending[c] # {}
    /\ pending' = [pending EXCEPT ![c] = {}]
    /\ failed' = failed \union {c}
    /\ UNCHANGED declared

Next == \E c \in Callers : Fail(c) \/ \E call \in Calls : Invoke(c, call) \/ Perform(c, call)

Spec == Init /\ [][Next]_<<declared, pending, failed>>
==============================================================================
