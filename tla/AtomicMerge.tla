----------------------------- MODULE AtomicMerge -----------------------------
(***************************************************************************)
(* What a row promises to clients that change it through the versioned and *)
(* patching writes: each change is merged into the value in one step, and  *)
(* none is ever lost while the row is stored.                              *)
(***************************************************************************)
CONSTANT Clients    \* each merges one change of its own, named after it

VARIABLES value,    \* the set of changes merged
          stored,   \* FALSE once the row is deleted
          outcome   \* [Clients -> "pending", "merged" or "refused"]

Init == value = {} /\ stored = TRUE /\ outcome = [c \in Clients |-> "pending"]

Merge(c) ==
    /\ outcome[c] = "pending"
    /\ stored
    /\ value' = value \union {c}
    /\ outcome' = [outcome EXCEPT ![c] = "merged"]
    /\ UNCHANGED stored

Refuse(c) ==
    /\ outcome[c] = "pending"
    /\ ~stored
    /\ outcome' = [outcome EXCEPT ![c] = "refused"]
    /\ UNCHANGED <<value, stored>>

Remove == stored /\ stored' = FALSE /\ value' = {} /\ UNCHANGED outcome

Next == Remove \/ \E c \in Clients : Merge(c) \/ Refuse(c)

Spec == Init /\ [][Next]_<<value, stored, outcome>>
==============================================================================
