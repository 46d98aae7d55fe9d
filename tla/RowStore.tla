------------------------------ MODULE RowStore -------------------------------
(***************************************************************************)
(* One artifact row, its version (updated_at) and its revision history,    *)
(* under concurrent clients.  Each client makes one change, named after    *)
(* it, to the content, through one of the writes of ArtifactStore:         *)
(*   put      Get, change the copy, Put: the whole row is replaced         *)
(*   version  Get, change the copy, PutIfVersion; Get again on ErrConflict *)
(*   patch    PatchArtifact: read and write inside one transaction         *)
(*   create   Put of a fresh artifact, nothing read                        *)
(* A transaction is one step (a single writer connection).  Put takes its  *)
(* time stamp before it has that connection, the others while they hold it.*)
(* Content is the set of changes it carries; columns are not told apart.   *)
(***************************************************************************)
EXTENDS Naturals, FiniteSets

CONSTANTS
    Clients,
    Method,      \* [Clients -> Methods]
    Deletable,   \* TRUE: the row may be deleted
    Keep,        \* revisions kept per artifact (50 in the trigger)
    PruneTo,     \* the keepN arguments PruneRevisions is called with
    StrictClock  \* TRUE: no two readings of the clock are equal

Methods == {"put", "version", "patch", "create"}

ASSUME RowStoreAssumption ==
    /\ Method \in [Clients -> Methods]
    /\ Deletable \in BOOLEAN
    /\ Keep \in Nat \ {0}
    /\ PruneTo \subseteq Nat
    /\ StrictClock \in BOOLEAN

Row == [content : SUBSET Clients, ver : Nat]
NoRow == [content |-> {}, gone |-> TRUE]

VARIABLES
    row,        \* the stored row, or NoRow
    clock,      \* the last reading of the clock
    revisions,  \* the revisions kept: a set of [rev, content]
    pc,         \* [Clients -> where the client is]
    snap,       \* [Clients -> the row it read]
    stamp       \* [Clients -> the time stamp Put took]

vars == <<row, clock, revisions, pc, snap, stamp>>

Present == row # NoRow

Init ==
    /\ row = [content |-> {}, ver |-> 0]
    /\ clock = 0
    /\ revisions = {}
    /\ pc = [c \in Clients |-> "start"]
    /\ snap = [c \in Clients |-> [content |-> {}, ver |-> 0]]
    /\ stamp = [c \in Clients |-> 0]

------------------------------------------------------------------------------
(* The update and delete triggers.                                         *)

Revs == {r.rev : r \in revisions}
Newest == CHOOSE n \in Revs : \A m \in Revs : m <= n

\* (mutant) numbered by how many there are
NextRevCount == Cardinality(revisions) + 1

\* (mutant) COALESCE(MAX(revision) + 1, 0)
NextRevZero == IF revisions = {} THEN 0 ELSE Newest + 1

\* COALESCE(MAX(revision) + 1, 1)
NextRev == IF revisions = {} THEN 1 ELSE Newest + 1

WithOld == revisions \union {[rev |-> NextRev, content |-> row.content]}

\* (mutant) one revision too many is removed
TrimmedOne(R, newest) == {r \in R : newest < r.rev + Keep - 1}

\* DELETE ... WHERE revision <= MAX(revision) - Keep
Trimmed(R, newest) == {r \in R : newest < r.rev + Keep}

\* BEFORE UPDATE, when a content column changes.
RecordUpdate(new) ==
    revisions' = IF Present /\ row.content # new THEN Trimmed(WithOld, NextRev) ELSE revisions

------------------------------------------------------------------------------
\* (mutant) versions rounded to the second
TickSeconds == {clock, clock + 1}

Tick == IF StrictClock THEN {clock + 1} ELSE {clock, clock + 1}

Move(c, to) == pc' = [pc EXCEPT ![c] = to]

Get(c) ==
    /\ pc[c] = "start"
    /\ Method[c] \in {"put", "version"}
    /\ IF Present THEN Move(c, "read") /\ snap' = [snap EXCEPT ![c] = row]
                  ELSE Move(c, "refused") /\ UNCHANGED snap
    /\ UNCHANGED <<row, clock, revisions, stamp>>

\* Put: the stamp, before the writer connection is waited for.
TakeStamp(c) ==
    /\ \/ Method[c] = "put" /\ pc[c] = "read"
       \/ Method[c] = "create" /\ pc[c] = "start"
    /\ \E now \in Tick : clock' = now /\ stamp' = [stamp EXCEPT ![c] = now]
    /\ Move(c, "stamped")
    /\ UNCHANGED <<row, revisions, snap>>

\* Put: an upsert of what the client holds.
Put(c) ==
    /\ pc[c] = "stamped"
    /\ LET new == snap[c].content \union {c}
       IN  row' = [content |-> new, ver |-> stamp[c]] /\ RecordUpdate(new)
    /\ Move(c, "merged")
    /\ UNCHANGED <<clock, snap, stamp>>

\* (mutant) no conflict unless the row is older than the copy
VersionMatchesOrNewer(c) == snap[c].ver <= row.ver

VersionMatches(c) == row.ver = snap[c].ver

PutIfVersion(c) ==
    /\ pc[c] = "read"
    /\ Method[c] = "version"
    /\ Present
    /\ VersionMatches(c)
    /\ LET new == snap[c].content \union {c}
       IN  /\ \E now \in Tick : clock' = now /\ row' = [content |-> new, ver |-> now]
           /\ RecordUpdate(new)
    /\ Move(c, "merged")
    /\ UNCHANGED <<snap, stamp>>

\* (mutant) the client gives the same stale copy again
AfterConflictSame == "read"

AfterConflict == "start"

\* ErrConflict: the client starts over from a fresh copy; ErrArtifactNotFound.
Conflict(c) ==
    /\ pc[c] = "read"
    /\ Method[c] = "version"
    /\ ~(Present /\ VersionMatches(c))
    /\ Move(c, IF Present THEN AfterConflict ELSE "refused")
    /\ UNCHANGED <<row, clock, revisions, snap, stamp>>

PatchArtifact(c) ==
    /\ pc[c] = "start"
    /\ Method[c] = "patch"
    /\ IF Present
       THEN LET new == row.content \union {c}
            IN  /\ \E now \in Tick : clock' = now /\ row' = [content |-> new, ver |-> now]
                /\ RecordUpdate(new)
                /\ Move(c, "merged")
       ELSE Move(c, "refused") /\ UNCHANGED <<row, clock, revisions>>
    /\ UNCHANGED <<snap, stamp>>

\* The delete trigger records the row but removes no old revision.
Delete ==
    /\ Deletable
    /\ Present
    /\ row' = NoRow
    /\ revisions' = WithOld
    /\ UNCHANGED <<clock, pc, snap, stamp>>

\* DELETE ... WHERE revision <= MAX(revision) - keepN
PruneRevisions(keepN) ==
    /\ revisions # {}
    /\ revisions' = {r \in revisions : Newest < r.rev + keepN}
    /\ UNCHANGED <<row, clock, pc, snap, stamp>>

Step(c) == Get(c) \/ TakeStamp(c) \/ Put(c) \/ PutIfVersion(c) \/ Conflict(c) \/ PatchArtifact(c)

Next == \/ \E c \in Clients : Step(c)
        \/ Delete
        \/ \E n \in PruneTo : PruneRevisions(n)

Spec == Init /\ [][Next]_vars

\* Every client that can take its next step takes it.
FairSpec == Spec /\ \A c \in Clients : WF_vars(Step(c))

------------------------------------------------------------------------------
(* Properties.                                                             *)

Revision == [rev : Nat \ {0}, content : SUBSET Clients]

TypeOK ==
    /\ row \in Row \union {NoRow}
    /\ clock \in Nat
    /\ revisions \subseteq Revision
    /\ pc \in [Clients -> {"start", "read", "stamped", "merged", "refused"}]
    /\ snap \in [Clients -> Row]
    /\ stamp \in [Clients -> Nat]

\* A copy with the row's version is a copy of the row: what makes comparing
\* updated_at enough (PutIfVersion).
VersionIdentifies ==
    \A c \in Clients : pc[c] = "read" /\ Present /\ VersionMatches(c) =>
        snap[c].content = row.content

\* No write takes a change out of a row that stays: clients that use
\* PutIfVersion and PatchArtifact never clobber each other (store.go, on
\* PutIfVersion and PatchArtifact).
NoClobber == [][Present /\ Present' => row.content \subseteq row'.content]_vars

\* Seen from such clients the row is merged into atomically.
Merged == INSTANCE AtomicMerge
            WITH value <- row.content,
                 stored <- Present,
                 outcome <- [c \in Clients |-> IF pc[c] \in {"merged", "refused"}
                                               THEN pc[c] ELSE "pending"]
MergedSpec == Merged!Spec

\* Retrying is lock-free: a conflict means another client got through, so all do.
AllAnswered == <>(\A c \in Clients : pc[c] \in {"merged", "refused"})

\* Whatever overwrites or deletes it, an acknowledged change is in the row or in
\* a revision, until Keep newer revisions have pushed it out (the triggers).
Recoverable ==
    \A c \in Clients : pc[c] = "merged" =>
        \/ Present /\ c \in row.content
        \/ \E r \in revisions : c \in r.content
        \/ Cardinality(revisions) >= Keep

\* Revision numbers are distinct and have no gap, across trims, deletes and
\* re-creations: (artifact_id, revision) is the primary key.
RevisionsContiguous ==
    /\ \A r, s \in revisions : r.rev = s.rev => r = s
    /\ \A m, n \in Revs : m .. n \subseteq Revs
==============================================================================
