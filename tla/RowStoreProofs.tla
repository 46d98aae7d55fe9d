--------------------------- MODULE RowStoreProofs ----------------------------
(* Proofs about RowStore, for every set of clients and every history length. *)
EXTENDS RowStore, Integers, FiniteSetTheorems, TLAPS

------------------------------------------------------------------------------
(* Revision numbers.  That the newest revision exists is part of what has  *)
(* to be proved: NextRev and the trims are defined from it.                *)

HasNewest(R) == R = {} \/ \E n \in R : \A m \in R : m <= n

RevInv ==
    /\ revisions \subseteq Revision
    /\ HasNewest(Revs)
    /\ RevisionsContiguous

\* The newest revision is what its definition says.
LEMMA NewestIs ==
    ASSUME RevInv, revisions # {}
    PROVE  Newest \in Revs /\ Newest \in Nat \ {0} /\ \A m \in Revs : m <= Newest
<1>1. Revs # {} /\ Revs \subseteq Nat \ {0}
  BY DEF Revs, RevInv, Revision
<1>2. \E n \in Revs : \A m \in Revs : m <= n
  BY <1>1 DEF RevInv, HasNewest
<1> QED
  BY <1>1, <1>2 DEF Newest

\* The number given to the next revision is above all others, and next to them.
LEMMA NextRevIs ==
    ASSUME RevInv
    PROVE  /\ NextRev \in Nat \ {0}
           /\ \A m \in Revs : m < NextRev
           /\ revisions # {} => NextRev = Newest + 1
<1>1. CASE revisions = {}
  BY <1>1 DEF NextRev, Revs
<1>2. CASE revisions # {}
  <2>1. NextRev = Newest + 1
    BY <1>2 DEF NextRev
  <2>2. Newest \in Nat /\ Revs \subseteq Nat /\ \A m \in Revs : m <= Newest
    BY <1>2, NewestIs DEF RevInv, Revs, Revision
  <2> QED
    BY <2>1, <2>2
<1> QED
  BY <1>1, <1>2

\* A suffix of a history without gaps has none.
Kept(R, low) == {r \in R : low <= r.rev}

LEMMA SuffixContiguous ==
    ASSUME NEW R \in SUBSET Revision, NEW low \in Int,
           \A r, s \in R : r.rev = s.rev => r = s,
           \A m, n \in {r.rev : r \in R} : m .. n \subseteq {r.rev : r \in R}
    PROVE  LET K == Kept(R, low)
           IN  /\ \A r, s \in K : r.rev = s.rev => r = s
               /\ \A m, n \in {r.rev : r \in K} : m .. n \subseteq {r.rev : r \in K}
<1> DEFINE K == Kept(R, low)
<1>1. \A r, s \in K : r.rev = s.rev => r = s
  BY DEF Kept
<1>2. ASSUME NEW m \in {r.rev : r \in K}, NEW n \in {r.rev : r \in K}, NEW i \in m .. n
      PROVE  i \in {r.rev : r \in K}
  <2>1. m \in {r.rev : r \in R} /\ n \in {r.rev : r \in R} /\ m \in Nat /\ n \in Nat /\ low <= m
    BY DEF Kept, Revision
  <2>2. i \in {r.rev : r \in R}
    BY <2>1
  <2>3. PICK r \in R : r.rev = i
    BY <2>2
  <2>4. low <= r.rev
    BY <2>1, <2>3
  <2> QED
    BY <2>3, <2>4 DEF Kept
<1> QED
  BY <1>1, <1>2

\* Recording the old row adds the next number to the history.
LEMMA WithOldContiguous ==
    ASSUME RevInv, row.content \in SUBSET Clients
    PROVE  /\ WithOld \in SUBSET Revision
           /\ \A r, s \in WithOld : r.rev = s.rev => r = s
           /\ \A m, n \in {r.rev : r \in WithOld} : m .. n \subseteq {r.rev : r \in WithOld}
           /\ NextRev \in {r.rev : r \in WithOld}
           /\ \A m \in {r.rev : r \in WithOld} : m <= NextRev
<1> DEFINE new == [rev |-> NextRev, content |-> row.content]
           W == {r.rev : r \in WithOld}
<1>1. NextRev \in Nat \ {0} /\ \A m \in Revs : m < NextRev
  BY NextRevIs
<1>2. new \in Revision /\ new.rev = NextRev /\ WithOld = revisions \union {new}
  BY <1>1 DEF Revision, WithOld
<1>3. WithOld \in SUBSET Revision
  BY <1>2 DEF RevInv
<1>4. \A r \in revisions : r.rev \in Revs /\ r.rev < NextRev /\ r.rev \in Nat
  BY <1>1 DEF Revs, RevInv, Revision
<1>5. \A r, s \in WithOld : r.rev = s.rev => r = s
  BY <1>1, <1>2, <1>4 DEF RevInv, RevisionsContiguous
<1>6. W = Revs \union {NextRev}
  BY <1>2 DEF Revs
<1>7. ASSUME NEW m \in W, NEW n \in W, NEW i \in m .. n
      PROVE  i \in W
  <2>0. Revs \subseteq Nat /\ m \in Nat /\ n \in Nat /\ m <= i /\ i <= n /\ i \in Int
    BY <1>1, <1>6 DEF Revs, RevInv, Revision
  <2>1. CASE n \in Revs
    <3>1. m \in Revs
      BY <1>1, <1>6, <2>0, <2>1
    <3> QED
      BY <1>6, <2>1, <3>1, <1>7 DEF RevInv, RevisionsContiguous
  <2>2. CASE n = NextRev /\ i = NextRev
    BY <1>6, <2>2
  <2>3. CASE n = NextRev /\ i < NextRev
    <3>1. m \in Revs /\ revisions # {}
      BY <1>6, <2>0, <2>3 DEF Revs
    <3>2. Newest \in Revs /\ NextRev = Newest + 1 /\ Newest \in Nat
      BY <3>1, NewestIs, NextRevIs
    <3>3. i \in m .. Newest
      BY <2>0, <2>3, <3>2
    <3> QED
      BY <1>6, <3>1, <3>2, <3>3 DEF RevInv, RevisionsContiguous
  <2> QED
    BY <1>1, <1>6, <2>0, <2>1, <2>2, <2>3
<1>8. NextRev \in W /\ \A m \in W : m <= NextRev
  BY <1>1, <1>6 DEF Revs, RevInv, Revision
<1> QED
  BY <1>3, <1>5, <1>7, <1>8

\* Trimming a history without gaps, newest number given, leaves its newest part.
LEMMA TrimmedContiguous ==
    ASSUME NEW R \in SUBSET Revision, NEW newest \in Nat,
           newest \in {r.rev : r \in R}, \A m \in {r.rev : r \in R} : m <= newest,
           \A r, s \in R : r.rev = s.rev => r = s,
           \A m, n \in {r.rev : r \in R} : m .. n \subseteq {r.rev : r \in R},
           NEW keep \in Nat
    PROVE  LET K == {r \in R : newest < r.rev + keep}
           IN  /\ K \in SUBSET Revision
               /\ HasNewest({r.rev : r \in K})
               /\ \A r, s \in K : r.rev = s.rev => r = s
               /\ \A m, n \in {r.rev : r \in K} : m .. n \subseteq {r.rev : r \in K}
<1> DEFINE K == {r \in R : newest < r.rev + keep}
           low == newest - keep + 1
<1>1. low \in Int /\ \A r \in R : r.rev \in Nat /\ (newest < r.rev + keep <=> low <= r.rev)
  BY DEF Revision
<1>2. K = Kept(R, low)
  BY <1>1 DEF Kept
<1>3. /\ \A r, s \in K : r.rev = s.rev => r = s
      /\ \A m, n \in {r.rev : r \in K} : m .. n \subseteq {r.rev : r \in K}
  BY <1>1, <1>2, SuffixContiguous
<1>4. HasNewest({r.rev : r \in K})
  <2>1. CASE keep = 0
    <3>1. \A r \in R : r.rev \in Nat /\ r.rev <= newest
      BY DEF Revision
    <3>2. K = {}
      BY <2>1, <3>1
    <3> QED
      BY <3>2 DEF HasNewest
  <2>2. CASE keep # 0
    <3>1. PICK r \in R : r.rev = newest
      OBVIOUS
    <3>2. r \in K
      BY <2>2, <3>1
    <3>3. newest \in {q.rev : q \in K}
      BY <3>1, <3>2
    <3>4. \A m \in {q.rev : q \in K} : m <= newest
      OBVIOUS
    <3> QED
      BY <3>3, <3>4 DEF HasNewest
  <2> QED
    BY <2>1, <2>2
<1>5. K \in SUBSET Revision
  OBVIOUS
<1> QED
  BY <1>3, <1>4, <1>5

------------------------------------------------------------------------------
(* Types and revisions.                                                    *)

RowInv ==
    /\ row \in Row \union {NoRow}
    /\ clock \in Nat
    /\ pc \in [Clients -> {"start", "read", "stamped", "merged", "refused"}]
    /\ snap \in [Clients -> Row]
    /\ stamp \in [Clients -> Nat]

\* The trigger on update keeps the history in order.
LEMMA RecordUpdateKeeps ==
    ASSUME RevInv, row \in Row \union {NoRow}, NEW new \in SUBSET Clients, RecordUpdate(new)
    PROVE  RevInv'
<1>1. CASE Present /\ row.content # new
  <2>1. row.content \in SUBSET Clients
    BY <1>1 DEF Present, Row
  <2>2. revisions' = {r \in WithOld : NextRev < r.rev + Keep}
    BY <1>1 DEF RecordUpdate, Trimmed
  <2>3. NextRev \in Nat
    BY NextRevIs
  <2>4. Keep \in Nat
    BY RowStoreAssumption
  <2> HIDE DEF WithOld
  <2>5. LET K == {r \in WithOld : NextRev < r.rev + Keep}
        IN  /\ K \in SUBSET Revision
            /\ HasNewest({r.rev : r \in K})
            /\ \A r, s \in K : r.rev = s.rev => r = s
            /\ \A m, n \in {r.rev : r \in K} : m .. n \subseteq {r.rev : r \in K}
    BY <2>1, <2>3, <2>4, WithOldContiguous, TrimmedContiguous
  <2> QED
    BY <2>2, <2>5 DEF RevInv, Revs, RevisionsContiguous
<1>2. CASE ~(Present /\ row.content # new)
  BY <1>2 DEF RecordUpdate, RevInv, Revs, RevisionsContiguous
<1> QED
  BY <1>1, <1>2

\* Every reading of the clock is a number.
LEMMA TickType == ASSUME clock \in Nat PROVE \A now \in Tick : now \in Nat /\ clock <= now
  BY DEF Tick

\* A step of a client keeps the types and the history.
LEMMA StepKeeps ==
    ASSUME RowInv, RevInv, NEW c \in Clients, Step(c)
    PROVE  RowInv' /\ RevInv'
<1> USE DEF Move
<1>0. ASSUME UNCHANGED revisions PROVE RevInv'
  BY <1>0 DEF RevInv, Revs, RevisionsContiguous
<1>1. CASE Get(c)
  BY <1>1, <1>0 DEF Get, RowInv, Present
<1>2. CASE TakeStamp(c)
  BY <1>2, <1>0, TickType DEF TakeStamp, RowInv
<1>3. CASE Put(c)
  <2> DEFINE new == snap[c].content \union {c}
  <2>1. new \in SUBSET Clients /\ stamp[c] \in Nat
    BY DEF RowInv, Row
  <2>2. RecordUpdate(new) /\ row' = [content |-> new, ver |-> stamp[c]]
    BY <1>3 DEF Put
  <2>3. RevInv'
    BY <2>1, <2>2, RecordUpdateKeeps DEF RowInv
  <2>4. RowInv'
    BY <1>3, <2>1, <2>2 DEF Put, RowInv, Row
  <2> QED
    BY <2>3, <2>4
<1>4. CASE PutIfVersion(c)
  <2> DEFINE new == snap[c].content \union {c}
  <2>1. new \in SUBSET Clients
    BY DEF RowInv, Row
  <2>2. PICK now \in Tick : clock' = now /\ row' = [content |-> new, ver |-> now]
    BY <1>4 DEF PutIfVersion
  <2>3. RevInv'
    BY <1>4, <2>1, RecordUpdateKeeps DEF PutIfVersion, RowInv
  <2>4. RowInv'
    BY <1>4, <2>1, <2>2, TickType DEF PutIfVersion, RowInv, Row
  <2> QED
    BY <2>3, <2>4
<1>5. CASE Conflict(c)
  BY <1>5, <1>0 DEF Conflict, AfterConflict, RowInv
<1>6. CASE PatchArtifact(c) /\ Present
  <2> DEFINE new == row.content \union {c}
  <2>1. new \in SUBSET Clients
    BY <1>6 DEF RowInv, Row, Present
  <2>2. PICK now \in Tick : clock' = now /\ row' = [content |-> new, ver |-> now]
    BY <1>6 DEF PatchArtifact
  <2>3. RevInv'
    BY <1>6, <2>1, RecordUpdateKeeps DEF PatchArtifact, RowInv
  <2>4. RowInv'
    BY <1>6, <2>1, <2>2, TickType DEF PatchArtifact, RowInv, Row
  <2> QED
    BY <2>3, <2>4
<1>7. CASE PatchArtifact(c) /\ ~Present
  BY <1>7, <1>0 DEF PatchArtifact, RowInv
<1> QED
  BY <1>1, <1>2, <1>3, <1>4, <1>5, <1>6, <1>7 DEF Step

\* The delete trigger adds the row to the history.
LEMMA DeleteKeeps ==
    ASSUME RowInv, RevInv, Delete
    PROVE  RowInv' /\ RevInv'
<1>1. RowInv'
  BY DEF Delete, RowInv
<1>2. row.content \in SUBSET Clients /\ revisions' = WithOld
  BY DEF Delete, Present, RowInv, Row
<1>3. RevInv'
  <2>1. Revs' = {r.rev : r \in WithOld}
    BY <1>2 DEF Revs
  <2> HIDE DEF WithOld
  <2> QED
    BY <1>2, <2>1, WithOldContiguous DEF RevInv, RevisionsContiguous, HasNewest
<1> QED
  BY <1>1, <1>3

\* Pruning keeps the newest part of the history.
LEMMA PruneKeeps ==
    ASSUME RowInv, RevInv, NEW n \in PruneTo, PruneRevisions(n)
    PROVE  RowInv' /\ RevInv'
<1>1. RowInv'
  BY DEF PruneRevisions, RowInv
<1>2. /\ revisions # {} /\ revisions' = {r \in revisions : Newest < r.rev + n}
      /\ n \in Nat
  BY RowStoreAssumption DEF PruneRevisions
<1>3. Newest \in {r.rev : r \in revisions} /\ Newest \in Nat
      /\ \A m \in {r.rev : r \in revisions} : m <= Newest
  BY <1>2, NewestIs DEF Revs
<1>4. /\ \A r, s \in revisions : r.rev = s.rev => r = s
      /\ \A l, m \in {r.rev : r \in revisions} : l .. m \subseteq {r.rev : r \in revisions}
      /\ revisions \in SUBSET Revision
  BY DEF RevInv, RevisionsContiguous, Revs
<1>5. LET K == {r \in revisions : Newest < r.rev + n}
      IN  /\ K \in SUBSET Revision
          /\ HasNewest({r.rev : r \in K})
          /\ \A r, s \in K : r.rev = s.rev => r = s
          /\ \A l, m \in {r.rev : r \in K} : l .. m \subseteq {r.rev : r \in K}
  BY <1>2, <1>3, <1>4, TrimmedContiguous
<1>6. RevInv'
  BY <1>2, <1>5 DEF RevInv, Revs, RevisionsContiguous
<1> QED
  BY <1>1, <1>6

LEMMA RowInvHolds == Spec => [](RowInv /\ RevInv)
<1>1. Init => RowInv /\ RevInv
  BY DEF Init, RowInv, RevInv, Row, Revs, HasNewest, RevisionsContiguous
<1>2. RowInv /\ RevInv /\ [Next]_vars => RowInv' /\ RevInv'
  <2> SUFFICES ASSUME RowInv, RevInv, [Next]_vars PROVE RowInv' /\ RevInv'
    OBVIOUS
  <2>1. CASE Next
    BY <2>1, StepKeeps, DeleteKeeps, PruneKeeps DEF Next
  <2>2. CASE UNCHANGED vars
    BY <2>2 DEF vars, RowInv, RevInv, Revs, RevisionsContiguous
  <2> QED
    BY <2>1, <2>2
<1> QED
  BY <1>1, <1>2, PTL DEF Spec

\* Rows, versions, copies and revisions keep their shape: in particular every
\* revision number is at least one (TypeOK).
THEOREM TypeCorrect == Spec => []TypeOK
<1>1. RowInv /\ RevInv => TypeOK
  BY DEF RowInv, RevInv, TypeOK
<1> QED
  BY <1>1, RowInvHolds, PTL

\* For every limit, every pruning and every sequence of writes, deletes and
\* re-creations, revision numbers are distinct and without gaps (the triggers).
THEOREM RevisionsInOrder == Spec => []RevisionsContiguous
<1>1. RevInv => RevisionsContiguous
  BY DEF RevInv
<1> QED
  BY <1>1, RowInvHolds, PTL

------------------------------------------------------------------------------
(* Clients that use PutIfVersion and PatchArtifact, and a clock that gives *)
(* no two equal readings.                                                  *)

Versioned == StrictClock /\ \A c \in Clients : Method[c] \in {"version", "patch"}

\* VersionIdentifies is not inductive: no version may be ahead of the clock, or a
\* later write could reuse the version of an older copy.
VersionInv ==
    /\ Present => row.ver <= clock
    /\ \A c \in Clients : snap[c].ver <= clock
    /\ \A c \in Clients : pc[c] # "stamped"
    /\ VersionIdentifies

LEMMA VersionStep ==
    ASSUME Versioned, RowInv, VersionInv, [Next]_vars
    PROVE  VersionInv'
<1> USE DEF Move
<1>0. Tick = {clock + 1}
  BY DEF Versioned, Tick
<1>1. ASSUME NEW c \in Clients, Get(c)
      PROVE  VersionInv'
  BY <1>1 DEF Get, VersionInv, VersionIdentifies, VersionMatches, Present, RowInv
<1>2. ASSUME NEW c \in Clients, TakeStamp(c) \/ Put(c)
      PROVE  FALSE
  BY <1>2 DEF TakeStamp, Put, Versioned, VersionInv
<1>3. ASSUME NEW new, row' = [content |-> new, ver |-> clock + 1], clock' = clock + 1,
             UNCHANGED snap, NEW c \in Clients, pc' = [pc EXCEPT ![c] = "merged"]
      PROVE  VersionInv'
  <2>1. \A d \in Clients : snap[d].ver \in Nat /\ snap[d].ver <= clock
    BY DEF RowInv, Row, VersionInv
  <2>2. clock \in Nat /\ row'.ver = clock + 1
    BY <1>3 DEF RowInv
  <2>3. \A d \in Clients : ~VersionMatches(d)'
    BY <1>3, <2>1, <2>2 DEF VersionMatches
  <2> QED
    BY <1>3, <2>1, <2>2, <2>3 DEF VersionInv, VersionIdentifies, RowInv
<1>4. ASSUME NEW c \in Clients, PutIfVersion(c)
      PROVE  VersionInv'
  BY <1>4, <1>0, <1>3 DEF PutIfVersion
<1>5. ASSUME NEW c \in Clients, Conflict(c)
      PROVE  VersionInv'
  BY <1>5 DEF Conflict, AfterConflict, VersionInv, VersionIdentifies, VersionMatches, Present, RowInv
<1>6. ASSUME NEW c \in Clients, PatchArtifact(c)
      PROVE  VersionInv'
  <2>1. CASE Present
    BY <1>6, <2>1, <1>0, <1>3 DEF PatchArtifact
  <2>2. CASE ~Present
    BY <1>6, <2>2 DEF PatchArtifact, VersionInv, VersionIdentifies, VersionMatches, Present, RowInv
  <2> QED
    BY <2>1, <2>2
<1>7. CASE Delete
  BY <1>7 DEF Delete, VersionInv, VersionIdentifies, VersionMatches, Present
<1>8. ASSUME NEW n \in PruneTo, PruneRevisions(n)
      PROVE  VersionInv'
  BY <1>8 DEF PruneRevisions, VersionInv, VersionIdentifies, VersionMatches, Present
<1>9. CASE UNCHANGED vars
  BY <1>9 DEF vars, VersionInv, VersionIdentifies, VersionMatches, Present
<1> QED
  BY <1>1, <1>2, <1>4, <1>5, <1>6, <1>7, <1>8, <1>9 DEF Next, Step

LEMMA VersionInvHolds == ASSUME Versioned PROVE Spec => [](RowInv /\ VersionInv)
<1>1. Init => VersionInv
  BY DEF Init, VersionInv, VersionIdentifies, VersionMatches, Present
<1>2. RowInv /\ VersionInv /\ [Next]_vars => VersionInv'
  BY VersionStep
<1> QED
  BY <1>1, <1>2, RowInvHolds, PTL DEF Spec

\* A copy with the row's version is a copy of the row, for any number of clients
\* and retries: comparing updated_at is enough (PutIfVersion).
THEOREM VersionsIdentify == ASSUME Versioned PROVE Spec => []VersionIdentifies
<1>1. VersionInv => VersionIdentifies
  BY DEF VersionInv
<1> QED
  BY <1>1, VersionInvHolds, PTL

\* Such clients never take a change out of a row that stays (PutIfVersion).
THEOREM NothingClobbered == ASSUME Versioned PROVE Spec => NoClobber
<1>1. RowInv /\ VersionInv /\ [Next]_vars
          => [Present /\ Present' => row.content \subseteq row'.content]_vars
  <2> SUFFICES ASSUME RowInv, VersionInv, Next, Present, Present'
               PROVE  row.content \subseteq row'.content
    OBVIOUS
  <2>1. ASSUME NEW c \in Clients, Step(c)
        PROVE  row.content \subseteq row'.content
    <3>1. CASE PutIfVersion(c)
      BY <3>1 DEF PutIfVersion, VersionInv, VersionIdentifies
    <3>2. CASE PatchArtifact(c)
      BY <3>2 DEF PatchArtifact
    <3>3. CASE Get(c) \/ Conflict(c) \/ TakeStamp(c)
      BY <3>3 DEF Get, Conflict, TakeStamp
    <3>4. CASE Put(c)
      BY <3>4 DEF Put, VersionInv
    <3> QED
      BY <2>1, <3>1, <3>2, <3>3, <3>4 DEF Step
  <2>2. CASE Delete
    BY <2>2 DEF Delete, Present
  <2>3. ASSUME NEW n \in PruneTo, PruneRevisions(n)
        PROVE  row.content \subseteq row'.content
    BY <2>3 DEF PruneRevisions
  <2> QED
    BY <2>1, <2>2, <2>3 DEF Next
<1> QED
  BY <1>1, VersionInvHolds, PTL DEF Spec, NoClobber

\* A row is not the absence of one.
LEMMA RowIsPresent ==
    ASSUME NEW S, NEW v
    PROVE  [content |-> S, ver |-> v] # NoRow
<1>1. "gone" \in DOMAIN NoRow /\ "gone" \notin DOMAIN [content |-> S, ver |-> v]
  BY DEF NoRow
<1> QED
  BY <1>1

\* Seen from such clients every change is merged in one step, and refused only
\* when the row is gone (AtomicMerge).
THEOREM RowMerges == ASSUME Versioned PROVE Spec => MergedSpec
<1> DEFINE outcomeOf == [c \in Clients |-> IF pc[c] \in {"merged", "refused"} THEN pc[c] ELSE "pending"]
<1>1. Init => Merged!Init
  <2> SUFFICES ASSUME Init PROVE Merged!Init
    OBVIOUS
  <2>1. Present
    BY RowIsPresent DEF Init, Present
  <2>2. outcomeOf = [c \in Clients |-> "pending"] /\ row.content = {}
    BY DEF Init
  <2> QED
    BY <2>1, <2>2 DEF Merged!Init
<1>2. RowInv /\ VersionInv /\ [Next]_vars => [Merged!Next]_<<row.content, Present, outcomeOf>>
  <2> SUFFICES ASSUME RowInv, VersionInv, [Next]_vars
               PROVE  Merged!Next \/ UNCHANGED <<row.content, Present, outcomeOf>>
    OBVIOUS
  <2> USE DEF Move
  <2>1. ASSUME NEW c \in Clients, Get(c)
        PROVE  Merged!Refuse(c) \/ UNCHANGED <<row.content, Present, outcomeOf>>
    BY <2>1 DEF Get, RowInv, Merged!Refuse, Present
  <2>2. ASSUME NEW c \in Clients, Conflict(c)
        PROVE  Merged!Refuse(c) \/ UNCHANGED <<row.content, Present, outcomeOf>>
    BY <2>2 DEF Conflict, AfterConflict, RowInv, Merged!Refuse, Present
  <2>3. ASSUME NEW c \in Clients, PutIfVersion(c)
        PROVE  Merged!Merge(c)
    <3>1. Present /\ outcomeOf[c] = "pending" /\ row.content = snap[c].content
      BY <2>3 DEF PutIfVersion, VersionInv, VersionIdentifies
    <3>2. row'.content = row.content \union {c} /\ Present'
      BY <2>3, <3>1, RowIsPresent DEF PutIfVersion, Present
    <3>3. outcomeOf' = [outcomeOf EXCEPT ![c] = "merged"]
      BY <2>3 DEF PutIfVersion, RowInv
    <3> QED
      BY <3>1, <3>2, <3>3 DEF Merged!Merge
  <2>4. ASSUME NEW c \in Clients, PatchArtifact(c)
        PROVE  Merged!Merge(c) \/ Merged!Refuse(c)
    <3>1. outcomeOf[c] = "pending"
      BY <2>4 DEF PatchArtifact
    <3>2. CASE Present
      <4>1. row'.content = row.content \union {c} /\ Present'
        BY <2>4, <3>2, RowIsPresent DEF PatchArtifact, Present
      <4>2. outcomeOf' = [outcomeOf EXCEPT ![c] = "merged"]
        BY <2>4, <3>2 DEF PatchArtifact, RowInv
      <4> QED
        BY <3>1, <3>2, <4>1, <4>2 DEF Merged!Merge
    <3>3. CASE ~Present
      <4>1. row' = row /\ ~Present'
        BY <2>4, <3>3 DEF PatchArtifact, Present
      <4>2. outcomeOf' = [outcomeOf EXCEPT ![c] = "refused"]
        BY <2>4, <3>3 DEF PatchArtifact, RowInv
      <4>3. UNCHANGED <<row.content, Present>>
        BY <4>1 DEF Present
      <4> QED
        BY <3>1, <3>3, <4>2, <4>3 DEF Merged!Refuse
    <3> QED
      BY <3>2, <3>3
  <2>5. CASE Delete
    BY <2>5 DEF Delete, Merged!Remove, Present, NoRow, Merged!Next
  <2>6. ASSUME NEW n \in PruneTo, PruneRevisions(n)
        PROVE  UNCHANGED <<row.content, Present, outcomeOf>>
    BY <2>6 DEF PruneRevisions, Present
  <2>7. CASE UNCHANGED vars
    BY <2>7 DEF vars, Present
  <2>8. ASSUME NEW c \in Clients, TakeStamp(c) \/ Put(c)
        PROVE  FALSE
    BY <2>8 DEF TakeStamp, Put, Versioned, VersionInv
  <2> QED
    BY <2>1, <2>2, <2>3, <2>4, <2>5, <2>6, <2>7, <2>8 DEF Next, Step, Merged!Next
<1> QED
  BY <1>1, <1>2, VersionInvHolds, PTL DEF Spec, MergedSpec, Merged!Spec

------------------------------------------------------------------------------
(* What the triggers keep.  "Keep revisions are there" is not inductive by *)
(* itself: a trim counts from the newest number down, so what stays true   *)
(* is that the Keep newest numbers are all there.                          *)

\* Nobody prunes below what the trigger keeps.
Patient == \A n \in PruneTo : Keep <= n

Numbers(R) == {r.rev : r \in R}
FullTop(R) == \E n \in Numbers(R) : (n - Keep + 1) .. n \subseteq Numbers(R)

KeptInv ==
    /\ IsFiniteSet(revisions)
    /\ \A c \in Clients : pc[c] = "merged" =>
           \/ Present /\ c \in row.content
           \/ \E r \in revisions : c \in r.content
           \/ FullTop(revisions)

\* A cut that takes anything away leaves the Keep newest numbers.
LEMMA CutLeavesFull ==
    ASSUME NEW R \in SUBSET Revision, NEW newest \in Nat,
           newest \in {r.rev : r \in R},
           \A m, n \in {r.rev : r \in R} : m .. n \subseteq {r.rev : r \in R},
           NEW keep \in Nat, Keep <= keep, NEW K, K = {r \in R : newest < r.rev + keep}
    PROVE  K = R \/ FullTop(K)
<1> SUFFICES ASSUME K # R PROVE FullTop(K)
  OBVIOUS
<1>1. PICK old \in R : ~(newest < old.rev + keep)
  OBVIOUS
<1>2. old.rev \in Nat /\ old.rev + keep <= newest /\ Keep \in Nat /\ Keep >= 1
  BY <1>1, RowStoreAssumption DEF Revision
<1>3. ASSUME NEW i \in (newest - Keep + 1) .. newest
      PROVE  i \in {r.rev : r \in K}
  <2>1. i \in Int /\ old.rev <= i /\ i <= newest /\ newest < i + keep
    BY <1>2
  <2>2. old.rev \in {r.rev : r \in R} /\ i \in old.rev .. newest
    BY <2>1, <1>2
  <2>3. i \in {r.rev : r \in R}
    BY <2>2
  <2>4. PICK r \in R : r.rev = i
    BY <2>3
  <2> QED
    BY <2>1, <2>4
<1>4. newest \in (newest - Keep + 1) .. newest
  BY <1>2
<1>5. newest \in {r.rev : r \in K}
  BY <1>3, <1>4
<1> QED
  BY <1>3, <1>5 DEF FullTop, Numbers

\* Numbers are only added to: the Keep newest of before are still there.
LEMMA FullGrows ==
    ASSUME NEW R, NEW S, R \subseteq S, FullTop(R)
    PROVE  FullTop(S)
  BY DEF FullTop, Numbers

\* The Keep newest numbers are Keep revisions.
LEMMA FullIsKeep ==
    ASSUME RevInv, IsFiniteSet(revisions), FullTop(revisions)
    PROVE  Cardinality(revisions) >= Keep
<1>1. Keep \in Nat /\ Keep >= 1
  BY RowStoreAssumption
<1>2. PICK n \in Revs : (n - Keep + 1) .. n \subseteq Revs
  BY DEF FullTop, Numbers, Revs
<1>3. n \in Nat
  BY DEF Revs, RevInv, Revision
<1> DEFINE numberOf == [r \in revisions |-> r.rev]
<1>4. numberOf \in Surjection(revisions, Revs)
  BY DEF Surjection, Revs
<1> HIDE DEF numberOf
<1>5. IsFiniteSet(Revs) /\ Cardinality(Revs) <= Cardinality(revisions)
  BY <1>4, FS_Surjection
<1>6. Cardinality((n - Keep + 1) .. n) = Keep
  <2>1. n - Keep + 1 \in Int /\ n \in Int /\ ~(n - Keep + 1 > n) /\ n - (n - Keep + 1) + 1 = Keep
    BY <1>1, <1>3
  <2> QED
    BY <2>1, FS_Interval
<1>7. Cardinality((n - Keep + 1) .. n) <= Cardinality(Revs)
  BY <1>2, <1>5, FS_Subset
<1>8. Cardinality(Revs) \in Nat /\ Cardinality(revisions) \in Nat
  BY <1>5, FS_CardinalityType
<1> QED
  BY <1>1, <1>5, <1>6, <1>7, <1>8

\* The old row and the old revisions are in the new ones, or a full history is.
LEMMA UpdateRecords ==
    ASSUME RowInv, RevInv, KeptInv, NEW new \in SUBSET Clients, RecordUpdate(new)
    PROVE  /\ IsFiniteSet(revisions')
           /\ \/ FullTop(revisions')
              \/ /\ revisions \subseteq revisions'
                 /\ Present => \/ row.content = new
                               \/ \E r \in revisions' : r.content = row.content
           /\ FullTop(revisions) => FullTop(revisions')
<1>1. CASE Present /\ row.content # new
  <2> DEFINE old == [rev |-> NextRev, content |-> row.content]
  <2>1. row.content \in SUBSET Clients
    BY <1>1 DEF RowInv, Present, Row
  <2>2. WithOld = revisions \union {old} /\ old.content = row.content
    BY DEF WithOld
  <2>3. revisions' = {r \in WithOld : NextRev < r.rev + Keep}
    BY <1>1 DEF RecordUpdate, Trimmed
  <2>4. NextRev \in Nat /\ Keep \in Nat /\ Keep <= Keep
    BY NextRevIs, RowStoreAssumption
  <2>5. IsFiniteSet(WithOld)
    BY <2>2, FS_AddElement DEF KeptInv
  <2>6. IsFiniteSet(revisions')
    BY <2>3, <2>5, FS_Subset
  <2>7. revisions' = WithOld \/ FullTop(revisions')
    <3> HIDE DEF WithOld, old
    <3> QED
      BY <2>1, <2>3, <2>4, WithOldContiguous, CutLeavesFull
  <2>8. ASSUME FullTop(revisions), revisions' = WithOld
        PROVE  FullTop(revisions')
    BY <2>2, <2>8, FullGrows
  <2> QED
    BY <2>2, <2>6, <2>7, <2>8
<1>2. CASE ~(Present /\ row.content # new)
  <2>1. revisions' = revisions
    BY <1>2 DEF RecordUpdate
  <2> QED
    BY <1>2, <2>1 DEF KeptInv
<1> QED
  BY <1>1, <1>2

\* A client's write keeps what was acknowledged, and its own change.
LEMMA WriteKeepsAll ==
    ASSUME RowInv, RevInv, KeptInv, NEW c \in Clients, NEW new \in SUBSET Clients, c \in new,
           RecordUpdate(new), NEW v, row' = [content |-> new, ver |-> v],
           pc' = [pc EXCEPT ![c] = "merged"]
    PROVE  KeptInv'
<1>1. Present' /\ row'.content = new
  BY RowIsPresent DEF Present
<1>2. ASSUME NEW d \in Clients, pc'[d] = "merged"
      PROVE  \/ Present' /\ d \in row'.content
             \/ \E r \in revisions' : d \in r.content
             \/ FullTop(revisions')
  <2>1. CASE d = c
    BY <1>1, <2>1
  <2>2. CASE d # c
    <3>1. pc[d] = "merged"
      BY <1>2, <2>2 DEF RowInv
    <3> QED
      BY <1>1, <3>1, UpdateRecords DEF KeptInv
  <2> QED
    BY <2>1, <2>2
<1> QED
  BY <1>2, UpdateRecords DEF KeptInv

LEMMA KeptStep ==
    ASSUME Patient, RowInv, RevInv, KeptInv, [Next]_vars
    PROVE  KeptInv'
<1> USE DEF Move
<1>0. ASSUME UNCHANGED <<row, revisions>>, \A d \in Clients : pc'[d] = "merged" => pc[d] = "merged"
      PROVE  KeptInv'
  BY <1>0 DEF KeptInv, Present
<1>1. ASSUME NEW c \in Clients, Get(c)
      PROVE  KeptInv'
  BY <1>0, <1>1 DEF Get, RowInv
<1>2. ASSUME NEW c \in Clients, TakeStamp(c)
      PROVE  KeptInv'
  BY <1>0, <1>2 DEF TakeStamp, RowInv
<1>3. ASSUME NEW c \in Clients, Put(c)
      PROVE  KeptInv'
  <2>1. snap[c].content \union {c} \in SUBSET Clients
    BY DEF RowInv, Row
  <2> QED
    BY <1>3, <2>1, WriteKeepsAll DEF Put
<1>4. ASSUME NEW c \in Clients, PutIfVersion(c)
      PROVE  KeptInv'
  <2>1. snap[c].content \union {c} \in SUBSET Clients
    BY DEF RowInv, Row
  <2> QED
    BY <1>4, <2>1, WriteKeepsAll DEF PutIfVersion
<1>5. ASSUME NEW c \in Clients, Conflict(c)
      PROVE  KeptInv'
  BY <1>0, <1>5 DEF Conflict, AfterConflict, RowInv
<1>6. ASSUME NEW c \in Clients, PatchArtifact(c)
      PROVE  KeptInv'
  <2>1. CASE Present
    <3>1. row.content \union {c} \in SUBSET Clients
      BY <2>1 DEF RowInv, Row, Present
    <3> QED
      BY <1>6, <2>1, <3>1, WriteKeepsAll DEF PatchArtifact
  <2>2. CASE ~Present
    BY <1>0, <1>6, <2>2 DEF PatchArtifact, RowInv
  <2> QED
    BY <2>1, <2>2
<1>7. CASE Delete
  <2> DEFINE old == [rev |-> NextRev, content |-> row.content]
  <2>1. revisions' = revisions \union {old} /\ old.content = row.content /\ pc' = pc
    BY <1>7 DEF Delete, WithOld
  <2>2. IsFiniteSet(revisions')
    BY <2>1, FS_AddElement DEF KeptInv
  <2>4. FullTop(revisions) => FullTop(revisions')
    BY <2>1, FullGrows
  <2>5. old \in revisions'
    BY <2>1
  <2> HIDE DEF old
  <2> QED
    BY <2>1, <2>2, <2>4, <2>5 DEF KeptInv
<1>8. ASSUME NEW n \in PruneTo, PruneRevisions(n)
      PROVE  KeptInv'
  <2>1. /\ revisions # {} /\ revisions' = {r \in revisions : Newest < r.rev + n}
        /\ n \in Nat /\ Keep <= n /\ row' = row /\ pc' = pc
    BY <1>8, RowStoreAssumption DEF PruneRevisions, Patient
  <2>2. Newest \in {r.rev : r \in revisions} /\ Newest \in Nat
    BY <2>1, NewestIs DEF Revs
  <2>3. /\ revisions \in SUBSET Revision
        /\ \A l, m \in {r.rev : r \in revisions} : l .. m \subseteq {r.rev : r \in revisions}
    BY DEF RevInv, RevisionsContiguous, Revs
  <2>4. revisions' = revisions \/ FullTop(revisions')
    BY <2>1, <2>2, <2>3, CutLeavesFull
  <2>5. IsFiniteSet(revisions')
    BY <2>1, FS_Subset DEF KeptInv
  <2>6. CASE revisions' = revisions
    BY <1>0, <2>1, <2>6
  <2>7. CASE FullTop(revisions')
    BY <2>5, <2>7 DEF KeptInv
  <2> QED
    BY <2>4, <2>6, <2>7
<1>9. CASE UNCHANGED vars
  BY <1>0, <1>9 DEF vars
<1> QED
  BY <1>1, <1>2, <1>3, <1>4, <1>5, <1>6, <1>7, <1>8, <1>9 DEF Next, Step

\* Whatever overwrites or deletes the row, in whatever order and by whichever
\* write, an acknowledged change is in it or in a revision until Keep newer ones
\* have pushed it out, for every Keep (the triggers of schema_evolve.go).
THEOREM NothingLostUnseen == ASSUME Patient PROVE Spec => []Recoverable
<1>1. Init => KeptInv
  BY FS_EmptySet DEF Init, KeptInv
<1>2. RowInv /\ RevInv /\ KeptInv /\ [Next]_vars => KeptInv'
  BY KeptStep
<1>3. RevInv /\ KeptInv => Recoverable
  BY FullIsKeep DEF KeptInv, Recoverable
<1> QED
  BY <1>1, <1>2, <1>3, RowInvHolds, PTL DEF Spec
================================================================================
