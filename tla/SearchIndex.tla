----------------------------- MODULE SearchIndex -----------------------------
(***************************************************************************)
(* The full-text index beside the artifacts table.  It is an FTS5 table    *)
(* with external content: it stores no text, so an entry is taken out only *)
(* by naming the very tokens that were put in.  Each write of a row        *)
(* therefore brings the tokens of the row as it was (what the code         *)
(* believes it was) and as it is.  Opening the store rebuilds the index.   *)
(*                                                                         *)
(* An artifact is indexed by its id, its title and one section; a title or *)
(* a section text is one word.  Doubled entries count once.                *)
(***************************************************************************)
EXTENDS Naturals

CONSTANTS
    Ids, Words,
    NoWord,     \* the section is absent
    Clients,
    Writes,     \* the writes in use, a subset of AllWrites
    MaxRowid    \* bound: no row is inserted at a rowid above this

AllWrites == {"put", "bulk", "append", "replace", "delete", "rename"}

ASSUME SearchAssumption ==
    NoWord \notin Words /\ Writes \subseteq AllWrites /\ MaxRowid \in Nat

Docs == [title : Words, section : Words \union {NoWord}]
NoDoc == [title |-> NoWord, section |-> NoWord]

VARIABLES
    doc,        \* [Ids -> the stored artifact, or NoDoc]
    rowid,      \* [Ids -> its rowid, 0 when there is none]
    index,      \* the entries: <<rowid, token>>
    deleting    \* [Clients -> what a Delete in progress read, or NotDeleting]

vars == <<doc, rowid, index, deleting>>

NotDeleting == [id |-> NoWord]

Stored(x) == rowid[x] # 0
Idle(c) == deleting[c] = NotDeleting

\* (mutant) the first rowid, in use or not
FreshRowidFirst == 1

\* A table without AUTOINCREMENT gives the largest rowid in use, plus one.
FreshRowid == CHOOSE n \in 1 .. MaxRowid + 1 :
                 /\ \A x \in Ids : rowid[x] < n
                 /\ n = 1 \/ \E x \in Ids : rowid[x] = n - 1

Content(d) == {d.title, d.section} \ {NoWord}
Entries(r, x, d) == {r} \X ({x} \union Content(d))

\* The index a rebuild from the table gives.
Rebuilt == UNION {Entries(rowid[x], x, doc[x]) : x \in {y \in Ids : Stored(y)}}

Init ==
    /\ doc = [x \in Ids |-> NoDoc]
    /\ rowid = [x \in Ids |-> 0]
    /\ index = {}
    /\ deleting = [c \in Clients |-> NotDeleting]

------------------------------------------------------------------------------
\* (mutant) the new tokens go in before the old ones come out
SyncedLate(r, x, old, new) ==
    (index \union Entries(r, x, new)) \ (IF old = NoDoc THEN {} ELSE Entries(r, x, old))

\* (mutant) the old tokens stay
SyncedInsertOnly(r, x, old, new) == index \union Entries(r, x, new)

\* syncFTSInTx: out with the tokens of `old`, if there is one, in with those of `new`.
Synced(r, x, old, new) ==
    (index \ (IF old = NoDoc THEN {} ELSE Entries(r, x, old))) \union Entries(r, x, new)

Write(x, old, new) ==
    LET r == IF Stored(x) THEN rowid[x] ELSE FreshRowid
    IN  /\ r <= MaxRowid
        /\ doc' = [doc EXCEPT ![x] = new]
        /\ rowid' = [rowid EXCEPT ![x] = r]
        /\ index' = Synced(r, x, old, new)
        /\ UNCHANGED deleting

\* Put and PutIfVersion read the old row inside the transaction.
Put(c, x, d) == "put" \in Writes /\ Idle(c) /\ Write(x, doc[x], d)

\* BulkPut passes no old row, whether or not there is one.
BulkPut(c, x, d) == "bulk" \in Writes /\ Idle(c) /\ Write(x, NoDoc, d)

\* PatchArtifact adding a section: its copy of the old row is still right.
AppendSection(c, x, w) ==
    /\ "append" \in Writes
    /\ Idle(c)
    /\ Stored(x)
    /\ doc[x].section = NoWord
    /\ Write(x, doc[x], [doc[x] EXCEPT !.section = w])

\* PatchArtifact replacing a section: the shallow copy shares the slice of
\* sections, so the old row shows the new text.
ReplaceSection(c, x, w) ==
    /\ "replace" \in Writes
    /\ Idle(c)
    /\ Stored(x)
    /\ doc[x].section # NoWord
    /\ LET new == [doc[x] EXCEPT !.section = w] IN Write(x, new, new)

\* Delete first reads the row and its rowid, outside the transaction.
BeginDelete(c, x) ==
    /\ "delete" \in Writes
    /\ Idle(c)
    /\ deleting' = [deleting EXCEPT ![c] = [id |-> x, doc |-> doc[x], rowid |-> rowid[x]]]
    /\ UNCHANGED <<doc, rowid, index>>

\* The transaction; the tokens of what was read are taken out at the rowid read.
CommitDelete(c) ==
    /\ ~Idle(c)
    /\ LET d == deleting[c]
       IN  IF Stored(d.id)
           THEN /\ doc' = [doc EXCEPT ![d.id] = NoDoc]
                /\ rowid' = [rowid EXCEPT ![d.id] = 0]
                /\ index' = IF d.doc = NoDoc THEN index
                            ELSE index \ Entries(d.rowid, d.id, d.doc)
           ELSE UNCHANGED <<doc, rowid, index>>
    /\ deleting' = [deleting EXCEPT ![c] = NotDeleting]

\* The id column changes under the index.
RenameID(c, old, new) ==
    /\ "rename" \in Writes
    /\ Idle(c)
    /\ Stored(old) /\ ~Stored(new)
    /\ doc' = [doc EXCEPT ![new] = doc[old], ![old] = NoDoc]
    /\ rowid' = [rowid EXCEPT ![new] = rowid[old], ![old] = 0]
    /\ UNCHANGED <<index, deleting>>

\* The process stops at any point and the store is opened again.
Reopen ==
    /\ index' = Rebuilt
    /\ deleting' = [c \in Clients |-> NotDeleting]
    /\ UNCHANGED <<doc, rowid>>

Next ==
    \/ \E c \in Clients, x \in Ids, d \in Docs : Put(c, x, d) \/ BulkPut(c, x, d)
    \/ \E c \in Clients, x \in Ids, w \in Words : AppendSection(c, x, w) \/ ReplaceSection(c, x, w)
    \/ \E c \in Clients, x \in Ids : BeginDelete(c, x)
    \/ \E c \in Clients : CommitDelete(c)
    \/ \E c \in Clients, x, y \in Ids : RenameID(c, x, y)
    \/ Reopen

Spec == Init /\ [][Next]_vars

------------------------------------------------------------------------------
(* Properties.                                                             *)

TypeOK ==
    /\ doc \in [Ids -> Docs \union {NoDoc}]
    /\ \A x \in Ids : rowid[x] \in 0 .. MaxRowid
    /\ \A x, y \in Ids : Stored(x) /\ rowid[x] = rowid[y] => x = y
    /\ \A x \in Ids : Stored(x) <=> doc[x] # NoDoc
    /\ index \subseteq (1 .. MaxRowid) \X (Ids \union Words)

\* A search for any word of a stored artifact finds it, whichever write put the
\* word there and whatever was deleted from the rowid before.
FindsContent ==
    \A x \in Ids : Stored(x) => \A w \in Content(doc[x]) : <<rowid[x], w>> \in index

\* The index is what a rebuild would make it: nothing stale lingers, no rowid
\* used again inherits tokens (syncFTSInTx).
IndexExact == index = Rebuilt

\* The writes that know the old row leave an exact index exact: nothing stale
\* lingers after them, and no rowid used again inherits tokens.
KnowsOld ==
    \E c \in Clients : \/ CommitDelete(c)
                       \/ \E x \in Ids, d \in Docs : Put(c, x, d)
                       \/ \E x \in Ids, w \in Words : AppendSection(c, x, w)
ExactKept == [][IndexExact /\ KnowsOld => IndexExact']_vars

\* No entry is left at a rowid that no row has (deleteFTSInTx).
NoOrphans == \A e \in index : \E x \in Ids : rowid[x] = e[1]
==============================================================================
