-------------------------- MODULE SearchIndexProofs --------------------------
(* Proofs about SearchIndex, for every set of ids, words and clients and   *)
(* every bound on the rowids.                                              *)
EXTENDS SearchIndex, Integers, TLAPS, WellFoundedInduction

------------------------------------------------------------------------------
(* Rowids.                                                                 *)

\* A set of naturals has a least element: the library's theorem that < is
\* well-founded, applied to a set instead of a property.
LEMMA LeastNat ==
    ASSUME NEW T \in SUBSET Nat, T # {}
    PROVE  \E n \in T : \A m \in T : n <= m
<1> DEFINE R == OpToRel(<, Nat)
<1>1. IsWellFoundedOn(R, Nat)
  BY NatLessThanWellFounded
<1> HIDE DEF R
<1>2. PICK n \in T : \A m \in T : ~(<<m, n>> \in R)
  BY <1>1, WFMin
<1> USE DEF R
<1>3. \A m \in T : n <= m
  <2> SUFFICES ASSUME NEW m \in T, m < n PROVE FALSE
    OBVIOUS
  <2>1. m \in Nat /\ n \in Nat
    OBVIOUS
  <2>2. <<m, n>> \in R
    BY <2>1 DEF OpToRel
  <2> QED
    BY <1>2, <2>2
<1> QED
  BY <1>3

Rowids == 0 .. MaxRowid

Delete == [id : Ids, doc : Docs \union {NoDoc}, rowid : Rowids]

Tokens == Ids \union Words

TypeInv ==
    /\ doc \in [Ids -> Docs \union {NoDoc}]
    /\ rowid \in [Ids -> Rowids]
    /\ \A x, y \in Ids : Stored(x) /\ rowid[x] = rowid[y] => x = y
    /\ \A x \in Ids : Stored(x) <=> doc[x] # NoDoc
    /\ index \subseteq (1 .. MaxRowid) \X Tokens
    /\ deleting \in [Clients -> Delete \union {NotDeleting}]

\* A new row gets a rowid that no row has.
LEMMA FreshRowidIs ==
    ASSUME TypeInv, Ids # {}
    PROVE  FreshRowid \in 1 .. MaxRowid + 1 /\ \A x \in Ids : rowid[x] < FreshRowid
<1> DEFINE Above == {n \in Nat : \A x \in Ids : rowid[x] < n}
<1>1. MaxRowid \in Nat /\ \A x \in Ids : rowid[x] \in Nat /\ rowid[x] <= MaxRowid
  BY SearchAssumption DEF TypeInv, Rowids
<1>2. MaxRowid + 1 \in Above
  BY <1>1
<1>3. PICK n \in Above : \A m \in Above : n <= m
  BY <1>2, LeastNat
<1>4. n \in 1 .. MaxRowid + 1
  <2>1. n \in Nat /\ n <= MaxRowid + 1
    BY <1>2, <1>3
  <2>2. n # 0
    BY <1>1
  <2> QED
    BY <1>1, <2>1, <2>2
<1>5. n = 1 \/ \E x \in Ids : rowid[x] = n - 1
  <2> SUFFICES ASSUME n # 1, \A x \in Ids : rowid[x] # n - 1 PROVE FALSE
    OBVIOUS
  <2>1. \A x \in Ids : rowid[x] < n - 1
    <3> SUFFICES ASSUME NEW x \in Ids PROVE rowid[x] < n - 1
      OBVIOUS
    <3>1. rowid[x] \in Nat /\ rowid[x] < n /\ rowid[x] # n - 1 /\ n \in Nat
      BY <1>1, <1>3, <1>4
    <3> QED
      BY <3>1
  <2>2. n - 1 \in Above
    BY <1>4, <2>1
  <2> QED
    BY <1>3, <1>4, <2>2
<1>6. \E k \in 1 .. MaxRowid + 1 : /\ \A x \in Ids : rowid[x] < k
                                   /\ k = 1 \/ \E x \in Ids : rowid[x] = k - 1
  BY <1>3, <1>4, <1>5
<1> QED
  BY <1>6 DEF FreshRowid

\* The tokens of a document are an id and words, and NoDoc has none.
LEMMA ContentType ==
    /\ \A d \in Docs \union {NoDoc} : Content(d) \subseteq Words
    /\ Content(NoDoc) = {} /\ NoDoc \notin Docs
    /\ \A r, x, d, n, t : <<n, t>> \in Entries(r, x, d) <=> n = r /\ t \in {x} \union Content(d)
    /\ \A r \in 1 .. MaxRowid, x \in Ids, d \in Docs \union {NoDoc} :
          Entries(r, x, d) \subseteq (1 .. MaxRowid) \X Tokens
<1>1. \A d \in Docs \union {NoDoc} : Content(d) \subseteq Words
  BY DEF Content, Docs, NoDoc
<1>2. Content(NoDoc) = {} /\ NoDoc \notin Docs
  BY SearchAssumption DEF Content, Docs, NoDoc
<1>3. \A r, x, d, n, t : <<n, t>> \in Entries(r, x, d) <=> n = r /\ t \in {x} \union Content(d)
  BY DEF Entries
<1>4. \A r \in 1 .. MaxRowid, x \in Ids, d \in Docs \union {NoDoc} :
          Entries(r, x, d) \subseteq (1 .. MaxRowid) \X Tokens
  BY <1>1 DEF Entries, Tokens
<1> QED
  BY <1>1, <1>2, <1>3, <1>4

\* A rebuild indexes what is stored.
LEMMA RebuiltIs ==
    ASSUME TypeInv
    PROVE  /\ \A n, t : <<n, t>> \in Rebuilt
                 <=> \E x \in Ids : Stored(x) /\ n = rowid[x] /\ t \in {x} \union Content(doc[x])
           /\ Rebuilt \subseteq (1 .. MaxRowid) \X Tokens
<1>1. \A n, t : <<n, t>> \in Rebuilt
          <=> \E x \in Ids : Stored(x) /\ n = rowid[x] /\ t \in {x} \union Content(doc[x])
  <2> SUFFICES ASSUME NEW n, NEW t
               PROVE  <<n, t>> \in Rebuilt
                 <=> \E x \in Ids : Stored(x) /\ n = rowid[x] /\ t \in {x} \union Content(doc[x])
    OBVIOUS
  <2>1. <<n, t>> \in Rebuilt <=> \E x \in Ids : Stored(x) /\ <<n, t>> \in Entries(rowid[x], x, doc[x])
    BY DEF Rebuilt
  <2>2. \A x : <<n, t>> \in Entries(rowid[x], x, doc[x])
                  <=> n = rowid[x] /\ t \in {x} \union Content(doc[x])
    BY DEF Entries
  <2> QED
    BY <2>1, <2>2
<1>2. \A x \in Ids : Stored(x) => rowid[x] \in 1 .. MaxRowid /\ doc[x] \in Docs \union {NoDoc}
  BY SearchAssumption DEF TypeInv, Stored, Rowids
<1>3. Rebuilt \subseteq (1 .. MaxRowid) \X Tokens
  BY <1>2, ContentType DEF Rebuilt
<1> QED
  BY <1>1, <1>3

LEMMA RebuiltType == TypeInv => Rebuilt \subseteq (1 .. MaxRowid) \X Tokens
  BY RebuiltIs

------------------------------------------------------------------------------
(* Types.                                                                  *)

\* What a write does: only x changes, and its rowid is its own.
LEMMA WriteIs ==
    ASSUME TypeInv, NEW x \in Ids, NEW old \in Docs \union {NoDoc}, NEW new \in Docs,
           Write(x, old, new)
    PROVE  /\ rowid'[x] \in 1 .. MaxRowid
           /\ doc' = [doc EXCEPT ![x] = new] /\ rowid' = [rowid EXCEPT ![x] = rowid'[x]]
           /\ \A y \in Ids \ {x} : rowid[y] # rowid'[x]
           /\ Stored(x) => rowid'[x] = rowid[x]
           /\ index' = Synced(rowid'[x], x, old, new)
           /\ UNCHANGED deleting
<1> DEFINE r == IF Stored(x) THEN rowid[x] ELSE FreshRowid
<1>1. /\ r <= MaxRowid /\ doc' = [doc EXCEPT ![x] = new] /\ rowid' = [rowid EXCEPT ![x] = r]
      /\ index' = Synced(r, x, old, new) /\ UNCHANGED deleting
  BY DEF Write
<1>2. rowid'[x] = r
  BY <1>1 DEF TypeInv
<1>3. r \in 1 .. MaxRowid /\ \A y \in Ids \ {x} : rowid[y] # r
  <2>1. MaxRowid \in Nat /\ \A y \in Ids : rowid[y] \in 0 .. MaxRowid
    BY SearchAssumption DEF TypeInv, Rowids
  <2>2. CASE Stored(x)
    BY <2>1, <2>2 DEF TypeInv, Stored
  <2>3. CASE ~Stored(x)
    BY <1>1, <2>1, <2>3, FreshRowidIs
  <2> QED
    BY <2>2, <2>3
<1> QED
  BY <1>1, <1>2, <1>3

LEMMA WriteType ==
    ASSUME TypeInv, NEW x \in Ids, NEW old \in Docs \union {NoDoc}, NEW new \in Docs,
           Write(x, old, new)
    PROVE  TypeInv'
<1> DEFINE r == rowid'[x]
<1>1. /\ r \in 1 .. MaxRowid /\ r \in Rowids /\ r # 0
      /\ \A y \in Ids \ {x} : rowid'[y] = rowid[y] /\ rowid[y] # r /\ doc'[y] = doc[y]
      /\ doc'[x] = new /\ new # NoDoc
  BY WriteIs, ContentType, SearchAssumption DEF TypeInv, Rowids
<1>2. doc' \in [Ids -> Docs \union {NoDoc}] /\ rowid' \in [Ids -> Rowids] /\ UNCHANGED deleting
  BY <1>1, WriteIs DEF TypeInv
<1>3. \A y, z \in Ids : Stored(y)' /\ rowid'[y] = rowid'[z] => y = z
  BY <1>1 DEF TypeInv, Stored
<1>4. \A y \in Ids : Stored(y)' <=> doc'[y] # NoDoc
  BY <1>1 DEF TypeInv, Stored
<1>5. index' \subseteq (1 .. MaxRowid) \X Tokens
  BY <1>1, WriteIs, ContentType DEF TypeInv, Synced
<1> QED
  BY <1>2, <1>3, <1>4, <1>5 DEF TypeInv

\* A write of one row by a client, with what it takes for the old row.
RowWrite(c) ==
    /\ Idle(c)
    /\ \E x \in Ids, old \in Docs \union {NoDoc}, new \in Docs : Write(x, old, new)

\* Every step writes one row, or is a part of a deletion, a new id or a restart.
LEMMA Steps ==
    ASSUME TypeInv, Next
    PROVE  \/ \E c \in Clients : RowWrite(c)
           \/ \E c \in Clients, x \in Ids : BeginDelete(c, x)
           \/ \E c \in Clients : CommitDelete(c)
           \/ \E c \in Clients, x, y \in Ids : RenameID(c, x, y)
           \/ Reopen
<1>1. ASSUME NEW x \in Ids
      PROVE  /\ doc[x] \in Docs \union {NoDoc} /\ NoDoc \in Docs \union {NoDoc}
             /\ Stored(x) => \A w \in Words : [doc[x] EXCEPT !.section = w] \in Docs
  BY DEF TypeInv, Docs
<1>2. ASSUME NEW c \in Clients, NEW x \in Ids, NEW d \in Docs, Put(c, x, d) \/ BulkPut(c, x, d)
      PROVE  RowWrite(c)
  BY <1>1, <1>2 DEF Put, BulkPut, RowWrite
<1>3. ASSUME NEW c \in Clients, NEW x \in Ids, NEW w \in Words,
             AppendSection(c, x, w) \/ ReplaceSection(c, x, w)
      PROVE  RowWrite(c)
  <2>1. PICK new : new = [doc[x] EXCEPT !.section = w]
    OBVIOUS
  <2>2. new \in Docs /\ Idle(c)
    BY <1>1, <1>3, <2>1 DEF AppendSection, ReplaceSection
  <2>3. \E old \in Docs \union {NoDoc} : Write(x, old, new)
    BY <1>1, <1>3, <2>1, <2>2 DEF AppendSection, ReplaceSection
  <2> QED
    BY <2>2, <2>3 DEF RowWrite
<1> QED
  BY <1>2, <1>3 DEF Next

\* What a client read for a deletion has the types of the store.
LEMMA DeletingIs ==
    ASSUME TypeInv, NEW c \in Clients, ~Idle(c)
    PROVE  /\ deleting[c].id \in Ids /\ deleting[c].doc \in Docs \union {NoDoc}
           /\ deleting[c].rowid \in Rowids
  BY DEF TypeInv, Idle, Delete

LEMMA TypeInvStep == TypeInv /\ [Next]_vars => TypeInv'
<1> SUFFICES ASSUME TypeInv, [Next]_vars PROVE TypeInv'
  OBVIOUS
<1>1. CASE UNCHANGED vars
  BY <1>1 DEF vars, TypeInv, Stored
<1>2. ASSUME NEW c \in Clients, RowWrite(c) PROVE TypeInv'
  BY <1>2, WriteType DEF RowWrite
<1>3. ASSUME NEW c \in Clients, NEW x \in Ids, BeginDelete(c, x) PROVE TypeInv'
  <2>1. [id |-> x, doc |-> doc[x], rowid |-> rowid[x]] \in Delete
    BY DEF TypeInv, Delete
  <2> QED
    BY <1>3, <2>1 DEF BeginDelete, TypeInv, Stored
<1>4. ASSUME NEW c \in Clients, CommitDelete(c) PROVE TypeInv'
  <2>1. deleting[c].id \in Ids
    BY <1>4, DeletingIs DEF CommitDelete
  <2>2. deleting' \in [Clients -> Delete \union {NotDeleting}]
    BY <1>4 DEF CommitDelete, TypeInv
  <2>3. index' \subseteq index
    BY <1>4 DEF CommitDelete
  <2>4. CASE UNCHANGED <<doc, rowid>>
    BY <2>2, <2>3, <2>4 DEF TypeInv, Stored
  <2>5. CASE /\ doc' = [doc EXCEPT ![deleting[c].id] = NoDoc]
             /\ rowid' = [rowid EXCEPT ![deleting[c].id] = 0]
    <3>1. doc' \in [Ids -> Docs \union {NoDoc}] /\ rowid' \in [Ids -> Rowids]
      BY <2>1, <2>5, SearchAssumption DEF TypeInv, Rowids
    <3>2. /\ \A y, z \in Ids : Stored(y)' /\ rowid'[y] = rowid'[z] => y = z
          /\ \A y \in Ids : Stored(y)' <=> doc'[y] # NoDoc
      BY <2>1, <2>5 DEF TypeInv, Stored
    <3> QED
      BY <2>2, <2>3, <3>1, <3>2 DEF TypeInv
  <2> QED
    BY <1>4, <2>4, <2>5 DEF CommitDelete
<1>5. ASSUME NEW c \in Clients, NEW x \in Ids, NEW y \in Ids, RenameID(c, x, y) PROVE TypeInv'
  <2>1. /\ Stored(x) /\ ~Stored(y) /\ x # y /\ UNCHANGED <<index, deleting>>
        /\ doc' = [doc EXCEPT ![y] = doc[x], ![x] = NoDoc]
        /\ rowid' = [rowid EXCEPT ![y] = rowid[x], ![x] = 0]
    BY <1>5 DEF RenameID
  <2>2. doc' \in [Ids -> Docs \union {NoDoc}] /\ rowid' \in [Ids -> Rowids]
    BY <2>1, SearchAssumption DEF TypeInv, Rowids
  <2>3. \A z \in Ids : /\ rowid'[z] = (IF z = x THEN 0 ELSE IF z = y THEN rowid[x] ELSE rowid[z])
                       /\ doc'[z] = (IF z = x THEN NoDoc ELSE IF z = y THEN doc[x] ELSE doc[z])
    BY <2>1 DEF TypeInv
  <2>4. /\ \A v, z \in Ids : Stored(v)' /\ rowid'[v] = rowid'[z] => v = z
        /\ \A z \in Ids : Stored(z)' <=> doc'[z] # NoDoc
    BY <2>1, <2>3 DEF TypeInv, Stored
  <2> QED
    BY <2>1, <2>2, <2>4 DEF TypeInv
<1>6. CASE Reopen
  <2>1. index' \subseteq (1 .. MaxRowid) \X Tokens
    BY <1>6, RebuiltIs DEF Reopen
  <2> QED
    BY <1>6, <2>1 DEF Reopen, TypeInv, Stored
<1> QED
  BY <1>1, <1>2, <1>3, <1>4, <1>5, <1>6, Steps

\* Whatever the clients do and whenever the store is opened again, an artifact is
\* stored under one rowid, no two share one, and entries have rowids and tokens
\* (upsert, Delete, RenameID; FTS5 gives the largest rowid plus one).
THEOREM TypeCorrect == Spec => []TypeOK
<1>1. Init => TypeInv
  BY SearchAssumption DEF Init, TypeInv, Stored, Rowids
<1>2. TypeInv => TypeOK
  BY DEF TypeInv, TypeOK, Rowids, Tokens
<1> QED
  BY <1>1, <1>2, TypeInvStep, PTL DEF Spec

------------------------------------------------------------------------------
(* What the index holds.  Delete reads the row before its transaction: its *)
(* tokens are the row's only when no other client writes in between.       *)

Calm == "delete" \in Writes => \A b, c \in Clients : b = c

\* A deletion in progress has read the row as it is.
DeletesCurrent ==
    /\ "delete" \notin Writes => \A c \in Clients : Idle(c)
    /\ \A c \in Clients : ~Idle(c) =>
          /\ deleting[c].doc = doc[deleting[c].id]
          /\ deleting[c].rowid = rowid[deleting[c].id]

LEMMA DeletesCurrentStep ==
    ASSUME Calm, TypeInv, DeletesCurrent, [Next]_vars
    PROVE  DeletesCurrent'
<1>q. ASSUME NEW c \in Clients, Idle(c), UNCHANGED deleting PROVE DeletesCurrent'
  BY <1>q DEF Calm, DeletesCurrent, Idle
<1>1. CASE UNCHANGED vars
  BY <1>1 DEF vars, DeletesCurrent, Idle
<1>2. ASSUME NEW c \in Clients, RowWrite(c) PROVE DeletesCurrent'
  BY <1>2, <1>q DEF RowWrite, Write
<1>3. ASSUME NEW c \in Clients, NEW x \in Ids, BeginDelete(c, x) PROVE DeletesCurrent'
  <2>1. /\ "delete" \in Writes /\ UNCHANGED <<doc, rowid>>
        /\ deleting'[c] = [id |-> x, doc |-> doc[x], rowid |-> rowid[x]]
    BY <1>3 DEF BeginDelete, TypeInv
  <2> QED
    BY <2>1 DEF Calm, DeletesCurrent
<1>4. ASSUME NEW c \in Clients, CommitDelete(c) PROVE DeletesCurrent'
  <2>1. deleting'[c] = NotDeleting /\ ~Idle(c)
    BY <1>4 DEF CommitDelete, TypeInv
  <2> QED
    BY <2>1 DEF Calm, DeletesCurrent, Idle
<1>5. ASSUME NEW c \in Clients, NEW x \in Ids, NEW y \in Ids, RenameID(c, x, y) PROVE DeletesCurrent'
  BY <1>5, <1>q DEF RenameID
<1>6. CASE Reopen
  BY <1>6 DEF Reopen, DeletesCurrent, Idle
<1> QED
  BY <1>1, <1>2, <1>3, <1>4, <1>5, <1>6, Steps

\* A deletion takes out the tokens of one rowid, that of the row it deletes.
LEMMA CommitIs ==
    ASSUME TypeInv, DeletesCurrent, NEW c \in Clients, CommitDelete(c)
    PROVE  \E x \in Ids :
              \/ UNCHANGED <<doc, rowid, index>>
              \/ /\ Stored(x)
                 /\ doc' = [doc EXCEPT ![x] = NoDoc]
                 /\ rowid' = [rowid EXCEPT ![x] = 0]
                 /\ index' = index \ Entries(rowid[x], x, doc[x])
<1> DEFINE d == deleting[c]
<1>1. ~Idle(c) /\ d.id \in Ids /\ d.doc = doc[d.id] /\ d.rowid = rowid[d.id]
  BY DeletingIs DEF CommitDelete, DeletesCurrent
<1>2. CASE ~Stored(d.id)
  BY <1>1, <1>2 DEF CommitDelete
<1>3. CASE Stored(d.id)
  <2>1. d.doc # NoDoc
    BY <1>1, <1>3 DEF TypeInv
  <2> QED
    BY <1>1, <1>3, <2>1 DEF CommitDelete
<1> QED
  BY <1>2, <1>3

LEMMA FindsContentStep ==
    ASSUME TypeInv, DeletesCurrent, FindsContent, [Next]_vars
    PROVE  FindsContent'
<1>1. CASE UNCHANGED vars
  BY <1>1 DEF vars, FindsContent, Stored
<1>2. ASSUME NEW c \in Clients, RowWrite(c) PROVE FindsContent'
  <2>1. PICK x \in Ids, old \in Docs \union {NoDoc}, new \in Docs : Write(x, old, new)
    BY <1>2 DEF RowWrite
  <2>2. PICK r : r = rowid'[x]
    OBVIOUS
  <2>3. /\ doc'[x] = new /\ index' = Synced(r, x, old, new)
        /\ \A y \in Ids \ {x} : doc'[y] = doc[y] /\ rowid'[y] = rowid[y] /\ rowid[y] # r
    BY <2>1, <2>2, WriteIs DEF TypeInv
  <2> SUFFICES ASSUME NEW y \in Ids, Stored(y)', NEW w \in Content(doc'[y])
               PROVE  <<rowid'[y], w>> \in index'
    BY DEF FindsContent, Content
  <2>4. CASE y = x
    <3>1. <<r, w>> \in Entries(r, x, new)
      BY <2>3, <2>4 DEF Entries
    <3> QED
      BY <2>2, <2>3, <2>4, <3>1 DEF Synced
  <2>5. CASE y # x
    <3>1. <<rowid[y], w>> \in index
      BY <2>3, <2>5 DEF FindsContent, Stored
    <3>2. <<rowid[y], w>> \notin Entries(r, x, old)
      BY <2>3, <2>5 DEF Entries
    <3> QED
      BY <2>3, <2>5, <3>1, <3>2 DEF Synced
  <2> QED
    BY <2>4, <2>5
<1>3. ASSUME NEW c \in Clients, NEW x \in Ids, BeginDelete(c, x) PROVE FindsContent'
  BY <1>3 DEF BeginDelete, FindsContent, Stored
<1>4. ASSUME NEW c \in Clients, CommitDelete(c) PROVE FindsContent'
  <2>1. PICK x \in Ids : \/ UNCHANGED <<doc, rowid, index>>
                         \/ /\ Stored(x)
                            /\ doc' = [doc EXCEPT ![x] = NoDoc]
                            /\ rowid' = [rowid EXCEPT ![x] = 0]
                            /\ index' = index \ Entries(rowid[x], x, doc[x])
    BY <1>4, CommitIs
  <2>2. CASE UNCHANGED <<doc, rowid, index>>
    BY <2>2 DEF FindsContent, Stored
  <2>3. CASE ~UNCHANGED <<doc, rowid, index>>
    <3>1. \A y \in Ids : Stored(y)' => /\ y # x /\ Stored(y) /\ rowid[y] # rowid[x]
                                      /\ doc'[y] = doc[y] /\ rowid'[y] = rowid[y]
      BY <2>1, <2>3 DEF TypeInv, Stored
    <3> SUFFICES ASSUME NEW y \in Ids, Stored(y)', NEW w \in Content(doc'[y])
                 PROVE  <<rowid'[y], w>> \in index'
      BY DEF FindsContent, Content
    <3>2. <<rowid[y], w>> \in index /\ <<rowid[y], w>> \notin Entries(rowid[x], x, doc[x])
      BY <3>1 DEF FindsContent, Entries
    <3> QED
      BY <2>1, <2>3, <3>1, <3>2
  <2> QED
    BY <2>2, <2>3
<1>5. ASSUME NEW c \in Clients, NEW x \in Ids, NEW y \in Ids, RenameID(c, x, y) PROVE FindsContent'
  <2>1. /\ Stored(x) /\ ~Stored(y) /\ x # y /\ UNCHANGED index
        /\ \A z \in Ids : /\ rowid'[z] = (IF z = x THEN 0 ELSE IF z = y THEN rowid[x] ELSE rowid[z])
                          /\ doc'[z] = (IF z = x THEN NoDoc ELSE IF z = y THEN doc[x] ELSE doc[z])
    BY <1>5 DEF RenameID, TypeInv
  <2> SUFFICES ASSUME NEW z \in Ids, Stored(z)', NEW w \in Content(doc'[z])
               PROVE  <<rowid'[z], w>> \in index
    BY <2>1 DEF FindsContent, Content
  <2> QED
    BY <2>1 DEF FindsContent, Stored
<1>6. CASE Reopen
  <2>1. \A x \in Ids : Stored(x) => \A w \in Content(doc[x]) : <<rowid[x], w>> \in Rebuilt
    BY RebuiltIs
  <2> QED
    BY <1>6, <2>1 DEF Reopen, FindsContent, Stored
<1> QED
  BY <1>1, <1>2, <1>3, <1>4, <1>5, <1>6, Steps

LEMMA SearchInvHolds ==
    ASSUME Calm
    PROVE  Spec => [](TypeInv /\ DeletesCurrent /\ FindsContent)
<1>1. Init => TypeInv /\ DeletesCurrent /\ FindsContent
  BY SearchAssumption DEF Init, TypeInv, Stored, Rowids, DeletesCurrent, Idle, FindsContent
<1>2. TypeInv /\ DeletesCurrent /\ FindsContent /\ [Next]_vars
        => (TypeInv /\ DeletesCurrent /\ FindsContent)'
  BY TypeInvStep, DeletesCurrentStep, FindsContentStep
<1> QED
  BY <1>1, <1>2, PTL DEF Spec

\* Whichever write put a word into an artifact, and whatever was deleted or
\* renamed before, a search for the word finds it (syncFTSInTx, deleteFTSInTx,
\* backfillFTS), as long as nothing is deleted or one client works alone.
THEOREM SearchFinds ==
    ASSUME Calm
    PROVE  Spec => []FindsContent
  BY SearchInvHolds, PTL

------------------------------------------------------------------------------
(* The writes that know the old row.                                       *)

Listed == \A n, t : <<n, t>> \in index
              <=> \E x \in Ids : Stored(x) /\ n = rowid[x] /\ t \in {x} \union Content(doc[x])

LEMMA ExactIsListed == TypeInv => (IndexExact <=> Listed)
<1> SUFFICES ASSUME TypeInv PROVE IndexExact <=> Listed
  OBVIOUS
<1>1. ASSUME Listed PROVE index = Rebuilt
  <2>1. \A n, t : <<n, t>> \in index <=> <<n, t>> \in Rebuilt
    BY <1>1, RebuiltIs DEF Listed
  <2>2. index \subseteq (1 .. MaxRowid) \X Tokens /\ Rebuilt \subseteq (1 .. MaxRowid) \X Tokens
    BY RebuiltIs DEF TypeInv
  <2>3. \A S \in SUBSET ((1 .. MaxRowid) \X Tokens), T \in SUBSET ((1 .. MaxRowid) \X Tokens) :
           (\A n, t : <<n, t>> \in S <=> <<n, t>> \in T) => S = T
    OBVIOUS
  <2> QED
    BY <2>1, <2>2, <2>3
<1> QED
  BY <1>1, RebuiltIs DEF IndexExact, Listed

\* A write that takes the row as it is for the old row keeps the index exact.
LEMMA WriteExact ==
    ASSUME TypeInv, NEW x \in Ids, NEW new \in Docs, Write(x, doc[x], new), Listed
    PROVE  Listed'
<1>1. PICK r : r = rowid'[x]
  OBVIOUS
<1>2. PICK old : old = doc[x]
  OBVIOUS
<1>3. /\ doc'[x] = new /\ index' = Synced(r, x, old, new) /\ Stored(x)'
      /\ Stored(x) => r = rowid[x]
      /\ \A y \in Ids \ {x} : doc'[y] = doc[y] /\ rowid'[y] = rowid[y] /\ rowid[y] # r
  <2>1. doc[x] \in Docs \union {NoDoc}
    BY DEF TypeInv
  <2>2. rowid'[x] \in 1 .. MaxRowid
    BY <2>1, WriteIs
  <2>3. rowid'[x] # 0
    BY <2>2, SearchAssumption
  <2>4. /\ doc' = [doc EXCEPT ![x] = new] /\ rowid' = [rowid EXCEPT ![x] = r]
        /\ \A y \in Ids \ {x} : rowid[y] # r
        /\ Stored(x) => r = rowid[x]
        /\ index' = Synced(r, x, old, new)
    BY <1>1, <1>2, <2>1, WriteIs
  <2>5. Stored(x)'
    BY <2>3 DEF Stored
  <2> QED
    BY <2>4, <2>5 DEF TypeInv
<1> SUFFICES ASSUME NEW n, NEW t
             PROVE  <<n, t>> \in index' <=> \E y \in Ids : /\ Stored(y)' /\ n = rowid'[y]
                                                          /\ t \in {y} \union Content(doc'[y])
  BY DEF Listed, Content
<1>4. <<n, t>> \in index <=> \E y \in Ids : Stored(y) /\ n = rowid[y] /\ t \in {y} \union Content(doc[y])
  BY DEF Listed
<1>5. \A d : <<n, t>> \in Entries(r, x, d) <=> n = r /\ t \in {x} \union Content(d)
  BY DEF Entries
<1>6. CASE n = r
  <2>1. old = NoDoc => <<n, t>> \notin index
    BY <1>2, <1>3, <1>4, <1>6 DEF TypeInv
  <2>2. old # NoDoc => (<<n, t>> \in index => <<n, t>> \in Entries(r, x, old))
    BY <1>2, <1>3, <1>4, <1>5, <1>6 DEF TypeInv
  <2>3. <<n, t>> \in index' <=> <<n, t>> \in Entries(r, x, new)
    BY <1>3, <2>1, <2>2 DEF Synced
  <2> QED
    BY <1>1, <1>3, <1>5, <1>6, <2>3
<1>7. CASE n # r
  <2>1. <<n, t>> \in index' <=> <<n, t>> \in index
    BY <1>3, <1>5, <1>7 DEF Synced
  <2>2. \A y \in Ids : (Stored(y)' /\ n = rowid'[y]) <=> (Stored(y) /\ n = rowid[y] /\ y # x)
    BY <1>1, <1>3, <1>7 DEF Stored
  <2>3. \A y \in Ids : Stored(y) /\ n = rowid[y] => y # x
    BY <1>3, <1>7
  <2> QED
    BY <1>3, <1>4, <2>1, <2>2, <2>3
<1> QED
  BY <1>6, <1>7

\* So does the transaction of a deletion that has read the row as it is.
LEMMA DeleteExact ==
    ASSUME TypeInv, DeletesCurrent, NEW c \in Clients, CommitDelete(c), Listed
    PROVE  Listed'
<1>1. PICK x \in Ids : \/ UNCHANGED <<doc, rowid, index>>
                       \/ /\ Stored(x)
                          /\ doc' = [doc EXCEPT ![x] = NoDoc]
                          /\ rowid' = [rowid EXCEPT ![x] = 0]
                          /\ index' = index \ Entries(rowid[x], x, doc[x])
  BY CommitIs
<1>2. CASE UNCHANGED <<doc, rowid, index>>
  <2>1. doc' = doc /\ rowid' = rowid /\ index' = index
    BY <1>2
  <2>2. \A y : (Stored(y)' <=> Stored(y)) /\ Content(doc[y])' = Content(doc[y])
    BY <2>1 DEF Stored, Content
  <2> QED
    BY <2>1, <2>2 DEF Listed
<1>3. CASE ~UNCHANGED <<doc, rowid, index>>
  <2>1. \A y \in Ids : /\ Stored(y)' <=> Stored(y) /\ y # x
                       /\ y # x => doc'[y] = doc[y] /\ rowid'[y] = rowid[y]
                       /\ Stored(y) /\ y # x => rowid[y] # rowid[x]
    BY <1>1, <1>3 DEF TypeInv, Stored
  <2> SUFFICES ASSUME NEW n, NEW t
               PROVE  <<n, t>> \in index' <=> \E y \in Ids : /\ Stored(y)' /\ n = rowid'[y]
                                                            /\ t \in {y} \union Content(doc'[y])
    BY DEF Listed, Content
  <2>2. <<n, t>> \in index' <=> <<n, t>> \in index /\ ~(n = rowid[x] /\ t \in {x} \union Content(doc[x]))
    BY <1>1, <1>3 DEF Entries
  <2>3. <<n, t>> \in index <=> \E y \in Ids : Stored(y) /\ n = rowid[y] /\ t \in {y} \union Content(doc[y])
    BY DEF Listed
  <2> QED
    BY <2>1, <2>2, <2>3
<1> QED
  BY <1>2, <1>3

\* Over an exact index, the writes that know the old row leave nothing stale and
\* hide nothing: not the put over a stored row, not the deletion, and not the row
\* that is inserted at a rowid used before (syncFTSInTx, deleteFTSInTx).
THEOREM ExactIsKept ==
    ASSUME Calm
    PROVE  Spec => ExactKept
<1>1. TypeInv /\ TypeInv' /\ DeletesCurrent /\ [Next]_vars
        => [IndexExact /\ KnowsOld => IndexExact']_vars
  <2> SUFFICES ASSUME TypeInv, TypeInv', DeletesCurrent, IndexExact, KnowsOld PROVE IndexExact'
    OBVIOUS
  <2>1. Listed
    BY ExactIsListed
  <2>2. \A x \in Ids : Stored(x) => \A w \in Words : [doc[x] EXCEPT !.section = w] \in Docs
    BY DEF TypeInv, Docs
  <2>3. Listed'
    <3>1. ASSUME NEW c \in Clients, CommitDelete(c) PROVE Listed'
      BY <2>1, <3>1, DeleteExact
    <3>2. ASSUME NEW c \in Clients, NEW x \in Ids, NEW d \in Docs, Put(c, x, d) PROVE Listed'
      BY <2>1, <3>2, WriteExact DEF Put
    <3>3. ASSUME NEW c \in Clients, NEW x \in Ids, NEW w \in Words, AppendSection(c, x, w)
          PROVE  Listed'
      <4>1. PICK new : new = [doc[x] EXCEPT !.section = w]
        OBVIOUS
      <4>2. new \in Docs /\ Write(x, doc[x], new)
        BY <2>2, <3>3, <4>1 DEF AppendSection
      <4> QED
        BY <2>1, <4>2, WriteExact
    <3> QED
      BY <3>1, <3>2, <3>3 DEF KnowsOld
  <2>4. TypeInv' => (IndexExact' <=> Listed')
    BY ExactIsListed, PTL
  <2> QED
    BY <2>3, <2>4
<1> QED
  BY <1>1, SearchInvHolds, PTL DEF Spec, ExactKept
==============================================================================
