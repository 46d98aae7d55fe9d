---------------------------- MODULE StoresProofs -----------------------------
(* Proofs about Stores, for every set of ids, drafts and profiles, and every *)
(* set of differences the client avoids, but where a theorem names them.     *)
EXTENDS Stores, FiniteSetTheorems, SequenceTheorems, TLAPS

------------------------------------------------------------------------------
(* A batch of two is what its two members do, in turn.                     *)

SubsetsOfTwo == {{}, {1}, {2}, {1, 2}}

LEMMA TwoElements ==
    /\ SUBSET {1, 2} = SubsetsOfTwo
    /\ \A T \in {{1}, {2}, {1, 2}} : T \in SubsetsOfTwo /\ T # {}
    /\ {1} \ {1} = {} /\ {1, 2} \ {2} = {1}
    /\ M!Max({1}) = 1 /\ M!Max({2}) = 2 /\ M!Max({1, 2}) = 2
    /\ S!Max({1}) = 1 /\ S!Max({2}) = 2 /\ S!Max({1, 2}) = 2
  <1>1. /\ SUBSET {1, 2} = SubsetsOfTwo
        /\ \A T \in {{1}, {2}, {1, 2}} : T \in SubsetsOfTwo /\ T # {}
        /\ {1} \ {1} = {} /\ {1, 2} \ {2} = {1}
    BY DEF SubsetsOfTwo
  <1>2. M!Max({1}) = 1 /\ M!Max({2}) = 2
    BY DEF M!Max
  <1>3. M!Max({1, 2}) = 2
    BY DEF M!Max
  <1>4. S!Max({1}) = 1 /\ S!Max({2}) = 2
    BY DEF S!Max
  <1>5. S!Max({1, 2}) = 2
    BY DEF S!Max
  <1> QED BY <1>1, <1>2, <1>3, <1>4, <1>5

\* MemoryStore.BulkPut of two artifacts is one Put after the other.
LEMMA MemBulkPut ==
    ASSUME NEW s, NEW a, NEW b, NEW now
    PROVE  M!BulkPut(s, <<a, b>>, now) = M!Put(M!Put(s, a.id, a.art, now).store, b.id, b.art, now)
  <1> DEFINE batch == <<a, b>>
             Do(acc, x) == M!Put(acc.store, x.id, x.art, now)
             After(f, T) == IF T = {} THEN M!Ok(s) ELSE Do(f[T \ {M!Max(T)}], batch[M!Max(T)])
             Rec(f) == [T \in SUBSET {1, 2} |-> After(f, T)]
             One(n) == Do(M!Ok(s), batch[n])
             Done(T) == IF T = {} THEN M!Ok(s) ELSE IF T = {1} THEN One(1)
                        ELSE IF T = {2} THEN One(2) ELSE Do(One(1), batch[2])
             it == CHOOSE f : f = Rec(f)
             done == [T \in SUBSET {1, 2} |-> Done(T)]
  <1>1. M!BulkPut(s, <<a, b>>, now) = it[{1, 2}]
    BY DEF M!BulkPut, M!FoldLeft, M!MapThenFoldSet
  <1>2. \A T \in SubsetsOfTwo : After(done, T) = Done(T)
    <2>1. done[{}] = M!Ok(s) /\ done[{1}] = One(1)
      OBVIOUS
    <2>2. After(done, {1}) = Done({1})
      <3> HIDE DEF done
      <3> QED BY <2>1, TwoElements
    <2>3. After(done, {2}) = Done({2})
      <3>1. {2} \ {2} = {} /\ {2} # {1}
        OBVIOUS
      <3> HIDE DEF done
      <3> QED BY <2>1, <3>1, TwoElements
    <2>4. After(done, {1, 2}) = Done({1, 2})
      <3>1. {1, 2} # {1} /\ {1, 2} # {2}
        OBVIOUS
      <3> HIDE DEF done
      <3> QED BY <2>1, <3>1, TwoElements
    <2> HIDE DEF done
    <2> QED BY <2>2, <2>3, <2>4 DEF SubsetsOfTwo
  <1>3. it = Rec(it)
    <2>1. done = Rec(done)
      BY <1>2, TwoElements
    <2> HIDE DEF done, Rec
    <2> QED BY <2>1
  <1>4. \A T \in SubsetsOfTwo : it[T] = After(it, T)
    <2> HIDE DEF it, After
    <2> QED BY <1>3, TwoElements
  <1>5. it[{}] = M!Ok(s)
    <2> HIDE DEF it
    <2> QED BY <1>4 DEF SubsetsOfTwo
  <1>6. it[{1}] = One(1)
    <2>1. it[{1}] = After(it, {1})
      <3> HIDE DEF it, After
      <3> QED BY <1>4, TwoElements
    <2> HIDE DEF it, batch
    <2> QED BY <2>1, <1>5, TwoElements
  <1>7. it[{1, 2}] = Do(it[{1}], batch[2])
    <2>1. it[{1, 2}] = After(it, {1, 2})
      <3> HIDE DEF it, After
      <3> QED BY <1>4, TwoElements
    <2> HIDE DEF it, batch
    <2> QED BY <2>1, TwoElements
  <1>8. batch[1] = a /\ batch[2] = b
    OBVIOUS
  <1> QED
    <2> HIDE DEF it, batch
    <2> QED BY <1>1, <1>6, <1>7, <1>8 DEF M!Ok

\* And so in SQLiteStore.
LEMMA SqlBulkPut ==
    ASSUME NEW s, NEW a, NEW b, NEW now
    PROVE  S!BulkPut(s, <<a, b>>, now) = S!Put(S!Put(s, a.id, a.art, now).store, b.id, b.art, now)
  <1> DEFINE batch == <<a, b>>
             Do(acc, x) == S!Upsert(acc, x.id, x.art, now)
             After(f, T) == IF T = {} THEN s ELSE Do(f[T \ {S!Max(T)}], batch[S!Max(T)])
             Rec(f) == [T \in SUBSET {1, 2} |-> After(f, T)]
             One(n) == Do(s, batch[n])
             Done(T) == IF T = {} THEN s ELSE IF T = {1} THEN One(1)
                        ELSE IF T = {2} THEN One(2) ELSE Do(One(1), batch[2])
             it == CHOOSE f : f = Rec(f)
             done == [T \in SUBSET {1, 2} |-> Done(T)]
  <1>1. S!BulkPut(s, <<a, b>>, now) = S!Ok(it[{1, 2}])
    BY DEF S!BulkPut, S!FoldLeft, S!MapThenFoldSet
  <1>2. \A T \in SubsetsOfTwo : After(done, T) = Done(T)
    <2>1. done[{}] = s /\ done[{1}] = One(1)
      OBVIOUS
    <2>2. After(done, {1}) = Done({1})
      <3> HIDE DEF done
      <3> QED BY <2>1, TwoElements
    <2>3. After(done, {2}) = Done({2})
      <3>1. {2} \ {2} = {} /\ {2} # {1}
        OBVIOUS
      <3> HIDE DEF done
      <3> QED BY <2>1, <3>1, TwoElements
    <2>4. After(done, {1, 2}) = Done({1, 2})
      <3>1. {1, 2} # {1} /\ {1, 2} # {2}
        OBVIOUS
      <3> HIDE DEF done
      <3> QED BY <2>1, <3>1, TwoElements
    <2> HIDE DEF done
    <2> QED BY <2>2, <2>3, <2>4 DEF SubsetsOfTwo
  <1>3. it = Rec(it)
    <2>1. done = Rec(done)
      BY <1>2, TwoElements
    <2> HIDE DEF done, Rec
    <2> QED BY <2>1
  <1>4. \A T \in SubsetsOfTwo : it[T] = After(it, T)
    <2> HIDE DEF it, After
    <2> QED BY <1>3, TwoElements
  <1>5. it[{}] = s
    <2> HIDE DEF it
    <2> QED BY <1>4 DEF SubsetsOfTwo
  <1>6. it[{1}] = One(1)
    <2>1. it[{1}] = After(it, {1})
      <3> HIDE DEF it, After
      <3> QED BY <1>4, TwoElements
    <2> HIDE DEF it, batch
    <2> QED BY <2>1, <1>5, TwoElements
  <1>7. it[{1, 2}] = Do(it[{1}], batch[2])
    <2>1. it[{1, 2}] = After(it, {1, 2})
      <3> HIDE DEF it, After
      <3> QED BY <1>4, TwoElements
    <2> HIDE DEF it, batch
    <2> QED BY <2>1, TwoElements
  <1>8. batch[1] = a /\ batch[2] = b
    OBVIOUS
  <1> QED
    <2> HIDE DEF it, batch
    <2> QED BY <1>1, <1>6, <1>7, <1>8 DEF S!Put, S!Ok

\* BulkAddEdge of two edges is one AddEdge after the other, in each store.
LEMMA MemBulkAddEdge ==
    ASSUME NEW s, NEW a, NEW b
    PROVE  M!BulkAddEdge(s, <<a, b>>) = M!AddEdge(M!AddEdge(s, a.edge, a.attrs).store, b.edge, b.attrs)
  <1> DEFINE batch == <<a, b>>
             Do(acc, x) == M!AddEdge(acc, x.edge, x.attrs).store
             After(f, T) == IF T = {} THEN s ELSE Do(f[T \ {M!Max(T)}], batch[M!Max(T)])
             Rec(f) == [T \in SUBSET {1, 2} |-> After(f, T)]
             One(n) == Do(s, batch[n])
             Done(T) == IF T = {} THEN s ELSE IF T = {1} THEN One(1)
                        ELSE IF T = {2} THEN One(2) ELSE Do(One(1), batch[2])
             it == CHOOSE f : f = Rec(f)
             done == [T \in SUBSET {1, 2} |-> Done(T)]
  <1>1. M!BulkAddEdge(s, <<a, b>>) = M!Ok(it[{1, 2}])
    BY DEF M!BulkAddEdge, M!FoldLeft, M!MapThenFoldSet
  <1>2. \A T \in SubsetsOfTwo : After(done, T) = Done(T)
    <2>1. done[{}] = s /\ done[{1}] = One(1)
      OBVIOUS
    <2>2. After(done, {1}) = Done({1})
      <3> HIDE DEF done
      <3> QED BY <2>1, TwoElements
    <2>3. After(done, {2}) = Done({2})
      <3>1. {2} \ {2} = {} /\ {2} # {1}
        OBVIOUS
      <3> HIDE DEF done
      <3> QED BY <2>1, <3>1, TwoElements
    <2>4. After(done, {1, 2}) = Done({1, 2})
      <3>1. {1, 2} # {1} /\ {1, 2} # {2}
        OBVIOUS
      <3> HIDE DEF done
      <3> QED BY <2>1, <3>1, TwoElements
    <2> HIDE DEF done
    <2> QED BY <2>2, <2>3, <2>4 DEF SubsetsOfTwo
  <1>3. it = Rec(it)
    <2>1. done = Rec(done)
      BY <1>2, TwoElements
    <2> HIDE DEF done, Rec
    <2> QED BY <2>1
  <1>4. \A T \in SubsetsOfTwo : it[T] = After(it, T)
    <2> HIDE DEF it, After
    <2> QED BY <1>3, TwoElements
  <1>5. it[{}] = s
    <2> HIDE DEF it
    <2> QED BY <1>4 DEF SubsetsOfTwo
  <1>6. it[{1}] = One(1)
    <2>1. it[{1}] = After(it, {1})
      <3> HIDE DEF it, After
      <3> QED BY <1>4, TwoElements
    <2> HIDE DEF it, batch
    <2> QED BY <2>1, <1>5, TwoElements
  <1>7. it[{1, 2}] = Do(it[{1}], batch[2])
    <2>1. it[{1, 2}] = After(it, {1, 2})
      <3> HIDE DEF it, After
      <3> QED BY <1>4, TwoElements
    <2> HIDE DEF it, batch
    <2> QED BY <2>1, TwoElements
  <1>8. batch[1] = a /\ batch[2] = b
    OBVIOUS
  <1> QED
    <2> HIDE DEF it, batch
    <2> QED BY <1>1, <1>6, <1>7, <1>8 DEF M!AddEdge, M!Ok

\* (SQLiteStore.)
LEMMA SqlBulkAddEdge ==
    ASSUME NEW s, NEW a, NEW b
    PROVE  S!BulkAddEdge(s, <<a, b>>) = S!AddEdge(S!AddEdge(s, a.edge, a.attrs).store, b.edge, b.attrs)
  <1> DEFINE batch == <<a, b>>
             Do(acc, x) == S!InsertOrIgnore(acc, x.edge, S!Declared(x.attrs))
             After(f, T) == IF T = {} THEN s ELSE Do(f[T \ {S!Max(T)}], batch[S!Max(T)])
             Rec(f) == [T \in SUBSET {1, 2} |-> After(f, T)]
             One(n) == Do(s, batch[n])
             Done(T) == IF T = {} THEN s ELSE IF T = {1} THEN One(1)
                        ELSE IF T = {2} THEN One(2) ELSE Do(One(1), batch[2])
             it == CHOOSE f : f = Rec(f)
             done == [T \in SUBSET {1, 2} |-> Done(T)]
  <1>1. S!BulkAddEdge(s, <<a, b>>) = S!Ok(it[{1, 2}])
    BY DEF S!BulkAddEdge, S!FoldLeft, S!MapThenFoldSet
  <1>2. \A T \in SubsetsOfTwo : After(done, T) = Done(T)
    <2>1. done[{}] = s /\ done[{1}] = One(1)
      OBVIOUS
    <2>2. After(done, {1}) = Done({1})
      <3> HIDE DEF done
      <3> QED BY <2>1, TwoElements
    <2>3. After(done, {2}) = Done({2})
      <3>1. {2} \ {2} = {} /\ {2} # {1}
        OBVIOUS
      <3> HIDE DEF done
      <3> QED BY <2>1, <3>1, TwoElements
    <2>4. After(done, {1, 2}) = Done({1, 2})
      <3>1. {1, 2} # {1} /\ {1, 2} # {2}
        OBVIOUS
      <3> HIDE DEF done
      <3> QED BY <2>1, <3>1, TwoElements
    <2> HIDE DEF done
    <2> QED BY <2>2, <2>3, <2>4 DEF SubsetsOfTwo
  <1>3. it = Rec(it)
    <2>1. done = Rec(done)
      BY <1>2, TwoElements
    <2> HIDE DEF done, Rec
    <2> QED BY <2>1
  <1>4. \A T \in SubsetsOfTwo : it[T] = After(it, T)
    <2> HIDE DEF it, After
    <2> QED BY <1>3, TwoElements
  <1>5. it[{}] = s
    <2> HIDE DEF it
    <2> QED BY <1>4 DEF SubsetsOfTwo
  <1>6. it[{1}] = One(1)
    <2>1. it[{1}] = After(it, {1})
      <3> HIDE DEF it, After
      <3> QED BY <1>4, TwoElements
    <2> HIDE DEF it, batch
    <2> QED BY <2>1, <1>5, TwoElements
  <1>7. it[{1, 2}] = Do(it[{1}], batch[2])
    <2>1. it[{1, 2}] = After(it, {1, 2})
      <3> HIDE DEF it, After
      <3> QED BY <1>4, TwoElements
    <2> HIDE DEF it, batch
    <2> QED BY <2>1, TwoElements
  <1>8. batch[1] = a /\ batch[2] = b
    OBVIOUS
  <1> QED
    <2> HIDE DEF it, batch
    <2> QED BY <1>1, <1>6, <1>7, <1>8 DEF S!AddEdge, S!Ok


------------------------------------------------------------------------------
(* What a method leaves alone.                                             *)

ArtFields == {"labels", "text", "notes", "created", "updated", "inserted"}

IsArt(a) == DOMAIN a = ArtFields /\ a.inserted \in Nat

IsRows(rows) ==
    /\ DOMAIN rows \subseteq Ids
    /\ \A id \in DOMAIN rows : IsArt(rows[id]) /\ rows[id].inserted # Never

MemFields == {"rows", "aliases", "edges", "scopes", "metrics", "blobs", "revs", "events",
              "vectors", "hashes"}

SqlFields == MemFields \union {"labels", "sections"}

Triples == Ids \X Relations \X Ids

IsMem(s) == DOMAIN s = MemFields /\ IsRows(s.rows) /\ DOMAIN s.edges \subseteq Triples

IsSql(s) == DOMAIN s = SqlFields /\ IsRows(s.rows) /\ DOMAIN s.edges \subseteq Triples

\* A method that writes the artifacts ids and the edges edges, and no event.
Moves(s, t, ids, edges) ==
    /\ t.events = s.events
    /\ DOMAIN t.rows \subseteq DOMAIN s.rows \union ids
    /\ \A id \in DOMAIN s.rows \ ids : id \in DOMAIN t.rows /\ t.rows[id] = s.rows[id]
    /\ DOMAIN s.edges \ edges \subseteq DOMAIN t.edges

\* It stores the artifact art under id, with the time it was first put, or now.
Keeps(t, id, art, inserted) ==
    id \in DOMAIN t.rows /\ Content(t.rows[id]) = Content(art) /\ t.rows[id].inserted = inserted

Time == Nat \ {0}

LEMMA MovesInTurn ==
    ASSUME NEW s, NEW t, NEW u, NEW I, NEW J, NEW E, NEW F, Moves(s, t, I, E), Moves(t, u, J, F)
    PROVE  Moves(s, u, I \union J, E \union F)
  BY DEF Moves

LEMMA MemAppendRevision ==
    ASSUME NEW s, IsMem(s), NEW id, NEW a, NEW b
    PROVE  LET t == M!SnapshotIfChanged(s, id, a, b)
           IN  DOMAIN t = MemFields /\ t.rows = s.rows /\ t.edges = s.edges /\ t.events = s.events
  BY DEF M!SnapshotIfChanged, M!AppendRevision, IsMem, MemFields

LEMMA MemPut ==
    ASSUME NEW s, IsMem(s), NEW id \in Ids, NEW art, IsArt(art), NEW now \in Time
    PROVE  LET t == M!Put(s, id, art, now).store
           IN  /\ IsMem(t)
               /\ Moves(s, t, {id}, {})
               /\ Keeps(t, id, art, Stamp(art.inserted, now))
               /\ t.edges = s.edges
  <1> DEFINE new == M!Stamped(s, id, art, now)
             old == IF M!Has(s, id) THEN M!SnapshotIfChanged(s, id, s.rows[id], new) ELSE s
             t == M!Put(s, id, art, now).store
  <1>1. DOMAIN old = MemFields /\ old.rows = s.rows /\ old.edges = s.edges /\ old.events = s.events
    BY MemAppendRevision DEF IsMem
  <1>2. t = [old EXCEPT !.rows = M!Set(old.rows, id, new)]
    BY DEF M!Put, M!Ok
  <1>3. IsArt(new) /\ Content(new) = Content(art) /\ new.inserted = Stamp(art.inserted, now)
    BY DEF M!Stamped, M!Stamp, M!Never, Stamp, Never, IsArt, ArtFields, Content, Time
  <1>4. new.inserted # Never
    BY <1>3 DEF Stamp, Never, Time
  <1>5. DOMAIN t = MemFields /\ t.edges = s.edges /\ t.events = s.events /\ t.rows = M!Set(s.rows, id, new)
    <2> HIDE DEF old, new, t
    <2> QED BY <1>1, <1>2 DEF MemFields
  <1> HIDE DEF t, new
  <1>6. /\ DOMAIN t.rows = DOMAIN s.rows \union {id} /\ t.rows[id] = new
        /\ \A j \in DOMAIN s.rows \ {id} : t.rows[j] = s.rows[j]
    BY <1>5 DEF M!Set
  <1>7. IsMem(t)
    BY <1>3, <1>4, <1>5, <1>6 DEF IsMem, IsRows
  <1>8. Moves(s, t, {id}, {})
    BY <1>5, <1>6 DEF Moves
  <1> QED BY <1>3, <1>5, <1>6, <1>7, <1>8 DEF t, Keeps

\* A method that writes neither artifacts nor edges nor events.
Aside(s, t) == DOMAIN t = DOMAIN s /\ t.rows = s.rows /\ t.edges = s.edges /\ t.events = s.events

LEMMA MemAside ==
    ASSUME NEW s, IsMem(s), NEW x, NEW y, NEW z, NEW w
    PROVE  /\ Aside(s, M!AddAlias(s, x, y).store)
           /\ Aside(s, M!RemoveAlias(s, x, y).store)
           /\ Aside(s, M!PruneRevisions(s, x, y).store)
           /\ Aside(s, M!PurgeRevisions(s, x).store)
           /\ Aside(s, M!SetScopeLabels(s, x, y).store)
           /\ Aside(s, M!PutAttachment(s, x, y, z).store)
           /\ Aside(s, M!DeleteAttachment(s, x, y).store)
           /\ Aside(s, M!RecordAccess(s, x, y).store)
           /\ Aside(s, M!PutEmbedding(s, x, y, z, w).store)
           /\ Aside(s, M!PutSectionEmbedding(s, x, y, z, w).store)
  <1> USE DEF Aside, IsMem, MemFields, M!Ok, M!Fail, M!Count
  <1>1. Aside(s, M!AddAlias(s, x, y).store) /\ Aside(s, M!RemoveAlias(s, x, y).store)
    BY DEF M!AddAlias, M!RemoveAlias
  <1>2. Aside(s, M!PruneRevisions(s, x, y).store) /\ Aside(s, M!PurgeRevisions(s, x).store)
    BY DEF M!PruneRevisions, M!PurgeRevisions
  <1>3. Aside(s, M!SetScopeLabels(s, x, y).store)
    BY DEF M!SetScopeLabels
  <1>4. /\ Aside(s, M!PutAttachment(s, x, y, z).store)
        /\ Aside(s, M!DeleteAttachment(s, x, y).store)
    BY DEF M!PutAttachment, M!DeleteAttachment
  <1>5. Aside(s, M!RecordAccess(s, x, y).store)
    BY DEF M!RecordAccess
  <1>6. /\ Aside(s, M!PutEmbedding(s, x, y, z, w).store)
        /\ Aside(s, M!PutSectionEmbedding(s, x, y, z, w).store)
    BY DEF M!PutEmbedding, M!PutSectionEmbedding
  <1> QED BY <1>1, <1>2, <1>3, <1>4, <1>5, <1>6

\* The row of id, if there is one, is another text or a later version of itself.
LEMMA MemEditCopy ==
    ASSUME NEW s, IsMem(s), NEW id \in DOMAIN s.rows, NEW text
    PROVE  LET t == M!EditCopy(s, id, text)
           IN  /\ IsMem(t)
               /\ Moves(s, t, {id}, {})
               /\ DOMAIN t.rows = DOMAIN s.rows
               /\ t.rows[id].inserted = s.rows[id].inserted
               /\ t.edges = s.edges
  <1> DEFINE new == M!SharedText(s.rows[id], text)
             t == M!EditCopy(s, id, text)
  <1>1. IsArt(new) /\ new.inserted = s.rows[id].inserted
    BY DEF M!SharedText, IsMem, IsRows, IsArt, ArtFields
  <1> HIDE DEF new
  <1>2. /\ DOMAIN t = MemFields /\ t.edges = s.edges /\ t.events = s.events
        /\ t.rows = [s.rows EXCEPT ![id] = new]
    BY DEF M!EditCopy, IsMem, MemFields, new
  <1> HIDE DEF t
  <1>3. DOMAIN t.rows = DOMAIN s.rows /\ t.rows[id] = new /\ \A j \in DOMAIN s.rows \ {id} : t.rows[j] = s.rows[j]
    BY <1>2
  <1> QED BY <1>1, <1>2, <1>3 DEF t, IsMem, IsRows, Moves

\* A row of an artifact that is stored is written over, and keeps when it was put.
Rewrites(s, t, id) ==
    /\ Moves(s, t, {id}, {})
    /\ DOMAIN t.rows = DOMAIN s.rows
    /\ \A j \in DOMAIN s.rows : t.rows[j].inserted = s.rows[j].inserted
    /\ t.edges = s.edges

LEMMA MemPutIfVersion ==
    ASSUME NEW s, IsMem(s), NEW id, NEW art, IsArt(art), NEW now \in Time, NEW expected,
           id \in DOMAIN s.rows => art.inserted = s.rows[id].inserted
    PROVE  LET t == M!PutIfVersion(s, id, art, expected, now).store
           IN  IsMem(t) /\ Rewrites(s, t, id)
  <1> DEFINE t == M!PutIfVersion(s, id, art, expected, now).store
             new == [art EXCEPT !.created = M!Stamp(@, now), !.updated = now,
                                !.inserted = M!Stamp(@, now)]
             old == M!SnapshotIfChanged(s, id, s.rows[id], new)
  <1>1. CASE t = s
    BY <1>1 DEF Rewrites, Moves
  <1>2. CASE id \in DOMAIN s.rows /\ t = [old EXCEPT !.rows[id] = new]
    <2>1. DOMAIN old = MemFields /\ old.rows = s.rows /\ old.edges = s.edges /\ old.events = s.events
      BY MemAppendRevision
    <2>2. IsArt(new) /\ new.inserted = s.rows[id].inserted /\ new.inserted # Never
      BY <1>2 DEF M!Stamp, M!Never, Never, IsMem, IsRows, IsArt, ArtFields, Time
    <2>3. /\ DOMAIN t = MemFields /\ t.edges = s.edges /\ t.events = s.events
          /\ t.rows = [s.rows EXCEPT ![id] = new]
      <3> HIDE DEF old, new, t
      <3> QED BY <1>2, <2>1 DEF MemFields
    <2> HIDE DEF t, new
    <2>4. DOMAIN t.rows = DOMAIN s.rows /\ t.rows[id] = new /\ \A j \in DOMAIN s.rows \ {id} : t.rows[j] = s.rows[j]
      BY <1>2, <2>3
    <2> QED BY <1>2, <2>2, <2>3, <2>4 DEF t, IsMem, IsRows, Moves, Rewrites
  <1>3. t = s \/ (id \in DOMAIN s.rows /\ t = [old EXCEPT !.rows[id] = new])
    BY DEF M!PutIfVersion, M!Has, M!Fail, M!Ok
  <1> QED BY <1>1, <1>2, <1>3

LEMMA MemPatchArtifact ==
    ASSUME NEW s, IsMem(s), NEW id, NEW patch, NEW now \in Time
    PROVE  LET t == M!PatchArtifact(s, id, patch, now).store
           IN  IsMem(t) /\ Rewrites(s, t, id)
  <1> DEFINE t == M!PatchArtifact(s, id, patch, now).store
             new == M!Patched(s.rows[id], patch, now)
             old == M!SnapshotIfChanged(s, id, M!SharedText(s.rows[id], patch.text), new)
  <1>1. CASE t = s
    BY <1>1 DEF Rewrites, Moves
  <1>2. CASE id \in DOMAIN s.rows /\ t = [old EXCEPT !.rows[id] = new]
    <2>1. DOMAIN old = MemFields /\ old.rows = s.rows /\ old.edges = s.edges /\ old.events = s.events
      BY MemAppendRevision
    <2>2. IsArt(new) /\ new.inserted = s.rows[id].inserted /\ new.inserted # Never
      BY <1>2 DEF M!Patched, IsMem, IsRows, IsArt, ArtFields
    <2>3. /\ DOMAIN t = MemFields /\ t.edges = s.edges /\ t.events = s.events
          /\ t.rows = [s.rows EXCEPT ![id] = new]
      <3> HIDE DEF old, new, t
      <3> QED BY <1>2, <2>1 DEF MemFields
    <2> HIDE DEF t, new
    <2>4. DOMAIN t.rows = DOMAIN s.rows /\ t.rows[id] = new /\ \A j \in DOMAIN s.rows \ {id} : t.rows[j] = s.rows[j]
      BY <1>2, <2>3
    <2> QED BY <1>2, <2>2, <2>3, <2>4 DEF t, IsMem, IsRows, Moves, Rewrites
  <1>3. t = s \/ (id \in DOMAIN s.rows /\ t = [old EXCEPT !.rows[id] = new])
    BY DEF M!PatchArtifact, M!Has, M!Fail, M!Ok
  <1> QED BY <1>1, <1>2, <1>3

LEMMA MemDelete ==
    ASSUME NEW s, IsMem(s), NEW id
    PROVE  LET t == M!Delete(s, id).store
           IN  /\ IsMem(t)
               /\ Moves(s, t, {id}, M!EdgesOf(s, id))
               /\ DOMAIN t.rows = DOMAIN s.rows \ {id}
  <1> DEFINE t == M!Delete(s, id).store
             old == M!AppendRevision(s, id, s.rows[id])
  <1>1. CASE ~M!Has(s, id)
    BY <1>1 DEF M!Delete, M!Fail, M!Has, Moves
  <1>2. CASE M!Has(s, id)
    <2>1. DOMAIN old = MemFields /\ old.rows = s.rows /\ old.edges = s.edges /\ old.events = s.events
      BY DEF M!AppendRevision, IsMem, MemFields
    <2>2. t = [old EXCEPT !.rows = M!Without(@, {id}),
                          !.edges = M!Without(@, M!EdgesOf(s, id)),
                          !.blobs = M!Without(@, {b \in DOMAIN s.blobs : b[1] = id})]
      BY <1>2 DEF M!Delete, M!Ok
    <2> HIDE DEF old, t
    <2>3. /\ DOMAIN t = MemFields /\ t.events = s.events
          /\ t.rows = M!Without(s.rows, {id})
          /\ t.edges = M!Without(s.edges, M!EdgesOf(s, id))
      BY <2>1, <2>2 DEF MemFields
    <2> QED BY <2>3 DEF t, M!Without, M!Restrict, IsMem, IsRows, Moves
  <1> QED BY <1>1, <1>2

LEMMA MemRenameID ==
    ASSUME NEW s, IsMem(s), NEW old \in Ids, NEW new \in Ids
    PROVE  LET t == M!RenameID(s, old, new).store
           IN  IsMem(t) /\ Moves(s, t, {old, new}, M!EdgesOf(s, old))
  <1> DEFINE t == M!RenameID(s, old, new).store
             rows == M!Without(M!Set(s.rows, new, s.rows[old]), {old})
             edges == M!RenamedEdges(s.edges, old, new)
  <1>1. CASE ~M!Has(s, old)
    BY <1>1 DEF M!RenameID, M!Fail, Moves
  <1>2. CASE M!Has(s, old)
    <2>1. DOMAIN t = MemFields /\ t.events = s.events /\ t.rows = rows /\ t.edges = edges
      BY <1>2 DEF M!RenameID, M!Ok, IsMem, MemFields
    <2>2. /\ DOMAIN rows = (DOMAIN s.rows \union {new}) \ {old}
          /\ \A j \in DOMAIN rows : rows[j] = IF j = new THEN s.rows[old] ELSE s.rows[j]
      BY DEF M!Without, M!Restrict, M!Set
    <2>3. DOMAIN s.edges \ M!EdgesOf(s, old) \subseteq DOMAIN edges
      BY DEF M!RenamedEdges, M!EdgesOf
    <2>5. DOMAIN edges \subseteq Triples
      BY DEF M!RenamedEdges, M!RenamedEdge, M!Renamed, M!From, M!To, M!Relation, IsMem, Triples
    <2> HIDE DEF t, rows, edges
    <2>4. IsRows(rows)
      BY <1>2, <2>2 DEF M!Has, IsMem, IsRows
    <2> QED BY <2>1, <2>2, <2>3, <2>4, <2>5 DEF t, IsMem, Moves
  <1> QED BY <1>1, <1>2

LEMMA MemEdges ==
    ASSUME NEW s, IsMem(s), NEW e \in Triples, NEW x
    PROVE  \A t \in {M!AddEdge(s, e, x).store, M!RemoveEdge(s, e).store,
                     M!AddEdgeSource(s, e, x).store, M!RemoveEdgeSource(s, e, x).store,
                     M!UpdateEdgeWeight(s, e, x).store} :
               IsMem(t) /\ Moves(s, t, {}, {e}) /\ t.rows = s.rows
  <1> DEFINE Good(t) == IsMem(t) /\ Moves(s, t, {}, {e}) /\ t.rows = s.rows
  <1>1. Good(M!AddEdge(s, e, x).store) /\ Good(M!RemoveEdge(s, e).store)
    BY DEF M!AddEdge, M!RemoveEdge, M!Ok, M!Set, M!Without, M!Restrict, IsMem, MemFields, Moves
  <1>2. Good(M!AddEdgeSource(s, e, x).store)
    BY DEF M!AddEdgeSource, M!Ok, M!Set, IsMem, MemFields, Moves
  <1>3. Good(M!RemoveEdgeSource(s, e, x).store)
    BY DEF M!RemoveEdgeSource, M!Ok, M!Without, M!Restrict, IsMem, MemFields, Moves
  <1>4. Good(M!UpdateEdgeWeight(s, e, x).store)
    BY DEF M!UpdateEdgeWeight, M!Ok, M!Fail, IsMem, MemFields, Moves
  <1> QED BY <1>1, <1>2, <1>3, <1>4

LEMMA MemAddEdge ==
    ASSUME NEW s, IsMem(s), NEW e, NEW x
    PROVE  LET t == M!AddEdge(s, e, x).store
           IN  e \in DOMAIN t.edges /\ DOMAIN s.edges \subseteq DOMAIN t.edges
  BY DEF M!AddEdge, M!Ok, M!Set, IsMem, MemFields

\* AppendEvent writes the log alone.
LEMMA MemAppendEvent ==
    ASSUME NEW s, IsMem(s), NEW ev, NEW now
    PROVE  LET t == M!AppendEvent(s, ev, now).store
           IN  IsMem(t) /\ t.rows = s.rows /\ t.edges = s.edges
               /\ t.events = Append(s.events, [ev EXCEPT !.ts = M!Stamp(@, now)])
  BY DEF M!AppendEvent, M!Ok, IsMem, MemFields

------------------------------------------------------------------------------
(* The same of SQLiteStore.                                                *)

LEMMA SqlOnUpdate ==
    ASSUME NEW s, IsSql(s), NEW id, NEW new
    PROVE  LET t == S!OnUpdate(s, id, new)
           IN  DOMAIN t = SqlFields /\ t.rows = s.rows /\ t.edges = s.edges /\ t.events = s.events
  BY DEF S!OnUpdate, S!OnDelete, S!DropRevs, IsSql, SqlFields, MemFields

LEMMA SqlSyncLabels ==
    ASSUME NEW s, DOMAIN s = SqlFields, NEW id, NEW labels
    PROVE  LET t == S!SyncLabels(s, id, labels)
           IN  DOMAIN t = SqlFields /\ t.rows = s.rows /\ t.edges = s.edges /\ t.events = s.events
  BY DEF S!SyncLabels, SqlFields, MemFields

\* An update of a row keeps when it was put.
LEMMA SqlUpdate ==
    ASSUME NEW s, IsSql(s), NEW id \in DOMAIN s.rows, NEW art, IsArt(art), NEW now \in Time
    PROVE  LET t == S!Update(s, id, art, now)
           IN  /\ IsSql(t)
               /\ Rewrites(s, t, id)
               /\ Keeps(t, id, art, s.rows[id].inserted)
  <1> DEFINE new == [art EXCEPT !.created = s.rows[id].created, !.updated = now,
                                !.inserted = s.rows[id].inserted]
             old == S!OnUpdate(s, id, new)
             t == S!Update(s, id, art, now)
  <1>1. t = [old EXCEPT !.rows[id] = new]
    BY DEF S!Update
  <1>2. DOMAIN old = SqlFields /\ old.rows = s.rows /\ old.edges = s.edges /\ old.events = s.events
    BY SqlOnUpdate
  <1>3. IsArt(new) /\ Content(new) = Content(art) /\ new.inserted = s.rows[id].inserted
    BY DEF IsSql, IsRows, IsArt, ArtFields, Content
  <1> HIDE DEF old, new, t
  <1>4. /\ DOMAIN t = SqlFields /\ t.edges = s.edges /\ t.events = s.events
        /\ t.rows = [s.rows EXCEPT ![id] = new]
    BY <1>1, <1>2 DEF SqlFields, MemFields
  <1>5. DOMAIN t.rows = DOMAIN s.rows /\ t.rows[id] = new /\ \A j \in DOMAIN s.rows \ {id} : t.rows[j] = s.rows[j]
    BY <1>4
  <1> QED BY <1>3, <1>4, <1>5 DEF t, IsSql, IsRows, Moves, Rewrites, Keeps

LEMMA SqlInsert ==
    ASSUME NEW s, IsSql(s), NEW id \in Ids, NEW art, IsArt(art), NEW now \in Time
    PROVE  LET t == S!Insert(s, id, art, now)
           IN  /\ IsSql(t)
               /\ Moves(s, t, {id}, {})
               /\ Keeps(t, id, art, Stamp(art.inserted, now))
               /\ t.edges = s.edges
  <1> DEFINE new == [art EXCEPT !.created = S!Stamp(@, now), !.updated = now,
                                !.inserted = S!Stamp(@, now)]
             t == S!Insert(s, id, art, now)
  <1>1. IsArt(new) /\ Content(new) = Content(art) /\ new.inserted = Stamp(art.inserted, now)
    BY DEF S!Stamp, S!Never, Stamp, Never, IsArt, ArtFields, Content, Time
  <1>2. new.inserted # Never
    BY <1>1 DEF Stamp, Never, Time
  <1>3. /\ DOMAIN t = SqlFields /\ t.edges = s.edges /\ t.events = s.events
        /\ t.rows = S!Set(s.rows, id, new)
    BY DEF S!Insert, IsSql, SqlFields, MemFields
  <1> HIDE DEF t, new
  <1>4. /\ DOMAIN t.rows = DOMAIN s.rows \union {id} /\ t.rows[id] = new
        /\ \A j \in DOMAIN s.rows \ {id} : t.rows[j] = s.rows[j]
    BY <1>3 DEF S!Set
  <1> QED BY <1>1, <1>2, <1>3, <1>4 DEF t, IsSql, IsRows, Moves, Keeps

LEMMA SqlPut ==
    ASSUME NEW s, IsSql(s), NEW id \in Ids, NEW art, IsArt(art), NEW now \in Time
    PROVE  LET t == S!Put(s, id, art, now).store
           IN  /\ IsSql(t)
               /\ Moves(s, t, {id}, {})
               /\ Keeps(t, id, art, IF id \in DOMAIN s.rows THEN s.rows[id].inserted
                                                            ELSE Stamp(art.inserted, now))
               /\ t.edges = s.edges
  <1> DEFINE u == IF S!Has(s, id) THEN S!Update(s, id, art, now) ELSE S!Insert(s, id, art, now)
             t == S!Put(s, id, art, now).store
  <1>1. t = S!SyncLabels(u, id, art.labels)
    BY DEF S!Put, S!Upsert, S!Ok
  <1>2. /\ IsSql(u) /\ Moves(s, u, {id}, {}) /\ u.edges = s.edges
        /\ Keeps(u, id, art, IF id \in DOMAIN s.rows THEN s.rows[id].inserted ELSE Stamp(art.inserted, now))
    <2>1. CASE id \in DOMAIN s.rows
      <3>1. u = S!Update(s, id, art, now)
        BY <2>1 DEF S!Has
      <3> HIDE DEF u
      <3> QED BY <2>1, <3>1, SqlUpdate DEF Rewrites
    <2>2. CASE id \notin DOMAIN s.rows
      <3>1. u = S!Insert(s, id, art, now)
        BY <2>2 DEF S!Has
      <3> HIDE DEF u
      <3> QED BY <2>2, <3>1, SqlInsert
    <2> QED BY <2>1, <2>2
  <1> HIDE DEF u, t
  <1>3. DOMAIN t = SqlFields /\ t.rows = u.rows /\ t.edges = u.edges /\ t.events = u.events
    BY <1>1, <1>2, SqlSyncLabels DEF IsSql
  <1> QED BY <1>2, <1>3 DEF t, IsSql, Moves, Keeps

LEMMA SqlPutIfVersion ==
    ASSUME NEW s, IsSql(s), NEW id, NEW art, IsArt(art), NEW now \in Time, NEW expected
    PROVE  LET t == S!PutIfVersion(s, id, art, expected, now).store
           IN  IsSql(t) /\ Rewrites(s, t, id)
  <1> DEFINE u == S!Update(s, id, art, now)
             t == S!PutIfVersion(s, id, art, expected, now).store
  <1>1. t = s \/ (id \in DOMAIN s.rows /\ t = S!SyncLabels(u, id, art.labels))
    BY DEF S!PutIfVersion, S!Has, S!Fail, S!Ok
  <1>2. CASE t = s
    BY <1>2 DEF Rewrites, Moves
  <1>3. CASE id \in DOMAIN s.rows /\ t = S!SyncLabels(u, id, art.labels)
    <2>1. IsSql(u) /\ Rewrites(s, u, id)
      BY <1>3, SqlUpdate
    <2> HIDE DEF u, t
    <2>2. DOMAIN t = SqlFields /\ t.rows = u.rows /\ t.edges = u.edges /\ t.events = u.events
      BY <1>3, <2>1, SqlSyncLabels DEF IsSql
    <2> QED BY <2>1, <2>2 DEF t, IsSql, Moves, Rewrites
  <1> QED BY <1>1, <1>2, <1>3

LEMMA SqlPatchArtifact ==
    ASSUME NEW s, IsSql(s), NEW id, NEW patch, NEW now \in Time
    PROVE  LET t == S!PatchArtifact(s, id, patch, now).store
           IN  IsSql(t) /\ Rewrites(s, t, id)
  <1> DEFINE new == S!Patched(s.rows[id], patch, now)
             t == S!PatchArtifact(s, id, patch, now).store
  <1>1. t = s \/ (id \in DOMAIN s.rows /\ t = S!Update(s, id, new, now))
    BY DEF S!PatchArtifact, S!Has, S!Fail, S!Ok
  <1>2. CASE t = s
    BY <1>2 DEF Rewrites, Moves
  <1>3. CASE id \in DOMAIN s.rows /\ t = S!Update(s, id, new, now)
    <2>1. IsArt(new)
      BY <1>3 DEF S!Patched, IsSql, IsRows, IsArt, ArtFields
    <2> HIDE DEF new
    <2> QED BY <1>3, <2>1, SqlUpdate
  <1> QED BY <1>1, <1>2, <1>3

LEMMA SqlAside ==
    ASSUME NEW s, IsSql(s), NEW x, NEW y, NEW z, NEW w
    PROVE  /\ Aside(s, S!AddAlias(s, x, y).store)
           /\ Aside(s, S!RemoveAlias(s, x, y).store)
           /\ Aside(s, S!PruneRevisions(s, x, y).store)
           /\ Aside(s, S!PurgeRevisions(s, x).store)
           /\ Aside(s, S!SetScopeLabels(s, x, y).store)
           /\ Aside(s, S!PutAttachment(s, x, y, z).store)
           /\ Aside(s, S!DeleteAttachment(s, x, y).store)
           /\ Aside(s, S!RecordAccess(s, x, y).store)
           /\ Aside(s, S!PutEmbedding(s, x, y, z, w).store)
           /\ Aside(s, S!PutSectionEmbedding(s, x, y, z, w).store)
  <1> USE DEF Aside, IsSql, SqlFields, MemFields, S!Ok, S!Fail, S!Count
  <1>1. Aside(s, S!AddAlias(s, x, y).store) /\ Aside(s, S!RemoveAlias(s, x, y).store)
    BY DEF S!AddAlias, S!RemoveAlias
  <1>2. Aside(s, S!PruneRevisions(s, x, y).store) /\ Aside(s, S!PurgeRevisions(s, x).store)
    BY DEF S!PruneRevisions, S!PurgeRevisions, S!DropRevs
  <1>3. Aside(s, S!SetScopeLabels(s, x, y).store)
    BY DEF S!SetScopeLabels
  <1>4. /\ Aside(s, S!PutAttachment(s, x, y, z).store)
        /\ Aside(s, S!DeleteAttachment(s, x, y).store)
    BY DEF S!PutAttachment, S!DeleteAttachment
  <1>5. Aside(s, S!RecordAccess(s, x, y).store)
    BY DEF S!RecordAccess
  <1>6. /\ Aside(s, S!PutEmbedding(s, x, y, z, w).store)
        /\ Aside(s, S!PutSectionEmbedding(s, x, y, z, w).store)
    BY DEF S!PutEmbedding, S!PutSectionEmbedding
  <1> QED BY <1>1, <1>2, <1>3, <1>4, <1>5, <1>6

LEMMA SqlDelete ==
    ASSUME NEW s, IsSql(s), NEW id
    PROVE  LET t == S!Delete(s, id).store
           IN  /\ IsSql(t)
               /\ Moves(s, t, {id}, S!EdgesOf(s, id))
               /\ DOMAIN t.rows = DOMAIN s.rows \ {id}
  <1> DEFINE t == S!Delete(s, id).store
             old == S!OnDelete(s, id)
  <1>1. CASE ~S!Has(s, id)
    BY <1>1 DEF S!Delete, S!Fail, S!Has, Moves
  <1>2. CASE S!Has(s, id)
    <2>1. DOMAIN old = SqlFields /\ old.rows = s.rows /\ old.edges = s.edges /\ old.events = s.events
      BY DEF S!OnDelete, IsSql, SqlFields, MemFields
    <2>2. t = [old EXCEPT !.rows = S!Without(@, {id}),
                          !.edges = S!Without(@, S!EdgesOf(s, id)),
                          !.blobs = S!Without(@, {b \in DOMAIN s.blobs : b[1] = id})]
      BY <1>2 DEF S!Delete, S!Ok
    <2> HIDE DEF old, t
    <2>3. /\ DOMAIN t = SqlFields /\ t.events = s.events
          /\ t.rows = S!Without(s.rows, {id})
          /\ t.edges = S!Without(s.edges, S!EdgesOf(s, id))
      BY <2>1, <2>2 DEF SqlFields, MemFields
    <2> QED BY <2>3 DEF t, S!Without, S!Restrict, IsSql, IsRows, Moves
  <1> QED BY <1>1, <1>2

LEMMA SqlRenameID ==
    ASSUME NEW s, IsSql(s), NEW old \in Ids, NEW new \in Ids
    PROVE  LET t == S!RenameID(s, old, new).store
           IN  IsSql(t) /\ Moves(s, t, {old, new}, S!EdgesOf(s, old))
  <1> DEFINE t == S!RenameID(s, old, new).store
             Edge(e) == S!ToRenamed(S!FromRenamed(e, old, new), old, new)
             rows == S!Set(S!Without(s.rows, {old}), new, s.rows[old])
             edges == [k \in {Edge(e) : e \in DOMAIN s.edges} |->
                          s.edges[CHOOSE e \in DOMAIN s.edges : Edge(e) = k]]
  <1>1. CASE t = s
    BY <1>1 DEF Moves
  <1>2. CASE old \in DOMAIN s.rows /\ DOMAIN t = SqlFields /\ t.events = s.events /\ t.rows = rows /\ t.edges = edges
    <2>1. /\ DOMAIN rows = (DOMAIN s.rows \ {old}) \union {new}
          /\ \A j \in DOMAIN rows : rows[j] = IF j = new THEN s.rows[old] ELSE s.rows[j]
      BY DEF S!Without, S!Restrict, S!Set
    <2>2. ASSUME NEW e \in DOMAIN s.edges
          PROVE  Edge(e) \in Triples /\ (e \notin S!EdgesOf(s, old) => Edge(e) = e)
      BY DEF S!ToRenamed, S!FromRenamed, S!Renamed, S!From, S!To, S!Relation, S!EdgesOf, IsSql, Triples
    <2> HIDE DEF Edge
    <2>3. DOMAIN edges \subseteq Triples /\ DOMAIN s.edges \ S!EdgesOf(s, old) \subseteq DOMAIN edges
      BY <2>2
    <2> HIDE DEF t, rows, edges
    <2>4. IsRows(rows)
      BY <1>2, <2>1 DEF IsSql, IsRows
    <2> QED BY <1>2, <2>1, <2>3, <2>4 DEF t, IsSql, Moves
  <1>3. t = s \/ (old \in DOMAIN s.rows /\ DOMAIN t = SqlFields /\ t.events = s.events /\ t.rows = rows /\ t.edges = edges)
    BY DEF S!RenameID, S!Has, S!Fail, S!Ok, IsSql, SqlFields, MemFields
  <1> QED BY <1>1, <1>2, <1>3

LEMMA SqlEdges ==
    ASSUME NEW s, IsSql(s), NEW e \in Triples, NEW x
    PROVE  \A t \in {S!AddEdge(s, e, x).store, S!RemoveEdge(s, e).store,
                     S!AddEdgeSource(s, e, x).store, S!RemoveEdgeSource(s, e, x).store,
                     S!UpdateEdgeWeight(s, e, x).store} :
               IsSql(t) /\ Moves(s, t, {}, {e}) /\ t.rows = s.rows
  <1> DEFINE Good(t) == IsSql(t) /\ Moves(s, t, {}, {e}) /\ t.rows = s.rows
  <1>1. Good(S!RemoveEdge(s, e).store)
    BY DEF S!RemoveEdge, S!Ok, S!Without, S!Restrict, IsSql, SqlFields, MemFields, Moves
  <1>2. ASSUME NEW attrs PROVE Good(S!InsertOrIgnore(s, e, attrs))
    BY DEF S!InsertOrIgnore, S!Set, IsSql, SqlFields, MemFields, Moves
  <1>3. Good(S!AddEdge(s, e, x).store)
    BY <1>2 DEF S!AddEdge, S!Ok
  <1>4. Good(S!AddEdgeSource(s, e, x).store)
    <2> DEFINE t == S!InsertOrIgnore(s, e, [weight |-> 0, sources |-> <<x>>])
    <2>1. Good(t)
      BY <1>2
    <2> HIDE DEF t
    <2>2. Good([t EXCEPT !.edges[e].sources = Append(@, x)])
      BY <2>1 DEF IsSql, SqlFields, MemFields, Moves
    <2> QED BY <2>1, <2>2 DEF S!AddEdgeSource, S!Ok, t
  <1>5. Good(S!RemoveEdgeSource(s, e, x).store)
    BY <1>1 DEF S!RemoveEdgeSource, S!Ok, IsSql, SqlFields, MemFields, Moves
  <1>6. Good(S!UpdateEdgeWeight(s, e, x).store)
    BY DEF S!UpdateEdgeWeight, S!Ok, S!Fail, IsSql, SqlFields, MemFields, Moves
  <1> QED BY <1>1, <1>3, <1>4, <1>5, <1>6

LEMMA SqlAddEdge ==
    ASSUME NEW s, IsSql(s), NEW e, NEW x
    PROVE  LET t == S!AddEdge(s, e, x).store
           IN  e \in DOMAIN t.edges /\ DOMAIN s.edges \subseteq DOMAIN t.edges
  BY DEF S!AddEdge, S!InsertOrIgnore, S!Ok, S!Set, IsSql, SqlFields, MemFields

LEMMA SqlAppendEvent ==
    ASSUME NEW s, IsSql(s), NEW ev, NEW now
    PROVE  LET t == S!AppendEvent(s, ev, now).store
           IN  IsSql(t) /\ t.rows = s.rows /\ t.edges = s.edges
               /\ t.events = Append(s.events, [ev EXCEPT !.ts = S!Stamp(@, now)])
  BY DEF S!AppendEvent, S!Ok, IsSql, SqlFields, MemFields

------------------------------------------------------------------------------
(* What a call writes, in both stores.                                     *)

IsCapsule(c) ==
    /\ DOMAIN c = {"rows", "edges"}
    /\ IsRows(c.rows)
    /\ DOMAIN c.edges \subseteq Triples

IsImport(i) ==
    /\ DOMAIN i = {"stage", "mem", "sql", "todoRows", "todoEdges", "ids", "edges"}
    /\ IsCapsule(i.mem) /\ IsCapsule(i.sql)
    /\ i.todoRows \subseteq Ids /\ i.todoEdges \subseteq Triples

Shaped == IsMem(mem) /\ IsSql(sql) /\ clock \in Time /\ IsImport(import)

\* An import under way is told what a call writes.
ImportTold(ids, edges) ==
    import' = IF Written THEN [import EXCEPT !.ids = @ \union ids, !.edges = @ \union edges]
                         ELSE import

\* And so is a reader, of the artifacts.
ReaderTold(ids) ==
    /\ reader' = [mem |-> Meanwhile(reader.mem, ids, mem.rows),
                  sql |-> Meanwhile(reader.sql, ids, sql.rows)]
    /\ profile' = profile

\* The step is a call that writes these artifacts and edges.
Wrote(ids, edges) ==
    /\ IsMem(mem') /\ Moves(mem, mem', ids, edges)
    /\ IsSql(sql') /\ Moves(sql, sql', ids, edges)
    /\ clock' \in {clock, clock + 1}
    /\ ImportTold(ids, edges)
    /\ ReaderTold(ids)
    /\ poller' = poller

LEMMA DraftIsArt == \A d \in Range(Drafts) : IsArt(d) /\ d.inserted = Never
  BY StoresAssumption DEF Artifact, IsArt, ArtFields, Never

LEMMA FirstDraft == Drafts[1] \in Range(Drafts)
  BY StoresAssumption DEF Range

LEMMA StampsAreTimes == ASSUME Shaped PROVE Stamps \subseteq Time /\ clock + 1 \in Time
  <1>1. clock \in Nat /\ clock + 1 \in Time
    BY DEF Shaped, Time
  <1>2. ASSUME clock > 3 PROVE clock - 1 \in Time
    BY <1>1, <1>2 DEF Time
  <1> QED BY <1>1, <1>2 DEF Stamps

LEMMA CallWrote ==
    ASSUME Shaped, NEW op, NEW m, NEW q, NEW ids, NEW edges, Call(op, m, q, ids, edges),
           IsMem(m.store), Moves(mem, m.store, ids, edges),
           IsSql(q.store), Moves(sql, q.store, ids, edges),
           clock' \in {clock, clock + 1}
    PROVE  Wrote(ids, edges)
  BY DEF Call, Wrote, ImportTold, ReaderTold

LEMMA TickIsTime ==
    ASSUME Shaped, NEW now \in Stamps \union {clock, clock + 1}, Tick(now)
    PROVE  clock' \in {clock, clock + 1}
  <1>1. clock \in Nat
    BY DEF Shaped, Time
  <1>2. now \in {clock - 1, clock, clock + 1}
    BY DEF Stamps
  <1> QED BY <1>1, <1>2 DEF Tick

LEMMA EditedIsArt ==
    ASSUME NEW art, IsArt(art), NEW e
    PROVE  IsArt(Edited(art, e)) /\ Edited(art, e).inserted = art.inserted
  BY DEF Edited, Patched, IsArt, ArtFields

LEMMA PutWrites ==
    ASSUME Shaped, NEW id \in Ids, NEW d \in Range(Drafts), Put(id, d)
    PROVE  Wrote({id}, {})
  <1>1. PICK now \in Stamps : Call("put", M!Put(mem, id, d, now), S!Put(sql, id, d, now), {id}, {}) /\ Tick(now)
    BY DEF Put
  <1> QED BY <1>1, CallWrote, TickIsTime, StampsAreTimes, DraftIsArt, MemPut, SqlPut DEF Shaped

LEMMA BulkPutWrites ==
    ASSUME Shaped, NEW i \in Ids, NEW j \in Ids, NEW d \in Range(Drafts), BulkPut(i, j, d)
    PROVE  Wrote({i, j}, {})
  <1> DEFINE now == clock + 1
             a == [id |-> i, art |-> d]
             b == [id |-> j, art |-> d]
             m == M!BulkPut(mem, <<a, b>>, now)
             q == S!BulkPut(sql, <<a, b>>, now)
  <1>1. Call("bulk", m, q, {i, j}, {}) /\ Tick(now)
    BY DEF BulkPut
  <1>2. now \in Time /\ IsArt(d) /\ IsMem(mem) /\ IsSql(sql)
    BY StampsAreTimes, DraftIsArt DEF Shaped
  <1>3. IsMem(m.store) /\ Moves(mem, m.store, {i, j}, {})
    <2> DEFINE t == M!Put(mem, i, d, now).store
               u == M!Put(t, j, d, now).store
    <2>1. m.store = u
      BY MemBulkPut
    <2> HIDE DEF now, m, t, u
    <2>2. IsMem(t) /\ Moves(mem, t, {i}, {})
      BY <1>2, MemPut DEF t
    <2>3. IsMem(u) /\ Moves(t, u, {j}, {})
      BY <1>2, <2>2, MemPut DEF u
    <2>4. Moves(mem, u, {i} \union {j}, {} \union {})
      BY <2>2, <2>3, MovesInTurn
    <2>5. {i} \union {j} = {i, j} /\ {} \union {} = {}
      OBVIOUS
    <2> QED BY <2>1, <2>3, <2>4, <2>5
  <1>4. IsSql(q.store) /\ Moves(sql, q.store, {i, j}, {})
    <2> DEFINE t == S!Put(sql, i, d, now).store
               u == S!Put(t, j, d, now).store
    <2>1. q.store = u
      BY SqlBulkPut
    <2> HIDE DEF now, q, t, u
    <2>2. IsSql(t) /\ Moves(sql, t, {i}, {})
      BY <1>2, SqlPut DEF t
    <2>3. IsSql(u) /\ Moves(t, u, {j}, {})
      BY <1>2, <2>2, SqlPut DEF u
    <2>4. Moves(sql, u, {i} \union {j}, {} \union {})
      BY <2>2, <2>3, MovesInTurn
    <2>5. {i} \union {j} = {i, j} /\ {} \union {} = {}
      OBVIOUS
    <2> QED BY <2>1, <2>3, <2>4, <2>5
  <1>5. clock' \in {clock, clock + 1}
    BY <1>1, TickIsTime
  <1> HIDE DEF m, q
  <1> QED BY <1>1, <1>3, <1>4, <1>5, CallWrote

LEMMA EditPutWrites ==
    ASSUME Shaped, NEW id \in Ids, NEW e, EditPut(id, e)
    PROVE  Wrote({id}, {})
  <1> DEFINE now == clock + 1
             s == M!EditCopy(mem, id, e.text)
             a == Edited(mem.rows[id], e)
             b == Edited(sql.rows[id], e)
  <1>1. Call("edit", M!Put(s, id, a, now), S!Put(sql, id, b, now), {id}, {}) /\ Tick(now)
    BY DEF EditPut
  <1>2. id \in DOMAIN mem.rows /\ id \in DOMAIN sql.rows
    BY DEF EditPut, InBoth
  <1>3. IsArt(a) /\ IsArt(b) /\ now \in Time
    BY <1>2, EditedIsArt, StampsAreTimes DEF Shaped, IsMem, IsSql, IsRows
  <1>4. IsMem(s) /\ Moves(mem, s, {id}, {})
    BY <1>2, MemEditCopy DEF Shaped
  <1>5. clock' \in {clock, clock + 1}
    BY <1>1, TickIsTime
  <1> HIDE DEF now, s, a, b
  <1>6. IsMem(M!Put(s, id, a, now).store) /\ Moves(s, M!Put(s, id, a, now).store, {id}, {})
    BY <1>3, <1>4, MemPut
  <1>7. Moves(mem, M!Put(s, id, a, now).store, {id}, {})
    BY <1>4, <1>6, MovesInTurn
  <1>8. IsSql(S!Put(sql, id, b, now).store) /\ Moves(sql, S!Put(sql, id, b, now).store, {id}, {})
    BY <1>3, SqlPut DEF Shaped
  <1> QED BY <1>1, <1>5, <1>6, <1>7, <1>8, CallWrote

LEMMA PutIfVersionWrites ==
    ASSUME Shaped, NEW id \in Ids, NEW e, NEW current, PutIfVersion(id, e, current)
    PROVE  Wrote({id}, {})
  <1> DEFINE now == clock + 1
             Copy(s) == Lookup(s.rows, id, Drafts[1])
             Version(s) == IF current THEN Copy(s).updated ELSE Never
             m == M!PutIfVersion(mem, id, Edited(Copy(mem), e), Version(mem), now)
             q == S!PutIfVersion(sql, id, Edited(Copy(sql), e), Version(sql), now)
  <1>1. Call("version", m, q, {id}, {}) /\ Tick(now)
    BY DEF PutIfVersion
  <1>2. /\ IsArt(Copy(mem)) /\ (id \in DOMAIN mem.rows => Copy(mem) = mem.rows[id])
        /\ IsArt(Copy(sql)) /\ now \in Time
    BY FirstDraft, DraftIsArt, StampsAreTimes DEF Lookup, Shaped, IsMem, IsSql, IsRows
  <1>3. clock' \in {clock, clock + 1}
    BY <1>1, TickIsTime
  <1> HIDE DEF now, Copy, Version
  <1>4. IsMem(m.store) /\ Moves(mem, m.store, {id}, {})
    <2>1. /\ IsArt(Edited(Copy(mem), e))
          /\ id \in DOMAIN mem.rows => Edited(Copy(mem), e).inserted = mem.rows[id].inserted
      BY <1>2, EditedIsArt
    <2> QED BY <1>2, <2>1, MemPutIfVersion DEF Shaped, Rewrites
  <1>5. IsSql(q.store) /\ Moves(sql, q.store, {id}, {})
    BY <1>2, EditedIsArt, SqlPutIfVersion DEF Shaped, Rewrites
  <1> HIDE DEF m, q
  <1> QED BY <1>1, <1>3, <1>4, <1>5, CallWrote

LEMMA PatchArtifactWrites ==
    ASSUME Shaped, NEW id \in Ids, NEW e, PatchArtifact(id, e)
    PROVE  Wrote({id}, {})
  <1>1. PICK now \in {clock + 1} :
          Call("patch", M!PatchArtifact(mem, id, e, now), S!PatchArtifact(sql, id, e, now), {id}, {})
          /\ Tick(now)
    BY DEF PatchArtifact
  <1>2. now \in Time /\ clock' \in {clock, clock + 1}
    BY <1>1, TickIsTime, StampsAreTimes
  <1>3. /\ IsMem(M!PatchArtifact(mem, id, e, now).store)
        /\ Moves(mem, M!PatchArtifact(mem, id, e, now).store, {id}, {})
    BY <1>2, MemPatchArtifact DEF Shaped, Rewrites
  <1>4. /\ IsSql(S!PatchArtifact(sql, id, e, now).store)
        /\ Moves(sql, S!PatchArtifact(sql, id, e, now).store, {id}, {})
    BY <1>2, SqlPatchArtifact DEF Shaped, Rewrites
  <1> QED BY <1>1, <1>2, <1>3, <1>4, CallWrote

LEMMA DeleteWrites ==
    ASSUME Shaped, NEW id \in Ids, Delete(id)
    PROVE  Wrote({id}, EdgesAt(id))
  <1>1. /\ IsMem(M!Delete(mem, id).store)
        /\ Moves(mem, M!Delete(mem, id).store, {id}, M!EdgesOf(mem, id))
    BY MemDelete DEF Shaped
  <1>2. /\ IsSql(S!Delete(sql, id).store)
        /\ Moves(sql, S!Delete(sql, id).store, {id}, S!EdgesOf(sql, id))
    BY SqlDelete DEF Shaped
  <1>3. /\ Moves(mem, M!Delete(mem, id).store, {id}, EdgesAt(id))
        /\ Moves(sql, S!Delete(sql, id).store, {id}, EdgesAt(id))
    BY <1>1, <1>2 DEF Moves, EdgesAt
  <1> QED BY <1>1, <1>2, <1>3, CallWrote DEF Delete

LEMMA RenameIDWrites ==
    ASSUME Shaped, NEW old \in Ids, NEW new \in Ids, RenameID(old, new)
    PROVE  Wrote({old, new}, EdgesAt(old))
  <1>1. /\ IsMem(M!RenameID(mem, old, new).store)
        /\ Moves(mem, M!RenameID(mem, old, new).store, {old, new}, M!EdgesOf(mem, old))
    BY MemRenameID DEF Shaped
  <1>2. /\ IsSql(S!RenameID(sql, old, new).store)
        /\ Moves(sql, S!RenameID(sql, old, new).store, {old, new}, S!EdgesOf(sql, old))
    BY SqlRenameID DEF Shaped
  <1>3. /\ Moves(mem, M!RenameID(mem, old, new).store, {old, new}, EdgesAt(old))
        /\ Moves(sql, S!RenameID(sql, old, new).store, {old, new}, EdgesAt(old))
    BY <1>1, <1>2 DEF Moves, EdgesAt
  <1> QED BY <1>1, <1>2, <1>3, CallWrote DEF RenameID

\* Aliases, revisions, scope labels, attachments, metrics, embeddings.
OnTheSide ==
    \/ \E id, alias \in Ids : AddAlias(id, alias) \/ RemoveAlias(id, alias)
    \/ \E id \in Ids, n \in PruneTo : PruneRevisions(id, n)
    \/ \E id \in Ids : PurgeRevisions(id)
    \/ \E labels \in ScopeLabels : SetScopeLabels(labels)
    \/ \E id \in Ids, data \in {"one", "two"} : PutAttachment(id, data)
    \/ \E id \in Ids : DeleteAttachment(id) \/ RecordAccess(id)
    \/ \E id \in Ids, model \in Models, v \in 1..2 :
          PutEmbedding(id, model, v) \/ PutSectionEmbedding(id, model, v)

LEMMA CallAside ==
    ASSUME Shaped, NEW op, NEW m, NEW q, Call(op, m, q, {}, {}),
           Aside(mem, m.store), Aside(sql, q.store), clock' \in {clock, clock + 1}
    PROVE  Wrote({}, {})
  <1>1. IsMem(m.store) /\ Moves(mem, m.store, {}, {})
    BY DEF Shaped, Aside, IsMem, Moves
  <1>2. IsSql(q.store) /\ Moves(sql, q.store, {}, {})
    BY DEF Shaped, Aside, IsSql, Moves
  <1> QED BY <1>1, <1>2, CallWrote

LEMMA OnTheSideWrites ==
    ASSUME Shaped, OnTheSide
    PROVE  Wrote({}, {})
  <1> USE DEF Shaped
  <1>1. ASSUME NEW id, NEW alias, AddAlias(id, alias) \/ RemoveAlias(id, alias)
        PROVE  Wrote({}, {})
    BY <1>1, MemAside, SqlAside, CallAside DEF AddAlias, RemoveAlias
  <1>2. ASSUME NEW id, NEW n, PruneRevisions(id, n) \/ PurgeRevisions(id)
        PROVE  Wrote({}, {})
    BY <1>2, MemAside, SqlAside, CallAside DEF PruneRevisions, PurgeRevisions
  <1>3. ASSUME NEW labels, SetScopeLabels(labels)
        PROVE  Wrote({}, {})
    BY <1>3, MemAside, SqlAside, CallAside DEF SetScopeLabels
  <1>4. ASSUME NEW id, NEW data, PutAttachment(id, data) \/ DeleteAttachment(id)
        PROVE  Wrote({}, {})
    BY <1>4, MemAside, SqlAside, CallAside DEF PutAttachment, DeleteAttachment
  <1>5. ASSUME NEW id, RecordAccess(id)
        PROVE  Wrote({}, {})
    <2>1. PICK now \in {clock + 1} :
            Call("satellite", M!RecordAccess(mem, id, now), S!RecordAccess(sql, id, now), {}, {}) /\ Tick(now)
      BY <1>5 DEF RecordAccess
    <2>2. clock' \in {clock, clock + 1}
      BY <2>1, TickIsTime
    <2> QED BY <2>1, <2>2, MemAside, SqlAside, CallAside
  <1>6. ASSUME NEW id, NEW model, NEW v, PutEmbedding(id, model, v) \/ PutSectionEmbedding(id, model, v)
        PROVE  Wrote({}, {})
    BY <1>6, MemAside, SqlAside, CallAside DEF PutEmbedding, PutSectionEmbedding
  <1> QED BY <1>1, <1>2, <1>3, <1>4, <1>5, <1>6 DEF OnTheSide

\* The calls that write one edge.
OnEdge(e) ==
    \/ \E sources \in Declarations : AddEdge(e, sources)
    \/ RemoveEdge(e)
    \/ \E source \in Sources : AddEdgeSource(e, source) \/ RemoveEdgeSource(e, source)
    \/ UpdateEdgeWeight(e)

LEMMA EdgesAreTriples == Edges \subseteq Triples
  BY DEF Edges, Triples

LEMMA OnEdgeWrites ==
    ASSUME Shaped, NEW e \in Edges, OnEdge(e)
    PROVE  Wrote({}, {e})
  <1>1. e \in Triples /\ IsMem(mem) /\ IsSql(sql)
    BY EdgesAreTriples DEF Shaped
  <1>2. ASSUME NEW sources, AddEdge(e, sources) PROVE Wrote({}, {e})
    BY <1>1, <1>2, MemEdges, SqlEdges, CallWrote DEF AddEdge
  <1>3. ASSUME RemoveEdge(e) PROVE Wrote({}, {e})
    BY <1>1, <1>3, MemEdges, SqlEdges, CallWrote DEF RemoveEdge
  <1>4. ASSUME NEW source, AddEdgeSource(e, source) PROVE Wrote({}, {e})
    BY <1>1, <1>4, MemEdges, SqlEdges, CallWrote DEF AddEdgeSource
  <1>5. ASSUME NEW source, RemoveEdgeSource(e, source) PROVE Wrote({}, {e})
    BY <1>1, <1>5, MemEdges, SqlEdges, CallWrote DEF RemoveEdgeSource
  <1>6. ASSUME UpdateEdgeWeight(e) PROVE Wrote({}, {e})
    BY <1>1, <1>6, MemEdges, SqlEdges, CallWrote DEF UpdateEdgeWeight
  <1> QED BY <1>2, <1>3, <1>4, <1>5, <1>6 DEF OnEdge

LEMMA BulkAddEdgeWrites ==
    ASSUME Shaped, NEW e \in Edges, NEW g \in Edges, NEW sources, BulkAddEdge(e, g, sources)
    PROVE  Wrote({}, {e, g})
  <1> DEFINE x == Attrs(sources)
             a == [edge |-> e, attrs |-> x]
             b == [edge |-> g, attrs |-> x]
             m == M!BulkAddEdge(mem, <<a, b>>)
             q == S!BulkAddEdge(sql, <<a, b>>)
  <1>1. Call("bulkedge", m, q, {}, {e, g}) /\ clock' = clock
    BY DEF BulkAddEdge
  <1>2. e \in Triples /\ g \in Triples /\ IsMem(mem) /\ IsSql(sql)
    BY EdgesAreTriples DEF Shaped
  <1>3. {e} \union {g} = {e, g} /\ {} \union {} = {}
    OBVIOUS
  <1>4. IsMem(m.store) /\ Moves(mem, m.store, {}, {e, g})
    <2> DEFINE t == M!AddEdge(mem, e, x).store
               u == M!AddEdge(t, g, x).store
    <2>1. m.store = u
      BY MemBulkAddEdge
    <2> HIDE DEF x, m, t, u
    <2>2. IsMem(t) /\ Moves(mem, t, {}, {e})
      BY <1>2, MemEdges DEF t
    <2>3. IsMem(u) /\ Moves(t, u, {}, {g})
      BY <1>2, <2>2, MemEdges DEF u
    <2>4. Moves(mem, u, {} \union {}, {e} \union {g})
      BY <2>2, <2>3, MovesInTurn
    <2> QED BY <1>3, <2>1, <2>3, <2>4
  <1>5. IsSql(q.store) /\ Moves(sql, q.store, {}, {e, g})
    <2> DEFINE t == S!AddEdge(sql, e, x).store
               u == S!AddEdge(t, g, x).store
    <2>1. q.store = u
      BY SqlBulkAddEdge
    <2> HIDE DEF x, q, t, u
    <2>2. IsSql(t) /\ Moves(sql, t, {}, {e})
      BY <1>2, SqlEdges DEF t
    <2>3. IsSql(u) /\ Moves(t, u, {}, {g})
      BY <1>2, <2>2, SqlEdges DEF u
    <2>4. Moves(sql, u, {} \union {}, {e} \union {g})
      BY <2>2, <2>3, MovesInTurn
    <2> QED BY <1>3, <2>1, <2>3, <2>4
  <1> HIDE DEF m, q
  <1> QED BY <1>1, <1>4, <1>5, CallWrote

\* The log grows by one event, and nothing else of a store changes.
LogGrows(s, t, ev, now) ==
    /\ t.rows = s.rows /\ t.edges = s.edges
    /\ t.events = Append(s.events, [ev EXCEPT !.ts = Stamp(@, now)])

NewEvent(id, type) == [about |-> id, type |-> type, ts |-> Never]

LEMMA AppendEventWrites ==
    ASSUME Shaped, NEW id \in Ids, NEW type, AppendEvent(id, type)
    PROVE  \E now \in Stamps \union {clock} :
               /\ IsMem(mem') /\ LogGrows(mem, mem', NewEvent(id, type), now)
               /\ IsSql(sql') /\ LogGrows(sql, sql', NewEvent(id, type), now)
               /\ Tick(now) /\ clock' \in {clock, clock + 1}
               /\ ImportTold({}, {}) /\ ReaderTold({}) /\ poller' = poller
  <1> DEFINE ev == NewEvent(id, type)
  <1>1. PICK now \in Stamps \union {clock} :
          Call("event", M!AppendEvent(mem, ev, now), S!AppendEvent(sql, ev, now), {}, {}) /\ Tick(now)
    BY DEF AppendEvent, NewEvent
  <1> HIDE DEF ev
  <1>2. /\ mem' = M!AppendEvent(mem, ev, now).store
        /\ sql' = S!AppendEvent(sql, ev, now).store
        /\ poller' = poller
    BY <1>1 DEF Call
  <1>3. ImportTold({}, {}) /\ ReaderTold({})
    BY <1>1 DEF Call, ImportTold, ReaderTold
  <1>4. IsMem(mem') /\ LogGrows(mem, mem', ev, now)
    BY <1>2, MemAppendEvent DEF Shaped, LogGrows, M!Stamp, Stamp, M!Never, Never
  <1>5. IsSql(sql') /\ LogGrows(sql, sql', ev, now)
    BY <1>2, SqlAppendEvent DEF Shaped, LogGrows, S!Stamp, Stamp, S!Never, Never
  <1>6. clock' \in {clock, clock + 1}
    BY <1>1, TickIsTime
  <1> QED BY <1>1, <1>2, <1>3, <1>4, <1>5, <1>6 DEF ev

\* Every call but AppendEvent writes some artifacts and edges, which it names.
Writes ==
    \/ \E id \in Ids, d \in Range(Drafts) : Put(id, d)
    \/ \E i, j \in Ids, d \in Range(Drafts) : BulkPut(i, j, d)
    \/ \E id \in Ids, e \in Edits : EditPut(id, e)
    \/ \E id \in Ids, e \in Edits, current \in BOOLEAN : PutIfVersion(id, e, current)
    \/ \E id \in Ids, e \in Edits : PatchArtifact(id, e)
    \/ \E id \in Ids : Delete(id)
    \/ \E old, new \in Ids : RenameID(old, new)
    \/ OnTheSide
    \/ \E e \in Edges : OnEdge(e)
    \/ \E e, g \in Edges, sources \in Declarations : BulkAddEdge(e, g, sources)

LEMMA WritesWrote ==
    ASSUME Shaped, Writes
    PROVE  \E ids \in SUBSET Ids, edges \in SUBSET Triples : Wrote(ids, edges)
  <1>1. \A id \in Ids : EdgesAt(id) \in SUBSET Triples
    BY DEF EdgesAt, M!EdgesOf, S!EdgesOf, Shaped, IsMem, IsSql
  <1>2. ASSUME NEW id \in Ids, NEW d \in Range(Drafts), Put(id, d) PROVE Wrote({id}, {})
    BY <1>2, PutWrites
  <1>3. ASSUME NEW i \in Ids, NEW j \in Ids, NEW d \in Range(Drafts), BulkPut(i, j, d) PROVE Wrote({i, j}, {})
    BY <1>3, BulkPutWrites
  <1>4. ASSUME NEW id \in Ids, NEW e, EditPut(id, e) PROVE Wrote({id}, {})
    BY <1>4, EditPutWrites
  <1>5. ASSUME NEW id \in Ids, NEW e, NEW current, PutIfVersion(id, e, current) PROVE Wrote({id}, {})
    BY <1>5, PutIfVersionWrites
  <1>6. ASSUME NEW id \in Ids, NEW e, PatchArtifact(id, e) PROVE Wrote({id}, {})
    BY <1>6, PatchArtifactWrites
  <1>7. ASSUME NEW id \in Ids, Delete(id) PROVE Wrote({id}, EdgesAt(id))
    BY <1>7, DeleteWrites
  <1>8. ASSUME NEW old \in Ids, NEW new \in Ids, RenameID(old, new) PROVE Wrote({old, new}, EdgesAt(old))
    BY <1>8, RenameIDWrites
  <1>9. ASSUME OnTheSide PROVE Wrote({}, {})
    BY <1>9, OnTheSideWrites
  <1>10. ASSUME NEW e \in Edges, OnEdge(e) PROVE Wrote({}, {e})
    BY <1>10, OnEdgeWrites
  <1>11. ASSUME NEW e \in Edges, NEW g \in Edges, NEW sources, BulkAddEdge(e, g, sources) PROVE Wrote({}, {e, g})
    BY <1>11, BulkAddEdgeWrites
  <1>12. /\ \A i, j \in Ids : {i} \in SUBSET Ids /\ {i, j} \in SUBSET Ids
         /\ \A e, g \in Edges : {e} \in SUBSET Triples /\ {e, g} \in SUBSET Triples
         /\ {} \in SUBSET Ids /\ {} \in SUBSET Triples
    BY EdgesAreTriples
  <1> HIDE DEF Wrote
  <1>13. CASE \E id \in Ids, d \in Range(Drafts) : Put(id, d)
    BY <1>13, <1>2, <1>12
  <1>14. CASE \E i, j \in Ids, d \in Range(Drafts) : BulkPut(i, j, d)
    BY <1>14, <1>3, <1>12
  <1>15. CASE \/ \E id \in Ids, e \in Edits : EditPut(id, e) \/ PatchArtifact(id, e)
              \/ \E id \in Ids, e \in Edits, current \in BOOLEAN : PutIfVersion(id, e, current)
    BY <1>15, <1>4, <1>5, <1>6, <1>12
  <1>16. CASE \E id \in Ids : Delete(id)
    BY <1>16, <1>7, <1>1, <1>12
  <1>17. CASE \E old, new \in Ids : RenameID(old, new)
    BY <1>17, <1>8, <1>1, <1>12
  <1>18. CASE OnTheSide
    BY <1>18, <1>9, <1>12
  <1>19. CASE \E e \in Edges : OnEdge(e)
    BY <1>19, <1>10, <1>12
  <1>20. CASE \E e, g \in Edges, sources \in Declarations : BulkAddEdge(e, g, sources)
    BY <1>20, <1>11, <1>12
  <1> QED BY <1>13, <1>14, <1>15, <1>16, <1>17, <1>18, <1>19, <1>20 DEF Writes

\* The steps of the system: a call, a page, a poll, or a step of an import.
LEMMA NextIs ==
    ASSUME [Next]_vars
    PROVE  \/ Writes
           \/ \E id \in Ids, type \in {"created", "updated"} : AppendEvent(id, type)
           \/ Pages \/ Poll
           \/ CapsuleExport \/ CapsuleImport \/ ImportStops
           \/ ImportArtifact \/ (\E e \in Edges : ImportEdge(e))
           \/ UNCHANGED vars
  BY DEF Next, Writes, OnTheSide, OnEdge

------------------------------------------------------------------------------
(* An import.                                                              *)

\* What of the capsule c is neither written since nor still to be put is stored.
Restored(s, c, i) ==
    /\ \A id \in DOMAIN c.rows \ (i.ids \union i.todoRows) :
          id \in DOMAIN s.rows /\ Content(s.rows[id]) = Content(c.rows[id])
    /\ DOMAIN c.edges \ (i.edges \union i.todoEdges) \subseteq DOMAIN s.edges

ImportInv ==
    /\ Shaped
    /\ Written => Restored(mem, import.mem, import) /\ Restored(sql, import.sql, import)
    /\ import.stage = "done" => import.todoRows = {} /\ import.todoEdges = {}

LEMMA ImportInvImplies == ImportInv => ImportRestores
  BY DEF ImportInv, ImportRestores, Restored, Written

LEMMA SeededIsRows ==
    ASSUME NEW n \in Seeds
    PROVE  /\ IsRows(Seeded(n)) /\ n \in Nat /\ DOMAIN Seeded(n) = 1..n
           /\ \A i \in 1..n : Seeded(n)[i].inserted = i + 1
  <1>1. n \in Nat /\ 1..n \subseteq Ids /\ Len(Drafts) \in Nat \ {0}
    BY StoresAssumption
  <1>2. ASSUME NEW i \in 1..n PROVE IsArt(Seeded(n)[i]) /\ Seeded(n)[i].inserted = i + 1
    <2> DEFINE d == Drafts[(i % Len(Drafts)) + 1]
    <2>1. (i % Len(Drafts)) + 1 \in 1..Len(Drafts)
      BY <1>1
    <2>2. d \in Range(Drafts)
      BY <2>1, StoresAssumption DEF Range
    <2>3. IsArt(d)
      BY <2>2, DraftIsArt
    <2> HIDE DEF d
    <2>4. Seeded(n)[i] = [d EXCEPT !.created = i + 1, !.updated = i + 1, !.inserted = i + 1]
      BY DEF Seeded, d
    <2> QED BY <1>1, <2>3, <2>4 DEF IsArt, ArtFields
  <1>3. DOMAIN Seeded(n) = 1..n
    BY DEF Seeded
  <1> QED BY <1>1, <1>2, <1>3 DEF IsRows, Never

LEMMA ImportInit == Init => ImportInv
  <1> SUFFICES ASSUME Init PROVE ImportInv
    OBVIOUS
  <1>1. PICK n \in Seeds : /\ mem = [M!Empty EXCEPT !.rows = Seeded(n)]
                           /\ sql = [S!Empty EXCEPT !.rows = Seeded(n), !.labels = SeededLabels(n)]
                           /\ clock = n + 1
                           /\ import = [stage |-> "none", mem |-> NoCapsule, sql |-> NoCapsule,
                                        todoRows |-> {}, todoEdges |-> {}, ids |-> {}, edges |-> {}]
    BY DEF Init
  <1>2. IsRows(Seeded(n)) /\ n \in Nat
    BY SeededIsRows
  <1>3. IsMem(mem)
    BY <1>1, <1>2 DEF M!Empty, M!NoMap, IsMem, MemFields
  <1>4. IsSql(sql)
    BY <1>1, <1>2 DEF S!Empty, S!NoMap, IsSql, SqlFields, MemFields
  <1>5. IsImport(import) /\ import.stage = "none"
    BY <1>1 DEF NoCapsule, NoMap, IsImport, IsCapsule, IsRows
  <1>6. clock \in Time
    BY <1>1, <1>2 DEF Time
  <1> QED BY <1>3, <1>4, <1>5, <1>6 DEF ImportInv, Shaped, Written

\* A call that writes ids and edges leaves the rest of the capsule stored.
LEMMA RestoredStays ==
    ASSUME NEW s, NEW t, NEW c, NEW i, NEW j, NEW ids, NEW edges, Restored(s, c, i),
           \A id \in DOMAIN s.rows \ ids : id \in DOMAIN t.rows /\ t.rows[id] = s.rows[id],
           DOMAIN s.edges \ edges \subseteq DOMAIN t.edges,
           ids \subseteq j.ids \union j.todoRows, i.ids \union i.todoRows \subseteq j.ids \union j.todoRows,
           edges \subseteq j.edges \union j.todoEdges,
           i.edges \union i.todoEdges \subseteq j.edges \union j.todoEdges
    PROVE  Restored(t, c, j)
  BY DEF Restored

LEMMA ImportWrites ==
    ASSUME ImportInv, NEW ids \in SUBSET Ids, NEW edges \in SUBSET Triples,
           IsMem(mem'), IsSql(sql'), clock' \in {clock, clock + 1}, ImportTold(ids, edges),
           \A x \in {<<mem, mem'>>, <<sql, sql'>>} :
               /\ \A id \in DOMAIN x[1].rows \ ids : id \in DOMAIN x[2].rows /\ x[2].rows[id] = x[1].rows[id]
               /\ DOMAIN x[1].edges \ edges \subseteq DOMAIN x[2].edges
    PROVE  ImportInv'
  <1>1. clock' \in Time
    BY DEF ImportInv, Shaped, Time
  <1>2. CASE ~Written
    <2>1. import' = import
      BY <1>2 DEF ImportTold
    <2> QED BY <1>1, <1>2, <2>1 DEF ImportInv, Shaped, Written
  <1>3. CASE Written
    <2>1. import' = [import EXCEPT !.ids = import.ids \union ids, !.edges = import.edges \union edges]
      BY <1>3 DEF ImportTold
    <2>2. /\ DOMAIN import' = DOMAIN import
          /\ import'.stage = import.stage /\ import'.mem = import.mem /\ import'.sql = import.sql
          /\ import'.todoRows = import.todoRows /\ import'.todoEdges = import.todoEdges
          /\ import'.ids = import.ids \union ids /\ import'.edges = import.edges \union edges
      BY <2>1 DEF ImportInv, Shaped, IsImport
    <2>3. Shaped'
      BY <1>1, <2>2 DEF ImportInv, Shaped, IsImport
    <2>4. /\ ids \subseteq import'.ids \union import'.todoRows
          /\ import.ids \union import.todoRows \subseteq import'.ids \union import'.todoRows
          /\ edges \subseteq import'.edges \union import'.todoEdges
          /\ import.edges \union import.todoEdges \subseteq import'.edges \union import'.todoEdges
      BY <2>2
    <2>5. Restored(mem', import.mem, import')
      <3>1. Restored(mem, import.mem, import)
        BY <1>3 DEF ImportInv
      <3>2. /\ \A id \in DOMAIN mem.rows \ ids : id \in DOMAIN mem'.rows /\ mem'.rows[id] = mem.rows[id]
            /\ DOMAIN mem.edges \ edges \subseteq DOMAIN mem'.edges
        OBVIOUS
      <3> QED BY <2>4, <3>1, <3>2 DEF Restored
    <2>6. Restored(sql', import.sql, import')
      <3>1. Restored(sql, import.sql, import)
        BY <1>3 DEF ImportInv
      <3>2. /\ \A id \in DOMAIN sql.rows \ ids : id \in DOMAIN sql'.rows /\ sql'.rows[id] = sql.rows[id]
            /\ DOMAIN sql.edges \ edges \subseteq DOMAIN sql'.edges
        OBVIOUS
      <3> QED BY <2>4, <3>1, <3>2, RestoredStays
    <2> QED BY <2>2, <2>3, <2>5, <2>6 DEF ImportInv, Written
  <1> QED BY <1>2, <1>3

\* A set of naturals has a least element, and Min is it.
LEMMA LeastNat ==
    ASSUME NEW T \in SUBSET Nat, T # {}
    PROVE  Min(T) \in T /\ \A m \in T : Min(T) <= m
  <1> DEFINE R == OpToRel(<, Nat)
  <1>1. IsWellFoundedOn(R, Nat)
    BY NatLessThanWellFounded
  <1> HIDE DEF R
  <1>2. PICK n \in T : \A m \in T : ~(<<m, n>> \in R)
    BY <1>1, WFMin
  <1>3. \A m \in T : n <= m
    <2> SUFFICES ASSUME NEW m \in T, m < n PROVE FALSE
      OBVIOUS
    <2>1. m \in Nat /\ n \in Nat
      OBVIOUS
    <2>2. <<m, n>> \in R
      BY <2>1 DEF OpToRel, R
    <2> QED BY <1>2, <2>2
  <1> QED BY <1>3 DEF Min

LEMMA ExportStep == ASSUME ImportInv, CapsuleExport PROVE ImportInv'
  <1>1. /\ IsCapsule(Capsule(mem)) /\ IsCapsule(Capsule(sql))
    BY DEF Capsule, Restrict, IsCapsule, ImportInv, Shaped, IsMem, IsSql
  <1>2. import' = [import EXCEPT !.stage = "exported", !.mem = Capsule(mem), !.sql = Capsule(sql)]
    BY DEF CapsuleExport
  <1> HIDE DEF Capsule
  <1>3. IsImport(import') /\ import'.stage = "exported"
    BY <1>1, <1>2 DEF ImportInv, Shaped, IsImport
  <1>4. UNCHANGED <<mem, sql, clock>>
    BY DEF CapsuleExport
  <1> QED BY <1>3, <1>4 DEF ImportInv, Shaped, Written

LEMMA BeginStep == ASSUME ImportInv, CapsuleImport PROVE ImportInv'
  <1> DEFINE rows == DOMAIN import.mem.rows \union DOMAIN import.sql.rows
             edges == DOMAIN import.mem.edges \union DOMAIN import.sql.edges
  <1>1. import' = [import EXCEPT !.stage = StageAfter("running", rows, edges),
                                 !.todoRows = rows, !.todoEdges = edges]
    BY DEF CapsuleImport
  <1>2. rows \subseteq Ids /\ edges \subseteq Triples
    BY DEF ImportInv, Shaped, IsImport, IsCapsule, IsRows
  <1>3. /\ IsImport(import')
        /\ import'.stage = StageAfter("running", rows, edges)
        /\ import'.todoRows = rows /\ import'.todoEdges = edges
        /\ import'.mem = import.mem /\ import'.sql = import.sql
    <2> HIDE DEF rows, edges
    <2> QED BY <1>1, <1>2 DEF ImportInv, Shaped, IsImport
  <1>4. UNCHANGED <<mem, sql, clock>>
    BY DEF CapsuleImport
  <1>5. Restored(mem, import.mem, import') /\ Restored(sql, import.sql, import')
    BY <1>3 DEF Restored
  <1>6. import'.stage = "done" => rows = {} /\ edges = {}
    BY <1>3 DEF StageAfter
  <1> QED BY <1>3, <1>4, <1>5, <1>6 DEF ImportInv, Shaped

LEMMA StopStep == ASSUME ImportInv, ImportStops PROVE ImportInv'
  <1>1. import' = [import EXCEPT !.stage = "stopped"] /\ UNCHANGED <<mem, sql, clock>>
    BY DEF ImportStops
  <1> QED BY <1>1 DEF ImportInv, Shaped, IsImport, Written

\* The artifact put is restored, and the others are left as they are.
LEMMA ArtifactStep == ASSUME ImportInv, ImportArtifact PROVE ImportInv'
  <1> DEFINE id == Min(import.todoRows)
             rest == import.todoRows \ {id}
             now == clock + 1
  <1>1. /\ Imported(id, now) /\ Tick(now)
        /\ import' = [import EXCEPT !.todoRows = rest, !.ids = import.ids \ {id},
                                    !.stage = StageAfter(import.stage, rest, import.todoEdges)]
    BY DEF ImportArtifact
  <1>2. id \in import.todoRows /\ id \in Ids
    <2>1. import.todoRows \subseteq Nat /\ import.todoRows # {} /\ import.todoRows \subseteq Ids
      BY StoresAssumption DEF ImportArtifact, ImportInv, Shaped, IsImport
    <2> QED BY <2>1, LeastNat
  <1>3. now \in Time /\ clock' \in {clock, clock + 1} /\ import.stage = "running"
    BY <1>1, StampsAreTimes, TickIsTime DEF ImportInv, ImportArtifact, Importing
  <1> HIDE DEF id, now
  <1>4. /\ DOMAIN import' = DOMAIN import /\ import'.mem = import.mem /\ import'.sql = import.sql
        /\ import'.todoRows = rest /\ import'.todoEdges = import.todoEdges
        /\ import'.ids = import.ids \ {id} /\ import'.edges = import.edges
        /\ import'.stage = StageAfter("running", rest, import.todoEdges)
    BY <1>1, <1>3 DEF ImportInv, Shaped, IsImport
  <1>5. IsImport(import')
    BY <1>4 DEF ImportInv, Shaped, IsImport
  <1>6. IsMem(mem') /\ Restored(mem', import.mem, import')
    <2>1. Restored(mem, import.mem, import)
      BY <1>3 DEF ImportInv, Written
    <2>2. CASE id \in DOMAIN import.mem.rows
      <3>1. mem' = M!Put(mem, id, import.mem.rows[id], now).store
        BY <1>1, <2>2 DEF Imported
      <3>2. IsArt(import.mem.rows[id])
        BY <2>2 DEF ImportInv, Shaped, IsImport, IsCapsule, IsRows
      <3>3. /\ IsMem(mem') /\ Moves(mem, mem', {id}, {}) /\ id \in DOMAIN mem'.rows
            /\ Content(mem'.rows[id]) = Content(import.mem.rows[id])
        BY <1>2, <1>3, <3>1, <3>2, MemPut DEF ImportInv, Shaped, Keeps
      <3> QED BY <1>4, <2>1, <3>3 DEF Restored, Moves
    <2>3. CASE id \notin DOMAIN import.mem.rows
      <3>1. mem' = mem
        BY <1>1, <2>3 DEF Imported
      <3> QED BY <1>4, <2>1, <2>3, <3>1 DEF Restored, ImportInv, Shaped
    <2> QED BY <2>2, <2>3
  <1>7. IsSql(sql') /\ Restored(sql', import.sql, import')
    <2>1. Restored(sql, import.sql, import)
      BY <1>3 DEF ImportInv, Written
    <2>2. CASE id \in DOMAIN import.sql.rows
      <3>1. sql' = S!Put(sql, id, import.sql.rows[id], now).store
        BY <1>1, <2>2 DEF Imported
      <3>2. IsArt(import.sql.rows[id])
        BY <2>2 DEF ImportInv, Shaped, IsImport, IsCapsule, IsRows
      <3> DEFINE art == import.sql.rows[id]
                 inserted == IF id \in DOMAIN sql.rows THEN sql.rows[id].inserted
                                                       ELSE Stamp(art.inserted, now)
      <3>3. IsSql(sql') /\ Moves(sql, sql', {id}, {}) /\ Keeps(sql', id, art, inserted)
        <4>1. IsSql(sql)
          BY DEF ImportInv, Shaped
        <4> HIDE DEF art
        <4> QED BY <1>2, <1>3, <3>1, <3>2, <4>1, SqlPut DEF art
      <3>4. id \in DOMAIN sql'.rows /\ Content(sql'.rows[id]) = Content(art)
        BY <3>3 DEF Keeps
      <3> QED BY <1>4, <2>1, <3>3, <3>4 DEF Restored, Moves
    <2>3. CASE id \notin DOMAIN import.sql.rows
      <3>1. sql' = sql
        BY <1>1, <2>3 DEF Imported
      <3> QED BY <1>4, <2>1, <2>3, <3>1 DEF Restored, ImportInv, Shaped
    <2> QED BY <2>2, <2>3
  <1>8. clock' \in Time
    BY <1>3 DEF ImportInv, Shaped, Time
  <1>9. import'.stage = "done" => rest = {} /\ import.todoEdges = {}
    BY <1>4 DEF StageAfter
  <1> QED BY <1>4, <1>5, <1>6, <1>7, <1>8, <1>9 DEF ImportInv, Shaped

\* The edge added is there, and no edge is gone.
LEMMA EdgeStep == ASSUME ImportInv, NEW e \in Edges, ImportEdge(e) PROVE ImportInv'
  <1>1. /\ import' = [import EXCEPT !.todoEdges = import.todoEdges \ {e}, !.edges = import.edges \ {e},
                                    !.stage = StageAfter(import.stage, {}, import.todoEdges \ {e})]
        /\ import.stage = "running" /\ import.todoRows = {}
        /\ clock' = clock
    BY DEF ImportEdge, Importing
  <1>2. /\ DOMAIN import' = DOMAIN import /\ import'.mem = import.mem /\ import'.sql = import.sql
        /\ import'.todoRows = {} /\ import'.todoEdges = import.todoEdges \ {e}
        /\ import'.ids = import.ids /\ import'.edges = import.edges \ {e}
        /\ import'.stage = StageAfter("running", {}, import.todoEdges \ {e})
    BY <1>1 DEF ImportInv, Shaped, IsImport
  <1>3. IsImport(import')
    BY <1>2 DEF ImportInv, Shaped, IsImport
  <1>4. IsMem(mem') /\ Restored(mem', import.mem, import')
    <2>1. Restored(mem, import.mem, import) /\ IsMem(mem) /\ e \in Triples
      BY <1>1, EdgesAreTriples DEF ImportInv, Written, Shaped
    <2>2. CASE e \in DOMAIN import.mem.edges
      <3> DEFINE x == import.mem.edges[e]
      <3>1. mem' = M!AddEdge(mem, e, x).store
        BY <2>2 DEF ImportEdge
      <3> HIDE DEF x
      <3>2. /\ IsMem(mem') /\ mem'.rows = mem.rows
            /\ e \in DOMAIN mem'.edges /\ DOMAIN mem.edges \subseteq DOMAIN mem'.edges
        BY <2>1, <3>1, MemEdges, MemAddEdge
      <3> QED BY <1>1, <1>2, <2>1, <3>2 DEF Restored
    <2>3. CASE e \notin DOMAIN import.mem.edges
      <3>1. mem' = mem
        BY <2>3 DEF ImportEdge
      <3> QED BY <1>1, <1>2, <2>1, <2>3, <3>1 DEF Restored
    <2> QED BY <2>2, <2>3
  <1>5. IsSql(sql') /\ Restored(sql', import.sql, import')
    <2>1. Restored(sql, import.sql, import) /\ IsSql(sql) /\ e \in Triples
      BY <1>1, EdgesAreTriples DEF ImportInv, Written, Shaped
    <2>2. CASE e \in DOMAIN import.sql.edges
      <3> DEFINE x == import.sql.edges[e]
      <3>1. sql' = S!AddEdge(sql, e, x).store
        BY <2>2 DEF ImportEdge
      <3> HIDE DEF x
      <3>2. /\ IsSql(sql') /\ sql'.rows = sql.rows
            /\ e \in DOMAIN sql'.edges /\ DOMAIN sql.edges \subseteq DOMAIN sql'.edges
        BY <2>1, <3>1, SqlEdges, SqlAddEdge
      <3> QED BY <1>1, <1>2, <2>1, <3>2 DEF Restored
    <2>3. CASE e \notin DOMAIN import.sql.edges
      <3>1. sql' = sql
        BY <2>3 DEF ImportEdge
      <3> QED BY <1>1, <1>2, <2>1, <2>3, <3>1 DEF Restored
    <2> QED BY <2>2, <2>3
  <1>6. import'.stage = "done" => import.todoEdges \ {e} = {}
    BY <1>2 DEF StageAfter
  <1> QED BY <1>1, <1>2, <1>3, <1>4, <1>5, <1>6 DEF ImportInv, Shaped

LEMMA ImportNext == ASSUME ImportInv, [Next]_vars PROVE ImportInv'
  <1>1. CASE Writes
    <2>1. PICK ids \in SUBSET Ids, edges \in SUBSET Triples : Wrote(ids, edges)
      BY <1>1, WritesWrote DEF ImportInv
    <2> QED BY <2>1, ImportWrites DEF Wrote, Moves
  <1>2. ASSUME NEW id \in Ids, NEW type, AppendEvent(id, type) PROVE ImportInv'
    <2>1. /\ IsMem(mem') /\ mem'.rows = mem.rows /\ mem'.edges = mem.edges
          /\ IsSql(sql') /\ sql'.rows = sql.rows /\ sql'.edges = sql.edges
          /\ clock' \in {clock, clock + 1} /\ ImportTold({}, {})
      BY <1>2, AppendEventWrites DEF ImportInv, LogGrows
    <2>2. {} \in SUBSET Ids /\ {} \in SUBSET Triples
      OBVIOUS
    <2> QED BY <2>1, <2>2, ImportWrites
  <1>3. CASE Pages \/ Poll \/ UNCHANGED vars
    <2>1. UNCHANGED <<mem, sql, clock, import>>
      BY <1>3 DEF Pages, Poll, vars
    <2> QED BY <2>1 DEF ImportInv, Shaped, Written
  <1> QED BY <1>1, <1>2, <1>3, NextIs, ExportStep, BeginStep, StopStep, ArtifactStep, EdgeStep

\* An import that ends has brought back every artifact and every edge of the capsule
\* that no other call has written since (CapsuleImport), for every set of ids and
\* relations, whatever differences the client meets, and however many calls it makes.
THEOREM ImportIsComplete == Spec => []ImportRestores
  <1>1. ImportInv /\ UNCHANGED vars => ImportInv'
    BY ImportNext
  <1> QED BY ImportInit, ImportNext, ImportInvImplies, PTL DEF Spec

------------------------------------------------------------------------------
(* What SortedBy returns: every element of the set, once, in order.        *)

\* R orders T strictly, and no two elements are equal to it.
Orders(R, T) ==
    /\ \A x \in T : <<x, x>> \notin R
    /\ \A x, y, z \in T : <<x, y>> \in R /\ <<y, z>> \in R => <<x, z>> \in R
    /\ \A x, y \in T : x # y => <<x, y>> \in R \/ <<y, x>> \in R

Below(T, R, x) == {y \in T : <<y, x>> \in R}

\* The i-th of q is the element that i - 1 are below, if there is one.
Sorts(q, T, R) ==
    /\ \E f : q = [i \in 1..Cardinality(T) |-> f[i]]
    /\ \A i \in 1..Cardinality(T) :
          (\E x \in T : Cardinality(Below(T, R, x)) = i - 1)
             => q[i] \in T /\ Cardinality(Below(T, R, q[i])) = i - 1

LEMMA BelowIsLess ==
    ASSUME NEW T, IsFiniteSet(T), NEW R, Orders(R, T), NEW x \in T, NEW y \in T, <<x, y>> \in R
    PROVE  Cardinality(Below(T, R, x)) < Cardinality(Below(T, R, y))
  <1>1. Below(T, R, x) \subseteq Below(T, R, y) /\ Below(T, R, x) # Below(T, R, y)
    BY DEF Below, Orders
  <1>2. IsFiniteSet(Below(T, R, y))
    BY FS_Subset DEF Below
  <1>3. /\ Cardinality(Below(T, R, x)) <= Cardinality(Below(T, R, y))
        /\ Cardinality(Below(T, R, x)) # Cardinality(Below(T, R, y))
        /\ IsFiniteSet(Below(T, R, x))
    BY <1>1, <1>2, FS_Subset
  <1> QED BY <1>2, <1>3, FS_CardinalityType

LEMMA BelowIsRank ==
    ASSUME NEW T, IsFiniteSet(T), NEW R, Orders(R, T), NEW x \in T
    PROVE  Cardinality(T) \in Nat /\ Cardinality(Below(T, R, x)) \in 0..(Cardinality(T) - 1)
  <1>1. Below(T, R, x) \subseteq T /\ Below(T, R, x) # T
    BY DEF Below, Orders
  <1>2. /\ Cardinality(Below(T, R, x)) <= Cardinality(T)
        /\ Cardinality(Below(T, R, x)) # Cardinality(T)
        /\ IsFiniteSet(Below(T, R, x))
    BY <1>1, FS_Subset
  <1> QED BY <1>2, FS_CardinalityType

LEMMA SortedIs ==
    ASSUME NEW T, IsFiniteSet(T), NEW R, Orders(R, T), NEW q, Sorts(q, T, R)
    PROVE  /\ Cardinality(T) \in Nat
           /\ q \in [1..Cardinality(T) -> T]
           /\ \A x \in T : \E i \in 1..Cardinality(T) : q[i] = x
           /\ \A i, j \in 1..Cardinality(T) : i < j => <<q[i], q[j]>> \in R
  <1> DEFINE n == Cardinality(T)
             rank == [x \in T |-> Cardinality(Below(T, R, x))]
  <1>1. n \in Nat
    BY FS_CardinalityType
  <1>2. rank \in Injection(T, 0..(n - 1))
    <2>1. rank \in [T -> 0..(n - 1)]
      BY BelowIsRank
    <2>2. ASSUME NEW x \in T, NEW y \in T, x # y PROVE rank[x] # rank[y]
      <3>1. <<x, y>> \in R \/ <<y, x>> \in R
        BY <2>2 DEF Orders
      <3>2. rank[x] \in Nat /\ rank[y] \in Nat
        BY <2>1
      <3> QED BY <3>1, <3>2, BelowIsLess
    <2> HIDE DEF rank, n
    <2> QED BY <2>1, <2>2 DEF Injection, IsInjective
  <1>3. IsFiniteSet(0..(n - 1)) /\ Cardinality(0..(n - 1)) = n
    <2>1. 0 \in Int /\ n - 1 \in Int
      BY <1>1
    <2>2. Cardinality(0..(n - 1)) = IF 0 > n - 1 THEN 0 ELSE n - 1 - 0 + 1
      BY <2>1, FS_Interval
    <2> HIDE DEF n
    <2> QED BY <1>1, <2>1, <2>2, FS_Interval
  <1>4. rank \in Surjection(T, 0..(n - 1))
    <2> HIDE DEF rank
    <2> QED BY <1>2, <1>3, FS_Injection
  <1>5. \A i \in 1..n : \E x \in T : rank[x] = i - 1
    <2> HIDE DEF rank, n
    <2> QED BY <1>1, <1>4 DEF Surjection
  <1>6. \A i \in 1..n : q[i] \in T /\ rank[q[i]] = i - 1
    <2> SUFFICES ASSUME NEW i \in 1..n PROVE q[i] \in T /\ rank[q[i]] = i - 1
      OBVIOUS
    <2>1. \E x \in T : Cardinality(Below(T, R, x)) = i - 1
      BY <1>5
    <2>2. q[i] \in T /\ Cardinality(Below(T, R, q[i])) = i - 1
      BY <2>1 DEF Sorts
    <2> QED BY <2>2
  <1>7. q \in [1..n -> T]
    BY <1>6 DEF Sorts
  <1>8. ASSUME NEW x \in T PROVE \E i \in 1..n : q[i] = x
    <2>1. rank[x] \in 0..(n - 1)
      BY BelowIsRank
    <2> DEFINE i == rank[x] + 1
    <2>2. i \in 1..n /\ i - 1 = rank[x]
      <3> HIDE DEF rank, n
      <3> QED BY <1>1, <2>1
    <2>3. rank[q[i]] = rank[x] /\ q[i] \in T
      BY <1>6, <2>2
    <2>4. q[i] = x
      <3> HIDE DEF rank, n, i
      <3> QED BY <1>2, <2>3 DEF Injection, IsInjective
    <2> QED BY <2>2, <2>4
  <1>9. ASSUME NEW i \in 1..n, NEW j \in 1..n, i < j PROVE <<q[i], q[j]>> \in R
    <2> DEFINE x == q[i]
               y == q[j]
    <2>1. x \in T /\ y \in T /\ rank[x] = i - 1 /\ rank[y] = j - 1
      BY <1>6
    <2>2. i - 1 < j - 1 /\ i \in Int /\ j \in Int
      BY <1>1, <1>9
    <2>3. x # y
      <3> HIDE DEF x, y, rank
      <3> QED BY <2>1, <2>2
    <2>4. CASE <<y, x>> \in R
      <3>1. rank[y] < rank[x]
        BY <2>1, <2>4, BelowIsLess
      <3> HIDE DEF x, y, rank
      <3> QED BY <2>1, <2>2, <3>1
    <2> QED BY <2>1, <2>3, <2>4 DEF Orders
  <1> QED BY <1>1, <1>7, <1>8, <1>9

\* a lists the n elements of T in their order.
InOrder(a, n, T, R) ==
    /\ n \in Nat /\ a \in [1..n -> T] /\ (\A x \in T : \E i \in 1..n : a[i] = x)
    /\ \A i, j \in 1..n : i < j => <<a[i], a[j]>> \in R

\* In one way.
LEMMA ListedOnce ==
    ASSUME NEW T, NEW R, Orders(R, T),
           NEW n, NEW a, InOrder(a, n, T, R), NEW k, NEW b, InOrder(b, k, T, R)
    PROVE  n = k /\ a = b
  <1> DEFINE Lt(x, y) == <<x, y>> \in R
  <1>1. \A x \in T : ~Lt(x, x)
    BY DEF Orders
  <1>2. \A x, y, z \in T : Lt(x, y) /\ Lt(y, z) => Lt(x, z)
    BY DEF Orders
  <1>3. /\ n \in Nat /\ a \in [1..n -> T] /\ (\A x \in T : \E i \in 1..n : a[i] = x)
        /\ \A i, j \in 1..n : i < j => Lt(a[i], a[j])
    BY DEF InOrder
  <1>4. /\ k \in Nat /\ b \in [1..k -> T] /\ (\A x \in T : \E i \in 1..k : b[i] = x)
        /\ \A i, j \in 1..k : i < j => Lt(b[i], b[j])
    BY DEF InOrder
  <1> HIDE DEF Lt
  \* The first place on which they are apart.
  <1> DEFINE Apart == {i \in 1..n \intersect 1..k : a[i] # b[i]}
  <1>5. Apart = {}
    <2> SUFFICES ASSUME Apart # {} PROVE FALSE
      OBVIOUS
    <2> DEFINE i == Min(Apart)
    <2>1. i \in Apart /\ \A m \in Apart : i <= m
      <3>1. Apart \in SUBSET Nat
        OBVIOUS
      <3> HIDE DEF Apart
      <3> QED BY <3>1, LeastNat
    <2> HIDE DEF i
    <2>2. i \in 1..n /\ i \in 1..k /\ a[i] # b[i] /\ i \in Nat
      BY <2>1
    <2>3. \A m \in 1..n \intersect 1..k : m < i => a[m] = b[m]
      BY <2>1, <2>2
    <2>4. PICK j \in 1..k : b[j] = a[i]
      BY <1>3, <1>4, <2>2
    <2>5. PICK m \in 1..n : a[m] = b[i]
      BY <1>3, <1>4, <2>2
    <2>6. ~(j < i)
      <3> SUFFICES ASSUME j < i PROVE FALSE
        OBVIOUS
      <3>1. j \in 1..n
        BY <1>3, <1>4, <2>2, <2>4
      <3>2. a[j] = a[i]
        BY <2>3, <2>4, <3>1
      <3> QED BY <1>1, <1>3, <2>2, <3>1, <3>2
    <2>7. ~(m < i)
      <3> SUFFICES ASSUME m < i PROVE FALSE
        OBVIOUS
      <3>1. m \in 1..k
        BY <1>3, <1>4, <2>2, <2>5
      <3>2. b[m] = b[i]
        BY <2>3, <2>5, <3>1
      <3> QED BY <1>1, <1>4, <2>2, <3>1, <3>2
    <2>8. i < j /\ i < m
      BY <2>2, <2>4, <2>5, <2>6, <2>7
    <2>9. Lt(b[i], b[j]) /\ Lt(a[i], a[m])
      BY <1>3, <1>4, <2>2, <2>8
    <2>10. a[i] \in T /\ b[i] \in T
      BY <1>3, <1>4, <2>2
    <2> QED BY <1>1, <1>2, <2>4, <2>5, <2>9, <2>10
  <1>6. \A i \in 1..n \intersect 1..k : a[i] = b[i]
    BY <1>5
  <1> HIDE DEF Apart
  <1>7. ~(n < k)
    <2> SUFFICES ASSUME n < k PROVE FALSE
      OBVIOUS
    <2>1. k \in 1..k /\ b[k] \in T
      BY <1>3, <1>4
    <2>2. PICK i \in 1..n : a[i] = b[k]
      BY <1>3, <2>1
    <2>3. i \in 1..k /\ i < k /\ b[i] = b[k]
      BY <1>3, <1>4, <1>6, <2>2
    <2> QED BY <1>1, <1>4, <2>1, <2>3
  <1>8. ~(k < n)
    <2> SUFFICES ASSUME k < n PROVE FALSE
      OBVIOUS
    <2>1. n \in 1..n /\ a[n] \in T
      BY <1>3, <1>4
    <2>2. PICK i \in 1..k : b[i] = a[n]
      BY <1>4, <2>1
    <2>3. i \in 1..n /\ i < n /\ a[i] = a[n]
      BY <1>3, <1>4, <1>6, <2>2
    <2> QED BY <1>1, <1>3, <2>1, <2>3
  <1>9. n = k
    BY <1>3, <1>4, <1>7, <1>8
  <1> QED BY <1>3, <1>4, <1>6, <1>9

\* So two lists that are sorted alike are one.
LEMMA SortedOnce ==
    ASSUME NEW T, IsFiniteSet(T), NEW R, Orders(R, T), NEW p, Sorts(p, T, R), NEW q, Sorts(q, T, R)
    PROVE  p = q
  <1> DEFINE n == Cardinality(T)
  <1>1. InOrder(p, n, T, R)
    BY SortedIs DEF InOrder
  <1>2. InOrder(q, n, T, R)
    BY SortedIs DEF InOrder
  <1> HIDE DEF n
  <1> QED BY <1>1, <1>2, ListedOnce

------------------------------------------------------------------------------
(* A poller.                                                               *)

Earlier(T) == {p \in T \X T : p[1] < p[2]}

LEMMA EarlierOrders == ASSUME NEW T \in SUBSET Nat PROVE Orders(Earlier(T), T)
  BY DEF Orders, Earlier

\* A log has a time for each of its events.
IsLog(events) ==
    \E k \in Nat : DOMAIN events = 1..k /\ \A i \in 1..k : events[i].ts \in Nat

\* The events a poller is given: all that are not before the time it asks from.
SinceIn(events, since) == {i \in DOMAIN events : events[i].ts >= since}

\* And that its filter lets through.
Wanted(ev, f) == (f.about # {} => ev.about \in f.about) /\ (f.types # {} => ev.type \in f.types)

AskedIn(events, since, f) == {i \in SinceIn(events, since) : Wanted(events[i], f)}

LEMMA AllAsked == \A events, since : AskedIn(events, since, AllEvents) = SinceIn(events, since)
  BY DEF AskedIn, Wanted, AllEvents

LEMMA AskedIsFinite ==
    ASSUME NEW events, IsLog(events), NEW since, NEW f
    PROVE  LET T == AskedIn(events, since, f)
           IN  T \in SUBSET Nat /\ IsFiniteSet(T) /\ \A i \in T : events[i].ts \in Nat
  <1>1. PICK k \in Nat : DOMAIN events = 1..k /\ \A i \in 1..k : events[i].ts \in Nat
    BY DEF IsLog
  <1>2. IsFiniteSet(1..k)
    BY FS_Interval
  <1>3. AskedIn(events, since, f) \in SUBSET (1..k)
    BY <1>1 DEF AskedIn, SinceIn
  <1> QED BY <1>1, <1>2, <1>3, FS_Subset

\* A sorted list of a finite set of events, as a poller uses it.
LEMMA ListOf ==
    ASSUME NEW T, IsFiniteSet(T), NEW R, Orders(R, T), NEW ids, Sorts(ids, T, R)
    PROVE  \E n \in Nat : ids \in [1..n -> T] /\ Range(ids) = T
  <1>1. /\ Cardinality(T) \in Nat /\ ids \in [1..Cardinality(T) -> T]
        /\ \A x \in T : \E i \in 1..Cardinality(T) : ids[i] = x
    BY SortedIs
  <1> QED BY <1>1 DEF Range

LEMMA MemCardinality == \A T : M!Cardinality(T) = Cardinality(T)
  BY DEF M!Cardinality, Cardinality

LEMMA SqlCardinality == \A T : S!Cardinality(T) = Cardinality(T)
  BY DEF S!Cardinality, Cardinality

LEMMA MemEvents ==
    ASSUME NEW s, IsLog(s.events), NEW since \in Nat, NEW f
    PROVE  LET T == AskedIn(s.events, since, f)
           IN  Sorts(M!GetEvents(s, since, f), T, Earlier(T))
  <1> DEFINE T == AskedIn(s.events, since, f)
             ids == M!GetEvents(s, since, f)
             R == Earlier(T)
  <1>1. {i \in DOMAIN s.events : s.events[i].ts >= since /\ M!EventMatches(s.events[i], f)} = T
    BY DEF AskedIn, SinceIn, Wanted, M!EventMatches
  <1>2. ids = M!SortedBy(T, <)
    BY <1>1 DEF M!GetEvents
  <1> HIDE DEF T
  <1>3. \A x \in T : {y \in T : y < x} = Below(T, R, x)
    BY DEF Below, Earlier
  <1> DEFINE Ith(i) == CHOOSE x \in T : Cardinality({y \in T : y < x}) = i - 1
  <1>4. ids = [i \in 1..Cardinality(T) |-> Ith(i)]
    BY <1>2, MemCardinality DEF M!SortedBy
  <1> HIDE DEF ids, R
  <1>5. ASSUME NEW i, \E x \in T : Cardinality(Below(T, R, x)) = i - 1
        PROVE  Ith(i) \in T /\ Cardinality(Below(T, R, Ith(i))) = i - 1
    BY <1>3, <1>5
  <1> HIDE DEF Ith
  <1>6. ids = [i \in 1..Cardinality(T) |-> ids[i]]
    BY <1>4
  <1>7. Sorts(ids, T, R)
    BY <1>4, <1>5, <1>6 DEF Sorts
  <1> QED BY <1>7 DEF T, ids, R

LEMMA MemGetEvents ==
    ASSUME NEW s, IsLog(s.events), NEW since \in Nat
    PROVE  LET ids == M!GetEvents(s, since, AllEvents)
           IN  \E n \in Nat : /\ ids \in [1..n -> SinceIn(s.events, since)]
                              /\ Range(ids) = SinceIn(s.events, since)
  <1> DEFINE T == AskedIn(s.events, since, AllEvents)
             ids == M!GetEvents(s, since, AllEvents)
  <1>1. Sorts(ids, T, Earlier(T))
    BY MemEvents
  <1>2. T \in SUBSET Nat /\ IsFiniteSet(T) /\ T = SinceIn(s.events, since)
    BY AskedIsFinite, AllAsked
  <1> HIDE DEF T, ids
  <1>3. \E n \in Nat : ids \in [1..n -> T] /\ Range(ids) = T
    BY <1>1, <1>2, ListOf, EarlierOrders
  <1> QED BY <1>2, <1>3 DEF ids

\* By time, and by number among those of one time.
EarlierStamped(events, T) ==
    {p \in T \X T : \/ events[p[1]].ts < events[p[2]].ts
                    \/ events[p[1]].ts = events[p[2]].ts /\ p[1] < p[2]}

LEMMA EarlierStampedOrders ==
    ASSUME NEW events, NEW T \in SUBSET Nat, \A i \in T : events[i].ts \in Nat
    PROVE  Orders(EarlierStamped(events, T), T)
  BY DEF Orders, EarlierStamped

\* The client keeps to times whose texts sort as they do.
TextSorts == "text order" \in Avoided

\* And is never kept waiting for the writer with a stamp in hand.
StampsInTurn == "late stamps" \in Avoided

LEMMA TextIsTime == TextSorts => \A t : Text(t) = t
  BY DEF TextSorts, Text, Meets

LEMMA StampIsNext == StampsInTurn => Stamps = {clock + 1}
  BY DEF StampsInTurn, Stamps, Meets

LEMMA SqlEvents ==
    ASSUME NEW s, IsLog(s.events), NEW since \in Nat, NEW f, TextSorts
    PROVE  LET T == AskedIn(s.events, since, f)
           IN  Sorts(S!GetEvents(s, since, f), T, EarlierStamped(s.events, T))
  <1> DEFINE ids == S!GetEvents(s, since, f)
             T == {i \in DOMAIN s.events : S!Since(Text(s.events[i].ts), Text(since))
                                            /\ S!EventMatches(s.events[i], f)}
             R == EarlierStamped(s.events, T)
             Before(i, j) == \/ Text(s.events[i].ts) < Text(s.events[j].ts)
                             \/ Text(s.events[i].ts) = Text(s.events[j].ts) /\ i < j
             Ith(i) == CHOOSE x \in T : Cardinality({y \in T : Before(y, x)}) = i - 1
  <1>1. \A t : Text(t) = t
    BY TextIsTime
  <1>2. T = AskedIn(s.events, since, f)
    BY <1>1 DEF AskedIn, SinceIn, Wanted, S!Since, S!EventMatches
  <1>3. ids = [i \in 1..Cardinality(T) |-> Ith(i)]
    <2>1. ids = [i \in 1..S!Cardinality(T) |->
                   CHOOSE x \in T : S!Cardinality({y \in T : Before(y, x)}) = i - 1]
      BY DEF S!GetEvents, S!SortedBy
    <2> HIDE DEF T, ids, Before
    <2> QED BY <2>1 DEF S!Cardinality, Cardinality
  <1> HIDE DEF T, ids
  <1>4. \A x \in T : {y \in T : Before(y, x)} = Below(T, R, x)
    BY <1>1 DEF Below, EarlierStamped
  <1> HIDE DEF Before
  <1>5. ASSUME NEW i, \E x \in T : Cardinality(Below(T, R, x)) = i - 1
        PROVE  Ith(i) \in T /\ Cardinality(Below(T, R, Ith(i))) = i - 1
    <2> HIDE DEF R
    <2> QED BY <1>4, <1>5
  <1> HIDE DEF Ith
  <1>6. ids = [i \in 1..Cardinality(T) |-> ids[i]]
    BY <1>3
  <1>7. Sorts(ids, T, R)
    <2> HIDE DEF R
    <2> QED BY <1>3, <1>5, <1>6 DEF Sorts
  <1> QED BY <1>2, <1>7 DEF ids

LEMMA SqlGetEvents ==
    ASSUME NEW s, IsLog(s.events), NEW since \in Nat, TextSorts
    PROVE  LET ids == S!GetEvents(s, since, AllEvents)
           IN  \E n \in Nat : /\ ids \in [1..n -> SinceIn(s.events, since)]
                              /\ Range(ids) = SinceIn(s.events, since)
  <1> DEFINE T == AskedIn(s.events, since, AllEvents)
             ids == S!GetEvents(s, since, AllEvents)
             R == EarlierStamped(s.events, T)
  <1>1. Sorts(ids, T, R)
    BY SqlEvents
  <1>2. /\ T \in SUBSET Nat /\ IsFiniteSet(T) /\ T = SinceIn(s.events, since)
        /\ \A i \in T : s.events[i].ts \in Nat
    BY AskedIsFinite, AllAsked
  <1> HIDE DEF T, ids
  <1>3. Orders(R, T)
    BY <1>2, EarlierStampedOrders
  <1> HIDE DEF R
  <1>4. \E n \in Nat : ids \in [1..n -> T] /\ Range(ids) = T
    BY <1>1, <1>2, <1>3, ListOf
  <1> QED BY <1>2, <1>4 DEF ids

\* What a poller has not been given is not before the time it will ask from.
IsPolled(p, s) ==
    /\ IsLog(s.events)
    /\ \A i \in DOMAIN s.events : s.events[i].ts <= clock
    /\ p.since \in Nat /\ p.since <= clock
    /\ p.asked \subseteq p.seen
    /\ \A i \in DOMAIN s.events \ p.seen : s.events[i].ts >= p.since

PollInv == IsPolled(poller.mem, mem) /\ IsPolled(poller.sql, sql)

LEMMA PollInit == Init => PollInv
  <1> SUFFICES ASSUME Init PROVE PollInv
    OBVIOUS
  <1>1. PICK n \in Seeds : /\ mem = [M!Empty EXCEPT !.rows = Seeded(n)]
                           /\ sql = [S!Empty EXCEPT !.rows = Seeded(n), !.labels = SeededLabels(n)]
                           /\ clock = n + 1 /\ poller = [mem |-> Unpolled, sql |-> Unpolled]
    BY DEF Init
  <1>2. mem.events = <<>> /\ sql.events = <<>>
    BY <1>1 DEF M!Empty, S!Empty
  <1>3. IsLog(<<>>) /\ DOMAIN <<>> = {}
    BY DEF IsLog
  <1>4. clock \in Nat
    BY <1>1, SeededIsRows
  <1> QED BY <1>1, <1>2, <1>3, <1>4 DEF PollInv, IsPolled, Unpolled, Never

\* An import writes no event.
LEMMA ImportLogs ==
    ASSUME Shaped, ImportArtifact \/ \E e \in Edges : ImportEdge(e)
    PROVE  mem'.events = mem.events /\ sql'.events = sql.events /\ clock' \in {clock, clock + 1}
  <1>1. CASE ImportArtifact
    <2> DEFINE id == Min(import.todoRows)
               now == clock + 1
    <2>1. Imported(id, now) /\ Tick(now)
      BY <1>1 DEF ImportArtifact
    <2>2. id \in Ids
      <3>1. import.todoRows \subseteq Nat /\ import.todoRows # {} /\ import.todoRows \subseteq Ids
        BY <1>1, StoresAssumption DEF ImportArtifact, Shaped, IsImport
      <3> QED BY <3>1, LeastNat
    <2>3. now \in Time /\ clock' \in {clock, clock + 1}
      BY <2>1, StampsAreTimes, TickIsTime
    <2> HIDE DEF id, now
    <2>4. /\ \A j \in DOMAIN import.mem.rows : IsArt(import.mem.rows[j])
          /\ \A j \in DOMAIN import.sql.rows : IsArt(import.sql.rows[j])
          /\ IsMem(mem) /\ IsSql(sql)
      BY DEF Shaped, IsImport, IsCapsule, IsRows
    <2>5. mem'.events = mem.events
      <3>1. CASE id \in DOMAIN import.mem.rows
        BY <2>1, <2>2, <2>3, <2>4, <3>1, MemPut DEF Imported, Moves
      <3>2. CASE id \notin DOMAIN import.mem.rows
        BY <2>1, <3>2 DEF Imported
      <3> QED BY <3>1, <3>2
    <2>6. sql'.events = sql.events
      <3>1. CASE id \in DOMAIN import.sql.rows
        <4> DEFINE art == import.sql.rows[id]
        <4>1. sql' = S!Put(sql, id, art, now).store /\ IsArt(art)
          BY <2>1, <2>4, <3>1 DEF Imported
        <4> HIDE DEF art
        <4> QED BY <2>2, <2>3, <2>4, <4>1, SqlPut DEF Moves
      <3>2. CASE id \notin DOMAIN import.sql.rows
        BY <2>1, <3>2 DEF Imported
      <3> QED BY <3>1, <3>2
    <2> QED BY <2>3, <2>5, <2>6
  <1>2. ASSUME NEW e \in Edges, ImportEdge(e)
        PROVE  mem'.events = mem.events /\ sql'.events = sql.events /\ clock' \in {clock, clock + 1}
    <2>1. e \in Triples /\ IsMem(mem) /\ IsSql(sql)
      BY EdgesAreTriples DEF Shaped
    <2>2. mem' = mem \/ mem' = M!AddEdge(mem, e, import.mem.edges[e]).store
      BY <1>2 DEF ImportEdge
    <2>3. sql' = sql \/ sql' = S!AddEdge(sql, e, import.sql.edges[e]).store
      BY <1>2 DEF ImportEdge
    <2>4. mem'.events = mem.events
      BY <2>1, <2>2, MemEdges DEF Moves
    <2>5. sql'.events = sql.events
      BY <2>1, <2>3, SqlEdges DEF Moves
    <2> QED BY <1>2, <2>4, <2>5 DEF ImportEdge
  <1> QED BY <1>1, <1>2

\* A poll in one store.
LEMMA PolledIs ==
    ASSUME NEW p, NEW s, IsPolled(p, s), NEW ids, NEW n \in Nat,
           ids \in [1..n -> SinceIn(s.events, p.since)], Range(ids) = SinceIn(s.events, p.since)
    PROVE  IsPolled(Polled(p, s, ids), s)
  <1> DEFINE q == Polled(p, s, ids)
  <1>1. q.asked = DOMAIN s.events /\ q.seen = p.seen \union SinceIn(s.events, p.since)
    BY DEF Polled
  <1>2. DOMAIN s.events \subseteq q.seen
    BY <1>1 DEF IsPolled, SinceIn
  <1>3. q.since = p.since \/ \E i \in DOMAIN s.events : q.since = s.events[i].ts
    <2>1. CASE ids = <<>>
      BY <2>1 DEF Polled
    <2>2. CASE ids # <<>>
      <3>1. n # 0
        BY <2>2
      <3>2. Len(ids) = n /\ n \in 1..n
        BY <3>1
      <3>3. Last(ids) \in SinceIn(s.events, p.since)
        BY <3>2 DEF Last
      <3> QED BY <2>2, <3>3 DEF Polled, SinceIn
    <2> QED BY <2>1, <2>2
  <1>4. q.since \in Nat /\ q.since <= clock
    <2> HIDE DEF q
    <2> QED BY <1>3 DEF IsPolled, IsLog
  <1> HIDE DEF q
  <1> QED BY <1>1, <1>2, <1>4 DEF IsPolled, q

\* The time an event is given is not before the clock, nor so before any a poller asks from.
LEMMA PolledGrows ==
    ASSUME NEW p, NEW s, NEW t, IsPolled(p, s), NEW ev, ev.ts = Never, DOMAIN ev = {"about", "type", "ts"},
           NEW now \in {clock, clock + 1}, clock \in Time, LogGrows(s, t, ev, now)
    PROVE  /\ IsLog(t.events)
           /\ \A i \in DOMAIN t.events : t.events[i].ts <= now
           /\ \A i \in DOMAIN t.events \ p.seen : t.events[i].ts >= p.since
  <1> DEFINE e == [ev EXCEPT !.ts = Stamp(ev.ts, now)]
  <1>1. e.ts = now /\ now \in Nat /\ clock <= now
    BY DEF Stamp, Time
  <1>2. t.events = Append(s.events, e)
    BY DEF LogGrows
  <1>3. PICK k \in Nat : DOMAIN s.events = 1..k /\ \A i \in 1..k : s.events[i].ts \in Nat
    BY DEF IsPolled, IsLog
  <1>4. Len(s.events) = k
    BY <1>3
  <1> HIDE DEF e
  <1>5. /\ DOMAIN t.events = 1..(k + 1) /\ t.events[k + 1] = e
        /\ \A i \in 1..k : t.events[i] = s.events[i]
    BY <1>2, <1>3, <1>4
  <1>6. IsLog(t.events)
    <2>1. k + 1 \in Nat /\ \A i \in 1..(k + 1) : i \in 1..k \/ i = k + 1
      OBVIOUS
    <2> QED BY <1>1, <1>3, <1>5, <2>1 DEF IsLog
  <1>7. \A i \in DOMAIN t.events : i \in 1..k \/ i = k + 1
    BY <1>5
  <1>8. \A i \in DOMAIN t.events : t.events[i].ts <= now
    BY <1>1, <1>3, <1>5, <1>7 DEF IsPolled, Time
  <1>9. \A i \in DOMAIN t.events \ p.seen : t.events[i].ts >= p.since
    BY <1>1, <1>3, <1>5, <1>7 DEF IsPolled, Time
  <1> QED BY <1>6, <1>8, <1>9

LEMMA PollStep ==
    ASSUME PollInv, Shaped, Poll, TextSorts
    PROVE  PollInv'
  <1>1. /\ poller' = [mem |-> Polled(poller.mem, mem, M!GetEvents(mem, poller.mem.since, AllEvents)),
                      sql |-> Polled(poller.sql, sql, S!GetEvents(sql, poller.sql.since, AllEvents))]
        /\ UNCHANGED <<mem, sql, clock>>
    BY DEF Poll
  <1>2. IsPolled(Polled(poller.mem, mem, M!GetEvents(mem, poller.mem.since, AllEvents)), mem)
    <2> DEFINE ids == M!GetEvents(mem, poller.mem.since, AllEvents)
    <2>1. PICK n \in Nat : /\ ids \in [1..n -> SinceIn(mem.events, poller.mem.since)]
                           /\ Range(ids) = SinceIn(mem.events, poller.mem.since)
      BY MemGetEvents DEF PollInv, IsPolled
    <2> HIDE DEF ids
    <2>2. IsPolled(Polled(poller.mem, mem, ids), mem)
      BY <2>1, PolledIs DEF PollInv
    <2> QED BY <2>2 DEF ids
  <1>3. IsPolled(Polled(poller.sql, sql, S!GetEvents(sql, poller.sql.since, AllEvents)), sql)
    <2> DEFINE ids == S!GetEvents(sql, poller.sql.since, AllEvents)
    <2>1. PICK n \in Nat : /\ ids \in [1..n -> SinceIn(sql.events, poller.sql.since)]
                           /\ Range(ids) = SinceIn(sql.events, poller.sql.since)
      BY SqlGetEvents DEF PollInv, IsPolled
    <2> HIDE DEF ids
    <2>2. IsPolled(Polled(poller.sql, sql, ids), sql)
      BY <2>1, PolledIs DEF PollInv
    <2> QED BY <2>2 DEF ids
  <1>4. poller'.mem = Polled(poller.mem, mem, M!GetEvents(mem, poller.mem.since, AllEvents))
        /\ poller'.sql = Polled(poller.sql, sql, S!GetEvents(sql, poller.sql.since, AllEvents))
    BY <1>1
  <1> QED BY <1>1, <1>2, <1>3, <1>4 DEF PollInv, IsPolled

LEMMA AppendStep ==
    ASSUME PollInv, Shaped, NEW id \in Ids, NEW type, AppendEvent(id, type), StampsInTurn
    PROVE  PollInv'
  <1> DEFINE ev == NewEvent(id, type)
  <1>1. PICK now \in Stamps \union {clock} :
             /\ LogGrows(mem, mem', ev, now) /\ LogGrows(sql, sql', ev, now)
             /\ Tick(now) /\ clock' \in {clock, clock + 1} /\ poller' = poller
    BY AppendEventWrites
  <1>2. ev.ts = Never /\ DOMAIN ev = {"about", "type", "ts"}
    BY DEF NewEvent
  <1>3. now \in {clock, clock + 1} /\ clock \in Time
    BY StampIsNext DEF Shaped
  <1>4. now <= clock' /\ clock <= clock'
    BY <1>1, <1>3 DEF Tick, Time
  <1> HIDE DEF ev
  <1>5. /\ IsLog(mem'.events)
        /\ \A i \in DOMAIN mem'.events : mem'.events[i].ts <= now
        /\ \A i \in DOMAIN mem'.events \ poller.mem.seen : mem'.events[i].ts >= poller.mem.since
    BY <1>1, <1>2, <1>3, PolledGrows DEF PollInv
  <1>6. /\ IsLog(sql'.events)
        /\ \A i \in DOMAIN sql'.events : sql'.events[i].ts <= now
        /\ \A i \in DOMAIN sql'.events \ poller.sql.seen : sql'.events[i].ts >= poller.sql.since
    BY <1>1, <1>2, <1>3, PolledGrows DEF PollInv
  <1>7. clock \in Nat /\ clock' \in Nat /\ now \in Nat
    BY <1>1, <1>3 DEF Time
  <1>8. IsPolled(poller.mem, mem)'
    <2>1. \A i \in DOMAIN mem'.events : mem'.events[i].ts <= clock'
      BY <1>4, <1>5, <1>7 DEF IsLog
    <2> QED BY <1>1, <1>4, <1>5, <1>7, <2>1 DEF PollInv, IsPolled
  <1>9. IsPolled(poller.sql, sql)'
    <2>1. \A i \in DOMAIN sql'.events : sql'.events[i].ts <= clock'
      BY <1>4, <1>6, <1>7 DEF IsLog
    <2> QED BY <1>1, <1>4, <1>6, <1>7, <2>1 DEF PollInv, IsPolled
  <1> QED BY <1>8, <1>9 DEF PollInv

LEMMA PolledStays ==
    ASSUME PollInv, Shaped, mem'.events = mem.events, sql'.events = sql.events, poller' = poller,
           clock' \in {clock, clock + 1}
    PROVE  PollInv'
  <1>1. clock \in Nat /\ clock' \in Nat /\ clock <= clock'
    BY DEF Shaped, Time
  <1>2. IsPolled(poller.mem, mem)'
    <2>1. \A i \in DOMAIN mem.events : mem.events[i].ts \in Nat /\ mem.events[i].ts <= clock
      BY DEF PollInv, IsPolled, IsLog
    <2>2. \A i \in DOMAIN mem'.events : mem'.events[i].ts <= clock'
      BY <1>1, <2>1
    <2> QED BY <1>1, <2>2 DEF PollInv, IsPolled
  <1>3. IsPolled(poller.sql, sql)'
    <2>1. \A i \in DOMAIN sql.events : sql.events[i].ts \in Nat /\ sql.events[i].ts <= clock
      BY DEF PollInv, IsPolled, IsLog
    <2>2. \A i \in DOMAIN sql'.events : sql'.events[i].ts <= clock'
      BY <1>1, <2>1
    <2> QED BY <1>1, <2>2 DEF PollInv, IsPolled
  <1> QED BY <1>2, <1>3 DEF PollInv

LEMMA PollNext == ASSUME PollInv, ImportInv, [Next]_vars, TextSorts, StampsInTurn PROVE PollInv'
  <1>1. Shaped
    BY DEF ImportInv
  <1>2. CASE Writes
    <2>1. PICK ids \in SUBSET Ids, edges \in SUBSET Triples : Wrote(ids, edges)
      BY <1>1, <1>2, WritesWrote
    <2> QED BY <1>1, <2>1, PolledStays DEF Wrote, Moves
  <1>3. CASE ImportArtifact \/ \E e \in Edges : ImportEdge(e)
    <2>1. poller' = poller
      BY <1>3 DEF ImportArtifact, ImportEdge
    <2> QED BY <1>1, <1>3, <2>1, ImportLogs, PolledStays
  <1>4. CASE Pages \/ CapsuleExport \/ CapsuleImport \/ ImportStops \/ UNCHANGED vars
    <2>1. UNCHANGED <<mem, sql, clock, poller>>
      BY <1>4 DEF Pages, CapsuleExport, CapsuleImport, ImportStops, vars
    <2> QED BY <1>1, <2>1, PolledStays
  <1> QED BY <1>1, <1>2, <1>3, <1>4, NextIs, PollStep, AppendStep

\* A poller that asks for the events since the last one it was given misses none
\* (GetEvents), in either store, when the texts of times sort as the times do and no
\* event waits for the writer with its stamp: without either it is not so.
THEOREM PollerMissesNothing ==
    ASSUME TextSorts, StampsInTurn
    PROVE  Spec => []PollComplete
  <1>1. PollInv => PollComplete
    BY DEF PollInv, PollComplete, IsPolled
  <1> QED BY <1>1, PollInit, PollNext, ImportInit, ImportNext, PTL DEF Spec

------------------------------------------------------------------------------
(* The same events of both stores.                                         *)

InTime(events) == \A i, j \in DOMAIN events : i < j => events[i].ts <= events[j].ts

LogInv ==
    /\ sql.events = mem.events
    /\ IsLog(mem.events) /\ InTime(mem.events)
    /\ \A i \in DOMAIN mem.events : mem.events[i].ts <= clock

\* Events in time are sorted by time as they are by number.
LEMMA LogImplies ==
    ASSUME LogInv, clock \in Nat, TextSorts
    PROVE  SameEvents
  <1> SUFFICES ASSUME NEW t \in 0..clock, NEW f \in EventFilters
               PROVE  M!GetEvents(mem, t, f) = S!GetEvents(sql, t, f)
    BY DEF SameEvents
  <1> DEFINE T == AskedIn(mem.events, t, f)
             p == M!GetEvents(mem, t, f)
             q == S!GetEvents(sql, t, f)
  <1>1. IsLog(mem.events) /\ sql.events = mem.events /\ t \in Nat
    BY DEF LogInv
  <1>2. Sorts(p, T, Earlier(T))
    BY <1>1, MemEvents
  <1>3. Sorts(q, T, EarlierStamped(mem.events, T))
    <2> DEFINE U == AskedIn(sql.events, t, f)
    <2>1. Sorts(q, U, EarlierStamped(sql.events, U))
      BY <1>1, SqlEvents
    <2> HIDE DEF q
    <2> QED BY <1>1, <2>1
  <1>4. T \in SUBSET Nat /\ IsFiniteSet(T) /\ \A i \in T : mem.events[i].ts \in Nat
    BY <1>1, AskedIsFinite
  <1>5. \A i, j \in T : i < j => mem.events[i].ts <= mem.events[j].ts
    BY DEF LogInv, InTime, AskedIn, SinceIn
  <1> HIDE DEF T, p, q
  <1>6. EarlierStamped(mem.events, T) = Earlier(T)
    <2>1. ASSUME NEW i \in T, NEW j \in T
          PROVE  (\/ mem.events[i].ts < mem.events[j].ts
                  \/ mem.events[i].ts = mem.events[j].ts /\ i < j) <=> i < j
      <3>1. mem.events[i].ts \in Nat /\ mem.events[j].ts \in Nat /\ i \in Nat /\ j \in Nat
        BY <1>4
      <3>2. /\ i < j => mem.events[i].ts <= mem.events[j].ts
            /\ j < i => mem.events[j].ts <= mem.events[i].ts
        BY <1>5
      <3> QED BY <3>1, <3>2
    <2> QED BY <2>1 DEF EarlierStamped, Earlier
  <1>7. p = q
    BY <1>2, <1>3, <1>4, <1>6, EarlierOrders, SortedOnce
  <1> QED BY <1>7 DEF p, q

LEMMA LogInit == Init => LogInv
  <1> SUFFICES ASSUME Init PROVE LogInv
    OBVIOUS
  <1>1. PICK n \in Seeds : /\ mem = [M!Empty EXCEPT !.rows = Seeded(n)]
                           /\ sql = [S!Empty EXCEPT !.rows = Seeded(n), !.labels = SeededLabels(n)]
    BY DEF Init
  <1>2. mem.events = <<>> /\ sql.events = <<>>
    BY <1>1 DEF M!Empty, S!Empty
  <1>3. IsLog(<<>>) /\ DOMAIN <<>> = {}
    BY DEF IsLog
  <1> QED BY <1>2, <1>3 DEF LogInv, InTime

LEMMA LogStays ==
    ASSUME LogInv, Shaped, mem'.events = mem.events, sql'.events = sql.events, clock' \in {clock, clock + 1}
    PROVE  LogInv'
  <1>1. clock \in Nat
    BY DEF Shaped, Time
  <1>2. \A i \in DOMAIN mem.events : mem.events[i].ts \in Nat /\ mem.events[i].ts <= clock
    BY DEF LogInv, IsLog
  <1>3. \A i \in DOMAIN mem'.events : mem'.events[i].ts <= clock'
    BY <1>1, <1>2
  <1> QED BY <1>3 DEF LogInv

LEMMA LogAppends ==
    ASSUME LogInv, Shaped, StampsInTurn, NEW id \in Ids, NEW type, AppendEvent(id, type)
    PROVE  LogInv'
  <1> DEFINE ev == NewEvent(id, type)
             new == [ev EXCEPT !.ts = Stamp(ev.ts, clock')]
  <1>1. PICK now \in Stamps \union {clock} :
             /\ LogGrows(mem, mem', ev, now) /\ LogGrows(sql, sql', ev, now) /\ Tick(now)
    BY AppendEventWrites
  <1>2. ev.ts = Never /\ DOMAIN ev = {"about", "type", "ts"}
    BY DEF NewEvent
  <1>3. clock \in Nat /\ now \in {clock, clock + 1}
    BY StampIsNext DEF Shaped, Time
  <1>4. clock' = now /\ now \in Nat
    BY <1>1, <1>3 DEF Tick
  <1> HIDE DEF ev
  <1>5. mem'.events = Append(mem.events, new) /\ sql'.events = Append(sql.events, new) /\ new.ts = clock'
    BY <1>1, <1>2, <1>4 DEF LogGrows, Stamp
  <1>6. PICK k \in Nat : DOMAIN mem.events = 1..k /\ \A i \in 1..k : mem.events[i].ts \in Nat
    BY DEF LogInv, IsLog
  <1>7. Len(mem.events) = k
    BY <1>6
  <1> HIDE DEF new
  <1>8. /\ DOMAIN mem'.events = 1..(k + 1) /\ mem'.events[k + 1] = new
        /\ \A i \in 1..k : mem'.events[i] = mem.events[i]
    BY <1>5, <1>6, <1>7
  <1>9. \A i \in DOMAIN mem'.events : i \in 1..k \/ i = k + 1
    BY <1>8
  <1>10. \A i \in 1..k : mem.events[i].ts <= clock
    BY <1>6 DEF LogInv
  <1>11. \A i \in DOMAIN mem'.events : mem'.events[i].ts \in Nat /\ mem'.events[i].ts <= clock'
    BY <1>3, <1>4, <1>5, <1>6, <1>8, <1>9, <1>10
  <1>12. IsLog(mem'.events)
    <2>1. k + 1 \in Nat
      OBVIOUS
    <2> QED BY <1>8, <1>11, <2>1 DEF IsLog
  <1>13. InTime(mem'.events)
    <2> SUFFICES ASSUME NEW i \in DOMAIN mem'.events, NEW j \in DOMAIN mem'.events, i < j
                 PROVE  mem'.events[i].ts <= mem'.events[j].ts
      BY DEF InTime
    <2>1. CASE j = k + 1
      BY <1>5, <1>8, <1>11, <2>1
    <2>2. CASE j \in 1..k
      <3>1. i \in 1..k
        BY <1>8, <2>2
      <3> QED BY <1>6, <1>8, <2>2, <3>1 DEF LogInv, InTime
    <2> QED BY <1>9, <2>1, <2>2
  <1> QED BY <1>5, <1>11, <1>12, <1>13 DEF LogInv

LEMMA LogNext == ASSUME LogInv, ImportInv, [Next]_vars, StampsInTurn PROVE LogInv'
  <1>1. Shaped
    BY DEF ImportInv
  <1>2. CASE Writes
    <2>1. PICK ids \in SUBSET Ids, edges \in SUBSET Triples : Wrote(ids, edges)
      BY <1>1, <1>2, WritesWrote
    <2> QED BY <1>1, <2>1, LogStays DEF Wrote, Moves
  <1>3. CASE ImportArtifact \/ \E e \in Edges : ImportEdge(e)
    BY <1>1, <1>3, ImportLogs, LogStays
  <1>4. CASE Pages \/ Poll \/ CapsuleExport \/ CapsuleImport \/ ImportStops \/ UNCHANGED vars
    <2>1. UNCHANGED <<mem, sql, clock>>
      BY <1>4 DEF Pages, Poll, CapsuleExport, CapsuleImport, ImportStops, vars
    <2> QED BY <1>1, <2>1, LogStays
  <1> QED BY <1>1, <1>2, <1>3, <1>4, NextIs, LogAppends

\* GetEvents of MemoryStore, which returns its log as it was appended to, and of
\* SQLiteStore, which sorts by the text of the time, return the same events in the
\* same order from whatever time and through whatever filter.
THEOREM EventsAreAlike ==
    ASSUME TextSorts, StampsInTurn
    PROVE  Spec => []SameEvents
  <1>1. LogInv /\ ImportInv => SameEvents
    BY LogImplies DEF ImportInv, Shaped, Time
  <1> QED BY <1>1, LogInit, LogNext, ImportInit, ImportNext, PTL DEF Spec

------------------------------------------------------------------------------
(* A reader.                                                               *)

\* The artifact i was put before j, or at its time with a lower id.
PutBefore(s, i, j) ==
    \/ s.rows[i].inserted < s.rows[j].inserted
    \/ s.rows[i].inserted = s.rows[j].inserted /\ i < j

PutOrder(s, T) == {p \in T \X T : PutBefore(s, p[1], p[2])}

\* It comes after the place the cursor holds.
Ahead(s, id, cursor) ==
    \/ cursor = NoCursor
    \/ cursor.ts < s.rows[id].inserted
    \/ cursor.ts = s.rows[id].inserted /\ cursor.id < id

Left(s, cursor) == {id \in DOMAIN s.rows : Ahead(s, id, cursor)}

\* The artifacts that are left, in their order, each once.
Lists(rest, n, s, cursor) ==
    /\ n \in Nat
    /\ rest \in [1..n -> Left(s, cursor)]
    /\ \A id \in Left(s, cursor) : \E i \in 1..n : rest[i] = id
    /\ \A i, j \in 1..n : i < j => PutBefore(s, rest[i], rest[j])

\* The first PageLimit of them, and the cursor of the last when more are left.
IsPage(page, s, cursor) ==
    \E rest, n :
        /\ Lists(rest, n, s, cursor)
        /\ n <= PageLimit => page.ids = rest /\ page.next = NoCursor
        /\ n > PageLimit =>
             /\ page.ids = SubSeq(rest, 1, PageLimit)
             /\ page.next = [ts |-> s.rows[rest[PageLimit]].inserted, id |-> rest[PageLimit]]

IsCursor(c) == c = NoCursor \/ (DOMAIN c = {"ts", "id"} /\ c.ts \in Nat /\ c.id \in Nat)

LEMMA PutOrders ==
    ASSUME NEW s, IsRows(s.rows), NEW T \in SUBSET DOMAIN s.rows
    PROVE  Orders(PutOrder(s, T), T)
  <1>1. \A x \in T : x \in Nat /\ s.rows[x].inserted \in Nat
    BY StoresAssumption DEF IsRows, IsArt
  <1>2. \A x \in T : ~PutBefore(s, x, x)
    BY <1>1 DEF PutBefore
  <1>3. \A x, y, z \in T : PutBefore(s, x, y) /\ PutBefore(s, y, z) => PutBefore(s, x, z)
    BY <1>1 DEF PutBefore
  <1>4. \A x, y \in T : x # y => PutBefore(s, x, y) \/ PutBefore(s, y, x)
    BY <1>1 DEF PutBefore
  <1> QED BY <1>2, <1>3, <1>4 DEF Orders, PutOrder

LEMMA MemMatchesAll == \A s : M!Matching(s, NoFilter) = DOMAIN s.rows
  BY DEF M!Matching, M!Matches, NoFilter, NoValue, M!NoValue

LEMMA SqlMatchesAll == \A s : S!Matching(s, NoFilter) = DOMAIN s.rows
  BY DEF S!Matching, S!Matches, S!WithAny, S!InJunction, NoFilter, NoValue, S!NoValue, NoMap

\* SQLiteStore takes what is left, and sorts it.
LEMMA SqlListPage ==
    ASSUME NEW s, IsRows(s.rows), IsFiniteSet(DOMAIN s.rows), NEW cursor, IsCursor(cursor), TextSorts
    PROVE  IsPage(S!ListPage(s, NoFilter, cursor, PageLimit), s, cursor)
  <1> DEFINE T == Left(s, cursor)
             R == PutOrder(s, T)
             page == S!ListPage(s, NoFilter, cursor, PageLimit)
             Key(id) == S!Key(s, id)
             Before(i, j) == S!Above(Key(j), Key(i))
             U == {id \in S!Matching(s, NoFilter) : S!Beyond(Key(id), cursor)}
             Ith(i) == CHOOSE x \in U : S!Cardinality({y \in U : Before(y, x)}) = i - 1
             rest == [i \in 1..S!Cardinality(U) |-> Ith(i)]
  <1>1. \A t : Text(t) = t
    BY TextIsTime
  <1>2. \A id : Key(id) = [ts |-> s.rows[id].inserted, id |-> id]
    BY <1>1 DEF S!Key
  <1>3. NoCursor = S!NoCursor
    BY DEF NoCursor, S!NoCursor, Never, S!Never
  <1>4. \A id \in DOMAIN s.rows : id \in Nat /\ s.rows[id].inserted \in Nat
    BY StoresAssumption DEF IsRows, IsArt
  <1>5. /\ page.ids = IF Len(rest) > PageLimit THEN SubSeq(rest, 1, PageLimit) ELSE rest
        /\ page.next = IF Len(rest) > PageLimit THEN Key(rest[PageLimit]) ELSE S!NoCursor
    BY DEF S!ListPage, S!SortedBy
  <1> HIDE DEF page
  <1>6. U = T
    <2>1. \A id \in DOMAIN s.rows : S!Beyond(Key(id), cursor) <=> Ahead(s, id, cursor)
      <3> HIDE DEF Key
      <3> QED BY <1>2, <1>3, <1>4 DEF S!Beyond, S!Above, Ahead, IsCursor
    <2> HIDE DEF Key
    <2> QED BY <2>1, SqlMatchesAll DEF Left
  <1>7. T \in SUBSET DOMAIN s.rows /\ IsFiniteSet(T)
    BY FS_Subset DEF Left
  <1>8. Sorts(rest, T, R)
    <2>1. \A x \in T : {y \in T : Before(y, x)} = Below(T, R, x)
      <3>1. \A x, y \in T : Before(y, x) <=> PutBefore(s, y, x)
        <4> HIDE DEF Key
        <4> QED BY <1>2, <1>4, <1>7 DEF S!Above, PutBefore
      <3> HIDE DEF Before, T
      <3> QED BY <3>1 DEF Below, PutOrder, R
    <2> HIDE DEF Before, U, T, R
    <2>2. ASSUME NEW i, \E x \in T : Cardinality(Below(T, R, x)) = i - 1
          PROVE  Ith(i) \in T /\ Cardinality(Below(T, R, Ith(i))) = i - 1
      BY <1>6, <2>1, <2>2, SqlCardinality
    <2> HIDE DEF Ith
    <2>3. rest = [i \in 1..Cardinality(T) |-> Ith(i)]
      BY <1>6, SqlCardinality
    <2> HIDE DEF rest
    <2>4. rest = [i \in 1..Cardinality(T) |-> rest[i]]
      BY <2>3
    <2> QED BY <2>2, <2>3, <2>4 DEF Sorts
  <1> HIDE DEF rest, U, Key
  <1>9. Lists(rest, Cardinality(T), s, cursor)
    <2>1. /\ Cardinality(T) \in Nat /\ rest \in [1..Cardinality(T) -> T]
          /\ \A x \in T : \E i \in 1..Cardinality(T) : rest[i] = x
          /\ \A i, j \in 1..Cardinality(T) : i < j => <<rest[i], rest[j]>> \in R
      <3> HIDE DEF T, R
      <3> QED BY <1>7, <1>8, SortedIs, PutOrders DEF R
    <2> QED BY <2>1 DEF Lists, PutOrder
  <1> DEFINE n == Cardinality(T)
  <1>10. n \in Nat /\ Len(rest) = n /\ PageLimit \in Nat
    BY <1>9, StoresAssumption DEF Lists
  <1> HIDE DEF n
  <1>11. n <= PageLimit <=> ~(Len(rest) > PageLimit)
    BY <1>10
  <1>12. n <= PageLimit => page.ids = rest /\ page.next = NoCursor
    BY <1>3, <1>5, <1>11
  <1>13. n > PageLimit =>
           /\ page.ids = SubSeq(rest, 1, PageLimit)
           /\ page.next = [ts |-> s.rows[rest[PageLimit]].inserted, id |-> rest[PageLimit]]
    BY <1>2, <1>5, <1>10
  <1>14. Lists(rest, n, s, cursor)
    BY <1>9 DEF n
  <1> HIDE DEF T
  <1>15. IsPage(page, s, cursor)
    BY <1>12, <1>13, <1>14 DEF IsPage
  <1> QED BY <1>15 DEF page

\* MemoryStore sorts them all, and cuts where the cursor is passed.
LEMMA AfterCursorLists ==
    ASSUME NEW s, IsRows(s.rows), NEW cursor, IsCursor(cursor), cursor # NoCursor, TextSorts,
           NEW all, NEW k, Lists(all, k, s, NoCursor)
    PROVE  \E n : Lists(M!AfterCursor(s, all, cursor), n, s, cursor)
  <1> DEFINE Behind(id) == LET ts == Text(s.rows[id].inserted)
                           IN  ts < cursor.ts \/ (ts = cursor.ts /\ id <= cursor.id)
             I == {i \in 1..Len(all) : ~Behind(all[i])}
             cut == IF I # {} THEN M!Min(I) ELSE 0
             rest == IF cut = 0 THEN <<>> ELSE SubSeq(all, cut, Len(all))
  <1>1. M!AfterCursor(s, all, cursor) = rest
    BY DEF M!AfterCursor, M!SelectInSeq
  <1>2. \A id \in DOMAIN s.rows : id \in Nat /\ s.rows[id].inserted \in Nat
    BY StoresAssumption DEF IsRows, IsArt
  <1>3. \A id \in DOMAIN s.rows : ~Behind(id) <=> Ahead(s, id, cursor)
    BY <1>2, TextIsTime DEF Ahead, IsCursor
  <1>4. \A id : Ahead(s, id, NoCursor)
    BY DEF Ahead
  <1>5. /\ k \in Nat /\ Len(all) = k /\ all \in [1..k -> DOMAIN s.rows]
        /\ \A id \in DOMAIN s.rows : \E i \in 1..k : all[i] = id
        /\ \A i, j \in 1..k : i < j => PutBefore(s, all[i], all[j])
    BY <1>4 DEF Lists, Left
  <1> HIDE DEF Behind
  <1>6. I = {i \in 1..k : Ahead(s, all[i], cursor)}
    BY <1>3, <1>5
  <1>7. CASE I = {}
    <2>1. rest = <<>>
      BY <1>7
    <2>2. Left(s, cursor) = {}
      BY <1>5, <1>6, <1>7 DEF Left
    <2> HIDE DEF rest
    <2>3. Lists(rest, 0, s, cursor)
      BY <2>1, <2>2 DEF Lists
    <2> QED BY <1>1, <2>3
  <1>8. CASE I # {}
    <2>1. M!Min(I) = Min(I)
      BY DEF M!Min, Min
    <2>2. cut \in I /\ \A i \in I : cut <= i
      <3>1. I \in SUBSET Nat
        BY <1>5
      <3> HIDE DEF I
      <3> QED BY <1>8, <2>1, <3>1, LeastNat
    <2> HIDE DEF I
    <2>3. cut \in 1..k /\ Ahead(s, all[cut], cursor)
      BY <1>6, <2>2
    <2>4. rest = SubSeq(all, cut, k)
      BY <1>5, <2>3
    <2> HIDE DEF cut, rest
    <2> DEFINE n == k - cut + 1
    <2>5. n \in Nat /\ DOMAIN rest = 1..n /\ \A i \in 1..n : cut + i - 1 \in 1..k /\ rest[i] = all[cut + i - 1]
      BY <1>5, <2>3, <2>4
    <2>6. ASSUME NEW i \in cut..k PROVE all[i] \in Left(s, cursor)
      <3>1. i \in 1..k /\ cut \in 1..k /\ (i = cut \/ cut < i)
        BY <1>5, <2>3
      <3>2. all[i] \in DOMAIN s.rows /\ all[cut] \in DOMAIN s.rows
        BY <1>5, <3>1
      <3>3. Ahead(s, all[i], cursor)
        <4>1. CASE i = cut
          BY <2>3, <4>1
        <4>2. CASE cut < i
          <5>1. PutBefore(s, all[cut], all[i])
            BY <1>5, <3>1, <4>2
          <5> QED BY <1>2, <2>3, <3>2, <5>1 DEF Ahead, PutBefore, IsCursor
        <4> QED BY <3>1, <4>1, <4>2
      <3> QED BY <3>2, <3>3 DEF Left
    <2>7. \A i \in 1..n : rest[i] \in Left(s, cursor)
      <3> SUFFICES ASSUME NEW i \in 1..n PROVE rest[i] \in Left(s, cursor)
        OBVIOUS
      <3>1. cut + i - 1 \in cut..k
        BY <1>5, <2>3
      <3> HIDE DEF n
      <3> QED BY <2>5, <2>6, <3>1
    <2>8. rest \in [1..n -> Left(s, cursor)]
      <3>1. rest = [i \in 1..n |-> rest[i]]
        BY <1>5, <2>3, <2>4
      <3> HIDE DEF n
      <3> QED BY <2>7, <3>1
    <2>9. ASSUME NEW id \in Left(s, cursor) PROVE \E i \in 1..n : rest[i] = id
      <3>1. PICK m \in 1..k : all[m] = id
        BY <1>5 DEF Left
      <3>2. m \in I
        BY <1>6, <3>1 DEF Left
      <3>3. cut <= m /\ m - cut + 1 \in 1..n /\ cut + (m - cut + 1) - 1 = m
        BY <1>5, <2>2, <2>3, <3>2
      <3> HIDE DEF n
      <3> QED BY <2>5, <3>1, <3>3
    <2>10. ASSUME NEW i \in 1..n, NEW j \in 1..n, i < j PROVE PutBefore(s, rest[i], rest[j])
      <3>1. cut + i - 1 < cut + j - 1
        BY <1>5, <2>3, <2>10
      <3> HIDE DEF n
      <3> QED BY <1>5, <2>5, <3>1
    <2> HIDE DEF n
    <2>11. Lists(rest, n, s, cursor)
      BY <2>5, <2>8, <2>9, <2>10 DEF Lists
    <2> QED BY <1>1, <2>11 DEF rest
  <1> QED BY <1>7, <1>8

LEMMA MemListPage ==
    ASSUME NEW s, IsRows(s.rows), IsFiniteSet(DOMAIN s.rows), NEW cursor, IsCursor(cursor), TextSorts
    PROVE  IsPage(M!ListPage(s, NoFilter, cursor, PageLimit), s, cursor)
  <1> DEFINE T == DOMAIN s.rows
             R == PutOrder(s, T)
             page == M!ListPage(s, NoFilter, cursor, PageLimit)
             U == M!Matching(s, NoFilter)
             Ith(i) == CHOOSE x \in U : M!Cardinality({y \in U : M!EarlierInserted(s, y, x)}) = i - 1
             all == [i \in 1..M!Cardinality(U) |-> Ith(i)]
             rest == IF cursor = M!NoCursor THEN all ELSE M!AfterCursor(s, all, cursor)
  <1>1. NoCursor = M!NoCursor
    BY DEF NoCursor, M!NoCursor, Never, M!Never
  <1>2. /\ page.ids = IF Len(rest) <= PageLimit THEN rest ELSE SubSeq(rest, 1, PageLimit)
        /\ page.next = M!CursorAfter(s, rest, PageLimit)
    BY DEF M!ListPage, M!SortedBy
  <1> HIDE DEF page
  <1>3. U = T
    BY MemMatchesAll
  <1>4. Sorts(all, T, R)
    <2>1. \A x \in T : {y \in T : M!EarlierInserted(s, y, x)} = Below(T, R, x)
      BY DEF M!EarlierInserted, PutBefore, Below, PutOrder
    <2> HIDE DEF U, T, R
    <2>2. ASSUME NEW i, \E x \in T : Cardinality(Below(T, R, x)) = i - 1
          PROVE  Ith(i) \in T /\ Cardinality(Below(T, R, Ith(i))) = i - 1
      BY <1>3, <2>1, <2>2, MemCardinality
    <2> HIDE DEF Ith
    <2>3. all = [i \in 1..Cardinality(T) |-> Ith(i)]
      BY <1>3, MemCardinality
    <2> HIDE DEF all
    <2>4. all = [i \in 1..Cardinality(T) |-> all[i]]
      BY <2>3
    <2> QED BY <2>2, <2>3, <2>4 DEF Sorts
  <1> HIDE DEF all, U
  <1>5. Lists(all, Cardinality(T), s, NoCursor)
    <2>1. /\ Cardinality(T) \in Nat /\ all \in [1..Cardinality(T) -> T]
          /\ \A x \in T : \E i \in 1..Cardinality(T) : all[i] = x
          /\ \A i, j \in 1..Cardinality(T) : i < j => <<all[i], all[j]>> \in R
      <3> HIDE DEF R
      <3> QED BY <1>4, SortedIs, PutOrders DEF R
    <2>2. T = Left(s, NoCursor)
      BY DEF Left, Ahead
    <2> QED BY <2>1, <2>2 DEF Lists, PutOrder
  <1>6. PICK n : Lists(rest, n, s, cursor)
    <2>1. CASE cursor = NoCursor
      BY <1>1, <1>5, <2>1
    <2>2. CASE cursor # NoCursor
      BY <1>1, <1>5, <2>2, AfterCursorLists
    <2> QED BY <2>1, <2>2
  <1> HIDE DEF rest
  <1>7. n \in Nat /\ Len(rest) = n /\ PageLimit \in Nat
    BY <1>6, StoresAssumption DEF Lists
  <1>8. n <= PageLimit => page.ids = rest /\ page.next = NoCursor
    BY <1>1, <1>2, <1>7 DEF M!CursorAfter
  <1>9. n > PageLimit => page.ids = SubSeq(rest, 1, PageLimit)
    BY <1>2, <1>7
  <1>10. n > PageLimit => page.next = [ts |-> s.rows[rest[PageLimit]].inserted, id |-> rest[PageLimit]]
    BY <1>2, <1>7, TextIsTime DEF M!CursorAfter
  <1>11. IsPage(page, s, cursor)
    BY <1>6, <1>8, <1>9, <1>10 DEF IsPage
  <1> QED BY <1>11 DEF page

\* Up to its cursor a reader has been given what is stored, and beyond it only what
\* was put anew; it has been given nothing twice but that.
Followed(r, s) ==
    \A id \in DOMAIN s.rows :
        /\ ~Ahead(s, id, r.cursor) => id \in Range(r.seen)
        /\ Ahead(s, id, r.cursor) /\ id \in Range(r.seen) => id \in r.born

GivenOnce(r) ==
    \A i, j \in DOMAIN r.seen : i # j /\ r.seen[i] = r.seen[j] => r.seen[i] \in r.born

IsRead(r, s, now) ==
    /\ DOMAIN r = {"cursor", "seen", "stored", "born", "done"}
    /\ r.seen \in Seq(Ids)
    /\ r.done \in BOOLEAN
    /\ GivenOnce(r)
    /\ r.done => r.stored \subseteq Range(r.seen)
    /\ ~r.done => /\ IsCursor(r.cursor) /\ r.cursor.ts <= now
                  /\ r.cursor = NoCursor <=> r.seen = <<>>
                  /\ Followed(r, s)

\* Artifacts are put at times that have come, and are finitely many.
IsTimely(s, now) ==
    IsRows(s.rows) /\ IsFiniteSet(DOMAIN s.rows) /\ \A id \in DOMAIN s.rows : s.rows[id].inserted <= now

LEMMA RangeOfConcat ==
    ASSUME NEW a \in Seq(Ids), NEW b \in Seq(Ids)
    PROVE  /\ a \o b \in Seq(Ids)
           /\ DOMAIN (a \o b) = 1..(Len(a) + Len(b))
           /\ \A i \in DOMAIN (a \o b) : (a \o b)[i] = IF i <= Len(a) THEN a[i] ELSE b[i - Len(a)]
           /\ Range(a \o b) = Range(a) \union Range(b)
  <1> DEFINE c == a \o b
  <1>1. /\ c \in Seq(Ids) /\ DOMAIN c = 1..(Len(a) + Len(b))
        /\ \A i \in DOMAIN c : c[i] = IF i <= Len(a) THEN a[i] ELSE b[i - Len(a)]
    OBVIOUS
  <1>2. Len(a) \in Nat /\ Len(b) \in Nat /\ DOMAIN a = 1..Len(a) /\ DOMAIN b = 1..Len(b)
    OBVIOUS
  <1> HIDE DEF c
  <1>3. \A i \in DOMAIN c : c[i] \in Range(a) \union Range(b)
    <2> SUFFICES ASSUME NEW i \in DOMAIN c PROVE c[i] \in Range(a) \union Range(b)
      OBVIOUS
    <2>1. CASE i <= Len(a)
      <3>1. i \in DOMAIN a /\ c[i] = a[i]
        BY <1>1, <1>2, <2>1
      <3> QED BY <3>1 DEF Range
    <2>2. CASE ~(i <= Len(a))
      <3>1. i - Len(a) \in DOMAIN b /\ c[i] = b[i - Len(a)]
        BY <1>1, <1>2, <2>2
      <3> QED BY <3>1 DEF Range
    <2> QED BY <2>1, <2>2
  <1>4. \A i \in DOMAIN a : i \in DOMAIN c /\ c[i] = a[i]
    BY <1>1, <1>2
  <1>5. \A i \in DOMAIN b : i + Len(a) \in DOMAIN c /\ c[i + Len(a)] = b[i]
    BY <1>1, <1>2
  <1>6. Range(c) = Range(a) \union Range(b)
    BY <1>3, <1>4, <1>5 DEF Range
  <1> QED BY <1>1, <1>6 DEF c

\* A page given to a reader that is not done.
LEMMA ReadPageIs ==
    ASSUME NEW s, NEW now \in Nat, IsTimely(s, now), NEW r, IsRead(r, s, now), ~r.done,
           NEW page, IsPage(page, s, r.cursor)
    PROVE  IsRead(ReadPage(r, page, DOMAIN s.rows), s, now)
  <1> DEFINE q == ReadPage(r, page, DOMAIN s.rows)
  <1>1. q = [cursor |-> page.next, seen |-> r.seen \o page.ids, stored |-> DOMAIN s.rows,
             born |-> IF r.seen = <<>> THEN {} ELSE r.born, done |-> page.next = NoCursor]
    BY DEF ReadPage
  <1>2. /\ DOMAIN q = {"cursor", "seen", "stored", "born", "done"}
        /\ q.cursor = page.next /\ q.seen = r.seen \o page.ids /\ q.stored = DOMAIN s.rows
        /\ q.born = (IF r.seen = <<>> THEN {} ELSE r.born)
        /\ q.done \in BOOLEAN /\ (q.done <=> page.next = NoCursor)
    <2> DEFINE lastPage == (page.next = NoCursor)
               bornSince == IF r.seen = <<>> THEN {} ELSE r.born
    <2>1. lastPage \in BOOLEAN
      OBVIOUS
    <2>2. q = [cursor |-> page.next, seen |-> r.seen \o page.ids, stored |-> DOMAIN s.rows,
               born |-> bornSince, done |-> lastPage]
      BY <1>1
    <2> HIDE DEF q, lastPage, bornSince
    <2>3. /\ DOMAIN q = {"cursor", "seen", "stored", "born", "done"}
          /\ q.cursor = page.next /\ q.seen = r.seen \o page.ids /\ q.stored = DOMAIN s.rows
          /\ q.born = bornSince /\ q.done = lastPage
      BY <2>2
    <2> QED BY <2>1, <2>3 DEF lastPage, bornSince
  <1> HIDE DEF q
  <1>3. PICK rest, n :
          /\ Lists(rest, n, s, r.cursor)
          /\ n <= PageLimit => page.ids = rest /\ page.next = NoCursor
          /\ n > PageLimit =>
               /\ page.ids = SubSeq(rest, 1, PageLimit)
               /\ page.next = [ts |-> s.rows[rest[PageLimit]].inserted, id |-> rest[PageLimit]]
    BY DEF IsPage
  <1>4. \A id \in DOMAIN s.rows : /\ id \in Ids /\ id \in Nat
                                  /\ s.rows[id].inserted \in Nat \ {0} /\ s.rows[id].inserted <= now
    BY StoresAssumption DEF IsTimely, IsRows, IsArt, Never
  <1>5. PageLimit \in Nat \ {0} /\ n \in Nat
    BY <1>3, StoresAssumption DEF Lists
  <1>6. /\ \A i \in 1..n : rest[i] \in DOMAIN s.rows /\ Ahead(s, rest[i], r.cursor)
        /\ \A id \in DOMAIN s.rows : Ahead(s, id, r.cursor) => \E i \in 1..n : rest[i] = id
        /\ \A i, j \in 1..n : i < j => PutBefore(s, rest[i], rest[j])
        /\ rest \in Seq(Ids) /\ Len(rest) = n
    <2>1. rest \in [1..n -> Ids]
      BY <1>3, <1>4 DEF Lists, Left
    <2> QED BY <1>3, <1>5, <2>1 DEF Lists, Left
  <1> DEFINE m == IF n <= PageLimit THEN n ELSE PageLimit
  <1>7. m \in Nat /\ m <= n
    BY <1>5
  <1>8. page.ids \in Seq(Ids) /\ Len(page.ids) = m /\ \A i \in 1..m : page.ids[i] = rest[i]
    <2>1. CASE n <= PageLimit
      BY <1>3, <1>6, <2>1
    <2>2. CASE n > PageLimit
      <3>1. \A i \in 1..PageLimit : rest[i] \in Ids
        BY <1>4, <1>5, <1>6, <2>2
      <3> QED BY <1>3, <1>5, <2>2, <3>1, SubSeqProperties
    <2> QED BY <1>5, <2>1, <2>2
  <1>9. n <= PageLimit => m = n
    OBVIOUS
  <1>10. n > PageLimit => m = PageLimit
    BY <1>5
  <1> HIDE DEF m
  <1>11. /\ r.seen \in Seq(Ids) /\ GivenOnce(r) /\ Followed(r, s) /\ IsCursor(r.cursor)
         /\ r.cursor = NoCursor <=> r.seen = <<>>
    BY DEF IsRead
  <1> DEFINE k == Len(r.seen)
  <1>12. /\ q.seen \in Seq(Ids) /\ DOMAIN q.seen = 1..(k + m) /\ k \in Nat /\ DOMAIN r.seen = 1..k
         /\ \A i \in DOMAIN q.seen : q.seen[i] = IF i <= k THEN r.seen[i] ELSE page.ids[i - k]
         /\ Range(q.seen) = Range(r.seen) \union Range(page.ids)
    <2> DEFINE a == r.seen
               b == page.ids
    <2>1. a \in Seq(Ids) /\ b \in Seq(Ids) /\ Len(b) = m /\ q.seen = a \o b
      BY <1>2, <1>8, <1>11
    <2> HIDE DEF a, b
    <2>2. /\ q.seen \in Seq(Ids) /\ DOMAIN q.seen = 1..(Len(a) + m)
          /\ \A i \in DOMAIN q.seen : q.seen[i] = IF i <= Len(a) THEN a[i] ELSE b[i - Len(a)]
          /\ Range(q.seen) = Range(a) \union Range(b)
      BY <2>1, RangeOfConcat
    <2>3. Len(a) \in Nat /\ DOMAIN a = 1..Len(a)
      BY <2>1
    <2> QED BY <2>2, <2>3 DEF a, b
  <1>13. \A id : id \in Range(page.ids) <=> \E i \in 1..m : rest[i] = id
    BY <1>8 DEF Range
  <1> HIDE DEF k
  <1>14. \A i, j \in 1..n : rest[i] = rest[j] => i = j
    BY <1>4, <1>5, <1>6 DEF PutBefore
  <1>15. \A i \in 1..m : i \in 1..n
    BY <1>5, <1>7
  \* What is given again was given before, and is beyond the cursor.
  <1>16. ASSUME NEW i \in 1..m, rest[i] \in Range(r.seen) PROVE rest[i] \in q.born
    <2>1. rest[i] \in r.born
      BY <1>6, <1>11, <1>15, <1>16 DEF Followed
    <2>2. r.seen # <<>>
      BY <1>16 DEF Range
    <2> QED BY <1>2, <2>1, <2>2
  <1>17. GivenOnce(q)
    <2> SUFFICES ASSUME NEW i \in DOMAIN q.seen, NEW j \in DOMAIN q.seen, i < j, q.seen[i] = q.seen[j]
                 PROVE  q.seen[i] \in q.born
      BY <1>12 DEF GivenOnce
    <2>1. i \in 1..(k + m) /\ j \in 1..(k + m) /\ m \in Nat
      BY <1>7, <1>12
    <2>2. CASE j <= k
      <3>1. i \in DOMAIN r.seen /\ j \in DOMAIN r.seen /\ q.seen[i] = r.seen[i] /\ q.seen[j] = r.seen[j] /\ i # j
        BY <1>12, <2>1, <2>2
      <3>2. r.seen # <<>>
        BY <3>1
      <3> QED BY <1>2, <1>11, <3>1, <3>2 DEF GivenOnce
    <2>3. CASE i <= k /\ j > k
      <3>1. i \in DOMAIN r.seen /\ q.seen[i] = r.seen[i] /\ j - k \in 1..m /\ q.seen[j] = page.ids[j - k]
        BY <1>12, <2>1, <2>3
      <3>2. q.seen[j] = rest[j - k] /\ q.seen[i] \in Range(r.seen)
        BY <1>8, <3>1 DEF Range
      <3> QED BY <1>16, <3>1, <3>2
    <2>4. CASE i > k /\ j > k
      <3>1. /\ i - k \in 1..m /\ q.seen[i] = page.ids[i - k] /\ i - k # j - k
            /\ j - k \in 1..m /\ q.seen[j] = page.ids[j - k]
        BY <1>12, <2>1, <2>4
      <3> QED BY <1>8, <1>14, <1>15, <3>1
    <2> QED BY <1>12, <2>1, <2>2, <2>3, <2>4
  <1>18. ASSUME NEW id \in DOMAIN s.rows PROVE id \in Range(r.seen) \/ \E i \in 1..n : rest[i] = id
    BY <1>6, <1>11 DEF Followed
  <1>19. CASE n <= PageLimit
    <2>1. q.done = TRUE
      BY <1>2, <1>3, <1>19
    <2>2. q.stored \subseteq Range(q.seen)
      BY <1>2, <1>9, <1>12, <1>13, <1>18, <1>19
    <2> QED BY <1>2, <1>12, <1>17, <2>1, <2>2 DEF IsRead, q
  <1>20. CASE n > PageLimit
    <2> DEFINE c == page.next
    <2>1. m = PageLimit /\ m \in 1..m /\ m \in 1..n
      BY <1>5, <1>10, <1>20
    <2>2. c = [ts |-> s.rows[rest[m]].inserted, id |-> rest[m]] /\ rest[m] \in DOMAIN s.rows
      BY <1>3, <1>6, <1>20, <2>1
    <2> HIDE DEF c
    <2>3. IsCursor(c) /\ c.ts <= now /\ c # NoCursor
      BY <1>4, <2>2 DEF IsCursor, NoCursor, Never
    <2>4. q.cursor = c /\ q.done = FALSE
      BY <1>2, <2>3 DEF c
    <2>5. q.seen # <<>>
      <3>1. k + m \in 1..(k + m)
        BY <1>5, <1>12, <2>1
      <3> QED BY <1>12, <3>1
    \* Beyond the new cursor are those of the rest that are not of the page.
    <2>6. \A i \in 1..n : Ahead(s, rest[i], c) <=> m < i
      <3> SUFFICES ASSUME NEW i \in 1..n PROVE Ahead(s, rest[i], c) <=> m < i
        OBVIOUS
      <3>1. i < m => PutBefore(s, rest[i], rest[m])
        BY <1>6, <2>1
      <3>2. m < i => PutBefore(s, rest[m], rest[i])
        BY <1>6, <2>1
      <3>3. i < m \/ i = m \/ m < i
        BY <1>5, <2>1
      <3>4. rest[i] \in DOMAIN s.rows /\ rest[m] \in DOMAIN s.rows
        BY <1>6, <2>1
      <3> QED BY <1>4, <2>1, <2>2, <2>3, <3>1, <3>2, <3>3, <3>4 DEF Ahead, PutBefore
    <2>7. ASSUME NEW id \in DOMAIN s.rows, ~Ahead(s, id, c) PROVE id \in Range(q.seen)
      <3>1. CASE id \in Range(r.seen)
        BY <1>12, <3>1
      <3>2. CASE \E i \in 1..n : rest[i] = id
        <4>1. PICK i \in 1..n : rest[i] = id
          BY <3>2
        <4>2. i \in 1..m
          BY <1>5, <2>1, <2>6, <2>7, <4>1
        <4> QED BY <1>12, <1>13, <4>1, <4>2
      <3> QED BY <1>18, <3>1, <3>2
    <2>8. ASSUME NEW id \in DOMAIN s.rows, Ahead(s, id, c), id \in Range(q.seen) PROVE id \in q.born
      <3>1. id \in Range(r.seen)
        <4> SUFFICES ASSUME id \in Range(page.ids) PROVE FALSE
          BY <1>12, <2>8
        <4>1. PICK i \in 1..m : rest[i] = id
          BY <1>13
        <4> QED BY <1>5, <1>15, <2>1, <2>6, <2>8, <4>1
      <3>2. r.seen # <<>> /\ r.cursor # NoCursor
        BY <1>11, <3>1 DEF Range
      <3>3. Ahead(s, id, r.cursor)
        <4>1. Ahead(s, rest[m], r.cursor)
          BY <1>6, <2>1
        <4> QED BY <1>4, <1>11, <2>2, <2>3, <2>8, <3>2, <4>1 DEF Ahead, IsCursor
      <3> QED BY <1>2, <1>11, <3>1, <3>2, <3>3 DEF Followed
    <2>9. Followed(q, s)
      BY <2>4, <2>7, <2>8 DEF Followed
    <2> QED BY <1>2, <1>12, <1>17, <2>3, <2>4, <2>5, <2>9 DEF IsRead, q
  <1> QED BY <1>5, <1>19, <1>20

\* An artifact stored after a call was stored before it, and keeps the time it was put
\* at, or is put by it, at a time after all others.
Placed(s, t, id) ==
    \/ id \in DOMAIN s.rows /\ t.rows[id].inserted = s.rows[id].inserted
    \/ id \notin DOMAIN s.rows /\ t.rows[id].inserted = clock + 1 /\ clock' = clock + 1

Places(s, t, ids) == \A id \in DOMAIN t.rows : Placed(s, t, id) /\ id \in DOMAIN s.rows \union ids

\* What a reader has been given stands after such a call.
LEMMA MeanwhileIs ==
    ASSUME NEW s, NEW t, NEW ids, NEW r, IsRead(r, s, clock), IsTimely(s, clock), Places(s, t, ids),
           IsRows(t.rows), clock \in Nat, clock' \in {clock, clock + 1}
    PROVE  IsRead(Meanwhile(r, ids, s.rows), t, clock')
  <1> DEFINE q == Meanwhile(r, ids, s.rows)
  <1>1. /\ DOMAIN q = DOMAIN r
        /\ q.cursor = r.cursor /\ q.seen = r.seen /\ q.stored = r.stored /\ q.done = r.done
        /\ q.born = r.born \union (ids \ DOMAIN s.rows)
    BY DEF Meanwhile, IsRead
  <1> HIDE DEF q
  <1>2. GivenOnce(q)
    BY <1>1 DEF GivenOnce, IsRead
  <1>3. ASSUME ~r.done PROVE Followed(q, t) /\ q.cursor.ts <= clock'
    <2>1. Followed(r, s) /\ IsCursor(r.cursor) /\ r.cursor.ts <= clock /\ r.cursor.ts \in Nat
      BY <1>3 DEF IsRead, IsCursor, NoCursor, Never
    <2>2. ASSUME NEW id \in DOMAIN t.rows
          PROVE  /\ ~Ahead(t, id, q.cursor) => id \in Range(q.seen)
                 /\ Ahead(t, id, q.cursor) /\ id \in Range(q.seen) => id \in q.born
      <3>1. CASE id \in DOMAIN s.rows /\ t.rows[id].inserted = s.rows[id].inserted
        BY <1>1, <2>1, <3>1 DEF Followed, Ahead
      <3>2. CASE id \in ids \ DOMAIN s.rows /\ t.rows[id].inserted = clock + 1
        <4>1. Ahead(t, id, q.cursor)
          BY <1>1, <2>1, <3>2 DEF Ahead
        <4> QED BY <1>1, <3>2, <4>1
      <3> QED BY <3>1, <3>2 DEF Places, Placed
    <2> QED BY <1>1, <2>1, <2>2 DEF Followed
  <1> QED BY <1>1, <1>2, <1>3 DEF q, IsRead

LEMMA TimelyStays ==
    ASSUME NEW s, NEW t, NEW ids, IsFiniteSet(ids), IsTimely(s, clock), Places(s, t, ids),
           IsRows(t.rows), clock \in Nat, clock' \in {clock, clock + 1}
    PROVE  IsTimely(t, clock')
  <1>1. IsFiniteSet(DOMAIN s.rows \union ids)
    BY FS_Union DEF IsTimely
  <1>2. DOMAIN t.rows \in SUBSET (DOMAIN s.rows \union ids)
    BY DEF Places
  <1>3. IsFiniteSet(DOMAIN t.rows)
    BY <1>1, <1>2, FS_Subset
  <1>4. \A id \in DOMAIN s.rows : s.rows[id].inserted \in Nat /\ s.rows[id].inserted <= clock
    BY DEF IsTimely, IsRows, IsArt
  <1>5. \A id \in DOMAIN t.rows : t.rows[id].inserted <= clock'
    BY <1>4 DEF Places, Placed
  <1> QED BY <1>3, <1>5 DEF IsTimely

\* A client that reads pages neither renames nor imports: a renamed artifact keeps the
\* time it was put at under an id a reader may have passed, and an imported one keeps
\* the time of the capsule.
ReadersOnly == \A p \in DOMAIN Profiles : "page" \in p => p \intersect {"rename", "capsule"} = {}

PagesInv ==
    /\ profile \in DOMAIN Profiles
    /\ "page" \in profile => import.stage = "none"
    /\ "page" \in profile => IsTimely(mem, clock) /\ IsRead(reader.mem, mem, clock)
    /\ "page" \in profile => IsTimely(sql, clock) /\ IsRead(reader.sql, sql, clock)
    /\ "page" \notin profile => ~reader.mem.done /\ ~reader.sql.done
    /\ DOMAIN reader.mem = DOMAIN Unread /\ DOMAIN reader.sql = DOMAIN Unread

LEMMA PagesInvImplies == PagesInv => PagesComplete
  BY DEF PagesInv, PagesComplete, IsRead, GivenOnce

LEMMA PagesInit == Init => PagesInv
  <1> SUFFICES ASSUME Init PROVE PagesInv
    OBVIOUS
  <1>1. PICK n \in Seeds, p \in DOMAIN Profiles :
            /\ mem = [M!Empty EXCEPT !.rows = Seeded(n)]
            /\ sql = [S!Empty EXCEPT !.rows = Seeded(n), !.labels = SeededLabels(n)]
            /\ clock = n + 1 /\ profile = p
            /\ reader = [mem |-> Unread, sql |-> Unread]
    BY DEF Init
  <1>2. mem.rows = Seeded(n) /\ sql.rows = Seeded(n)
    BY <1>1 DEF M!Empty, S!Empty
  <1>3. /\ IsRows(Seeded(n)) /\ n \in Nat /\ DOMAIN Seeded(n) = 1..n
        /\ \A i \in 1..n : Seeded(n)[i].inserted = i + 1
    BY SeededIsRows
  <1>4. IsFiniteSet(1..n)
    <2>1. 1 \in Int /\ n \in Int
      BY <1>3
    <2> QED BY <2>1, FS_Interval
  <1>5. \A i \in 1..n : Seeded(n)[i].inserted <= clock
    BY <1>1, <1>3
  <1>6. IsTimely(mem, clock) /\ IsTimely(sql, clock)
    BY <1>2, <1>3, <1>4, <1>5 DEF IsTimely
  <1>7. \A s, id : Ahead(s, id, NoCursor)
    BY DEF Ahead
  <1> DEFINE q == Unread
  <1>8. /\ q.seen = <<>> /\ q.cursor = NoCursor /\ q.done = FALSE
        /\ DOMAIN q = {"cursor", "seen", "stored", "born", "done"}
    BY DEF Unread
  <1>9. reader.mem = q /\ reader.sql = q
    BY <1>1
  <1>10. import.stage = "none"
    BY DEF Init
  <1> HIDE DEF q
  <1>11. DOMAIN <<>> = {} /\ <<>> \in Seq(Ids) /\ clock \in Nat /\ NoCursor.ts = 0
    BY <1>1, <1>3 DEF NoCursor, Never
  <1>12. Range(<<>>) = {}
    BY <1>11 DEF Range
  <1>13. GivenOnce(q) /\ IsCursor(NoCursor) /\ \A s : Followed(q, s)
    BY <1>7, <1>8, <1>11, <1>12 DEF GivenOnce, Followed, IsCursor
  <1>14. IsRead(q, mem, clock) /\ IsRead(q, sql, clock)
    <2>1. NoCursor.ts <= clock
      BY <1>11
    <2> QED BY <1>8, <1>11, <1>13, <2>1 DEF IsRead
  <1> QED BY <1>1, <1>6, <1>8, <1>9, <1>10, <1>14 DEF PagesInv, q

\* The client puts no artifact over another: the later one takes the time of its put.
PutsNew == "put over" \in Avoided

\* A call that writes these artifacts places none where a reader has passed.
PlacesBoth(ids) ==
    /\ IsFiniteSet(ids)
    /\ Places(mem, mem', ids) /\ Places(sql, sql', ids)
    /\ ReaderTold(ids)
    /\ IsRows(mem'.rows) /\ IsRows(sql'.rows) /\ clock' \in {clock, clock + 1}
    /\ import' = import \/ import.stage # "none"

LEMMA WroteTold ==
    ASSUME NEW ids, NEW edges, Wrote(ids, edges)
    PROVE  /\ ReaderTold(ids) /\ IsRows(mem'.rows) /\ IsRows(sql'.rows)
           /\ clock' \in {clock, clock + 1} /\ (import' = import \/ import.stage # "none")
  BY DEF Wrote, IsMem, IsSql, ImportTold, Written

LEMMA TickIsNext == ASSUME clock \in Nat, Tick(clock + 1) PROVE clock' = clock + 1
  BY DEF Tick

LEMMA PutPlaces ==
    ASSUME NEW s, NEW t, NEW id, Moves(s, t, {id}, {}), id \notin DOMAIN s.rows,
           t.rows[id].inserted = clock + 1, clock' = clock + 1
    PROVE  Places(s, t, {id})
  BY DEF Moves, Places, Placed

\* The same artifacts are stored, put at the same times.
SamePlaces(s, t) ==
    /\ DOMAIN t.rows = DOMAIN s.rows
    /\ \A id \in DOMAIN s.rows : t.rows[id].inserted = s.rows[id].inserted

LEMMA KeptPlaces == ASSUME NEW s, NEW t, NEW ids, SamePlaces(s, t) PROVE Places(s, t, ids)
  BY DEF SamePlaces, Places, Placed

LEMMA RewriteKept == ASSUME NEW s, NEW t, NEW id, Rewrites(s, t, id) PROVE SamePlaces(s, t)
  BY DEF Rewrites, SamePlaces

LEMMA EdgesPlace ==
    ASSUME NEW s, NEW t, NEW edges, Moves(s, t, {}, edges)
    PROVE  Places(s, t, {})
  BY DEF Moves, Places, Placed

LEMMA PutPlacesBoth ==
    ASSUME Shaped, PutsNew, StampsInTurn, NEW id \in Ids, NEW d \in Range(Drafts), Put(id, d)
    PROVE  PlacesBoth({id})
  <1> DEFINE now == clock + 1
  <1>1. ~Stored(id)
    BY DEF Put, PutsNew, Meets
  <1>2. Call("put", M!Put(mem, id, d, now), S!Put(sql, id, d, now), {id}, {}) /\ Tick(now)
    BY StampIsNext DEF Put
  <1>3. now \in Time /\ clock' = now /\ IsArt(d) /\ d.inserted = Never /\ IsMem(mem) /\ IsSql(sql)
    BY <1>2, StampsAreTimes, DraftIsArt, TickIsNext DEF Shaped, Time
  <1>4. mem' = M!Put(mem, id, d, now).store /\ sql' = S!Put(sql, id, d, now).store
    BY <1>2 DEF Call
  <1>5. id \notin DOMAIN mem.rows /\ id \notin DOMAIN sql.rows /\ Stamp(d.inserted, now) = now
    BY <1>1, <1>3 DEF Stored, Stamp
  <1> HIDE DEF now
  <1>6. Moves(mem, mem', {id}, {}) /\ Keeps(mem', id, d, now)
    BY <1>3, <1>4, <1>5, MemPut
  <1>7. Moves(sql, sql', {id}, {}) /\ Keeps(sql', id, d, now)
    BY <1>3, <1>4, <1>5, SqlPut
  <1>8. Places(mem, mem', {id}) /\ Places(sql, sql', {id})
    BY <1>3, <1>5, <1>6, <1>7, PutPlaces DEF Keeps, now
  <1> QED BY <1>8, PutWrites, WroteTold, FS_Singleton DEF PlacesBoth

LEMMA BulkPlaces ==
    ASSUME NEW s, NEW t, NEW u, NEW i, NEW j, i # j, i \notin DOMAIN s.rows, j \notin DOMAIN s.rows,
           Moves(s, t, {i}, {}), t.rows[i].inserted = clock + 1, i \in DOMAIN t.rows,
           Moves(t, u, {j}, {}), u.rows[j].inserted = clock + 1, clock' = clock + 1
    PROVE  Places(s, u, {i, j})
  <1>1. u.rows[i] = t.rows[i]
    BY DEF Moves
  <1>2. \A k \in DOMAIN u.rows \ {i, j} : k \in DOMAIN s.rows /\ u.rows[k] = s.rows[k]
    BY DEF Moves
  <1> QED BY <1>1, <1>2 DEF Places, Placed

LEMMA BulkPutPlacesBoth ==
    ASSUME Shaped, PutsNew, NEW i \in Ids, NEW j \in Ids, NEW d \in Range(Drafts), BulkPut(i, j, d)
    PROVE  PlacesBoth({i, j})
  <1> DEFINE now == clock + 1
             a == [id |-> i, art |-> d]
             b == [id |-> j, art |-> d]
             m == M!BulkPut(mem, <<a, b>>, now)
             q == S!BulkPut(sql, <<a, b>>, now)
  <1>1. i # j /\ ~Stored(i) /\ ~Stored(j)
    BY DEF BulkPut, PutsNew, Meets
  <1>2. Call("bulk", m, q, {i, j}, {}) /\ Tick(now)
    BY DEF BulkPut
  <1>3. now \in Time /\ clock' = now /\ IsArt(d) /\ d.inserted = Never /\ IsMem(mem) /\ IsSql(sql)
    BY <1>2, StampsAreTimes, DraftIsArt, TickIsNext DEF Shaped, Time
  <1>4. /\ i \notin DOMAIN mem.rows /\ j \notin DOMAIN mem.rows
        /\ i \notin DOMAIN sql.rows /\ j \notin DOMAIN sql.rows
        /\ Stamp(d.inserted, now) = now
    BY <1>1, <1>3 DEF Stored, Stamp
  <1>5. mem' = m.store /\ sql' = q.store
    BY <1>2 DEF Call
  <1>6. Places(mem, mem', {i, j})
    <2> DEFINE t == M!Put(mem, i, d, now).store
               u == M!Put(t, j, d, now).store
    <2>1. m.store = u
      BY MemBulkPut
    <2> HIDE DEF now, m, t, u
    <2>2. IsMem(t) /\ Moves(mem, t, {i}, {}) /\ Keeps(t, i, d, now)
      BY <1>3, <1>4, MemPut DEF t
    <2>3. Moves(t, u, {j}, {}) /\ Keeps(u, j, d, now)
      BY <1>3, <1>4, <2>2, MemPut DEF u
    <2>4. Places(mem, u, {i, j})
      BY <1>1, <1>3, <1>4, <2>2, <2>3, BulkPlaces DEF Keeps, now
    <2> QED BY <1>5, <2>1, <2>4
  <1>7. Places(sql, sql', {i, j})
    <2> DEFINE t == S!Put(sql, i, d, now).store
               u == S!Put(t, j, d, now).store
    <2>1. q.store = u
      BY SqlBulkPut
    <2> HIDE DEF now, q, t, u
    <2>2. IsSql(t) /\ Moves(sql, t, {i}, {}) /\ Keeps(t, i, d, now)
      BY <1>3, <1>4, SqlPut DEF t
    <2>3. j \notin DOMAIN t.rows
      BY <1>1, <1>4, <2>2 DEF Moves
    <2>4. Moves(t, u, {j}, {}) /\ Keeps(u, j, d, now)
      BY <1>3, <1>4, <2>2, <2>3, SqlPut DEF u
    <2>5. Places(sql, u, {i, j})
      BY <1>1, <1>3, <1>4, <2>2, <2>4, BulkPlaces DEF Keeps, now
    <2> QED BY <1>5, <2>1, <2>5
  <1>8. IsFiniteSet({i, j})
    <2>1. IsFiniteSet({i}) /\ IsFiniteSet({j})
      BY FS_Singleton
    <2>2. {i, j} = {i} \union {j}
      OBVIOUS
    <2> QED BY <2>1, <2>2, FS_Union
  <1> HIDE DEF PlacesBoth
  <1> QED BY <1>6, <1>7, <1>8, BulkPutWrites, WroteTold DEF PlacesBoth

\* An edit keeps the time the artifact was put at.
LEMMA EditPutKept ==
    ASSUME Shaped, NEW id \in Ids, NEW e, EditPut(id, e)
    PROVE  SamePlaces(mem, mem') /\ SamePlaces(sql, sql')
  <1> DEFINE now == clock + 1
             s == M!EditCopy(mem, id, e.text)
             a == Edited(mem.rows[id], e)
             b == Edited(sql.rows[id], e)
             t == M!Put(s, id, a, now).store
             u == S!Put(sql, id, b, now).store
  <1>1. mem' = t /\ sql' = u
    BY DEF EditPut, Call
  <1>2. id \in DOMAIN mem.rows /\ id \in DOMAIN sql.rows
    BY DEF EditPut, InBoth
  <1>3. /\ IsArt(a) /\ IsArt(b) /\ now \in Time /\ a.inserted = mem.rows[id].inserted
        /\ mem.rows[id].inserted # Never
    BY <1>2, EditedIsArt, StampsAreTimes DEF Shaped, IsMem, IsSql, IsRows
  <1>4. /\ IsMem(s) /\ Moves(mem, s, {id}, {}) /\ DOMAIN s.rows = DOMAIN mem.rows
    BY <1>2, MemEditCopy DEF Shaped
  <1> HIDE DEF now, s, a, b, t, u
  <1>5. Moves(s, t, {id}, {}) /\ Keeps(t, id, a, Stamp(a.inserted, now))
    BY <1>3, <1>4, MemPut DEF t
  <1>6. SamePlaces(mem, t)
    <2>1. t.rows[id].inserted = mem.rows[id].inserted
      BY <1>3, <1>5 DEF Keeps, Stamp
    <2>2. \A j \in DOMAIN mem.rows \ {id} : j \in DOMAIN t.rows /\ t.rows[j] = mem.rows[j]
      BY <1>4, <1>5 DEF Moves
    <2>3. DOMAIN t.rows = DOMAIN mem.rows
      BY <1>2, <1>4, <1>5 DEF Moves, Keeps
    <2> QED BY <1>2, <2>1, <2>2, <2>3 DEF SamePlaces
  <1>7. Moves(sql, u, {id}, {}) /\ Keeps(u, id, b, sql.rows[id].inserted)
    BY <1>2, <1>3, SqlPut DEF u, Shaped
  <1>8. SamePlaces(sql, u)
    <2>1. u.rows[id].inserted = sql.rows[id].inserted
      BY <1>7 DEF Keeps
    <2>2. DOMAIN u.rows = DOMAIN sql.rows
      BY <1>2, <1>7 DEF Moves, Keeps
    <2> QED BY <1>2, <1>7, <2>1, <2>2 DEF Moves, SamePlaces
  <1> QED BY <1>1, <1>6, <1>8

LEMMA PutIfVersionKept ==
    ASSUME Shaped, NEW id \in Ids, NEW e, NEW current, PutIfVersion(id, e, current)
    PROVE  SamePlaces(mem, mem') /\ SamePlaces(sql, sql')
  <1> DEFINE now == clock + 1
             Copy(s) == Lookup(s.rows, id, Drafts[1])
             Version(s) == IF current THEN Copy(s).updated ELSE Never
             m == M!PutIfVersion(mem, id, Edited(Copy(mem), e), Version(mem), now)
             q == S!PutIfVersion(sql, id, Edited(Copy(sql), e), Version(sql), now)
  <1>1. mem' = m.store /\ sql' = q.store
    BY DEF PutIfVersion, Call
  <1>2. /\ IsArt(Copy(mem)) /\ (id \in DOMAIN mem.rows => Copy(mem) = mem.rows[id])
        /\ IsArt(Copy(sql)) /\ now \in Time
    BY FirstDraft, DraftIsArt, StampsAreTimes DEF Lookup, Shaped, IsMem, IsSql, IsRows
  <1> HIDE DEF now, Copy, Version
  <1>3. Rewrites(mem, m.store, id)
    <2>1. /\ IsArt(Edited(Copy(mem), e))
          /\ id \in DOMAIN mem.rows => Edited(Copy(mem), e).inserted = mem.rows[id].inserted
      BY <1>2, EditedIsArt
    <2> QED BY <1>2, <2>1, MemPutIfVersion DEF Shaped
  <1>4. Rewrites(sql, q.store, id)
    BY <1>2, EditedIsArt, SqlPutIfVersion DEF Shaped
  <1> HIDE DEF m, q
  <1> QED BY <1>1, <1>3, <1>4, RewriteKept

LEMMA PatchArtifactKept ==
    ASSUME Shaped, NEW id \in Ids, NEW e, PatchArtifact(id, e)
    PROVE  SamePlaces(mem, mem') /\ SamePlaces(sql, sql')
  <1>1. PICK now \in {clock + 1} : mem' = M!PatchArtifact(mem, id, e, now).store
                                   /\ sql' = S!PatchArtifact(sql, id, e, now).store
    BY DEF PatchArtifact, Call
  <1>2. now \in Time
    BY <1>1, StampsAreTimes
  <1>3. Rewrites(mem, mem', id) /\ Rewrites(sql, sql', id)
    BY <1>1, <1>2, MemPatchArtifact, SqlPatchArtifact DEF Shaped
  <1> QED BY <1>3, RewriteKept

\* The calls that change an artifact a client has read.
Revises(id) ==
    \E e \in Edits : EditPut(id, e) \/ PatchArtifact(id, e)
                     \/ \E current \in BOOLEAN : PutIfVersion(id, e, current)

LEMMA RevisesKept ==
    ASSUME Shaped, NEW id \in Ids, Revises(id)
    PROVE  SamePlaces(mem, mem') /\ SamePlaces(sql, sql') /\ Wrote({id}, {})
  BY EditPutKept, PatchArtifactKept, PutIfVersionKept, EditPutWrites, PatchArtifactWrites,
     PutIfVersionWrites DEF Revises

LEMMA RevisesPlacesBoth ==
    ASSUME Shaped, NEW id \in Ids, Revises(id)
    PROVE  PlacesBoth({id})
  <1>1. Places(mem, mem', {id}) /\ Places(sql, sql', {id})
    BY RevisesKept, KeptPlaces
  <1> QED BY <1>1, RevisesKept, WroteTold, FS_Singleton DEF PlacesBoth

LEMMA DeletePlacesBoth ==
    ASSUME Shaped, NEW id \in Ids, Delete(id)
    PROVE  PlacesBoth({id})
  <1>1. mem' = M!Delete(mem, id).store /\ sql' = S!Delete(sql, id).store
    BY DEF Delete, Call
  <1>2. Moves(mem, mem', {id}, M!EdgesOf(mem, id)) /\ DOMAIN mem'.rows = DOMAIN mem.rows \ {id}
    BY <1>1, MemDelete DEF Shaped
  <1>3. Moves(sql, sql', {id}, S!EdgesOf(sql, id)) /\ DOMAIN sql'.rows = DOMAIN sql.rows \ {id}
    BY <1>1, SqlDelete DEF Shaped
  <1>4. Places(mem, mem', {id}) /\ Places(sql, sql', {id})
    BY <1>2, <1>3 DEF Moves, Places, Placed
  <1> QED BY <1>4, DeleteWrites, WroteTold, FS_Singleton DEF PlacesBoth

LEMMA NoArtifactPlacesBoth ==
    ASSUME NEW edges, Wrote({}, edges)
    PROVE  PlacesBoth({})
  <1>1. Places(mem, mem', {}) /\ Places(sql, sql', {})
    BY EdgesPlace DEF Wrote
  <1> QED BY <1>1, WroteTold, FS_EmptySet DEF PlacesBoth

\* What a call that places artifacts so leaves to both readers.
LEMMA PlacesStep ==
    ASSUME PagesInv, Shaped, NEW ids, PlacesBoth(ids), "page" \in profile
    PROVE  PagesInv'
  <1>1. clock \in Nat /\ clock' \in {clock, clock + 1} /\ profile' = profile
    BY DEF Shaped, Time, PlacesBoth, ReaderTold
  <1> DEFINE p == Meanwhile(reader.mem, ids, mem.rows)
             q == Meanwhile(reader.sql, ids, sql.rows)
  <1>2. reader' = [mem |-> p, sql |-> q]
    BY DEF PlacesBoth, ReaderTold
  <1>3. /\ DOMAIN p = DOMAIN reader.mem /\ DOMAIN q = DOMAIN reader.sql
        /\ p.done = reader.mem.done /\ q.done = reader.sql.done
    BY DEF Meanwhile, PagesInv, Unread
  <1>4. IsTimely(mem', clock') /\ IsRead(p, mem', clock')
    BY <1>1, MeanwhileIs, TimelyStays DEF PagesInv, PlacesBoth
  <1>5. IsTimely(sql', clock') /\ IsRead(q, sql', clock')
    BY <1>1, MeanwhileIs, TimelyStays DEF PagesInv, PlacesBoth
  <1>6. import'.stage = "none"
    BY DEF PagesInv, PlacesBoth
  <1> HIDE DEF p, q
  <1> QED BY <1>1, <1>2, <1>3, <1>4, <1>5, <1>6 DEF PagesInv

\* Where no pages are read, what a reader was given is nothing.
LEMMA NoPagesStep ==
    ASSUME PagesInv, "page" \notin profile, profile' = profile,
           reader' = reader \/ \E ids : ReaderTold(ids)
    PROVE  PagesInv'
  <1>1. CASE reader' = reader
    BY <1>1 DEF PagesInv
  <1>2. ASSUME NEW ids, ReaderTold(ids) PROVE PagesInv'
    <2> DEFINE p == Meanwhile(reader.mem, ids, mem.rows)
               q == Meanwhile(reader.sql, ids, sql.rows)
    <2>1. reader' = [mem |-> p, sql |-> q]
      BY <1>2 DEF ReaderTold
    <2>2. /\ DOMAIN p = DOMAIN reader.mem /\ DOMAIN q = DOMAIN reader.sql
          /\ p.done = reader.mem.done /\ q.done = reader.sql.done
      BY DEF Meanwhile, PagesInv, Unread
    <2> HIDE DEF p, q
    <2> QED BY <2>1, <2>2 DEF PagesInv
  <1> QED BY <1>1, <1>2

\* The call of a client that reads pages.
LEMMA WritesPlace ==
    ASSUME PagesInv, Shaped, ReadersOnly, PutsNew, StampsInTurn, "page" \in profile, Writes
    PROVE  \E ids : PlacesBoth(ids)
  <1>1. ASSUME NEW old, NEW new, RenameID(old, new) PROVE FALSE
    <2>1. "rename" \in profile
      BY <1>1 DEF RenameID, Call
    <2> QED BY <2>1 DEF PagesInv, ReadersOnly
  <1>2. ASSUME OnTheSide PROVE PlacesBoth({})
    BY <1>2, OnTheSideWrites, NoArtifactPlacesBoth
  <1>3. ASSUME NEW e \in Edges, OnEdge(e) PROVE PlacesBoth({})
    BY <1>3, OnEdgeWrites, NoArtifactPlacesBoth
  <1>4. ASSUME NEW e \in Edges, NEW g \in Edges, NEW sources, BulkAddEdge(e, g, sources) PROVE PlacesBoth({})
    BY <1>4, BulkAddEdgeWrites, NoArtifactPlacesBoth
  <1> HIDE DEF PlacesBoth
  <1>5. CASE \/ \E id \in Ids, d \in Range(Drafts) : Put(id, d)
             \/ \E i, j \in Ids, d \in Range(Drafts) : BulkPut(i, j, d)
             \/ \E id \in Ids : Delete(id)
    BY <1>5, PutPlacesBoth, BulkPutPlacesBoth, DeletePlacesBoth
  <1>6. CASE \/ \E id \in Ids, e \in Edits : EditPut(id, e) \/ PatchArtifact(id, e)
             \/ \E id \in Ids, e \in Edits, current \in BOOLEAN : PutIfVersion(id, e, current)
    BY <1>6, RevisesPlacesBoth DEF Revises
  <1> QED BY <1>1, <1>2, <1>3, <1>4, <1>5, <1>6 DEF Writes

LEMMA AppendEventPlaces ==
    ASSUME Shaped, NEW id \in Ids, NEW type, AppendEvent(id, type)
    PROVE  PlacesBoth({})
  <1>1. /\ mem'.rows = mem.rows /\ sql'.rows = sql.rows
        /\ clock' \in {clock, clock + 1} /\ ReaderTold({}) /\ ImportTold({}, {})
    BY AppendEventWrites DEF LogGrows
  <1>2. IsRows(mem.rows) /\ IsRows(sql.rows)
    BY DEF Shaped, IsMem, IsSql
  <1>3. Places(mem, mem', {}) /\ Places(sql, sql', {})
    BY <1>1 DEF Places, Placed
  <1>4. import' = import \/ import.stage # "none"
    BY <1>1 DEF ImportTold, Written
  <1> QED BY <1>1, <1>2, <1>3, <1>4, FS_EmptySet DEF PlacesBoth

\* A page of each store, for a reader that has not read the last.
LEMMA PagesStep ==
    ASSUME PagesInv, Shaped, TextSorts, Pages
    PROVE  PagesInv'
  <1> DEFINE m == M!ListPage(mem, NoFilter, reader.mem.cursor, PageLimit)
             w == S!ListPage(sql, NoFilter, reader.sql.cursor, PageLimit)
             p == ReadPage(reader.mem, m, DOMAIN mem.rows)
             q == ReadPage(reader.sql, w, DOMAIN sql.rows)
  <1>1. /\ "page" \in profile /\ reader' = [mem |-> p, sql |-> q]
        /\ UNCHANGED <<mem, sql, clock, profile, import>>
    BY DEF Pages
  <1>2. clock \in Nat
    BY DEF Shaped, Time
  <1>3. /\ IsTimely(mem, clock) /\ IsRead(reader.mem, mem, clock)
        /\ IsTimely(sql, clock) /\ IsRead(reader.sql, sql, clock)
    BY <1>1 DEF PagesInv
  <1>4. IsRead(p, mem, clock)
    <2>1. CASE reader.mem.done
      BY <1>3, <2>1 DEF ReadPage
    <2>2. CASE ~reader.mem.done
      <3>1. IsPage(m, mem, reader.mem.cursor)
        BY <1>3, <2>2, MemListPage DEF IsTimely, IsRead
      <3> HIDE DEF m
      <3> QED BY <1>2, <1>3, <2>2, <3>1, ReadPageIs
    <2> QED BY <2>1, <2>2
  <1>5. IsRead(q, sql, clock)
    <2>1. CASE reader.sql.done
      BY <1>3, <2>1 DEF ReadPage
    <2>2. CASE ~reader.sql.done
      <3>1. IsPage(w, sql, reader.sql.cursor)
        BY <1>3, <2>2, SqlListPage DEF IsTimely, IsRead
      <3> HIDE DEF w
      <3> QED BY <1>2, <1>3, <2>2, <3>1, ReadPageIs
    <2> QED BY <2>1, <2>2
  <1>6. DOMAIN Unread = {"cursor", "seen", "stored", "born", "done"}
    BY DEF Unread
  <1> HIDE DEF p, q
  <1>7. DOMAIN p = DOMAIN Unread /\ DOMAIN q = DOMAIN Unread
    BY <1>4, <1>5, <1>6 DEF IsRead
  <1> QED BY <1>1, <1>3, <1>4, <1>5, <1>7 DEF PagesInv

LEMMA PagesNext ==
    ASSUME PagesInv, ImportInv, [Next]_vars, TextSorts, StampsInTurn, PutsNew, ReadersOnly
    PROVE  PagesInv'
  <1>1. Shaped
    BY DEF ImportInv
  <1>2. CASE Writes
    <2>1. CASE "page" \in profile
      BY <1>1, <1>2, <2>1, WritesPlace, PlacesStep
    <2>2. CASE "page" \notin profile
      <3>1. PICK ids \in SUBSET Ids, edges \in SUBSET Triples : Wrote(ids, edges)
        BY <1>1, <1>2, WritesWrote
      <3>2. ReaderTold(ids) /\ profile' = profile
        BY <3>1 DEF Wrote, ReaderTold
      <3> QED BY <2>2, <3>2, NoPagesStep
    <2> QED BY <2>1, <2>2
  <1>3. ASSUME NEW id \in Ids, NEW type, AppendEvent(id, type) PROVE PagesInv'
    <2>1. PlacesBoth({})
      BY <1>1, <1>3, AppendEventPlaces
    <2>2. ReaderTold({}) /\ profile' = profile
      BY <2>1 DEF PlacesBoth, ReaderTold
    <2> QED BY <1>1, <2>1, <2>2, PlacesStep, NoPagesStep
  <1>4. CASE CapsuleExport \/ CapsuleImport \/ ImportStops \/ ImportArtifact \/ \E e \in Edges : ImportEdge(e)
    <2>1. reader' = reader /\ profile' = profile
      BY <1>4 DEF CapsuleExport, CapsuleImport, ImportStops, ImportArtifact, ImportEdge
    <2>2. import.stage # "none" \/ "capsule" \in profile
      BY <1>4 DEF CapsuleExport, CapsuleImport, ImportStops, ImportArtifact, ImportEdge, Importing
    <2>3. "page" \notin profile
      BY <2>2 DEF PagesInv, ReadersOnly
    <2> QED BY <2>1, <2>3, NoPagesStep
  <1>5. CASE Poll \/ UNCHANGED vars
    <2>1. UNCHANGED <<mem, sql, clock, profile, reader, import>>
      BY <1>5 DEF Poll, vars
    <2> QED BY <2>1 DEF PagesInv
  <1> QED BY <1>1, <1>2, <1>3, <1>4, <1>5, NextIs, PagesStep

\* A reader that has followed the cursors of ListPage to the last page has been given
\* every artifact stored then, and none twice unless it was put anew meanwhile, whatever
\* is put, edited and deleted between its pages: as long as the texts of times sort as
\* the times do, no Put waits for the writer with its stamp or overwrites an artifact,
\* and no artifact is renamed or imported while it reads.
THEOREM ReaderMissesNothing ==
    ASSUME TextSorts, StampsInTurn, PutsNew, ReadersOnly
    PROVE  Spec => []PagesComplete
  <1> QED BY PagesInvImplies, PagesInit, PagesNext, ImportInit, ImportNext, PTL DEF Spec

------------------------------------------------------------------------------
(* The same pages of both stores.                                          *)

\* What is left is listed in one way.
LEMMA ListsOnce ==
    ASSUME NEW s, IsRows(s.rows), NEW c, NEW a, NEW n, Lists(a, n, s, c), NEW b, NEW k, Lists(b, k, s, c)
    PROVE  n = k /\ a = b
  <1> DEFINE T == Left(s, c)
             R == PutOrder(s, T)
  <1>1. Orders(R, T)
    BY PutOrders DEF Left
  <1>2. InOrder(a, n, T, R)
    BY DEF Lists, PutOrder, InOrder
  <1>3. InOrder(b, k, T, R)
    BY DEF Lists, PutOrder, InOrder
  <1> HIDE DEF T, R
  <1> QED BY <1>1, <1>2, <1>3, ListedOnce

\* So a page is what is left decides.
LEMMA PageOnce ==
    ASSUME NEW s, IsRows(s.rows), NEW t, IsRows(t.rows), SamePlaces(s, t), NEW c,
           NEW p, IsPage(p, s, c), NEW q, IsPage(q, t, c)
    PROVE  p.ids = q.ids /\ p.next = q.next
  <1>1. PICK a, n :
          /\ Lists(a, n, s, c)
          /\ n <= PageLimit => p.ids = a /\ p.next = NoCursor
          /\ n > PageLimit =>
               /\ p.ids = SubSeq(a, 1, PageLimit)
               /\ p.next = [ts |-> s.rows[a[PageLimit]].inserted, id |-> a[PageLimit]]
    BY DEF IsPage
  <1>2. PICK b, k :
          /\ Lists(b, k, t, c)
          /\ k <= PageLimit => q.ids = b /\ q.next = NoCursor
          /\ k > PageLimit =>
               /\ q.ids = SubSeq(b, 1, PageLimit)
               /\ q.next = [ts |-> t.rows[b[PageLimit]].inserted, id |-> b[PageLimit]]
    BY DEF IsPage
  <1>3. Left(s, c) = Left(t, c)
    BY DEF SamePlaces, Left, Ahead
  <1>4. \A i, j \in Left(s, c) : PutBefore(s, i, j) <=> PutBefore(t, i, j)
    BY DEF SamePlaces, Left, PutBefore
  <1>5. Lists(b, k, s, c)
    BY <1>2, <1>3, <1>4 DEF Lists
  <1>6. n = k /\ a = b
    BY <1>1, <1>5, ListsOnce
  <1>7. CASE n <= PageLimit
    BY <1>1, <1>2, <1>6, <1>7
  <1>8. CASE n > PageLimit
    <2>1. PageLimit \in Nat \ {0} /\ n \in Nat
      BY <1>1, StoresAssumption DEF Lists
    <2>2. PageLimit \in 1..n
      BY <1>8, <2>1
    <2>3. a[PageLimit] \in DOMAIN s.rows
      BY <1>1, <2>2 DEF Lists, Left
    <2> QED BY <1>1, <1>2, <1>6, <1>8, <2>3 DEF SamePlaces
  <1>9. n \in Nat /\ PageLimit \in Nat
    BY <1>1, StoresAssumption DEF Lists
  <1> QED BY <1>7, <1>8, <1>9

\* The cursor of a page.
LEMMA NextIsCursor ==
    ASSUME NEW s, IsRows(s.rows), NEW c, NEW p, IsPage(p, s, c)
    PROVE  IsCursor(p.next)
  <1>1. PICK a, n :
          /\ Lists(a, n, s, c)
          /\ n <= PageLimit => p.next = NoCursor
          /\ n > PageLimit => p.next = [ts |-> s.rows[a[PageLimit]].inserted, id |-> a[PageLimit]]
    BY DEF IsPage
  <1>2. n \in Nat /\ PageLimit \in Nat \ {0}
    BY <1>1, StoresAssumption DEF Lists
  <1>3. CASE n <= PageLimit
    BY <1>1, <1>3 DEF IsCursor
  <1>4. CASE n > PageLimit
    <2>1. a[PageLimit] \in DOMAIN s.rows
      BY <1>1, <1>2, <1>4 DEF Lists, Left
    <2>2. a[PageLimit] \in Nat /\ s.rows[a[PageLimit]].inserted \in Nat
      BY <2>1, StoresAssumption DEF IsRows, IsArt
    <2> QED BY <1>1, <1>4, <2>2 DEF IsCursor
  <1> QED BY <1>2, <1>3, <1>4

LEMMA MemTotal ==
    ASSUME NEW s, IsFiniteSet(DOMAIN s.rows), NEW c
    PROVE  M!ListPage(s, NoFilter, c, PageLimit).total = Cardinality(DOMAIN s.rows)
  <1> DEFINE U == M!Matching(s, NoFilter)
             Ith(i) == CHOOSE x \in U : M!Cardinality({y \in U : M!EarlierInserted(s, y, x)}) = i - 1
             all == [i \in 1..M!Cardinality(U) |-> Ith(i)]
  <1>1. M!ListPage(s, NoFilter, c, PageLimit).total = Len(all)
    BY DEF M!ListPage, M!SortedBy
  <1>2. M!Cardinality(U) = Cardinality(DOMAIN s.rows) /\ Cardinality(DOMAIN s.rows) \in Nat
    BY MemMatchesAll, MemCardinality, FS_CardinalityType
  <1> HIDE DEF U, Ith
  <1> QED BY <1>1, <1>2

LEMMA SqlTotal ==
    ASSUME NEW s, IsFiniteSet(DOMAIN s.rows)
    PROVE  S!ListPage(s, NoFilter, NoCursor, PageLimit).total = Cardinality(DOMAIN s.rows)
  <1> DEFINE Key(id) == S!Key(s, id)
             Before(i, j) == S!Above(Key(j), Key(i))
             U == {id \in S!Matching(s, NoFilter) : S!Beyond(Key(id), NoCursor)}
             Ith(i) == CHOOSE x \in U : S!Cardinality({y \in U : Before(y, x)}) = i - 1
             all == [i \in 1..S!Cardinality(U) |-> Ith(i)]
  <1>1. NoCursor = S!NoCursor
    BY DEF NoCursor, S!NoCursor, Never, S!Never
  <1>2. S!ListPage(s, NoFilter, NoCursor, PageLimit).total = Len(all)
    BY <1>1 DEF S!ListPage, S!SortedBy
  <1>3. U = DOMAIN s.rows
    BY <1>1, SqlMatchesAll DEF S!Beyond
  <1> HIDE DEF U
  <1>4. S!Cardinality(U) = Cardinality(DOMAIN s.rows) /\ Cardinality(DOMAIN s.rows) \in Nat
    BY <1>3, SqlCardinality, FS_CardinalityType
  <1> HIDE DEF Ith
  <1> QED BY <1>2, <1>4

\* The client looks at the total of the first page only: the count of a later page
\* of SQLiteStore fails.
TotalsApart == "total" \in Avoided

\* The two readers are at the same place of the same listing.
TwinInv ==
    /\ profile \in DOMAIN Profiles
    /\ "page" \in profile =>
         /\ import.stage = "none"
         /\ IsFiniteSet(DOMAIN mem.rows) /\ SamePlaces(mem, sql)
         /\ DOMAIN reader.mem = DOMAIN Unread /\ DOMAIN reader.sql = DOMAIN Unread
         /\ reader.mem.done = reader.sql.done
         /\ reader.mem.cursor = reader.sql.cursor /\ IsCursor(reader.mem.cursor)

\* What the readers are given.
LEMMA TwinPages ==
    ASSUME TwinInv, Shaped, TextSorts, "page" \in profile
    PROVE  LET m == M!ListPage(mem, NoFilter, reader.mem.cursor, PageLimit)
               q == S!ListPage(sql, NoFilter, reader.sql.cursor, PageLimit)
           IN  m.ids = q.ids /\ m.next = q.next /\ IsCursor(m.next)
  <1> DEFINE c == reader.mem.cursor
             m == M!ListPage(mem, NoFilter, c, PageLimit)
             q == S!ListPage(sql, NoFilter, c, PageLimit)
  <1>1. /\ IsRows(mem.rows) /\ IsRows(sql.rows) /\ SamePlaces(mem, sql) /\ IsCursor(c)
        /\ IsFiniteSet(DOMAIN mem.rows) /\ IsFiniteSet(DOMAIN sql.rows) /\ reader.sql.cursor = c
    BY DEF TwinInv, Shaped, IsMem, IsSql, SamePlaces
  <1> HIDE DEF c
  <1>2. IsPage(m, mem, c)
    BY <1>1, MemListPage
  <1>3. IsPage(q, sql, c)
    BY <1>1, SqlListPage
  <1> HIDE DEF m, q
  <1>4. m.ids = q.ids /\ m.next = q.next /\ IsCursor(m.next)
    BY <1>1, <1>2, <1>3, PageOnce, NextIsCursor
  <1> QED BY <1>1, <1>4 DEF c, m, q

LEMMA TwinImplies ==
    ASSUME TwinInv, Shaped, TextSorts, TotalsApart
    PROVE  SamePages
  <1> DEFINE m == M!ListPage(mem, NoFilter, reader.mem.cursor, PageLimit)
             q == S!ListPage(sql, NoFilter, reader.sql.cursor, PageLimit)
  <1> SUFFICES ASSUME "page" \in profile
               PROVE  m.ids = q.ids /\ m.next = q.next /\ (reader.mem.cursor = NoCursor => m.total = q.total)
    BY DEF SamePages, TotalsApart, Meets
  <1>1. m.ids = q.ids /\ m.next = q.next
    BY TwinPages
  <1>2. ASSUME reader.mem.cursor = NoCursor PROVE m.total = q.total
    <2>1. /\ IsFiniteSet(DOMAIN mem.rows) /\ DOMAIN sql.rows = DOMAIN mem.rows
          /\ reader.sql.cursor = NoCursor
      BY <1>2 DEF TwinInv, SamePlaces
    <2>2. m.total = Cardinality(DOMAIN mem.rows)
      BY <2>1, MemTotal
    <2>3. q.total = Cardinality(DOMAIN sql.rows)
      BY <2>1, SqlTotal
    <2> QED BY <2>1, <2>2, <2>3
  <1> HIDE DEF m, q
  <1> QED BY <1>1, <1>2

LEMMA TwinInit == Init => TwinInv
  <1> SUFFICES ASSUME Init PROVE TwinInv
    OBVIOUS
  <1>1. PICK n \in Seeds, p \in DOMAIN Profiles :
            /\ mem = [M!Empty EXCEPT !.rows = Seeded(n)]
            /\ sql = [S!Empty EXCEPT !.rows = Seeded(n), !.labels = SeededLabels(n)]
            /\ profile = p
            /\ reader = [mem |-> Unread, sql |-> Unread]
    BY DEF Init
  <1>2. mem.rows = Seeded(n) /\ sql.rows = Seeded(n)
    BY <1>1 DEF M!Empty, S!Empty
  <1>3. IsFiniteSet(DOMAIN Seeded(n))
    <2>1. n \in Nat /\ DOMAIN Seeded(n) = 1..n
      BY SeededIsRows
    <2>2. 1 \in Int /\ n \in Int
      BY <2>1
    <2> QED BY <2>1, <2>2, FS_Interval
  <1>4. import.stage = "none"
    BY DEF Init
  <1>5. IsCursor(Unread.cursor)
    BY DEF Unread, IsCursor
  <1> QED BY <1>1, <1>2, <1>3, <1>4, <1>5 DEF TwinInv, SamePlaces

\* A call that stores the same artifacts in both, at the same times.
TwinCall(ids) ==
    /\ IsFiniteSet(ids)
    /\ DOMAIN mem'.rows \subseteq DOMAIN mem.rows \union ids
    /\ SamePlaces(mem', sql')
    /\ ReaderTold(ids)
    /\ import' = import \/ import.stage # "none"

LEMMA TwinStep ==
    ASSUME TwinInv, NEW ids, TwinCall(ids), "page" \in profile
    PROVE  TwinInv'
  <1> DEFINE p == Meanwhile(reader.mem, ids, mem.rows)
             q == Meanwhile(reader.sql, ids, sql.rows)
  <1>1. reader' = [mem |-> p, sql |-> q] /\ profile' = profile
    BY DEF TwinCall, ReaderTold
  <1>2. /\ DOMAIN p = DOMAIN Unread /\ DOMAIN q = DOMAIN Unread
        /\ p.done = reader.mem.done /\ q.done = reader.sql.done
        /\ p.cursor = reader.mem.cursor /\ q.cursor = reader.sql.cursor
    BY DEF Meanwhile, TwinInv, Unread
  <1>3. IsFiniteSet(DOMAIN mem'.rows)
    <2>1. IsFiniteSet(DOMAIN mem.rows \union ids)
      BY FS_Union DEF TwinInv, TwinCall
    <2> QED BY <2>1, FS_Subset DEF TwinCall
  <1> HIDE DEF p, q
  <1> QED BY <1>1, <1>2, <1>3 DEF TwinInv, TwinCall

LEMMA PutSame ==
    ASSUME NEW s, NEW t, NEW u, NEW v, NEW id, NEW d, NEW e, NEW now, SamePlaces(s, u),
           Moves(s, t, {id}, {}), Keeps(t, id, d, now), Moves(u, v, {id}, {}), Keeps(v, id, e, now)
    PROVE  SamePlaces(t, v)
  <1>1. DOMAIN t.rows = DOMAIN s.rows \union {id} /\ DOMAIN v.rows = DOMAIN u.rows \union {id}
    BY DEF Moves, Keeps
  <1>2. \A j \in DOMAIN s.rows \ {id} : t.rows[j] = s.rows[j] /\ v.rows[j] = u.rows[j]
    BY DEF Moves, SamePlaces
  <1> QED BY <1>1, <1>2 DEF Keeps, SamePlaces

LEMMA SameInTurn ==
    ASSUME NEW s, NEW t, NEW u, NEW v, SamePlaces(s, u), SamePlaces(s, t), SamePlaces(u, v)
    PROVE  SamePlaces(t, v)
  BY DEF SamePlaces

LEMMA PutTwins ==
    ASSUME TwinInv, Shaped, "page" \in profile, PutsNew, NEW id \in Ids, NEW d \in Range(Drafts), Put(id, d)
    PROVE  TwinCall({id})
  <1>1. ~Stored(id)
    BY DEF Put, PutsNew, Meets
  <1>2. PICK now \in Stamps : Call("put", M!Put(mem, id, d, now), S!Put(sql, id, d, now), {id}, {}) /\ Tick(now)
    BY DEF Put
  <1>3. now \in Time /\ IsArt(d) /\ d.inserted = Never /\ IsMem(mem) /\ IsSql(sql)
    BY StampsAreTimes, DraftIsArt DEF Shaped
  <1>4. mem' = M!Put(mem, id, d, now).store /\ sql' = S!Put(sql, id, d, now).store
    BY <1>2 DEF Call
  <1>5. id \notin DOMAIN sql.rows
    BY <1>1 DEF Stored
  <1>6. Moves(mem, mem', {id}, {}) /\ Keeps(mem', id, d, Stamp(d.inserted, now))
    BY <1>3, <1>4, MemPut
  <1>7. Moves(sql, sql', {id}, {}) /\ Keeps(sql', id, d, Stamp(d.inserted, now))
    BY <1>3, <1>4, <1>5, SqlPut
  <1>8. SamePlaces(mem', sql')
    BY <1>6, <1>7, PutSame DEF TwinInv
  <1> QED BY <1>6, <1>8, PutWrites, WroteTold, FS_Singleton DEF TwinCall, Moves

LEMMA BulkPutTwins ==
    ASSUME TwinInv, Shaped, "page" \in profile, PutsNew,
           NEW i \in Ids, NEW j \in Ids, NEW d \in Range(Drafts), BulkPut(i, j, d)
    PROVE  TwinCall({i, j})
  <1> DEFINE now == clock + 1
             a == [id |-> i, art |-> d]
             b == [id |-> j, art |-> d]
             m == M!BulkPut(mem, <<a, b>>, now)
             q == S!BulkPut(sql, <<a, b>>, now)
             t == M!Put(mem, i, d, now).store
             v == S!Put(sql, i, d, now).store
             x == M!Put(t, j, d, now).store
             y == S!Put(v, j, d, now).store
             stamp == Stamp(d.inserted, now)
  <1>1. i # j /\ ~Stored(i) /\ ~Stored(j)
    BY DEF BulkPut, PutsNew, Meets
  <1>2. Call("bulk", m, q, {i, j}, {})
    BY DEF BulkPut
  <1>3. now \in Time /\ IsArt(d) /\ IsMem(mem) /\ IsSql(sql)
    BY StampsAreTimes, DraftIsArt DEF Shaped
  <1>4. m.store = x /\ q.store = y
    BY MemBulkPut, SqlBulkPut
  <1>5. mem' = m.store /\ sql' = q.store
    BY <1>2 DEF Call
  <1> HIDE DEF now, m, q, t, v, x, y, stamp
  <1>6. IsMem(t) /\ Moves(mem, t, {i}, {}) /\ Keeps(t, i, d, stamp)
    BY <1>3, MemPut DEF t, stamp
  <1>7. i \notin DOMAIN sql.rows /\ j \notin DOMAIN sql.rows
    BY <1>1 DEF Stored
  <1>8. IsSql(v) /\ Moves(sql, v, {i}, {}) /\ Keeps(v, i, d, stamp)
    BY <1>3, <1>7, SqlPut DEF v, stamp
  <1>9. SamePlaces(t, v) /\ j \notin DOMAIN v.rows
    BY <1>1, <1>6, <1>7, <1>8, PutSame DEF TwinInv, Moves
  <1>10. Moves(t, x, {j}, {}) /\ Keeps(x, j, d, stamp)
    BY <1>3, <1>6, MemPut DEF x, stamp
  <1>11. Moves(v, y, {j}, {}) /\ Keeps(y, j, d, stamp)
    BY <1>3, <1>8, <1>9, SqlPut DEF y, stamp
  <1>12. SamePlaces(x, y)
    BY <1>9, <1>10, <1>11, PutSame
  <1>13. IsFiniteSet({i, j})
    <2>1. IsFiniteSet({i}) /\ IsFiniteSet({j}) /\ {i, j} = {i} \union {j}
      BY FS_Singleton
    <2> QED BY <2>1, FS_Union
  <1>14. Wrote({i, j}, {})
    BY BulkPutWrites
  <1> QED BY <1>4, <1>5, <1>12, <1>13, <1>14, WroteTold DEF TwinCall, Wrote, Moves

LEMMA RevisesTwins ==
    ASSUME TwinInv, Shaped, "page" \in profile, NEW id \in Ids, Revises(id)
    PROVE  TwinCall({id})
  <1>1. SamePlaces(mem, mem') /\ SamePlaces(sql, sql') /\ Wrote({id}, {})
    BY RevisesKept
  <1>2. SamePlaces(mem', sql')
    BY <1>1, SameInTurn DEF TwinInv
  <1> QED BY <1>1, <1>2, WroteTold, FS_Singleton DEF TwinCall, SamePlaces

LEMMA DeleteTwins ==
    ASSUME TwinInv, Shaped, "page" \in profile, NEW id \in Ids, Delete(id)
    PROVE  TwinCall({id})
  <1>1. mem' = M!Delete(mem, id).store /\ sql' = S!Delete(sql, id).store
    BY DEF Delete, Call
  <1>2. Moves(mem, mem', {id}, M!EdgesOf(mem, id)) /\ DOMAIN mem'.rows = DOMAIN mem.rows \ {id}
    BY <1>1, MemDelete DEF Shaped
  <1>3. Moves(sql, sql', {id}, S!EdgesOf(sql, id)) /\ DOMAIN sql'.rows = DOMAIN sql.rows \ {id}
    BY <1>1, SqlDelete DEF Shaped
  <1>4. SamePlaces(mem', sql')
    BY <1>2, <1>3 DEF Moves, TwinInv, SamePlaces
  <1> QED BY <1>2, <1>4, DeleteWrites, WroteTold, FS_Singleton DEF TwinCall

LEMMA NoArtifactTwins ==
    ASSUME TwinInv, "page" \in profile, NEW edges, Wrote({}, edges)
    PROVE  TwinCall({})
  <1>1. SamePlaces(mem, mem') /\ SamePlaces(sql, sql')
    BY DEF Wrote, Moves, SamePlaces
  <1>2. SamePlaces(mem', sql')
    BY <1>1, SameInTurn DEF TwinInv
  <1> QED BY <1>1, <1>2, WroteTold, FS_EmptySet DEF TwinCall, SamePlaces

LEMMA WritesTwins ==
    ASSUME TwinInv, Shaped, ReadersOnly, PutsNew, "page" \in profile, Writes
    PROVE  \E ids : TwinCall(ids)
  <1>1. ASSUME NEW old, NEW new, RenameID(old, new) PROVE FALSE
    <2>1. "rename" \in profile
      BY <1>1 DEF RenameID, Call
    <2> QED BY <2>1 DEF TwinInv, ReadersOnly
  <1>2. ASSUME OnTheSide PROVE TwinCall({})
    BY <1>2, OnTheSideWrites, NoArtifactTwins
  <1>3. ASSUME NEW e \in Edges, OnEdge(e) PROVE TwinCall({})
    BY <1>3, OnEdgeWrites, NoArtifactTwins
  <1>4. ASSUME NEW e \in Edges, NEW g \in Edges, NEW sources, BulkAddEdge(e, g, sources) PROVE TwinCall({})
    BY <1>4, BulkAddEdgeWrites, NoArtifactTwins
  <1> HIDE DEF TwinCall
  <1>5. CASE \/ \E id \in Ids, d \in Range(Drafts) : Put(id, d)
             \/ \E i, j \in Ids, d \in Range(Drafts) : BulkPut(i, j, d)
             \/ \E id \in Ids : Delete(id)
    BY <1>5, PutTwins, BulkPutTwins, DeleteTwins
  <1>6. CASE \/ \E id \in Ids, e \in Edits : EditPut(id, e) \/ PatchArtifact(id, e)
             \/ \E id \in Ids, e \in Edits, current \in BOOLEAN : PutIfVersion(id, e, current)
    BY <1>6, RevisesTwins DEF Revises
  <1> QED BY <1>1, <1>2, <1>3, <1>4, <1>5, <1>6 DEF Writes

LEMMA AppendEventTwins ==
    ASSUME TwinInv, Shaped, "page" \in profile, NEW id \in Ids, NEW type, AppendEvent(id, type)
    PROVE  TwinCall({})
  <1>1. /\ mem'.rows = mem.rows /\ sql'.rows = sql.rows
        /\ ReaderTold({}) /\ (import' = import \/ import.stage # "none")
    BY AppendEventWrites DEF LogGrows, ImportTold, Written
  <1> QED BY <1>1, FS_EmptySet DEF TwinCall, TwinInv, SamePlaces

LEMMA TwinPagesStep ==
    ASSUME TwinInv, Shaped, TextSorts, Pages
    PROVE  TwinInv'
  <1> DEFINE m == M!ListPage(mem, NoFilter, reader.mem.cursor, PageLimit)
             w == S!ListPage(sql, NoFilter, reader.sql.cursor, PageLimit)
             p == ReadPage(reader.mem, m, DOMAIN mem.rows)
             q == ReadPage(reader.sql, w, DOMAIN sql.rows)
  <1>1. /\ "page" \in profile /\ reader' = [mem |-> p, sql |-> q]
        /\ UNCHANGED <<mem, sql, profile, import>>
    BY DEF Pages
  <1>2. m.next = w.next /\ IsCursor(m.next)
    BY <1>1, TwinPages
  <1> HIDE DEF m, w
  <1>3. /\ DOMAIN p = DOMAIN Unread /\ DOMAIN q = DOMAIN Unread
        /\ p.done = q.done /\ p.cursor = q.cursor /\ IsCursor(p.cursor)
    <2>1. CASE reader.mem.done
      BY <1>1, <2>1 DEF ReadPage, TwinInv
    <2>2. CASE ~reader.mem.done
      <3>1. ~reader.sql.done
        BY <1>1, <2>2 DEF TwinInv
      <3>2. /\ DOMAIN p = DOMAIN Unread /\ p.cursor = m.next /\ p.done = (m.next = NoCursor)
        BY <2>2 DEF ReadPage, Unread
      <3>3. /\ DOMAIN q = DOMAIN Unread /\ q.cursor = w.next /\ q.done = (w.next = NoCursor)
        BY <3>1 DEF ReadPage, Unread
      <3> QED BY <1>2, <3>2, <3>3
    <2> QED BY <2>1, <2>2
  <1> HIDE DEF p, q
  <1> QED BY <1>1, <1>3 DEF TwinInv

LEMMA TwinNext ==
    ASSUME TwinInv, ImportInv, [Next]_vars, TextSorts, PutsNew, ReadersOnly
    PROVE  TwinInv'
  <1>1. Shaped
    BY DEF ImportInv
  <1>2. CASE Writes
    <2>1. PICK ids \in SUBSET Ids, edges \in SUBSET Triples : Wrote(ids, edges)
      BY <1>1, <1>2, WritesWrote
    <2>2. profile' = profile
      BY <2>1 DEF Wrote, ReaderTold
    <2>3. CASE "page" \in profile
      BY <1>1, <1>2, <2>3, WritesTwins, TwinStep
    <2> QED BY <2>2, <2>3 DEF TwinInv
  <1>3. ASSUME NEW id \in Ids, NEW type, AppendEvent(id, type) PROVE TwinInv'
    <2>1. profile' = profile
      BY <1>1, <1>3, AppendEventWrites DEF ReaderTold
    <2>2. CASE "page" \in profile
      BY <1>1, <1>3, <2>2, AppendEventTwins, TwinStep
    <2> QED BY <2>1, <2>2 DEF TwinInv
  <1>4. CASE CapsuleExport \/ CapsuleImport \/ ImportStops \/ ImportArtifact \/ \E e \in Edges : ImportEdge(e)
    <2>1. profile' = profile
      BY <1>4 DEF CapsuleExport, CapsuleImport, ImportStops, ImportArtifact, ImportEdge
    <2>2. import.stage # "none" \/ "capsule" \in profile
      BY <1>4 DEF CapsuleExport, CapsuleImport, ImportStops, ImportArtifact, ImportEdge, Importing
    <2>3. "page" \notin profile
      BY <2>2 DEF TwinInv, ReadersOnly
    <2> QED BY <2>1, <2>3 DEF TwinInv
  <1>5. CASE Poll \/ UNCHANGED vars
    <2>1. UNCHANGED <<mem, sql, profile, reader, import>>
      BY <1>5 DEF Poll, vars
    <2> QED BY <2>1 DEF TwinInv
  <1> QED BY <1>1, <1>2, <1>3, <1>4, <1>5, NextIs, TwinPagesStep

\* The two implementations of ListPage, one that sorts all artifacts and cuts the list
\* and one that asks for what is beyond the cursor, give a reader the same pages and
\* the same cursors whatever is put, edited and deleted between them, and the same
\* total with the first.
THEOREM PagesAreAlike ==
    ASSUME TextSorts, PutsNew, ReadersOnly, TotalsApart
    PROVE  Spec => []SamePages
  <1>1. TwinInv /\ ImportInv => SamePages
    BY TwinImplies DEF ImportInv
  <1> QED BY <1>1, TwinInit, TwinNext, ImportInit, ImportNext, PTL DEF Spec
==============================================================================
