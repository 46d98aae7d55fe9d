------------------------------- MODULE SqlStore --------------------------------
(***************************************************************************)
(* SQLiteStore: what each method of Store does to the tables, in the       *)
(* transactions of its one writer.  The columns kind, scope and status of  *)
(* the artifacts table follow from its labels column, the revisions from   *)
(* its triggers.                                                           *)
(***************************************************************************)
EXTENDS StoreTypes

CONSTANTS
    Keep,       \* revisions kept per artifact: 50 in the update trigger
    VecTable,   \* vecTableName: [model -> the vec0 table of its vectors]
    Text(_)     \* the place a time has among the times, as text

Empty ==
    [rows |-> NoMap, aliases |-> NoMap, labels |-> {}, edges |-> NoMap, scopes |-> NoMap,
     metrics |-> NoMap, blobs |-> NoMap, revs |-> NoMap, events |-> <<>>,
     vectors |-> NoMap, hashes |-> NoMap, sections |-> NoMap]

\* An error that wraps nothing.
Missing == "error"

------------------------------------------------------------------------------
(* artifact_revisions: a function from <<id, revision>>.                   *)

Revs(s, id) == {k[2] : k \in {r \in DOMAIN s.revs : r[1] = id}}

MaxRev(s, id) == Max(Revs(s, id) \union {0})

\* trg_artifact_revision_on_delete.
OnDelete(s, id) == [s EXCEPT !.revs = Set(@, <<id, MaxRev(s, id) + 1>>, Content(s.rows[id]))]

DropRevs(s, id, last) == [s EXCEPT !.revs = Without(@, {<<id, r>> : r \in 0..last})]

Newest(s, id, n) == IF MaxRev(s, id) > n THEN MaxRev(s, id) - n ELSE 0

\* trg_artifact_revision_on_update: when a content column changes.
OnUpdate(s, id, new) ==
    IF Content(s.rows[id]) = Content(new) THEN s
    ELSE LET t == OnDelete(s, id) IN DropRevs(t, id, Newest(t, id, Keep))

ListRevisions(s, id) ==
    LET revs == SortedBy(Revs(s, id), >)
    IN  [i \in DOMAIN revs |-> [rev |-> revs[i], content |-> s.revs[<<id, revs[i]>>]]]

GetRevision(s, id, rev) ==
    Found({[rev |-> rev, content |-> c] : c \in At(s.revs, <<id, rev>>)}, "error")

PruneRevisions(s, id, keepN) ==
    LET t == DropRevs(s, id, Newest(s, id, keepN))
    IN  Count(t, Cardinality(Revs(s, id)) - Cardinality(Revs(t, id)))

PurgeRevisions(s, id) == Ok(DropRevs(s, id, MaxRev(s, id)))

------------------------------------------------------------------------------
(* Artifacts.                                                              *)

Has(s, id) == id \in DOMAIN s.rows

LabelRows(id, labels) == {<<id, l>> : l \in Range(labels)}

RowsFor(s, id) == {r \in s.labels : r[1] = id}

\* syncLabelsInTx: artifact_labels follows the labels column.
SyncLabels(s, id, labels) ==
    [s EXCEPT !.labels = (@ \ RowsFor(s, id)) \union LabelRows(id, labels)]

Insert(s, id, art, now) ==
    [s EXCEPT !.rows = Set(@, id, [art EXCEPT !.created = Stamp(@, now), !.updated = now,
                                              !.inserted = Stamp(@, now)])]

\* (mutant) ON CONFLICT overwrites inserted_at too
UpdateInserted(s, id, art, now) ==
    LET new == [art EXCEPT !.created = s.rows[id].created, !.updated = now, !.inserted = now]
    IN  [OnUpdate(s, id, new) EXCEPT !.rows[id] = new]

\* created_at and inserted_at are not among the columns an update sets.
Update(s, id, art, now) ==
    LET new == [art EXCEPT !.created = s.rows[id].created, !.updated = now,
                           !.inserted = s.rows[id].inserted]
    IN  [OnUpdate(s, id, new) EXCEPT !.rows[id] = new]

Upsert(s, id, art, now) ==
    SyncLabels(IF Has(s, id) THEN Update(s, id, art, now) ELSE Insert(s, id, art, now),
               id, art.labels)

Put(s, id, art, now) == Ok(Upsert(s, id, art, now))

BulkPut(s, batch, now) == Ok(FoldLeft(LAMBDA acc, b : Upsert(acc, b.id, b.art, now), s, batch))

PutIfVersion(s, id, art, expected, now) ==
    IF ~Has(s, id) THEN Fail(s, "not found")
    ELSE IF s.rows[id].updated # expected THEN Fail(s, "conflict")
    ELSE Ok(SyncLabels(Update(s, id, art, now), id, art.labels))

EmptyPatch(patch) == patch.notes = <<>> /\ patch.text = NoText

PatchArtifact(s, id, patch, now) ==
    IF EmptyPatch(patch) THEN Ok(s)
    ELSE IF ~Has(s, id) THEN Fail(s, "not found")
    ELSE Ok(Update(s, id, Patched(s.rows[id], patch, now), now))

EdgesOf(s, id) == {e \in DOMAIN s.edges : id \in {From(e), To(e)}}

\* The rows of artifact_labels stay.
Delete(s, id) ==
    IF ~Has(s, id) THEN Fail(s, Missing)
    ELSE Ok([OnDelete(s, id) EXCEPT
               !.rows = Without(@, {id}),
               !.edges = Without(@, EdgesOf(s, id)),
               !.blobs = Without(@, {b \in DOMAIN s.blobs : b[1] = id})])

Get(s, id) == Found(At(s.rows, id), Missing)

\* Aliases: a table in which an alias is unique.

GetByAlias(s, alias) ==
    IF alias \in DOMAIN s.aliases THEN Get(s, s.aliases[alias]) ELSE Found({}, "not found")

AddAlias(s, id, alias) ==
    IF alias \in DOMAIN s.aliases THEN Fail(s, "taken")
    ELSE Ok([s EXCEPT !.aliases = Set(@, alias, id)])

\* Of this artifact, or else of whichever has it.
RemoveAlias(s, id, alias) == Ok([s EXCEPT !.aliases = Without(@, {alias})])

ListAliases(s, id) == {a \in DOMAIN s.aliases : s.aliases[a] = id}

Renamed(x, old, new) == IF x = old THEN new ELSE x

FromRenamed(e, old, new) == <<Renamed(From(e), old, new), Relation(e), To(e)>>

ToRenamed(e, old, new) == <<From(e), Relation(e), Renamed(To(e), old, new)>>

\* An UPDATE of a key column fails when two rows would get one key.
Collides(keys, renamed) == Cardinality(renamed) < Cardinality(keys)

\* (mutant) the aliases of the old id are left behind
CascadedNot(aliases, old, new) ==
    IF old \in DOMAIN aliases THEN aliases ELSE Set(aliases, old, new)

\* The aliases follow, and the old id joins them unless it is one already.
Cascaded(aliases, old, new) ==
    LET moved == [a \in DOMAIN aliases |-> Renamed(aliases[a], old, new)]
    IN  IF old \in DOMAIN moved THEN moved ELSE Set(moved, old, new)

RenameID(s, old, new) ==
    LET byFrom == {FromRenamed(e, old, new) : e \in DOMAIN s.edges}
        Edge(e) == ToRenamed(FromRenamed(e, old, new), old, new)
        labels == {<<Renamed(r[1], old, new), r[2]>> : r \in s.labels}
    IN  IF \/ ~Has(s, old)
           \/ new # old /\ Has(s, new)
           \/ Collides(DOMAIN s.edges, byFrom)
           \/ Collides(byFrom, {ToRenamed(e, old, new) : e \in byFrom})
           \/ Collides(s.labels, labels)
        THEN Fail(s, "error")
        ELSE Ok([s EXCEPT
               !.rows = Set(Without(@, {old}), new, @[old]),
               !.edges = [k \in {Edge(e) : e \in DOMAIN @} |->
                             @[CHOOSE e \in DOMAIN @ : Edge(e) = k]],
               !.labels = labels,
               !.aliases = Cascaded(@, old, new)])

------------------------------------------------------------------------------
(* Listing.                                                                *)

\* A label of these namespaces is looked up in the column its first label fills.
Columns == {"kind", "project", "priority", "sprint"}

InJunction(s, id, labels) == \E l \in labels : <<id, l>> \in s.labels

\* One clause of the WHERE for one label all artifacts must carry.
Carries(s, f, id, label) ==
    LET column == LabelValue(s.rows[id].labels, label[1])
    IN  CASE label[1] \notin Columns -> InJunction(s, id, {label})
          [] label[1] = "project" /\ f.scopePrefix -> IsPrefix(label[2], column)
          [] OTHER -> column = label[2]

WithAny(s, f, id) == f.labelsOr # {} => InJunction(s, id, f.labelsOr)

\* buildWhereClause.
Matches(s, f, id) ==
    LET art == s.rows[id]
    IN  /\ f.ids # {} => id \in f.ids
        /\ f.kind # NoValue => IsStrictPrefix(f.kind, Kind(art))
        /\ f.scopesOr # {} => Scope(art) \in f.scopesOr
        /\ \A c \in DOMAIN f.from : Text(art[c]) >= Text(f.from[c])
        /\ \A c \in DOMAIN f.until : Text(art[c]) < Text(f.until[c])
        /\ \A l \in f.labels : Carries(s, f, id, l)
        /\ WithAny(s, f, id)
        /\ ~InJunction(s, id, f.exclude)

Matching(s, f) == {id \in DOMAIN s.rows : Matches(s, f, id)}

List(s, f) == SortedBy(Matching(s, f), <)

\* Sorted, and cut, by the text of the time.
Key(s, id) == [ts |-> Text(s.rows[id].inserted), id |-> id]

Above(k, cursor) == k.ts > cursor.ts \/ (k.ts = cursor.ts /\ k.id > cursor.id)

Beyond(k, cursor) == cursor = NoCursor \/ Above(k, cursor)

\* The count loses the arguments of the cursor and keeps its clause: no total then.
ListPage(s, f, cursor, limit) ==
    LET Of(id) == Key(s, id)
        rest == SortedBy({id \in Matching(s, f) : Beyond(Of(id), cursor)},
                         LAMBDA i, j : Above(Of(j), Of(i)))
        more == Len(rest) > limit
    IN  [ids |-> IF more THEN SubSeq(rest, 1, limit) ELSE rest,
         next |-> IF more THEN Of(rest[limit]) ELSE NoCursor,
         total |-> IF cursor = NoCursor THEN Len(rest) ELSE 0]

------------------------------------------------------------------------------
(* Edges.                                                                  *)

InsertOrIgnore(s, e, attrs) ==
    IF e \in DOMAIN s.edges THEN s ELSE [s EXCEPT !.edges = Set(@, e, attrs)]

Declared(attrs) == IF attrs.sources = <<>> THEN [attrs EXCEPT !.sources = <<"manual">>] ELSE attrs

AddEdge(s, e, attrs) == Ok(InsertOrIgnore(s, e, Declared(attrs)))

BulkAddEdge(s, batch) ==
    Ok(FoldLeft(LAMBDA acc, b : InsertOrIgnore(acc, b.edge, Declared(b.attrs)), s, batch))

RemoveEdge(s, e) == Ok([s EXCEPT !.edges = Without(@, {e})])

AddEdgeSource(s, e, source) ==
    LET t == InsertOrIgnore(s, e, [weight |-> 0, sources |-> <<source>>])
    IN  IF Contains(t.edges[e].sources, source) THEN Ok(t)
        ELSE Ok([t EXCEPT !.edges[e].sources = Append(@, source)])

RemoveEdgeSource(s, e, source) ==
    LET Remaining(x) == SourcesBut(s.edges[x].sources, source)
        emptied == {x \in {e} \intersect DOMAIN s.edges : Remaining(x) = <<>>}
    IN  IF e \notin DOMAIN s.edges THEN Ok(s)
        ELSE IF e \in emptied THEN RemoveEdge(s, e)
        ELSE Ok([s EXCEPT !.edges[e].sources = Remaining(e)])

UpdateEdgeWeight(s, e, weight) ==
    IF e \notin DOMAIN s.edges THEN Fail(s, "no such edge")
    ELSE Ok([s EXCEPT !.edges[e].weight = weight])

Incident(e, id, dir) ==
    \/ dir \in {"outgoing", "both"} /\ From(e) = id
    \/ dir \in {"incoming", "both"} /\ To(e) = id

Neighbors(s, id, relations, dir) ==
    Restrict(s.edges, {e \in DOMAIN s.edges : Related(e, relations) /\ Incident(e, id, dir)})

Children(s, id) ==
    {To(e) : e \in DOMAIN Neighbors(s, id, {"parent_of"}, "outgoing")} \intersect DOMAIN s.rows

\* neighborArtifacts: e.To even for an edge that comes in, when dir is Both.
NeighborArtifacts(s, id, relations, dir) ==
    {FarEnd(e, dir) : e \in DOMAIN Neighbors(s, id, relations, dir)} \intersect DOMAIN s.rows

ListEdges(s, ids, relations) ==
    Restrict(s.edges, {e \in DOMAIN s.edges :
                         Related(e, relations) /\ {From(e), To(e)} \subseteq ids})

ListEdgesFrom(s, ids, relations) ==
    Restrict(s.edges, {e \in DOMAIN s.edges : Related(e, relations) /\ From(e) \in ids})

\* The artifacts a walk without a depth limit comes to.
Walk(s, root, relations, dir) ==
    LET nodes == UNION {{From(e), To(e)} : e \in DOMAIN s.edges}
    IN  Reachable([n \in nodes |-> {FarEnd(e, dir) : e \in DOMAIN Neighbors(s, n, relations, dir)}], root)

\* The edges that have rows at both ends, of different groups.
Joined(s, group) ==
    {e \in DOMAIN s.edges :
        {From(e), To(e)} \subseteq DOMAIN s.rows /\ group[From(e)] # group[To(e)]}

Grouped(edges, group) == Tally(edges, LAMBDA e : <<group[From(e)], group[To(e)]>>)

\* The columns scope and kind.
ScopeOf(s) == [id \in DOMAIN s.rows |-> Scope(s.rows[id])]

KindOf(s) == [id \in DOMAIN s.rows |-> Kind(s.rows[id])]

ScopeGraph(s) ==
    LET scope == ScopeOf(s)
        scoped == {id \in DOMAIN s.rows : scope[id] \notin {NoValue, SchemaScope}}
    IN  [counts |-> Tally(scoped, LAMBDA id : scope[id]),
         weights |-> Grouped({e \in Joined(s, scope) : {From(e), To(e)} \subseteq scoped}, scope)]

\* One of the status labels; the edges within the scope, an artifact without a kind included.
KindGraph(s, scope, statuses, relations) ==
    LET kind == KindOf(s)
        within == {id \in DOMAIN s.rows : Scope(s.rows[id]) = scope}
        counted == {id \in within : kind[id] # NoValue /\ (statuses # {} => InJunction(s, id, statuses))}
    IN  [counts |-> Tally(counted, LAMBDA id : kind[id]),
         weights |-> Grouped({e \in Joined(s, kind) :
                                Related(e, relations) /\ {From(e), To(e)} \subseteq within}, kind)]

------------------------------------------------------------------------------
(* Scope labels, attachments, metrics, events, embeddings.                 *)

\* The labels are joined with commas, and split at every comma when they are read.
Csv(labels) == FlattenSeq(labels)

SetScopeLabels(s, scope, labels) == Ok([s EXCEPT !.scopes = Set(@, scope, Csv(labels))])

Split(csv) == [i \in DOMAIN csv |-> <<csv[i]>>]

GetScopeLabels(s, scope) == Found({Split(csv) : csv \in At(s.scopes, scope)}, "error")

ScopesByLabel(s, label) ==
    {sc \in DOMAIN s.scopes : \E i, j \in DOMAIN s.scopes[sc] : SubSeq(s.scopes[sc], i, j) = label}

ListScopeInfo(s) == [sc \in DOMAIN s.scopes |-> Split(s.scopes[sc])]

PutAttachment(s, id, name, data) == Ok([s EXCEPT !.blobs = Set(@, <<id, name>>, data)])

GetAttachments(s, id) == Restrict(s.blobs, {b \in DOMAIN s.blobs : b[1] = id})

DeleteAttachment(s, id, name) == Ok([s EXCEPT !.blobs = Without(@, {<<id, name>>})])

NoMetrics == [count |-> 0, last |-> Never]

RecordAccess(s, id, now) ==
    Ok([s EXCEPT !.metrics =
          Set(@, id, [count |-> Lookup(@, id, NoMetrics).count + 1, last |-> now])])

GetMetrics(s, id) == Lookup(s.metrics, id, NoMetrics)

AppendEvent(s, ev, now) ==
    Ok([s EXCEPT !.events = Append(@, [ev EXCEPT !.ts = Stamp(@, now)])])

EventMatches(ev, f) ==
    /\ f.about # {} => ev.about \in f.about
    /\ f.types # {} => ev.type \in f.types

\* (mutant) ts > ?
SinceAfter(ts, since) == ts > since

Since(ts, since) == ts >= since

\* The rowids of the events, which are their places in the log, by (ts, id).
GetEvents(s, since, f) ==
    LET Ts(i) == Text(s.events[i].ts)
    IN  SortedBy({i \in DOMAIN s.events :
                    Since(Ts(i), Text(since)) /\ EventMatches(s.events[i], f)},
                 LAMBDA i, j : Ts(i) < Ts(j) \/ (Ts(i) = Ts(j) /\ i < j))

PutEmbedding(s, id, model, hash, vec) ==
    Ok([s EXCEPT !.vectors = Set(@, <<<<id>>, model>>, vec),
                 !.hashes = Set(@, <<<<id>>, model>>, hash)])

GetEmbeddingHash(s, id, model) == At(s.hashes, <<<<id>>, model>>)

GetEmbedding(s, id, model) == Found(At(s.vectors, <<<<id>>, model>>), "error")

PutSectionEmbedding(s, id, section, model, vec) ==
    Ok([s EXCEPT !.sections = Set(@, <<<<id, section>>, model>>, vec)])

\* score: [vector -> how near it is to what is asked for].
Scored(table, keys, score) ==
    {[id |-> k[1], model |-> k[2], score |-> score[table[k]]] : k \in keys}

Unmodelled(results) == {[id |-> r.id, score |-> r.score] : r \in results}

\* The n nearest of the model's vec0 table, of which another model's are then dropped.
SearchSemantic(s, model, score, n) ==
    LET inTable == {k \in DOMAIN s.vectors : VecTable[k[2]] = VecTable[model]}
        nearest == Best(Scored(s.vectors, inTable, score), n)
    IN  Unmodelled({r \in nearest : r.model = model})

SearchSectionSemantic(s, model, score, n) ==
    LET all == Scored(s.sections, {k \in DOMAIN s.sections : k[2] = model}, score)
    IN  Best(BestSections({[id |-> Head(r.id), score |-> r.score] : r \in all}), n)

===============================================================================
