------------------------------- MODULE MemStore --------------------------------
(***************************************************************************)
(* MemoryStore: what each method of Store does to the maps it keeps, under *)
(* its lock.  A store is a record; a write answers with the store it       *)
(* leaves and what it returns.                                             *)
(***************************************************************************)
EXTENDS StoreTypes

CONSTANT
    Text(_)     \* the place a time has among the times, as text

Empty ==
    [rows |-> NoMap, aliases |-> NoMap, edges |-> NoMap, scopes |-> NoMap,
     metrics |-> NoMap, blobs |-> NoMap, revs |-> NoMap, events |-> <<>>,
     vectors |-> NoMap, hashes |-> NoMap]

\* ErrArtifactNotFound, whatever looks for the artifact.
Missing == "not found"

------------------------------------------------------------------------------
(* Revisions: newest last.                                                 *)

History(s, id) == Lookup(s.revs, id, <<>>)

AppendRevision(s, id, art) ==
    LET revs == History(s, id)
        next == IF revs = <<>> THEN 1 ELSE Last(revs).rev + 1
    IN  [s EXCEPT !.revs = Set(@, id, Append(revs, [rev |-> next, content |-> Content(art)]))]

SnapshotIfChanged(s, id, old, new) ==
    IF Content(old) = Content(new) THEN s ELSE AppendRevision(s, id, old)

ListRevisions(s, id) == Reverse(History(s, id))

GetRevision(s, id, rev) ==
    Found({r \in Range(History(s, id)) : r.rev = rev}, Missing)

PruneRevisions(s, id, keepN) ==
    LET revs == History(s, id)
        removed == Len(revs) - keepN
    IN  IF Len(revs) <= keepN THEN Count(s, 0)
        ELSE Count([s EXCEPT !.revs[id] = SubSeq(revs, removed + 1, Len(revs))], removed)

PurgeRevisions(s, id) == Ok([s EXCEPT !.revs = Without(@, {id})])

------------------------------------------------------------------------------
(* Artifacts.                                                              *)

Has(s, id) == id \in DOMAIN s.rows

Stamped(s, id, art, now) ==
    [art EXCEPT !.created = Stamp(@, now),
                !.updated = IF Has(s, id) THEN now ELSE Stamp(@, now),
                !.inserted = Stamp(@, now)]

Put(s, id, art, now) ==
    LET new == Stamped(s, id, art, now)
        old == IF Has(s, id) THEN SnapshotIfChanged(s, id, s.rows[id], new) ELSE s
    IN  Ok([old EXCEPT !.rows = Set(@, id, new)])

BulkPut(s, batch, now) ==
    FoldLeft(LAMBDA acc, b : Put(acc.store, b.id, b.art, now), Ok(s), batch)

PutIfVersion(s, id, art, expected, now) ==
    IF ~Has(s, id) THEN Fail(s, Missing)
    ELSE IF s.rows[id].updated # expected THEN Fail(s, "conflict")
    ELSE LET new == [art EXCEPT !.created = Stamp(@, now), !.updated = now,
                                !.inserted = Stamp(@, now)]
         IN  Ok([SnapshotIfChanged(s, id, s.rows[id], new) EXCEPT !.rows[id] = new])

\* A section whose text is replaced is replaced in the array every shallow copy
\* of the artifact shares: the snapshot taken before it, and a copy Get returned.
SharedText(art, text) ==
    IF NoText \in {art.text, text} THEN art ELSE [art EXCEPT !.text = text]

EditCopy(s, id, text) == [s EXCEPT !.rows[id] = SharedText(@, text)]

PatchArtifact(s, id, patch, now) ==
    IF ~Has(s, id) THEN Fail(s, Missing)
    ELSE LET snap == SharedText(s.rows[id], patch.text)
             new == Patched(s.rows[id], patch, now)
         IN  Ok([SnapshotIfChanged(s, id, snap, new) EXCEPT !.rows[id] = new])

Touches(e, id) == id \in {From(e), To(e)}

EdgesOf(s, id) == {e \in DOMAIN s.edges : Touches(e, id)}

Delete(s, id) ==
    IF ~Has(s, id) THEN Fail(s, Missing)
    ELSE Ok([AppendRevision(s, id, s.rows[id]) EXCEPT
               !.rows = Without(@, {id}),
               !.edges = Without(@, EdgesOf(s, id)),
               !.blobs = Without(@, {b \in DOMAIN s.blobs : b[1] = id})])

Get(s, id) == Found(At(s.rows, id), Missing)

\* Aliases.

GetByAlias(s, alias) ==
    IF alias \in DOMAIN s.aliases THEN Get(s, s.aliases[alias]) ELSE Found({}, Missing)

AddAlias(s, id, alias) ==
    IF Lookup(s.aliases, alias, id) # id THEN Fail(s, "taken")
    ELSE Ok([s EXCEPT !.aliases = Set(@, alias, id)])

RemoveAlias(s, id, alias) == Ok([s EXCEPT !.aliases = Without(@, {alias})])

ListAliases(s, id) == {a \in DOMAIN s.aliases : s.aliases[a] = id}

Renamed(x, old, new) == IF x = old THEN new ELSE x

RenamedEdge(e, old, new) == <<Renamed(From(e), old, new), Relation(e), Renamed(To(e), old, new)>>

\* A renamed edge replaces the one that has its key.
RenamedEdges(edges, old, new) ==
    LET moved == {e \in DOMAIN edges : Touches(e, old)}
        keys == {RenamedEdge(e, old, new) : e \in moved}
    IN  [k \in keys \union (DOMAIN edges \ moved) |->
            IF k \in keys THEN edges[CHOOSE e \in moved : RenamedEdge(e, old, new) = k] ELSE edges[k]]

RenameID(s, old, new) ==
    IF ~Has(s, old) THEN Fail(s, "error")
    ELSE Ok([s EXCEPT
               !.rows = Without(Set(@, new, s.rows[old]), {old}),
               !.aliases = Set([a \in DOMAIN @ |-> Renamed(@[a], old, new)], old, new),
               !.edges = RenamedEdges(@, old, new)])

------------------------------------------------------------------------------
(* Listing.                                                                *)

\* labelCheck.
Carries(art, label) == label \in Range(art.labels)

\* Filter.Matches: the time bounds and ScopePrefix are not looked at.
Matches(f, id, art) ==
    /\ f.kind # NoValue => IsStrictPrefix(f.kind, Kind(art))
    /\ f.ids # {} => id \in f.ids
    /\ f.scopesOr # {} => Scope(art) \in f.scopesOr
    /\ \A l \in f.labels : Carries(art, l)
    /\ f.labelsOr # {} => \E l \in f.labelsOr : Carries(art, l)
    /\ \A l \in f.exclude : ~Carries(art, l)

Matching(s, f) == {id \in DOMAIN s.rows : Matches(f, id, s.rows[id])}

List(s, f) == SortedBy(Matching(s, f), <)

EarlierInserted(s, i, j) ==
    \/ s.rows[i].inserted < s.rows[j].inserted
    \/ s.rows[i].inserted = s.rows[j].inserted /\ i < j

\* (mutant) the artifact of the cursor is on the next page again
AfterCursorAgain(s, sorted, cursor) ==
    LET Behind(id) == LET ts == Text(s.rows[id].inserted)
                      IN  ts < cursor.ts \/ (ts = cursor.ts /\ id < cursor.id)
        cut == SelectInSeq(sorted, LAMBDA id : ~Behind(id))
    IN  IF cut = 0 THEN <<>> ELSE SubSeq(sorted, cut, Len(sorted))

\* Sorted by time, but cut where the text of the time passes the cursor's.
AfterCursor(s, sorted, cursor) ==
    LET Behind(id) == LET ts == Text(s.rows[id].inserted)
                      IN  ts < cursor.ts \/ (ts = cursor.ts /\ id <= cursor.id)
        cut == SelectInSeq(sorted, LAMBDA id : ~Behind(id))
    IN  IF cut = 0 THEN <<>> ELSE SubSeq(sorted, cut, Len(sorted))

\* encodeCursor of the last artifact of a page, when there are more.
CursorAfter(s, ids, limit) ==
    IF Len(ids) <= limit THEN NoCursor
    ELSE [ts |-> Text(s.rows[ids[limit]].inserted), id |-> ids[limit]]

ListPage(s, f, cursor, limit) ==
    LET all == SortedBy(Matching(s, f), LAMBDA i, j : EarlierInserted(s, i, j))
        rest == IF cursor = NoCursor THEN all ELSE AfterCursor(s, all, cursor)
    IN  [ids |-> IF Len(rest) <= limit THEN rest ELSE SubSeq(rest, 1, limit),
         next |-> CursorAfter(s, rest, limit),
         total |-> Len(all)]

------------------------------------------------------------------------------
(* Edges.                                                                  *)

AddEdge(s, e, attrs) == Ok([s EXCEPT !.edges = Set(@, e, attrs)])

BulkAddEdge(s, batch) ==
    Ok(FoldLeft(LAMBDA acc, b : AddEdge(acc, b.edge, b.attrs).store, s, batch))

RemoveEdge(s, e) == Ok([s EXCEPT !.edges = Without(@, {e})])

AddEdgeSource(s, e, source) ==
    IF e \notin DOMAIN s.edges
    THEN Ok([s EXCEPT !.edges = Set(@, e, [weight |-> 0, sources |-> <<source>>])])
    ELSE IF Contains(s.edges[e].sources, source) THEN Ok(s)
    ELSE Ok([s EXCEPT !.edges[e].sources = Append(@, source)])

RemoveEdgeSource(s, e, source) ==
    IF e \notin DOMAIN s.edges THEN Ok(s)
    ELSE LET filtered == SourcesBut(s.edges[e].sources, source)
         IN  IF filtered = <<>> THEN Ok([s EXCEPT !.edges = Without(@, {e})])
             ELSE Ok([s EXCEPT !.edges[e].sources = filtered])

UpdateEdgeWeight(s, e, weight) ==
    IF e \notin DOMAIN s.edges THEN Fail(s, "no such edge")
    ELSE Ok([s EXCEPT !.edges[e].weight = weight])

Incident(e, id, dir) ==
    \/ dir \in {"outgoing", "both"} /\ From(e) = id
    \/ dir \in {"incoming", "both"} /\ To(e) = id

Neighbors(s, id, relations, dir) ==
    Restrict(s.edges, {e \in DOMAIN s.edges : Related(e, relations) /\ Incident(e, id, dir)})

Children(s, id) == {To(e) : e \in DOMAIN Neighbors(s, id, {"parent_of"}, "outgoing")} \intersect DOMAIN s.rows

\* neighborArtifacts: e.To even for an edge that comes in, when dir is Both.
NeighborArtifacts(s, id, relations, dir) ==
    {FarEnd(e, dir) : e \in DOMAIN Neighbors(s, id, relations, dir)} \intersect DOMAIN s.rows

ListEdges(s, ids, relations) ==
    Restrict(s.edges, {e \in DOMAIN s.edges :
                         Related(e, relations) /\ {From(e), To(e)} \subseteq ids})

ListEdgesFrom(s, ids, relations) ==
    Restrict(s.edges, {e \in DOMAIN s.edges : Related(e, relations) /\ From(e) \in ids})

OtherEnd(e, id) == IF From(e) = id THEN To(e) ELSE From(e)

\* The artifacts a walk without a depth limit calls back with: each once.
Walk(s, root, relations, dir) ==
    LET nodes == UNION {{From(e), To(e)} : e \in DOMAIN s.edges}
    IN  Reachable([n \in nodes |-> {OtherEnd(e, n) : e \in DOMAIN Neighbors(s, n, relations, dir)}], root)

\* The edges between two artifacts of different groups, counted by the groups;
\* group: [stored artifact -> group].
Weights(s, relations, group) ==
    LET Ends(e) == <<Lookup(group, From(e), NoValue), Lookup(group, To(e), NoValue)>>
    IN  Tally({e \in DOMAIN s.edges :
                 /\ Related(e, relations)
                 /\ NoValue \notin Range(Ends(e))
                 /\ Ends(e)[1] # Ends(e)[2]}, Ends)

ScopeOf(s) == [id \in DOMAIN s.rows |-> Scope(s.rows[id])]

KindOf(s) == [id \in DOMAIN s.rows |-> Kind(s.rows[id])]

ScopeGraph(s) ==
    LET scoped == {id \in DOMAIN s.rows : Scope(s.rows[id]) \notin {NoValue, SchemaScope}}
    IN  [counts |-> Tally(scoped, LAMBDA id : ScopeOf(s)[id]),
         weights |-> Weights(s, AnyRelation, ScopeOf(s))]

\* All of the status labels; the edges of every scope.
KindGraph(s, scope, statuses, relations) ==
    LET counted == {id \in DOMAIN s.rows :
                      /\ ScopeOf(s)[id] = scope
                      /\ statuses \subseteq Range(s.rows[id].labels)
                      /\ KindOf(s)[id] # NoValue}
    IN  [counts |-> Tally(counted, LAMBDA id : KindOf(s)[id]),
         weights |-> Weights(s, relations, KindOf(s))]

------------------------------------------------------------------------------
(* Scope labels, attachments, metrics, events, embeddings.                 *)

SetScopeLabels(s, scope, labels) == Ok([s EXCEPT !.scopes = Set(@, scope, labels)])

GetScopeLabels(s, scope) == Lookup(s.scopes, scope, <<>>)

ScopesByLabel(s, label) == {sc \in DOMAIN s.scopes : Contains(s.scopes[sc], label)}

ListScopeInfo(s) == s.scopes

PutAttachment(s, id, name, data) == Ok([s EXCEPT !.blobs = Set(@, <<id, name>>, data)])

GetAttachments(s, id) == Restrict(s.blobs, {b \in DOMAIN s.blobs : b[1] = id})

DeleteAttachment(s, id, name) == Ok([s EXCEPT !.blobs = Without(@, {<<id, name>>})])

NoMetrics == [count |-> 0, last |-> Never]

RecordAccess(s, id, now) ==
    Ok([s EXCEPT !.metrics =
          Set(@, id, [count |-> Lookup(@, id, NoMetrics).count + 1, last |-> now])])

GetMetrics(s, id) == Lookup(s.metrics, id, NoMetrics)

AppendEvent(s, ev, now) ==
    Ok([s EXCEPT !.events = Append(@, [ev EXCEPT !.ts = Stamp(@, now)])])

\* (mutant) the types asked for are not looked at
MatchesAbout(ev, f) == f.about # {} => ev.about \in f.about

EventMatches(ev, f) ==
    /\ f.about # {} => ev.about \in f.about
    /\ f.types # {} => ev.type \in f.types

\* The ids of the events, which are their places in the log.
GetEvents(s, since, f) ==
    SortedBy({i \in DOMAIN s.events : s.events[i].ts >= since /\ EventMatches(s.events[i], f)}, <)

PutEmbedding(s, id, model, hash, vec) ==
    Ok([s EXCEPT !.vectors = Set(@, <<<<id>>, model>>, vec),
                 !.hashes = Set(@, <<<<id>>, model>>, hash)])

GetEmbeddingHash(s, id, model) == At(s.hashes, <<<<id>>, model>>)

GetEmbedding(s, id, model) == Found(At(s.vectors, <<<<id>>, model>>), "error")

\* The section is part of the key: "id/section".
PutSectionEmbedding(s, id, section, model, vec) ==
    Ok([s EXCEPT !.vectors = Set(@, <<<<id, section>>, model>>, vec)])

\* score: [vector -> how near it is to what is asked for].
Scores(s, model, score) ==
    {[id |-> k[1], score |-> score[s.vectors[k]]] : k \in {v \in DOMAIN s.vectors : v[2] = model}}

SearchSemantic(s, model, score, n) == Best(Scores(s, model, score), n)

SearchSectionSemantic(s, model, score, n) ==
    LET sections == {r \in Scores(s, model, score) : Len(r.id) = 2}
    IN  Best(BestSections({[r EXCEPT !.id = Head(r.id)] : r \in sections}), n)

===============================================================================
