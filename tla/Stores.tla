-------------------------------- MODULE Stores ---------------------------------
(***************************************************************************)
(* The two implementations of Store, called side by side: a client makes   *)
(* the same calls of MemoryStore and of SQLiteStore, one after the other,  *)
(* and what they answer is compared.  The reads of every method are        *)
(* compared in each state; a reader that pages through the artifacts, a    *)
(* poller of the event log and the import of a capsule take steps of their *)
(* own between the calls.                                                  *)
(*                                                                         *)
(* Avoided names the calls, and the answers, on which the implementations  *)
(* are known to differ and which the client keeps away from.               *)
(***************************************************************************)
EXTENDS StoreTypes

CONSTANTS
    Ids,        \* artifact ids, and aliases: names are one space
    Drafts,     \* a sequence of the artifacts a client puts, without times
    Relations,
    Sources,    \* who declares an edge
    Filters,
    ScopeLabels, \* the label lists a scope is given
    Profiles,   \* for each set of methods a client calls, how many calls it makes (a bound)
    Seeds,      \* how many artifacts there are at first
    PageLimit,  \* Filter.Limit of the reader
    PruneTo,    \* the keepN PruneRevisions is called with
    Keep,
    VecTable,
    Avoided

ASSUME StoresAssumption ==
    /\ Ids \subseteq Nat \ {0}
    /\ \A n \in Seeds : n \in Nat /\ 1..n \subseteq Ids
    /\ Drafts \in Seq(Range(Drafts)) /\ Drafts # <<>>
    /\ \A d \in Range(Drafts) : d = Artifact(d.labels, d.text)
    /\ {PageLimit, Keep} \union Range(Profiles) \subseteq Nat \ {0}
    /\ PruneTo \subseteq Nat

VARIABLES
    mem, sql,   \* the two stores
    last,       \* what they answered last
    calls,      \* calls made so far
    clock,      \* the latest time stamped
    profile,    \* the methods the client calls
    reader,     \* one that pages through all artifacts, in each store
    poller,     \* one that polls the event log, of each store
    import      \* the capsule exported, and how far its import is

vars == <<mem, sql, last, calls, clock, profile, reader, poller, import>>

Meets(difference) == difference \notin Avoided

Text(t) == IF Meets("text order") THEN TextRank(t) ELSE t

M == INSTANCE MemStore
S == INSTANCE SqlStore

------------------------------------------------------------------------------
(* One call of both.                                                       *)

\* Put and AppendEvent take their stamp before they wait for the writer.
Stamps == {clock + 1} \union {t \in {clock - 1} : Meets("late stamps") /\ clock > 3}

Importing == import.stage = "running"

Written == import.stage \in {"running", "done"}

\* An artifact put while the reader reads may be read again.
Meanwhile(r, ids, rows) == [r EXCEPT !.born = @ \union (ids \ DOMAIN rows)]

\* ids, edges: what the call writes.  An import begun before does not answer for them.
Call(op, m, q, ids, edges) ==
    /\ op \in profile
    /\ calls < Profiles[profile]
    /\ calls' = calls + 1
    /\ mem' = m.store
    /\ sql' = q.store
    /\ last' = [mem |-> m.res, sql |-> q.res]
    /\ import' = IF Written THEN [import EXCEPT !.ids = @ \union ids, !.edges = @ \union edges]
                              ELSE import
    /\ reader' = [mem |-> Meanwhile(reader.mem, ids, mem.rows),
                  sql |-> Meanwhile(reader.sql, ids, sql.rows)]
    /\ UNCHANGED <<profile, poller>>

Tick(now) == clock' = IF now > clock THEN now ELSE clock

------------------------------------------------------------------------------
(* Artifacts.                                                              *)

Stored(id) == id \in DOMAIN mem.rows \union DOMAIN sql.rows

InBoth(id) == id \in DOMAIN mem.rows \intersect DOMAIN sql.rows

EdgesAt(id) == M!EdgesOf(mem, id) \union S!EdgesOf(sql, id)

Put(id, d) ==
    /\ ~Stored(id) \/ Meets("put over")
    /\ \E now \in Stamps :
         /\ Call("put", M!Put(mem, id, d, now), S!Put(sql, id, d, now), {id}, {})
         /\ Tick(now)

BulkPut(i, j, d) ==
    /\ i # j
    /\ ~(Stored(i) \/ Stored(j)) \/ Meets("put over")
    /\ LET batch == <<[id |-> i, art |-> d], [id |-> j, art |-> d]>>
           now == clock + 1
       IN  Call("bulk", M!BulkPut(mem, batch, now), S!BulkPut(sql, batch, now), {i, j}, {})
           /\ Tick(now)

\* One change to an artifact: other labels, a note more, or another text.
Edits ==
    LET NoEdit == [labels |-> NoValue, notes |-> <<>>, text |-> NoText]
    IN  {[NoEdit EXCEPT !.labels = d.labels] : d \in Range(Drafts)}
        \union {[NoEdit EXCEPT !.notes = <<"note">>], [NoEdit EXCEPT !.text = "other"]}

Edited(art, e) ==
    [Patched(art, e, art.updated) EXCEPT !.labels = IF e.labels = NoValue THEN @ ELSE e.labels]

ReplacesText(id, e) == NoText \notin {e.text, mem.rows[id].text}

\* Get, change the copy, Put.
EditPut(id, e) ==
    /\ InBoth(id)
    /\ ~ReplacesText(id, e) \/ Meets("shared sections")
    /\ LET now == clock + 1
       IN  /\ Call("edit",
                   M!Put(M!EditCopy(mem, id, e.text), id, Edited(mem.rows[id], e), now),
                   S!Put(sql, id, Edited(sql.rows[id], e), now), {id}, {})
           /\ Tick(now)

\* Get, change the copy, PutIfVersion with its version or an older one.
PutIfVersion(id, e, current) ==
    /\ e.text = NoText
    /\ LET now == clock + 1
           Copy(s) == Lookup(s.rows, id, Drafts[1])
           Version(s) == IF current THEN Copy(s).updated ELSE Never
       IN  /\ Call("version",
                   M!PutIfVersion(mem, id, Edited(Copy(mem), e), Version(mem), now),
                   S!PutIfVersion(sql, id, Edited(Copy(sql), e), Version(sql), now), {id}, {})
           /\ Tick(now)

PatchArtifact(id, e) ==
    /\ S!EmptyPatch(e) => Meets("empty patch")
    /\ Stored(id) /\ ReplacesText(id, e) => Meets("shared sections")
    /\ LET now == clock + 1
       IN  /\ Call("patch", M!PatchArtifact(mem, id, e, now), S!PatchArtifact(sql, id, e, now),
                   {id}, {})
           /\ Tick(now)

Delete(id) ==
    /\ Call("delete", M!Delete(mem, id), S!Delete(sql, id), {id}, EdgesAt(id))
    /\ UNCHANGED clock

\* The new id is no artifact's, has no label row a Delete left and no edge, and
\* the old one is no artifact's alias.
RenameID(old, new) ==
    /\ (old # new /\ ~Stored(new)) \/ Meets("rename over")
    /\ Stored(new) \/ S!RowsFor(sql, new) = {} \/ Meets("rename labels")
    /\ Stored(new) \/ M!EdgesOf(mem, new) = {} \/ Meets("rename edges")
    /\ old \notin DOMAIN mem.aliases \/ Meets("rename alias")
    /\ Call("rename", M!RenameID(mem, old, new), S!RenameID(sql, old, new),
            {old, new}, EdgesAt(old))
    /\ UNCHANGED clock

AddAlias(id, alias) ==
    /\ alias \notin M!ListAliases(mem, id) \/ Meets("alias again")
    /\ Call("alias", M!AddAlias(mem, id, alias), S!AddAlias(sql, id, alias), {}, {})
    /\ UNCHANGED clock

RemoveAlias(id, alias) ==
    /\ Call("alias", M!RemoveAlias(mem, id, alias), S!RemoveAlias(sql, id, alias), {}, {})
    /\ UNCHANGED clock

PruneRevisions(id, n) ==
    /\ Call("prune", M!PruneRevisions(mem, id, n), S!PruneRevisions(sql, id, n), {}, {})
    /\ UNCHANGED clock

PurgeRevisions(id) ==
    /\ Call("prune", M!PurgeRevisions(mem, id), S!PurgeRevisions(sql, id), {}, {})
    /\ UNCHANGED clock

------------------------------------------------------------------------------
(* Edges.                                                                  *)

Edges == {e \in Ids \X Relations \X Ids : From(e) # To(e)}

Attrs(sources) == [weight |-> 0, sources |-> sources]

Declarations == {<<s>> : s \in Sources} \union {src \in {<<>>} : Meets("edge without sources")}

NewEdge(e) == e \notin DOMAIN mem.edges \/ Meets("edge over")

AddEdge(e, sources) ==
    /\ NewEdge(e)
    /\ Call("edge", M!AddEdge(mem, e, Attrs(sources)), S!AddEdge(sql, e, Attrs(sources)), {}, {e})
    /\ UNCHANGED clock

BulkAddEdge(e, g, sources) ==
    /\ e # g
    /\ NewEdge(e) /\ NewEdge(g)
    /\ LET batch == <<[edge |-> e, attrs |-> Attrs(sources)], [edge |-> g, attrs |-> Attrs(sources)]>>
       IN  Call("bulkedge", M!BulkAddEdge(mem, batch), S!BulkAddEdge(sql, batch), {}, {e, g})
    /\ UNCHANGED clock

RemoveEdge(e) ==
    /\ Call("edge", M!RemoveEdge(mem, e), S!RemoveEdge(sql, e), {}, {e})
    /\ UNCHANGED clock

AddEdgeSource(e, source) ==
    /\ Call("source", M!AddEdgeSource(mem, e, source), S!AddEdgeSource(sql, e, source), {}, {e})
    /\ UNCHANGED clock

RemoveEdgeSource(e, source) ==
    /\ Call("source", M!RemoveEdgeSource(mem, e, source), S!RemoveEdgeSource(sql, e, source), {}, {e})
    /\ UNCHANGED clock

UpdateEdgeWeight(e) ==
    /\ Call("source", M!UpdateEdgeWeight(mem, e, 1), S!UpdateEdgeWeight(sql, e, 1), {}, {e})
    /\ UNCHANGED clock

------------------------------------------------------------------------------
(* Scope labels, attachments, metrics, embeddings.                         *)

Models == DOMAIN VecTable

SetScopeLabels(labels) ==
    /\ Call("satellite", M!SetScopeLabels(mem, "scope", labels),
            S!SetScopeLabels(sql, "scope", labels), {}, {})
    /\ UNCHANGED clock

PutAttachment(id, data) ==
    /\ Call("satellite", M!PutAttachment(mem, id, "name", data),
            S!PutAttachment(sql, id, "name", data), {}, {})
    /\ UNCHANGED clock

DeleteAttachment(id) ==
    /\ Call("satellite", M!DeleteAttachment(mem, id, "name"),
            S!DeleteAttachment(sql, id, "name"), {}, {})
    /\ UNCHANGED clock

RecordAccess(id) ==
    LET now == clock + 1
    IN  /\ Call("satellite", M!RecordAccess(mem, id, now), S!RecordAccess(sql, id, now), {}, {})
        /\ Tick(now)

PutEmbedding(id, model, v) ==
    /\ Call("embed", M!PutEmbedding(mem, id, model, "hash", v),
            S!PutEmbedding(sql, id, model, "hash", v), {}, {})
    /\ UNCHANGED clock

PutSectionEmbedding(id, model, v) ==
    /\ Call("embed", M!PutSectionEmbedding(mem, id, "goal", model, v),
            S!PutSectionEmbedding(sql, id, "goal", model, v), {}, {})
    /\ UNCHANGED clock

------------------------------------------------------------------------------
(* A reader: ListPage after ListPage, with the cursor of the page before.  *)

ReadPage(r, page, rows) ==
    IF r.done THEN r
    ELSE [cursor |-> page.next, seen |-> r.seen \o page.ids, stored |-> rows,
          born |-> IF r.seen = <<>> THEN {} ELSE r.born, done |-> page.next = NoCursor]

Pages ==
    /\ "page" \in profile
    /\ ~(reader.mem.done /\ reader.sql.done)
    /\ LET m == M!ListPage(mem, NoFilter, reader.mem.cursor, PageLimit)
           q == S!ListPage(sql, NoFilter, reader.sql.cursor, PageLimit)
       IN  reader' = [mem |-> ReadPage(reader.mem, m, DOMAIN mem.rows),
                      sql |-> ReadPage(reader.sql, q, DOMAIN sql.rows)]
    /\ UNCHANGED <<mem, sql, last, calls, clock, profile, poller, import>>

------------------------------------------------------------------------------
(* The event log and a poller, which asks for what is not before the last  *)
(* event it was given.                                                     *)

AllEvents == [about |-> {}, types |-> {}]

\* Two events may carry the same time.
AppendEvent(id, type) ==
    \E now \in Stamps \union {clock} :
        /\ LET ev == [about |-> id, type |-> type, ts |-> Never]
           IN  Call("event", M!AppendEvent(mem, ev, now), S!AppendEvent(sql, ev, now), {}, {})
        /\ Tick(now)

Polled(p, s, ids) ==
    [since |-> IF ids = <<>> THEN p.since ELSE s.events[Last(ids)].ts,
     seen |-> p.seen \union Range(ids), asked |-> DOMAIN s.events]

Poll ==
    /\ "poll" \in profile
    /\ poller.mem.asked # DOMAIN mem.events
    /\ poller' = [mem |-> Polled(poller.mem, mem, M!GetEvents(mem, poller.mem.since, AllEvents)),
                  sql |-> Polled(poller.sql, sql, S!GetEvents(sql, poller.sql.since, AllEvents))]
    /\ UNCHANGED <<mem, sql, last, calls, clock, profile, reader, import>>

------------------------------------------------------------------------------
(* Capsules: all artifacts and the edges that leave them, put back one by  *)
(* one while other calls go on.                                            *)

Capsule(s) ==
    [rows |-> s.rows, edges |-> Restrict(s.edges, {e \in DOMAIN s.edges : From(e) \in DOMAIN s.rows})]

CapsuleExport ==
    /\ "capsule" \in profile
    /\ import.stage = "none"
    /\ import' = [import EXCEPT !.stage = "exported", !.mem = Capsule(mem), !.sql = Capsule(sql)]
    /\ UNCHANGED <<mem, sql, last, calls, clock, profile, reader, poller>>

StageAfter(stage, rows, edges) == IF rows = {} /\ edges = {} THEN "done" ELSE stage

CapsuleImport ==
    /\ import.stage = "exported"
    /\ LET rows == DOMAIN import.mem.rows \union DOMAIN import.sql.rows
           edges == DOMAIN import.mem.edges \union DOMAIN import.sql.edges
       IN  import' = [import EXCEPT !.stage = StageAfter("running", rows, edges),
                                    !.todoRows = rows, !.todoEdges = edges]
    /\ UNCHANGED <<mem, sql, last, calls, clock, profile, reader, poller>>

\* (mutant) an artifact that is stored is skipped
ImportedIfAbsent(id, now) ==
    IF Stored(id) THEN mem' = mem /\ sql' = sql
    ELSE /\ mem' = M!Put(mem, id, import.mem.rows[id], now).store
         /\ sql' = S!Put(sql, id, import.sql.rows[id], now).store

Imported(id, now) ==
    /\ mem' = IF id \in DOMAIN import.mem.rows
              THEN M!Put(mem, id, import.mem.rows[id], now).store ELSE mem
    /\ sql' = IF id \in DOMAIN import.sql.rows
              THEN S!Put(sql, id, import.sql.rows[id], now).store ELSE sql

ImportArtifact ==
    /\ Importing
    /\ import.todoRows # {}
    /\ LET id == Min(import.todoRows)
           rest == import.todoRows \ {id}
           now == clock + 1
       IN  /\ Imported(id, now)
           /\ Tick(now)
           /\ import' = [import EXCEPT !.todoRows = rest, !.ids = @ \ {id},
                                       !.stage = StageAfter(@, rest, import.todoEdges)]
    /\ UNCHANGED <<last, calls, profile, reader, poller>>

\* An edge that cannot be added is passed over.
ImportEdge(e) ==
    /\ Importing
    /\ import.todoRows = {}
    /\ e \in import.todoEdges
    /\ mem' = IF e \in DOMAIN import.mem.edges
              THEN M!AddEdge(mem, e, import.mem.edges[e]).store ELSE mem
    /\ sql' = IF e \in DOMAIN import.sql.edges
              THEN S!AddEdge(sql, e, import.sql.edges[e]).store ELSE sql
    /\ import' = [import EXCEPT !.todoEdges = @ \ {e}, !.edges = @ \ {e},
                                !.stage = StageAfter(@, {}, import.todoEdges \ {e})]
    /\ UNCHANGED <<last, calls, clock, profile, reader, poller>>

\* A line that cannot be decoded, or a Put that fails: what was put stays.
ImportStops ==
    /\ Importing
    /\ import.todoRows # {}
    /\ import' = [import EXCEPT !.stage = "stopped"]
    /\ UNCHANGED <<mem, sql, last, calls, clock, profile, reader, poller>>

------------------------------------------------------------------------------
(* The specification.                                                      *)

\* n artifacts are stored when the client starts, each put a tick after the last.
Seeded(n) ==
    [i \in 1..n |-> [Drafts[(i % Len(Drafts)) + 1] EXCEPT
                       !.created = i + 1, !.updated = i + 1, !.inserted = i + 1]]

SeededLabels(n) == UNION {S!LabelRows(i, Seeded(n)[i].labels) : i \in 1..n}

Unread == [cursor |-> NoCursor, seen |-> <<>>, stored |-> {}, born |-> {}, done |-> FALSE]

Unpolled == [since |-> Never, seen |-> {}, asked |-> {}]

NoCapsule == [rows |-> NoMap, edges |-> NoMap]

Init ==
    \E n \in Seeds, p \in DOMAIN Profiles :
        /\ mem = [M!Empty EXCEPT !.rows = Seeded(n)]
        /\ sql = [S!Empty EXCEPT !.rows = Seeded(n), !.labels = SeededLabels(n)]
        /\ last = [mem |-> <<"ok">>, sql |-> <<"ok">>]
        /\ calls = 0
        /\ clock = n + 1
        /\ profile = p
        /\ reader = [mem |-> Unread, sql |-> Unread]
        /\ poller = [mem |-> Unpolled, sql |-> Unpolled]
        /\ import = [stage |-> "none", mem |-> NoCapsule, sql |-> NoCapsule,
                     todoRows |-> {}, todoEdges |-> {}, ids |-> {}, edges |-> {}]

Next ==
    \/ \E id \in Ids, d \in Range(Drafts) : Put(id, d)
    \/ \E i, j \in Ids, d \in Range(Drafts) : BulkPut(i, j, d)
    \/ \E id \in Ids, e \in Edits : EditPut(id, e)
    \/ \E id \in Ids, e \in Edits, current \in BOOLEAN : PutIfVersion(id, e, current)
    \/ \E id \in Ids, e \in Edits : PatchArtifact(id, e)
    \/ \E id \in Ids : Delete(id)
    \/ \E old, new \in Ids : RenameID(old, new)
    \/ \E id, alias \in Ids : AddAlias(id, alias)
    \/ \E id, alias \in Ids : RemoveAlias(id, alias)
    \/ \E id \in Ids, n \in PruneTo : PruneRevisions(id, n)
    \/ \E id \in Ids : PurgeRevisions(id)
    \/ \E e \in Edges, sources \in Declarations : AddEdge(e, sources)
    \/ \E e, g \in Edges, sources \in Declarations : BulkAddEdge(e, g, sources)
    \/ \E e \in Edges : RemoveEdge(e)
    \/ \E e \in Edges, source \in Sources : AddEdgeSource(e, source)
    \/ \E e \in Edges, source \in Sources : RemoveEdgeSource(e, source)
    \/ \E e \in Edges : UpdateEdgeWeight(e)
    \/ \E labels \in ScopeLabels : SetScopeLabels(labels)
    \/ \E id \in Ids, data \in {"one", "two"} : PutAttachment(id, data)
    \/ \E id \in Ids : DeleteAttachment(id)
    \/ \E id \in Ids : RecordAccess(id)
    \/ \E id \in Ids, model \in Models, v \in 1..2 : PutEmbedding(id, model, v)
    \/ \E id \in Ids, model \in Models, v \in 1..2 : PutSectionEmbedding(id, model, v)
    \/ Pages
    \/ \E id \in Ids, type \in {"created", "updated"} : AppendEvent(id, type)
    \/ Poll
    \/ CapsuleExport
    \/ CapsuleImport
    \/ ImportArtifact
    \/ \E e \in Edges : ImportEdge(e)
    \/ ImportStops

Spec == Init /\ [][Next]_vars

------------------------------------------------------------------------------
(* Properties.                                                             *)

SameAnswer(m, q) == m = q \/ (Failed(m) /\ Failed(q) /\ ~Meets("error kinds"))

SameFound(m, q) == m.found = q.found /\ SameAnswer(m.res, q.res)

\* An import over no artifact keeps the times of the capsule in memory only.
SeenAs(art) == IF "capsule" \in profile /\ ~Meets("import times") THEN Content(art) ELSE art

Seen(r) == [r EXCEPT !.found = {SeenAs(art) : art \in @}]

SameArtifacts ==
    \A id \in Ids :
        /\ SameFound(Seen(M!Get(mem, id)), Seen(S!Get(sql, id)))
        /\ SameFound(Seen(M!GetByAlias(mem, id)), Seen(S!GetByAlias(sql, id)))
        /\ M!ListAliases(mem, id) = S!ListAliases(sql, id)
        /\ M!ListRevisions(mem, id) = S!ListRevisions(sql, id)
        /\ \A rev \in 1..Profiles[profile] : SameFound(M!GetRevision(mem, id, rev), S!GetRevision(sql, id, rev))

SameLists == \A f \in Filters : M!List(mem, f) = S!List(sql, f)

\* Children asks for parent_of.
RelationSets == {AnyRelation} \union {{r} : r \in Relations \ {"parent_of"}}

Statuses == {{l \in Range(d.labels) : l[1] = "status"} : d \in Range(Drafts)}

SameGraph ==
    /\ \A id \in Ids, rel \in RelationSets, dir \in {"outgoing", "incoming", "both"} :
          /\ M!Neighbors(mem, id, rel, dir) = S!Neighbors(sql, id, rel, dir)
          /\ M!NeighborArtifacts(mem, id, rel, dir) = S!NeighborArtifacts(sql, id, rel, dir)
          /\ \/ dir = "both" /\ ~Meets("walk both")
             \/ M!Walk(mem, id, rel, dir) = S!Walk(sql, id, rel, dir)
    /\ \A id \in Ids : M!Children(mem, id) = S!Children(sql, id)
    /\ \A ids \in {{i, j} : i, j \in Ids}, rel \in RelationSets :
          /\ M!ListEdges(mem, ids, rel) = S!ListEdges(sql, ids, rel)
          /\ M!ListEdgesFrom(mem, ids, rel) = S!ListEdgesFrom(sql, ids, rel)
    /\ M!ScopeGraph(mem) = S!ScopeGraph(sql)
    /\ \A sc \in {Scope(d) : d \in Range(Drafts)}, st \in Statuses, rel \in RelationSets :
          LET m == M!KindGraph(mem, sc, st, rel)
              q == S!KindGraph(sql, sc, st, rel)
          IN  m.counts = q.counts /\ (Meets("kind graph") => m.weights = q.weights)

\* The vectors are their own scores.
Nearness == [v \in 1..2 |-> v]

SameSatellites ==
    /\ \A sc \in {"scope", "unset"} :
          LET q == S!GetScopeLabels(sql, sc)
          IN  q.found = {M!GetScopeLabels(mem, sc)} \/ (sc \notin DOMAIN mem.scopes /\ ~Meets("unset scope"))
    /\ M!ListScopeInfo(mem) = S!ListScopeInfo(sql)
    /\ \A l \in UNION {Range(ls) : ls \in ScopeLabels} : M!ScopesByLabel(mem, l) = S!ScopesByLabel(sql, l)
    /\ \A id \in Ids :
          /\ M!GetAttachments(mem, id) = S!GetAttachments(sql, id)
          /\ M!GetMetrics(mem, id) = S!GetMetrics(sql, id)
          /\ \A model \in Models :
                /\ M!GetEmbeddingHash(mem, id, model) = S!GetEmbeddingHash(sql, id, model)
                /\ SameFound(M!GetEmbedding(mem, id, model), S!GetEmbedding(sql, id, model))
    /\ \A model \in Models, n \in 1..2 :
          /\ \/ M!SearchSemantic(mem, model, Nearness, n) = S!SearchSemantic(sql, model, Nearness, n)
             \/ ~Meets("section keys") /\ \E k \in DOMAIN sql.sections : k[2] = model
          /\ M!SearchSectionSemantic(mem, model, Nearness, n) = S!SearchSectionSemantic(sql, model, Nearness, n)

\* The two implementations of Store answer alike, whatever was called before: what
\* contract_test.go, which runs one suite "against any Store implementation", is for.
Alike ==
    /\ SameAnswer(last.mem, last.sql)
    /\ SameArtifacts
    /\ SameLists
    /\ SameGraph
    /\ SameSatellites

EventFilters == {AllEvents} \union [about : {{id} : id \in Ids}, types : {{"created"}}]

\* Both implementations return the same events in the same order, asked from whatever
\* time and for whatever artifact and type (GetEvents: one returns its log as it was
\* appended to, the other sorts by time and then by id).
SameEvents ==
    \A t \in 0..clock, f \in EventFilters : M!GetEvents(mem, t, f) = S!GetEvents(sql, t, f)

\* A reader in the middle of its pages is given the same page by both implementations,
\* with the same cursor (ListPage: one sorts all and cuts, the other asks for what is
\* beyond the cursor), and the first page says the same total.
SamePages ==
    LET m == M!ListPage(mem, NoFilter, reader.mem.cursor, PageLimit)
        q == S!ListPage(sql, NoFilter, reader.sql.cursor, PageLimit)
    IN  "page" \in profile =>
          /\ <<m.ids, m.next>> = <<q.ids, q.next>>
          /\ reader.mem.cursor = NoCursor \/ Meets("total") => m.total = q.total

\* A reader that has followed the cursors to the last page has been given every
\* artifact stored then, and none twice unless it was put anew meanwhile
\* (ListPage: "new artifacts appear on later pages only").
PagesComplete ==
    \A r \in {reader.mem, reader.sql} :
        r.done =>
            /\ r.stored \subseteq Range(r.seen)
            /\ \A i, j \in DOMAIN r.seen : i # j /\ r.seen[i] = r.seen[j] => r.seen[i] \in r.born

\* A poller that asks for the events since the last one it was given has been given
\* every event of the log it asked (GetEvents: "stable for cursor-based polling").
PollComplete == \A p \in {poller.mem, poller.sql} : p.asked \subseteq p.seen

\* An import that ends has brought back the content of every artifact and every edge
\* of the capsule that no other call has written since, whatever was done to them
\* between the export and the import.
ImportRestores ==
    import.stage = "done" =>
        \A x \in {[s |-> mem, c |-> import.mem], [s |-> sql, c |-> import.sql]} :
            /\ \A id \in DOMAIN x.c.rows \ import.ids :
                  id \in DOMAIN x.s.rows /\ Content(x.s.rows[id]) = Content(x.c.rows[id])
            /\ DOMAIN x.c.edges \ import.edges \subseteq DOMAIN x.s.edges

\* An import leaves what the capsule holds and nothing else
\* (CapsuleImport: "replaces all artifacts and edges").
ImportReplaces ==
    import.stage = "done" =>
        \A x \in {[s |-> mem, c |-> import.mem], [s |-> sql, c |-> import.sql]} :
            /\ DOMAIN x.s.rows \ import.ids \subseteq DOMAIN x.c.rows
            /\ DOMAIN x.s.edges \ import.edges \subseteq DOMAIN x.c.edges

===============================================================================
