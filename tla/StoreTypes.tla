------------------------------ MODULE StoreTypes -------------------------------
(***************************************************************************)
(* What the two implementations of Store share: artifacts and their        *)
(* labels, edges, filters, and the shape of an answer.                     *)
(*                                                                         *)
(* A label is a pair of a namespace and a value, and a value the sequence  *)
(* of its parts, whatever separates them: <<"kind", <<"effort", "task">>>> *)
(* is kind:effort.task.  A time is a number of ticks, Never the zero time. *)
(***************************************************************************)
EXTENDS Naturals, Sequences, SequencesExt

Never == 0

\* The text of an artifact without sections.
NoText == "none"

NoValue == <<>>

\* Sections, goal and title are one text; annotations are the notes.
Artifact(labels, text) ==
    [labels |-> labels, text |-> text, notes |-> <<>>,
     created |-> Never, updated |-> Never, inserted |-> Never]

\* artifactContentEqual, and the columns the update trigger compares.
Content(art) == <<art.labels, art.text, art.notes>>

\* labelValue: the first label of the namespace decides.
LabelValue(labels, ns) ==
    LET i == SelectInSeq(labels, LAMBDA l : l[1] = ns)
    IN  IF i = 0 THEN NoValue ELSE labels[i][2]

Kind(art) == LabelValue(art.labels, "kind")

Scope(art) == LabelValue(art.labels, "project")

SchemaScope == <<"_schema">>

\* IsZero() ? now : the caller's.
Stamp(t, now) == IF t = Never THEN now ELSE t

\* What an update writes over a row: Content and updated_at.
Patched(art, patch, now) ==
    [art EXCEPT !.notes = @ \o patch.notes,
                !.text = IF patch.text = NoText THEN @ ELSE patch.text,
                !.updated = now]

------------------------------------------------------------------------------
(* Partial functions.                                                      *)

NoMap == [x \in {} |-> {}]

Lookup(f, x, default) == IF x \in DOMAIN f THEN f[x] ELSE default

Without(f, S) == Restrict(f, DOMAIN f \ S)

Set(f, x, y) == [z \in DOMAIN f \union {x} |-> IF z = x THEN y ELSE f[z]]

\* The elements of S in the order Before: the i-th has i - 1 before it.
SortedBy(S, Before(_, _)) ==
    [i \in 1..Cardinality(S) |-> CHOOSE x \in S : Cardinality({y \in S : Before(y, x)}) = i - 1]

Tally(S, Key(_)) ==
    [k \in {Key(x) : x \in S} |-> Cardinality({x \in S : Key(x) = k})]

------------------------------------------------------------------------------
(* Edges: a function from <<from, relation, to>>.                          *)

From(e) == e[1]
Relation(e) == e[2]
To(e) == e[3]

AnyRelation == {}

Related(e, relations) == relations = AnyRelation \/ Relation(e) \in relations

\* e.To, or e.From when walking against the edges.
FarEnd(e, dir) == IF dir = "incoming" THEN From(e) ELSE To(e)

SourcesBut(sources, source) == SelectSeq(sources, LAMBDA x : x # source)

\* What is reached from root in one step or more; next: [node -> nodes].
Reachable(next, root) ==
    LET Step(S) == UNION {Lookup(next, n, {}) : n \in S}
        Reached[n \in Nat] == IF n = 0 THEN Step({root})
                                       ELSE Reached[n - 1] \union Step(Reached[n - 1])
    IN  Reached[Cardinality(DOMAIN next)]

------------------------------------------------------------------------------
(* Filters.  ids stands for IDPrefix: the ids that have it.  from and      *)
(* until map the timestamps a filter bounds to their bounds.               *)

NoFilter == [ids |-> {}, kind |-> NoValue, scopesOr |-> {}, scopePrefix |-> FALSE,
             labels |-> {}, labelsOr |-> {}, exclude |-> {},
             from |-> NoMap, until |-> NoMap]

------------------------------------------------------------------------------
(* Time as text: RFC3339Nano drops trailing zeros, so a whole second has   *)
(* no fraction and its "Z" sorts after the "." of the half second that     *)
(* follows.  Even ticks are whole seconds.                                 *)

TextRank(t) == IF t % 2 = 0 THEN t + 1 ELSE t - 1

\* What encodeCursor packs; NoCursor asks for the first page, and is the last one's.
NoCursor == [ts |-> Never, id |-> 0]

------------------------------------------------------------------------------
(* Answers: the store a call leaves and what it returns.                   *)

Ok(s) == [store |-> s, res |-> <<"ok">>]

Count(s, n) == [store |-> s, res |-> <<"ok", n>>]

\* A failed call leaves the store as it was.
Fail(s, err) == [store |-> s, res |-> <<err>>]

Failed(res) == res[1] # "ok"

\* What a lookup finds, at most one, and its error when it finds nothing.
Found(found, err) == [found |-> found, res |-> IF found = {} THEN <<err>> ELSE <<"ok">>]

At(f, x) == {f[y] : y \in {x} \intersect DOMAIN f}

\* The best n by score, with all that tie for the last place.
Best(S, n) == {r \in S : Cardinality({q \in S : q.score > r.score}) < n}

\* The best section of an artifact stands for it.
BestSections(S) == {r \in S : \A q \in S : q.id = r.id => q.score <= r.score}

===============================================================================
