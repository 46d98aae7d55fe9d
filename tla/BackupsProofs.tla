---------------------------- MODULE BackupsProofs ----------------------------
(* Proofs about Backups, for every set of ids, every retention, and every  *)
(* number of writes, ticks and faults.                                     *)
EXTENDS Backups, Integers, FiniteSetTheorems, WellFoundedInduction, TLAPS

------------------------------------------------------------------------------
(* Images.                                                                 *)

Rows == [n : 0 .. MaxCommits, alias : BOOLEAN, stamped : BOOLEAN]

AllColumns == {"inserted_at", "annotations", "sources"} \union LegacyOnly

Catalogs == [version : Nat, columns : SUBSET AllColumns,
             tables : SUBSET {"labels", "ring", "revisions"},
             ring : SUBSET Ids, labelled : SUBSET Ids, triggers : BOOLEAN]

AnyPage == Rows \union Catalogs \union {Blank}

\* Pages of a database, blank where they are not copied yet.
Part(f) ==
    /\ DOMAIN f \subseteq Pages /\ f \in [DOMAIN f -> AnyPage]
    /\ \A i \in DOMAIN f : i \in Ids => f[i] \in Rows \union {Blank}
    /\ Catalog \in DOMAIN f => f[Catalog] \in Catalogs \union {Blank}

Image(f) == Part(f) /\ DOMAIN f = Pages

Whole(f) == Image(f) /\ ~Torn(f)

LEMMA PageKinds ==
    /\ Catalog \notin Ids /\ Catalog \in Pages /\ \A p \in Pages : p \in Ids \/ p = Catalog
    /\ Blank \notin Rows /\ Blank \notin Catalogs
<1>1. Catalog \notin Ids
  BY BackupsAssumption DEF Catalog
<1>2. \A r \in Rows : r # Blank
  BY DEF Rows, Blank
<1>3. \A c \in Catalogs : c # Blank
  BY DEF Catalogs, Blank
<1> QED
  BY <1>1, <1>2, <1>3 DEF Pages

LEMMA WholeIs ==
    ASSUME NEW f, Whole(f)
    PROVE  (\A i \in Ids : f[i] \in Rows) /\ f[Catalog] \in Catalogs
<1>1. \A p \in Pages : f[p] # Blank
  BY DEF Whole, Torn
<1>2. /\ \A i \in Ids : f[i] \in Rows \union {Blank}
      /\ f[Catalog] \in Catalogs \union {Blank}
  BY PageKinds DEF Whole, Image, Part, Pages
<1> QED
  BY <1>1, <1>2 DEF Pages

LEMMA OverPart ==
    ASSUME NEW f, NEW g, Part(f), Part(g)
    PROVE  /\ Part(Over(f, g))
           /\ Image(f) \/ Image(g) => Image(Over(f, g))
<1>1. PICK h : h = Over(f, g)
  OBVIOUS
<1>2. /\ DOMAIN h = DOMAIN f \union DOMAIN g
      /\ \A p \in DOMAIN f : h[p] = f[p]
      /\ \A p \in DOMAIN g : p \notin DOMAIN f => h[p] = g[p]
  BY <1>1 DEF Over
<1>3. \A p \in DOMAIN f \union DOMAIN g : h[p] \in AnyPage
  BY <1>2 DEF Part
<1>4. h \in [DOMAIN h -> AnyPage]
  BY <1>1, <1>2, <1>3 DEF Over
<1>5. Part(h)
  BY <1>2, <1>4 DEF Part
<1> QED
  BY <1>1, <1>2, <1>5 DEF Image, Part

\* Two images with the same pages are the same.
LEMMA SameImage ==
    ASSUME NEW f, NEW g, Image(f), Image(g), \A p \in Pages : f[p] = g[p]
    PROVE  f = g
  BY DEF Image, Part

LEMMA NothingIs ==
    /\ Part(Nothing) /\ DOMAIN Nothing = {}
    /\ \A f : Image(f) => Over(Nothing, f) = f
    /\ \A f, g : Image(f) /\ DOMAIN g = Pages => Over(f, g) = f
<1>1. Part(Nothing) /\ DOMAIN Nothing = {}
  BY DEF Nothing, Part
<1>2. ASSUME NEW f, Image(f) PROVE Over(Nothing, f) = f
  BY <1>1, <1>2 DEF Over, Image, Part
<1>3. ASSUME NEW f, NEW g, Image(f), DOMAIN g = Pages PROVE Over(f, g) = f
  BY <1>3 DEF Over, Image, Part
<1> QED
  BY <1>1, <1>2, <1>3

\* What a commit of an image leaves to be read is that image.
LEMMA Committed ==
    ASSUME NEW w, NEW f, Part(w), Image(f), NEW v, v = Over(w, f), NEW image, Image(image),
           NEW c, c = [p \in {q \in Pages : image[q] # v[q]} |-> image[p]]
    PROVE  Over(Over(c, w), f) = image /\ Part(Over(c, w))
<1>1. PICK u : u = Over(c, w)
  OBVIOUS
<1>2. PICK r : r = Over(u, f)
  OBVIOUS
<1>3. /\ DOMAIN c = {q \in Pages : image[q] # v[q]}
      /\ \A p \in DOMAIN c : c[p] = image[p]
  OBVIOUS
<1>4. Part(c)
  <2>1. \A p \in Pages : image[p] \in AnyPage
    BY DEF Image, Part
  <2>2. c \in [DOMAIN c -> AnyPage]
    BY <1>3, <2>1
  <2> QED
    BY <1>3, <2>2 DEF Image, Part
<1>5. Part(u)
  BY <1>1, <1>4, OverPart
<1>6. Image(r)
  BY <1>2, <1>5, OverPart DEF Image
<1>7. ASSUME NEW p \in Pages PROVE r[p] = image[p]
  <2>1. CASE p \in DOMAIN c
    <3>1. p \in DOMAIN u /\ u[p] = c[p]
      BY <1>1, <2>1 DEF Over
    <3> QED
      BY <1>2, <1>3, <2>1, <3>1 DEF Over
  <2>2. CASE p \notin DOMAIN c /\ p \in DOMAIN w
    <3>1. p \in DOMAIN u /\ u[p] = w[p]
      BY <1>1, <2>2 DEF Over
    <3>2. r[p] = w[p] /\ v[p] = w[p]
      BY <1>2, <2>2, <3>1 DEF Over
    <3> QED
      BY <1>3, <2>2, <3>2
  <2>3. CASE p \notin DOMAIN c /\ p \notin DOMAIN w
    <3>1. p \notin DOMAIN u /\ p \in DOMAIN f
      BY <1>1, <2>3 DEF Over, Image
    <3>2. r[p] = f[p] /\ v[p] = f[p]
      BY <1>2, <2>3, <3>1 DEF Over
    <3> QED
      BY <1>3, <2>3, <3>2
  <2> QED
    BY <2>1, <2>2, <2>3
<1> QED
  BY <1>1, <1>2, <1>5, <1>6, <1>7, SameImage

------------------------------------------------------------------------------
(* The steps of an open, in their order.                                   *)

StepNames == {"schema", "inserted_at", "stamp", "annotations", "labels", "backfill", "sources",
              "ring", "probe", "copy", "drop", "revisions", "trigger", "version"}

LEMMA AfterIs ==
    /\ After("schema") = "inserted_at" /\ After("inserted_at") = "stamp"
    /\ After("stamp") = "annotations" /\ After("annotations") = "labels"
    /\ After("labels") = "backfill" /\ After("backfill") = "sources"
    /\ After("sources") = "ring" /\ After("ring") = "probe"
    /\ After("probe") = "copy" /\ After("copy") = "drop"
    /\ After("drop") = "revisions" /\ After("revisions") = "trigger"
    /\ After("trigger") = "version" /\ After("version") = "open"
<1>1. After("schema") = "inserted_at" /\ After("inserted_at") = "stamp"
  BY DEF After, Steps
<1>2. After("stamp") = "annotations" /\ After("annotations") = "labels"
  BY DEF After, Steps
<1>3. After("labels") = "backfill" /\ After("backfill") = "sources"
  BY DEF After, Steps
<1>4. After("sources") = "ring" /\ After("ring") = "probe"
  BY DEF After, Steps
<1>5. After("probe") = "copy" /\ After("copy") = "drop"
  BY DEF After, Steps
<1>6. After("drop") = "revisions" /\ After("revisions") = "trigger"
  BY DEF After, Steps
<1>7. After("trigger") = "version" /\ After("version") = "open"
  BY DEF After, Steps
<1> QED
  BY <1>1, <1>2, <1>3, <1>4, <1>5, <1>6, <1>7

LEMMA ModesAre ==
    /\ Modes = {"closed", "open"} \union StepNames /\ Steps[1] = "schema"
    /\ \A m \in StepNames : After(m) \in StepNames \union {"open"}
<1>1. DOMAIN Steps = 1 .. 14
  BY DEF Steps
<1>2. {Steps[i] : i \in DOMAIN Steps} = StepNames
  <2>1. \A i \in 1 .. 14 : Steps[i] \in StepNames
    BY DEF Steps, StepNames
  <2>2. \A m \in StepNames : \E i \in 1 .. 14 : Steps[i] = m
    BY DEF Steps, StepNames
  <2> QED
    BY <1>1, <2>1, <2>2
<1>3. \A m \in StepNames : After(m) \in StepNames \union {"open"}
  BY AfterIs DEF StepNames
<1> QED
  BY <1>2, <1>3 DEF Modes, Steps

------------------------------------------------------------------------------
(* What each step of an open makes of the image, and what the steps before *)
(* it have made sure of.                                                   *)

AfterVersion == {"open"}
AfterTrigger == {"version"} \union AfterVersion
AfterRevisions == {"trigger"} \union AfterTrigger
AfterDrop == {"revisions"} \union AfterRevisions
AfterCopy == {"drop"} \union AfterDrop
AfterProbe == {"copy"} \union AfterCopy
AfterRing == {"probe"} \union AfterProbe
AfterSources == {"ring"} \union AfterRing
AfterBackfill == {"sources"} \union AfterSources
AfterAnnotations == {"labels", "backfill"} \union AfterBackfill
AfterStamp == {"annotations"} \union AfterAnnotations
AfterSchema == {"inserted_at", "stamp"} \union AfterStamp

\* An open that has reached step m has left its database in the state v.
Reached(m, v, found) ==
    LET c == v[Catalog]
    IN  /\ m \in AfterSchema => "inserted_at" \in c.columns /\ "labels" \in c.tables
        /\ m \in AfterStamp => \A i \in Ids : v[i].n > 0 => v[i].stamped
        /\ m \in AfterAnnotations => "annotations" \in c.columns
        /\ m \in AfterBackfill => Labels(v) \subseteq c.labelled
        /\ m \in AfterSources => "sources" \in c.columns
        /\ m \in AfterRing => "ring" \in c.tables
        /\ m \in {"copy", "drop"} => found = c.columns \intersect LegacyOnly
        /\ m = "drop" /\ "alias" \in found => \A i \in Ids : v[i].alias => i \in c.ring
        /\ m \in AfterDrop => c.columns \intersect LegacyOnly = {}
        /\ m \in AfterRevisions => "revisions" \in c.tables
        /\ m \in AfterTrigger => c.triggers
        /\ m \in AfterVersion => c.version = SchemaUserVersion

\* Wherever the image comes from, its aliases are in the column or in the ring.
AliasesIn(v) ==
    /\ \A i \in Ids : v[i].alias => "alias" \in v[Catalog].columns
    /\ "alias" \in LegacyColumns =>
          \A i \in Legacy : v[i].n = 1 => v[i].alias \/ i \in v[Catalog].ring

\* Most steps change the catalog only.
LEMMA CatalogOnly ==
    ASSUME NEW v, Whole(v), NEW c \in Catalogs
    PROVE  /\ Whole([v EXCEPT ![Catalog] = c])
           /\ [v EXCEPT ![Catalog] = c][Catalog] = c
           /\ \A i \in Ids : [v EXCEPT ![Catalog] = c][i] = v[i]
<1>1. PICK e : e = [v EXCEPT ![Catalog] = c]
  OBVIOUS
<1>2. v \in [Pages -> AnyPage] /\ c \in AnyPage
  BY DEF Whole, Image, Part, AnyPage
<1>3. /\ e \in [Pages -> AnyPage] /\ e[Catalog] = c
      /\ \A i \in Ids : e[i] = v[i]
  BY <1>1, <1>2, PageKinds DEF Pages
<1>4. (\A i \in Ids : e[i] \in Rows) /\ DOMAIN e = Pages
  BY <1>3, WholeIs
<1>5. Part(e)
  BY <1>3, <1>4 DEF Part
<1>6. \A p \in Pages : e[p] # Blank
  BY <1>3, <1>4, PageKinds DEF Pages
<1> QED
  BY <1>1, <1>3, <1>4, <1>5, <1>6 DEF Whole, Image, Torn

\* Such a step keeps the rows, and what is known of the aliases if it drops
\* neither the column nor entries of the ring.
LEMMA CatalogStep ==
    ASSUME NEW v, Whole(v), NEW d \in Catalogs, NEW e, e = [v EXCEPT ![Catalog] = d],
           v[Catalog].ring \subseteq d.ring, "alias" \in v[Catalog].columns => "alias" \in d.columns
    PROVE  /\ Whole(e) /\ e[Catalog] = d /\ \A i \in Ids : e[i] = v[i]
           /\ AliasesIn(v) => AliasesIn(e)
<1>0. /\ Whole([v EXCEPT ![Catalog] = d]) /\ [v EXCEPT ![Catalog] = d][Catalog] = d
      /\ \A i \in Ids : [v EXCEPT ![Catalog] = d][i] = v[i]
  BY CatalogOnly
<1>1. Whole(e) /\ e[Catalog] = d /\ \A i \in Ids : e[i] = v[i]
  BY <1>0
<1>2. Legacy \subseteq Ids
  BY BackupsAssumption
<1> QED
  BY <1>1, <1>2 DEF AliasesIn

\* An image with rows for its ids and a catalog is whole.
LEMMA RowsStep ==
    ASSUME NEW e, DOMAIN e = Pages, e \in [Pages -> AnyPage],
           \A i \in Ids : e[i] \in Rows, e[Catalog] \in Catalogs
    PROVE  Whole(e)
<1>1. Part(e)
  BY DEF Part
<1>2. \A p \in Pages : e[p] # Blank
  BY PageKinds DEF Pages
<1> QED
  BY <1>1, <1>2 DEF Whole, Image, Torn

\* What a step that takes effect makes of a whole image.
LEMMA SchemaStep ==
    ASSUME NEW v, Whole(v), NEW e, e = Effect("schema", v)
    PROVE  /\ Whole(e) /\ \A i \in Ids : e[i].n = v[i].n
           /\ AliasesIn(v) => AliasesIn(e)
           /\ \A q : ~Refused("schema", v) => Reached(After("schema"), e, q)
<1> DEFINE c == v[Catalog]
<1>1. PICK d : d = [c EXCEPT !.columns = IF c.columns = {} THEN {"inserted_at", "annotations"} ELSE c.columns,
                            !.tables = c.tables \union {"labels"}]
  OBVIOUS
<1>2. c \in Catalogs /\ v \in [Pages -> AnyPage] /\ Catalog \in Pages
  BY WholeIs, PageKinds DEF Whole, Image, Part
<1>3. d \in Catalogs
  BY <1>1, <1>2 DEF Catalogs, AllColumns
<1>4. e = [v EXCEPT ![Catalog] = d]
  <2>1. e = AddTable(IF c.columns = {} THEN [v EXCEPT ![Catalog].columns = {"inserted_at", "annotations"}]
                                       ELSE v, "labels")
    BY DEF Effect, CreateSchema
  <2>2. CASE c.columns = {}
    BY <1>1, <1>2, <2>1, <2>2 DEF AddTable, Catalogs
  <2>3. CASE c.columns # {}
    BY <1>1, <1>2, <2>1, <2>3 DEF AddTable, Catalogs
  <2> QED
    BY <2>2, <2>3
<1>5. d.ring = c.ring /\ "labels" \in d.tables /\ (c.columns # {} => d.columns = c.columns)
      /\ (c.columns = {} => d.columns = {"inserted_at", "annotations"})
  BY <1>1, <1>2 DEF Catalogs
<1>6. /\ Whole(e) /\ e[Catalog] = d /\ \A i \in Ids : e[i] = v[i]
      /\ AliasesIn(v) => AliasesIn(e)
  BY <1>3, <1>4, <1>5, CatalogStep
<1>7. ASSUME NEW q, ~Refused("schema", v) PROVE Reached("inserted_at", e, q)
  <2>1. c.columns = {} \/ "inserted_at" \in c.columns
    BY <1>7 DEF Refused
  <2>2. "inserted_at" \in d.columns
    BY <1>5, <2>1
  <2> QED
    BY <1>5, <1>6, <2>2 DEF Reached, AfterSchema, AfterStamp, AfterAnnotations, AfterBackfill,
       AfterSources, AfterRing, AfterProbe, AfterCopy, AfterDrop, AfterRevisions, AfterTrigger, AfterVersion
<1> QED
  BY <1>6, <1>7, AfterIs

SameRows(e, v) == \A i \in Ids : e[i] = v[i]

LEMMA ColumnStep ==
    ASSUME NEW v, Whole(v), NEW x \in AllColumns, NEW e, e = AddColumn(v, x)
    PROVE  /\ Whole(e) /\ SameRows(e, v)
           /\ AliasesIn(v) => AliasesIn(e)
           /\ e[Catalog].columns = v[Catalog].columns \union {x}
           /\ e[Catalog].tables = v[Catalog].tables /\ e[Catalog].labelled = v[Catalog].labelled
           /\ e[Catalog].ring = v[Catalog].ring
<1> DEFINE c == v[Catalog]
<1>1. PICK d : d = [c EXCEPT !.columns = c.columns \union {x}]
  OBVIOUS
<1>2. c \in Catalogs
  BY WholeIs
<1>3. d \in Catalogs
  BY <1>1, <1>2 DEF Catalogs
<1>4. e = [v EXCEPT ![Catalog] = d]
  BY <1>1 DEF AddColumn
<1>5. /\ d.columns = c.columns \union {x} /\ d.tables = c.tables
      /\ d.labelled = c.labelled /\ d.ring = c.ring
  BY <1>1, <1>2 DEF Catalogs
<1>6. Whole(e) /\ e[Catalog] = d /\ SameRows(e, v) /\ (AliasesIn(v) => AliasesIn(e))
  BY <1>3, <1>4, <1>5, CatalogStep DEF SameRows
<1> QED
  BY <1>5, <1>6

LEMMA TableStep ==
    ASSUME NEW v, Whole(v), NEW x \in {"labels", "ring", "revisions"}, NEW e, e = AddTable(v, x)
    PROVE  /\ Whole(e) /\ SameRows(e, v)
           /\ AliasesIn(v) => AliasesIn(e)
           /\ e[Catalog].columns = v[Catalog].columns
           /\ e[Catalog].tables = v[Catalog].tables \union {x}
           /\ e[Catalog].labelled = v[Catalog].labelled /\ e[Catalog].ring = v[Catalog].ring
<1> DEFINE c == v[Catalog]
<1>1. PICK d : d = [c EXCEPT !.tables = c.tables \union {x}]
  OBVIOUS
<1>2. c \in Catalogs
  BY WholeIs
<1>3. d \in Catalogs
  BY <1>1, <1>2 DEF Catalogs
<1>4. e = [v EXCEPT ![Catalog] = d]
  BY <1>1 DEF AddTable
<1>5. /\ d.columns = c.columns /\ d.tables = c.tables \union {x}
      /\ d.labelled = c.labelled /\ d.ring = c.ring
  BY <1>1, <1>2 DEF Catalogs
<1>6. Whole(e) /\ e[Catalog] = d /\ SameRows(e, v) /\ (AliasesIn(v) => AliasesIn(e))
  BY <1>3, <1>4, <1>5, CatalogStep DEF SameRows
<1> QED
  BY <1>5, <1>6

LEMMA StampStep ==
    ASSUME NEW v, Whole(v), NEW e, e = StampRows(v)
    PROVE  /\ Whole(e) /\ e[Catalog] = v[Catalog]
           /\ \A i \in Ids : /\ e[i].n = v[i].n /\ e[i].alias = v[i].alias
                             /\ e[i].n > 0 => e[i].stamped
           /\ AliasesIn(v) => AliasesIn(e)
<1>1. /\ v \in [Pages -> AnyPage] /\ Catalog \in Pages /\ Catalog \notin Ids
      /\ Legacy \subseteq Ids /\ \A i \in Ids : v[i] \in Rows /\ i \in Pages
  BY WholeIs, PageKinds, BackupsAssumption DEF Whole, Image, Part, Pages
<1>2. \A i \in Ids : e[i] = IF v[i].n > 0 THEN [v[i] EXCEPT !.stamped = TRUE] ELSE v[i]
  BY <1>1 DEF StampRows
<1>3. ASSUME NEW i \in Ids
      PROVE  /\ e[i] \in Rows /\ e[i].n = v[i].n /\ e[i].alias = v[i].alias
             /\ e[i].n > 0 => e[i].stamped
  <2>1. v[i] \in Rows
    BY <1>1
  <2>2. CASE v[i].n > 0
    BY <1>2, <2>1, <2>2 DEF Rows
  <2>3. CASE ~(v[i].n > 0)
    BY <1>2, <2>1, <2>3
  <2> QED
    BY <2>2, <2>3
<1>4. e[Catalog] = v[Catalog] /\ v[Catalog] \in Catalogs
  BY <1>1, WholeIs DEF StampRows
<1>5. DOMAIN e = Pages /\ e \in [Pages -> AnyPage]
  <2>1. \A p \in Pages : e[p] \in AnyPage
    BY <1>3, <1>4, PageKinds DEF AnyPage
  <2> QED
    BY <2>1 DEF StampRows
<1>6. Whole(e)
  BY <1>3, <1>4, <1>5, RowsStep
<1> QED
  BY <1>1, <1>3, <1>4, <1>6 DEF AliasesIn

LEMMA DropStep ==
    ASSUME NEW v, Whole(v), NEW e, e = DropLegacyColumns(v)
    PROVE  /\ Whole(e) /\ \A i \in Ids : e[i].n = v[i].n /\ e[i].stamped = v[i].stamped
           /\ \A i \in Ids : ~e[i].alias
           /\ e[Catalog].columns = v[Catalog].columns \ LegacyOnly
           /\ e[Catalog].tables = v[Catalog].tables
           /\ e[Catalog].labelled = v[Catalog].labelled /\ e[Catalog].ring = v[Catalog].ring
<1>1. /\ v \in [Pages -> AnyPage] /\ Catalog \in Pages /\ Catalog \notin Ids
      /\ \A i \in Ids : v[i] \in Rows /\ i \in Pages
  BY WholeIs, PageKinds DEF Whole, Image, Part, Pages
<1>2. \A i \in Ids : e[i] = [v[i] EXCEPT !.alias = FALSE]
  BY <1>1 DEF DropLegacyColumns
<1>3. ASSUME NEW i \in Ids
      PROVE  /\ e[i] \in Rows /\ e[i].n = v[i].n /\ e[i].stamped = v[i].stamped /\ ~e[i].alias
  BY <1>1, <1>2 DEF Rows
<1>4. e[Catalog] = [v[Catalog] EXCEPT !.columns = v[Catalog].columns \ LegacyOnly, !.triggers = FALSE]
      /\ v[Catalog] \in Catalogs
  BY <1>1, WholeIs DEF DropLegacyColumns
<1>5. /\ e[Catalog] \in Catalogs /\ e[Catalog].columns = v[Catalog].columns \ LegacyOnly
      /\ e[Catalog].tables = v[Catalog].tables
      /\ e[Catalog].labelled = v[Catalog].labelled /\ e[Catalog].ring = v[Catalog].ring
  BY <1>4 DEF Catalogs
<1>6. DOMAIN e = Pages /\ e \in [Pages -> AnyPage]
  <2>1. \A p \in Pages : e[p] \in AnyPage
    BY <1>3, <1>5, PageKinds DEF AnyPage
  <2> QED
    BY <2>1 DEF DropLegacyColumns
<1>7. Whole(e)
  BY <1>3, <1>5, <1>6, RowsStep
<1> QED
  BY <1>3, <1>5, <1>7

\* The other steps change one field of the catalog.
LEMMA BackfillStep ==
    ASSUME NEW v, Whole(v), NEW e, e = Backfill(v)
    PROVE  /\ Whole(e) /\ SameRows(e, v)
           /\ AliasesIn(v) => AliasesIn(e)
           /\ e[Catalog].columns = v[Catalog].columns
           /\ e[Catalog].tables = v[Catalog].tables
           /\ Labels(e) \subseteq e[Catalog].labelled
<1> DEFINE c == v[Catalog]
<1>1. PICK L : L = c.labelled \union Labels(v)
  OBVIOUS
<1>2. c \in Catalogs
  BY WholeIs
<1>3. PICK d : d = [c EXCEPT !.labelled = L]
  OBVIOUS
<1>4. L \subseteq Ids
  BY <1>1, <1>2 DEF Catalogs, Labels
<1>5. /\ d \in Catalogs /\ d.columns = c.columns /\ d.tables = c.tables
      /\ d.ring = c.ring /\ d.labelled = L
  BY <1>2, <1>3, <1>4 DEF Catalogs
<1>6. e = [v EXCEPT ![Catalog] = d]
  BY <1>1, <1>3 DEF Backfill
<1>7. Whole(e) /\ e[Catalog] = d /\ SameRows(e, v) /\ (AliasesIn(v) => AliasesIn(e))
  BY <1>5, <1>6, CatalogStep DEF SameRows
<1>8. Labels(e) = Labels(v)
  BY <1>7 DEF Labels, SameRows
<1> QED
  BY <1>1, <1>5, <1>7, <1>8

LEMMA CopyStep ==
    ASSUME NEW v, Whole(v), NEW e, e = CopyAliases(v)
    PROVE  /\ Whole(e) /\ SameRows(e, v)
           /\ AliasesIn(v) => AliasesIn(e)
           /\ e[Catalog].columns = v[Catalog].columns
           /\ e[Catalog].tables = v[Catalog].tables
           /\ e[Catalog].labelled = v[Catalog].labelled
           /\ \A i \in Ids : e[i].alias => i \in e[Catalog].ring
<1> DEFINE c == v[Catalog]
<1>1. PICK R : R = c.ring \union {i \in Ids : v[i].alias}
  OBVIOUS
<1>2. c \in Catalogs
  BY WholeIs
<1>3. PICK d : d = [c EXCEPT !.ring = R]
  OBVIOUS
<1>4. R \subseteq Ids /\ c.ring \subseteq R
  BY <1>1, <1>2 DEF Catalogs
<1>5. /\ d \in Catalogs /\ d.columns = c.columns /\ d.tables = c.tables
      /\ d.labelled = c.labelled /\ d.ring = R
  BY <1>2, <1>3, <1>4 DEF Catalogs
<1>6. e = [v EXCEPT ![Catalog] = d]
  BY <1>1, <1>3 DEF CopyAliases
<1>7. Whole(e) /\ e[Catalog] = d /\ SameRows(e, v) /\ (AliasesIn(v) => AliasesIn(e))
  BY <1>4, <1>5, <1>6, CatalogStep DEF SameRows
<1> QED
  BY <1>1, <1>5, <1>7 DEF SameRows

\* The last two steps.
LEMMA MarkStep ==
    ASSUME NEW v, Whole(v), NEW m \in {"trigger", "version"}, NEW e, e = Effect(m, v)
    PROVE  /\ Whole(e) /\ SameRows(e, v)
           /\ AliasesIn(v) => AliasesIn(e)
           /\ e[Catalog].columns = v[Catalog].columns
           /\ e[Catalog].tables = v[Catalog].tables
           /\ e[Catalog].labelled = v[Catalog].labelled
           /\ m = "trigger" \/ v[Catalog].triggers => e[Catalog].triggers
           /\ m = "version" => e[Catalog].version = SchemaUserVersion
<1> DEFINE c == v[Catalog]
<1>1. c \in Catalogs
  BY WholeIs
<1>2. CASE m = "trigger"
  <2>1. PICK d : d = [c EXCEPT !.triggers = TRUE]
    OBVIOUS
  <2>2. /\ d \in Catalogs /\ d.columns = c.columns /\ d.tables = c.tables
        /\ d.labelled = c.labelled /\ d.ring = c.ring /\ d.triggers
    BY <1>1, <2>1 DEF Catalogs
  <2>3. e = [v EXCEPT ![Catalog] = d]
    BY <1>2, <2>1 DEF Effect
  <2>4. Whole(e) /\ e[Catalog] = d /\ SameRows(e, v) /\ (AliasesIn(v) => AliasesIn(e))
    BY <2>2, <2>3, CatalogStep DEF SameRows
  <2> QED
    BY <1>2, <2>2, <2>4
<1>3. CASE m = "version"
  <2>1. PICK d : d = [c EXCEPT !.version = SchemaUserVersion]
    OBVIOUS
  <2>2. /\ d \in Catalogs /\ d.columns = c.columns /\ d.tables = c.tables
        /\ d.labelled = c.labelled /\ d.ring = c.ring /\ d.triggers = c.triggers
        /\ d.version = SchemaUserVersion
    BY <1>1, <2>1 DEF Catalogs, SchemaUserVersion
  <2>3. e = [v EXCEPT ![Catalog] = d]
    BY <1>3, <2>1 DEF Effect
  <2>4. Whole(e) /\ e[Catalog] = d /\ SameRows(e, v) /\ (AliasesIn(v) => AliasesIn(e))
    BY <2>2, <2>3, CatalogStep DEF SameRows
  <2> QED
    BY <1>3, <2>2, <2>4
<1> QED
  BY <1>2, <1>3

LEMMA StepWhole ==
    ASSUME NEW v, Whole(v), NEW m \in StepNames, NEW e, e = Effect(m, v)
    PROVE  Whole(e) /\ \A i \in Ids : e[i].n = v[i].n
<1>1. CASE m = "schema"
  BY <1>1, SchemaStep
<1>2. CASE m \in {"inserted_at", "annotations", "sources"}
  <2>1. e = AddColumn(v, m) /\ m \in AllColumns
    BY <1>2 DEF Effect, AllColumns
  <2> QED
    BY <2>1, ColumnStep DEF SameRows
<1>3. CASE m \in {"labels", "ring", "revisions"}
  <2>1. e = AddTable(v, m)
    BY <1>3 DEF Effect
  <2> QED
    BY <1>3, <2>1, TableStep DEF SameRows
<1>4. CASE m = "stamp"
  BY <1>4, StampStep DEF Effect
<1>5. CASE m = "backfill"
  BY <1>5, BackfillStep DEF Effect, SameRows
<1>6. CASE m = "probe"
  BY <1>6 DEF Effect
<1>7. CASE m = "copy"
  <2>1. e = v \/ e = CopyAliases(v)
    BY <1>7 DEF Effect
  <2> QED
    BY <2>1, CopyStep DEF SameRows
<1>8. CASE m = "drop"
  <2>1. e = v \/ e = DropLegacyColumns(v)
    BY <1>8 DEF Effect
  <2> QED
    BY <2>1, DropStep
<1>9. CASE m \in {"trigger", "version"}
  BY <1>9, MarkStep DEF SameRows
<1> QED
  BY <1>1, <1>2, <1>3, <1>4, <1>5, <1>6, <1>7, <1>8, <1>9 DEF StepNames

\* A step that takes effect leaves what the next one counts on.
LEMMA StepReaches ==
    ASSUME NEW v, Whole(v), NEW m \in StepNames, NEW e, e = Effect(m, v), ~Refused(m, v),
           AliasesIn(v), Reached(m, v, probe), NEW q,
           q = IF m = "probe" THEN v[Catalog].columns \intersect LegacyOnly ELSE probe
    PROVE  AliasesIn(e) /\ Reached(After(m), e, q)
<1> USE DEF AfterSchema, AfterStamp, AfterAnnotations, AfterBackfill, AfterSources, AfterRing,
            AfterProbe, AfterCopy, AfterDrop, AfterRevisions, AfterTrigger, AfterVersion
<1>1. CASE m = "schema"
  BY <1>1, SchemaStep
<1>2. CASE m \in {"inserted_at", "annotations", "sources"}
  <2>1. e = AddColumn(v, m) /\ m \in AllColumns
    BY <1>2 DEF Effect, AllColumns
  <2>2. /\ SameRows(e, v) /\ AliasesIn(e)
        /\ e[Catalog].columns = v[Catalog].columns \union {m}
        /\ e[Catalog].tables = v[Catalog].tables /\ e[Catalog].labelled = v[Catalog].labelled
    BY <2>1, ColumnStep
  <2>3. Labels(e) = Labels(v)
    BY <2>2 DEF Labels, SameRows
  <2>4. CASE m = "inserted_at"
    BY <2>2, <2>4, AfterIs DEF Reached
  <2>5. CASE m = "annotations"
    BY <2>2, <2>5, AfterIs DEF Reached, SameRows
  <2>6. CASE m = "sources"
    BY <2>2, <2>3, <2>6, AfterIs DEF Reached, SameRows
  <2> QED
    BY <1>2, <2>4, <2>5, <2>6
<1>3. CASE m \in {"labels", "ring", "revisions"}
  <2>1. e = AddTable(v, m)
    BY <1>3 DEF Effect
  <2>2. /\ SameRows(e, v) /\ AliasesIn(e)
        /\ e[Catalog].columns = v[Catalog].columns
        /\ e[Catalog].tables = v[Catalog].tables \union {m}
        /\ e[Catalog].labelled = v[Catalog].labelled
    BY <1>3, <2>1, TableStep
  <2>3. Labels(e) = Labels(v)
    BY <2>2 DEF Labels, SameRows
  <2>4. CASE m = "labels"
    BY <2>2, <2>4, AfterIs DEF Reached, SameRows
  <2>5. CASE m = "ring"
    BY <2>2, <2>3, <2>5, AfterIs DEF Reached, SameRows
  <2>6. CASE m = "revisions"
    BY <2>2, <2>3, <2>6, AfterIs DEF Reached, SameRows
  <2> QED
    BY <1>3, <2>4, <2>5, <2>6
<1>4. CASE m = "stamp"
  <2>1. /\ AliasesIn(e) /\ e[Catalog] = v[Catalog] /\ \A i \in Ids : e[i].n > 0 => e[i].stamped
    BY <1>4, StampStep DEF Effect
  <2> QED
    BY <1>4, <2>1, AfterIs DEF Reached
<1>5. CASE m = "backfill"
  <2>1. /\ SameRows(e, v) /\ AliasesIn(e)
        /\ e[Catalog].columns = v[Catalog].columns /\ e[Catalog].tables = v[Catalog].tables
        /\ Labels(e) \subseteq e[Catalog].labelled
    BY <1>5, BackfillStep DEF Effect
  <2> QED
    BY <1>5, <2>1, AfterIs DEF Reached, SameRows
<1>6. CASE m = "probe"
  <2>1. e = v
    BY <1>6 DEF Effect
  <2> QED
    BY <1>6, <2>1, AfterIs DEF Reached
<1>7. CASE m = "copy"
  <2>1. /\ AliasesIn(e) /\ SameRows(e, v) /\ e[Catalog].columns = v[Catalog].columns
        /\ e[Catalog].tables = v[Catalog].tables /\ e[Catalog].labelled = v[Catalog].labelled
        /\ "alias" \in probe => \A i \in Ids : e[i].alias => i \in e[Catalog].ring
    BY <1>7, CopyStep DEF Effect, SameRows
  <2>2. Labels(e) = Labels(v)
    BY <2>1 DEF Labels, SameRows
  <2> QED
    BY <1>7, <2>1, <2>2, AfterIs DEF Reached, SameRows
<1>8. CASE m = "drop"
  <2>1. /\ probe = v[Catalog].columns \intersect LegacyOnly
        /\ "alias" \in probe => \A i \in Ids : v[i].alias => i \in v[Catalog].ring
    BY <1>8 DEF Reached
  <2>2. CASE probe = {}
    <3>1. e = v
      BY <1>8, <2>2 DEF Effect
    <3> QED
      BY <1>8, <2>1, <2>2, <3>1, AfterIs DEF Reached
  <2>3. CASE probe # {}
    <3>1. e = DropLegacyColumns(v)
      BY <1>8, <2>3 DEF Effect
    <3>2. /\ \A i \in Ids : ~e[i].alias /\ e[i].n = v[i].n /\ e[i].stamped = v[i].stamped
          /\ e[Catalog].columns = v[Catalog].columns \ LegacyOnly
          /\ e[Catalog].tables = v[Catalog].tables
          /\ e[Catalog].labelled = v[Catalog].labelled /\ e[Catalog].ring = v[Catalog].ring
      BY <3>1, DropStep
    <3>3. Labels(e) = Labels(v)
      BY <3>2 DEF Labels
    <3>4. AliasesIn(e)
      <4>1. Legacy \subseteq Ids
        BY <3>2, BackupsAssumption
      <4> QED
        BY <2>1, <3>2, <4>1 DEF AliasesIn, LegacyOnly
    <3> QED
      BY <1>8, <3>2, <3>3, <3>4, AfterIs DEF Reached, LegacyOnly
  <2> QED
    BY <2>2, <2>3
<1>9. CASE m \in {"trigger", "version"}
  <2>1. /\ SameRows(e, v) /\ AliasesIn(e)
        /\ e[Catalog].columns = v[Catalog].columns /\ e[Catalog].tables = v[Catalog].tables
        /\ e[Catalog].labelled = v[Catalog].labelled
        /\ m = "trigger" \/ v[Catalog].triggers => e[Catalog].triggers
        /\ m = "version" => e[Catalog].version = SchemaUserVersion
    BY <1>9, MarkStep
  <2>2. Labels(e) = Labels(v)
    BY <2>1 DEF Labels, SameRows
  <2> QED
    BY <1>9, <2>1, <2>2, AfterIs DEF Reached, SameRows
<1> QED
  BY <1>1, <1>2, <1>3, <1>4, <1>5, <1>6, <1>7, <1>8, <1>9 DEF StepNames

------------------------------------------------------------------------------
(* What holds in every run: the kinds of the pages, an open database that  *)
(* is whole, and operations whose files exist.                             *)

Keys == (0 .. MaxTime) \X SnapNames

Saves == {"checkpoint", "create", "copy"}

Restores == {"restore", "overwrite"}

Ops == [pc : {"idle", "auto", "clean", "delete"} \union Saves \union Restores,
        name : SnapNames, key : Keys \union {NoKey}, target : Keys \union {NoKey},
        next : {"idle", "clean", "restore"}, todo : SUBSET (Pages \union Keys),
        seen : SUBSET [Pages -> AnyPage], auto : BOOLEAN, since : 0 .. MaxTime]

DiskInv ==
    /\ Image(file) /\ Part(wal) /\ \A p \in DOMAIN wal : wal[p] # Blank
    /\ held = Nothing \/ Whole(held)
    /\ mode \in {"closed", "open"} \union StepNames
    /\ mode # "closed" => Whole(View)
    /\ mode # "open" => held = Nothing
    /\ probe \subseteq LegacyOnly
    /\ commits \in 1 .. MaxCommits

SnapInv ==
    /\ DOMAIN snaps \subseteq Keys /\ clock \in 0 .. MaxTime
    /\ \A k \in DOMAIN snaps : Image(snaps[k])

OpInv ==
    /\ op \in Ops
    /\ op.pc = "idle" => op = Idle
    /\ mode \in StepNames => op = Idle
    /\ op.pc \in {"auto", "clean", "delete"} \union Saves => mode = "open"
    /\ op.pc = "overwrite" /\ mode = "open" => held # Nothing
    /\ op.pc \in {"copy", "overwrite"} => op.todo \subseteq Pages
    /\ op.pc = "copy" => op.key \in DOMAIN snaps
    /\ op.next = "restore" => op.pc \in Saves \union Restores
    /\ op.next = "restore" \/ op.pc \in Restores => op.target \in DOMAIN snaps

TypeInv == DiskInv /\ SnapInv /\ OpInv

LEMMA ReadsOf ==
    ASSUME NEW h, NEW w, NEW f, Part(w), Image(f)
    PROVE  /\ Image(Over(w, f))
           /\ h = Nothing => Over(h, Over(w, f)) = Over(w, f)
           /\ Whole(h) => Over(h, Over(w, f)) = h /\ h # Nothing
<1>1. Image(Over(w, f))
  BY OverPart DEF Image
<1>2. Catalog \in Pages
  BY DEF Pages
<1> QED
  BY <1>1, <1>2, NothingIs DEF Whole, Image

\* A row written over a whole image.
Wrote(v, i, row) == [v EXCEPT ![i] = row, ![Catalog].labelled = @ \union {i}]

LEMMA RowWritten ==
    ASSUME NEW v, Whole(v), NEW i \in Ids, NEW row \in Rows
    PROVE  /\ Whole(Wrote(v, i, row)) /\ Wrote(v, i, row)[i] = row
           /\ \A j \in Ids \ {i} : Wrote(v, i, row)[j] = v[j]
           /\ Wrote(v, i, row)[Catalog] = [v[Catalog] EXCEPT !.labelled = @ \union {i}]
<1> PICK e : e = Wrote(v, i, row)
  OBVIOUS
<1>0. e = [v EXCEPT ![i] = row, ![Catalog].labelled = @ \union {i}]
  BY DEF Wrote
<1>1. /\ v \in [Pages -> AnyPage] /\ Catalog \in Pages /\ Catalog \notin Ids
      /\ \A j \in Ids : v[j] \in Rows /\ j \in Pages
      /\ v[Catalog] \in Catalogs
  BY WholeIs, PageKinds DEF Whole, Image, Part, Pages
<1>2. /\ e[i] = row /\ \A j \in Ids \ {i} : e[j] = v[j]
      /\ e[Catalog] = [v[Catalog] EXCEPT !.labelled = @ \union {i}]
  BY <1>0, <1>1
<1>3. e[Catalog] \in Catalogs /\ \A j \in Ids : e[j] \in Rows
  BY <1>1, <1>2 DEF Catalogs
<1>4. DOMAIN e = Pages
  BY <1>0, <1>1
<1>5. e \in [Pages -> AnyPage]
  <2>1. \A p \in Pages : e[p] \in AnyPage
    BY <1>3, PageKinds DEF AnyPage
  <2> QED
    BY <1>0, <1>1, <2>1
<1> QED
  BY <1>2, <1>3, <1>4, <1>5, RowsStep

LEMMA FirstIs == Whole(FirstImage) /\ Whole(EmptyImage) /\ Image(BlankFile)
<1>1. Catalog \in Pages /\ Catalog \notin Ids /\ Legacy \subseteq Ids /\ Ids \subseteq Pages
      /\ LegacyColumns \subseteq AllColumns
  BY PageKinds, BackupsAssumption DEF Pages, AllColumns, LegacyOnly
<1>2. NewCatalog \in Catalogs /\ Absent \in Rows
  BY BackupsAssumption DEF NewCatalog, Catalogs, Absent, Row, Rows
<1>3. Whole(FirstImage)
  <2>1. PICK e : e = FirstImage
    OBVIOUS
  <2>2. \A i \in Ids : e[i] = IF i \in Legacy THEN Row(1, "alias" \in LegacyColumns, FALSE) ELSE Absent
    BY <1>1, <2>1 DEF FirstImage
  <2>3. \A i \in Ids : e[i] \in Rows
    <3>1. \A b \in BOOLEAN : Row(1, b, FALSE) \in Rows
      BY BackupsAssumption DEF Row, Rows
    <3>2. ("alias" \in LegacyColumns) \in BOOLEAN
      OBVIOUS
    <3>3. Row(1, "alias" \in LegacyColumns, FALSE) \in Rows
      BY <3>1, <3>2, Zenon
    <3> QED
      BY <1>2, <2>2, <3>3
  <2>4. e[Catalog] = [NewCatalog EXCEPT !.columns = IF Legacy = {} THEN {} ELSE LegacyColumns]
    BY <1>1, <2>1 DEF FirstImage
  <2>5. e[Catalog] \in Catalogs
    BY <1>1, <1>2, <2>4 DEF Catalogs
  <2>6. DOMAIN e = Pages /\ e \in [Pages -> AnyPage]
    <3>1. \A p \in Pages : e[p] \in AnyPage
      BY <2>3, <2>5, PageKinds DEF AnyPage
    <3> QED
      BY <2>1, <3>1 DEF FirstImage
  <2> QED
    BY <2>1, <2>3, <2>5, <2>6, RowsStep
<1>4. Whole(EmptyImage)
  <2>1. PICK e : e = EmptyImage
    OBVIOUS
  <2>2. (\A i \in Ids : e[i] = Absent) /\ e[Catalog] = NewCatalog
    BY <1>1, <2>1 DEF EmptyImage
  <2>3. (\A i \in Ids : e[i] \in Rows) /\ e[Catalog] \in Catalogs
    BY <1>2, <2>2
  <2>4. DOMAIN e = Pages /\ e \in [Pages -> AnyPage]
    <3>1. \A p \in Pages : e[p] \in AnyPage
      BY <2>3, PageKinds DEF AnyPage
    <3> QED
      BY <2>1, <3>1 DEF EmptyImage
  <2> QED
    BY <2>1, <2>3, <2>4, RowsStep
<1>5. Image(BlankFile)
  BY <1>1 DEF Image, Part, BlankFile, AnyPage
<1> QED
  BY <1>3, <1>4, <1>5

LEMMA InitDisk == Init => DiskInv
<1> SUFFICES ASSUME Init PROVE DiskInv
  OBVIOUS
<1>1. /\ file = FirstImage /\ wal = Nothing /\ held = Nothing /\ mode = "closed"
      /\ probe = {} /\ commits = 1
  BY DEF Init
<1>2. Image(FirstImage)
  BY FirstIs DEF Whole
<1> QED
  BY <1>1, <1>2, NothingIs, BackupsAssumption DEF DiskInv

\* What the reads of a database are, in a state of DiskInv and in the next one.
LEMMA ReadsAre ==
    ASSUME DiskInv
    PROVE  /\ Image(Stored) /\ Stored = Over(wal, file)
           /\ held = Nothing => View = Stored
           /\ held # Nothing => View = held /\ Whole(held)
           /\ mode # "open" => View = Stored
           /\ mode # "closed" => Whole(View)
  BY ReadsOf DEF DiskInv, Stored, View

LEMMA CommittedReads ==
    ASSUME NEW image, Whole(image), DiskInv, mode # "closed", wal' = Over(Changed(image), wal), file' = file,
           \/ held = Nothing /\ held' = Nothing
           \/ held # Nothing /\ held' = image
    PROVE  /\ Part(wal') /\ \A p \in DOMAIN wal' : wal'[p] # Blank
           /\ View' = image /\ Image(Stored')
           /\ held = Nothing => Stored' = image
<1> DEFINE c == Changed(image)
<1>1. Image(image) /\ \A p \in Pages : image[p] # Blank
  BY DEF Whole, Torn
<1>2. \A p \in DOMAIN c : c[p] # Blank
  BY <1>1 DEF Changed
<1>3. Part(c)
  <2>1. \A p \in Pages : image[p] \in AnyPage
    BY <1>1 DEF Image, Part
  <2>2. c \in [DOMAIN c -> AnyPage] /\ DOMAIN c \subseteq Pages /\ \A p \in DOMAIN c : c[p] = image[p]
    BY <2>1 DEF Changed
  <2> HIDE DEF c
  <2> QED
    BY <1>1, <2>2 DEF Image, Part
<1>4. Part(wal') /\ \A p \in DOMAIN wal' : wal'[p] # Blank
  <2>1. Part(wal) /\ \A p \in DOMAIN wal : wal[p] # Blank
    BY DEF DiskInv
  <2>2. wal' = Over(c, wal)
    OBVIOUS
  <2> HIDE DEF c
  <2>3. Part(wal')
    BY <1>3, <2>1, <2>2, OverPart
  <2> QED
    BY <1>2, <2>1, <2>2, <2>3 DEF Over
<1>5. Image(file) /\ Stored' = Over(wal', file) /\ Image(Stored')
  BY <1>4, ReadsOf DEF DiskInv, Stored
<1>6. CASE held = Nothing
  <2>1. View = Over(wal, file)
    BY <1>6, ReadsAre
  <2>2. c = [p \in {q \in Pages : image[q] # View[q]} |-> image[p]]
    BY DEF Changed
  <2>3. Over(Over(c, wal), file) = image
    <3> HIDE DEF c
    <3> QED
      BY <1>1, <1>5, <2>1, <2>2, Committed DEF DiskInv
  <2>4. Stored' = image
    BY <1>5, <2>3
  <2>5. View' = Stored'
    BY <1>4, <1>5, <1>6, ReadsOf DEF View, Stored, Whole
  <2> QED
    BY <1>4, <1>5, <2>4, <2>5
<1>7. CASE held # Nothing
  <2>1. View' = image
    BY <1>4, <1>5, <1>7, ReadsOf DEF View, Stored
  <2> QED
    BY <1>4, <1>5, <1>7, <2>1
<1> QED
  BY <1>6, <1>7

LEMMA IdleIs ==
    /\ Idle \in Ops /\ Idle.pc = "idle" /\ Idle.next = "idle" /\ Idle.name = "" /\ ~Idle.auto
    /\ [Idle EXCEPT !.seen = {}] = Idle
<1>1. PICK none : none = ""
  OBVIOUS
<1>2. Idle = [pc |-> "idle", name |-> none, key |-> NoKey, target |-> NoKey, next |-> "idle",
              todo |-> {}, seen |-> {}, auto |-> FALSE, since |-> 0]
  BY <1>1 DEF Idle
<1>3. none \in SnapNames /\ 0 \in 0 .. MaxTime
  <2>1. none \in SnapNames
    BY <1>1 DEF SnapNames
  <2>2. MaxTime \in Nat
    BY BackupsAssumption
  <2>3. 0 \in 0 .. MaxTime
    BY <2>2
  <2> QED
    BY <2>1, <2>3
<1>4. Idle \in Ops
  BY <1>2, <1>3 DEF Ops
<1>5. [Idle EXCEPT !.seen = {}] = Idle
  <2>1. Idle.seen = {}
    BY <1>2
  <2> QED
    BY <1>4, <2>1 DEF Ops
<1>6. Idle.pc = "idle" /\ Idle.next = "idle" /\ Idle.name = none /\ ~Idle.auto
  BY <1>2
<1> QED
  BY <1>1, <1>4, <1>5, <1>6

\* A page copied from one image to another.
LEMMA PageTaken ==
    ASSUME NEW f, Image(f), NEW g, Image(g), NEW p \in Pages, NEW e, e = [f EXCEPT ![p] = g[p]]
    PROVE  /\ Image(e) /\ e[p] = g[p] /\ \A q \in Pages \ {p} : e[q] = f[q]
<1>1. /\ f \in [Pages -> AnyPage] /\ g \in [Pages -> AnyPage]
      /\ Catalog \in Pages /\ Ids \subseteq Pages
  BY DEF Image, Part, Pages
<1>2. e \in [Pages -> AnyPage] /\ e[p] = g[p] /\ \A q \in Pages \ {p} : e[q] = f[q]
  BY <1>1
<1>3. Part(e) /\ DOMAIN e = Pages
  <2>1. \A i \in Ids : e[i] = f[i] \/ e[i] = g[i]
    BY <1>1, <1>2
  <2>2. e[Catalog] = f[Catalog] \/ e[Catalog] = g[Catalog]
    BY <1>1, <1>2
  <2> QED
    BY <1>1, <1>2, <2>1, <2>2 DEF Image, Part
<1> QED
  BY <1>2, <1>3 DEF Image

LEMMA DiskStep == TypeInv /\ [Next]_vars => DiskInv'
<1> SUFFICES ASSUME TypeInv, [Next]_vars PROVE DiskInv'
  OBVIOUS
<1>0. DiskInv /\ SnapInv /\ OpInv
  BY DEF TypeInv
<1> DEFINE Same == UNCHANGED <<file, wal, held, mode, probe, commits>>
<1>1. ASSUME Same PROVE DiskInv'
  <2>1. Stored' = Stored /\ View' = View
    BY <1>1 DEF Stored, View
  <2> QED
    BY <1>0, <1>1, <2>1 DEF DiskInv
<1>2. ASSUME OpenSQLiteConfig PROVE DiskInv'
  <2>1. /\ mode = "closed" /\ held = Nothing /\ mode' = "schema" /\ probe' = {}
        /\ UNCHANGED <<wal, held, commits>>
        /\ file' = IF Stored = BlankFile THEN EmptyImage ELSE file
        /\ ~Torn(Stored) \/ Stored = BlankFile
    BY <1>0, <1>2, ModesAre DEF OpenSQLiteConfig, DiskInv, counters, StepNames
  <2>2. Image(file') /\ Part(wal') /\ held' = Nothing
    BY <1>0, <2>1, FirstIs DEF DiskInv, Whole
  <2>3. Stored' = Over(wal, file') /\ View' = Stored' /\ Image(Stored')
    BY <2>1, <2>2, ReadsOf DEF Stored, View
  <2>4. Whole(Stored')
    <3>1. CASE Stored = BlankFile
      <4>1. DOMAIN wal = {}
        <5>1. \A p \in DOMAIN wal : p \in Pages /\ Stored[p] = wal[p]
          BY <1>0 DEF Stored, Over, DiskInv, Part
        <5>2. \A p \in Pages : BlankFile[p] = Blank
          BY DEF BlankFile
        <5> QED
          BY <1>0, <3>1, <5>1, <5>2 DEF DiskInv
      <4>2. file' = EmptyImage
        BY <2>1, <3>1
      <4>3. \A p \in Pages : Stored'[p] = file'[p]
        BY <2>2, <2>3, <4>1 DEF Over, Image
      <4> QED
        BY <2>3, <4>2, <4>3, FirstIs DEF Whole, Torn
    <3>2. CASE Stored # BlankFile
      BY <2>1, <2>3, <3>2 DEF Whole, Stored
    <3> QED
      BY <3>1, <3>2
  <2> QED
    BY <1>0, <2>1, <2>2, <2>3, <2>4 DEF DiskInv, StepNames
<1>3. ASSUME RunSchemaEvolution PROVE DiskInv'
  <2>1. /\ mode \in StepNames /\ held = Nothing /\ held' = Nothing /\ file' = file /\ commits' = commits
        /\ View = Stored /\ Whole(View)
    BY <1>0, <1>3, ReadsAre DEF RunSchemaEvolution, DiskInv, counters
  <2>2. CASE wal' = Over(Changed(Effect(mode, View)), wal)
    <3>1. PICK e : e = Effect(mode, View)
      OBVIOUS
    <3>2. Whole(e)
      BY <2>1, <3>1, StepWhole
    <3>3. wal' = Over(Changed(e), wal) /\ mode # "closed"
      BY <2>1, <2>2, <3>1 DEF StepNames
    <3>4. /\ Part(wal') /\ \A p \in DOMAIN wal' : wal'[p] # Blank
          /\ View' = e
      BY <1>0, <2>1, <3>2, <3>3, CommittedReads
    <3>5. mode' \in {"closed", "open"} \union StepNames /\ probe' \subseteq LegacyOnly
      BY <1>0, <1>3, <2>1, ModesAre DEF RunSchemaEvolution, DiskInv
    <3>6. Image(file') /\ Whole(View')
      BY <1>0, <2>1, <3>2, <3>4 DEF DiskInv
    <3> QED
      BY <1>0, <2>1, <3>4, <3>5, <3>6 DEF DiskInv
  <2>3. CASE wal' = wal
    <3>1. mode' \in {"closed", "open"} \union StepNames /\ probe' \subseteq LegacyOnly
      BY <1>0, <1>3, <2>1, ModesAre DEF RunSchemaEvolution, DiskInv
    <3>2. View' = View
      BY <2>1, <2>3 DEF View, Stored
    <3> QED
      BY <1>0, <2>1, <2>3, <3>1, <3>2 DEF DiskInv
  <2> QED
    BY <1>3, <2>2, <2>3 DEF RunSchemaEvolution
<1>4. ASSUME NEW i \in Ids, Put(i) \/ Delete(i) PROVE DiskInv'
  <2>1. PICK row \in Rows : WriteRow(i, row)
    <3>1. Absent \in Rows /\ (commits < MaxCommits => Row(commits + 1, FALSE, TRUE) \in Rows)
      BY <1>0, BackupsAssumption DEF Absent, Row, Rows, DiskInv
    <3> QED
      BY <1>4, <3>1 DEF Put, Delete
  <2>2. PICK e : e = [View EXCEPT ![i] = row, ![Catalog].labelled = @ \union {i}]
    OBVIOUS
  <2>3. /\ mode = "open" /\ file' = file /\ mode' = mode /\ probe' = probe
        /\ commits < MaxCommits /\ commits' = commits + 1
    BY <1>4 DEF Put, Delete, InUse
  <2>4. Whole(View)
    BY <1>0, <2>3, ReadsAre
  <2>5. Whole(e)
    <3>1. e = Wrote(View, i, row)
      BY <2>2 DEF Wrote
    <3> QED
      BY <2>4, <3>1, RowWritten
  <2>6. wal' = Over(Changed(e), wal) /\ held' = IF held = Nothing THEN Nothing ELSE e
    BY <2>1, <2>2 DEF WriteRow
  <2>7. /\ Part(wal') /\ \A p \in DOMAIN wal' : wal'[p] # Blank
        /\ View' = e
    BY <1>0, <2>3, <2>5, <2>6, CommittedReads
  <2>8. commits' \in 1 .. MaxCommits
    BY <1>0, <2>3, BackupsAssumption DEF DiskInv
  <2>9. Whole(View') /\ (held' = Nothing \/ Whole(held'))
    BY <2>5, <2>6, <2>7
  <2> QED
    BY <1>0, <2>3, <2>7, <2>8, <2>9 DEF DiskInv
<1>5. ASSUME PassiveCheckpoint PROVE DiskInv'
  <2>1. /\ file' = Stored /\ UNCHANGED <<wal, held, mode, probe, commits>>
    BY <1>5 DEF PassiveCheckpoint, counters
  <2>2. Image(Stored) /\ Image(file')
    BY <1>0, <2>1, ReadsAre
  <2>3. Stored' = Stored
    <3>1. Over(wal, Over(wal, file)) = Over(wal, file)
      BY DEF Over
    <3> QED
      BY <2>1, <3>1 DEF Stored
  <2>4. View' = View
    BY <2>1, <2>3 DEF View
  <2> QED
    BY <1>0, <2>1, <2>2, <2>4 DEF DiskInv
<1>6. ASSUME (file' = Stored /\ wal' = Nothing) \/ UNCHANGED <<file, wal>>,
             UNCHANGED <<probe, commits>>,
             \/ held' = Nothing /\ mode' = "closed"
             \/ UNCHANGED <<held, mode>>
      PROVE  DiskInv'
  <2>1. Image(file') /\ Part(wal') /\ (\A p \in DOMAIN wal' : wal'[p] # Blank)
    BY <1>0, <1>6, ReadsAre, NothingIs DEF DiskInv
  <2>2. Stored' = Stored
    <3>1. CASE file' = Stored /\ wal' = Nothing
      <4>1. Stored' = Over(Nothing, Stored)
        BY <1>6, <3>1 DEF Stored
      <4> QED
        BY <1>0, <4>1, ReadsAre, NothingIs
    <3>2. CASE UNCHANGED <<file, wal>>
      BY <3>2 DEF Stored
    <3> QED
      BY <1>6, <3>1, <3>2
  <2>3. CASE held' = Nothing /\ mode' = "closed"
    BY <1>0, <1>6, <2>1, <2>3 DEF DiskInv
  <2>4. CASE UNCHANGED <<held, mode>>
    <3>1. View' = View
      BY <2>2, <2>4 DEF View
    <3> QED
      BY <1>0, <1>6, <2>1, <2>4, <3>1 DEF DiskInv
  <2> QED
    BY <1>6, <2>3, <2>4
<1>7. ASSUME Close PROVE DiskInv'
  BY <1>6, <1>7 DEF Close, FileAfterTruncate, LogAfterTruncate, counters
<1>8. ASSUME CheckpointLog PROVE DiskInv'
  BY <1>6, <1>8 DEF CheckpointLog, FileAfterTruncate, LogAfterTruncate, counters
<1>9. ASSUME Crash PROVE DiskInv'
  BY <1>6, <1>9 DEF Crash
<1>10. ASSUME TruncateFile PROVE DiskInv'
  <2>1. /\ file' = BlankFile /\ held' = IF mode = "open" THEN View ELSE Nothing
        /\ UNCHANGED <<wal, mode, probe, commits>>
    BY <1>10 DEF TruncateFile, counters
  <2>2. op.pc = "restore" /\ mode \in {"closed", "open"}
    BY <1>0, <1>10, IdleIs DEF TruncateFile, OpInv, DiskInv
  <2>3. Image(file')
    BY <2>1, FirstIs
  <2>4. mode = "open" => Whole(View) /\ Whole(held') /\ View' = held'
    BY <1>0, <2>1, <2>3, ReadsOf, ReadsAre DEF View, Stored, DiskInv
  <2>5. held' = Nothing \/ Whole(held')
    BY <2>1, <2>4
  <2> QED
    BY <1>0, <2>1, <2>2, <2>3, <2>4, <2>5 DEF DiskInv
<1>11. ASSUME OverwritePage PROVE DiskInv'
  <2>1. PICK p \in op.todo : file' = [file EXCEPT ![p] = snaps[op.target][p]]
    BY <1>11 DEF OverwritePage
  <2>2. UNCHANGED <<wal, held, mode, probe, commits>> /\ op.pc = "overwrite"
    BY <1>11 DEF OverwritePage, counters
  <2>3. p \in Pages /\ Image(snaps[op.target]) /\ Image(file)
    BY <1>0, <2>1, <2>2 DEF OpInv, SnapInv, Restores, DiskInv
  <2>4. PICK s : s = snaps[op.target]
    OBVIOUS
  <2>5. Image(file')
    BY <2>1, <2>3, <2>4, PageTaken
  <2>6. mode \in {"closed", "open"} /\ (mode = "open" => held # Nothing)
    BY <1>0, <2>2, IdleIs DEF OpInv, DiskInv
  <2>7. mode = "open" => Whole(held) /\ View = held /\ View' = held
    BY <1>0, <2>2, <2>5, <2>6, ReadsOf, ReadsAre DEF View, Stored, DiskInv
  <2> QED
    BY <1>0, <2>2, <2>5, <2>6, <2>7 DEF DiskInv
<1>12. ASSUME Next PROVE DiskInv'
  <2>1. CASE OpenSQLiteConfig \/ RunSchemaEvolution \/ Close \/ Crash \/ PassiveCheckpoint
             \/ CheckpointLog \/ TruncateFile \/ OverwritePage \/ \E i \in Ids : Put(i) \/ Delete(i)
    BY <1>2, <1>3, <1>4, <1>5, <1>7, <1>8, <1>9, <1>10, <1>11, <2>1
  <2>2. CASE Tick \/ Create \/ CreateFile \/ CopyPage \/ SaveReturn \/ CopyFails
             \/ AutoSnapshot \/ CleanCall \/ Clean \/ DeleteSnapshot \/ RestoreReturn
    BY <1>1, <2>2 DEF Tick, Create, CreateFile, CopyPage, SaveReturn, CopyFails, AutoSnapshot, CleanCall,
                      Clean, DeleteSnapshot, RestoreReturn, disk, counters
  <2>3. CASE \E key \in DOMAIN snaps : Restore(key) \/ RestoreClosed(key)
    BY <1>1, <2>3 DEF Restore, RestoreClosed, disk, counters
  <2> QED
    BY <1>12, <2>1, <2>2, <2>3 DEF Next
<1> QED
  BY <1>1, <1>12 DEF vars, disk, counters, history

LEMMA SnapStep == TypeInv /\ [Next]_vars => SnapInv'
<1> SUFFICES ASSUME TypeInv, [Next]_vars PROVE SnapInv'
  OBVIOUS
<1>0. DiskInv /\ SnapInv /\ OpInv
  BY DEF TypeInv
<1>1. ASSUME UNCHANGED <<snaps, clock>> PROVE SnapInv'
  BY <1>0, <1>1 DEF SnapInv
<1>2. ASSUME Tick PROVE SnapInv'
  BY <1>0, <1>2, BackupsAssumption DEF Tick, SnapInv
<1>3. ASSUME CreateFile PROVE SnapInv'
  <2>1. PICK key : key = SnapshotKey(clock, op.name)
    OBVIOUS
  <2>2. key \in Keys
    BY <1>0, <2>1 DEF SnapshotKey, Keys, SnapInv, OpInv, Ops
  <2>3. snaps' = With(snaps, key, BlankFile) /\ clock' = clock
    BY <1>3, <2>1 DEF CreateFile, counters
  <2>4. DOMAIN snaps' = DOMAIN snaps \union {key}
        /\ \A k \in DOMAIN snaps' : snaps'[k] = IF k = key THEN BlankFile ELSE snaps[k]
    BY <2>3 DEF With
  <2> QED
    BY <1>0, <2>2, <2>3, <2>4, FirstIs DEF SnapInv
<1>4. ASSUME CopyPage PROVE SnapInv'
  <2>1. PICK p \in op.todo : snaps' = [snaps EXCEPT ![op.key][p] = file[p]]
    BY <1>4 DEF CopyPage
  <2>2. op.pc = "copy" /\ clock' = clock
    BY <1>4 DEF CopyPage, counters
  <2>3. p \in Pages /\ op.key \in DOMAIN snaps /\ Image(file)
    BY <1>0, <2>1, <2>2 DEF OpInv, DiskInv
  <2>4. PICK s : s = snaps[op.key]
    OBVIOUS
  <2>5. PICK e : e = [s EXCEPT ![p] = file[p]]
    OBVIOUS
  <2>6. Image(e)
    BY <1>0, <2>3, <2>4, <2>5, PageTaken DEF SnapInv
  <2>7. DOMAIN snaps' = DOMAIN snaps
        /\ \A k \in DOMAIN snaps : snaps'[k] = IF k = op.key THEN e ELSE snaps[k]
    BY <2>1, <2>3, <2>4, <2>5
  <2> QED
    BY <1>0, <2>2, <2>6, <2>7 DEF SnapInv
<1>5. ASSUME DeleteSnapshot PROVE SnapInv'
  <2>1. clock' = clock /\ (snaps' = snaps \/ \E k \in op.todo : snaps' = Without(snaps, k))
    BY <1>5 DEF DeleteSnapshot, counters
  <2>2. CASE snaps' = snaps
    BY <1>1, <2>1, <2>2
  <2>3. ASSUME NEW k \in op.todo, snaps' = Without(snaps, k) PROVE SnapInv'
    <3>1. DOMAIN snaps' \subseteq DOMAIN snaps /\ \A l \in DOMAIN snaps' : snaps'[l] = snaps[l]
      BY <2>3 DEF Without
    <3> QED
      BY <1>0, <2>1, <3>1 DEF SnapInv
  <2> QED
    BY <2>1, <2>2, <2>3
<1>6. ASSUME Next PROVE SnapInv'
  <2>1. CASE Tick \/ CreateFile \/ CopyPage \/ DeleteSnapshot
    BY <1>2, <1>3, <1>4, <1>5, <2>1
  <2>2. CASE OpenSQLiteConfig \/ RunSchemaEvolution \/ Close \/ Crash \/ PassiveCheckpoint
             \/ CheckpointLog \/ TruncateFile \/ OverwritePage \/ \E i \in Ids : Put(i) \/ Delete(i)
    BY <1>1, <2>2 DEF OpenSQLiteConfig, RunSchemaEvolution, Close, Crash, PassiveCheckpoint, CheckpointLog,
                      TruncateFile, OverwritePage, Put, Delete, counters
  <2>3. CASE Create \/ SaveReturn \/ CopyFails \/ AutoSnapshot \/ CleanCall \/ Clean \/ RestoreReturn
    BY <1>1, <2>3 DEF Create, SaveReturn, CopyFails, AutoSnapshot, CleanCall, Clean, RestoreReturn, counters
  <2>4. CASE \E key \in DOMAIN snaps : Restore(key) \/ RestoreClosed(key)
    BY <1>1, <2>4 DEF Restore, RestoreClosed, counters
  <2> QED
    BY <1>6, <2>1, <2>2, <2>3, <2>4 DEF Next
<1> QED
  BY <1>1, <1>6 DEF vars, counters

LEMMA SavingIs ==
    ASSUME DiskInv, mode = "open", NEW name \in SnapNames, NEW next \in {"idle", "clean", "restore"},
           NEW target \in Keys \union {NoKey}
    PROVE  /\ Saving(name, next, target) \in Ops
           /\ Saving(name, next, target).pc = "checkpoint"
           /\ Saving(name, next, target).name = name
           /\ Saving(name, next, target).next = next
           /\ Saving(name, next, target).target = target
           /\ Saving(name, next, target).seen = {View}
<1>1. View \in [Pages -> AnyPage]
  BY ReadsAre DEF Whole, Image, Part
<1> QED
  BY <1>1, IdleIs DEF Saving, Ops, Saves

LEMMA OpStep == TypeInv /\ [Next]_vars => OpInv'
<1> SUFFICES ASSUME TypeInv, [Next]_vars PROVE OpInv'
  OBVIOUS
<1>0. DiskInv /\ SnapInv /\ OpInv /\ DiskInv' /\ SnapInv'
  BY DiskStep, SnapStep DEF TypeInv
<1>1. ASSUME UNCHANGED <<op, mode, held, snaps>> PROVE OpInv'
  BY <1>0, <1>1 DEF OpInv
<1>2. ASSUME op' = Idle PROVE OpInv'
  BY <1>2, IdleIs DEF OpInv, Saves, Restores
<1>3. ASSUME RunSchemaEvolution PROVE OpInv'
  <2>1. op = Idle /\ mode' \in {"closed", "open"} \union StepNames /\ UNCHANGED <<snaps, held>>
    BY <1>0, <1>3 DEF RunSchemaEvolution, DiskInv, OpInv
  <2>2. CASE mode' # "open"
    BY <1>2, <1>3, <2>1, <2>2 DEF RunSchemaEvolution
  <2>3. CASE mode' = "open"
    <3>1. op' = [Idle EXCEPT !.pc = "auto", !.auto = TRUE, !.since = clock]
      BY <1>3, <2>3 DEF RunSchemaEvolution
    <3>2. op' \in Ops /\ op'.pc = "auto" /\ op'.next = "idle"
      BY <1>0, <3>1, IdleIs DEF SnapInv, Ops
    <3> QED
      BY <2>3, <3>2 DEF OpInv, StepNames, Saves, Restores
  <2> QED
    BY <2>2, <2>3
<1>4. ASSUME NEW i \in Ids, Put(i) \/ Delete(i) PROVE OpInv'
  <2>1. PICK row \in Rows : WriteRow(i, row)
    <3>1. Absent \in Rows /\ (commits < MaxCommits => Row(commits + 1, FALSE, TRUE) \in Rows)
      BY <1>0, BackupsAssumption DEF Absent, Row, Rows, DiskInv
    <3> QED
      BY <1>4, <3>1 DEF Put, Delete
  <2>2. /\ mode = "open" /\ mode' = mode /\ snaps' = snaps
    BY <1>4 DEF Put, Delete, InUse
  <2>3. PICK e : e = [View EXCEPT ![i] = row, ![Catalog].labelled = @ \union {i}]
    OBVIOUS
  <2>4. Whole(e)
    <3>1. Whole(View)
      BY <1>0, <2>2, ReadsAre
    <3>2. e = Wrote(View, i, row)
      BY <2>3 DEF Wrote
    <3> QED
      BY <3>1, <3>2, RowWritten
  <2>5. e \in [Pages -> AnyPage] /\ e # Nothing
    BY <2>4, NothingIs DEF Whole, Image, Part, Pages
  <2>6. /\ op' = [op EXCEPT !.seen = IF Quiet THEN {} ELSE op.seen \union {e}]
        /\ held' = IF held = Nothing THEN Nothing ELSE e
    BY <2>1, <2>3 DEF WriteRow
  <2>7. /\ op' \in Ops /\ op'.pc = op.pc /\ op'.next = op.next /\ op'.todo = op.todo
        /\ op'.key = op.key /\ op'.target = op.target
    BY <1>0, <2>5, <2>6 DEF OpInv, Ops
  <2>8. held # Nothing => held' # Nothing
    BY <2>5, <2>6
  <2>9. op = Idle => op' = Idle
    <3> SUFFICES ASSUME op = Idle PROVE op' = Idle
      OBVIOUS
    <3>1. Quiet
      BY IdleIs DEF Quiet
    <3> QED
      BY <2>6, <3>1, IdleIs
  <2> QED
    BY <1>0, <2>2, <2>7, <2>8, <2>9 DEF OpInv, StepNames
<1>5. ASSUME UNCHANGED snaps, mode = "open", mode' = "open", op' \in Ops, op'.pc = "checkpoint",
             op'.next = "restore" => op'.target \in DOMAIN snaps
      PROVE  OpInv'
  BY <1>5 DEF OpInv, StepNames, Saves, Restores
<1>6. ASSUME Create PROVE OpInv'
  <2>1. mode = "open" /\ UNCHANGED <<snaps, mode>> /\ op' = Saving("", "idle", NoKey)
    BY <1>6 DEF Create, Callable, InUse
  <2>2. PICK none \in SnapNames : none = ""
    BY DEF SnapNames
  <2>3. op' = Saving(none, "idle", NoKey)
    BY <2>1, <2>2
  <2>5. DiskInv /\ mode = "open"
    BY <1>0, <2>1
  <2>4. Saving(none, "idle", NoKey) \in Ops /\ Saving(none, "idle", NoKey).pc = "checkpoint"
        /\ Saving(none, "idle", NoKey).next = "idle"
    BY <2>5, SavingIs
  <2> QED
    BY <1>5, <2>1, <2>3, <2>4
<1>7. ASSUME AutoSnapshot PROVE OpInv'
  <2>1. mode = "open" /\ UNCHANGED <<snaps, mode>> /\ op.since \in 0 .. MaxTime
    BY <1>0, <1>7 DEF AutoSnapshot, OpInv, Ops
  <2>2. ASSUME NEW next \in {"idle", "clean"},
               op' = [Saving("auto", next, NoKey) EXCEPT !.auto = TRUE, !.since = op.since]
        PROVE  OpInv'
    <3>1. PICK o : o = Saving("auto", next, NoKey)
      OBVIOUS
    <3>2. o \in Ops /\ o.pc = "checkpoint" /\ o.next = next
      <4>1. "auto" \in SnapNames
        BY DEF SnapNames
      <4>2. /\ Saving("auto", next, NoKey) \in Ops
            /\ Saving("auto", next, NoKey).pc = "checkpoint"
            /\ Saving("auto", next, NoKey).next = next
        BY <1>0, <2>1, <4>1, SavingIs
      <4> QED
        BY <3>1, <4>2
    <3>3. op' \in Ops /\ op'.pc = "checkpoint" /\ op'.next = next
      BY <2>1, <2>2, <3>1, <3>2 DEF Ops
    <3> QED
      BY <1>5, <2>1, <3>3
  <2> QED
    BY <1>2, <1>7, <2>2 DEF AutoSnapshot
<1>8. ASSUME NEW key \in DOMAIN snaps, Restore(key) PROVE OpInv'
  <2>1. mode = "open" /\ UNCHANGED <<snaps, mode>> /\ op' = Saving("pre-restore", "restore", key)
    BY <1>8 DEF Restore, RestoreOp, Callable, InUse
  <2>2. key \in Keys
    BY <1>0 DEF SnapInv
  <2>3. op' \in Ops /\ op'.pc = "checkpoint" /\ op'.target = key
    BY <1>0, <2>1, <2>2, SavingIs DEF SnapNames
  <2> QED
    BY <1>5, <2>1, <2>3
<1>9. ASSUME NEW key \in DOMAIN snaps, RestoreClosed(key) PROVE OpInv'
  <2>1. mode = "closed" /\ UNCHANGED <<snaps, mode>> /\ op' = [Idle EXCEPT !.pc = "restore", !.target = key]
    BY <1>9 DEF RestoreClosed
  <2>2. key \in Keys
    BY <1>0 DEF SnapInv
  <2>3. op' \in Ops /\ op'.pc = "restore" /\ op'.target = key /\ op'.next = "idle"
    BY <2>1, <2>2, IdleIs DEF Ops, Restores
  <2> QED
    BY <2>1, <2>3 DEF OpInv, StepNames, Saves, Restores
<1>10. ASSUME CheckpointLog PROVE OpInv'
  <2>1. op.pc = "checkpoint" /\ op' = [op EXCEPT !.pc = "create"] /\ UNCHANGED <<snaps, mode>>
    BY <1>10 DEF CheckpointLog
  <2>2. op' \in Ops /\ op'.pc = "create" /\ op'.next = op.next /\ op'.target = op.target
    BY <1>0, <2>1 DEF OpInv, Ops, Saves
  <2> QED
    BY <1>0, <2>1, <2>2 DEF OpInv, StepNames, Saves, Restores
<1>11. ASSUME CreateFile PROVE OpInv'
  <2>1. PICK key : key = SnapshotKey(clock, op.name)
    OBVIOUS
  <2>2. key \in Keys
    BY <1>0, <2>1 DEF SnapshotKey, Keys, SnapInv, OpInv, Ops
  <2>3. /\ op.pc = "create" /\ mode' = mode /\ snaps' = With(snaps, key, BlankFile)
        /\ op' = [op EXCEPT !.pc = "copy", !.key = key, !.todo = Pages]
    BY <1>11, <2>1 DEF CreateFile
  <2>4. DOMAIN snaps' = DOMAIN snaps \union {key}
    BY <2>3 DEF With
  <2>5. /\ op' \in Ops /\ op'.pc = "copy" /\ op'.next = op.next /\ op'.target = op.target
        /\ op'.key = key /\ op'.todo = Pages
    BY <1>0, <2>2, <2>3 DEF OpInv, Ops, Saves
  <2> QED
    BY <1>0, <2>3, <2>4, <2>5 DEF OpInv, StepNames, Saves, Restores
<1>12. ASSUME CopyPage PROVE OpInv'
  <2>1. PICK p \in op.todo : /\ snaps' = [snaps EXCEPT ![op.key][p] = file[p]]
                             /\ op' = [op EXCEPT !.todo = @ \ {p}]
    BY <1>12 DEF CopyPage
  <2>2. op.pc = "copy" /\ mode' = mode /\ DOMAIN snaps' = DOMAIN snaps
    BY <1>12, <2>1 DEF CopyPage
  <2>3. /\ op' \in Ops /\ op'.pc = op.pc /\ op'.next = op.next /\ op'.target = op.target
        /\ op'.key = op.key /\ op'.todo \subseteq op.todo
    BY <1>0, <2>1 DEF OpInv, Ops
  <2> QED
    BY <1>0, <2>2, <2>3 DEF OpInv, StepNames, Saves, Restores
<1>13. ASSUME SaveReturn PROVE OpInv'
  <2>1. CASE op.next = "idle"
    BY <1>2, <1>13, <2>1 DEF SaveReturn
  <2>2. CASE op.next # "idle"
    <3>1. op.pc = "copy" /\ op' = [op EXCEPT !.pc = op.next, !.seen = {}] /\ UNCHANGED <<snaps, mode, held>>
      BY <1>13, <2>2 DEF SaveReturn, disk
    <3>2. /\ op' \in Ops /\ op'.pc = op.next /\ op'.next = op.next /\ op'.target = op.target
          /\ op.next \in {"clean", "restore"}
      BY <1>0, <2>2, <3>1 DEF OpInv, Ops, Restores
    <3> QED
      BY <1>0, <3>1, <3>2 DEF OpInv, StepNames, Saves, Restores
  <2> QED
    BY <2>1, <2>2
<1>14. ASSUME CleanCall PROVE OpInv'
  <2>1. mode = "open" /\ UNCHANGED <<snaps, mode>> /\ op' = [Idle EXCEPT !.pc = "clean"]
    BY <1>14 DEF CleanCall, Callable, InUse
  <2>2. op' \in Ops /\ op'.pc = "clean" /\ op'.next = "idle"
    BY <2>1, IdleIs DEF Ops
  <2> QED
    BY <2>1, <2>2 DEF OpInv, StepNames, Saves, Restores
<1>15. ASSUME Clean PROVE OpInv'
  <2>1. PICK K \in Firsts(MaxCount) :
          op' = [op EXCEPT !.pc = "delete", !.todo = {k \in DOMAIN snaps : k \notin K \/ TooOld(k)}]
    BY <1>15 DEF Clean
  <2>2. PICK T : T = {k \in DOMAIN snaps : k \notin K \/ TooOld(k)}
    OBVIOUS
  <2>3. op.pc = "clean" /\ UNCHANGED <<snaps, mode>> /\ T \subseteq Keys
        /\ op' = [op EXCEPT !.pc = "delete", !.todo = T]
    BY <1>0, <1>15, <2>1, <2>2 DEF Clean, SnapInv
  <2>4. op' \in Ops /\ op'.pc = "delete" /\ op'.next = op.next
    BY <1>0, <2>3 DEF OpInv, Ops
  <2> QED
    BY <1>0, <2>3, <2>4 DEF OpInv, StepNames, Saves, Restores
<1>16. ASSUME DeleteSnapshot PROVE OpInv'
  <2>1. CASE op' = Idle
    BY <1>2, <2>1
  <2>2. ASSUME NEW k \in op.todo, op' = [op EXCEPT !.todo = @ \ {k}] PROVE OpInv'
    <3>1. op.pc = "delete" /\ mode' = mode
      BY <1>16 DEF DeleteSnapshot
    <3>2. op' \in Ops /\ op'.pc = "delete" /\ op'.next = op.next
      BY <1>0, <2>2, <3>1 DEF OpInv, Ops
    <3> QED
      BY <1>0, <3>1, <3>2 DEF OpInv, StepNames, Saves, Restores
  <2> QED
    BY <1>16, <2>1, <2>2 DEF DeleteSnapshot
<1>17. ASSUME TruncateFile PROVE OpInv'
  <2>1. /\ op.pc = "restore" /\ UNCHANGED <<snaps, mode>> /\ op' = [op EXCEPT !.pc = "overwrite", !.todo = Pages]
        /\ held' = IF mode = "open" THEN View ELSE Nothing
    BY <1>17 DEF TruncateFile
  <2>2. /\ op' \in Ops /\ op'.pc = "overwrite" /\ op'.next = op.next /\ op'.target = op.target
        /\ op'.todo = Pages
    BY <1>0, <2>1 DEF OpInv, Ops, Restores
  <2>3. mode = "open" => held' # Nothing
    BY <1>0, <2>1, ReadsAre, NothingIs DEF Whole, Image, Pages
  <2>4. mode \notin StepNames
    BY <1>0, <2>1, IdleIs DEF OpInv
  <2> QED
    BY <1>0, <2>1, <2>2, <2>3, <2>4 DEF OpInv, Saves, Restores
<1>18. ASSUME OverwritePage PROVE OpInv'
  <2>1. PICK p \in op.todo : op' = [op EXCEPT !.todo = @ \ {p}]
    BY <1>18 DEF OverwritePage
  <2>2. op.pc = "overwrite" /\ UNCHANGED <<snaps, mode, held>>
    BY <1>18 DEF OverwritePage
  <2>3. /\ op' \in Ops /\ op'.pc = op.pc /\ op'.next = op.next /\ op'.target = op.target
        /\ op'.todo \subseteq op.todo
    BY <1>0, <2>1 DEF OpInv, Ops
  <2>4. mode \notin StepNames
    BY <1>0, <2>2, IdleIs DEF OpInv
  <2> QED
    BY <1>0, <2>2, <2>3, <2>4 DEF OpInv, Saves, Restores
<1>19. ASSUME OpenSQLiteConfig \/ Close PROVE OpInv'
  <2>1. op.pc = "idle" /\ op' = op /\ snaps' = snaps /\ mode' \notin {"open"}
    BY <1>19, ModesAre DEF OpenSQLiteConfig, Close, Quiet, counters
  <2>2. CASE Close
    BY <1>0, <2>1, <2>2 DEF OpInv, Close, Saves, Restores, StepNames
  <2>3. CASE OpenSQLiteConfig
    <3>1. op = Idle
      BY <1>0, <2>1 DEF OpInv
    <3> QED
      BY <1>2, <2>1, <3>1
  <2> QED
    BY <1>19, <2>2, <2>3
<1>20. ASSUME Next PROVE OpInv'
  <2>1. CASE OpenSQLiteConfig \/ RunSchemaEvolution \/ Close \/ \E i \in Ids : Put(i) \/ Delete(i)
    BY <1>3, <1>4, <1>19, <2>1
  <2>2. CASE Crash \/ CopyFails \/ RestoreReturn
    BY <1>2, <2>2 DEF Crash, CopyFails, RestoreReturn
  <2>3. CASE PassiveCheckpoint \/ Tick
    BY <1>1, <2>3 DEF PassiveCheckpoint, Tick, disk
  <2>4. CASE Create \/ CheckpointLog \/ CreateFile \/ CopyPage \/ SaveReturn \/ AutoSnapshot
    BY <1>6, <1>7, <1>10, <1>11, <1>12, <1>13, <2>4
  <2>5. CASE CleanCall \/ Clean \/ DeleteSnapshot \/ TruncateFile \/ OverwritePage
    BY <1>14, <1>15, <1>16, <1>17, <1>18, <2>5
  <2>6. CASE \E key \in DOMAIN snaps : Restore(key) \/ RestoreClosed(key)
    BY <1>8, <1>9, <2>6
  <2> QED
    BY <1>20, <2>1, <2>2, <2>3, <2>4, <2>5, <2>6 DEF Next
<1> QED
  BY <1>1, <1>20 DEF vars, disk

LEMMA InitSnap == Init => SnapInv /\ OpInv
<1> SUFFICES ASSUME Init PROVE SnapInv /\ OpInv
  OBVIOUS
<1>1. op = Idle /\ mode = "closed" /\ clock = 0 /\ 0 \in 0 .. MaxTime
  <2>1. MaxTime \in Nat
    BY BackupsAssumption
  <2>2. 0 \in 0 .. MaxTime
    BY <2>1
  <2>3. op = Idle /\ mode = "closed" /\ clock = 0
    BY DEF Init
  <2> QED
    BY <2>2, <2>3
<1>2. OpInv
  BY <1>1, IdleIs DEF OpInv, StepNames, Saves, Restores
<1>3. PICK key : key = <<0, "">>
  OBVIOUS
<1>4. key \in Keys
  BY <1>1, <1>3 DEF Keys, SnapNames
<1>5. snaps = Nothing \/ snaps = With(Nothing, key, FirstImage)
  BY <1>3 DEF Init
<1>6. DOMAIN snaps \subseteq {key} /\ \A k \in DOMAIN snaps : snaps[k] = FirstImage
  <2>1. DOMAIN Nothing = {}
    BY NothingIs
  <2>2. DOMAIN With(Nothing, key, FirstImage) = {key} /\ With(Nothing, key, FirstImage)[key] = FirstImage
    BY <2>1 DEF With
  <2> QED
    BY <1>5, <2>1, <2>2
<1> QED
  BY <1>1, <1>2, <1>4, <1>6, FirstIs DEF SnapInv, Whole

LEMMA Typed == TypeInv => TypeOK
<1> SUFFICES ASSUME TypeInv PROVE TypeOK
  OBVIOUS
<1>0. DiskInv /\ SnapInv
  BY DEF TypeInv
<1>1. \A f : Part(f) => IsPart(f)
  BY DEF Part, IsPart, RowPages, Rows
<1>2. Part(file) /\ DOMAIN file = Pages /\ Part(wal) /\ Part(held)
  BY <1>0, NothingIs DEF DiskInv, Whole, Image
<1>3. \A k \in DOMAIN snaps : Part(snaps[k]) /\ DOMAIN snaps[k] = Pages
  BY <1>0 DEF SnapInv, Image
<1>4. mode \in Modes
  BY <1>0, ModesAre DEF DiskInv
<1> QED
  BY <1>0, <1>1, <1>2, <1>3, <1>4 DEF TypeOK, SnapInv, DiskInv, Keys

LEMMA TypeAlways == Spec => []TypeInv
<1>1. Init => TypeInv
  BY InitDisk, InitSnap DEF TypeInv
<1>2. TypeInv /\ [Next]_vars => TypeInv'
  BY DiskStep, SnapStep, OpStep DEF TypeInv
<1> QED
  BY <1>1, <1>2, PTL DEF Spec

\* The pages of the file, of its log and of the snapshots keep their kinds,
\* whatever is written, cut off or restored, and whoever holds the lock: the
\* copies are page by page, so that a kind could only be lost if a page were
\* put in the place of another.
THEOREM TypeCorrect == Spec => []TypeOK
  BY TypeAlways, Typed, PTL

------------------------------------------------------------------------------
(* What holds when callers keep to the order the backend expects: nothing  *)
(* is written while a file is copied, no two snapshots are named within    *)
(* one unit of the clock, a restored database is reopened before it is     *)
(* used, and the lock is free when a step needs it.                        *)

Orderly == Paused /\ Paced /\ Reopened /\ ~Blocked

\* A torn file has no log, and no log is over a file that is copied.
ReadInv ==
    /\ Torn(Stored) => wal = Nothing
    /\ op.pc \in Saves \union {"auto"} => held = Nothing
    /\ op.pc \in Saves => op.seen = {View}
    /\ op.pc \in {"create", "copy"} \union Restores => wal = Nothing

\* How far a copy has come, and what the finished ones hold.
CopyInv ==
    /\ op.pc = "copy" => /\ op.key \notin DOMAIN kept
                         /\ \A p \in Pages : snaps[op.key][p] = IF p \in op.todo THEN Blank ELSE file[p]
    /\ op.pc = "overwrite" =>
          /\ restored = {}
          /\ \A p \in Pages : file[p] = IF p \in op.todo THEN Blank ELSE snaps[op.target][p]
    /\ \A k \in DOMAIN kept : k \in DOMAIN snaps /\ snaps[k] \in kept[k]

\* Whatever is whole has its aliases, and an open has done what it has passed.
AliasInv ==
    /\ \A k \in DOMAIN snaps : ~Torn(snaps[k]) => AliasesIn(snaps[k])
    /\ ~Torn(Stored) => AliasesIn(Stored)
    /\ mode # "closed" => AliasesIn(View) /\ Reached(mode, View, probe)

Saved(b) == \E k \in DOMAIN snaps : ~Torn(snaps[k]) /\ Index(snaps[k]) = b

\* From the moment the file is about to be replaced, its rows are in a snapshot.
RestoreInv ==
    /\ \A b \in before : Saved(b) \/ (op.pc \notin Restores /\ ~Torn(Stored) /\ Index(Stored) = b)
    /\ \A r \in restored : Index(Stored) = r

SafeInv == TypeInv /\ ReadInv /\ CopyInv /\ AliasInv /\ RestoreInv

\* What each kind of step does to what is read.
LEMMA Opened ==
    ASSUME TypeInv, ReadInv, OpenSQLiteConfig
    PROVE  /\ op = Idle /\ mode = "closed" /\ mode' = "schema" /\ probe' = {}
           /\ held = Nothing /\ held' = Nothing /\ wal' = wal /\ View' = Stored'
           /\ \/ ~Torn(Stored) /\ Stored' = Stored
              \/ Stored = BlankFile /\ Stored' = EmptyImage
<1>0. DiskInv /\ OpInv
  BY DEF TypeInv
<1>1. /\ mode = "closed" /\ op.pc = "idle" /\ mode' = "schema" /\ probe' = {}
      /\ held' = held /\ wal' = wal /\ file' = IF Stored = BlankFile THEN EmptyImage ELSE file
      /\ ~Torn(Stored) \/ Stored = BlankFile
  BY ModesAre DEF OpenSQLiteConfig, Quiet
<1>2. held = Nothing /\ op = Idle
  BY <1>0, <1>1 DEF DiskInv, OpInv
<1>3. Image(file') /\ Stored' = Over(wal, file') /\ View' = Stored'
  <2>1. Image(file')
    BY <1>0, <1>1, FirstIs DEF DiskInv, Whole
  <2>2. Stored' = Over(wal, file') /\ Part(wal)
    BY <1>0, <1>1 DEF Stored, DiskInv
  <2>3. View' = Over(Nothing, Over(wal, file'))
    BY <1>1, <1>2, <2>2 DEF View
  <2> QED
    BY <2>1, <2>2, <2>3, ReadsOf
<1>4. CASE Stored # BlankFile
  BY <1>1, <1>2, <1>3, <1>4 DEF Stored
<1>5. CASE Stored = BlankFile
  <2>1. Torn(BlankFile)
    BY PageKinds DEF Torn, BlankFile
  <2>2. wal = Nothing /\ file' = EmptyImage
    BY <1>1, <1>5, <2>1 DEF ReadInv
  <2>3. Stored' = EmptyImage
    BY <1>3, <2>2, NothingIs
  <2> QED
    BY <1>1, <1>2, <1>3, <1>5, <2>3
<1> QED
  BY <1>4, <1>5

LEMMA Evolved ==
    ASSUME Orderly, TypeInv, RunSchemaEvolution
    PROVE  /\ mode \in StepNames /\ op = Idle /\ held = Nothing /\ held' = Nothing /\ View = Stored /\ Whole(View)
           /\ View' = Stored'
           /\ \/ mode' = "closed" /\ wal' = wal /\ Stored' = Stored
              \/ /\ ~Refused(mode, View) /\ mode' = After(mode)
                 /\ Stored' = Effect(mode, View) /\ Whole(Stored')
                 /\ probe' = IF mode = "probe" THEN View[Catalog].columns \intersect LegacyOnly ELSE probe
<1>0. DiskInv /\ OpInv
  BY DEF TypeInv
<1>1. mode \in StepNames /\ op = Idle /\ held = Nothing /\ held' = Nothing /\ View = Stored /\ Whole(View)
      /\ file' = file /\ mode # "closed"
  BY <1>0, ReadsAre DEF RunSchemaEvolution, DiskInv, OpInv
<1>2. CASE ~Refused(mode, View) /\ wal' = Over(Changed(Effect(mode, View)), wal) /\ mode' = After(mode)
           /\ probe' = IF mode = "probe" THEN View[Catalog].columns \intersect LegacyOnly ELSE probe
  <2>1. PICK e : e = Effect(mode, View)
    OBVIOUS
  <2>2. Whole(e)
    BY <1>1, <2>1, StepWhole
  <2>3. wal' = Over(Changed(e), wal)
    BY <1>2, <2>1
  <2>4. View' = e /\ Stored' = e
    BY <1>0, <1>1, <2>2, <2>3, CommittedReads
  <2> QED
    BY <1>1, <1>2, <2>1, <2>2, <2>4
<1>3. CASE Refused(mode, View) /\ wal' = wal /\ mode' = IF Soft(mode) THEN After(mode) ELSE "closed"
  <2>1. ~Soft(mode)
    BY <1>3 DEF Refused, Soft
  <2>2. Stored' = Stored /\ View' = View
    BY <1>1, <1>3 DEF Stored, View
  <2> QED
    BY <1>1, <1>3, <2>1, <2>2
<1> QED
  BY <1>2, <1>3 DEF RunSchemaEvolution, Orderly

LEMMA Written ==
    ASSUME Orderly, TypeInv, NEW i \in Ids, Put(i) \/ Delete(i)
    PROVE  /\ mode = "open" /\ mode' = mode /\ probe' = probe /\ op = Idle /\ op' = Idle
           /\ held = Nothing /\ held' = Nothing /\ View = Stored /\ View' = Stored' /\ Whole(View)
           /\ before' = {} /\ restored' = {}
           /\ \E row \in Rows :
                 /\ ~row.alias /\ row.n # 1 /\ (row.n > 0 => row.stamped)
                 /\ Whole(Stored')
                 /\ Stored'[i] = row /\ \A j \in Ids \ {i} : Stored'[j] = Stored[j]
                 /\ Stored'[Catalog] = [Stored[Catalog] EXCEPT !.labelled = @ \union {i}]
<1>0. DiskInv /\ OpInv
  BY DEF TypeInv
<1>1. PICK row \in Rows : /\ ~row.alias /\ row.n # 1 /\ (row.n > 0 => row.stamped)
                          /\ WriteRow(i, row)
  <2>1. Absent \in Rows /\ ~Absent.alias /\ Absent.n = 0
    BY BackupsAssumption DEF Absent, Row, Rows
  <2>2. ASSUME commits < MaxCommits
        PROVE  /\ Row(commits + 1, FALSE, TRUE) \in Rows /\ ~Row(commits + 1, FALSE, TRUE).alias
               /\ Row(commits + 1, FALSE, TRUE).n # 1 /\ Row(commits + 1, FALSE, TRUE).stamped
    BY <1>0, <2>2, BackupsAssumption DEF Row, Rows, DiskInv
  <2>3. CASE Put(i)
    BY <2>2, <2>3 DEF Put
  <2>4. CASE Delete(i)
    BY <2>1, <2>4 DEF Delete
  <2> QED
    BY <2>3, <2>4
<1>2. /\ mode = "open" /\ mode' = mode /\ probe' = probe /\ Quiet /\ held = Nothing /\ file' = file
  BY DEF Put, Delete, InUse, Orderly
<1>3. op = Idle /\ View = Stored /\ Whole(View)
  BY <1>0, <1>2, ReadsAre DEF OpInv, Quiet
<1>4. PICK e : e = [View EXCEPT ![i] = row, ![Catalog].labelled = @ \union {i}]
  OBVIOUS
<1>5. /\ Whole(e) /\ e[i] = row /\ \A j \in Ids \ {i} : e[j] = View[j]
      /\ e[Catalog] = [View[Catalog] EXCEPT !.labelled = @ \union {i}]
  <2>1. PICK v : v = View
    OBVIOUS
  <2>2. Whole(v) /\ e = Wrote(v, i, row)
    BY <1>3, <1>4, <2>1 DEF Wrote
  <2>3. /\ Whole(e) /\ e[i] = row /\ \A j \in Ids \ {i} : e[j] = v[j]
        /\ e[Catalog] = [v[Catalog] EXCEPT !.labelled = @ \union {i}]
    BY <2>2, RowWritten
  <2> QED
    BY <2>1, <2>2, <2>3
<1>6. /\ wal' = Over(Changed(e), wal) /\ held' = Nothing /\ before' = {} /\ restored' = {}
      /\ op' = [Idle EXCEPT !.seen = {}]
  BY <1>1, <1>2, <1>3, <1>4 DEF WriteRow
<1>7. View' = e /\ Stored' = e /\ op' = Idle
  BY <1>0, <1>2, <1>5, <1>6, CommittedReads, IdleIs
<1> QED
  BY <1>1, <1>2, <1>3, <1>5, <1>6, <1>7

LEMMA ReadsKept ==
    ASSUME Orderly, TypeInv,
           PassiveCheckpoint \/ CheckpointLog \/ Close \/ Crash \/ UNCHANGED disk
    PROVE  /\ Stored' = Stored
           /\ PassiveCheckpoint \/ CheckpointLog \/ UNCHANGED disk => View' = View
<1>0. DiskInv
  BY DEF TypeInv
<1>1. CASE PassiveCheckpoint
  <2>1. file' = Stored /\ wal' = wal /\ held' = held
    BY <1>1 DEF PassiveCheckpoint
  <2>2. Over(wal, Over(wal, file)) = Over(wal, file)
    BY DEF Over
  <2>3. Stored' = Stored
    BY <2>1, <2>2 DEF Stored
  <2> QED
    BY <2>1, <2>3 DEF View
<1>2. CASE CheckpointLog \/ Close
  <2>1. file' = Stored /\ wal' = Nothing
    BY <1>2 DEF CheckpointLog, Close, FileAfterTruncate, LogAfterTruncate, Orderly
  <2>2. Stored' = Over(Nothing, Stored)
    BY <2>1 DEF Stored
  <2>3. Stored' = Stored
    BY <1>0, <2>2, ReadsAre, NothingIs
  <2>4. CheckpointLog => View' = View
    BY <2>3 DEF CheckpointLog, View
  <2>5. Close /\ (PassiveCheckpoint \/ UNCHANGED disk) => View' = View
    BY <2>3 DEF PassiveCheckpoint, disk, View
  <2> QED
    BY <1>2, <2>3, <2>4, <2>5
<1>3. CASE Crash \/ UNCHANGED disk
  <2>1. Stored' = Stored
    BY <1>3 DEF Crash, Stored, disk
  <2>2. PassiveCheckpoint \/ CheckpointLog \/ UNCHANGED disk => View' = View
    BY <2>1 DEF PassiveCheckpoint, CheckpointLog, disk, View
  <2> QED
    BY <2>1, <2>2
<1> QED
  BY <1>1, <1>2, <1>3

LEMMA ReadStep == ASSUME Orderly, TypeInv, ReadInv, [Next]_vars PROVE ReadInv'
<1>0. DiskInv /\ OpInv /\ op \in Ops
  BY DEF TypeInv, OpInv
<1>1. ASSUME op' = Idle, Torn(Stored') => wal' = Nothing PROVE ReadInv'
  BY <1>1, IdleIs DEF ReadInv, Saves, Restores
<1>2. ASSUME OpenSQLiteConfig PROVE ReadInv'
  <2>1. op' = Idle /\ wal' = wal
    BY <1>2, Opened DEF OpenSQLiteConfig
  <2>2. ~Torn(Stored')
    BY <1>2, Opened, FirstIs DEF Whole
  <2> QED
    BY <1>1, <2>1, <2>2
<1>3. ASSUME RunSchemaEvolution PROVE ReadInv'
  <2>1. ~Torn(Stored') /\ held' = Nothing
    <3>1. ~Torn(Stored)
      BY <1>3, Evolved DEF Whole
    <3> QED
      BY <1>3, <3>1, Evolved DEF Whole
  <2>2. CASE mode' # "open"
    BY <1>1, <1>3, <2>1, <2>2, Evolved DEF RunSchemaEvolution
  <2>3. CASE mode' = "open"
    <3>1. op' = [Idle EXCEPT !.pc = "auto", !.auto = TRUE, !.since = clock]
      BY <1>3, <2>3 DEF RunSchemaEvolution
    <3>2. op'.pc = "auto"
      BY <3>1, IdleIs DEF Ops
    <3> QED
      BY <2>1, <3>2 DEF ReadInv, Saves, Restores
  <2> QED
    BY <2>2, <2>3
<1>4. ASSUME NEW i \in Ids, Put(i) \/ Delete(i) PROVE ReadInv'
  <2>1. op' = Idle /\ Whole(Stored')
    BY <1>4, Written
  <2> QED
    BY <1>1, <2>1 DEF Whole
<1>5. ASSUME op.pc = "idle", mode = "open", held = Nothing, UNCHANGED disk, op'.pc = "checkpoint", op'.seen = {View}
      PROVE  ReadInv'
  <2>1. Stored' = Stored /\ View' = View
    BY <1>5, ReadsKept
  <2> QED
    BY <1>5, <2>1 DEF ReadInv, disk, Saves, Restores
<1>6. ASSUME Create PROVE ReadInv'
  <2>1. /\ op.pc = "idle" /\ mode = "open" /\ held = Nothing /\ UNCHANGED disk
        /\ op' = Saving("", "idle", NoKey)
    BY <1>6 DEF Create, Callable, InUse, Quiet, Orderly
  <2>2. PICK none \in SnapNames : none = ""
    BY DEF SnapNames
  <2>3. DiskInv /\ mode = "open"
    BY <1>0, <2>1
  <2>4. Saving(none, "idle", NoKey).pc = "checkpoint" /\ Saving(none, "idle", NoKey).seen = {View}
    BY <2>3, SavingIs
  <2> QED
    BY <1>5, <2>1, <2>2, <2>4
<1>7. ASSUME NEW key \in DOMAIN snaps, Restore(key) PROVE ReadInv'
  <2>1. /\ op.pc = "idle" /\ mode = "open" /\ held = Nothing /\ UNCHANGED disk
        /\ op' = Saving("pre-restore", "restore", key)
    BY <1>7 DEF Restore, RestoreOp, Callable, InUse, Quiet, Orderly
  <2>2. key \in Keys /\ "pre-restore" \in SnapNames
    BY DEF TypeInv, SnapInv, SnapNames
  <2>3. Saving("pre-restore", "restore", key).pc = "checkpoint"
        /\ Saving("pre-restore", "restore", key).seen = {View}
    BY <1>0, <2>1, <2>2, SavingIs
  <2> QED
    BY <1>5, <2>1, <2>3
<1>8. ASSUME AutoSnapshot PROVE ReadInv'
  <2>1. op.pc = "auto" /\ UNCHANGED disk /\ mode = "open" /\ held = Nothing
    BY <1>0, <1>8 DEF AutoSnapshot, OpInv, ReadInv
  <2>2. Stored' = Stored /\ View' = View
    BY <2>1, ReadsKept
  <2>3. CASE op' = Idle
    BY <1>1, <2>1, <2>2, <2>3 DEF ReadInv, disk
  <2>4. ASSUME NEW next \in {"idle", "clean"},
               op' = [Saving("auto", next, NoKey) EXCEPT !.auto = TRUE, !.since = op.since]
        PROVE  ReadInv'
    <3>1. "auto" \in SnapNames
      BY DEF SnapNames
    <3>2. /\ Saving("auto", next, NoKey) \in Ops
          /\ Saving("auto", next, NoKey).pc = "checkpoint"
          /\ Saving("auto", next, NoKey).seen = {View}
      BY <1>0, <2>1, <3>1, SavingIs
    <3>3. op'.pc = "checkpoint" /\ op'.seen = {View}
      BY <2>4, <3>2 DEF Ops
    <3> QED
      BY <2>1, <2>2, <3>3 DEF ReadInv, disk, Saves, Restores
  <2> QED
    BY <1>8, <2>3, <2>4 DEF AutoSnapshot
<1>9. ASSUME CheckpointLog PROVE ReadInv'
  <2>1. /\ op.pc = "checkpoint" /\ op' = [op EXCEPT !.pc = "create"] /\ held' = held
        /\ wal' = Nothing
    BY <1>9 DEF CheckpointLog, LogAfterTruncate, Orderly
  <2>2. op'.pc = "create" /\ op'.seen = op.seen
    BY <1>0, <2>1 DEF Ops
  <2>3. View' = View
    BY <1>9, ReadsKept
  <2> QED
    BY <2>1, <2>2, <2>3 DEF ReadInv, Saves, Restores
<1>10. ASSUME CreateFile \/ CopyPage PROVE ReadInv'
  <2>1. /\ op.pc \in {"create", "copy"} /\ op'.pc = "copy" /\ op'.seen = op.seen /\ UNCHANGED disk
    BY <1>0, <1>10 DEF CreateFile, CopyPage, Ops
  <2>2. Stored' = Stored /\ View' = View
    BY <2>1, ReadsKept
  <2> QED
    BY <2>1, <2>2 DEF ReadInv, disk, Saves, Restores
<1>11. ASSUME SaveReturn PROVE ReadInv'
  <2>1. op.pc = "copy" /\ UNCHANGED disk
    BY <1>11 DEF SaveReturn
  <2>2. Stored' = Stored
    BY <2>1, ReadsKept
  <2>3. op' = Idle \/ op'.pc \in {"clean", "restore"}
    BY <1>0, <1>11 DEF SaveReturn, Ops
  <2>4. wal' = Nothing
    BY <2>1 DEF ReadInv, disk
  <2> QED
    BY <1>1, <2>2, <2>3, <2>4 DEF ReadInv, Saves, Restores
<1>12. ASSUME UNCHANGED disk, op'.pc \in {"idle", "clean", "delete"} PROVE ReadInv'
  <2>1. Stored' = Stored
    BY <1>12, ReadsKept
  <2> QED
    BY <1>12, <2>1 DEF ReadInv, disk, Saves, Restores
<1>13. ASSUME CopyFails \/ RestoreReturn \/ CleanCall \/ Clean \/ DeleteSnapshot PROVE ReadInv'
  BY <1>0, <1>12, <1>13, IdleIs DEF CopyFails, RestoreReturn, CleanCall, Clean, DeleteSnapshot, Ops
<1>14. ASSUME NEW key \in DOMAIN snaps, RestoreClosed(key) PROVE ReadInv'
  <2>1. Torn(Stored) /\ UNCHANGED disk /\ op'.pc = "restore"
    BY <1>14, IdleIs DEF RestoreClosed, Ops
  <2> QED
    BY <2>1 DEF ReadInv, disk, Saves, Restores
<1>15. ASSUME TruncateFile \/ OverwritePage PROVE ReadInv'
  <2>1. op.pc \in Restores /\ wal' = wal /\ op'.pc = "overwrite"
    BY <1>0, <1>15 DEF TruncateFile, OverwritePage, Restores, Ops
  <2> QED
    BY <2>1 DEF ReadInv, Saves, Restores
<1>16. ASSUME PassiveCheckpoint PROVE ReadInv'
  <2>1. Stored' = Stored /\ View' = View
    BY <1>16, ReadsKept
  <2> QED
    BY <1>16, <2>1 DEF PassiveCheckpoint, ReadInv
<1>17. ASSUME Close PROVE ReadInv'
  <2>1. op.pc = "idle" /\ op' = op /\ wal' = Nothing
    BY <1>17 DEF Close, Quiet, LogAfterTruncate, Orderly
  <2> QED
    BY <2>1 DEF ReadInv, Saves, Restores
<1>18. ASSUME Crash PROVE ReadInv'
  <2>1. Stored' = Stored /\ wal' = wal /\ op' = Idle
    BY <1>18, ReadsKept DEF Crash
  <2> QED
    BY <1>1, <2>1 DEF ReadInv
<1>19. ASSUME UNCHANGED <<disk, op>> PROVE ReadInv'
  <2>1. Stored' = Stored /\ View' = View
    BY <1>19, ReadsKept
  <2> QED
    BY <1>19, <2>1 DEF ReadInv, disk
<1>20. ASSUME Next PROVE ReadInv'
  <2>1. CASE OpenSQLiteConfig \/ RunSchemaEvolution \/ Close \/ Crash \/ PassiveCheckpoint
             \/ \E i \in Ids : Put(i) \/ Delete(i)
    BY <1>2, <1>3, <1>4, <1>16, <1>17, <1>18, <2>1
  <2>2. CASE Create \/ CheckpointLog \/ CreateFile \/ CopyPage \/ SaveReturn \/ AutoSnapshot
    BY <1>6, <1>8, <1>9, <1>10, <1>11, <2>2
  <2>3. CASE CopyFails \/ RestoreReturn \/ CleanCall \/ Clean \/ DeleteSnapshot \/ TruncateFile \/ OverwritePage
    BY <1>13, <1>15, <2>3
  <2>4. CASE \E key \in DOMAIN snaps : Restore(key) \/ RestoreClosed(key)
    BY <1>7, <1>14, <2>4
  <2>5. CASE Tick
    BY <1>19, <2>5 DEF Tick
  <2> QED
    BY <1>20, <2>1, <2>2, <2>3, <2>4, <2>5 DEF Next
<1> QED
  BY <1>19, <1>20 DEF vars, disk

\* With no log, the file is what is read.
LEMMA FileRead == ASSUME DiskInv, wal = Nothing PROVE Stored = file
  BY NothingIs DEF DiskInv, Stored

LEMMA CopyKept == ASSUME Orderly, TypeInv, ReadInv, CopyInv, [Next]_vars PROVE CopyInv'
<1>0. DiskInv /\ SnapInv /\ OpInv /\ op \in Ops
  BY DEF TypeInv, OpInv
<1> DEFINE Old == \A k \in DOMAIN kept : k \in DOMAIN snaps /\ snaps[k] \in kept[k]
<1>1. Old
  BY DEF CopyInv
<1>2. ASSUME UNCHANGED <<snaps, kept>>, op'.pc \notin {"copy", "overwrite"} PROVE CopyInv'
  BY <1>1, <1>2 DEF CopyInv
<1>3. ASSUME OpenSQLiteConfig \/ RunSchemaEvolution \/ Close \/ Crash \/ \E i \in Ids : Put(i) \/ Delete(i)
      PROVE  CopyInv'
  <2>1. UNCHANGED <<snaps, kept>>
    BY <1>3 DEF OpenSQLiteConfig, RunSchemaEvolution, Close, Crash, Put, Delete, counters, history
  <2>2. op'.pc \notin {"copy", "overwrite"}
    <3>1. CASE OpenSQLiteConfig \/ Close
      BY <3>1 DEF OpenSQLiteConfig, Close, Quiet
    <3>2. CASE RunSchemaEvolution
      <4>1. CASE mode' # "open"
        BY <3>2, <4>1, Evolved, IdleIs DEF RunSchemaEvolution
      <4>2. CASE mode' = "open"
        <5>1. op' = [Idle EXCEPT !.pc = "auto", !.auto = TRUE, !.since = clock]
          BY <3>2, <4>2 DEF RunSchemaEvolution
        <5> QED
          BY <5>1, IdleIs DEF Ops
      <4> QED
        BY <4>1, <4>2
    <3>3. CASE Crash
      BY <3>3, IdleIs DEF Crash
    <3>4. CASE \E i \in Ids : Put(i) \/ Delete(i)
      BY <3>4, Written, IdleIs
    <3> QED
      BY <1>3, <3>1, <3>2, <3>3, <3>4
  <2> QED
    BY <1>2, <2>1, <2>2
<1>4. ASSUME Create \/ CheckpointLog \/ AutoSnapshot \/ CleanCall \/ Clean \/ CopyFails \/ RestoreReturn
             \/ \E key \in DOMAIN snaps : Restore(key) \/ RestoreClosed(key)
      PROVE  CopyInv'
  <2>1. UNCHANGED <<snaps, kept>>
    BY <1>4 DEF Create, CheckpointLog, AutoSnapshot, CleanCall, Clean, CopyFails, RestoreReturn,
                Restore, RestoreClosed, counters, history
  <2>2. op'.pc \notin {"copy", "overwrite"}
    <3>1. CASE Create \/ \E key \in DOMAIN snaps : Restore(key)
      <4>1. PICK s : \E name \in SnapNames, next \in {"idle", "restore"}, target \in Keys \union {NoKey} :
                        op' = Saving(name, next, target)
        <5>1. CASE Create
          BY <5>1 DEF Create, SnapNames
        <5>2. CASE \E key \in DOMAIN snaps : Restore(key)
          BY <1>0, <5>2 DEF Restore, RestoreOp, SnapNames, SnapInv
        <5> QED
          BY <3>1, <5>1, <5>2
      <4>2. mode = "open"
        BY <3>1 DEF Create, Restore, Callable, InUse
      <4>3. op'.pc = "checkpoint"
        BY <1>0, <4>1, <4>2, SavingIs
      <4> QED
        BY <4>3
    <3>2. CASE AutoSnapshot
      <4>1. CASE op' = Idle
        BY <4>1, IdleIs
      <4>2. ASSUME NEW next \in {"idle", "clean"},
                   op' = [Saving("auto", next, NoKey) EXCEPT !.auto = TRUE, !.since = op.since]
            PROVE  op'.pc = "checkpoint"
        <5>1. "auto" \in SnapNames /\ mode = "open" /\ DiskInv
          BY <1>0, <3>2 DEF SnapNames, AutoSnapshot, OpInv
        <5>2. Saving("auto", next, NoKey) \in Ops /\ Saving("auto", next, NoKey).pc = "checkpoint"
          BY <5>1, SavingIs
        <5> QED
          BY <4>2, <5>2 DEF Ops
      <4> QED
        BY <3>2, <4>1, <4>2 DEF AutoSnapshot
    <3>3. CASE CheckpointLog \/ Clean
      BY <1>0, <3>3 DEF CheckpointLog, Clean, Ops
    <3>4. CASE CopyFails \/ RestoreReturn \/ CleanCall
      BY <3>4, IdleIs DEF CopyFails, RestoreReturn, CleanCall, Ops
    <3>5. CASE \E key \in DOMAIN snaps : RestoreClosed(key)
      BY <3>5, IdleIs DEF RestoreClosed, Ops
    <3> QED
      BY <1>4, <3>1, <3>2, <3>3, <3>4, <3>5
  <2> QED
    BY <1>2, <2>1, <2>2
<1>5. ASSUME PassiveCheckpoint PROVE CopyInv'
  <2>1. file # Stored /\ UNCHANGED <<op, snaps, kept>>
    BY <1>5 DEF PassiveCheckpoint, history
  <2>2. op.pc \notin {"copy", "overwrite"}
    BY <1>0, <2>1, FileRead DEF ReadInv, Restores
  <2> QED
    BY <1>2, <2>1, <2>2
<1>6. ASSUME CreateFile PROVE CopyInv'
  <2>1. PICK key : key = SnapshotKey(clock, op.name)
    OBVIOUS
  <2>2. key \notin DOMAIN snaps
    <3>1. key[1] = clock
      BY <2>1 DEF SnapshotKey
    <3>2. \A k \in DOMAIN snaps : k[1] # clock
      BY <1>6 DEF CreateFile, Orderly
    <3> QED
      BY <3>1, <3>2
  <2>3. /\ op.pc = "create" /\ kept' = kept /\ file' = file /\ snaps' = With(snaps, key, BlankFile)
        /\ op' = [op EXCEPT !.pc = "copy", !.key = key, !.todo = Pages]
    BY <1>6, <2>1 DEF CreateFile, disk, history
  <2>4. DOMAIN snaps' = DOMAIN snaps \union {key}
        /\ \A k \in DOMAIN snaps' : snaps'[k] = IF k = key THEN BlankFile ELSE snaps[k]
    BY <2>3 DEF With
  <2>5. op'.pc = "copy" /\ op'.key = key /\ op'.todo = Pages
    BY <1>0, <2>3 DEF Ops
  <2>6. \A p \in Pages : BlankFile[p] = Blank
    BY DEF BlankFile
  <2> QED
    BY <1>1, <2>2, <2>3, <2>4, <2>5, <2>6 DEF CopyInv
<1>7. ASSUME CopyPage PROVE CopyInv'
  <2>1. PICK p \in op.todo : /\ snaps' = [snaps EXCEPT ![op.key][p] = file[p]]
                             /\ op' = [op EXCEPT !.todo = @ \ {p}]
    BY <1>7 DEF CopyPage
  <2>2. op.pc = "copy" /\ kept' = kept /\ file' = file
    BY <1>7 DEF CopyPage, disk, history
  <2>3. p \in Pages /\ op.key \in DOMAIN snaps /\ op.key \notin DOMAIN kept
    BY <1>0, <2>1, <2>2 DEF OpInv, CopyInv
  <2>4. PICK s : s = snaps[op.key]
    OBVIOUS
  <2>5. PICK e : e = [s EXCEPT ![p] = file[p]]
    OBVIOUS
  <2>6. e[p] = file[p] /\ \A q \in Pages \ {p} : e[q] = s[q]
    BY <1>0, <2>3, <2>4, <2>5, PageTaken DEF SnapInv, DiskInv
  <2>7. DOMAIN snaps' = DOMAIN snaps
        /\ \A k \in DOMAIN snaps : snaps'[k] = IF k = op.key THEN e ELSE snaps[k]
    BY <2>1, <2>3, <2>4, <2>5
  <2>8. op'.pc = "copy" /\ op'.key = op.key /\ op'.todo = op.todo \ {p}
    BY <1>0, <2>1, <2>2 DEF Ops
  <2>9. \A q \in Pages : e[q] = IF q \in op.todo \ {p} THEN Blank ELSE file[q]
    <3>1. \A q \in Pages : s[q] = IF q \in op.todo THEN Blank ELSE file[q]
      BY <2>2, <2>4 DEF CopyInv
    <3> QED
      BY <2>3, <2>6, <3>1
  <2>10. snaps'[op.key] = e
    BY <2>3, <2>7
  <2> QED
    BY <1>1, <2>2, <2>3, <2>7, <2>8, <2>9, <2>10 DEF CopyInv
<1>8. ASSUME SaveReturn PROVE CopyInv'
  <2>1. /\ op.pc = "copy" /\ op.todo = {} /\ kept' = With(kept, op.key, op.seen) /\ snaps' = snaps
    BY <1>8 DEF SaveReturn
  <2>2. op' = Idle \/ op'.pc \in {"clean", "restore"}
    BY <1>0, <1>8 DEF SaveReturn, Ops
  <2>3. snaps[op.key] = file
    <3>1. Image(snaps[op.key]) /\ Image(file)
      BY <1>0, <2>1 DEF OpInv, SnapInv, DiskInv
    <3>2. \A p \in Pages : snaps[op.key][p] = file[p]
      BY <2>1 DEF CopyInv
    <3> QED
      BY <3>1, <3>2, SameImage
  <2>4. op.seen = {file}
    <3>1. wal = Nothing /\ held = Nothing /\ op.seen = {View}
      BY <2>1 DEF ReadInv, Saves
    <3> QED
      BY <1>0, <3>1, FileRead, ReadsAre
  <2>5. /\ DOMAIN kept' = DOMAIN kept \union {op.key}
        /\ \A k \in DOMAIN kept' : kept'[k] = IF k = op.key THEN op.seen ELSE kept[k]
    BY <2>1 DEF With
  <2>6. op.key \in DOMAIN snaps
    BY <1>0, <2>1 DEF OpInv
  <2>7. op'.pc \notin {"copy", "overwrite"}
    BY <2>2, IdleIs
  <2>8. ASSUME NEW k \in DOMAIN kept' PROVE k \in DOMAIN snaps' /\ snaps'[k] \in kept'[k]
    BY <1>1, <2>1, <2>3, <2>4, <2>5, <2>6, <2>8
  <2> QED
    BY <2>7, <2>8 DEF CopyInv
<1>9. ASSUME DeleteSnapshot PROVE CopyInv'
  <2>1. op'.pc \notin {"copy", "overwrite"}
    BY <1>0, <1>9, IdleIs DEF DeleteSnapshot, Ops
  <2>2. ASSUME NEW k, snaps' = Without(snaps, k), kept' = Without(kept, k)
        PROVE  \A l \in DOMAIN kept' : l \in DOMAIN snaps' /\ snaps'[l] \in kept'[l]
    BY <1>1, <2>2 DEF Without
  <2>3. CASE UNCHANGED <<snaps, kept>>
    BY <1>2, <2>1, <2>3
  <2> QED
    BY <1>9, <2>1, <2>2, <2>3 DEF DeleteSnapshot, CopyInv
<1>10. ASSUME TruncateFile PROVE CopyInv'
  <2>1. /\ UNCHANGED <<snaps, kept>> /\ file' = BlankFile /\ restored' = {}
        /\ op' = [op EXCEPT !.pc = "overwrite", !.todo = Pages]
    BY <1>10 DEF TruncateFile
  <2>2. op'.pc = "overwrite" /\ op'.todo = Pages
    BY <1>0, <2>1 DEF Ops
  <2>3. \A p \in Pages : BlankFile[p] = Blank
    BY DEF BlankFile
  <2> QED
    BY <1>1, <2>1, <2>2, <2>3 DEF CopyInv
<1>11. ASSUME OverwritePage PROVE CopyInv'
  <2>1. PICK p \in op.todo : /\ file' = [file EXCEPT ![p] = snaps[op.target][p]]
                             /\ op' = [op EXCEPT !.todo = @ \ {p}]
    BY <1>11 DEF OverwritePage
  <2>2. op.pc = "overwrite" /\ UNCHANGED <<snaps, kept, restored>>
    BY <1>11 DEF OverwritePage, history
  <2>3. p \in Pages /\ op.target \in DOMAIN snaps
    BY <1>0, <2>1, <2>2 DEF OpInv, Restores
  <2>4. PICK s : s = snaps[op.target]
    OBVIOUS
  <2>5. file'[p] = s[p] /\ \A q \in Pages \ {p} : file'[q] = file[q]
    BY <1>0, <2>1, <2>3, <2>4, PageTaken DEF SnapInv, DiskInv
  <2>6. op'.pc = "overwrite" /\ op'.target = op.target /\ op'.todo = op.todo \ {p}
    BY <1>0, <2>1, <2>2 DEF Ops
  <2>7. \A q \in Pages : file'[q] = IF q \in op'.todo THEN Blank ELSE s[q]
    <3>1. \A q \in Pages : file[q] = IF q \in op.todo THEN Blank ELSE s[q]
      BY <2>2, <2>4 DEF CopyInv
    <3> QED
      BY <2>3, <2>5, <2>6, <3>1
  <2>8. snaps'[op'.target] = s /\ restored' = {}
    BY <2>2, <2>4, <2>6 DEF CopyInv
  <2> QED
    BY <1>1, <2>2, <2>6, <2>7, <2>8 DEF CopyInv
<1>12. ASSUME UNCHANGED <<file, snaps, op, kept, restored>> PROVE CopyInv'
  BY <1>12 DEF CopyInv
<1>13. ASSUME Next PROVE CopyInv'
  <2>1. CASE Tick
    BY <1>12, <2>1 DEF Tick, disk, history
  <2> QED
    BY <1>3, <1>4, <1>5, <1>6, <1>7, <1>8, <1>9, <1>10, <1>11, <1>13, <2>1 DEF Next
<1> QED
  BY <1>12, <1>13 DEF vars, disk, history

\* A write keeps what an open has made sure of.
LEMMA WriteKeeps ==
    ASSUME NEW v, Whole(v), NEW e, Whole(e), NEW i \in Ids, NEW row \in Rows,
           ~row.alias, row.n # 1, row.n > 0 => row.stamped,
           e[i] = row, \A j \in Ids \ {i} : e[j] = v[j],
           e[Catalog] = [v[Catalog] EXCEPT !.labelled = @ \union {i}]
    PROVE  /\ AliasesIn(v) => AliasesIn(e)
           /\ \A q : Reached("open", v, q) => Reached("open", e, q)
<1>1. v[Catalog] \in Catalogs /\ Legacy \subseteq Ids
  BY WholeIs, BackupsAssumption
<1>2. PICK d : d = e[Catalog]
  OBVIOUS
<1>3. /\ d.version = v[Catalog].version /\ d.columns = v[Catalog].columns /\ d.tables = v[Catalog].tables
      /\ d.ring = v[Catalog].ring /\ d.triggers = v[Catalog].triggers
      /\ d.labelled = v[Catalog].labelled \union {i}
  BY <1>1, <1>2 DEF Catalogs
<1>4. AliasesIn(v) => AliasesIn(e)
  BY <1>1, <1>2, <1>3 DEF AliasesIn
<1>5. ASSUME NEW q, Reached("open", v, q) PROVE Reached("open", e, q)
  <2> USE DEF AfterSchema, AfterStamp, AfterAnnotations, AfterBackfill, AfterSources, AfterRing,
              AfterProbe, AfterCopy, AfterDrop, AfterRevisions, AfterTrigger, AfterVersion
  <2>1. Labels(e) \subseteq Labels(v) \union {i}
    BY DEF Labels
  <2>2. Labels(v) \subseteq v[Catalog].labelled /\ \A j \in Ids : v[j].n > 0 => v[j].stamped
    BY <1>5 DEF Reached
  <2>3. Labels(e) \subseteq d.labelled /\ \A j \in Ids : e[j].n > 0 => e[j].stamped
    BY <1>3, <2>1, <2>2
  <2> QED
    BY <1>2, <1>3, <1>5, <2>3 DEF Reached
<1> QED
  BY <1>4, <1>5

LEMMA FirstAliases == AliasesIn(FirstImage) /\ AliasesIn(EmptyImage)
<1>1. Catalog \in Pages /\ Catalog \notin Ids /\ Legacy \subseteq Ids /\ Ids \subseteq Pages
  BY PageKinds, BackupsAssumption DEF Pages
<1>2. AliasesIn(EmptyImage)
  <2>1. (\A i \in Ids : EmptyImage[i] = Absent) /\ ~Absent.alias /\ Absent.n = 0
    BY <1>1 DEF EmptyImage, Absent, Row
  <2> QED
    BY <1>1, <2>1 DEF AliasesIn
<1>3. AliasesIn(FirstImage)
  <2>1. PICK e : e = FirstImage
    OBVIOUS
  <2>2. \A i \in Ids \ Legacy : ~e[i].alias
    BY <1>1, <2>1 DEF FirstImage, Absent, Row
  <2>3. \A i \in Legacy : e[i] = Row(1, "alias" \in LegacyColumns, FALSE)
    BY <1>1, <2>1 DEF FirstImage
  <2>4. \A i \in Legacy : e[i].alias = ("alias" \in LegacyColumns)
    BY <2>3 DEF Row
  <2>5. e[Catalog] = [NewCatalog EXCEPT !.columns = IF Legacy = {} THEN {} ELSE LegacyColumns]
    BY <1>1, <2>1 DEF FirstImage
  <2>6. Legacy # {} => e[Catalog].columns = LegacyColumns
    BY <2>5 DEF NewCatalog
  <2> QED
    BY <1>1, <2>1, <2>2, <2>4, <2>6 DEF AliasesIn
<1> QED
  BY <1>2, <1>3

LEMMA AliasKept == ASSUME Orderly, TypeInv, ReadInv, CopyInv, AliasInv, [Next]_vars PROVE AliasInv'
<1>0. DiskInv /\ SnapInv /\ OpInv /\ op \in Ops
  BY DEF TypeInv, OpInv
<1> DEFINE S == \A k \in DOMAIN snaps : ~Torn(snaps[k]) => AliasesIn(snaps[k])
<1>1. /\ S /\ (~Torn(Stored) => AliasesIn(Stored))
      /\ mode # "closed" => AliasesIn(View) /\ Reached(mode, View, probe)
  BY DEF AliasInv
<1>2. ASSUME OpenSQLiteConfig PROVE AliasInv'
  <2>1. /\ mode' = "schema" /\ View' = Stored'
        /\ \/ ~Torn(Stored) /\ Stored' = Stored
           \/ Stored = BlankFile /\ Stored' = EmptyImage
    BY <1>2, Opened
  <2>2. AliasesIn(Stored')
    BY <1>1, <2>1, FirstAliases
  <2>3. Reached("schema", View', probe')
    BY DEF Reached, AfterSchema, AfterStamp, AfterAnnotations, AfterBackfill, AfterSources, AfterRing,
           AfterProbe, AfterCopy, AfterDrop, AfterRevisions, AfterTrigger, AfterVersion
  <2>4. snaps' = snaps
    BY <1>2 DEF OpenSQLiteConfig
  <2> QED
    BY <1>1, <2>1, <2>2, <2>3, <2>4 DEF AliasInv
<1>3. ASSUME RunSchemaEvolution PROVE AliasInv'
  <2>1. snaps' = snaps
    BY <1>3 DEF RunSchemaEvolution
  <2>2. CASE mode' = "closed" /\ Stored' = Stored
    BY <1>1, <2>1, <2>2 DEF AliasInv
  <2>3. CASE /\ ~Refused(mode, View) /\ mode' = After(mode)
             /\ Stored' = Effect(mode, View) /\ Whole(Stored')
             /\ probe' = IF mode = "probe" THEN View[Catalog].columns \intersect LegacyOnly ELSE probe
    <3>1. mode \in StepNames /\ mode # "closed" /\ View = Stored /\ Whole(View) /\ View' = Stored'
      BY <1>3, Evolved DEF StepNames
    <3>2. AliasesIn(Stored') /\ Reached(After(mode), Stored', probe')
      <4>1. PICK v : v = View
        OBVIOUS
      <4>2. PICK e : e = Effect(mode, View)
        OBVIOUS
      <4>3. PICK q : q = probe'
        OBVIOUS
      <4>4. AliasesIn(e) /\ Reached(After(mode), e, q)
        BY <1>1, <2>3, <3>1, <4>1, <4>2, <4>3, StepReaches
      <4> QED
        BY <2>3, <4>2, <4>3, <4>4
    <3> QED
      BY <1>1, <2>1, <2>3, <3>1, <3>2 DEF AliasInv
  <2> QED
    BY <1>3, <2>2, <2>3, Evolved
<1>4. ASSUME NEW i \in Ids, Put(i) \/ Delete(i) PROVE AliasInv'
  <2>1. snaps' = snaps
    BY <1>4 DEF Put, Delete
  <2>2. /\ mode = "open" /\ mode' = mode /\ probe' = probe /\ View = Stored /\ View' = Stored' /\ Whole(View)
    BY <1>4, Written
  <2>3. PICK row \in Rows :
            /\ ~row.alias /\ row.n # 1 /\ (row.n > 0 => row.stamped)
            /\ Whole(Stored')
            /\ Stored'[i] = row /\ \A j \in Ids \ {i} : Stored'[j] = Stored[j]
            /\ Stored'[Catalog] = [Stored[Catalog] EXCEPT !.labelled = @ \union {i}]
    BY <1>4, Written
  <2>4. AliasesIn(Stored') /\ Reached("open", Stored', probe)
    <3>1. PICK v : v = Stored
      OBVIOUS
    <3>2. PICK e : e = Stored'
      OBVIOUS
    <3>3. /\ Whole(v) /\ Whole(e) /\ e[i] = row /\ \A j \in Ids \ {i} : e[j] = v[j]
          /\ e[Catalog] = [v[Catalog] EXCEPT !.labelled = @ \union {i}]
      BY <2>2, <2>3, <3>1, <3>2
    <3>4. /\ AliasesIn(v) => AliasesIn(e)
          /\ \A q : Reached("open", v, q) => Reached("open", e, q)
      BY <2>3, <3>3, WriteKeeps
    <3> QED
      BY <1>1, <2>2, <3>1, <3>2, <3>4
  <2> QED
    BY <1>1, <2>1, <2>2, <2>4 DEF AliasInv
<1>5. ASSUME snaps' = snaps, Stored' = Stored,
             mode' = "closed" \/ UNCHANGED <<View, mode, probe>>
      PROVE  AliasInv'
  BY <1>1, <1>5 DEF AliasInv
<1>6. ASSUME PassiveCheckpoint \/ CheckpointLog \/ Close \/ Crash PROVE AliasInv'
  <2>1. snaps' = snaps /\ (mode' = "closed" \/ UNCHANGED <<View, mode, probe>>)
    BY <1>6, ReadsKept DEF PassiveCheckpoint, CheckpointLog, Close, Crash
  <2> QED
    BY <1>5, <1>6, <2>1, ReadsKept
<1>7. ASSUME UNCHANGED <<disk, snaps, mode, probe>> PROVE AliasInv'
  BY <1>5, <1>7, ReadsKept
<1>8. ASSUME UNCHANGED <<disk, mode, probe>>, \A k \in DOMAIN snaps' : ~Torn(snaps'[k]) => AliasesIn(snaps'[k])
      PROVE  AliasInv'
  <2>1. Stored' = Stored /\ View' = View
    BY <1>8, ReadsKept
  <2> QED
    BY <1>1, <1>8, <2>1 DEF AliasInv
<1>9. ASSUME CreateFile PROVE AliasInv'
  <2>1. PICK key : key = SnapshotKey(clock, op.name)
    OBVIOUS
  <2>2. UNCHANGED <<disk, mode, probe>> /\ snaps' = With(snaps, key, BlankFile)
    BY <1>9, <2>1 DEF CreateFile
  <2>3. Torn(BlankFile)
    BY PageKinds DEF Torn, BlankFile
  <2> QED
    BY <1>1, <1>8, <2>2, <2>3 DEF With
<1>10. ASSUME CopyPage PROVE AliasInv'
  <2>1. /\ CopyInv' /\ SnapInv' /\ OpInv' /\ UNCHANGED <<disk, mode, probe>> /\ op.pc = "copy"
        /\ op'.pc = "copy" /\ op'.key = op.key
    BY <1>0, <1>10, CopyKept, SnapStep, OpStep DEF CopyPage, Ops, TypeInv
  <2>2. DOMAIN snaps' = DOMAIN snaps /\ \A k \in DOMAIN snaps \ {op.key} : snaps'[k] = snaps[k]
    BY <1>10 DEF CopyPage
  <2>3. op.key \in DOMAIN snaps
    BY <1>0, <2>1 DEF OpInv
  <2>4. ASSUME ~Torn(snaps'[op.key]) PROVE AliasesIn(snaps'[op.key])
    <3>1. PICK s : s = snaps'[op.key]
      OBVIOUS
    <3>2. Image(s)
      BY <2>1, <2>2, <2>3, <3>1 DEF SnapInv
    <3>3. \A p \in Pages : s[p] = file[p] /\ s[p] # Blank
      <4>1. \A p \in Pages : s[p] = IF p \in op'.todo THEN Blank ELSE file[p]
        BY <2>1, <3>1 DEF CopyInv, disk
      <4> QED
        BY <2>4, <3>1, <4>1 DEF Torn
    <3>4. s = file
      BY <1>0, <3>2, <3>3, SameImage DEF DiskInv
    <3>5. Stored = file
      BY <1>0, <2>1, FileRead DEF ReadInv
    <3> QED
      BY <1>1, <2>4, <3>1, <3>4, <3>5
  <2> QED
    BY <1>1, <1>8, <2>1, <2>2, <2>4
<1>11. ASSUME DeleteSnapshot PROVE AliasInv'
  <2>1. UNCHANGED <<disk, mode, probe>>
    BY <1>11 DEF DeleteSnapshot
  <2>2. \A k \in DOMAIN snaps' : k \in DOMAIN snaps /\ snaps'[k] = snaps[k]
    BY <1>11 DEF DeleteSnapshot, Without
  <2> QED
    BY <1>1, <1>8, <2>1, <2>2
<1>12. ASSUME TruncateFile PROVE AliasInv'
  <2>1. /\ op.pc = "restore" /\ file' = BlankFile /\ UNCHANGED <<wal, snaps, mode, probe>>
        /\ held' = IF mode = "open" THEN View ELSE Nothing
    BY <1>12 DEF TruncateFile
  <2>2. Torn(Stored')
    <3>1. wal = Nothing
      BY <2>1 DEF ReadInv, Restores
    <3>2. Stored' = BlankFile
      BY <2>1, <3>1, FirstIs, NothingIs DEF Stored
    <3> QED
      BY <3>2, PageKinds DEF Torn, BlankFile
  <2>3. mode = "closed" \/ mode = "open"
    BY <1>0, <2>1, IdleIs DEF OpInv, DiskInv
  <2>4. mode = "open" => View' = View
    <3>1. Image(file') /\ Part(wal')
      BY <1>0, <2>1, FirstIs DEF DiskInv
    <3>2. mode = "open" => Whole(View) /\ held' = View
      BY <1>0, <2>1, ReadsAre
    <3> QED
      BY <3>1, <3>2, ReadsOf DEF View, Stored
  <2> QED
    BY <1>1, <2>1, <2>2, <2>3, <2>4 DEF AliasInv
<1>13. ASSUME OverwritePage PROVE AliasInv'
  <2>1. /\ CopyInv' /\ DiskInv' /\ ReadInv' /\ UNCHANGED <<wal, held, snaps, mode, probe>>
        /\ op.pc = "overwrite" /\ op'.pc = "overwrite" /\ op'.target = op.target
    BY <1>0, <1>13, CopyKept, DiskStep, ReadStep DEF OverwritePage, Ops
  <2>2. mode = "closed" \/ mode = "open"
    BY <1>0, <2>1, IdleIs DEF OpInv, DiskInv
  <2>3. mode = "open" => View' = View
    <3>1. mode = "open" => held # Nothing
      BY <1>0, <2>1 DEF OpInv
    <3>2. Image(file') /\ Part(wal') /\ Image(file) /\ Part(wal)
      BY <1>0, <2>1 DEF DiskInv
    <3>3. mode = "open" => Whole(held)
      BY <1>0, <3>1 DEF DiskInv
    <3> QED
      BY <2>1, <3>2, <3>3, ReadsOf DEF View, Stored
  <2>4. ASSUME ~Torn(Stored') PROVE AliasesIn(Stored')
    <3>1. Stored' = file'
      <4>1. wal' = Nothing
        BY <2>1 DEF ReadInv, Restores
      <4> QED
        BY <2>1, <4>1, NothingIs DEF Stored, DiskInv
    <3>2. PICK f : f = file'
      OBVIOUS
    <3>3. PICK s : s = snaps[op.target]
      OBVIOUS
    <3>4. \A p \in Pages : f[p] = IF p \in op'.todo THEN Blank ELSE s[p]
      BY <2>1, <3>2, <3>3 DEF CopyInv
    <3>5. \A p \in Pages : f[p] = s[p] /\ s[p] # Blank
      BY <2>4, <3>1, <3>2, <3>4 DEF Torn
    <3>6. op.target \in DOMAIN snaps /\ Image(s) /\ Image(f)
      BY <1>0, <2>1, <3>2, <3>3 DEF OpInv, SnapInv, DiskInv, Restores
    <3>7. f = s /\ ~Torn(s)
      BY <3>5, <3>6, SameImage DEF Torn
    <3> QED
      BY <1>1, <3>1, <3>2, <3>3, <3>6, <3>7
  <2> QED
    BY <1>1, <2>1, <2>2, <2>3, <2>4 DEF AliasInv
<1>14. ASSUME Next PROVE AliasInv'
  <2>1. CASE Tick \/ Create \/ SaveReturn \/ CopyFails \/ AutoSnapshot \/ CleanCall \/ Clean \/ RestoreReturn
             \/ \E key \in DOMAIN snaps : Restore(key) \/ RestoreClosed(key)
    BY <1>7, <2>1 DEF Tick, Create, SaveReturn, CopyFails, AutoSnapshot, CleanCall, Clean, RestoreReturn,
                      Restore, RestoreClosed
  <2> QED
    BY <1>2, <1>3, <1>4, <1>6, <1>9, <1>10, <1>11, <1>12, <1>13, <1>14, <2>1 DEF Next
<1>15. ASSUME UNCHANGED vars PROVE AliasInv'
  BY <1>7, <1>15 DEF vars, disk
<1> QED
  BY <1>14, <1>15

LEMMA SameIndex ==
    /\ \A v, e : Whole(v) /\ Whole(e) /\ (\A i \in Ids : e[i].n = v[i].n) => Index(e) = Index(v)
    /\ Index(EmptyImage) = Index(BlankFile)
<1>1. ASSUME NEW v, NEW e, Whole(v), Whole(e), \A i \in Ids : e[i].n = v[i].n
      PROVE  Index(e) = Index(v)
  <2>1. \A i \in Ids : e[i] # Blank /\ v[i] # Blank
    BY <1>1 DEF Whole, Torn, Pages
  <2> QED
    BY <1>1, <2>1 DEF Index
<1>2. Index(EmptyImage) = Index(BlankFile)
  <2>1. \A i \in Ids : EmptyImage[i] = Absent /\ BlankFile[i] = Blank
    BY PageKinds DEF EmptyImage, BlankFile, Pages
  <2>2. Absent.n = 0
    BY DEF Absent, Row
  <2> QED
    BY <2>1, <2>2 DEF Index
<1> QED
  BY <1>1, <1>2

LEMMA RestoreKept ==
    ASSUME Orderly, TypeInv, ReadInv, CopyInv, RestoreInv, [Next]_vars PROVE RestoreInv'
<1>0. DiskInv /\ SnapInv /\ OpInv /\ op \in Ops
  BY DEF TypeInv, OpInv
<1> DEFINE In(b) == ~Torn(Stored) /\ Index(Stored) = b
<1>1. /\ \A b \in before : Saved(b) \/ (op.pc \notin Restores /\ In(b))
      /\ \A r \in restored : Index(Stored) = r
  BY DEF RestoreInv
<1>2. ASSUME NEW b, Saved(b), snaps' = snaps PROVE Saved(b)'
  BY <1>2 DEF Saved
<1>3. ASSUME OpenSQLiteConfig PROVE RestoreInv'
  <2>1. UNCHANGED <<op, snaps, before, restored>>
    BY <1>3 DEF OpenSQLiteConfig, history
  <2>2. \/ ~Torn(Stored) /\ Stored' = Stored
        \/ Stored = BlankFile /\ Stored' = EmptyImage
    BY <1>3, Opened
  <2>3. CASE Stored' = Stored
    BY <1>1, <1>2, <2>1, <2>3 DEF RestoreInv
  <2>4. CASE Stored = BlankFile /\ Stored' = EmptyImage
    <3>1. Torn(Stored)
      BY <2>4, PageKinds DEF Torn, BlankFile
    <3>2. \A b \in before' : Saved(b)'
      BY <1>1, <1>2, <2>1, <3>1
    <3>3. \A r \in restored' : Index(Stored') = r
      BY <1>1, <2>1, <2>4, SameIndex
    <3> QED
      BY <3>2, <3>3 DEF RestoreInv
  <2> QED
    BY <2>2, <2>3, <2>4
<1>4. ASSUME RunSchemaEvolution PROVE RestoreInv'
  <2>1. UNCHANGED <<snaps, before, restored>> /\ op = Idle /\ op'.pc \notin Restores
    <3>1. op = Idle
      BY <1>4, Evolved
    <3>2. CASE mode' = "open"
      <4>1. op' = [Idle EXCEPT !.pc = "auto", !.auto = TRUE, !.since = clock]
        BY <1>4, <3>2 DEF RunSchemaEvolution
      <4>2. op'.pc = "auto"
        BY <4>1, IdleIs DEF Ops
      <4> QED
        BY <1>4, <3>1, <4>2 DEF RunSchemaEvolution, history, Restores
    <3>3. CASE mode' # "open"
      BY <1>4, <3>1, <3>3, IdleIs DEF RunSchemaEvolution, history, Restores
    <3> QED
      BY <3>2, <3>3
  <2>2. Index(Stored') = Index(Stored) /\ (~Torn(Stored) => ~Torn(Stored'))
    <3>1. CASE Stored' = Stored
      BY <3>1
    <3>2. CASE Stored' = Effect(mode, View) /\ Whole(Stored')
      <4>1. View = Stored /\ Whole(View) /\ mode \in StepNames
        BY <1>4, Evolved
      <4>2. PICK v : v = View
        OBVIOUS
      <4>3. PICK e : e = Effect(mode, View)
        OBVIOUS
      <4>4. Whole(v) /\ Whole(e) /\ \A i \in Ids : e[i].n = v[i].n
        BY <4>1, <4>2, <4>3, StepWhole
      <4>5. Index(e) = Index(v)
        BY <4>4, SameIndex
      <4> QED
        BY <3>2, <4>1, <4>2, <4>3, <4>5 DEF Whole
    <3> QED
      BY <1>4, <3>1, <3>2, Evolved
  <2> QED
    BY <1>1, <1>2, <2>1, <2>2 DEF RestoreInv
<1>5. ASSUME \E i \in Ids : Put(i) \/ Delete(i) PROVE RestoreInv'
  BY <1>5, Written DEF RestoreInv
<1>6. ASSUME Stored' = Stored, UNCHANGED <<snaps, before, restored>>, op'.pc \in Restores => op.pc \in Restores
      PROVE  RestoreInv'
  BY <1>1, <1>2, <1>6 DEF RestoreInv
<1>7. ASSUME PassiveCheckpoint \/ CheckpointLog \/ Close \/ Crash \/ Tick \/ Create \/ CopyFails
             \/ AutoSnapshot \/ CleanCall \/ Clean
      PROVE  RestoreInv'
  <2>1. Stored' = Stored
    BY <1>7, ReadsKept DEF Tick, Create, CopyFails, AutoSnapshot, CleanCall, Clean
  <2>2. UNCHANGED <<snaps, before, restored>>
    BY <1>7 DEF PassiveCheckpoint, CheckpointLog, Close, Crash, Tick, Create, CopyFails,
                AutoSnapshot, CleanCall, Clean, history
  <2>3. op'.pc \in Restores => op.pc \in Restores
    <3>1. CASE PassiveCheckpoint \/ Close \/ Tick
      BY <3>1 DEF PassiveCheckpoint, Close, Tick
    <3>2. CASE CheckpointLog \/ Clean \/ CleanCall \/ Crash \/ CopyFails
      BY <1>0, <3>2, IdleIs DEF CheckpointLog, Clean, CleanCall, Crash, CopyFails, Ops, Restores
    <3>3. CASE Create
      <4>1. PICK none \in SnapNames : none = ""
        BY DEF SnapNames
      <4>2. DiskInv /\ mode = "open"
        BY <1>0, <3>3 DEF Create, Callable, InUse
      <4>3. Saving(none, "idle", NoKey).pc = "checkpoint"
        BY <4>2, SavingIs
      <4> QED
        BY <3>3, <4>1, <4>3 DEF Create, Restores
    <3>4. CASE AutoSnapshot
      <4>1. CASE op' = Idle
        BY <4>1, IdleIs DEF Restores
      <4>2. ASSUME NEW next \in {"idle", "clean"},
                   op' = [Saving("auto", next, NoKey) EXCEPT !.auto = TRUE, !.since = op.since]
            PROVE  op'.pc = "checkpoint"
        <5>1. "auto" \in SnapNames /\ mode = "open" /\ DiskInv
          BY <1>0, <3>4 DEF SnapNames, AutoSnapshot, OpInv
        <5>2. Saving("auto", next, NoKey) \in Ops /\ Saving("auto", next, NoKey).pc = "checkpoint"
          BY <5>1, SavingIs
        <5> QED
          BY <4>2, <5>2 DEF Ops
      <4> QED
        BY <3>4, <4>1, <4>2 DEF AutoSnapshot, Restores
    <3> QED
      BY <1>7, <3>1, <3>2, <3>3, <3>4
  <2> QED
    BY <1>6, <2>1, <2>2, <2>3
<1>8. ASSUME UNCHANGED disk, UNCHANGED <<before, restored>>, op'.pc \notin Restores,
             \A b : Saved(b) => Saved(b)'
      PROVE  RestoreInv'
  <2>1. Stored' = Stored
    BY <1>8, ReadsKept
  <2> QED
    BY <1>1, <1>8, <2>1 DEF RestoreInv
<1>9. ASSUME CreateFile PROVE RestoreInv'
  <2>1. PICK key : key = SnapshotKey(clock, op.name)
    OBVIOUS
  <2>2. key \notin DOMAIN snaps
    <3>1. key[1] = clock
      BY <2>1 DEF SnapshotKey
    <3>2. \A k \in DOMAIN snaps : k[1] # clock
      BY <1>9 DEF CreateFile, Orderly
    <3> QED
      BY <3>1, <3>2
  <2>3. snaps' = With(snaps, key, BlankFile) /\ UNCHANGED disk /\ UNCHANGED <<before, restored>>
        /\ op'.pc \notin Restores
    BY <1>0, <1>9, <2>1 DEF CreateFile, history, Ops, Restores
  <2>4. \A k \in DOMAIN snaps : k \in DOMAIN snaps' /\ snaps'[k] = snaps[k]
    BY <2>2, <2>3 DEF With
  <2>5. \A b : Saved(b) => Saved(b)'
    BY <2>4 DEF Saved
  <2> QED
    BY <1>8, <2>3, <2>5
<1>10. ASSUME CopyPage PROVE RestoreInv'
  <2>1. PICK p \in op.todo : snaps' = [snaps EXCEPT ![op.key][p] = file[p]]
    BY <1>10 DEF CopyPage
  <2>2. op.pc = "copy" /\ UNCHANGED disk /\ UNCHANGED <<before, restored>> /\ op'.pc \notin Restores
    BY <1>0, <1>10 DEF CopyPage, history, Ops, Restores
  <2>3. Torn(snaps[op.key])
    <3>1. p \in Pages
      BY <1>0, <2>1, <2>2 DEF OpInv
    <3>2. snaps[op.key][p] = Blank
      BY <2>1, <2>2, <3>1 DEF CopyInv
    <3> QED
      BY <3>1, <3>2 DEF Torn
  <2>4. \A k \in DOMAIN snaps \ {op.key} : k \in DOMAIN snaps' /\ snaps'[k] = snaps[k]
    BY <2>1
  <2>5. \A b : Saved(b) => Saved(b)'
    BY <2>3, <2>4 DEF Saved
  <2> QED
    BY <1>8, <2>2, <2>5
<1>11. ASSUME SaveReturn PROVE RestoreInv'
  <2>1. op.pc = "copy" /\ op.todo = {} /\ UNCHANGED disk /\ UNCHANGED <<snaps, before, restored>>
    BY <1>11 DEF SaveReturn
  <2>2. Stored' = Stored
    BY <2>1, ReadsKept
  <2>3. ASSUME NEW b \in before, In(b) PROVE Saved(b)
    <3>1. op.key \in DOMAIN snaps /\ Image(snaps[op.key]) /\ Image(file)
      BY <1>0, <2>1 DEF OpInv, SnapInv, DiskInv
    <3>2. \A p \in Pages : snaps[op.key][p] = file[p]
      BY <2>1 DEF CopyInv
    <3>3. snaps[op.key] = file
      BY <3>1, <3>2, SameImage
    <3>4. Stored = file
      BY <1>0, <2>1, FileRead DEF ReadInv
    <3> QED
      BY <2>3, <3>1, <3>3, <3>4 DEF Saved
  <2>4. \A b \in before : Saved(b)
    BY <1>1, <2>3
  <2>5. \A b \in before' : Saved(b)'
    BY <1>2, <2>1, <2>4
  <2> QED
    BY <1>1, <2>1, <2>2, <2>5 DEF RestoreInv
<1>12. ASSUME DeleteSnapshot PROVE RestoreInv'
  <2>1. UNCHANGED disk /\ restored' = restored
    BY <1>12 DEF DeleteSnapshot
  <2>2. Stored' = Stored
    BY <2>1, ReadsKept
  <2>3. CASE before' = {}
    BY <1>1, <2>1, <2>2, <2>3 DEF RestoreInv
  <2>4. CASE op' = Idle /\ UNCHANGED <<snaps, before>>
    <3>1. op'.pc \notin Restores
      BY <2>4, IdleIs DEF Restores
    <3> QED
      BY <1>6, <2>1, <2>2, <2>4, <3>1
  <2> QED
    BY <1>12, <2>3, <2>4 DEF DeleteSnapshot
<1>13. ASSUME NEW key \in DOMAIN snaps, Restore(key) PROVE RestoreInv'
  <2>1. /\ mode = "open" /\ held = Nothing /\ UNCHANGED disk /\ UNCHANGED <<snaps, restored>>
        /\ op' = Saving("pre-restore", "restore", key) /\ before' = {Index(View)}
    BY <1>13 DEF Restore, RestoreOp, Callable, InUse, Orderly
  <2>2. key \in Keys /\ "pre-restore" \in SnapNames
    BY <1>0 DEF SnapInv, SnapNames
  <2>3. Saving("pre-restore", "restore", key).pc = "checkpoint"
    BY <1>0, <2>1, <2>2, SavingIs
  <2>4. op'.pc \notin Restores
    BY <2>1, <2>3 DEF Restores
  <2>5. View = Stored /\ ~Torn(Stored) /\ Stored' = Stored
    BY <1>0, <2>1, ReadsAre, ReadsKept DEF Whole
  <2> QED
    BY <1>1, <2>1, <2>4, <2>5 DEF RestoreInv
<1>14. ASSUME NEW key \in DOMAIN snaps, RestoreClosed(key) PROVE RestoreInv'
  <2>1. Torn(Stored) /\ UNCHANGED disk /\ UNCHANGED <<snaps, before, restored>>
    BY <1>14 DEF RestoreClosed, history
  <2>2. Stored' = Stored
    BY <2>1, ReadsKept
  <2>3. \A b \in before' : Saved(b)'
    BY <1>1, <1>2, <2>1
  <2> QED
    BY <1>1, <2>1, <2>2, <2>3 DEF RestoreInv
<1>15. ASSUME TruncateFile \/ OverwritePage PROVE RestoreInv'
  <2>1. op.pc \in Restores /\ UNCHANGED <<snaps, before>>
    BY <1>15 DEF TruncateFile, OverwritePage, history, Restores
  <2>2. restored' = {}
    BY <1>15 DEF TruncateFile, OverwritePage, history, CopyInv
  <2>3. \A b \in before' : Saved(b)'
    BY <1>1, <1>2, <2>1
  <2> QED
    BY <2>2, <2>3 DEF RestoreInv
<1>16. ASSUME RestoreReturn PROVE RestoreInv'
  <2>1. /\ op.pc = "overwrite" /\ op.todo = {} /\ UNCHANGED disk /\ UNCHANGED <<snaps, before>>
        /\ restored' = {Index(snaps[op.target])}
    BY <1>16 DEF RestoreReturn
  <2>2. Stored' = Stored /\ Stored = file
    BY <1>0, <2>1, ReadsKept, FileRead DEF ReadInv, Restores
  <2>3. file = snaps[op.target]
    <3>1. Image(snaps[op.target]) /\ Image(file)
      BY <1>0, <2>1 DEF OpInv, SnapInv, DiskInv, Restores
    <3>2. \A p \in Pages : snaps[op.target][p] = file[p]
      BY <2>1 DEF CopyInv
    <3> QED
      BY <3>1, <3>2, SameImage
  <2>4. \A b \in before' : Saved(b)'
    BY <1>1, <1>2, <2>1 DEF Restores
  <2> QED
    BY <2>1, <2>2, <2>3, <2>4 DEF RestoreInv
<1>17. ASSUME Next PROVE RestoreInv'
  BY <1>3, <1>4, <1>5, <1>7, <1>9, <1>10, <1>11, <1>12, <1>13, <1>14, <1>15, <1>16, <1>17 DEF Next
<1>18. ASSUME UNCHANGED vars PROVE RestoreInv'
  <2>1. Stored' = Stored
    BY <1>18 DEF vars, disk, Stored
  <2> QED
    BY <1>6, <1>18, <2>1 DEF vars, history
<1> QED
  BY <1>17, <1>18

LEMMA InitSafe == ASSUME Init PROVE ReadInv /\ CopyInv /\ AliasInv /\ RestoreInv
<1>1. /\ file = FirstImage /\ wal = Nothing /\ held = Nothing /\ mode = "closed" /\ op = Idle
      /\ kept = Nothing /\ before = {} /\ restored = {}
  BY DEF Init
<1>2. Stored = FirstImage
  BY <1>1, FirstIs, NothingIs DEF Stored, Whole
<1>3. ReadInv
  BY <1>1, IdleIs DEF ReadInv, Saves, Restores
<1>4. CopyInv
  BY <1>1, IdleIs, NothingIs DEF CopyInv
<1>5. \A k \in DOMAIN snaps : snaps[k] = FirstImage
  <2>1. PICK key : key = <<0, "">>
    OBVIOUS
  <2>2. snaps = Nothing \/ snaps = With(Nothing, key, FirstImage)
    BY <2>1 DEF Init
  <2>3. DOMAIN Nothing = {}
    BY NothingIs
  <2>4. DOMAIN With(Nothing, key, FirstImage) = {key} /\ With(Nothing, key, FirstImage)[key] = FirstImage
    BY <2>3 DEF With
  <2> QED
    BY <2>2, <2>3, <2>4
<1>6. AliasInv
  BY <1>1, <1>2, <1>5, FirstAliases DEF AliasInv
<1>7. RestoreInv
  BY <1>1 DEF RestoreInv
<1> QED
  BY <1>3, <1>4, <1>6, <1>7

LEMMA SafeAlways == ASSUME Orderly PROVE Spec => []SafeInv
<1>1. Init => SafeInv
  BY InitDisk, InitSnap, InitSafe DEF SafeInv, TypeInv
<1>2. SafeInv /\ [Next]_vars => SafeInv'
  BY DiskStep, SnapStep, OpStep, ReadStep, CopyKept, AliasKept, RestoreKept DEF SafeInv, TypeInv
<1> QED
  BY <1>1, <1>2, PTL DEF Spec

\* Wherever an upgrade is cut off and begun again, and whichever snapshot the
\* file comes from, an alias of the older build is in its column or in the
\* ring, provided the lock is free when the copy of the aliases needs it.
THEOREM AliasesSurvive == ASSUME Orderly PROVE Spec => []AliasesKept
<1>1. SafeInv => AliasesKept
  <2> SUFFICES ASSUME SafeInv, "alias" \in LegacyColumns, ~Torn(View)
               PROVE  \A i \in Legacy : View[i].n = 1 => View[i].alias \/ i \in View[Catalog].ring
    BY DEF AliasesKept
  <2>1. DiskInv
    BY DEF SafeInv, TypeInv
  <2>2. AliasesIn(View)
    <3>1. CASE mode = "closed"
      BY <2>1, <3>1, ReadsAre DEF SafeInv, AliasInv
    <3>2. CASE mode # "closed"
      BY <3>2 DEF SafeInv, AliasInv
    <3> QED
      BY <3>1, <3>2
  <2> QED
    BY <2>2 DEF AliasesIn
<1> QED
  BY <1>1, SafeAlways, PTL

\* A store in use has the current schema.
THEOREM SchemaReached == ASSUME Orderly PROVE Spec => []SchemaCurrent
<1>1. SafeInv => SchemaCurrent
  <2> SUFFICES ASSUME SafeInv, InUse PROVE SchemaCurrent
    BY DEF SchemaCurrent
  <2>1. mode = "open" /\ Reached("open", View, probe) /\ Whole(View)
    BY ReadsAre DEF InUse, SafeInv, TypeInv, AliasInv
  <2>2. PICK c : c = View[Catalog]
    OBVIOUS
  <2>3. c \in Catalogs
    BY <2>1, <2>2, WholeIs
  <2>4. /\ c.version = SchemaUserVersion /\ c.triggers
        /\ {"inserted_at", "annotations", "sources"} \subseteq c.columns
        /\ c.columns \intersect LegacyOnly = {}
        /\ {"labels", "ring", "revisions"} \subseteq c.tables
        /\ Labels(View) \subseteq c.labelled
        /\ \A i \in Ids : View[i].n > 0 => View[i].stamped
    BY <2>1, <2>2 DEF Reached, AfterSchema, AfterStamp, AfterAnnotations, AfterBackfill, AfterSources, AfterRing,
       AfterProbe, AfterCopy, AfterDrop, AfterRevisions, AfterTrigger, AfterVersion
  <2>5. c.columns = {"inserted_at", "annotations", "sources"} /\ c.tables = {"labels", "ring", "revisions"}
    BY <2>3, <2>4 DEF Catalogs, AllColumns
  <2> QED
    BY <2>2, <2>4, <2>5 DEF SchemaCurrent
<1> QED
  BY <1>1, SafeAlways, PTL

\* A snapshot whose Save has returned is the database as it was at one moment
\* of that call.
THEOREM SnapshotsHold == ASSUME Orderly PROVE Spec => []SnapshotsConsistent
<1>1. SafeInv => SnapshotsConsistent
  BY DEF SafeInv, CopyInv, SnapshotsConsistent
<1> QED
  BY <1>1, SafeAlways, PTL

\* Wherever a restore fails or is cut off, what it was to replace is in the
\* database or in a whole snapshot.
THEOREM NothingIsLost == ASSUME Orderly PROVE Spec => []Recoverable
<1>1. SafeInv => Recoverable
  BY DEF SafeInv, RestoreInv, Saved, Recoverable
<1> QED
  BY <1>1, SafeAlways, PTL

\* A store in use after a restore shows the artifacts of that snapshot.
THEOREM RestoreShows == ASSUME Orderly PROVE Spec => []RestoreTakesEffect
<1>1. SafeInv => RestoreTakesEffect
  <2> SUFFICES ASSUME SafeInv, InUse PROVE RestoreTakesEffect
    BY DEF RestoreTakesEffect
  <2>1. View = Stored
    BY ReadsAre DEF InUse, Orderly, SafeInv, TypeInv
  <2> QED
    BY <2>1 DEF SafeInv, RestoreInv, RestoreTakesEffect
<1> QED
  BY <1>1, SafeAlways, PTL

------------------------------------------------------------------------------
(* AutoSnapshot and retention.                                             *)

\* A set of naturals has a least element.
LEMMA LeastNat ==
    ASSUME NEW T \in SUBSET Nat, T # {}
    PROVE  \E n \in T : \A m \in T : n <= m
<1> DEFINE R == OpToRel(<, Nat)
<1>1. IsWellFoundedOn(R, Nat)
  BY NatLessThanWellFounded
<1> HIDE DEF R
<1>2. PICK n \in T : \A m \in T : ~(<<m, n>> \in R)
  BY <1>1, WFMin
<1> USE DEF R
<1>3. \A m \in T : n <= m
  <2> SUFFICES ASSUME NEW m \in T, m < n PROVE FALSE
    OBVIOUS
  <2>1. m \in Nat /\ n \in Nat
    OBVIOUS
  <2>2. <<m, n>> \in R
    BY <2>1 DEF OpToRel
  <2> QED
    BY <1>2, <2>2
<1> QED
  BY <1>3

LEMMA KeyTimes == \A k \in Keys : k[1] \in 0 .. MaxTime /\ k[1] \in Nat
<1>1. MaxTime \in Nat
  BY BackupsAssumption
<1> QED
  BY <1>1 DEF Keys

\* There are finitely many snapshots, and one that none is newer than.
LEMMA Newest ==
    ASSUME SnapInv
    PROVE  /\ IsFiniteSet(DOMAIN snaps)
           /\ DOMAIN snaps # {} => \E k \in DOMAIN snaps : \A l \in DOMAIN snaps : l[1] <= k[1]
<1>1. MaxTime \in Nat /\ DOMAIN snaps \subseteq Keys
  BY BackupsAssumption DEF SnapInv
<1>2. IsFiniteSet(SnapNames) /\ IsFiniteSet(0 .. MaxTime)
  <2>1. IsFiniteSet({""} \union {"auto"})
    BY FS_AddElement, FS_Singleton
  <2>2. IsFiniteSet(({""} \union {"auto"}) \union {"pre-restore"})
    BY <2>1, FS_AddElement
  <2>3. SnapNames = ({""} \union {"auto"}) \union {"pre-restore"}
    BY DEF SnapNames
  <2>4. IsFiniteSet(0 .. MaxTime)
    <3>1. 0 \in Int /\ MaxTime \in Int
      BY <1>1
    <3> QED
      BY <3>1, FS_Interval
  <2> QED
    BY <2>2, <2>3, <2>4
<1>3. IsFiniteSet(Keys)
  BY <1>2, FS_Product DEF Keys
<1>4. IsFiniteSet(DOMAIN snaps)
  BY <1>1, <1>3, FS_Subset
<1>5. ASSUME DOMAIN snaps # {} PROVE \E k \in DOMAIN snaps : \A l \in DOMAIN snaps : l[1] <= k[1]
  <2>1. PICK T : T = {MaxTime - k[1] : k \in DOMAIN snaps}
    OBVIOUS
  <2>2. \A k \in DOMAIN snaps : MaxTime - k[1] \in Nat /\ k[1] \in Nat
    BY <1>1, KeyTimes
  <2>3. T \in SUBSET Nat /\ T # {}
    BY <1>5, <2>1, <2>2
  <2>4. PICK n \in T : \A m \in T : n <= m
    BY <2>3, LeastNat
  <2>5. PICK k \in DOMAIN snaps : n = MaxTime - k[1]
    BY <2>1, <2>4
  <2>6. ASSUME NEW l \in DOMAIN snaps PROVE l[1] <= k[1]
    <3>1. n <= MaxTime - l[1]
      BY <2>1, <2>4
    <3> QED
      BY <1>1, <2>2, <2>5, <3>1
  <2> QED
    BY <2>6
<1> QED
  BY <1>4, <1>5

\* The first n of the list are not empty, and none left out is newer than one
\* of them.
LEMMA FirstsAre ==
    ASSUME SnapInv, NEW n \in Nat \ {0}, DOMAIN snaps # {}
    PROVE  /\ \A K \in Firsts(n) : /\ K \subseteq DOMAIN snaps /\ K # {}
                                   /\ \A k \in K, l \in DOMAIN snaps \ K : l[1] <= k[1]
           /\ Firsts(1) # {}
<1>1. DOMAIN snaps \subseteq Keys /\ \A k \in DOMAIN snaps : k[1] \in Nat
  BY KeyTimes DEF SnapInv
<1>2. Cardinality(DOMAIN snaps) \in Nat /\ Cardinality(DOMAIN snaps) # 0
  BY Newest, FS_CardinalityType, FS_EmptySet
<1>3. ASSUME NEW K \in Firsts(n)
      PROVE  K \subseteq DOMAIN snaps /\ K # {} /\ \A k \in K, l \in DOMAIN snaps \ K : l[1] <= k[1]
  <2>1. /\ K \subseteq DOMAIN snaps /\ \A k \in K, l \in DOMAIN snaps \ K : ~Newer(l, k)
        /\ Cardinality(K) = IF Cardinality(DOMAIN snaps) < n THEN Cardinality(DOMAIN snaps) ELSE n
    BY DEF Firsts
  <2>2. Cardinality(K) # 0
    BY <1>2, <2>1
  <2>3. K # {}
    BY <2>2, FS_EmptySet
  <2> QED
    BY <1>1, <2>1, <2>3 DEF Newer
<1>4. Firsts(1) # {}
  <2>1. PICK k \in DOMAIN snaps : \A l \in DOMAIN snaps : l[1] <= k[1]
    BY Newest
  <2>2. Cardinality({k}) = 1 /\ ~(Cardinality(DOMAIN snaps) < 1)
    BY <1>2, FS_Singleton
  <2>3. \A l \in DOMAIN snaps \ {k} : ~Newer(l, k)
    BY <1>1, <2>1 DEF Newer
  <2>4. {k} \in Firsts(1)
    BY <2>2, <2>3 DEF Firsts
  <2> QED
    BY <2>4
<1> QED
  BY <1>3, <1>4

\* Since the open began, and among what is not to be deleted.
Fresh(K) == \E k \in K : k[1] >= op.since

AutoInv ==
    /\ faults \in Nat
    /\ op.pc = "auto" => op.auto
    /\ op.auto =>
        /\ op.since <= clock /\ op.next # "restore"
        /\ op.pc \in {"auto", "clean", "delete"} \union Saves
        /\ op.pc = "copy" => op.key[1] >= op.since
        /\ op.pc = "clean" => Fresh(DOMAIN snaps)
        /\ op.pc = "delete" /\ clock <= op.since + MaxAge => Fresh(DOMAIN snaps \ op.todo)

LEMMA SavingNotAuto ==
    \A name, next, target : /\ ~Saving(name, next, target).auto
                            /\ Saving(name, next, target).pc = "checkpoint"
  BY IdleIs DEF Saving, Ops

\* What an open's own operation may do in a step.
LEMMA AutoStep ==
    ASSUME TypeInv, AutoInv, [Next]_vars
    PROVE  /\ AutoInv'
           /\ op.auto /\ ~op'.auto /\ faults' = faults /\ clock <= op.since + MaxAge =>
                 \E k \in DOMAIN snaps' : k[1] + Delta >= op.since
<1> DEFINE Shown == \E k \in DOMAIN snaps' : k[1] + Delta >= op.since
           Goal == /\ AutoInv'
                   /\ op.auto /\ ~op'.auto /\ faults' = faults /\ clock <= op.since + MaxAge => Shown
<1>0. /\ DiskInv /\ SnapInv /\ OpInv /\ op \in Ops /\ SnapInv' /\ OpInv' /\ op' \in Ops
      /\ {MaxAge, Delta, clock, op.since} \subseteq Nat
  <2>1. SnapInv' /\ OpInv'
    BY SnapStep, OpStep
  <2>2. MaxTime \in Nat /\ {MaxAge, Delta} \subseteq Nat
    BY BackupsAssumption
  <2>3. DiskInv /\ SnapInv /\ OpInv /\ op \in Ops
    BY DEF TypeInv, OpInv
  <2>4. {clock, op.since} \subseteq Nat
    BY <2>2, <2>3 DEF SnapInv, Ops
  <2>5. op' \in Ops
    BY <2>1 DEF OpInv
  <2> QED
    BY <2>1, <2>2, <2>3, <2>4, <2>5
<1>8. faults \in Nat /\ faults' \in Nat
  <2>1. MaxFaults \in Nat /\ faults \in Nat
    BY BackupsAssumption DEF AutoInv
  <2>2. faults' = faults \/ faults' = faults + 1
    <3>1. CASE Crash \/ CopyFails
      BY <3>1 DEF Crash, CopyFails
    <3>2. CASE UNCHANGED vars
      BY <3>2 DEF vars, counters
    <3>3. CASE Next /\ ~Crash /\ ~CopyFails
      BY <3>3 DEF Next, OpenSQLiteConfig, RunSchemaEvolution, Close, Tick, Put, Delete, PassiveCheckpoint,
                  Create, CheckpointLog, CreateFile, CopyPage, SaveReturn, AutoSnapshot, CleanCall, Clean,
                  DeleteSnapshot, Restore, RestoreClosed, TruncateFile, OverwritePage, RestoreReturn, counters
    <3> QED
      BY <3>1, <3>2, <3>3
  <2> QED
    BY <2>1, <2>2
<1>1. ASSUME ~op.auto, ~op'.auto, op'.pc # "auto" PROVE Goal
  BY <1>8, <1>1 DEF AutoInv
<1>2. ASSUME UNCHANGED <<snaps, clock>>, op'.auto = op.auto, op'.since = op.since, op'.pc = op.pc,
             op'.next = op.next, op'.key = op.key, op'.todo = op.todo
      PROVE  Goal
  BY <1>8, <1>2 DEF AutoInv, Fresh
<1>3. ASSUME UNCHANGED <<op, snaps, clock>> PROVE Goal
  BY <1>2, <1>3
<1>4. ASSUME Tick PROVE Goal
  <2>1. op' = op /\ snaps' = snaps /\ clock' = clock + 1
    BY <1>4 DEF Tick
  <2>2. clock' <= op.since + MaxAge => clock <= op.since + MaxAge
    BY <1>0, <2>1
  <2>3. op.since <= clock => op.since <= clock'
    BY <1>0, <2>1
  <2> QED
    BY <1>8, <2>1, <2>2, <2>3 DEF AutoInv, Fresh
<1>5. ASSUME RunSchemaEvolution PROVE Goal
  <2>1. op = Idle /\ ~op.auto /\ clock' = clock
    BY <1>0, <1>5, IdleIs DEF RunSchemaEvolution, DiskInv, OpInv, counters
  <2>2. CASE op' = op
    BY <1>1, <2>1, <2>2, IdleIs
  <2>3. CASE op' = [Idle EXCEPT !.pc = "auto", !.auto = TRUE, !.since = clock]
    <3>1. op'.pc = "auto" /\ op'.since = clock /\ op'.next = "idle" /\ op'.auto
      BY <2>3, IdleIs DEF Ops
    <3> QED
      BY <1>0, <1>8, <2>1, <3>1 DEF AutoInv, Saves
  <2> QED
    BY <1>5, <2>2, <2>3 DEF RunSchemaEvolution
<1>6. ASSUME \E i \in Ids : Put(i) \/ Delete(i) PROVE Goal
  <2>1. PICK i \in Ids, row \in {Absent, Row(commits + 1, FALSE, TRUE)} : WriteRow(i, row)
    BY <1>6 DEF Put, Delete
  <2>2. PICK S : op' = [op EXCEPT !.seen = S]
    BY <2>1 DEF WriteRow
  <2>3. UNCHANGED <<snaps, clock>>
    BY <1>6 DEF Put, Delete
  <2> QED
    BY <1>0, <1>2, <2>2, <2>3 DEF Ops
<1>7. ASSUME Crash \/ CopyFails PROVE Goal
  <2>1. op' = Idle /\ faults' = faults + 1
    BY <1>7 DEF Crash, CopyFails
  <2>2. faults' # faults
    BY <1>8, <2>1
  <2> QED
    BY <1>8, <2>1, <2>2, IdleIs DEF AutoInv
<1>9. ASSUME Quiet PROVE ~op.auto
  BY <1>0, <1>9, IdleIs DEF OpInv, Quiet
<1>10. ASSUME Create \/ CleanCall \/ \E key \in DOMAIN snaps : Restore(key) \/ RestoreClosed(key) PROVE Goal
  <2>1. Quiet
    BY <1>10 DEF Create, CleanCall, Restore, RestoreClosed, Callable
  <2>2. ~op'.auto /\ op'.pc # "auto"
    <3>1. CASE CleanCall
      BY <3>1, IdleIs DEF CleanCall, Ops
    <3>2. CASE \E key \in DOMAIN snaps : RestoreClosed(key)
      BY <3>2, IdleIs DEF RestoreClosed, Ops
    <3>3. CASE Create
      BY <3>3, SavingNotAuto DEF Create
    <3>4. CASE \E key \in DOMAIN snaps : Restore(key)
      BY <3>4, SavingNotAuto DEF Restore, RestoreOp
    <3> QED
      BY <1>10, <3>1, <3>2, <3>3, <3>4
  <2> QED
    BY <1>1, <1>9, <2>1, <2>2
<1>11. ASSUME CheckpointLog PROVE Goal
  <2>1. op.pc = "checkpoint" /\ op' = [op EXCEPT !.pc = "create"] /\ UNCHANGED <<snaps, clock>>
    BY <1>11 DEF CheckpointLog, counters
  <2>2. op'.pc = "create" /\ op'.auto = op.auto /\ op'.since = op.since /\ op'.next = op.next
    BY <1>0, <2>1 DEF Ops
  <2> QED
    BY <1>8, <2>1, <2>2 DEF AutoInv, Saves
<1>12. ASSUME CreateFile PROVE Goal
  <2>1. PICK key : key = SnapshotKey(clock, op.name)
    OBVIOUS
  <2>2. /\ op.pc = "create" /\ op' = [op EXCEPT !.pc = "copy", !.key = key, !.todo = Pages]
        /\ clock' = clock /\ key[1] = clock
    BY <1>12, <2>1 DEF CreateFile, counters, SnapshotKey
  <2>3. /\ op'.pc = "copy" /\ op'.auto = op.auto /\ op'.since = op.since /\ op'.next = op.next
        /\ op'.key = key
    BY <1>0, <2>2 DEF Ops
  <2> QED
    BY <1>0, <1>8, <2>2, <2>3 DEF AutoInv, Saves
<1>13. ASSUME CopyPage PROVE Goal
  <2>1. PICK p \in op.todo : op' = [op EXCEPT !.todo = @ \ {p}]
    BY <1>13 DEF CopyPage
  <2>2. op.pc = "copy" /\ clock' = clock
    BY <1>13 DEF CopyPage, counters
  <2>3. /\ op'.pc = "copy" /\ op'.auto = op.auto /\ op'.since = op.since /\ op'.next = op.next
        /\ op'.key = op.key
    BY <1>0, <2>1, <2>2 DEF Ops
  <2> QED
    BY <1>8, <2>2, <2>3 DEF AutoInv, Saves
<1>14. ASSUME SaveReturn PROVE Goal
  <2>1. op.pc = "copy" /\ UNCHANGED <<snaps, clock>> /\ op.key \in DOMAIN snaps /\ op.key[1] \in Nat
    <3>1. op.pc = "copy" /\ UNCHANGED <<snaps, clock>>
      BY <1>14 DEF SaveReturn, counters
    <3>2. op.key \in DOMAIN snaps
      BY <1>0, <3>1 DEF OpInv
    <3> QED
      BY <1>0, <3>1, <3>2, KeyTimes DEF SnapInv
  <2>2. CASE op' = Idle
    <3>1. op.auto => op.key[1] + Delta >= op.since
      BY <1>0, <2>1 DEF AutoInv
    <3> QED
      BY <1>8, <2>1, <2>2, <3>1, IdleIs DEF AutoInv
  <2>3. CASE op' = [op EXCEPT !.pc = op.next, !.seen = {}] /\ op.next # "idle"
    <3>1. op'.pc = op.next /\ op'.auto = op.auto /\ op'.since = op.since /\ op'.next = op.next
      BY <1>0, <2>3 DEF Ops
    <3>2. op.next \in {"clean", "restore"} /\ (op.auto => op.next = "clean" /\ Fresh(DOMAIN snaps))
      BY <1>0, <2>1, <2>3 DEF AutoInv, Fresh, Ops
    <3> QED
      BY <1>8, <2>1, <3>1, <3>2 DEF AutoInv, Fresh
  <2> QED
    BY <1>14, <2>2, <2>3 DEF SaveReturn
<1>15. ASSUME AutoSnapshot PROVE Goal
  <2>1. op.pc = "auto" /\ mode = "open" /\ UNCHANGED <<snaps, clock>>
    BY <1>0, <1>15 DEF AutoSnapshot, OpInv, counters
  <2>2. ASSUME NEW next \in {"idle", "clean"},
               op' = [Saving("auto", next, NoKey) EXCEPT !.auto = TRUE, !.since = op.since]
        PROVE  Goal
    <3>1. "auto" \in SnapNames
      BY DEF SnapNames
    <3>2. /\ Saving("auto", next, NoKey) \in Ops /\ Saving("auto", next, NoKey).pc = "checkpoint"
          /\ Saving("auto", next, NoKey).next = next
      BY <1>0, <2>1, <3>1, SavingIs
    <3>3. op'.pc = "checkpoint" /\ op'.auto /\ op'.since = op.since /\ op'.next = next
      BY <2>2, <3>2 DEF Ops
    <3>4. op.since <= clock
      BY <2>1 DEF AutoInv
    <3> QED
      BY <1>8, <2>1, <3>3, <3>4 DEF AutoInv, Saves
  <2>3. ASSUME op' = Idle, DOMAIN snaps # {}, ~\E K \in Firsts(1) : \A k \in K : clock > k[1] + Delta
        PROVE  Goal
    <3>1. PICK K \in Firsts(1) : K \subseteq DOMAIN snaps
      BY <1>0, <2>3, FirstsAre
    <3>2. PICK k \in K : ~(clock > k[1] + Delta)
      BY <2>3, <3>1
    <3>3. k[1] \in Nat /\ k \in DOMAIN snaps
      BY <1>0, <3>1, KeyTimes DEF SnapInv
    <3>4. op.auto => k[1] + Delta >= op.since
      BY <1>0, <3>2, <3>3 DEF AutoInv
    <3> QED
      BY <1>8, <2>1, <2>3, <3>3, <3>4, IdleIs DEF AutoInv
  <2> QED
    BY <1>15, <2>2, <2>3 DEF AutoSnapshot
<1>16. ASSUME Clean PROVE Goal
  <2>1. PICK K \in Firsts(MaxCount) :
          op' = [op EXCEPT !.pc = "delete", !.todo = {k \in DOMAIN snaps : k \notin K \/ TooOld(k)}]
    BY <1>16 DEF Clean
  <2>2. PICK T : T = {k \in DOMAIN snaps : k \notin K \/ TooOld(k)}
    OBVIOUS
  <2>3. op.pc = "clean" /\ UNCHANGED <<snaps, clock>> /\ T \subseteq Keys
        /\ op' = [op EXCEPT !.pc = "delete", !.todo = T]
    BY <1>0, <1>16, <2>1, <2>2 DEF Clean, SnapInv, counters
  <2>4. /\ op'.pc = "delete" /\ op'.auto = op.auto /\ op'.since = op.since /\ op'.next = op.next
        /\ op'.todo = T
    BY <1>0, <2>3 DEF Ops
  <2>5. ASSUME op.auto, clock <= op.since + MaxAge PROVE \E k \in DOMAIN snaps \ T : k[1] >= op.since
    <3>1. PICK l \in DOMAIN snaps : l[1] >= op.since
      BY <2>3, <2>5 DEF AutoInv, Fresh
    <3>2. MaxCount \in Nat \ {0}
      BY BackupsAssumption
    <3>3. K \subseteq DOMAIN snaps /\ K # {} /\ \A k \in K, m \in DOMAIN snaps \ K : m[1] <= k[1]
      BY <1>0, <2>1, <3>1, <3>2, FirstsAre
    <3>4. PICK k \in K : k[1] >= op.since
      <4>1. CASE l \in K
        BY <3>1, <4>1
      <4>2. CASE l \notin K
        <5>1. PICK k \in K : l[1] <= k[1]
          BY <3>3, <4>2
        <5>2. k[1] \in Nat /\ l[1] \in Nat
          BY <1>0, <3>3, KeyTimes DEF SnapInv
        <5> QED
          BY <1>0, <3>1, <5>1, <5>2
      <4> QED
        BY <4>1, <4>2
    <3>5. k[1] \in Nat /\ k \in DOMAIN snaps
      BY <1>0, <3>3, KeyTimes DEF SnapInv
    <3>6. ~TooOld(k)
      BY <1>0, <2>5, <3>4, <3>5 DEF TooOld
    <3> QED
      BY <2>2, <3>4, <3>5, <3>6
  <2> QED
    BY <1>8, <2>3, <2>4, <2>5 DEF AutoInv, Fresh
<1>17. ASSUME DeleteSnapshot PROVE Goal
  <2>1. op.pc = "delete" /\ clock' = clock
    BY <1>17 DEF DeleteSnapshot, counters
  <2>2. ASSUME NEW k \in op.todo, snaps' = Without(snaps, k), op' = [op EXCEPT !.todo = @ \ {k}]
        PROVE  Goal
    <3>1. /\ op'.pc = "delete" /\ op'.auto = op.auto /\ op'.since = op.since /\ op'.next = op.next
          /\ op'.todo = op.todo \ {k}
      BY <1>0, <2>1, <2>2 DEF Ops
    <3>2. DOMAIN snaps' = DOMAIN snaps \ {k}
      BY <2>2 DEF Without
    <3>3. DOMAIN snaps' \ op'.todo = DOMAIN snaps \ op.todo
      BY <2>2, <3>1, <3>2
    <3> QED
      BY <1>8, <2>1, <3>1, <3>3 DEF AutoInv, Fresh
  <2>3. CASE op.todo = {} /\ op' = Idle /\ snaps' = snaps
    <3>1. ASSUME op.auto, clock <= op.since + MaxAge PROVE Shown
      <4>1. PICK k \in DOMAIN snaps : k[1] >= op.since
        BY <2>1, <3>1 DEF AutoInv, Fresh
      <4>2. k[1] \in Nat
        BY <1>0, KeyTimes DEF SnapInv
      <4>3. k[1] + Delta >= op.since
        BY <1>0, <4>1, <4>2
      <4> QED
        BY <2>3, <4>3
    <3> QED
      BY <1>8, <2>3, <3>1, IdleIs DEF AutoInv
  <2> QED
    BY <1>17, <2>2, <2>3 DEF DeleteSnapshot
<1>19. ASSUME TruncateFile \/ OverwritePage \/ RestoreReturn PROVE Goal
  <2>1. op.pc \in Restores /\ ~op.auto
    BY <1>19 DEF TruncateFile, OverwritePage, RestoreReturn, AutoInv, Saves, Restores
  <2>2. ~op'.auto /\ op'.pc # "auto"
    BY <1>0, <1>19, <2>1, IdleIs DEF TruncateFile, OverwritePage, RestoreReturn, Ops, Restores
  <2> QED
    BY <1>1, <2>1, <2>2
<1>20. ASSUME OpenSQLiteConfig \/ Close \/ PassiveCheckpoint PROVE Goal
  BY <1>3, <1>20 DEF OpenSQLiteConfig, Close, PassiveCheckpoint, counters
<1>21. ASSUME UNCHANGED vars PROVE Goal
  BY <1>3, <1>21 DEF vars, counters
<1>22. ASSUME Next PROVE Goal
  <2>1. CASE OpenSQLiteConfig \/ RunSchemaEvolution \/ Close \/ Crash \/ Tick \/ PassiveCheckpoint
             \/ \E i \in Ids : Put(i) \/ Delete(i)
    BY <1>4, <1>5, <1>6, <1>7, <1>20, <2>1
  <2>2. CASE CheckpointLog \/ CreateFile \/ CopyPage \/ SaveReturn \/ CopyFails \/ AutoSnapshot \/ Clean
             \/ DeleteSnapshot
    BY <1>7, <1>11, <1>12, <1>13, <1>14, <1>15, <1>16, <1>17, <2>2
  <2>3. CASE Create \/ CleanCall \/ TruncateFile \/ OverwritePage \/ RestoreReturn
             \/ \E key \in DOMAIN snaps : Restore(key) \/ RestoreClosed(key)
    BY <1>10, <1>19, <2>3
  <2> QED
    BY <1>22, <2>1, <2>2, <2>3 DEF Next
<1> QED
  BY <1>21, <1>22

LEMMA AutoAlways == Spec => []AutoInv
<1>1. Init => AutoInv
  <2>1. Init => op = Idle /\ faults = 0
    BY DEF Init
  <2>2. Idle.pc = "idle" /\ ~Idle.auto
    BY IdleIs
  <2> QED
    BY <2>1, <2>2 DEF AutoInv
<1>2. TypeInv /\ AutoInv /\ [Next]_vars => AutoInv'
  BY AutoStep
<1> QED
  BY <1>1, <1>2, TypeAlways, PTL DEF Spec

\* An open leaves a snapshot that was not older than the threshold when it
\* began, if it did not take longer than the age at which they are removed:
\* whatever the pace, whoever writes, and whichever of equally new snapshots
\* List returns first.
THEOREM AutoSnapshotKept == Spec => AutoSnapshotFresh
<1>1. TypeInv /\ AutoInv /\ [Next]_vars =>
        [op.auto /\ ~op'.auto /\ faults' = faults /\ clock <= op.since + MaxAge =>
            \E k \in DOMAIN snaps' : k[1] + Delta >= op.since]_vars
  BY AutoStep
<1> QED
  BY <1>1, TypeAlways, AutoAlways, PTL DEF Spec, AutoSnapshotFresh
================================================================================
