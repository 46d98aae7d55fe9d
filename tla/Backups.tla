-------------------------------- MODULE Backups --------------------------------
(***************************************************************************)
(* The database file, from one process that opens it to the next: the      *)
(* schema changes every open makes, the snapshots copied beside the file,  *)
(* their retention, and a restore over the file.  The process may die, or  *)
(* a copy fail, between any two steps.                                     *)
(*                                                                         *)
(* A database image is a function on pages: one page per artifact and the  *)
(* catalog, on which the schema and the small tables are kept.  A commit   *)
(* goes to the write-ahead log; a reader sees the log over the file.       *)
(***************************************************************************)
EXTENDS Naturals, Sequences, FiniteSets

CONSTANTS
    Ids,            \* artifact ids
    Legacy,         \* the ids stored by an older build
    LegacyColumns,  \* the columns of its artifacts table
    MaxCommits,     \* bound: artifact writes
    MaxTime,        \* bound: the clock, in units of the snapshot names
    MaxFaults,      \* bound: crashes and failed copies
    MaxCount,       \* SnapshotConfig.MaxCount
    MaxAge,         \* SnapshotConfig.MaxAgeDays, in units of the clock
    Delta,          \* SnapshotConfig.TimeDeltaH, in units of the clock
    Paused,         \* TRUE: nothing is written while a file is copied
    Paced,          \* TRUE: no two snapshots are named within one unit
    Reopened,       \* TRUE: a restored database is reopened before it is used
    Blocked         \* TRUE: another process may hold the lock a step needs

ASSUME BackupsAssumption ==
    /\ "catalog" \notin Ids
    /\ Legacy \subseteq Ids
    /\ LegacyColumns \subseteq {"inserted_at", "alias", "uid"}
    /\ {MaxTime, MaxFaults, MaxAge, Delta} \subseteq Nat
    /\ {MaxCommits, MaxCount} \subseteq Nat \ {0}
    /\ {Paused, Paced, Reopened, Blocked} \subseteq BOOLEAN

VARIABLES
    file,       \* the main database file: an image, blank where it is not copied yet
    wal,        \* committed pages not yet in the file
    held,       \* the pages open connections still hold of a file that was replaced
    snaps,      \* [name -> image]: the snapshot files
    mode,       \* "closed", "open", or the evolution step an open has reached
    probe,      \* the legacy columns the open has found
    op,         \* the snapshot operation in progress
    clock, commits, faults,
    kept,       \* history: the images a snapshot may hold, once its Save returned
    before,     \* history: the rows before the last restore
    restored    \* history: the rows the last restore brought back, until a write

vars == <<file, wal, held, snaps, mode, probe, op, clock, commits, faults,
          kept, before, restored>>

disk == <<file, wal, held>>
history == <<kept, before, restored>>
counters == <<clock, commits, faults>>

------------------------------------------------------------------------------
(* Images.                                                                 *)

Catalog == "catalog"

Pages == Ids \union {Catalog}

Blank == [blank |-> TRUE]

Nothing == [p \in {} |-> Blank]

\* The pages of f, and those of g that f does not have.
Over(f, g) == [p \in DOMAIN f \union DOMAIN g |-> IF p \in DOMAIN f THEN f[p] ELSE g[p]]

With(f, k, v) == [x \in DOMAIN f \union {k} |-> IF x = k THEN v ELSE f[x]]

BlankFile == [p \in Pages |-> Blank]

\* n: the commit that wrote the row, 0 when there is none; alias: the legacy
\* column holds one; stamped: inserted_at is set.
Row(n, alias, stamped) == [n |-> n, alias |-> alias, stamped |-> stamped]

Absent == Row(0, FALSE, FALSE)

NewCatalog == [version |-> 0, columns |-> {}, tables |-> {}, ring |-> {},
               labelled |-> {}, triggers |-> FALSE]

\* A file an older build left behind, or a new one when Legacy is empty.
FirstImage ==
    [p \in Pages |->
        CASE p = Catalog -> [NewCatalog EXCEPT !.columns = IF Legacy = {} THEN {} ELSE LegacyColumns]
          [] p \in Legacy -> Row(1, "alias" \in LegacyColumns, FALSE)
          [] OTHER -> Absent]

EmptyImage == [p \in Pages |-> IF p = Catalog THEN NewCatalog ELSE Absent]

Stored == Over(wal, file)

View == Over(held, Stored)

Torn(image) == \E p \in Pages : image[p] = Blank

\* ReadArtifactIndex: what identifies an artifact's content.
Index(image) == [i \in Ids |-> IF image[i] = Blank THEN 0 ELSE image[i].n]

\* A transaction appends the pages it changed.
Changed(image) == [p \in {q \in Pages : image[q] # View[q]} |-> image[p]]

------------------------------------------------------------------------------
(* Opening: the schema, then runSchemaEvolutions, each statement a         *)
(* transaction of its own.                                                 *)

\* (mutant) the triggers are made before the table they belong to is replaced
StepsTriggerFirst ==
    <<"schema", "inserted_at", "stamp", "annotations", "labels", "backfill", "sources",
      "ring", "probe", "copy", "trigger", "drop", "revisions", "version">>

Steps ==
    <<"schema", "inserted_at", "stamp", "annotations", "labels", "backfill", "sources",
      "ring", "probe", "copy", "drop", "revisions", "trigger", "version">>

SchemaUserVersion == 6

LegacyOnly == {"alias", "uid"}

After(step) == LET i == CHOOSE j \in DOMAIN Steps : Steps[j] = step
               IN  IF i = Len(Steps) THEN "open" ELSE Steps[i + 1]

AddColumn(image, c) == [image EXCEPT ![Catalog].columns = @ \union {c}]

AddTable(image, t) == [image EXCEPT ![Catalog].tables = @ \union {t}]

\* CREATE TABLE IF NOT EXISTS: an old table keeps the columns it has.
CreateSchema(image) ==
    AddTable(IF image[Catalog].columns = {}
             THEN [image EXCEPT ![Catalog].columns = {"inserted_at", "annotations"}]
             ELSE image, "labels")

StampRows(image) ==
    [p \in Pages |-> IF p \in Ids /\ image[p].n > 0 THEN [image[p] EXCEPT !.stamped = TRUE]
                                                    ELSE image[p]]

Labels(image) == {i \in Ids : image[i].n > 0}

Backfill(image) == [image EXCEPT ![Catalog].labelled = @ \union Labels(image)]

\* (mutant) aliases are not copied to the ring before their column goes
CopyAliasesNot(image) == image

CopyAliases(image) == [image EXCEPT ![Catalog].ring = @ \union {i \in Ids : image[i].alias}]

\* One transaction: a new table, the rows copied, the old table dropped with
\* its triggers.
DropLegacyColumns(image) ==
    [p \in Pages |-> IF p \in Ids THEN [image[p] EXCEPT !.alias = FALSE]
                     ELSE [image[p] EXCEPT !.columns = @ \ LegacyOnly, !.triggers = FALSE]]

Effect(step, image) ==
    CASE step = "schema"      -> CreateSchema(image)
      [] step = "inserted_at" -> AddColumn(image, "inserted_at")
      [] step = "stamp"       -> StampRows(image)
      [] step = "annotations" -> AddColumn(image, "annotations")
      [] step = "labels"      -> AddTable(image, "labels")
      [] step = "backfill"    -> Backfill(image)
      [] step = "sources"     -> AddColumn(image, "sources")
      [] step = "ring"        -> AddTable(image, "ring")
      [] step = "copy"        -> IF "alias" \in probe THEN CopyAliases(image) ELSE image
      [] step = "drop"        -> IF probe # {} THEN DropLegacyColumns(image) ELSE image
      [] step = "revisions"   -> AddTable(image, "revisions")
      [] step = "trigger"     -> [image EXCEPT ![Catalog].triggers = TRUE]
      [] step = "version"     -> [image EXCEPT ![Catalog].version = SchemaUserVersion]
      [] OTHER                -> image

\* A statement whose failure is only logged.
Soft(step) == step \notin {"schema", "probe", "drop", "version"}

\* The schema has an index on inserted_at, which a table without that column
\* refuses; the rows are copied with their annotations.
Refused(step, image) ==
    LET columns == image[Catalog].columns
    IN  \/ step = "schema" /\ columns # {} /\ "inserted_at" \notin columns
        \/ step = "drop" /\ probe # {} /\ "annotations" \notin columns

------------------------------------------------------------------------------
(* Snapshot operations: one at a time, each a chain of file accesses.      *)

SnapNames == {"", "auto", "pre-restore"}

SnapshotKey(t, name) == <<t, name>>

NoKey == <<>>

Idle == [pc |-> "idle", name |-> "", key |-> NoKey, target |-> NoKey, next |-> "idle",
         todo |-> {}, seen |-> {}, auto |-> FALSE, since |-> 0]

Saving(name, next, target) ==
    [Idle EXCEPT !.pc = "checkpoint", !.name = name, !.next = next, !.target = target,
                 !.seen = {View}]

Quiet == op.pc = "idle"

\* The store is used by its callers.
InUse == mode = "open" /\ (Paused => Quiet) /\ (Reopened => held = Nothing)

Callable == InUse /\ Quiet

Init ==
    /\ file = FirstImage
    /\ wal = Nothing /\ held = Nothing
    /\ snaps \in {Nothing, With(Nothing, <<0, "">>, FirstImage)}
    /\ mode = "closed" /\ probe = {} /\ op = Idle
    /\ clock = 0 /\ commits = 1 /\ faults = 0
    /\ kept = Nothing /\ before = {} /\ restored = {}

\* A file of no length is a new database; a damaged one is not opened.
OpenSQLiteConfig ==
    /\ mode = "closed" /\ Quiet
    /\ ~Torn(Stored) \/ Stored = BlankFile
    /\ file' = IF Stored = BlankFile THEN EmptyImage ELSE file
    /\ mode' = Steps[1]
    /\ probe' = {}
    /\ UNCHANGED <<wal, held, snaps, op, counters, history>>

\* NewSQLiteBackend goes on to AutoSnapshot once the store is open.
RunSchemaEvolution ==
    /\ mode \notin {"closed", "open"}
    /\ \/ /\ ~Refused(mode, View)
          /\ wal' = Over(Changed(Effect(mode, View)), wal)
          /\ probe' = IF mode = "probe" THEN View[Catalog].columns \intersect LegacyOnly ELSE probe
          /\ mode' = After(mode)
       \/ /\ Blocked \/ Refused(mode, View)
          /\ mode' = IF Soft(mode) THEN After(mode) ELSE "closed"
          /\ UNCHANGED <<wal, probe>>
    /\ op' = IF mode' = "open" THEN [Idle EXCEPT !.pc = "auto", !.auto = TRUE, !.since = clock]
                               ELSE op
    /\ UNCHANGED <<file, held, snaps, counters, history>>

\* The row and its labels, in one transaction; a delete leaves the labels.
WriteRow(i, row) ==
    LET image == [View EXCEPT ![i] = row, ![Catalog].labelled = @ \union {i}]
    IN  /\ wal' = Over(Changed(image), wal)
        /\ held' = IF held = Nothing THEN Nothing ELSE image
        /\ op' = [op EXCEPT !.seen = IF Quiet THEN {} ELSE @ \union {image}]
        /\ before' = {}
        /\ restored' = {}

Put(i) ==
    /\ InUse /\ commits < MaxCommits
    /\ WriteRow(i, Row(commits + 1, FALSE, TRUE))
    /\ commits' = commits + 1
    /\ UNCHANGED <<file, snaps, mode, probe, clock, faults, kept>>

Delete(i) ==
    /\ InUse /\ commits < MaxCommits /\ View[i].n > 0
    /\ WriteRow(i, Absent)
    /\ commits' = commits + 1
    /\ UNCHANGED <<file, snaps, mode, probe, clock, faults, kept>>

\* The periodic wal_checkpoint(PASSIVE): the log keeps its pages.
PassiveCheckpoint ==
    /\ mode = "open" /\ file # Stored
    /\ file' = Stored
    /\ UNCHANGED <<wal, held, snaps, mode, probe, op, counters, history>>

\* (mutant) the log is copied to the file but not emptied
LogAfterTruncatePassive == wal

\* wal_checkpoint(TRUNCATE) empties the log once it is in the file.
LogAfterTruncate == Nothing

\* (mutant) the file is copied without a checkpoint
FileAfterTruncateNot == file

FileAfterTruncate == Stored

Close ==
    /\ mode = "open" /\ Quiet
    /\ \/ file' = FileAfterTruncate /\ wal' = LogAfterTruncate
       \/ Blocked /\ UNCHANGED <<file, wal>>
    /\ held' = Nothing
    /\ mode' = "closed"
    /\ UNCHANGED <<snaps, probe, op, counters, history>>

Crash ==
    /\ mode # "closed" \/ ~Quiet
    /\ faults < MaxFaults
    /\ faults' = faults + 1
    /\ mode' = "closed" /\ op' = Idle /\ held' = Nothing
    /\ UNCHANGED <<file, wal, snaps, probe, clock, commits, history>>

Tick ==
    /\ clock < MaxTime
    /\ clock' = clock + 1
    /\ UNCHANGED <<disk, snaps, mode, probe, op, commits, faults, history>>

------------------------------------------------------------------------------
(* Save.                                                                   *)

Create ==
    /\ Callable
    /\ op' = Saving("", "idle", NoKey)
    /\ UNCHANGED <<disk, snaps, mode, probe, counters, history>>

\* A checkpoint that fails is only logged.
CheckpointLog ==
    /\ op.pc = "checkpoint"
    /\ \/ file' = FileAfterTruncate /\ wal' = LogAfterTruncate
       \/ Blocked /\ UNCHANGED <<file, wal>>
    /\ op' = [op EXCEPT !.pc = "create"]
    /\ UNCHANGED <<held, snaps, mode, probe, counters, history>>

\* A file of the same name is truncated.
CreateFile ==
    LET key == SnapshotKey(clock, op.name)
    IN  /\ op.pc = "create"
        /\ Paced => \A k \in DOMAIN snaps : k[1] # clock
        /\ snaps' = With(snaps, key, BlankFile)
        /\ op' = [op EXCEPT !.pc = "copy", !.key = key, !.todo = Pages]
        /\ UNCHANGED <<disk, mode, probe, counters, history>>

CopyPage ==
    /\ op.pc = "copy"
    /\ \E p \in op.todo :
          /\ snaps' = [snaps EXCEPT ![op.key][p] = file[p]]
          /\ op' = [op EXCEPT !.todo = @ \ {p}]
    /\ UNCHANGED <<disk, mode, probe, counters, history>>

SaveReturn ==
    /\ op.pc = "copy" /\ op.todo = {}
    /\ kept' = With(kept, op.key, op.seen)
    /\ op' = IF op.next = "idle" THEN Idle ELSE [op EXCEPT !.pc = op.next, !.seen = {}]
    /\ UNCHANGED <<disk, snaps, mode, probe, counters, before, restored>>

\* No space, no permission: the call returns an error and leaves what it wrote.
CopyFails ==
    /\ op.pc \in {"create", "copy", "overwrite"}
    /\ faults < MaxFaults
    /\ faults' = faults + 1
    /\ op' = Idle
    /\ UNCHANGED <<disk, snaps, mode, probe, clock, commits, history>>

------------------------------------------------------------------------------
(* AutoSnapshot and Clean.                                                 *)

\* (mutant) the list is sorted oldest first
NewerReversed(k, l) == k[1] < l[1]

Newer(k, l) == k[1] > l[1]

\* List returns the newest first, in any order among equal times.
Firsts(n) ==
    {K \in SUBSET DOMAIN snaps :
        /\ Cardinality(K) = IF Cardinality(DOMAIN snaps) < n THEN Cardinality(DOMAIN snaps) ELSE n
        /\ \A k \in K, l \in DOMAIN snaps \ K : ~Newer(l, k)}

AutoSnapshot ==
    /\ op.pc = "auto"
    /\ op' = IF DOMAIN snaps = {} THEN [Saving("auto", "idle", NoKey) EXCEPT !.auto = TRUE, !.since = op.since]
             ELSE IF \E K \in Firsts(1) : \A k \in K : clock > k[1] + Delta
             THEN [Saving("auto", "clean", NoKey) EXCEPT !.auto = TRUE, !.since = op.since]
             ELSE Idle
    /\ UNCHANGED <<disk, snaps, mode, probe, counters, history>>

CleanCall ==
    /\ Callable
    /\ op' = [Idle EXCEPT !.pc = "clean"]
    /\ UNCHANGED <<disk, snaps, mode, probe, counters, history>>

TooOld(k) == k[1] + MaxAge < clock

Clean ==
    /\ op.pc = "clean"
    /\ \E K \in Firsts(MaxCount) :
          op' = [op EXCEPT !.pc = "delete",
                           !.todo = {k \in DOMAIN snaps : k \notin K \/ TooOld(k)}]
    /\ UNCHANGED <<disk, snaps, mode, probe, counters, history>>

Without(f, k) == [x \in DOMAIN f \ {k} |-> f[x]]

DeleteSnapshot ==
    /\ op.pc = "delete"
    /\ \/ \E k \in op.todo :
            /\ snaps' = Without(snaps, k)
            /\ kept' = Without(kept, k)
            /\ before' = {}
            /\ op' = [op EXCEPT !.todo = @ \ {k}]
       \/ op.todo = {} /\ op' = Idle /\ UNCHANGED <<snaps, kept, before>>
    /\ UNCHANGED <<disk, mode, probe, counters, restored>>

------------------------------------------------------------------------------
(* Restore.                                                                *)

\* (mutant) the database is overwritten without a snapshot of it
RestoreOpUnsaved(key) == [Idle EXCEPT !.pc = "restore", !.target = key]

\* A snapshot of the current database comes first.
RestoreOp(key) == Saving("pre-restore", "restore", key)

Restore(key) ==
    /\ Callable
    /\ key \in DOMAIN snaps
    /\ op' = RestoreOp(key)
    /\ before' = {Index(View)}
    /\ UNCHANGED <<disk, snaps, mode, probe, counters, kept, restored>>

\* By the backend alone, over a file that can no longer be opened.
RestoreClosed(key) ==
    /\ mode = "closed" /\ Quiet
    /\ Torn(Stored) /\ key \in DOMAIN snaps
    /\ op' = [Idle EXCEPT !.pc = "restore", !.target = key]
    /\ UNCHANGED <<disk, snaps, mode, probe, counters, history>>

\* The database file is truncated, its log and its connections left as they are.
TruncateFile ==
    /\ op.pc = "restore"
    /\ file' = BlankFile
    /\ held' = IF mode = "open" THEN View ELSE Nothing
    /\ op' = [op EXCEPT !.pc = "overwrite", !.todo = Pages]
    /\ restored' = {}
    /\ UNCHANGED <<wal, snaps, mode, probe, counters, kept, before>>

OverwritePage ==
    /\ op.pc = "overwrite"
    /\ \E p \in op.todo :
          /\ file' = [file EXCEPT ![p] = snaps[op.target][p]]
          /\ op' = [op EXCEPT !.todo = @ \ {p}]
    /\ UNCHANGED <<wal, held, snaps, mode, probe, counters, history>>

RestoreReturn ==
    /\ op.pc = "overwrite" /\ op.todo = {}
    /\ op' = Idle
    /\ restored' = {Index(snaps[op.target])}
    /\ UNCHANGED <<disk, snaps, mode, probe, counters, kept, before>>

------------------------------------------------------------------------------
Next ==
    \/ OpenSQLiteConfig \/ RunSchemaEvolution \/ Close \/ Crash \/ Tick
    \/ \E i \in Ids : Put(i) \/ Delete(i)
    \/ PassiveCheckpoint
    \/ Create \/ CheckpointLog \/ CreateFile \/ CopyPage \/ SaveReturn \/ CopyFails
    \/ AutoSnapshot \/ CleanCall \/ Clean \/ DeleteSnapshot
    \/ \E key \in DOMAIN snaps : Restore(key) \/ RestoreClosed(key)
    \/ TruncateFile \/ OverwritePage \/ RestoreReturn

Spec == Init /\ [][Next]_vars

------------------------------------------------------------------------------
(* Properties.                                                             *)

Modes == {"closed", "open"} \union {Steps[i] : i \in DOMAIN Steps}

RowPages == [n : 0..MaxCommits, alias : BOOLEAN, stamped : BOOLEAN] \union {Blank}

IsPart(f) ==
    /\ DOMAIN f \subseteq Pages
    /\ \A p \in DOMAIN f : p \in Ids => f[p] \in RowPages

TypeOK ==
    /\ IsPart(file) /\ DOMAIN file = Pages /\ IsPart(wal) /\ IsPart(held)
    /\ DOMAIN snaps \subseteq (0..MaxTime) \X SnapNames
    /\ \A k \in DOMAIN snaps : IsPart(snaps[k]) /\ DOMAIN snaps[k] = Pages
    /\ mode \in Modes
    /\ probe \subseteq LegacyOnly

\* Wherever an open that upgrades the file is cut off, and however often it is
\* begun again, the alias of every row the older build wrote is in its old
\* column or in the ring (runSchemaEvolutions copies them before
\* dropLegacyArtifactColumns), in a file an older snapshot was restored to as well.
AliasesKept ==
    "alias" \in LegacyColumns /\ Quiet /\ ~Torn(View) =>
        \A i \in Legacy : View[i].n = 1 => View[i].alias \/ i \in View[Catalog].ring

\* A store in use has the current schema, whichever build or snapshot its file
\* comes from: no legacy columns, all tables, the triggers, every row stamped,
\* and label rows for all artifacts that are stored.
SchemaCurrent ==
    InUse => LET c == View[Catalog]
             IN  /\ c.version = SchemaUserVersion /\ c.triggers
                 /\ c.columns = {"inserted_at", "annotations", "sources"}
                 /\ c.tables = {"labels", "ring", "revisions"}
                 /\ Labels(View) \subseteq c.labelled
                 /\ \A i \in Ids : View[i].n > 0 => View[i].stamped

\* "Checkpoint WAL for consistent snapshot": a snapshot whose Save has returned
\* holds the database as it was at one moment of the call, until it is deleted.
SnapshotsConsistent ==
    Quiet => \A k \in DOMAIN kept : k \in DOMAIN snaps /\ snaps[k] \in kept[k]

\* "Creating a pre-restore backup first": wherever a restore fails or crashes,
\* the artifacts it replaces are in the database or in a whole snapshot.
Recoverable ==
    \A b \in before :
        \/ ~Torn(Stored) /\ Index(Stored) = b
        \/ \E k \in DOMAIN snaps : ~Torn(snaps[k]) /\ Index(snaps[k]) = b

\* "Replaces the current database with a snapshot": a store in use after a
\* restore shows the artifacts of that snapshot, and no page of what it replaced.
RestoreTakesEffect == InUse => \A r \in restored : Index(View) = r

\* Opening the backend leaves a snapshot that was not older than the threshold,
\* whatever retention removed after it, unless the open itself took longer than
\* the age at which snapshots are removed (AutoSnapshot, Clean).
AutoSnapshotFresh ==
    [][op.auto /\ ~op'.auto /\ faults' = faults /\ clock <= op.since + MaxAge =>
          \E k \in DOMAIN snaps' : k[1] + Delta >= op.since]_vars

==============================================================================
