# Formal model of dt-ducklake-manager

`dt_ducklake_manager` keeps *result sets* in a DuckLake catalog: a wide fact table, the metadata
that describe its columns to an interface, and one row of dataset information. This directory
holds TLA+ modules translated from its source, the TLC configurations that check them, and
proofs checked by TLAPS. Paths are relative to `src/dt_ducklake_manager/` unless they say otherwise.

## 1. The system

### Parts, state and operations

| Part | State | Operations | What makes it correct |
|---|---|---|---|
| Column links (`utils/hierarchy.py`, `utils/value_labels.py`) | none: `parent_name` and `label_for` are columns of `metadata` | validate a forest, list hierarchies, validate pairs, check code → label | the walk finds every cycle; the two queries decide the functional dependency, restricted or not |
| SQL types (`utils/types.py`) | none | map a dtype, merge two types | a merge loses no stored value; retries change nothing |
| `BaseSchemaManager` (`operations/_base.py`) | `metadata`, `dataset_metadata.cluster_by`, DuckLake's `SORTED BY`; per manager `_in_transaction`, `_current_report`, `last_report`, `_metadata_cache` | `_transaction`, `update_column_metadata`, `update_cluster_by`, column drops, null-only cleanup, type widening | a write is all or nothing; metadata, fact table and sort key agree; links resolve |
| `DatabaseUpdater` (`operations/updater.py`) | `fact_table` | `update_database`, `add_columns`, `update_value_labels` | keys stay unique; declared pairs hold |
| `DatabaseDeleter` (`operations/deleter.py`) | `fact_table` | `delete_rows`, `delete_columns` | keys are never dropped; nothing dangles; the cleanup is separate from the deletion |
| Builders (`schema/`) | the inferred frames | `build_schema` | the three tables appear together and satisfy every invariant |
| Reports (`reporting.py`) | snapshot identifiers, counts | commit message, change counts | a report is that of the call it describes |
| Recovery (`maintenance/recovery.py`) | the snapshots | `restore_snapshot` | the restored tables agree with what is not restored |
| Maintenance (`maintenance/policy.py`, `procedures.py`) | data files | `maintain`, `recluster`, `compact`, expiry, clean-up | no row is lost, no live file deleted |
| Auditor (`maintenance/auditor.py`) | none | `validate_database` | detects what breaks the invariants |
| Connector (`connection/connector.py`) | a connection | attach, secrets, options | mostly SQL text |

### How the parts meet

A builder creates the three tables of a schema in one transaction. Updaters and deleters then write
them, each through `_transaction`, the only place that sends BEGIN, COMMIT and ROLLBACK for these
operations. Several managers may share one DuckDB connection; each has its own flag, cache and
reports, so they meet in the transaction of the connection. Several processes may share a catalog on
PostgreSQL; they meet in DuckLake's snapshots and conflict rules. DuckLake enforces no key and no
constraint: every invariant below rests on the order of checks in Python and SQL.

### What is hard

* a write is a dozen statements, any of which may fail, and the commit has a step of its own
  (the commit message) that may fail where no handler catches it;
* `delete_rows` is two transactions, because DuckDB refuses to mix DELETE and DROP COLUMN;
* after an upsert the pairs are checked only on the codes of the rows it touched;
* links are declared and cleared one call at a time, and columns are dropped from three sides;
* the cleanup drops columns in passes over a list that it mutates;
* every call checks and reads before its BEGIN, on a snapshot that may be old when it commits;
* `update_column_metadata` is a sequence of statements that commit one by one;
* a restoration returns rows to the past, and neither columns nor the applied sort key;
* maintenance chains steps that cannot be undone after steps that may fail, beside writers whose files
  the catalog does not know yet;
* SQL's null: a null key matches nothing in a join and groups with other nulls in a uniqueness check.

`PROJECT.json` lists each of these under `hazards`, at its line, with the properties that cover it.

## 2. The modules

| Module | Models | Written for |
|---|---|---|
| `ColumnLinks` | the link functions, as operators over functions and sets | TLC and proofs |
| `NaturalSets` | induction over sets of naturals, for the recursive functions of the models | TLAPS |
| `ColumnLinks_proofs` | the loops of the link functions compute what their definitions without loops say | TLAPS |
| `SqlTypes` | the ranks of types and their merge | TLC and proofs |
| `Algorithms` | a machine that visits every graph, table and type of a small instance | TLC and proofs |
| `Algorithms_proofs` | the properties of `Algorithms`, for any columns and values | TLAPS |
| `ResultSet` | the three tables of a schema and every operation that writes them | TLC and proofs |
| `MCResultSet` | the instances of `ResultSet` | TLC |
| `ResultSet_proofs` | theorems about `ResultSet`: types, links, sort keys, keys | TLAPS |
| `ValuePairs_proofs` | the pairs of `ResultSet`, over `ResultSet_proofs` | TLAPS |
| `AtomicWrites` | what the write operations promise their caller | abstract specification |
| `WriteTransaction` | `_transaction`, for managers that share a connection | TLC and proofs |
| `WriteTransaction_proofs` | atomicity, reports, reads, and the refinement of `AtomicWrites` | TLAPS |
| `Audit` | the checks of `DatabaseAuditor`, on any state of `ResultSet` | TLC and proofs |
| `SharedCatalog`, `MCSharedCatalog` | processes with a connection each on one catalog: snapshots, conflicts, restoration, recluster | TLC and proofs |
| `SharedCatalog_proofs` | a catalog shared by any number of processes: types, keys, links, pairs, sort keys, that a commit is its call, what the audit decides | TLAPS |
| `LogicalTable` | what the storage of a table promises its readers | abstract specification |
| `DuckLakeFiles` | data files, delete files, inlined rows, and what DuckLake's procedures do to them (external) | TLC and proofs |
| `StorageMaintenance`, `MCStorageMaintenance` | `maintain`, `recluster`, the procedures and `compact`, beside a writer | TLC and proofs |
| `StorageMaintenance_proofs` | files, opt-in destruction, and the refinement of `LogicalTable` | TLAPS |

`ResultSet` extends `ColumnLinks` and `SqlTypes`; `WriteTransaction` instantiates `AtomicWrites` with
`stored <- durable`; `Audit` extends `ResultSet` and `SharedCatalog` extends `Audit`;
`StorageMaintenance` extends `DuckLakeFiles` and instantiates `LogicalTable`. `PROJECT.json` maps each definition to the lines it translates.
Definitions commented `Mutant:` are plausible faults used to check that a property can fail; no
specification refers to them.

### ColumnLinks, SqlTypes, Algorithms

A mapping is a function, Python's `None` and SQL's `NULL` are one value `NULL`, a table is a set of
rows. `Ancestry` is the chain of `parent_of.get` calls; `validate_hierarchy_forest` is true when no walk
meets a column twice. `check_value_label_dependency` is the grouped query and the null-code count,
each with its own restriction, since `IN` never selects a null and `EXISTS ... IS NULL` does.
`DroppedByPasses` is the loop of `_cleanup_null_only_columns`: passes (`OnePass`) over a list of columns, each of which is
dropped as the pass comes to it, so that the columns after it in the same pass see it gone. Each has a reference that
does not follow the code: `IsForest`, `Determines`, `Droppable` (the least closed set, which knows no order).

Three of the properties are about what callers rely on. `RestrictedCheckSuffices`: after an upsert the check reads only the codes the
batch touched; on a table whose untouched rows were in order before, it answers as a check of the whole table would.
`OrderMattersOnlyIfSignsClash`: two batches merge a type in either order alike, for all types, unless two of
the three types are the signed and the unsigned integer of one rank; then the order may decide.

### ResultSet

`fact_columns` are the physical columns with their types, `rows` the fact table, `metadata` its rows by
column name, `cluster_by` and `sorted_by` the declared and the applied sort key, as sets of columns.
One action is one public call that returns, with everything it does, in order: new columns, their metadata rows,
the declared fields, type merges, UPDATE, INSERT, pair checks, key check. A call that raises changes
nothing: its condition is a guard. The justification is `WriteTransaction`.

* Columns of a batch are any set with the keys; its rows any set within `MaxBatch`; its types any
  that `ColumnTypes` allows; deduplication leaves which row survives open.
* `UpdateDatabase` and `AddColumns` differ as the code does: the first widens types, may check keys
  again and gives the pair check every column of the batch; the second gives it the value columns only.
* `DeleteRows` composes the deletion and its cleanup; without cleanup, or when the cleanup fails, it is
  the deletion alone.
* Initial states are the result sets `build_schema` may leave, null keys included (a build
  looks for duplicates, not for nulls).
* A declared `ParentChoices`, `LabelChoices` or `CategoricalChoices` bounds what callers pass.

Left out: the structural audit that ends a write (it reports the disagreements modelled here as warnings, and
refuses a write only when a table is missing); `updated_at` and texts (label, unit, description); the
order of the sort key; the cardinality threshold of `is_categorical` (below it at these sizes);
`validate_dependencies=False`; a refused ALTER (it raises: nothing changes); fields of several columns in one call.

### WriteTransaction and AtomicWrites

A call is a block of `Statements` writes, in a transaction or in autocommit, perhaps followed by a
cleanup block. The actions are the steps of `_transaction`: `EnterDirectly` (the early branch),
`Begin`/`BeginFails`, `LoadMetadata`, `Statement`, `StatementFails` (the `except` branch),
`Commit`/`CommitFails` (the `else` branch, where nothing rolls back), `Measure`, and `Restart` for an end
of the process at any point. The connection is idle, open or aborted as DuckDB's is; a
BEGIN in an open transaction raises. Calls on a connection run one at a time.

Left out: the argument checks that raise before `_transaction` is entered (nothing is written, and `last_report` stays that of the call
before), and `KeyboardInterrupt`, which `except Exception` lets through: in a process that goes on, it leaves the transaction open as a failed commit message does.

`AtomicWrites` has three variables: what is stored, how each call was made, what its caller was told. A call
in a transaction stores its blocks whole; one that returns has stored its main block; one that
raises has stored nothing of it. The refinement mapping takes `durable` for `stored`.

### SharedCatalog

The variables of `ResultSet` become the current snapshot of a catalog that several processes use. A call goes
through phases: `Check` (what precedes its BEGIN: argument checks, dependency analysis, the key that `recluster`
reads, the copies that `restore_snapshot` makes), `Begin` (the snapshot its transaction reads), `Commit` or
`Rollback`. The bodies compute a change from the snapshot read, with the operators of `ResultSet`; `Commit` applies that
change to the current snapshot, which may be a later one. `update_column_metadata` called on its own opens
no transaction: `UpdateFields` and one `ForceCategorical` for each end of the link, with `CutShort` in between.

What is assumed of DuckLake (external): a transaction reads one snapshot; a commit is refused when, since its BEGIN, another
commit has updated or deleted a row it updates or deletes, or altered a table it writes; two inserts never conflict.
DuckLake may refuse more (`Rollback` is always possible), never less. Every write updates the one row
of `dataset_metadata` (`_touch_dataset_metadata`), so any two writes conflict; `recluster`, `update_column_metadata` and a
restoration without `dataset_metadata` do not stamp.

The table is a set of rows. That is exact while no commit inserts a row that is there, which `SharedTypeOK` includes; after
"write beside restore" a row may be there twice and is counted once, and nothing is claimed of keys any more.

`holes` records what has happened that these conflicts do not exclude, and the properties name, for each invariant, the holes
through which it may be lost. The list is tight: without any one of the exceptions it names, each property fails
on this instance. The holes are

| Hole | Opened by |
|---|---|
| declaration beside links, beside rows | `update_column_metadata` checked before another commit of links or types, or of rows |
| write, drop beside declaration | `update_database`, a drop or a cleanup that ran while a link was declared |
| write beside restore | a restoration without `dataset_metadata` beside a change of rows, or an upsert or a restoration of `fact_table` beside such a restoration |
| restore beside columns | a restoration whose column check precedes a drop |
| partial restore, metadata restored | `restore_snapshot` with some of the tables only |
| sort key | a restoration of `dataset_metadata`; a `recluster` that realigns on the key it read |
| cut short | a failure between the statements of `update_column_metadata` |

`CommitsAreCalls` relates the two levels: apart from links declared and tables restored beside it, a commit is the
corresponding action of `ResultSet`, taken in one step on the current state. That is what makes the invariants of
`ResultSet`, proved for its atomic calls, meaningful for several processes.

Left out: calls that add columns and `update_value_labels` (the path of `update_database`); the several reads of one check, taken as one
snapshot; snapshots taken by these processes as targets of a restoration (`History` holds older ones); the refusal of an `INSERT` whose
columns are as many but others.

### Audit

One operator per check of `DatabaseAuditor`, with its early returns and skipped columns, giving sets of issues; `validate_database` joins
them by level, `get_quick_health_check` reads their severity. The three tables always exist here (`build_schema` creates
them together, nothing drops them), so the issues about missing tables, null labels and the number of rows of
`dataset_metadata` do not occur. `AuditDecidesInvariants` evaluates the audit in the damaged states that
`SharedCatalog` reaches.

### StorageMaintenance, DuckLakeFiles, LogicalTable

A row is its place in the order of `cluster_by` and is inserted once; `SortValue` gives its value in the first of these columns, on which
`overlap_ratio` compares files and which several rows may share. A data file has its rows with the
snapshot that inserted each, the rows deleted from it with the snapshot of their deletion (its delete file), and the
snapshots it is active in. `DuckLakeFiles` states what DuckLake does to files, as the package records having measured it
(docstrings of `procedures.py` and `policy.py`, `src/docs/maintenance.md`); it is external.

`maintenance` is a call to `maintain`: its step, its policy and its last `storage_report`, taken again (`Measure`) after each step that
ran. Each step is skipped, planned (`dry_run`), run, or fails. `recluster` is `ReclusterBegin` (the copy), `ReclusterCommit`
and `ReclusterMerge`, beside a writer that begins, commits, abandons (with or without a ROLLBACK that deletes its file) and then compacts
(`CompactRewrite`, `CompactMerge`; the rewrite may fail, and the process may end before either, `CompactStops`). Either process may end anywhere. A procedure has no effect when a file it reads is missing.

`LogicalTable` has the rows of each retained snapshot and the write in progress. The refinement mapping takes a scan at
every retained snapshot for `contents`, counting each row, so that a row read twice is as wrong as a row lost.

Abstractions: a measure is one atomic read; the retention is counted in snapshots; sizes are counted in rows; the sort key starts
unset, as for a table built outside the package; the compaction window is the snapshot of the write. The
table has a `cluster_by` and its overlap can be measured: otherwise `overlap_ratio` is `None` and `maintain` skips its recluster. Left out:
partitioning (`set_partitioned_by`, `repartition`), which changes the layout of files only; counts of reports.

## 3. The runs

| Run | Question | Instance |
|---|---|---|
| `algorithms` | do the pure functions agree with their references? | 4 columns (625 parent mappings of four columns, each with 25 labellings of two columns), null-only columns listed in every order, all tables over 2 values and NULL, all 20 types |
| `result_data` | do rows keep their keys and pairs? | 3 columns, 2 values, ≤ 3 rows, batches ≤ 2, key of one or two columns |
| `result_links` | do metadata, links, types and sort key agree? | 4 columns whose links may loop, chain or mix; 1 row |
| `transaction` | does `_transaction` implement `AtomicWrites`? | 2 managers, 3 calls of 2 statements |
| `commit_failures` | what still holds when a commit fails? | the same, every step may fail |
| `storage` | does maintenance keep every retained snapshot, destroy on request only, and converge? | 4 rows, two of which tie in the first sort column, 3 writes, files of 2 rows, 3 policies, 1 failure |
| `shared_catalog` | what do concurrent processes, restorations and interruptions leave of the invariants, and does the audit see it? | 2 processes, any 3 of 16 calls, 4 columns, 3 keys |
| `failed_commit_message` | is a reported success durable? (no) | 2 calls |
| `key_code_pair` | do pairs whose code is a key hold? (no) | 4 columns, 2 rows |
| `label_as_parent` | can a label column join a hierarchy? (yes) | as `result_links` |
| `type_widening` | does a merge only widen? (no) | as `algorithms` |
| `restore_sort_key` | do the two sort keys agree after a restoration? (no) | as `shared_catalog`, one process, one call |

Why the bounds are enough to be interesting. A cycle with a tail, a chain of three levels and a loop through
both kinds of links need three or four columns. A pair is broken by two rows of one code; a third row is the
one a restricted check does not read, which is why `result_data` has three. Two values and NULL give every
case of the three-valued logic. Two managers are needed for a stale cache and for a transaction one leaves to the
other; three calls for one that fails, one that joins and one that comes after. `result_data` declares symmetry on
the two values, which only `Cells` mention. `result_links` keeps one row, because its questions are about columns;
it still distinguishes an empty table, a null column and a filled one. Deadlock is checked in every run but those of `SharedCatalog`, whose processes stop once they have made `MaxCalls`
calls.

`storage`: the three writes are a build, an inlined insert whose range overlaps it, and an upsert that deletes rows of both;
with files of two rows they give small files, delete files, a fully deleted file, an overlap and an inlined row, each guard of `maintain`
both true and false. The planned policy runs one compaction per step, so that convergence takes several calls; the other policies sweep orphans
and plan only. One failure or end of process may hit any step. `shared_catalog`: the calls meet in pairs (two inserts of one key,
opposite parents, a declaration and a contradicting insert, a drop and a declaration on its column, ...); two processes overlap any two
of them and the third call is what must come before or after. The two processes make the same calls, hence the symmetry. `History` has two
snapshots, one of them with rows that contradict those of a call: two restorations, or a restoration and a deletion, then meet
in every order.

### What the violations show

1. **A failed commit message is not rolled back** (`failed_commit_message`). `_set_commit_message` runs in the
   `else` branch of `_transaction`; a `commit_info` that `json.dumps` refuses raises with the DuckDB transaction open and
   `_in_transaction` true. The manager's next call takes the direct path and returns, and nothing of it is
   durable. `commit_failures` bounds the damage: blocks that opened their own transaction stay atomic.
2. **A code that is a key escapes the check of `add_columns`** (`key_code_pair`): the inserted row
   has a code and no label, and keys are not among the touched columns. `ValuePairsHold`, the same statement for
   the other codes, holds.
3. **A label column can become a parent** (`label_as_parent`): declaring the link looks at the child only.
4. **Widening by rank alone** (`type_widening`): a signed type meets a wider unsigned one and loses its sign.
   `WidensUnlessUnsigned` shows that this is the only exception.

5. **A restoration parts the sort keys** (`restore_sort_key`): `restore_snapshot` refills `dataset_metadata`, `cluster_by` included, and
   leaves `SORTED BY`, although "both are written here, and only here, so that they never diverge" (`_set_cluster_by`). A `recluster`
   repairs it; `SortKeySurvivesWriters` shows that besides it only a stale `recluster` parts them.

### Fairness

Calls of `ResultSet`, `WriteTransaction` and `SharedCatalog` may stop anywhere and nothing in them retries or waits: these
specifications have no fairness. `StorageMaintenance` has `WF(MaintainStep)`: `maintain` is sequential code
without waits, whose next statement runs unless its process ends (`MaintainStops`, bounded by `MaxFailures`). It has
`SF(StartMaintain(PlannedPolicy))`: the planned maintenance of `src/docs/maintenance.md` is called again and again, whatever other calls to
`maintain` take its turn. Nothing is assumed of the writer: it may never commit. `StorageSettles` says that the storage then reaches, and
keeps, a state in which nothing its policy asks for is left, unless a file was destroyed by `delete_orphaned_files`.

Two limits of that claim. That planned maintenance recurs is an assumption about who schedules it: the documentation recommends it, nothing
in the package does it. And the claim depends on the data: `_overlap_ratio` counts files of one and the same range as overlapping, so a value of the first sort
column that fills two files keeps the ratio up however well the table is sorted, and each planned maintenance reclusters again, without end
(the hazard at `policy.py:1050`). The rows of the `storage` instance tie, files share a boundary value and two small files may have one range until they are merged, but no value
fills two files; the run says nothing of tables where one does. The other properties of the run do not depend on the values.

## 4. The proofs

Every invariant and action property that a passing run checks is a theorem, and so are the two refinements, for any value of the constants
that satisfies the assumption of its module. `PROJECT.json` lists the theorems with the property each states.
The assumptions are evaluated by TLC on every run. Each inductive invariant was checked on a run before it was proved.

### ResultSet

`ResultSet_proofs` proves `TypeOK`, `MetadataDescribesFactTable`, `SortKeyAgrees`, `LinksResolve`, `HierarchyIsForest`,
`HierarchyIsCategorical`, `LabelColumnShape`, `PrimaryKeyUnique` and the action property `KeysNeverChange` from
`ResultSetAssumption`: NULL and ABSENT are neither columns nor booleans, the choices
are sets of columns and types. Column sets may be infinite: nothing in these proofs counts them.
The argument is layered, each layer inductive relative to the one before:

* **Shape**: types, `metadata` and `fact_columns` in agreement, sort keys in agreement, keys among the columns. It is
  inductive alone once both sort keys are taken together: a drop is accepted by DuckLake
  because the declared key was rewritten first.
* **Linked** = Shape and well-linked metadata: targets exist, parents form a forest, both ends categorical, label columns
  of the right shape. Forest and resolution are inductive together: a drop removes a column with its
  entry and what points to it. That the *least* set of the cleanup leaves no dependent behind
  (`Droppable` is closed and minimal) is a lemma over sets, without counting passes; that the passes compute it is
  `PassesDropLeastSet`, below.
* **Keyed** = Linked and unique keys: an UPDATE leaves keys alone, an INSERT adds rows of new keys, a drop
  projects on columns that contain the key.
* **Paired** = Linked, and each declared pair whose code is not a key holds on the whole table (`ValuePairs_proofs`,
  `PairsStay`). The check after an upsert reads the rows of the touched codes only. Every row of the new table holds a
  touched code or is a row of the old table (`UpsertedRows`), and the check of a code reads all the rows that hold it, so two rows of one
  code are either both checked or both old (`CheckCompletes`). `update_value_labels` checks every code it lists, and
  a declaration is checked on the whole table. Keys are the exception because an inserted row may bring a
  code that is not among the touched columns (`key_code_pair`).

Lemmas say what each helper returns (`create_metadata_table`, `update_column_metadata`, `metadata_without`,
`resolve_sql_type_conflict`, `upsert_fact_table`); the theorem of a layer has one step per call.

### ColumnLinks and Algorithms

The loops of the code are recursive functions in the model, so that induction over them is induction over their domain.
`NaturalSets` has what that takes: a nonempty set of naturals has a least member, a bounded one a greatest, and a recursive function
satisfies its equation. `ColumnLinks_proofs` shows that

* the walk of `validate_hierarchy_forest`, cut after as many steps as there are columns, meets a column twice exactly when there is
  a loop (`WalkDecidesForest`, by the pigeonhole principle: hence finitely many columns);
* the passes of `_cleanup_null_only_columns` drop `Droppable`, for any list of columns in any order (`PassesDropLeastSet`: a pass adds only columns of every
  closed set, each pass but the last drops a column, and a pass that drops none leaves a closed set);
* the paths of `get_column_hierarchies` go from a root to a leaf and cover the hierarchies (`ChainsCoverHierarchies`).

`Algorithms_proofs` states them, and the properties of the pair checks and of the type merge, as invariants of `Algorithms`. Of two rows
of one code, either both are old or the check reads both (`RestrictedChecksSuffice`). Two merges commute when no two types of one rank and different sign meet
(`BatchesCommute`): the type of higher rank wins, and of two of one rank and one sign the merge keeps the same.
`AlgorithmsAssumption` has `IsFiniteSet(Columns)`: a table has finitely many columns.

### WriteTransaction

Two inductive invariants, for two hypotheses on `FailingSteps`. `Atomic` holds whatever step fails: it says what of a block is
durable or pending, given where the active call is and who owns the open transaction; a manager that a failed COMMIT left
`in_transaction` may contribute to a transaction it did not open, which is why a block that runs directly promises nothing.
It gives `TypesHold`, `BlocksAreAtomic` and `ReportsDescribeCalls`. `Undisturbed` holds when only statements fail
(`OnlyStatementsFail`, the case of the `transaction` run): between calls the connection is idle, every flag and
current report are cleared. It gives `ReadsAreCurrent`, `LastReportHolds` and, with `Atomic`, the refinement `CallsAreAtomicWrites`. The
`failed_commit_message` run shows that the refinement is false without that hypothesis.

### StorageMaintenance

`StorageAssumption` bounds a policy as `MaintenancePolicy.__post_init__` does, and takes NULL for no number and no request; rows are
finitely many. `DuckLakeFiles` has operators of its own (`Extended`, `Several`) where the community modules rest on definitions that the
provers do not have. A first inductive invariant, `IInv`, has five parts:

* `Catalog`: stamps are past snapshots, no row of a file precedes the file, the latest snapshot is retained;
* `Files`: ids are below `next_file`, a listed file is not scheduled for deletion and is on disk, or was swept;
* `Pending`: the files of the open transaction and of an uncommitted recluster are outside the catalog and distinct;
* `Writer` and `Maintenance`: the types of the two calls, and what their step tells of their policy (a `cleanup` has a retention, a recluster
  that has begun is not a dry run).

It gives `TypesKept`, `NeededFilesStay` and, step by step, the action property `DestructionIsOptIn`: procedures add files and never
remove any, except the two that a policy must ask for.

The refinement `StorageIsTable` needs a second invariant, `TInv`: at each retained snapshot, every row is in one place, a
file or the catalog (`Single`); a deleted inlined row is one of those inlined (`InlinedGone`); the rows of the open transaction are not in
the table (`Fresh`); an uncommitted recluster holds exactly the rows it deletes, each once (`Copied`). A scan then shows a set of rows, and a
step is one of five things for a reader (`StepKinds`): nothing, a request, a commit, a reorganisation or an expiration. For the
reorganisations, one lemma (`RelocatedTable`) says that if each row of the next snapshot comes from the sources of exactly one file, the table is
the same; merges, rewrites and flushes are instances, for which `PackedGroups` shows that the packing makes disjoint groups. A merge removes its sources, so it must show the
same rows at *every* retained snapshot, which it does because a merged file keeps the snapshot of each row and takes no file with deletions
(`MergedShows`); a rewrite keeps them for the past and ends them now (`EndedShows`). `recluster` is a deletion and an insertion of the
same rows, which `Unmoved`, DuckLake's conflict check, makes current at its commit.

### SharedCatalog and Audit

`SharedAssumption` says that calls are made with arguments of the right kind (`WellFormed`), that the result set the processes start
from and the snapshots they may restore are such as calls leave, and that
the keys of those snapshots are the current ones, since no call changes a key. Such as calls leave (`Sound`) is: typed, described, keys unique,
finitely many columns, links in order (`LinksInOrder`), ends of links categorical, pairs that hold. The theorems of `ResultSet_proofs` and
`ValuePairs_proofs` say that of every state of `ResultSet`, except for a pair whose code is a key: an insertion by
`add_columns` may break it (`key_code_pair`), and `Sound` takes snapshots in which it holds. There may be any number of processes and calls.

What a process does depends on three snapshots, so the inductive invariant `Followed` relates, for each process, what it read and
what it began on to what is current. `Follows` has three parts: the phase and the call of a process fit (`Running`); a call that
passed its checks has read what it says it read (`HasRead`); and the snapshot a transaction began on differs from the
current one only as `written_since` and `beside` tell (`Sees`): as long as nobody altered the table its columns are those seen, a row seen and gone since is among the rows
removed since, a row of metadata that differs is among those described, and so on. Each step of another process keeps this (`Moves`), whatever the step.
A commit that does not conflict is then computed from what it changes:

* `SharedTypesHold`: the change fits the current columns, because a commit beside an ALTER conflicts unless it writes no row of the fact table;
  a row that it inserts is new, because rows inserted by another stamp `dataset_metadata` or open a hole.
* `KeysAreKept`: `RowsKeyed` (keys are unique, or the hole is open) holds because the rows that a transaction read are those there, but for rows removed
  (`JoinedRowsUnique`); `Describing` says the same of `metadata` and of the columns.
* `SortKeysSurviveWriters`: the two keys are written from what is current, or the row of `dataset_metadata` conflicts.
* `LinksAreKept`: `LinksOrdered` (the links are in order, or a hole is open). A commit does one of four things to `metadata` (`CommitMetadata`): it
  widens types, takes links away, drops columns nothing points to, or puts back the metadata of a sound snapshot. A declaration is checked against the
  links that are there, or a hole is open (`HasRead`).
* `MembersAreKept`: `MembersForced`. Between the statements of `update_column_metadata` an end of a link may not be categorical; the invariant says that a
  call which has yet to write it (`Awaited`) then runs. A call that is cut short leaves nobody to, hence the hole.
* `PairsAreKept`: `PairsKept`. An upsert checks only the codes it touches, on the rows it read. Those are the rows there, because two stamps conflict, or a restoration
  without `dataset_metadata` came between, which only a restore of some of the tables is (`RestoredBeside`). The argument on codes is that of `PairsStay`
  (`CheckCompletes`).
* `CommitsKeepCalls` is an action property: a transaction is ended by the step of its own process (`EndsByItself`), and a commit that does not conflict
  stamps, so rows, columns, keys and types are those it read (`StampedOnCurrent`). What it writes is then, call by call, what the action of `ResultSet` writes
  (`CommittedUpdate`, `CommittedDeletion`, `CommittedCleanup`, `CommittedColumns`, `CommittedSortKey`). The writes that do not stamp, a deletion of no row and a cleanup of no
  column, change nothing (`NothingStored`). `ResultSet` bounds the rows in its calls (`UpdateDatabaseCall`), not in what a call does (`UpdateDatabase`), so the bound
  is not part of the claim.
* `AuditsDecide` is a lemma about states, any state that `Followed` allows, broken ones included: each check of the audit finds
  something exactly when its invariant is broken, among the columns and links that the checks before it did not skip.
  The walk that detects a loop is that of `WalkDecidesForest`, hence the finitely many columns.

Proving them showed that the model was wrong where no run had looked: an upsert or a second restoration beside a restoration that does
not write `dataset_metadata` could double keys without any hole being named, and a declaration could be checked against types that another commit changed. `holes`
and the instance (two snapshots in `History`, two more calls) now have these cases.

### Model-checked only

* `StorageSettles`: liveness under fairness is out of the reach of the prover, as is ENABLED.
* The five runs that expect a violation, by nature.

## 5. Not modelled, and what remains

Not modelled: the connector (ATTACH, secrets and options: text and I/O), the SQL text, filters and logging, partitioning, the counts of a
report, the build as a transaction with its retry over cached frames, calls in autocommit beside other processes. The hazards among
these are in `PROJECT.json` with a note.

What remains: the calls that add columns and `update_value_labels`, for several processes; the partitioning of `repartition`; and the statement, in
one refinement, that `SharedCatalog` without its holes implements `ResultSet`, of which `CommitsKeepCalls` is the step for the transactions that stamp.
