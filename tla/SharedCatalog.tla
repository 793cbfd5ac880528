--------------------------- MODULE SharedCatalog ---------------------------
(***************************************************************************)
(* Several processes writing one result set through a catalog they share   *)
(* (PostgreSQL), each with a manager, a DatabaseRecoveryManager and a      *)
(* DuckLakeMaintenance on a connection of its own.                         *)
(*                                                                         *)
(* The variables of ResultSet are the current snapshot.  A call reads it   *)
(* (Check), opens a transaction on what is then the snapshot (Begin), and  *)
(* commits what it has written (Commit) unless another commit wrote the    *)
(* same thing since.  update_column_metadata has no transaction: each of   *)
(* its statements commits.  A process may end, or a call fail, anywhere.   *)
(***************************************************************************)
EXTENDS Audit

CONSTANTS
  Processes,
  Calls,      \* the calls, by name, with their arguments; each is made at most once
  Built,      \* the result set as it is when the processes start
  History,    \* the earlier snapshots that may be restored
  MaxCalls    \* bound: calls made

Tables == {"fact_table", "metadata", "dataset_metadata"}

\* The calls that are made with arguments of the right kind.
WellFormed(call) ==
  /\ call.op \in {"update_database", "delete_rows", "delete_columns", "update_cluster_by",
                  "update_column_metadata", "recluster", "restore_snapshot"}
  /\ call.op = "update_database" =>
       /\ call.types \in [DOMAIN call.types -> AllSqlTypes]
       /\ call.batch \in (SUBSET RowsOver(DOMAIN call.types)) \ {{}}
  /\ call.op = "delete_rows" => call.perform_cleanup \in BOOLEAN
  /\ call.op = "delete_columns" => call.columns # {} /\ call.cascade \in BOOLEAN
  /\ call.op = "update_cluster_by" => call.columns # {}
  /\ call.op = "update_column_metadata" =>
       call.column \in Columns /\ call.fields \in MetadataFields(call.column)
  /\ call.op = "restore_snapshot" => call.tables \in (SUBSET Tables) \ {{}}

\* Links that resolve, loop nowhere and make no label column of a key, a code or a child.
LinksInOrder(md) ==
  /\ \A c \in DOMAIN md : {md[c].parent_name, md[c].label_for} \subseteq DOMAIN md \cup {NULL}
  /\ IsForest(ParentOf(md))
  /\ \A l \in Declared(LabelFor(md)) :
       /\ md[l].label_for # l /\ md[md[l].label_for].label_for = NULL
       /\ md[l].sql_type = "VARCHAR" /\ ~ md[l].is_primary_key
       /\ md[l].parent_name = NULL

MembersCategorical(md) ==
  \A c \in DOMAIN md :
    md[c].parent_name # NULL \/ Children(ParentOf(md), c) # {} => md[c].is_categorical

\* A result set as the calls of ResultSet leave it.
Sound(s) ==
  LET cols == DOMAIN s.fact_columns
      md   == s.metadata
      keys == get_primary_key_columns(md)
  IN  /\ cols \subseteq Columns /\ IsFiniteSet(cols)
      /\ s.fact_columns \in [cols -> AllSqlTypes]
      /\ s.rows \subseteq RowsOver(cols)
      /\ md \in [cols -> MetadataRow]
      /\ \A c \in cols : md[c].sql_type = s.fact_columns[c]
      /\ LinksInOrder(md) /\ MembersCategorical(md)
      /\ \A l \in Declared(LabelFor(md)) : Determines(s.rows, md[l].label_for, l)
      /\ keys # {} /\ UniqueOn(s.rows, keys)
      /\ s.cluster_by \subseteq cols

\* The earlier snapshots are of the same result set, whose keys never change.
ASSUME SharedAssumption ==
  /\ \A name \in DOMAIN Calls : WellFormed(Calls[name])
  /\ Sound(Built) /\ Built.sorted_by = Built.cluster_by
  /\ \A past \in History :
       /\ Sound(past)
       /\ get_primary_key_columns(past.metadata) = get_primary_key_columns(Built.metadata)
  /\ MaxCalls \in Nat

VARIABLES
  proc,       \* process -> its call
  called,     \* the calls made
  holes       \* what has happened that the conflicts of DuckLake do not exclude

shared_vars == <<vars, proc, called, holes>>

Snapshot == [ fact_columns |-> fact_columns, rows |-> rows, metadata |-> metadata,
              cluster_by |-> cluster_by, sorted_by |-> sorted_by ]

-----------------------------------------------------------------------------
(* What a call has written *)

\* Nothing yet, on the snapshot `view`.
NoChange(view) ==
  [ removed |-> {}, inserted |-> {},          \* rows of fact_table
    described |-> << >>, undescribed |-> {},  \* rows of metadata written, deleted
    stamped |-> FALSE,                        \* the row of dataset_metadata
    altered |-> FALSE,                        \* ALTER TABLE fact_table
    fact_columns |-> view.fact_columns,
    cluster_by |-> view.cluster_by, sorted_by |-> view.sorted_by ]

\* What other processes must not have written since, and what they have.
Footprint(change) ==
  [ removed |-> change.removed, inserts |-> change.inserted # {},
    described |-> DOMAIN change.described \cup change.undescribed,
    stamped |-> change.stamped, altered |-> change.altered ]

NoFootprint ==
  [removed |-> {}, inserts |-> FALSE, described |-> {}, stamped |-> FALSE, altered |-> FALSE]

Joined(f, g) ==
  [ removed |-> f.removed \cup g.removed, inserts |-> f.inserts \/ g.inserts,
    described |-> f.described \cup g.described,
    stamped |-> f.stamped \/ g.stamped, altered |-> f.altered \/ g.altered ]
\* Mutant: dataset_metadata is not looked at.
Conflicts_rows(mine, theirs) ==
  \/ mine.removed \cap theirs.removed # {}
  \/ mine.described \cap theirs.described # {}
  \/ theirs.altered /\ (mine.altered \/ mine.removed # {} \/ mine.inserts)

\* DuckLake refuses a commit that updates or deletes a row another has, or that
\* writes to a table another has altered.  Two inserts never conflict.
Conflicts(mine, theirs) ==
  \/ mine.stamped /\ theirs.stamped
  \/ mine.removed \cap theirs.removed # {}
  \/ mine.described \cap theirs.described # {}
  \/ theirs.altered /\ (mine.altered \/ mine.removed # {} \/ mine.inserts)

\* The metadata rows that differ between md and after.
Rewritten(md, after) ==
  [c \in {d \in DOMAIN after : d \notin DOMAIN md \/ after[d] # md[d]} |-> after[c]]

-----------------------------------------------------------------------------
(* The bodies of the transactions: the change each makes to `view`, none if it *)
(* raises.                                                                     *)
\* The columns of the pairs that a write to cols checks; the query of a pair
\* raises when one of its columns is missing.
TouchedPairs(md, cols) ==
  UNION {{l, md[l].label_for} : l \in {m \in Declared(LabelFor(md)) :
                                         {m, md[m].label_for} \cap cols # {}}}
\* Mutant: the batch is not checked against the pairs.
update_database_unchecked(view, call) ==
  LET cols     == DOMAIN call.types
      written  == upsert_fact_table(view.rows, DOMAIN view.fact_columns, call.batch, cols,
                                    get_primary_key_columns(view.metadata))
  IN  IF cols \subseteq DOMAIN view.fact_columns
      THEN {[NoChange(view) EXCEPT !.stamped = TRUE, !.removed = view.rows \ written,
                                   !.inserted = written \ view.rows]}
      ELSE {}

\* A batch with no new column: types, upsert, pairs, keys, stamp.
update_database(view, call) ==
  LET cols     == DOMAIN call.types
      keys     == get_primary_key_columns(view.metadata)
      resolved == [c \in DOMAIN view.metadata |->
                     resolve_type_conflict(view.metadata[c].sql_type, call.batch, call.types, c)]
      retyped  == {c \in cols \cap DOMAIN resolved : resolved[c] # view.metadata[c].sql_type}
      written  == upsert_fact_table(view.rows, DOMAIN view.fact_columns, call.batch, cols, keys)
  IN  IF /\ cols \subseteq DOMAIN view.fact_columns
         /\ TouchedPairs(view.metadata, cols) \subseteq DOMAIN view.fact_columns
         /\ check_value_label_dependencies(written, view.metadata, call.batch, keys, cols)
         /\ check_duplicates_db => UniqueOn(written, keys)
      THEN {[NoChange(view) EXCEPT
               !.stamped = TRUE,
               !.removed = view.rows \ written,
               !.inserted = written \ view.rows,
               !.altered = retyped # {},
               !.fact_columns = [c \in DOMAIN @ |-> IF c \in retyped THEN resolved[c] ELSE @[c]],
               !.described = [c \in retyped |-> [view.metadata[c] EXCEPT !.sql_type = resolved[c]]]]}
      ELSE {}

\* The deletion, whose filter names a column; a call that deletes nothing stamps
\* nothing.
delete_rows(view, call) ==
  LET gone == {r \in view.rows : r[call.column] \in call.values}
  IN  IF call.column \in DOMAIN view.fact_columns
      THEN {[NoChange(view) EXCEPT !.removed = gone, !.stamped = gone # {}]}
      ELSE {}

\* _drop_column_with_references for each column, and the stamp.
drop_columns(view, dropped, cascade) ==
  LET sort_key == IF view.cluster_by \cap dropped # {} THEN view.cluster_by \ dropped
                  ELSE view.sorted_by
      left     == metadata_without(view.metadata, dropped, cascade)
  IN  IF dropped \subseteq DOMAIN view.fact_columns /\ sort_key \cap dropped = {}
      THEN {[NoChange(view) EXCEPT
               !.stamped = dropped # {}, !.altered = dropped # {},
               !.fact_columns = [c \in DOMAIN @ \ dropped |-> @[c]],
               !.undescribed = dropped \cap DOMAIN view.metadata,
               !.described = Rewritten(view.metadata, left),
               !.cluster_by = @ \ dropped,
               !.sorted_by = sort_key]}
      ELSE {}

\* The cleanup reads rows and links in its own transaction.
cleanup_null_only_columns(view) ==
  LET null_only == {c \in DOMAIN view.fact_columns \ get_primary_key_columns(view.metadata) :
                      \A r \in view.rows : r[c] = NULL}
      dropped   == Droppable(null_only, ParentOf(view.metadata), LabelFor(view.metadata))
  IN  drop_columns(view, IF view.rows = {} THEN {} ELSE dropped, FALSE)
\* Mutant: ALTER TABLE ... SET SORTED BY is forgotten.
update_cluster_by_recorded(view, call) ==
  {[NoChange(view) EXCEPT !.stamped = TRUE, !.cluster_by = call.columns]}

\* DuckLake refuses a sort column the table does not have.
update_cluster_by(view, call) ==
  IF call.columns \subseteq DOMAIN view.fact_columns
  THEN {[NoChange(view) EXCEPT !.stamped = TRUE, !.altered = TRUE,
                               !.cluster_by = call.columns, !.sorted_by = call.columns]}
  ELSE {}

\* Every row deleted and inserted again, under the key read before BEGIN when it
\* was not the one DuckLake applied.
recluster(view, read) ==
  IF read.realign => read.sort_columns \subseteq DOMAIN view.fact_columns
  THEN {[NoChange(view) EXCEPT
           !.removed = view.rows, !.inserted = view.rows,
           !.altered = read.realign,
           !.sorted_by = IF read.realign THEN read.sort_columns ELSE @]}
  ELSE {}

\* Each table emptied and refilled from the copy made before BEGIN, by position:
\* the columns must still be as many.  Rows only: neither the columns of
\* fact_table nor its SORTED BY key are restored.
restore_snapshot(view, call, read) ==
  IF "fact_table" \in call.tables => DOMAIN read.fact_columns = DOMAIN view.fact_columns
  THEN {[NoChange(view) EXCEPT
           !.removed = IF "fact_table" \in call.tables THEN view.rows ELSE {},
           !.inserted = IF "fact_table" \in call.tables THEN read.rows ELSE {},
           !.undescribed = IF "metadata" \in call.tables THEN DOMAIN view.metadata ELSE {},
           !.described = IF "metadata" \in call.tables THEN read.metadata ELSE << >>,
           !.stamped = "dataset_metadata" \in call.tables,
           !.cluster_by = IF "dataset_metadata" \in call.tables THEN read.cluster_by ELSE @]}
  ELSE {}

Body(p, view) ==
  LET call == Calls[proc[p].call]
      read == proc[p].read
  IN  CASE proc[p].cleanup -> cleanup_null_only_columns(view)
        [] ~ proc[p].cleanup /\ call.op = "update_database" -> update_database(view, call)
        [] ~ proc[p].cleanup /\ call.op = "delete_rows" -> delete_rows(view, call)
        [] call.op = "delete_columns" -> drop_columns(view, call.columns, call.cascade)
        [] call.op = "update_cluster_by" -> update_cluster_by(view, call)
        [] call.op = "recluster" -> recluster(view, read)
        [] call.op = "restore_snapshot" -> restore_snapshot(view, call, read)

-----------------------------------------------------------------------------
(* Processes *)

Idle == [ phase |-> "idle", call |-> NULL, cleanup |-> FALSE, read |-> NULL, view |-> NULL,
          written_since |-> NoFootprint,   \* by the others, since BEGIN
          beside |-> {} ]                  \* what the others changed since the checks

\* What the step changes, as the checks of the other calls see it.
Changed ==
  UNION { IF <<ParentOf(metadata), LabelFor(metadata)>>' # <<ParentOf(metadata), LabelFor(metadata)>>
            THEN {"links"} ELSE {},
          IF SqlType(metadata)' # SqlType(metadata) THEN {"types"} ELSE {},
          IF rows' # rows THEN {"rows"} ELSE {},
          IF fact_columns' # fact_columns THEN {"columns"} ELSE {},
          IF cluster_by' # cluster_by THEN {"sort key"} ELSE {} }

\* p steps to `next`, and the others have `footprint` and `kinds` beside them.
Step(p, next, footprint, kinds) ==
  proc' = [q \in Processes |->
             CASE q = p -> next
               [] q # p /\ proc[q].phase = "idle" -> proc[q]
               [] q # p /\ proc[q].phase = "open" ->
                    [proc[q] EXCEPT !.written_since = Joined(@, footprint),
                                    !.beside = @ \cup kinds]
               [] OTHER -> [proc[q] EXCEPT !.beside = @ \cup kinds]]

Cleanup == [Idle EXCEPT !.phase = "checked", !.cleanup = TRUE]

\* What precedes the BEGIN of each call, on the snapshot of that time.
update_database_accepted(call) ==
  /\ check_batch_keys(call.batch, DOMAIN call.types, PrimaryKeys)
  /\ UniqueOn(call.batch, PrimaryKeys)
  /\ DOMAIN call.types \subseteq DOMAIN fact_columns

delete_columns_accepted(call) ==
  /\ call.columns \subseteq DOMAIN fact_columns \ PrimaryKeys
  /\ call.cascade \/ \A c \in call.columns :
       Dependents(ParentOf(metadata), LabelFor(metadata), c) = {}

update_cluster_by_accepted(call) == call.columns \subseteq DOMAIN fact_columns

update_column_metadata_accepted(call) ==
  /\ Declares(call.fields.label_for) =>
       {call.column, call.fields.label_for} \subseteq DOMAIN fact_columns
  /\ metadata_update_accepted(metadata, rows, call.column, call.fields)

\* The declared key, which must exist, and whether DuckLake applies another.
recluster_reads ==
  {[sort_columns |-> key, realign |-> sorted_by # key] :
     key \in {cluster_by} \cap ((SUBSET DOMAIN fact_columns) \ {{}})}

\* The copies of the past rows, if the columns are those of then.
restore_snapshot_reads(call) ==
  {past \in History : "fact_table" \in call.tables => past.fact_columns = fact_columns}

\* The values that proc[p].read may take, none if the call raises.
ReadsBeforeBegin(call) ==
  LET accepted(condition) == IF condition THEN {NULL} ELSE {}
  IN  CASE call.op = "update_database" -> accepted(update_database_accepted(call))
        [] call.op = "delete_rows" -> {NULL}
        [] call.op = "delete_columns" -> accepted(delete_columns_accepted(call))
        [] call.op = "update_cluster_by" -> accepted(update_cluster_by_accepted(call))
        [] call.op = "update_column_metadata" -> accepted(update_column_metadata_accepted(call))
        [] call.op = "recluster" -> recluster_reads
        [] call.op = "restore_snapshot" -> restore_snapshot_reads(call)

Check(p) ==
  /\ proc[p].phase = "idle"
  /\ Cardinality(called) < MaxCalls
  /\ \E name \in DOMAIN Calls \ called :
       /\ called' = called \cup {name}
       /\ \E read \in ReadsBeforeBegin(Calls[name]) :
            Step(p, [Idle EXCEPT !.phase = "checked", !.call = name, !.read = read], NoFootprint, {})
  /\ UNCHANGED <<vars, holes>>

Op(p) == Calls[proc[p].call].op

Begin(p) ==
  /\ proc[p].phase = "checked"
  /\ Op(p) # "update_column_metadata"
  /\ Body(p, Snapshot) # {}
  /\ Step(p, [proc[p] EXCEPT !.phase = "open", !.view = Snapshot], NoFootprint, {})
  /\ UNCHANGED <<vars, called, holes>>
\* Mutant: inserted rows keep the columns they were read with.
Store_unprojected(change) ==
  /\ fact_columns' = IF change.altered THEN change.fact_columns ELSE fact_columns
  /\ rows' = (rows \ change.removed) \cup change.inserted
  /\ metadata' = [c \in (DOMAIN metadata \ change.undescribed) \cup DOMAIN change.described |->
                    IF c \in DOMAIN change.described THEN change.described[c] ELSE metadata[c]]
  /\ cluster_by' = IF change.stamped THEN change.cluster_by ELSE cluster_by
  /\ sorted_by' = IF change.altered THEN change.sorted_by ELSE sorted_by

\* A change made to a snapshot, applied to the current one.
Store(change) ==
  /\ fact_columns' = IF change.altered THEN change.fact_columns ELSE fact_columns
  /\ rows' = {projected(r, DOMAIN fact_columns') :
                r \in (rows \ change.removed) \cup change.inserted}
  /\ metadata' = [c \in (DOMAIN metadata \ change.undescribed) \cup DOMAIN change.described |->
                    IF c \in DOMAIN change.described THEN change.described[c] ELSE metadata[c]]
  /\ cluster_by' = IF change.stamped THEN change.cluster_by ELSE cluster_by
  /\ sorted_by' = IF change.altered THEN change.sorted_by ELSE sorted_by

Restores(p, tables) == Op(p) = "restore_snapshot" /\ Calls[proc[p].call].tables \cap tables # {}

\* The restore of some of the tables only.
PartialRestore(p) == Op(p) = "restore_snapshot" /\ Calls[proc[p].call].tables # Tables

\* A restore without dataset_metadata, whose row writes conflict on.
UnstampedRestore(p) == Op(p) = "restore_snapshot" /\ ~ Restores(p, {"dataset_metadata"})

Opened(p) ==
  {hole \in {"write beside declaration", "drop beside declaration", "write beside restore",
             "restore beside columns", "partial restore", "metadata restored", "sort key"} :
     CASE hole = "write beside declaration" ->
            Op(p) = "update_database" /\ "links" \in proc[p].beside
       [] hole = "drop beside declaration" ->
            (Op(p) = "delete_columns" \/ proc[p].cleanup) /\ "links" \in proc[p].beside
       [] hole = "write beside restore" ->
            \/ UnstampedRestore(p) /\ "rows" \in proc[p].beside
            \/ /\ Op(p) = "update_database" \/ Restores(p, {"fact_table"})
               /\ "restored" \in proc[p].beside
       [] hole = "restore beside columns" ->
            Op(p) = "restore_snapshot" /\ "columns" \in proc[p].beside
       [] hole = "partial restore" -> PartialRestore(p)
       [] hole = "metadata restored" -> Restores(p, {"metadata"}) /\ ~ Restores(p, {"fact_table"})
       [] hole = "sort key" ->
            \/ Restores(p, {"dataset_metadata"}) /\ proc[p].read.cluster_by # sorted_by
            \/ Op(p) = "recluster" /\ proc[p].read.realign /\ "sort key" \in proc[p].beside}

\* Both keys are written, from what is current.
RepairsSortKey(p) ==
  \/ Op(p) = "update_cluster_by"
  \/ Op(p) = "recluster" /\ proc[p].read.realign /\ "sort key" \notin proc[p].beside

Commit(p) ==
  /\ proc[p].phase = "open"
  /\ \E change \in Body(p, proc[p].view) :
       /\ ~ Conflicts(Footprint(change), proc[p].written_since)
       /\ Store(change)
       /\ Step(p, IF /\ Op(p) = "delete_rows" /\ ~ proc[p].cleanup /\ change.removed # {}
                     /\ Calls[proc[p].call].perform_cleanup
                  THEN [Cleanup EXCEPT !.call = proc[p].call] ELSE Idle,
               Footprint(change),
               Changed \cup (IF UnstampedRestore(p) THEN {"restored"} ELSE {}))
  /\ holes' = (holes \ (IF RepairsSortKey(p) THEN {"sort key"} ELSE {})) \cup Opened(p)
  /\ UNCHANGED called

\* A conflict, a statement that raises, or the end of the process: ROLLBACK.
Rollback(p) ==
  /\ proc[p].phase \in {"checked", "open"}
  /\ Step(p, Idle, NoFootprint, {})
  /\ UNCHANGED <<vars, called, holes>>

-----------------------------------------------------------------------------
(* update_column_metadata, statement by statement *)

Writes(column) == [NoFootprint EXCEPT !.described = {column} \cap DOMAIN metadata]

\* The UPDATE of the fields, once every check has passed.
UpdateFields(p) ==
  LET call     == Calls[proc[p].call]
      fields   == call.fields
      declares == Declares(fields.parent_name)
  IN  /\ proc[p].phase = "checked"
      /\ call.op = "update_column_metadata"
      /\ metadata' = [c \in DOMAIN metadata |->
                        IF c # call.column THEN metadata[c]
                        ELSE [metadata[c] EXCEPT
                                !.parent_name = Merge(fields.parent_name, @),
                                !.label_for = Merge(fields.label_for, @),
                                !.is_categorical = Merge(fields.is_categorical, @)]]
      /\ UNCHANGED <<fact_columns, rows, cluster_by, sorted_by, called>>
      /\ Step(p, IF declares THEN [proc[p] EXCEPT !.phase = "child"] ELSE Idle,
              Writes(call.column), Changed)
      /\ holes' = holes
           \cup (IF proc[p].beside \cap {"links", "types"} # {}
                 THEN {"declaration beside links"} ELSE {})
           \cup (IF Declares(fields.label_for) /\ "rows" \in proc[p].beside
                 THEN {"declaration beside rows"} ELSE {})

\* Mutant: only the child is made categorical.
ForceCategorical_child(p) ==
  LET call == Calls[proc[p].call]
      end  == call.column
  IN  /\ proc[p].phase \in {"child", "parent"}
      /\ metadata' = [c \in DOMAIN metadata |->
                        IF c = end THEN [metadata[c] EXCEPT !.is_categorical = TRUE]
                        ELSE metadata[c]]
      /\ UNCHANGED <<fact_columns, rows, cluster_by, sorted_by, called, holes>>
      /\ Step(p, IF proc[p].phase = "child" THEN [proc[p] EXCEPT !.phase = "parent"] ELSE Idle,
              IF metadata' = metadata THEN NoFootprint ELSE Writes(end), {})

\* The two ends of the link are made categorical, the child first.
ForceCategorical(p) ==
  LET call == Calls[proc[p].call]
      end  == IF proc[p].phase = "child" THEN call.column ELSE call.fields.parent_name
  IN  /\ proc[p].phase \in {"child", "parent"}
      /\ metadata' = [c \in DOMAIN metadata |->
                        IF c = end THEN [metadata[c] EXCEPT !.is_categorical = TRUE]
                        ELSE metadata[c]]
      /\ UNCHANGED <<fact_columns, rows, cluster_by, sorted_by, called, holes>>
      /\ Step(p, IF proc[p].phase = "child" THEN [proc[p] EXCEPT !.phase = "parent"] ELSE Idle,
              IF metadata' = metadata THEN NoFootprint ELSE Writes(end), {})

\* A failure or the end of the process between two of its statements.
CutShort(p) ==
  /\ proc[p].phase \in {"child", "parent"}
  /\ Step(p, Idle, NoFootprint, {})
  /\ holes' = holes \cup {"cut short"}
  /\ UNCHANGED <<vars, called>>

-----------------------------------------------------------------------------

SharedInit ==
  /\ fact_columns = Built.fact_columns
  /\ rows = Built.rows
  /\ metadata = Built.metadata
  /\ cluster_by = Built.cluster_by
  /\ sorted_by = Built.sorted_by
  /\ proc = [p \in Processes |-> Idle]
  /\ called = {}
  /\ holes = {}

ProcessStep(p) ==
  \/ Check(p)
  \/ Begin(p)
  \/ Commit(p)
  \/ Rollback(p)
  \/ UpdateFields(p)
  \/ ForceCategorical(p)
  \/ CutShort(p)

SharedNext == \E p \in Processes : ProcessStep(p)

SharedSpec == SharedInit /\ [][SharedNext]_shared_vars

-----------------------------------------------------------------------------
(* Properties *)

\* The result set has its types, which holds only while every row has exactly the
\* columns of the table, whatever was altered beside; and nobody is about to insert
\* a row that is there, so that rows may be a set, but by the hole through which
\* keys are doubled (the model then counts once a row that is there twice).
SharedTypeOK ==
  /\ TypeOK
  /\ called \subseteq DOMAIN Calls
  /\ \A p \in Processes :
       /\ proc[p].phase \in {"idle", "checked", "open", "child", "parent"}
       /\ proc[p].call \in DOMAIN Calls \cup {NULL}
       /\ proc[p].phase = "open" =>
            \A change \in Body(p, proc[p].view) :
              /\ ~ Conflicts(Footprint(change), proc[p].written_since)
              /\ "write beside restore" \notin Opened(p)
              => change.inserted \cap (rows \ change.removed) = {}

\* The action of ResultSet that a transaction stands for.
CallAction(p) ==
  LET call == Calls[proc[p].call]
  IN  CASE call.op = "update_database" ->
             UpdateDatabase(DOMAIN call.types, call.types, call.batch, NoDeclaration)
        [] call.op = "delete_rows" /\ ~ proc[p].cleanup ->
             DeleteRows({r \in rows : r[call.column] \in call.values}, FALSE)
        [] call.op = "delete_rows" /\ proc[p].cleanup ->
             drop_columns_with_references(null_only_columns_dropped(rows), rows, FALSE)
        [] call.op = "delete_columns" -> DeleteColumns(call.columns, call.cascade)
        [] call.op = "update_cluster_by" -> UpdateClusterBy(call.columns)

\* p's commit is its call, made now, unless links were declared or tables restored
\* beside it.  (ResultSet says nothing of a metadata table that does not describe
\* its fact table, which restores may leave.)
CommitIsCall(p) ==
  /\ proc[p].phase = "open" /\ proc'[p].phase # "open"
  /\ Op(p) \notin {"recluster", "restore_snapshot"}
  /\ proc[p].beside \cap {"links", "restored"} = {}
  /\ MetadataDescribesFactTable
  => UNCHANGED vars \/ CallAction(p)

\* A write checks and reads an earlier snapshot than the one it commits to; what it
\* commits is nevertheless the call of ResultSet made now, in one step: the stamp
\* of dataset_metadata makes any two writes conflict, and the commits it does not
\* conflict with change nothing it depends on, other than links declared and
\* tables restored beside it.
CommitsAreCalls == [][\A p \in Processes : CommitIsCall(p)]_shared_vars

\* The pairs hold on the whole table, unless one was declared while a write ran (each
\* checked a snapshot without the other), or rows and declarations were restored
\* apart.
PairsSurviveWriters ==
  \/ holes \cap {"declaration beside rows", "write beside declaration", "partial restore"} # {}
  \/ \A label \in Declared(LabelFor(metadata)) :
       {label, metadata[label].label_for} \subseteq DOMAIN fact_columns
         => Determines(rows, metadata[label].label_for, label)

\* No link dangles, loops or mixes a pair with a hierarchy, unless it was declared
\* beside another declaration or beside the drop of its target.
LinksSurviveWriters ==
  \/ holes \cap {"declaration beside links", "drop beside declaration"} # {}
  \/ LinksResolve /\ HierarchyIsForest /\ LabelColumnShape

\* Both ends of a link are categorical once the call that declares it has returned,
\* unless it was cut short or declared beside a change of links.
MembersSurviveWriters ==
  \/ holes \cap {"cut short", "declaration beside links"} # {}
  \/ \E p \in Processes : proc[p].phase \in {"child", "parent"}
  \/ HierarchyIsCategorical

\* Two processes never insert the same key, and metadata describes the table, unless
\* a table was restored without dataset_metadata (whose row writes conflict on)
\* beside a write or another restore, or beside a change of columns.
KeysSurviveWriters ==
  /\ "write beside restore" \notin holes => PrimaryKeyUnique
  /\ holes \cap {"metadata restored", "restore beside columns"} = {} => MetadataDescribesFactTable

\* cluster_by is the key DuckLake applies, unless the last to write one of them was
\* a restore of dataset_metadata, or a recluster under a key it had read before.
SortKeySurvivesWriters == "sort key" \in holes \/ SortKeyAgrees

\* The audit decides the invariants of ResultSet in every state that concurrent
\* writers, restores and interruptions leave, broken ones included: it misses no
\* damage and reports none that is not there.  It does not look at the sort key
\* nor at is_categorical; BASIC, which ends each write and makes the health check,
\* sees the damage to columns and links, and refuses none.
AuditDecidesInvariants ==
  LET advice     == {"no rows", "only nulls", "mostly null"}
      structural == /\ MetadataDescribesFactTable /\ LinksResolve /\ HierarchyIsForest
                    /\ LabelColumnShape /\ NoLabelColumnInHierarchy
  IN  /\ {i \in validate_database("COMPREHENSIVE") : i.check \notin advice} = {}
           <=> structural /\ PrimaryKeyUnique /\ PairsHold
      /\ (get_quick_health_check = "warning") <=> ~ structural
      /\ get_quick_health_check = "healthy" => rows # {}
=============================================================================
