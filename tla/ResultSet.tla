------------------------------ MODULE ResultSet ------------------------------
(***************************************************************************)
(* A result set: the three DuckLake tables of one schema (fact_table,      *)
(* metadata, dataset_metadata) and the operations of DatabaseUpdater,      *)
(* DatabaseDeleter and their base BaseSchemaManager that write them.       *)
(*                                                                         *)
(* One action is one call that returns with its write committed.  A call   *)
(* that raises leaves the three tables as they were (module                *)
(* WriteTransaction says when that holds), which is a stuttering step, so  *)
(* every check that raises is a guard.  Calls run one at a time here.      *)
(***************************************************************************)
EXTENDS ColumnLinks, SqlTypes

CONSTANTS
  ABSENT,          \* a metadata field that a call does not pass
  Columns,         \* every column name that may be used
  CellValues,      \* column -> the values its cells may hold besides NULL
  KeyChoices,      \* the sets of primary keys a schema may be built with
  SortKeyChoices,  \* the column sets used as cluster_by
  ColumnTypes,     \* column -> the SQL types a DataFrame may give it
  ParentChoices,   \* column -> the columns ever passed as its parent_name
  LabelChoices,    \* column -> the columns ever passed as its label_for
  CategoricalChoices,   \* column -> the values ever passed as its is_categorical
  check_duplicates_db,  \* the argument of update_database, one value per model
  MaxBuiltRows,    \* rows of the DataFrame a schema is built from
  MaxRows,         \* rows of the fact table
  MaxBatch         \* rows of a batch

ASSUME ResultSetAssumption ==
  /\ NULL \notin Columns \cup {ABSENT} \cup BOOLEAN
  /\ ABSENT \notin Columns \cup BOOLEAN
  /\ KeyChoices \subseteq (SUBSET Columns) \ {{}}
  /\ SortKeyChoices \subseteq (SUBSET Columns) \ {{}}
  /\ ColumnTypes \in [Columns -> SUBSET AllSqlTypes]
  /\ ParentChoices \in [Columns -> SUBSET Columns]
  /\ LabelChoices \in [Columns -> SUBSET Columns]
  /\ CategoricalChoices \in [Columns -> SUBSET BOOLEAN]
  /\ check_duplicates_db \in BOOLEAN
  /\ MaxBuiltRows \in Nat /\ MaxRows \in Nat /\ MaxBatch \in Nat

VARIABLES
  fact_columns,  \* physical columns of fact_table: column -> SQL type
  rows,          \* fact_table: a set of functions from its columns to cells
  metadata,      \* metadata: column -> its row
  cluster_by,    \* dataset_metadata.cluster_by, {} for NULL
  sorted_by      \* the SORTED BY key DuckLake applies, {} when reset

vars == <<fact_columns, rows, metadata, cluster_by, sorted_by>>

Cells == (UNION {CellValues[c] : c \in Columns}) \cup {NULL}
RowsOver(cols) == {r \in [cols -> Cells] : \A c \in cols : r[c] \in CellValues[c] \cup {NULL}}

\* The sets of at most n elements of S.
SetsUpTo(S, n) == {{}} \cup {{f[i] : i \in 1 .. n} : f \in [1 .. n -> S]}

-----------------------------------------------------------------------------
(* Reading the metadata table *)

ParentOf(md) == [c \in DOMAIN md |-> md[c].parent_name]
LabelFor(md) == [c \in DOMAIN md |-> md[c].label_for]
SqlType(md) == [c \in DOMAIN md |-> md[c].sql_type]
get_primary_key_columns(md) == {c \in DOMAIN md : md[c].is_primary_key}

PrimaryKeys == get_primary_key_columns(metadata)

-----------------------------------------------------------------------------
(* Rows and batches *)

\* Equality of keys for a grouping, where two nulls are the same key.
SameKey(r, s, keys) == \A k \in keys : r[k] = s[k]

\* Equality of keys for a SQL join, where a null matches nothing.
Matches(f, t, keys) == \A k \in keys : f[k] # NULL /\ f[k] = t[k]

UniqueOn(table, keys) == \A r, s \in table : SameKey(r, s, keys) => r = s

\* The batches the deduplication may leave: keep = "none" drops every row of a
\* repeated key, the other strategies keep one row per key (which one is left
\* open), and "off" stands for check_duplicates_update=False.
remove_dataframe_duplicates(batch, keys, keep) ==
  CASE keep = "off"  -> {batch}
    [] keep = "none" -> {{r \in batch : \A s \in batch : SameKey(r, s, keys) => s = r}}
    [] keep = "any"  -> {kept \in SUBSET batch :
                           /\ UniqueOn(kept, keys)
                           /\ \A r \in batch : \E s \in kept : SameKey(r, s, keys)}

check_batch_keys(batch, cols, keys) ==
  /\ keys # {}
  /\ keys \subseteq cols
  /\ \A t \in batch, k \in keys : t[k] # NULL

\* A row once ALTER TABLE ... ADD COLUMN ... DEFAULT NULL has added its missing
\* columns, or INSERT has left them out.
padded_row(r, cols) == [c \in cols |-> IF c \in DOMAIN r THEN r[c] ELSE NULL]
Padded(table, cols) == {padded_row(r, cols) : r \in table}

\* The row f after UPDATE ... FROM batch on matching keys.
updated_row(f, cols, batch, batch_cols, keys) ==
  IF \E t \in batch : Matches(f, t, keys)
  THEN LET t == CHOOSE t \in batch : Matches(f, t, keys)
       IN  [c \in cols |-> IF c \in batch_cols \ keys THEN t[c] ELSE f[c]]
  ELSE f
\* Mutant: INSERT without its NOT EXISTS.
unmatched_rows_all(table, batch, keys) == batch

\* The batch rows that INSERT ... WHERE NOT EXISTS adds.
unmatched_rows(table, batch, keys) == {t \in batch : ~ \E f \in table : Matches(f, t, keys)}

upsert_fact_table(table, cols, batch, batch_cols, keys) ==
  {updated_row(f, cols, batch, batch_cols, keys) : f \in table}
    \cup Padded(unmatched_rows(table, batch, keys), cols)

\* The current codes of the rows a batch touched.
TouchedCodes(table, batch, keys, code) ==
  {f[code] : f \in {g \in table : \E t \in batch : Matches(g, t, keys)}}
\* Mutant: a pair is checked when its code is written, not when its label is.
check_value_label_dependencies_codes(table, md, batch, keys, touched_columns) ==
  LET pairs == get_value_label_columns(LabelFor(md))
  IN  \A code \in DOMAIN pairs \cap touched_columns : \A label \in pairs[code] :
        check_value_label_dependency(table, code, label, TouchedCodes(table, batch, keys, code))

\* For every code one of whose pairs has a touched column, the dependency of each
\* of its label columns, restricted to the codes the batch touched.
check_value_label_dependencies(table, md, batch, keys, touched_columns) ==
  LET pairs == get_value_label_columns(LabelFor(md))
  IN  \A code \in DOMAIN pairs :
        code \in touched_columns \/ pairs[code] \cap touched_columns # {} =>
          \A label \in pairs[code] :
            check_value_label_dependency(table, code, label,
                                         TouchedCodes(table, batch, keys, code))

-----------------------------------------------------------------------------
(* Writing the metadata table *)

\* A text column is categorical when its values are few enough: with the handful
\* of CellValues, always.
inferred_categorical(type) == type = "VARCHAR"
\* Mutant: the parent left unset instead of NULL.
new_metadata_row_unset(type, is_primary_key) ==
  [ sql_type |-> type, is_primary_key |-> is_primary_key,
    is_categorical |-> inferred_categorical(type),
    parent_name |-> ABSENT, label_for |-> NULL ]

\* The row inserted for a column; its links are NULL until they are declared.
new_metadata_row(type, is_primary_key) ==
  [ sql_type |-> type, is_primary_key |-> is_primary_key,
    is_categorical |-> inferred_categorical(type),
    parent_name |-> NULL, label_for |-> NULL ]

\* metadata once the columns of fact_cols without a row have one.
add_columns_to_metadata(md, fact_cols) ==
  [c \in DOMAIN fact_cols |->
     IF c \in DOMAIN md THEN md[c] ELSE new_metadata_row(fact_cols[c], FALSE)]

\* What a call may pass for a field it has choices for: one of them, NULL to
\* clear the field, or nothing.
Passable(choices) == IF choices = {} THEN {ABSENT} ELSE choices \cup {NULL, ABSENT}

\* The fields one call may pass for column c.  The writes of DatabaseUpdater pass
\* links only.
LinkFields(c) ==
  [ parent_name : Passable(ParentChoices[c]),
    label_for : Passable(LabelChoices[c]),
    is_categorical : {ABSENT} ]
MetadataFields(c) ==
  [ parent_name : Passable(ParentChoices[c]),
    label_for : Passable(LabelChoices[c]),
    is_categorical : CategoricalChoices[c] \cup {ABSENT} ]
NoFields == [parent_name |-> ABSENT, label_for |-> ABSENT, is_categorical |-> ABSENT]

\* A passed field wins over the stored one.
Merge(passed, stored) == IF passed = ABSENT THEN stored ELSE passed

Declares(field) == field \notin {NULL, ABSENT}
\* Mutant: a parent is accepted without looking for a cycle.
parent_name_accepted_cyclic(md, column, fields) ==
  Declares(fields.parent_name) =>
    /\ fields.parent_name \in DOMAIN md
    /\ Merge(fields.label_for, md[column].label_for) = NULL

\* Mutant: a label column may declare a parent.
parent_name_accepted_labelled(md, column, fields) ==
  Declares(fields.parent_name) =>
    /\ fields.parent_name \in DOMAIN md
    /\ IsForest([ParentOf(md) EXCEPT ![column] = fields.parent_name])

\* A parent exists, closes no loop, and its child is no label column.
parent_name_accepted(md, column, fields) ==
  Declares(fields.parent_name) =>
    /\ fields.parent_name \in DOMAIN md
    /\ IsForest([ParentOf(md) EXCEPT ![column] = fields.parent_name])
    /\ Merge(fields.label_for, md[column].label_for) = NULL

\* A label column is in no hierarchy, its pair is well formed and holds on `table`.
label_for_accepted(md, table, column, fields) ==
  LET code == fields.label_for
  IN  Declares(code) =>
        /\ Children(ParentOf(md), column) = {}
        /\ Merge(fields.parent_name, md[column].parent_name) = NULL
        /\ validate_value_labels([LabelFor(md) EXCEPT ![column] = code], SqlType(md),
                                 get_primary_key_columns(md), ParentOf(md))
        /\ check_value_label_dependency(table, code, column, ColumnValues(table, code))

\* A column of a hierarchy stays categorical.
is_categorical_accepted(md, column, fields) ==
  fields.is_categorical = FALSE =>
    /\ Children(ParentOf(md), column) = {}
    /\ Merge(fields.parent_name, md[column].parent_name) = NULL

\* The conditions under which update_column_metadata writes.
metadata_update_accepted(md, table, column, fields) ==
  /\ column \in DOMAIN md
  /\ parent_name_accepted(md, column, fields)
  /\ label_for_accepted(md, table, column, fields)
  /\ is_categorical_accepted(md, column, fields)

\* Mutant: the parent is not forced to categorical.
update_column_metadata_child(md, column, fields) ==
  [md EXCEPT ![column].is_categorical = IF Declares(fields.parent_name) THEN TRUE
                                        ELSE Merge(fields.is_categorical, @),
             ![column].parent_name = Merge(fields.parent_name, @),
             ![column].label_for = Merge(fields.label_for, @)]

\* The UPDATE of the passed fields, then the forcing of both ends of a declared
\* parent link to categorical.
update_column_metadata(md, column, fields) ==
  [c \in DOMAIN md |->
     [ sql_type       |-> md[c].sql_type,
       is_primary_key |-> md[c].is_primary_key,
       is_categorical |->
         IF Declares(fields.parent_name) /\ c \in {column, fields.parent_name} THEN TRUE
         ELSE IF c = column THEN Merge(fields.is_categorical, md[c].is_categorical)
         ELSE md[c].is_categorical,
       parent_name    |->
         IF c = column THEN Merge(fields.parent_name, md[c].parent_name)
         ELSE md[c].parent_name,
       label_for      |->
         IF c = column THEN Merge(fields.label_for, md[c].label_for)
         ELSE md[c].label_for ]]

\* The column_metadata argument of a write: the fields of at most one column.
NoDeclaration == [column |-> NULL]
Declarations(cols) ==
  {NoDeclaration} \cup (UNION {[column : {c}, fields : LinkFields(c) \ {NoFields}] : c \in cols})

declaration_accepted(md, table, declaration) ==
  declaration.column = NULL
    \/ metadata_update_accepted(md, table, declaration.column, declaration.fields)

apply_declaration(md, declaration) ==
  IF declaration.column = NULL THEN md
  ELSE update_column_metadata(md, declaration.column, declaration.fields)

\* The type a column has once a batch is merged: unchanged for a column absent
\* from the batch or null in all of it.
resolve_type_conflict(current, batch, batch_types, c) ==
  IF c \in DOMAIN batch_types /\ \E t \in batch : t[c] # NULL
  THEN resolve_sql_type_conflict(current, batch_types[c])
  ELSE current

-----------------------------------------------------------------------------
(* Building the schema *)

\* The SQL types a DataFrame may give to the columns cols.
Typings(cols) ==
  {types \in [cols -> UNION {ColumnTypes[c] : c \in cols}] :
     \A c \in cols : types[c] \in ColumnTypes[c]}

\* The links that may be declared between the columns cols.
LinksAmong(cols, choices) ==
  {links \in [cols -> Columns \cup {NULL}] : \A c \in cols : links[c] \in choices[c] \cup {NULL}}

\* The metadata table of a new schema: the columns of a hierarchy are forced to
\* categorical.
create_metadata_table(types, keys, parents, labels) ==
  [c \in DOMAIN types |->
     [ sql_type       |-> types[c],
       is_primary_key |-> c \in keys,
       is_categorical |-> \/ inferred_categorical(types[c])
                          \/ parents[c] # NULL
                          \/ Children(parents, c) # {},
       parent_name    |-> parents[c],
       label_for      |-> labels[c] ]]

\* What _resolve_hierarchies and _resolve_value_labels accept.
resolved_links_accepted(types, keys, parents, labels) ==
  /\ \A c \in Declared(parents) : parents[c] \in DOMAIN types
  /\ IsForest(parents)
  /\ validate_value_labels(labels, types, keys, parents)

\* build_schema: the DataFrame is unique on its keys (deduplicated or refused),
\* its null keys are not looked for, and its pairs are checked on all its rows.
Init ==
  \E cols \in SUBSET Columns, keys \in KeyChoices :
    /\ keys \subseteq cols
    /\ fact_columns \in Typings(cols)
    /\ rows \in SetsUpTo(RowsOver(cols), MaxBuiltRows)
    /\ UniqueOn(rows, keys)
    /\ \E parents \in LinksAmong(cols, ParentChoices), labels \in LinksAmong(cols, LabelChoices) :
         /\ resolved_links_accepted(fact_columns, keys, parents, labels)
         /\ \A l \in Declared(labels) :
              check_value_label_dependency(rows, labels[l], l, ColumnValues(rows, labels[l]))
         /\ metadata = create_metadata_table(fact_columns, keys, parents, labels)
    /\ cluster_by \in {keys} \cup {S \in SortKeyChoices : S \subseteq cols}
    /\ sorted_by = cluster_by

-----------------------------------------------------------------------------
(* DatabaseUpdater *)

\* The physical columns once a batch has added those it brings.
WithNewColumns(cols, types) ==
  [c \in DOMAIN fact_columns \cup cols |->
     IF c \in DOMAIN fact_columns THEN fact_columns[c] ELSE types[c]]

\* update_database, with new columns allowed or none in the batch.
UpdateDatabase(cols, types, batch, declaration) ==
  LET fact_cols == WithNewColumns(cols, types)
      padded    == Padded(rows, DOMAIN fact_cols)
      added     == add_columns_to_metadata(metadata, fact_cols)
      described == apply_declaration(added, declaration)
      resolved  == [c \in DOMAIN described |->
                      resolve_type_conflict(described[c].sql_type, batch, types, c)]
      written   == upsert_fact_table(padded, DOMAIN fact_cols, batch, cols, PrimaryKeys)
  IN  /\ check_batch_keys(batch, cols, PrimaryKeys)
      /\ UniqueOn(batch, PrimaryKeys)
      /\ batch # {}
      /\ declaration_accepted(added, padded, declaration)
      /\ check_value_label_dependencies(written, described, batch, PrimaryKeys, cols)
      /\ check_duplicates_db => UniqueOn(written, PrimaryKeys)
      /\ rows' = written
      /\ fact_columns' = [c \in DOMAIN fact_cols |->
                            IF resolved[c] = described[c].sql_type THEN fact_cols[c]
                            ELSE resolved[c]]
      /\ metadata' = [c \in DOMAIN described |->
                        [described[c] EXCEPT !.sql_type = resolved[c]]]
      /\ UNCHANGED <<cluster_by, sorted_by>>

\* add_columns: the value columns are new, or overwritten; the rows absent from
\* the fact table are inserted with NULL in its other columns.
AddColumns(cols, types, df, declaration) ==
  LET new_columns == cols \ PrimaryKeys
      fact_cols   == WithNewColumns(cols, types)
      padded      == Padded(rows, DOMAIN fact_cols)
      added       == add_columns_to_metadata(metadata, fact_cols)
      described   == apply_declaration(added, declaration)
      written     == upsert_fact_table(padded, DOMAIN fact_cols, df, cols, PrimaryKeys)
  IN  /\ check_batch_keys(df, cols, PrimaryKeys)
      /\ UniqueOn(df, PrimaryKeys)
      /\ new_columns # {}
      /\ declaration_accepted(added, padded, declaration)
      /\ check_value_label_dependencies(written, described, df, PrimaryKeys, new_columns)
      /\ rows' = written
      /\ fact_columns' = fact_cols
      /\ metadata' = described
      /\ UNCHANGED <<cluster_by, sorted_by>>

\* The row f after update_value_labels has given each listed code its label.
relabelled_row(f, labels, code, label) ==
  IF \E t \in labels : Matches(f, t, {code})
  THEN [f EXCEPT ![label] = (CHOOSE t \in labels : Matches(f, t, {code}))[label]]
  ELSE f

UpdateValueLabels(label, labels) ==
  LET code    == metadata[label].label_for
      written == {relabelled_row(f, labels, code, label) : f \in rows}
  IN  /\ code # NULL
      /\ \A t \in labels : t[code] # NULL
      /\ UniqueOn(labels, {code})
      /\ check_value_label_dependency(written, code, label, ColumnValues(labels, code))
      /\ rows' = written
      /\ UNCHANGED <<fact_columns, metadata, cluster_by, sorted_by>>

-----------------------------------------------------------------------------
(* DatabaseDeleter *)

projected(r, cols) == [c \in cols |-> r[c]]
\* Mutant: the rows of the dropped columns stay.
metadata_without_deletion(md, dropped, cascade) == md

\* The metadata rows left, with the links to a dropped column cleared when the
\* drop cascades.
metadata_without(md, dropped, cascade) ==
  LET detached(target) == IF cascade /\ target \in dropped THEN NULL ELSE target
  IN  [c \in DOMAIN md \ dropped |->
         [ sql_type       |-> md[c].sql_type,
           is_primary_key |-> md[c].is_primary_key,
           is_categorical |-> md[c].is_categorical,
           parent_name    |-> detached(md[c].parent_name),
           label_for      |-> detached(md[c].label_for) ]]

\* _drop_column_with_references for each of the columns `dropped`, on a fact table
\* of rows `table`.  cluster_by alone decides whether the sort key is written;
\* DuckLake refuses to drop a column of its own key.
drop_columns_with_references(dropped, table, cascade) ==
  LET kept     == DOMAIN fact_columns \ dropped
      in_sort  == cluster_by \cap dropped # {}
      sort_key == IF in_sort THEN cluster_by \ dropped ELSE sorted_by
  IN  /\ sort_key \cap dropped = {}
      /\ fact_columns' = [c \in kept |-> fact_columns[c]]
      /\ rows' = {projected(r, kept) : r \in table}
      /\ metadata' = metadata_without(metadata, dropped, cascade)
      /\ cluster_by' = cluster_by \ dropped
      /\ sorted_by' = sort_key

\* _cleanup_null_only_columns: nothing on an empty table.
null_only_columns_dropped(table) ==
  IF table = {} THEN {}
  ELSE Droppable({c \in DOMAIN fact_columns \ PrimaryKeys : \A r \in table : r[c] = NULL},
                 ParentOf(metadata), LabelFor(metadata))

\* delete_rows, then the removal of the columns left null-only, which the caller
\* may turn off and whose failure leaves the deletion committed.
DeleteRows(gone, perform_cleanup) ==
  LET left    == rows \ gone
      dropped == IF perform_cleanup /\ gone # {} THEN null_only_columns_dropped(left) ELSE {}
  IN  drop_columns_with_references(dropped, left, FALSE)
\* Mutant: a key column may be dropped.
DeleteColumns_keys(columns, cascade) ==
  /\ columns # {}
  /\ \/ cascade
     \/ \A c \in columns : Dependents(ParentOf(metadata), LabelFor(metadata), c) = {}
  /\ drop_columns_with_references(columns, rows, cascade)

\* delete_columns: never a primary key, and a column with dependents only when
\* they are detached.
DeleteColumns(columns, cascade) ==
  /\ columns # {}
  /\ columns \cap PrimaryKeys = {}
  /\ \/ cascade
     \/ \A c \in columns : Dependents(ParentOf(metadata), LabelFor(metadata), c) = {}
  /\ drop_columns_with_references(columns, rows, cascade)

-----------------------------------------------------------------------------
(* BaseSchemaManager: the public corrections of metadata and of the sort key *)

UpdateColumnMetadata(column, fields) ==
  /\ metadata_update_accepted(metadata, rows, column, fields)
  /\ metadata' = update_column_metadata(metadata, column, fields)
  /\ UNCHANGED <<fact_columns, rows, cluster_by, sorted_by>>
\* Mutant: ALTER TABLE ... SET SORTED BY is forgotten.
UpdateClusterBy_recorded(columns) ==
  /\ columns \subseteq DOMAIN fact_columns
  /\ cluster_by' = columns
  /\ UNCHANGED <<fact_columns, rows, metadata, sorted_by>>

UpdateClusterBy(columns) ==
  /\ columns \subseteq DOMAIN fact_columns
  /\ cluster_by' = columns
  /\ sorted_by' = columns
  /\ UNCHANGED <<fact_columns, rows, metadata>>

\* The batches a DataFrame over cols, with no null key, may be reduced to.
DeduplicatedBatches(cols) ==
  UNION {remove_dataframe_duplicates(given, PrimaryKeys, keep) :
           keep \in {"off", "none", "any"},
           given \in {df \in SetsUpTo(RowsOver(cols), MaxBatch) :
                        check_batch_keys(df, cols, PrimaryKeys)}}

(* The calls, with every argument they may be given. *)

UpdateDatabaseCall ==
  \E cols \in {S \in SUBSET Columns : PrimaryKeys \subseteq S} :
  \E batch \in DeduplicatedBatches(cols), types \in Typings(cols),
     declaration \in Declarations(cols \ DOMAIN fact_columns) :
    /\ UpdateDatabase(cols, types, batch, declaration)
    /\ Cardinality(rows') <= MaxRows

AddColumnsCall ==
  \E cols \in {S \in SUBSET Columns : PrimaryKeys \subseteq S} :
  \E df \in SetsUpTo(RowsOver(cols), MaxBatch), types \in Typings(cols),
     declaration \in Declarations(cols \ PrimaryKeys) :
    /\ AddColumns(cols, types, df, declaration)
    /\ Cardinality(rows') <= MaxRows

UpdateValueLabelsCall ==
  \E label \in Declared(LabelFor(metadata)) :
  \E labels \in SetsUpTo(RowsOver({metadata[label].label_for, label}), MaxBatch) :
    UpdateValueLabels(label, labels)

DeleteRowsCall ==
  \E gone \in SUBSET rows, perform_cleanup \in BOOLEAN : DeleteRows(gone, perform_cleanup)

DeleteColumnsCall ==
  \E columns \in SUBSET DOMAIN fact_columns, cascade \in BOOLEAN :
    DeleteColumns(columns, cascade)

UpdateColumnMetadataCall ==
  \E column \in DOMAIN metadata :
  \E fields \in MetadataFields(column) : UpdateColumnMetadata(column, fields)

UpdateClusterByCall == \E columns \in SortKeyChoices : UpdateClusterBy(columns)

Next ==
  \/ UpdateDatabaseCall
  \/ AddColumnsCall
  \/ UpdateValueLabelsCall
  \/ DeleteRowsCall
  \/ DeleteColumnsCall
  \/ UpdateColumnMetadataCall
  \/ UpdateClusterByCall

Spec == Init /\ [][Next]_vars

-----------------------------------------------------------------------------
(* Properties *)

MetadataRow ==
  [ sql_type : AllSqlTypes, is_primary_key : BOOLEAN, is_categorical : BOOLEAN,
    parent_name : Columns \cup {NULL}, label_for : Columns \cup {NULL} ]

TypeOK ==
  /\ DOMAIN fact_columns \subseteq Columns
  /\ fact_columns \in [DOMAIN fact_columns -> AllSqlTypes]
  /\ rows \subseteq RowsOver(DOMAIN fact_columns)
  /\ metadata \in [DOMAIN metadata -> MetadataRow]
  /\ cluster_by \subseteq Columns
  /\ sorted_by \subseteq Columns

\* The contract with the interface: metadata describes the columns of the fact
\* table, all of them and no other, each with the type it is stored with, however
\* columns are added, widened, dropped and cleaned up.
MetadataDescribesFactTable ==
  /\ DOMAIN metadata = DOMAIN fact_columns
  /\ \A c \in DOMAIN metadata : metadata[c].sql_type = fact_columns[c]

\* dataset_metadata.cluster_by is the key DuckLake sorts by, and both name only
\* columns that still exist: a drop never leaves either behind.
SortKeyAgrees ==
  /\ cluster_by = sorted_by
  /\ cluster_by \subseteq DOMAIN fact_columns

\* No two rows share a primary key, although nothing in DuckLake enforces it, the
\* built DataFrame may hold null keys and update_database may skip its check.
PrimaryKeyUnique ==
  /\ PrimaryKeys # {}
  /\ UniqueOn(rows, PrimaryKeys)

\* No call drops a key column or declares another one: rows keep their identity.
KeysNeverChange == [][PrimaryKeys' = PrimaryKeys]_vars

\* Every link names a column that exists: no drop, cascaded or not, and no
\* cleanup leaves a child or a label column pointing at nothing.
LinksResolve ==
  \A c \in DOMAIN metadata :
    /\ metadata[c].parent_name # NULL => metadata[c].parent_name \in DOMAIN metadata
    /\ metadata[c].label_for # NULL => metadata[c].label_for \in DOMAIN metadata

\* However parent links are declared, redeclared and cleared one at a time, no
\* chain of parents loops.
HierarchyIsForest == IsForest(ParentOf(metadata))

\* Both ends of every parent link are categorical: no later call that sets
\* is_categorical, or clears and redeclares links, undoes the forcing.
HierarchyIsCategorical ==
  \A c \in DOMAIN metadata :
    (metadata[c].parent_name # NULL \/ Children(ParentOf(metadata), c) # {})
      => metadata[c].is_categorical

\* A label column is text, is no key, labels another column that is no label
\* column itself, and has no hierarchy parent.
LabelColumnShape ==
  \A l \in Declared(LabelFor(metadata)) :
    /\ metadata[l].label_for # l
    /\ metadata[l].label_for \in DOMAIN metadata =>
         metadata[metadata[l].label_for].label_for = NULL
    /\ metadata[l].sql_type = "VARCHAR"
    /\ ~ metadata[l].is_primary_key
    /\ metadata[l].parent_name = NULL

\* update_column_metadata's docstring: "A column cannot be both a hierarchy member
\* (parent or child) and a label column".
NoLabelColumnInHierarchy ==
  \A l \in Declared(LabelFor(metadata)) :
    /\ metadata[l].parent_name = NULL
    /\ Children(ParentOf(metadata), l) = {}

\* Every declared pair holds on the whole fact table: equal codes, equal labels.
PairsHold ==
  \A l \in Declared(LabelFor(metadata)) :
    Determines(rows, metadata[l].label_for, l)

\* The same for the pairs whose code is not a primary key: the checks that
\* follow a write look only at the codes it touched, and that is enough.
ValuePairsHold ==
  \A l \in Declared(LabelFor(metadata)) :
    metadata[l].label_for \notin PrimaryKeys => Determines(rows, metadata[l].label_for, l)
=============================================================================
