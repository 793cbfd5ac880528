--------------------------- MODULE ResultSet_proofs ---------------------------
(***************************************************************************)
(* Theorems about ResultSet, for every value of its constants.             *)
(***************************************************************************)
EXTENDS ResultSet, ColumnLinks_proofs, TLAPS

USE ResultSetAssumption

-----------------------------------------------------------------------------
(* What the operators return *)

\* The fields a call passes, whatever the choices of the model.
Fields ==
  [ parent_name : Columns \cup {NULL, ABSENT},
    label_for : Columns \cup {NULL, ABSENT},
    is_categorical : BOOLEAN \cup {ABSENT} ]

LEMMA SetsUpToSubset ==
  ASSUME NEW S, NEW n \in Nat, NEW T \in SetsUpTo(S, n)
  PROVE  T \subseteq S
BY DEF SetsUpTo

LEMMA DeduplicatedSubset ==
  ASSUME NEW batch, NEW keys, NEW keep \in {"off", "none", "any"},
         NEW kept \in remove_dataframe_duplicates(batch, keys, keep)
  PROVE  kept \subseteq batch
<1>1. CASE keep = "off"
  BY <1>1 DEF remove_dataframe_duplicates
<1>2. CASE keep = "none"
  BY <1>2 DEF remove_dataframe_duplicates
<1>3. CASE keep = "any"
  BY <1>3 DEF remove_dataframe_duplicates
<1> QED BY <1>1, <1>2, <1>3

LEMMA BatchesAreRows ==
  ASSUME NEW cols, NEW batch \in DeduplicatedBatches(cols)
  PROVE  batch \subseteq RowsOver(cols)
<1>1. PICK keep \in {"off", "none", "any"}, given \in SetsUpTo(RowsOver(cols), MaxBatch) :
         batch \in remove_dataframe_duplicates(given, PrimaryKeys, keep)
  BY DEF DeduplicatedBatches
<1>2. batch \subseteq given
  BY <1>1, DeduplicatedSubset
<1>3. given \subseteq RowsOver(cols)
  BY SetsUpToSubset
<1> QED BY <1>2, <1>3

LEMMA TypingsTyped ==
  ASSUME NEW cols \in SUBSET Columns, NEW types \in Typings(cols)
  PROVE  types \in [cols -> AllSqlTypes]
BY DEF Typings

LEMMA FieldsTyped ==
  ASSUME NEW c \in Columns
  PROVE  LinkFields(c) \subseteq Fields /\ MetadataFields(c) \subseteq Fields
<1>1. Passable(ParentChoices[c]) \subseteq Columns \cup {NULL, ABSENT}
  BY DEF Passable
<1>2. Passable(LabelChoices[c]) \subseteq Columns \cup {NULL, ABSENT}
  BY DEF Passable
<1>3. CategoricalChoices[c] \subseteq BOOLEAN
  OBVIOUS
<1> QED BY <1>1, <1>2, <1>3 DEF LinkFields, MetadataFields, Fields

LEMMA ResolveTyped ==
  ASSUME NEW current \in AllSqlTypes, NEW new \in AllSqlTypes
  PROVE  resolve_sql_type_conflict(current, new) \in AllSqlTypes
<1>1. \A w \in DOMAIN SIGNED_WIDENING : SIGNED_WIDENING[w] \in {"SMALLINT", "INTEGER", "BIGINT", "HUGEINT"}
  BY DEF SIGNED_WIDENING
<1>2. {"SMALLINT", "INTEGER", "BIGINT", "HUGEINT"} \subseteq AllSqlTypes
  BY DEF AllSqlTypes, OrderedTypes, SQL_TYPE_RANK
<1> HIDE DEF SIGNED_WIDENING, AllSqlTypes, OrderedTypes, SQL_TYPE_RANK
<1>3. \/ resolve_sql_type_conflict(current, new) \in {current, new}
      \/ \E w \in DOMAIN SIGNED_WIDENING : resolve_sql_type_conflict(current, new) = SIGNED_WIDENING[w]
  BY DEF resolve_sql_type_conflict
<1> QED BY <1>1, <1>2, <1>3

LEMMA PaddedTyped ==
  ASSUME NEW old, NEW cols, old \subseteq cols, NEW table \in SUBSET RowsOver(old)
  PROVE  Padded(table, cols) \subseteq RowsOver(cols)
<1> SUFFICES ASSUME NEW r \in table
             PROVE  padded_row(r, cols) \in RowsOver(cols)
  BY DEF Padded
<1>1. r \in [old -> Cells] /\ \A c \in old : r[c] \in CellValues[c] \cup {NULL}
  BY DEF RowsOver
<1>2. NULL \in Cells
  BY DEF Cells
<1> QED BY <1>1, <1>2 DEF RowsOver, padded_row

LEMMA UpsertTyped ==
  ASSUME NEW cols, NEW batch_cols, batch_cols \subseteq cols, NEW keys,
         NEW table \in SUBSET RowsOver(cols), NEW batch \in SUBSET RowsOver(batch_cols)
  PROVE  upsert_fact_table(table, cols, batch, batch_cols, keys) \subseteq RowsOver(cols)
<1>1. Padded(unmatched_rows(table, batch, keys), cols) \subseteq RowsOver(cols)
  BY PaddedTyped DEF unmatched_rows
<1>2. ASSUME NEW f \in table, NEW t \in batch
      PROVE  [c \in cols |-> IF c \in batch_cols \ keys THEN t[c] ELSE f[c]] \in RowsOver(cols)
  BY DEF RowsOver
<1>3. ASSUME NEW f \in table
      PROVE  updated_row(f, cols, batch, batch_cols, keys) \in RowsOver(cols)
  BY <1>2 DEF updated_row
<1> QED BY <1>1, <1>3 DEF upsert_fact_table

LEMMA AddedTyped ==
  ASSUME NEW old, NEW md \in [old -> MetadataRow],
         NEW cols, old \subseteq cols, NEW fact_cols \in [cols -> AllSqlTypes]
  PROVE  add_columns_to_metadata(md, fact_cols) \in [cols -> MetadataRow]
BY DEF add_columns_to_metadata, new_metadata_row, inferred_categorical, MetadataRow

LEMMA UpdatedTyped ==
  ASSUME NEW cols, NEW md \in [cols -> MetadataRow], NEW column, NEW fields \in Fields
  PROVE  update_column_metadata(md, column, fields) \in [cols -> MetadataRow]
BY DEF update_column_metadata, MetadataRow, Fields, Merge

LEMMA AppliedTyped ==
  ASSUME NEW cols, NEW md \in [cols -> MetadataRow],
         NEW new \in SUBSET Columns, NEW declaration \in Declarations(new)
  PROVE  apply_declaration(md, declaration) \in [cols -> MetadataRow]
<1>1. CASE declaration.column = NULL
  BY <1>1 DEF apply_declaration
<1>2. CASE declaration.column # NULL
  <2>1. declaration.fields \in Fields
    BY <1>2, FieldsTyped DEF Declarations, NoDeclaration
  <2> QED BY <1>2, <2>1, UpdatedTyped DEF apply_declaration
<1> QED BY <1>1, <1>2

LEMMA RelabelledTyped ==
  ASSUME NEW cols, NEW code, NEW label \in cols,
         NEW f \in RowsOver(cols), NEW labels \in SUBSET RowsOver({code, label})
  PROVE  relabelled_row(f, labels, code, label) \in RowsOver(cols)
<1>1. ASSUME NEW t \in labels
      PROVE  [f EXCEPT ![label] = t[label]] \in RowsOver(cols)
  BY DEF RowsOver
<1> QED BY <1>1 DEF relabelled_row

LEMMA ProjectionTyped ==
  ASSUME NEW cols, NEW kept \in SUBSET cols, NEW r \in RowsOver(cols)
  PROVE  projected(r, kept) \in RowsOver(kept)
BY DEF RowsOver, projected

-----------------------------------------------------------------------------
(* The tables keep their shape *)

\* The inductive part of the typing: the rows and metadata are over the columns
\* of the fact table, and the recorded types are the stored ones.
Shape ==
  /\ TypeOK
  /\ MetadataDescribesFactTable

LEMMA InitShape == Init => Shape
<1> SUFFICES ASSUME Init PROVE Shape
  OBVIOUS
<1>1. PICK cols \in SUBSET Columns, keys \in KeyChoices :
        /\ keys \subseteq cols
        /\ fact_columns \in Typings(cols)
        /\ rows \in SetsUpTo(RowsOver(cols), MaxBuiltRows)
        /\ \E parents \in LinksAmong(cols, ParentChoices), labels \in LinksAmong(cols, LabelChoices) :
             metadata = create_metadata_table(fact_columns, keys, parents, labels)
        /\ cluster_by \in {keys} \cup {S \in SortKeyChoices : S \subseteq cols}
        /\ sorted_by = cluster_by
  BY DEF Init
<1>2. fact_columns \in [cols -> AllSqlTypes]
  BY <1>1, TypingsTyped
<1>3. rows \subseteq RowsOver(cols)
  BY <1>1, SetsUpToSubset
<1>4. metadata \in [cols -> MetadataRow] /\ \A c \in cols : metadata[c].sql_type = fact_columns[c]
  BY <1>1, <1>2 DEF create_metadata_table, MetadataRow, LinksAmong, inferred_categorical
<1>5. cluster_by \subseteq Columns /\ sorted_by \subseteq Columns
  BY <1>1
<1> QED BY <1>2, <1>3, <1>4, <1>5 DEF Shape, TypeOK, MetadataDescribesFactTable

LEMMA WithNewColumnsTyped ==
  ASSUME TypeOK, NEW cols \in SUBSET Columns, NEW types \in [cols -> AllSqlTypes]
  PROVE  WithNewColumns(cols, types) \in [DOMAIN fact_columns \cup cols -> AllSqlTypes]
BY DEF TypeOK, WithNewColumns

\* Declaring links changes no type.
LEMMA AppliedTypes ==
  ASSUME NEW cols, NEW md \in [cols -> MetadataRow], NEW declaration
  PROVE  \A c \in cols : apply_declaration(md, declaration)[c].sql_type = md[c].sql_type
BY DEF apply_declaration, update_column_metadata

LEMMA Retyped ==
  ASSUME NEW m \in MetadataRow, NEW t \in AllSqlTypes
  PROVE  /\ [m EXCEPT !.sql_type = t] \in MetadataRow
         /\ [m EXCEPT !.sql_type = t].sql_type = t
BY DEF MetadataRow

LEMMA UpdateDatabaseShape ==
  ASSUME Shape, NEW cols \in SUBSET Columns, NEW batch \in DeduplicatedBatches(cols),
         NEW types \in Typings(cols), NEW declaration \in Declarations(cols \ DOMAIN fact_columns),
         UpdateDatabase(cols, types, batch, declaration)
  PROVE  Shape'
<1> DEFINE all       == DOMAIN fact_columns \cup cols
           fact_cols == WithNewColumns(cols, types)
           padded    == Padded(rows, DOMAIN fact_cols)
           added     == add_columns_to_metadata(metadata, fact_cols)
           described == apply_declaration(added, declaration)
           resolved  == [c \in DOMAIN described |->
                           resolve_type_conflict(described[c].sql_type, batch, types, c)]
           written   == upsert_fact_table(padded, DOMAIN fact_cols, batch, cols, PrimaryKeys)
<1>1. types \in [cols -> AllSqlTypes] /\ fact_cols \in [all -> AllSqlTypes]
  BY TypingsTyped, WithNewColumnsTyped DEF Shape
<1>2. added \in [all -> MetadataRow]
  BY <1>1, AddedTyped DEF Shape, TypeOK, MetadataDescribesFactTable
<1>3. described \in [all -> MetadataRow]
  BY <1>2, AppliedTyped DEF Shape, TypeOK
<1>4. \A c \in all : described[c].sql_type = fact_cols[c]
  <2>1. \A c \in DOMAIN fact_columns : metadata[c].sql_type = fact_cols[c]
    BY DEF Shape, MetadataDescribesFactTable, WithNewColumns
  <2>2. metadata \in [DOMAIN fact_columns -> MetadataRow]
    BY DEF Shape, TypeOK, MetadataDescribesFactTable
  <2> HIDE DEF fact_cols
  <2>3. \A c \in all : added[c].sql_type = fact_cols[c]
    BY <1>1, <2>1, <2>2 DEF add_columns_to_metadata, new_metadata_row
  <2> HIDE DEF added
  <2>4. \A c \in all : described[c].sql_type = added[c].sql_type
    BY <1>2, AppliedTypes
  <2> QED BY <2>3, <2>4
<1>5. resolved \in [all -> AllSqlTypes]
  <2> HIDE DEF fact_cols, added, described
  <2> QED BY <1>1, <1>3, ResolveTyped DEF resolve_type_conflict, MetadataRow
<1>6. written \subseteq RowsOver(all)
  <2>1. rows \subseteq RowsOver(DOMAIN fact_columns) /\ batch \subseteq RowsOver(cols)
    BY BatchesAreRows DEF Shape, TypeOK
  <2> HIDE DEF fact_cols
  <2>2. DOMAIN fact_cols = all
    BY <1>1
  <2>3. padded \subseteq RowsOver(all)
    BY <2>1, <2>2, PaddedTyped
  <2> HIDE DEF padded
  <2> QED BY <2>1, <2>2, <2>3, UpsertTyped
<1>7. /\ rows' = written
      /\ fact_columns' = [c \in DOMAIN fact_cols |->
                            IF resolved[c] = described[c].sql_type THEN fact_cols[c]
                            ELSE resolved[c]]
      /\ metadata' = [c \in DOMAIN described |->
                        [described[c] EXCEPT !.sql_type = resolved[c]]]
      /\ UNCHANGED <<cluster_by, sorted_by>>
  BY DEF UpdateDatabase
<1> HIDE DEF fact_cols, padded, added, described, resolved, written
<1>8. fact_columns' \in [all -> AllSqlTypes] /\ all \subseteq Columns
  BY <1>1, <1>5, <1>7 DEF Shape, TypeOK
<1>9. metadata' \in [all -> MetadataRow]
  BY <1>3, <1>5, <1>7, Retyped
<1>10. \A c \in all : metadata'[c].sql_type = fact_columns'[c]
  BY <1>1, <1>3, <1>4, <1>5, <1>7, Retyped
<1>11. cluster_by' \subseteq Columns /\ sorted_by' \subseteq Columns
  BY <1>7 DEF Shape, TypeOK
<1>12. DOMAIN fact_columns' = all /\ DOMAIN metadata' = all
  BY <1>8, <1>9
<1> HIDE DEF all
<1> QED BY <1>6, <1>7, <1>8, <1>9, <1>10, <1>11, <1>12 DEF Shape, TypeOK, MetadataDescribesFactTable

LEMMA AddColumnsShape ==
  ASSUME Shape, NEW cols \in SUBSET Columns, NEW df \in SetsUpTo(RowsOver(cols), MaxBatch),
         NEW types \in Typings(cols), NEW declaration \in Declarations(cols \ PrimaryKeys),
         AddColumns(cols, types, df, declaration)
  PROVE  Shape'
<1> DEFINE all       == DOMAIN fact_columns \cup cols
           fact_cols == WithNewColumns(cols, types)
           padded    == Padded(rows, DOMAIN fact_cols)
           added     == add_columns_to_metadata(metadata, fact_cols)
           described == apply_declaration(added, declaration)
           written   == upsert_fact_table(padded, DOMAIN fact_cols, df, cols, PrimaryKeys)
<1>1. types \in [cols -> AllSqlTypes] /\ fact_cols \in [all -> AllSqlTypes]
  BY TypingsTyped, WithNewColumnsTyped DEF Shape
<1>2. added \in [all -> MetadataRow]
  BY <1>1, AddedTyped DEF Shape, TypeOK, MetadataDescribesFactTable
<1>3. described \in [all -> MetadataRow]
  BY <1>2, AppliedTyped DEF Shape, TypeOK
<1>4. \A c \in all : described[c].sql_type = fact_cols[c]
  <2>1. \A c \in DOMAIN fact_columns : metadata[c].sql_type = fact_cols[c]
    BY DEF Shape, MetadataDescribesFactTable, WithNewColumns
  <2>2. metadata \in [DOMAIN fact_columns -> MetadataRow]
    BY DEF Shape, TypeOK, MetadataDescribesFactTable
  <2> HIDE DEF fact_cols
  <2>3. \A c \in all : added[c].sql_type = fact_cols[c]
    BY <1>1, <2>1, <2>2 DEF add_columns_to_metadata, new_metadata_row
  <2> HIDE DEF added
  <2>4. \A c \in all : described[c].sql_type = added[c].sql_type
    BY <1>2, AppliedTypes
  <2> QED BY <2>3, <2>4
<1>5. written \subseteq RowsOver(all)
  <2>1. rows \subseteq RowsOver(DOMAIN fact_columns) /\ df \subseteq RowsOver(cols)
    BY SetsUpToSubset DEF Shape, TypeOK
  <2> HIDE DEF fact_cols
  <2>2. DOMAIN fact_cols = all
    BY <1>1
  <2>3. padded \subseteq RowsOver(all)
    BY <2>1, <2>2, PaddedTyped
  <2> HIDE DEF padded
  <2> QED BY <2>1, <2>2, <2>3, UpsertTyped
<1>6. /\ rows' = written
      /\ fact_columns' = fact_cols
      /\ metadata' = described
      /\ UNCHANGED <<cluster_by, sorted_by>>
  BY DEF AddColumns
<1> HIDE DEF fact_cols, padded, added, described, written
<1>7. DOMAIN fact_columns' = all /\ DOMAIN metadata' = all /\ all \subseteq Columns
  BY <1>1, <1>3, <1>6 DEF Shape, TypeOK
<1>8. cluster_by' \subseteq Columns /\ sorted_by' \subseteq Columns
  BY <1>6 DEF Shape, TypeOK
<1> HIDE DEF all
<1> QED BY <1>1, <1>3, <1>4, <1>5, <1>6, <1>7, <1>8 DEF Shape, TypeOK, MetadataDescribesFactTable

LEMMA UpdateValueLabelsShape ==
  ASSUME Shape, NEW label \in Declared(LabelFor(metadata)),
         NEW labels \in SetsUpTo(RowsOver({metadata[label].label_for, label}), MaxBatch),
         UpdateValueLabels(label, labels)
  PROVE  Shape'
<1>1. labels \subseteq RowsOver({metadata[label].label_for, label})
  BY SetsUpToSubset
<1>2. label \in DOMAIN fact_columns
  BY DEF Declared, LabelFor, Shape, MetadataDescribesFactTable
<1>3. rows' \subseteq RowsOver(DOMAIN fact_columns)
  <2>1. rows' = {relabelled_row(f, labels, metadata[label].label_for, label) : f \in rows}
    BY DEF UpdateValueLabels
  <2>2. rows \subseteq RowsOver(DOMAIN fact_columns)
    BY DEF Shape, TypeOK
  <2> QED BY <1>1, <1>2, <2>1, <2>2, RelabelledTyped
<1>4. UNCHANGED <<fact_columns, metadata, cluster_by, sorted_by>>
  BY DEF UpdateValueLabels
<1> QED BY <1>3, <1>4 DEF Shape, TypeOK, MetadataDescribesFactTable

LEMMA DropShape ==
  ASSUME Shape, NEW dropped, NEW table \in SUBSET rows, NEW cascade \in BOOLEAN,
         drop_columns_with_references(dropped, table, cascade)
  PROVE  Shape'
<1> DEFINE kept == DOMAIN fact_columns \ dropped
<1>1. /\ fact_columns' = [c \in kept |-> fact_columns[c]]
      /\ rows' = {projected(r, kept) : r \in table}
      /\ cluster_by' = cluster_by \ dropped
      /\ sorted_by' \in {cluster_by \ dropped, sorted_by}
  BY DEF drop_columns_with_references
<1>2. metadata' \in [kept -> MetadataRow] /\ \A c \in kept : metadata'[c].sql_type = metadata[c].sql_type
  <2>1. metadata' = metadata_without(metadata, dropped, cascade)
    BY DEF drop_columns_with_references
  <2>2. metadata \in [DOMAIN fact_columns -> MetadataRow]
    BY DEF Shape, TypeOK, MetadataDescribesFactTable
  <2>3. /\ metadata_without(metadata, dropped, cascade) \in [kept -> MetadataRow]
        /\ \A c \in kept :
             metadata_without(metadata, dropped, cascade)[c].sql_type = metadata[c].sql_type
    BY <2>2 DEF metadata_without, MetadataRow
  <2> QED BY <2>1, <2>3
<1>3. rows' \subseteq RowsOver(kept)
  <2>1. rows \subseteq RowsOver(DOMAIN fact_columns)
    BY DEF Shape, TypeOK
  <2>2. \A r \in table : projected(r, kept) \in RowsOver(kept)
    BY <2>1, ProjectionTyped
  <2> HIDE DEF kept
  <2> QED BY <1>1, <2>2
<1>4. DOMAIN fact_columns' = kept /\ DOMAIN metadata' = kept
  BY <1>1, <1>2
<1>5. fact_columns' \in [kept -> AllSqlTypes] /\ kept \subseteq Columns
  BY <1>1 DEF Shape, TypeOK
<1>6. \A c \in kept : metadata'[c].sql_type = fact_columns'[c]
  BY <1>1, <1>2 DEF Shape, MetadataDescribesFactTable
<1>7. cluster_by' \subseteq Columns /\ sorted_by' \subseteq Columns
  BY <1>1 DEF Shape, TypeOK
<1> HIDE DEF kept
<1> QED BY <1>2, <1>3, <1>4, <1>5, <1>6, <1>7 DEF Shape, TypeOK, MetadataDescribesFactTable

LEMMA UpdateColumnMetadataShape ==
  ASSUME Shape, NEW column \in DOMAIN metadata, NEW fields \in MetadataFields(column),
         UpdateColumnMetadata(column, fields)
  PROVE  Shape'
<1>1. fields \in Fields
  BY FieldsTyped DEF Shape, TypeOK, MetadataDescribesFactTable
<1>2. metadata' = update_column_metadata(metadata, column, fields)
  BY DEF UpdateColumnMetadata
<1>3. metadata' \in [DOMAIN metadata -> MetadataRow]
  BY <1>1, <1>2, UpdatedTyped DEF Shape, TypeOK
<1>4. \A c \in DOMAIN metadata : metadata'[c].sql_type = metadata[c].sql_type
  BY <1>2 DEF update_column_metadata
<1>5. UNCHANGED <<fact_columns, rows, cluster_by, sorted_by>>
  BY DEF UpdateColumnMetadata
<1>6. DOMAIN metadata' = DOMAIN metadata
  BY <1>3
<1> QED BY <1>3, <1>4, <1>5, <1>6 DEF Shape, TypeOK, MetadataDescribesFactTable

LEMMA StepShape == Shape /\ [Next]_vars => Shape'
<1> SUFFICES ASSUME Shape, [Next]_vars PROVE Shape'
  OBVIOUS
<1>1. CASE UpdateDatabaseCall
  BY <1>1, UpdateDatabaseShape DEF UpdateDatabaseCall
<1>2. CASE AddColumnsCall
  BY <1>2, AddColumnsShape DEF AddColumnsCall
<1>3. CASE UpdateValueLabelsCall
  BY <1>3, UpdateValueLabelsShape DEF UpdateValueLabelsCall
<1>4. CASE DeleteRowsCall
  BY <1>4, DropShape DEF DeleteRowsCall, DeleteRows
<1>5. CASE DeleteColumnsCall
  BY <1>5, DropShape DEF DeleteColumnsCall, DeleteColumns
<1>6. CASE UpdateColumnMetadataCall
  BY <1>6, UpdateColumnMetadataShape DEF UpdateColumnMetadataCall
<1>7. CASE UpdateClusterByCall
  BY <1>7 DEF UpdateClusterByCall, UpdateClusterBy, Shape, TypeOK, MetadataDescribesFactTable
<1>8. CASE UNCHANGED vars
  BY <1>8 DEF vars, Shape, TypeOK, MetadataDescribesFactTable
<1> QED BY <1>1, <1>2, <1>3, <1>4, <1>5, <1>6, <1>7, <1>8 DEF Next

\* Every reachable state is well typed: the rows and metadata are over the columns
\* that exist, whatever calls were made.
THEOREM TypeCorrect == Spec => []TypeOK
<1>1. Shape => TypeOK
  BY DEF Shape
<1> QED BY <1>1, InitShape, StepShape, PTL DEF Spec

\* metadata describes exactly the columns of the fact table, with their types.
THEOREM MetadataCorrect == Spec => []MetadataDescribesFactTable
<1>1. Shape => MetadataDescribesFactTable
  BY DEF Shape
<1> QED BY <1>1, InitShape, StepShape, PTL DEF Spec

-----------------------------------------------------------------------------
(* The links stay well formed *)

WellLinked(md) ==
  /\ \A c \in DOMAIN md :
       /\ md[c].parent_name # NULL => md[c].parent_name \in DOMAIN md
       /\ md[c].label_for # NULL => md[c].label_for \in DOMAIN md
  /\ IsForest(ParentOf(md))
  /\ \A c \in DOMAIN md :
       md[c].parent_name # NULL \/ Children(ParentOf(md), c) # {} => md[c].is_categorical
  /\ \A l \in DOMAIN md :
       md[l].label_for # NULL =>
         /\ md[l].label_for # l
         /\ md[md[l].label_for].label_for = NULL
         /\ md[l].sql_type = "VARCHAR"
         /\ ~ md[l].is_primary_key
         /\ md[l].parent_name = NULL

\* A column without parent belongs to no cycle, so links may be added to new
\* columns and removed, and the forest stays one.
LEMMA FewerLinks ==
  ASSUME NEW old, IsForest(old), NEW new, NULL \notin DOMAIN new,
         \A c \in DOMAIN new : new[c] # NULL => c \in DOMAIN old /\ new[c] = old[c]
  PROVE  IsForest(new)
<1> SUFFICES ASSUME NEW S \in SUBSET DOMAIN new, \A c \in S : new[c] \in S
             PROVE  S = {}
  BY DEF IsForest
<1>1. \A c \in S : c \in DOMAIN old /\ old[c] \in S
  OBVIOUS
<1> QED BY <1>1 DEF IsForest

LEMMA AddedLinks ==
  ASSUME NEW old \in SUBSET Columns, NEW md \in [old -> MetadataRow], WellLinked(md),
         NEW cols \in SUBSET Columns, old \subseteq cols, NEW fact_cols \in [cols -> AllSqlTypes]
  PROVE  WellLinked(add_columns_to_metadata(md, fact_cols))
<1> DEFINE new == add_columns_to_metadata(md, fact_cols)
<1>1. DOMAIN new = cols
  BY DEF add_columns_to_metadata
<1>2. \A c \in old : new[c] = md[c]
  BY DEF add_columns_to_metadata
<1>3. \A c \in cols \ old : new[c].parent_name = NULL /\ new[c].label_for = NULL
  BY DEF add_columns_to_metadata, new_metadata_row
<1> HIDE DEF new
<1>4. IsForest(ParentOf(new))
  <2>1. IsForest(ParentOf(md)) /\ DOMAIN ParentOf(md) = old
    BY DEF WellLinked, ParentOf
  <2>2. DOMAIN ParentOf(new) = cols
    BY <1>1 DEF ParentOf
  <2>3. \A c \in cols : ParentOf(new)[c] # NULL => c \in old /\ ParentOf(new)[c] = ParentOf(md)[c]
    BY <1>1, <1>2, <1>3 DEF ParentOf
  <2> QED BY <2>1, <2>2, <2>3, FewerLinks
<1>5. \A c \in cols : Children(ParentOf(new), c) # {} => c \in old /\ Children(ParentOf(md), c) # {}
  <2> SUFFICES ASSUME NEW c \in cols, NEW d \in Children(ParentOf(new), c)
               PROVE  c \in old /\ Children(ParentOf(md), c) # {}
    OBVIOUS
  <2>1. d \in old /\ md[d].parent_name = c
    BY <1>1, <1>2, <1>3 DEF Children, ParentOf
  <2>2. d \in Children(ParentOf(md), c) /\ c \in old
    BY <2>1 DEF Children, ParentOf, WellLinked
  <2> QED BY <2>2
<1>6. \A c \in cols :
        /\ new[c].parent_name # NULL => new[c].parent_name \in cols
        /\ new[c].label_for # NULL => new[c].label_for \in cols
  BY <1>1, <1>2, <1>3 DEF WellLinked
<1>7. \A c \in cols :
        new[c].parent_name # NULL \/ Children(ParentOf(new), c) # {} => new[c].is_categorical
  BY <1>1, <1>2, <1>3, <1>5 DEF WellLinked
<1>8. ASSUME NEW l \in cols, new[l].label_for # NULL
      PROVE  /\ new[l].label_for # l
             /\ new[new[l].label_for].label_for = NULL
             /\ new[l].sql_type = "VARCHAR"
             /\ ~ new[l].is_primary_key
             /\ new[l].parent_name = NULL
  <2>1. l \in old /\ new[l] = md[l]
    BY <1>2, <1>3, <1>8
  <2>2. md[l].label_for \in old /\ new[md[l].label_for] = md[md[l].label_for]
    BY <1>2, <1>8, <2>1 DEF WellLinked
  <2> QED BY <1>8, <2>1, <2>2 DEF WellLinked
<1>9. WellLinked(new)
  BY <1>1, <1>4, <1>6, <1>7, <1>8 DEF WellLinked
<1> QED BY <1>9 DEF new

LEMMA UpdatedLinks ==
  ASSUME NEW cols \in SUBSET Columns, NEW md \in [cols -> MetadataRow], WellLinked(md),
         NEW column \in Columns, NEW fields \in Fields, NEW table,
         metadata_update_accepted(md, table, column, fields)
  PROVE  WellLinked(update_column_metadata(md, column, fields))
<1> DEFINE new    == update_column_metadata(md, column, fields)
           parent == Merge(fields.parent_name, md[column].parent_name)
           code   == Merge(fields.label_for, md[column].label_for)
<1>1. DOMAIN new = cols /\ column \in cols /\ NULL \notin cols
  BY DEF update_column_metadata, metadata_update_accepted
<1>2. new[column].parent_name = parent /\ new[column].label_for = code
  BY <1>1 DEF update_column_metadata
<1>3. \A c \in cols \ {column} :
        new[c].parent_name = md[c].parent_name /\ new[c].label_for = md[c].label_for
  BY <1>1 DEF update_column_metadata
<1>4. \A c \in cols : /\ new[c].sql_type = md[c].sql_type
                      /\ new[c].is_primary_key = md[c].is_primary_key
  BY <1>1 DEF update_column_metadata
<1>5. Declares(fields.parent_name) =>
        /\ parent = fields.parent_name /\ parent \in cols
        /\ IsForest([ParentOf(md) EXCEPT ![column] = parent])
        /\ code = NULL
  BY DEF metadata_update_accepted, parent_name_accepted, Merge, Declares
<1>6. ~ Declares(fields.parent_name) => parent = NULL \/ parent = md[column].parent_name
  BY DEF Merge, Declares
<1>7. Declares(fields.label_for) =>
        /\ code = fields.label_for
        /\ Children(ParentOf(md), column) = {}
        /\ parent = NULL
        /\ validate_value_labels([LabelFor(md) EXCEPT ![column] = code], SqlType(md),
                                 get_primary_key_columns(md), ParentOf(md))
  BY DEF metadata_update_accepted, label_for_accepted, Merge, Declares
<1>8. ~ Declares(fields.label_for) => code = NULL \/ code = md[column].label_for
  BY DEF Merge, Declares
<1>9. fields.is_categorical = FALSE =>
        Children(ParentOf(md), column) = {} /\ parent = NULL
  BY DEF metadata_update_accepted, is_categorical_accepted
<1>10. \A c \in cols :
         \/ new[c].is_categorical = TRUE
         \/ new[c].is_categorical = md[c].is_categorical
         \/ c = column /\ fields.is_categorical = FALSE
  BY <1>1 DEF update_column_metadata, Merge, Fields
<1>11. Declares(fields.parent_name) =>
         new[column].is_categorical = TRUE /\ new[parent].is_categorical = TRUE
  BY <1>1, <1>5 DEF update_column_metadata
<1> HIDE DEF new, parent, code
<1>12. \A c \in cols :
         /\ new[c].parent_name # NULL => new[c].parent_name \in cols
         /\ new[c].label_for # NULL => new[c].label_for \in cols
  <2>1. Declares(fields.label_for) => code \in cols
    BY <1>1, <1>7 DEF validate_value_labels, Declared, SqlType, LabelFor, Declares
  <2>2. parent # NULL => parent \in cols
    BY <1>1, <1>5, <1>6 DEF WellLinked
  <2>3. code # NULL => code \in cols
    BY <1>1, <1>8, <2>1 DEF WellLinked
  <2> QED BY <1>1, <1>2, <1>3, <2>2, <2>3 DEF WellLinked
<1>13. IsForest(ParentOf(new))
  <2>1. CASE Declares(fields.parent_name)
    <3>1. ParentOf(new) = [ParentOf(md) EXCEPT ![column] = parent]
      BY <1>1, <1>2, <1>3 DEF ParentOf
    <3> QED BY <1>5, <2>1, <3>1
  <2>2. CASE ~ Declares(fields.parent_name)
    <3>1. DOMAIN ParentOf(new) = cols /\ DOMAIN ParentOf(md) = cols /\ IsForest(ParentOf(md))
      BY <1>1 DEF ParentOf, WellLinked
    <3>2. \A c \in cols : ParentOf(new)[c] # NULL => ParentOf(new)[c] = ParentOf(md)[c]
      BY <1>1, <1>2, <1>3, <1>6, <2>2 DEF ParentOf
    <3> QED BY <1>1, <3>1, <3>2, FewerLinks
  <2> QED BY <2>1, <2>2
<1>14. ASSUME NEW c \in cols, new[c].parent_name # NULL \/ Children(ParentOf(new), c) # {}
       PROVE  new[c].is_categorical
  <2>1. Children(ParentOf(new), c) # {} =>
          Children(ParentOf(md), c) # {} \/ (Declares(fields.parent_name) /\ c = parent)
    <3> SUFFICES ASSUME NEW d \in Children(ParentOf(new), c)
                 PROVE  Children(ParentOf(md), c) # {} \/ (Declares(fields.parent_name) /\ c = parent)
      OBVIOUS
    <3>1. d \in cols /\ new[d].parent_name = c
      BY <1>1 DEF Children, ParentOf
    <3>2. md[d].parent_name = c => d \in Children(ParentOf(md), c)
      BY <3>1 DEF Children, ParentOf
    <3> QED BY <1>1, <1>2, <1>3, <1>6, <3>1, <3>2
  <2>2. CASE Declares(fields.parent_name) /\ c \in {column, parent}
    BY <1>11, <2>2
  <2>3. CASE ~ (Declares(fields.parent_name) /\ c \in {column, parent})
    <3>1. md[c].parent_name # NULL \/ Children(ParentOf(md), c) # {}
      BY <1>2, <1>3, <1>6, <1>14, <2>1, <2>3
    <3>2. md[c].is_categorical = TRUE
      BY <3>1 DEF WellLinked, MetadataRow
    <3>3. ~ (c = column /\ fields.is_categorical = FALSE)
      BY <1>2, <1>9, <1>14, <2>1, <2>3
    <3> QED BY <1>10, <3>2, <3>3
  <2> QED BY <2>2, <2>3
<1>15. ASSUME NEW l \in cols, new[l].label_for # NULL
       PROVE  /\ new[l].label_for # l
              /\ new[new[l].label_for].label_for = NULL
              /\ new[l].sql_type = "VARCHAR"
              /\ ~ new[l].is_primary_key
              /\ new[l].parent_name = NULL
  <2>1. CASE Declares(fields.label_for)
    <3> DEFINE pairs == [LabelFor(md) EXCEPT ![column] = code]
    <3>1. pairs = [c \in cols |-> new[c].label_for]
      BY <1>1, <1>2, <1>3 DEF LabelFor
    <3>2. l \in Declared(pairs) /\ pairs[l] = new[l].label_for
      BY <1>15, <3>1 DEF Declared
    <3> HIDE DEF pairs
    <3>3. /\ pairs[l] # l
          /\ pairs[l] \notin Declared(pairs)
          /\ Get(SqlType(md), l) = "VARCHAR"
          /\ l \notin get_primary_key_columns(md)
          /\ Get(ParentOf(md), l) = NULL
      BY <1>7, <2>1, <3>2 DEF validate_value_labels, pairs
    <3>4. md[l].sql_type = "VARCHAR" /\ ~ md[l].is_primary_key /\ md[l].parent_name = NULL
      BY <3>3 DEF Get, SqlType, ParentOf, get_primary_key_columns
    <3>5. new[l].label_for \in cols /\ new[new[l].label_for].label_for = NULL
      BY <1>12, <1>15, <3>1, <3>2, <3>3 DEF Declared
    <3>6. new[l].parent_name = NULL
      BY <1>2, <1>3, <1>7, <2>1, <3>4
    <3> QED BY <1>4, <3>2, <3>3, <3>4, <3>5, <3>6
  <2>2. CASE ~ Declares(fields.label_for)
    <3>1. md[l].label_for = new[l].label_for
      BY <1>2, <1>3, <1>8, <1>15, <2>2
    <3>2. /\ md[l].label_for \in cols /\ md[l].label_for # l
          /\ md[md[l].label_for].label_for = NULL
          /\ md[l].sql_type = "VARCHAR"
          /\ ~ md[l].is_primary_key
          /\ md[l].parent_name = NULL
      BY <1>15, <3>1 DEF WellLinked
    <3>3. new[md[l].label_for].label_for = NULL
      BY <1>2, <1>3, <1>8, <2>2, <3>2
    <3>4. new[l].parent_name = NULL
      BY <1>2, <1>3, <1>5, <1>6, <1>15, <3>2
    <3> QED BY <1>4, <3>1, <3>2, <3>3, <3>4
  <2> QED BY <2>1, <2>2
<1>16. WellLinked(new)
  BY <1>1, <1>12, <1>13, <1>14, <1>15 DEF WellLinked
<1> QED BY <1>16 DEF new

LEMMA AppliedLinks ==
  ASSUME NEW cols \in SUBSET Columns, NEW md \in [cols -> MetadataRow], WellLinked(md),
         NEW new \in SUBSET Columns, NEW declaration \in Declarations(new), NEW table,
         declaration_accepted(md, table, declaration)
  PROVE  WellLinked(apply_declaration(md, declaration))
<1>1. CASE declaration.column = NULL
  BY <1>1 DEF apply_declaration
<1>2. CASE declaration.column # NULL
  <2>1. declaration.column \in Columns /\ declaration.fields \in Fields
    BY <1>2, FieldsTyped DEF Declarations, NoDeclaration
  <2>2. metadata_update_accepted(md, table, declaration.column, declaration.fields)
    BY <1>2 DEF declaration_accepted
  <2>3. apply_declaration(md, declaration)
          = update_column_metadata(md, declaration.column, declaration.fields)
    BY <1>2 DEF apply_declaration
  <2> QED BY <2>1, <2>2, <2>3, UpdatedLinks
<1> QED BY <1>1, <1>2

\* A batch never changes the type of a text column.
LEMMA TextStaysText ==
  ASSUME NEW t \in AllSqlTypes
  PROVE  resolve_sql_type_conflict("VARCHAR", t) = "VARCHAR"
<1>1. SQL_TYPE_RANK["VARCHAR"] = <<4, 0>>
  BY DEF SQL_TYPE_RANK
<1>2. \A u \in OrderedTypes : u # "VARCHAR" =>
        ~ RankBelow(<<4, 0>>, SQL_TYPE_RANK[u]) /\ SQL_TYPE_RANK[u] # <<4, 0>>
  BY DEF OrderedTypes, SQL_TYPE_RANK, RankBelow
<1> HIDE DEF SQL_TYPE_RANK, OrderedTypes
<1> QED BY <1>1, <1>2 DEF resolve_sql_type_conflict

\* Two metadata tables with the same links and flags, whose text columns agree,
\* are well linked together.
LEMMA RetypedLinks ==
  ASSUME NEW cols, NEW md \in [cols -> MetadataRow], WellLinked(md),
         NEW resolved, \A c \in cols : md[c].sql_type = "VARCHAR" => resolved[c] = "VARCHAR"
  PROVE  WellLinked([c \in cols |-> [md[c] EXCEPT !.sql_type = resolved[c]]])
<1> DEFINE new == [c \in cols |-> [md[c] EXCEPT !.sql_type = resolved[c]]]
<1>1. DOMAIN new = cols
  OBVIOUS
<1>2. \A c \in cols : /\ new[c].parent_name = md[c].parent_name
                      /\ new[c].label_for = md[c].label_for
                      /\ new[c].is_primary_key = md[c].is_primary_key
                      /\ new[c].is_categorical = md[c].is_categorical
                      /\ md[c].sql_type = "VARCHAR" => new[c].sql_type = "VARCHAR"
  BY DEF MetadataRow
<1> HIDE DEF new
<1>3. ParentOf(new) = ParentOf(md)
  BY <1>1, <1>2 DEF ParentOf
<1>4. WellLinked(new)
  BY <1>1, <1>2, <1>3 DEF WellLinked
<1> QED BY <1>4 DEF new

LEMMA DetachedLinks ==
  ASSUME NEW cols \in SUBSET Columns, NEW md \in [cols -> MetadataRow], WellLinked(md),
         NEW dropped, NEW cascade \in BOOLEAN,
         cascade \/ \A c \in dropped \cap cols : Dependents(ParentOf(md), LabelFor(md), c) \subseteq dropped
  PROVE  WellLinked(metadata_without(md, dropped, cascade))
<1> DEFINE new == metadata_without(md, dropped, cascade)
           kept == cols \ dropped
<1>1. DOMAIN new = kept /\ NULL \notin kept
  BY DEF metadata_without
<1>2. \A c \in kept : /\ new[c].sql_type = md[c].sql_type
                      /\ new[c].is_primary_key = md[c].is_primary_key
                      /\ new[c].is_categorical = md[c].is_categorical
  BY DEF metadata_without
<1>3. \A c \in kept :
        /\ new[c].parent_name # NULL =>
             new[c].parent_name = md[c].parent_name /\ new[c].parent_name \in kept
        /\ new[c].label_for # NULL =>
             new[c].label_for = md[c].label_for /\ new[c].label_for \in kept
  <2> SUFFICES ASSUME NEW c \in kept
               PROVE  /\ new[c].parent_name # NULL =>
                           new[c].parent_name = md[c].parent_name /\ new[c].parent_name \in kept
                      /\ new[c].label_for # NULL =>
                           new[c].label_for = md[c].label_for /\ new[c].label_for \in kept
    OBVIOUS
  <2>1. /\ md[c].parent_name # NULL => md[c].parent_name \in cols
        /\ md[c].label_for # NULL => md[c].label_for \in cols
    BY DEF WellLinked
  <2>2. CASE cascade
    BY <2>1, <2>2 DEF metadata_without
  <2>3. CASE ~ cascade
    <3>1. new[c].parent_name = md[c].parent_name /\ new[c].label_for = md[c].label_for
      BY <2>3 DEF metadata_without
    <3>2. ASSUME NEW d \in cols, d = md[c].parent_name \/ d = md[c].label_for
          PROVE  d \notin dropped
      <4>1. c \in Dependents(ParentOf(md), LabelFor(md), d)
        BY <3>2 DEF Dependents, Children, ParentOf, LabelFor
      <4> QED BY <2>3, <4>1
    <3> QED BY <2>1, <3>1, <3>2
  <2> QED BY <2>2, <2>3
<1>4. \A c \in kept : md[c].label_for = NULL => new[c].label_for = NULL
  BY DEF metadata_without
<1>5. \A c \in kept : md[c].parent_name = NULL => new[c].parent_name = NULL
  BY DEF metadata_without
<1> HIDE DEF new
<1>6. IsForest(ParentOf(new))
  <2>1. DOMAIN ParentOf(new) = kept /\ DOMAIN ParentOf(md) = cols /\ IsForest(ParentOf(md))
    BY <1>1 DEF ParentOf, WellLinked
  <2>2. \A c \in kept : ParentOf(new)[c] # NULL => ParentOf(new)[c] = ParentOf(md)[c]
    BY <1>1, <1>3 DEF ParentOf
  <2> QED BY <1>1, <2>1, <2>2, FewerLinks
<1>7. \A c \in kept : new[c].parent_name # NULL \/ Children(ParentOf(new), c) # {} =>
        new[c].is_categorical
  <2> SUFFICES ASSUME NEW c \in kept, new[c].parent_name # NULL \/ Children(ParentOf(new), c) # {}
               PROVE  new[c].is_categorical
    OBVIOUS
  <2>1. Children(ParentOf(new), c) \subseteq Children(ParentOf(md), c)
    BY <1>1, <1>3 DEF Children, ParentOf
  <2> QED BY <1>2, <1>3, <2>1 DEF WellLinked
<1>8. ASSUME NEW l \in kept, new[l].label_for # NULL
      PROVE  /\ new[l].label_for # l
             /\ new[new[l].label_for].label_for = NULL
             /\ new[l].sql_type = "VARCHAR"
             /\ ~ new[l].is_primary_key
             /\ new[l].parent_name = NULL
  <2>1. /\ md[l].label_for # NULL /\ new[l].label_for = md[l].label_for
        /\ md[l].label_for \in kept
    BY <1>3, <1>8
  <2>2. /\ md[l].label_for # l
        /\ md[md[l].label_for].label_for = NULL
        /\ md[l].sql_type = "VARCHAR"
        /\ ~ md[l].is_primary_key
        /\ md[l].parent_name = NULL
    BY <2>1 DEF WellLinked
  <2> QED BY <1>2, <1>4, <1>5, <2>1, <2>2
<1>9. WellLinked(new)
  <2> HIDE DEF kept
  <2> QED BY <1>1, <1>3, <1>6, <1>7, <1>8 DEF WellLinked
<1> QED BY <1>9 DEF new

Linked ==
  /\ Shape
  /\ WellLinked(metadata)

LEMMA MetadataTyped ==
  ASSUME Shape
  PROVE  /\ metadata \in [DOMAIN fact_columns -> MetadataRow]
         /\ DOMAIN metadata = DOMAIN fact_columns
         /\ DOMAIN fact_columns \in SUBSET Columns
BY DEF Shape, TypeOK, MetadataDescribesFactTable

LEMMA BuiltLinks ==
  ASSUME NEW cols \in SUBSET Columns, NEW types \in [cols -> AllSqlTypes], NEW keys,
         NEW parents \in [cols -> Columns \cup {NULL}], NEW labels \in [cols -> Columns \cup {NULL}],
         resolved_links_accepted(types, keys, parents, labels)
  PROVE  WellLinked(create_metadata_table(types, keys, parents, labels))
<1> DEFINE new == create_metadata_table(types, keys, parents, labels)
<1>1. DOMAIN new = cols /\ NULL \notin cols
  BY DEF create_metadata_table
<1>2. \A c \in cols : /\ new[c].parent_name = parents[c]
                      /\ new[c].label_for = labels[c]
                      /\ new[c].sql_type = types[c]
                      /\ c \notin keys => ~ new[c].is_primary_key
                      /\ parents[c] # NULL \/ Children(parents, c) # {} => new[c].is_categorical
  BY DEF create_metadata_table
<1> HIDE DEF new
<1>3. ParentOf(new) = parents
  BY <1>1, <1>2 DEF ParentOf
<1>4. \A c \in cols : parents[c] # NULL => parents[c] \in cols
  BY DEF resolved_links_accepted, Declared
<1>5. ASSUME NEW l \in cols, labels[l] # NULL
      PROVE  /\ labels[l] \in cols /\ labels[l] # l /\ labels[labels[l]] = NULL
             /\ types[l] = "VARCHAR" /\ l \notin keys /\ parents[l] = NULL
  <2>1. l \in Declared(labels) /\ validate_value_labels(labels, types, keys, parents)
    BY <1>5 DEF Declared, resolved_links_accepted
  <2>2. /\ labels[l] \in cols /\ labels[l] # l /\ labels[l] \notin Declared(labels)
        /\ Get(types, l) = "VARCHAR" /\ l \notin keys /\ Get(parents, l) = NULL
    BY <2>1 DEF validate_value_labels
  <2> QED BY <2>2 DEF Get, Declared
<1>6. IsForest(parents)
  BY DEF resolved_links_accepted
<1>7. \A c \in cols :
        /\ new[c].parent_name # NULL => new[c].parent_name \in cols
        /\ new[c].label_for # NULL => new[c].label_for \in cols
  BY <1>2, <1>4, <1>5
<1>8. \A l \in cols : new[l].label_for # NULL =>
        /\ new[l].label_for # l
        /\ new[new[l].label_for].label_for = NULL
        /\ new[l].sql_type = "VARCHAR"
        /\ ~ new[l].is_primary_key
        /\ new[l].parent_name = NULL
  BY <1>2, <1>5
<1>9. \A c \in cols :
        new[c].parent_name # NULL \/ Children(ParentOf(new), c) # {} => new[c].is_categorical
  BY <1>2, <1>3
<1>10. IsForest(ParentOf(new))
  BY <1>3, <1>6
<1>11. WellLinked(new)
  BY <1>1, <1>7, <1>8, <1>9, <1>10 DEF WellLinked
<1> QED BY <1>11 DEF new

LEMMA InitLinked == Init => Linked
<1> SUFFICES ASSUME Init PROVE WellLinked(metadata)
  BY InitShape DEF Linked
<1>1. PICK cols \in SUBSET Columns, keys \in KeyChoices :
        /\ fact_columns \in Typings(cols)
        /\ \E parents \in LinksAmong(cols, ParentChoices), labels \in LinksAmong(cols, LabelChoices) :
             /\ resolved_links_accepted(fact_columns, keys, parents, labels)
             /\ metadata = create_metadata_table(fact_columns, keys, parents, labels)
  BY DEF Init
<1>2. PICK parents \in LinksAmong(cols, ParentChoices), labels \in LinksAmong(cols, LabelChoices) :
        /\ resolved_links_accepted(fact_columns, keys, parents, labels)
        /\ metadata = create_metadata_table(fact_columns, keys, parents, labels)
  BY <1>1
<1>3. parents \in [cols -> Columns \cup {NULL}] /\ labels \in [cols -> Columns \cup {NULL}]
  BY DEF LinksAmong
<1>4. fact_columns \in [cols -> AllSqlTypes]
  BY <1>1, TypingsTyped
<1> QED BY <1>2, <1>3, <1>4, BuiltLinks

\* What the two batch writes have in common: the metadata they declare is typed
\* and well linked.
LEMMA DescribedLinks ==
  ASSUME Linked, NEW cols \in SUBSET Columns, NEW types \in Typings(cols), NEW table,
         NEW new \in SUBSET Columns, NEW declaration \in Declarations(new),
         declaration_accepted(add_columns_to_metadata(metadata, WithNewColumns(cols, types)),
                              table, declaration)
  PROVE  LET described == apply_declaration(
                            add_columns_to_metadata(metadata, WithNewColumns(cols, types)),
                            declaration)
         IN  /\ described \in [DOMAIN fact_columns \cup cols -> MetadataRow]
             /\ WellLinked(described)
<1> DEFINE all == DOMAIN fact_columns \cup cols
           added == add_columns_to_metadata(metadata, WithNewColumns(cols, types))
<1>1. all \in SUBSET Columns /\ metadata \in [DOMAIN fact_columns -> MetadataRow]
  BY MetadataTyped DEF Linked
<1>2. WithNewColumns(cols, types) \in [all -> AllSqlTypes]
  BY TypingsTyped, WithNewColumnsTyped DEF Linked, Shape
<1>3. added \in [all -> MetadataRow] /\ WellLinked(added)
  BY <1>1, <1>2, AddedTyped, AddedLinks DEF Linked
<1> HIDE DEF all, added
<1>4. /\ apply_declaration(added, declaration) \in [all -> MetadataRow]
      /\ WellLinked(apply_declaration(added, declaration))
  BY <1>1, <1>3, AppliedTyped, AppliedLinks DEF added
<1> QED BY <1>4 DEF added, all

LEMMA UpdateDatabaseLinks ==
  ASSUME Linked, NEW cols \in SUBSET Columns, NEW batch, NEW types \in Typings(cols),
         NEW declaration \in Declarations(cols \ DOMAIN fact_columns),
         UpdateDatabase(cols, types, batch, declaration)
  PROVE  WellLinked(metadata')
<1> DEFINE all       == DOMAIN fact_columns \cup cols
           fact_cols == WithNewColumns(cols, types)
           described == apply_declaration(add_columns_to_metadata(metadata, fact_cols), declaration)
           resolved  == [c \in DOMAIN described |->
                           resolve_type_conflict(described[c].sql_type, batch, types, c)]
<1>1. described \in [all -> MetadataRow] /\ WellLinked(described)
  <2>1. declaration_accepted(add_columns_to_metadata(metadata, fact_cols),
                             Padded(rows, DOMAIN fact_cols), declaration)
    BY DEF UpdateDatabase
  <2>2. cols \ DOMAIN fact_columns \in SUBSET Columns
    OBVIOUS
  <2> QED BY <2>1, <2>2, DescribedLinks
<1>2. metadata' = [c \in DOMAIN described |-> [described[c] EXCEPT !.sql_type = resolved[c]]]
  BY DEF UpdateDatabase
<1>3. \A c \in all : described[c].sql_type = "VARCHAR" => resolved[c] = "VARCHAR"
  <2>1. types \in [cols -> AllSqlTypes]
    BY TypingsTyped
  <2> HIDE DEF described
  <2>2. \A c \in all : resolve_type_conflict("VARCHAR", batch, types, c) = "VARCHAR"
    BY <2>1, TextStaysText DEF resolve_type_conflict
  <2> QED BY <1>1, <2>2
<1> HIDE DEF described, resolved, all
<1>4. metadata' = [c \in all |-> [described[c] EXCEPT !.sql_type = resolved[c]]]
  BY <1>1, <1>2
<1>5. WellLinked([c \in all |-> [described[c] EXCEPT !.sql_type = resolved[c]]])
  BY <1>1, <1>3, RetypedLinks
<1> QED BY <1>4, <1>5

LEMMA AddColumnsLinks ==
  ASSUME Linked, NEW cols \in SUBSET Columns, NEW df, NEW types \in Typings(cols),
         NEW declaration \in Declarations(cols \ PrimaryKeys),
         AddColumns(cols, types, df, declaration)
  PROVE  WellLinked(metadata')
<1> DEFINE fact_cols == WithNewColumns(cols, types)
<1>1. declaration_accepted(add_columns_to_metadata(metadata, fact_cols),
                           Padded(rows, DOMAIN fact_cols), declaration)
  BY DEF AddColumns
<1>2. cols \ PrimaryKeys \in SUBSET Columns
  OBVIOUS
<1>3. metadata' = apply_declaration(add_columns_to_metadata(metadata, fact_cols), declaration)
  BY DEF AddColumns
<1> QED BY <1>1, <1>2, <1>3, DescribedLinks

LEMMA DropLinks ==
  ASSUME Linked, NEW dropped, NEW table, NEW cascade \in BOOLEAN,
         cascade \/ \A c \in dropped \cap DOMAIN metadata :
                      Dependents(ParentOf(metadata), LabelFor(metadata), c) \subseteq dropped,
         drop_columns_with_references(dropped, table, cascade)
  PROVE  WellLinked(metadata')
<1>1. metadata' = metadata_without(metadata, dropped, cascade)
  BY DEF drop_columns_with_references
<1> QED BY <1>1, MetadataTyped, DetachedLinks DEF Linked

LEMMA StepLinked == Linked /\ [Next]_vars => Linked'
<1> SUFFICES ASSUME Linked, [Next]_vars PROVE WellLinked(metadata')
  BY StepShape DEF Linked
<1>1. CASE UpdateDatabaseCall
  BY <1>1, UpdateDatabaseLinks DEF UpdateDatabaseCall
<1>2. CASE AddColumnsCall
  BY <1>2, AddColumnsLinks DEF AddColumnsCall
<1>3. CASE UpdateValueLabelsCall
  BY <1>3 DEF UpdateValueLabelsCall, UpdateValueLabels, Linked
<1>4. CASE DeleteRowsCall
  <2>1. PICK gone \in SUBSET rows, perform_cleanup \in BOOLEAN : DeleteRows(gone, perform_cleanup)
    BY <1>4 DEF DeleteRowsCall
  <2> DEFINE left    == rows \ gone
             dropped == IF perform_cleanup /\ gone # {} THEN null_only_columns_dropped(left) ELSE {}
  <2>2. \A c \in dropped : Dependents(ParentOf(metadata), LabelFor(metadata), c) \subseteq dropped
    BY DroppableClosed DEF null_only_columns_dropped
  <2>3. drop_columns_with_references(dropped, left, FALSE)
    BY <2>1 DEF DeleteRows
  <2> QED BY <2>2, <2>3, DropLinks
<1>5. CASE DeleteColumnsCall
  <2>1. PICK columns \in SUBSET DOMAIN fact_columns, cascade \in BOOLEAN :
          DeleteColumns(columns, cascade)
    BY <1>5 DEF DeleteColumnsCall
  <2> QED BY <2>1, DropLinks DEF DeleteColumns
<1>6. CASE UpdateColumnMetadataCall
  <2>1. PICK column \in DOMAIN metadata : \E fields \in MetadataFields(column) :
          UpdateColumnMetadata(column, fields)
    BY <1>6 DEF UpdateColumnMetadataCall
  <2>2. PICK fields \in MetadataFields(column) : UpdateColumnMetadata(column, fields)
    BY <2>1
  <2>3. column \in Columns /\ fields \in Fields
    BY MetadataTyped, FieldsTyped DEF Linked
  <2> QED BY <2>2, <2>3, MetadataTyped, UpdatedLinks DEF UpdateColumnMetadata, Linked
<1>7. CASE UpdateClusterByCall
  BY <1>7 DEF UpdateClusterByCall, UpdateClusterBy, Linked
<1>8. CASE UNCHANGED vars
  BY <1>8 DEF vars, Linked
<1> QED BY <1>1, <1>2, <1>3, <1>4, <1>5, <1>6, <1>7, <1>8 DEF Next

\* No drop, cascaded or not, and no cleanup leaves a link to a dropped column.
THEOREM LinksAlwaysResolve == Spec => []LinksResolve
<1>1. Linked => LinksResolve
  BY DEF Linked, WellLinked, LinksResolve
<1> QED BY <1>1, InitLinked, StepLinked, PTL DEF Spec

\* No sequence of declarations, one link at a time, closes a loop of parents.
THEOREM HierarchyStaysForest == Spec => []HierarchyIsForest
<1>1. Linked => HierarchyIsForest
  BY DEF Linked, WellLinked, HierarchyIsForest
<1> QED BY <1>1, InitLinked, StepLinked, PTL DEF Spec

\* Both ends of a parent link stay categorical.
THEOREM HierarchyStaysCategorical == Spec => []HierarchyIsCategorical
<1>1. Linked => HierarchyIsCategorical
  BY DEF Linked, WellLinked, HierarchyIsCategorical
<1> QED BY <1>1, InitLinked, StepLinked, PTL DEF Spec

\* A label column stays a text column, one level below its code and outside keys.
THEOREM LabelColumnsKeepShape == Spec => []LabelColumnShape
<1>1. Linked => LabelColumnShape
  BY DEF Linked, WellLinked, LabelColumnShape, Declared, LabelFor
<1> QED BY <1>1, InitLinked, StepLinked, PTL DEF Spec

-----------------------------------------------------------------------------
(* The sort key *)

LEMMA InitSortKey == Init => SortKeyAgrees
<1> SUFFICES ASSUME Init PROVE SortKeyAgrees
  OBVIOUS
<1>1. PICK cols \in SUBSET Columns, keys \in KeyChoices :
        /\ keys \subseteq cols
        /\ fact_columns \in Typings(cols)
        /\ cluster_by \in {keys} \cup {S \in SortKeyChoices : S \subseteq cols}
        /\ sorted_by = cluster_by
  BY DEF Init
<1>2. DOMAIN fact_columns = cols
  BY <1>1 DEF Typings
<1> QED BY <1>1, <1>2 DEF SortKeyAgrees

LEMMA DropSortKey ==
  ASSUME SortKeyAgrees, NEW dropped, NEW table, NEW cascade,
         drop_columns_with_references(dropped, table, cascade)
  PROVE  SortKeyAgrees'
<1>1. /\ cluster_by' = cluster_by \ dropped
      /\ sorted_by' = IF cluster_by \cap dropped # {} THEN cluster_by \ dropped ELSE sorted_by
      /\ DOMAIN fact_columns' = DOMAIN fact_columns \ dropped
  BY DEF drop_columns_with_references
<1> QED BY <1>1 DEF SortKeyAgrees

LEMMA StepSortKey == Linked /\ SortKeyAgrees /\ [Next]_vars => SortKeyAgrees'
<1> SUFFICES ASSUME Linked, SortKeyAgrees, [Next]_vars PROVE SortKeyAgrees'
  OBVIOUS
<1>1. ASSUME NEW cols \in SUBSET Columns, NEW types \in Typings(cols)
      PROVE  DOMAIN fact_columns \subseteq DOMAIN WithNewColumns(cols, types)
  BY DEF WithNewColumns
<1>2. CASE UpdateDatabaseCall
  BY <1>1, <1>2 DEF UpdateDatabaseCall, UpdateDatabase, SortKeyAgrees
<1>3. CASE AddColumnsCall
  BY <1>1, <1>3 DEF AddColumnsCall, AddColumns, SortKeyAgrees
<1>4. CASE UpdateValueLabelsCall
  BY <1>4 DEF UpdateValueLabelsCall, UpdateValueLabels, SortKeyAgrees
<1>5. CASE DeleteRowsCall
  BY <1>5, DropSortKey DEF DeleteRowsCall, DeleteRows
<1>6. CASE DeleteColumnsCall
  BY <1>6, DropSortKey DEF DeleteColumnsCall, DeleteColumns
<1>7. CASE UpdateColumnMetadataCall
  BY <1>7 DEF UpdateColumnMetadataCall, UpdateColumnMetadata, SortKeyAgrees
<1>8. CASE UpdateClusterByCall
  BY <1>8 DEF UpdateClusterByCall, UpdateClusterBy, SortKeyAgrees
<1>9. CASE UNCHANGED vars
  BY <1>9 DEF vars, SortKeyAgrees
<1> QED BY <1>2, <1>3, <1>4, <1>5, <1>6, <1>7, <1>8, <1>9 DEF Next

\* The recorded and the applied sort key agree, on columns that exist.
THEOREM SortKeysAgree == Spec => []SortKeyAgrees
BY InitLinked, StepLinked, InitSortKey, StepSortKey, PTL DEF Spec

-----------------------------------------------------------------------------
(* The primary key *)

\* A metadata table that describes the columns of another and flags the same keys.
SameKeyFlags(new, md) ==
  /\ DOMAIN md \subseteq DOMAIN new
  /\ \A c \in DOMAIN new :
       IF c \in DOMAIN md THEN new[c].is_primary_key <=> md[c].is_primary_key
       ELSE ~ new[c].is_primary_key

LEMMA SameKeys ==
  ASSUME NEW md, NEW new, SameKeyFlags(new, md)
  PROVE  get_primary_key_columns(new) = get_primary_key_columns(md)
BY DEF SameKeyFlags, get_primary_key_columns

LEMMA DescribedKeys ==
  ASSUME Shape, NEW cols \in SUBSET Columns, NEW types \in Typings(cols), NEW declaration
  PROVE  SameKeyFlags(apply_declaration(
                        add_columns_to_metadata(metadata, WithNewColumns(cols, types)),
                        declaration), metadata)
<1> DEFINE added     == add_columns_to_metadata(metadata, WithNewColumns(cols, types))
           described == apply_declaration(added, declaration)
<1>1. DOMAIN added = DOMAIN fact_columns \cup cols /\ DOMAIN metadata = DOMAIN fact_columns
  BY MetadataTyped DEF add_columns_to_metadata, WithNewColumns
<1>2. \A c \in DOMAIN added :
        IF c \in DOMAIN metadata THEN added[c].is_primary_key <=> metadata[c].is_primary_key
        ELSE ~ added[c].is_primary_key
  BY DEF add_columns_to_metadata, new_metadata_row
<1> HIDE DEF added
<1>3. DOMAIN described = DOMAIN added
      /\ \A c \in DOMAIN added : described[c].is_primary_key <=> added[c].is_primary_key
  BY DEF apply_declaration, update_column_metadata
<1> HIDE DEF described
<1>4. SameKeyFlags(described, metadata)
  BY <1>1, <1>2, <1>3 DEF SameKeyFlags
<1> QED BY <1>4 DEF described, added

LEMMA DropKeepsKeys ==
  ASSUME Shape, NEW dropped, dropped \cap PrimaryKeys = {}, NEW table, NEW cascade \in BOOLEAN,
         drop_columns_with_references(dropped, table, cascade)
  PROVE  PrimaryKeys' = PrimaryKeys
<1>1. metadata' = metadata_without(metadata, dropped, cascade)
  BY DEF drop_columns_with_references
<1>2. DOMAIN metadata' = DOMAIN metadata \ dropped
  BY <1>1 DEF metadata_without
<1>3. \A c \in DOMAIN metadata \ dropped : metadata'[c].is_primary_key = metadata[c].is_primary_key
  BY <1>1 DEF metadata_without
<1> QED BY <1>2, <1>3 DEF PrimaryKeys, get_primary_key_columns

\* The columns a cleanup drops are no keys.
LEMMA CleanupSparesKeys ==
  ASSUME NEW table
  PROVE  null_only_columns_dropped(table) \cap PrimaryKeys = {}
BY DEF null_only_columns_dropped, Droppable

LEMMA UpdateDatabaseKeys ==
  ASSUME Linked, NEW cols \in SUBSET Columns, NEW batch, NEW types \in Typings(cols),
         NEW declaration \in Declarations(cols \ DOMAIN fact_columns),
         UpdateDatabase(cols, types, batch, declaration)
  PROVE  PrimaryKeys' = PrimaryKeys
<1> DEFINE described == apply_declaration(
                          add_columns_to_metadata(metadata, WithNewColumns(cols, types)), declaration)
           resolved  == [c \in DOMAIN described |->
                           resolve_type_conflict(described[c].sql_type, batch, types, c)]
<1>1. metadata' = [c \in DOMAIN described |-> [described[c] EXCEPT !.sql_type = resolved[c]]]
  BY DEF UpdateDatabase
<1>2. SameKeyFlags(described, metadata)
  BY DescribedKeys DEF Linked
<1>3. described \in [DOMAIN fact_columns \cup cols -> MetadataRow]
  <2>1. cols \ DOMAIN fact_columns \in SUBSET Columns
    OBVIOUS
  <2>2. declaration_accepted(add_columns_to_metadata(metadata, WithNewColumns(cols, types)),
                             Padded(rows, DOMAIN WithNewColumns(cols, types)), declaration)
    BY DEF UpdateDatabase
  <2> QED BY <2>1, <2>2, DescribedLinks
<1> HIDE DEF described, resolved
<1>4. DOMAIN metadata' = DOMAIN described
      /\ \A c \in DOMAIN described : metadata'[c].is_primary_key = described[c].is_primary_key
  BY <1>1, <1>3 DEF MetadataRow
<1>5. get_primary_key_columns(metadata') = get_primary_key_columns(described)
  BY <1>4 DEF get_primary_key_columns
<1> QED BY <1>2, <1>5, SameKeys DEF PrimaryKeys

LEMMA StepKeys == Linked /\ [Next]_vars => PrimaryKeys' = PrimaryKeys
<1> SUFFICES ASSUME Linked, [Next]_vars PROVE PrimaryKeys' = PrimaryKeys
  OBVIOUS
<1>1. CASE UpdateDatabaseCall
  BY <1>1, UpdateDatabaseKeys DEF UpdateDatabaseCall
<1>2. CASE AddColumnsCall
  <2>1. \E cols \in SUBSET Columns : \E types \in Typings(cols) : \E declaration :
          metadata' = apply_declaration(
                        add_columns_to_metadata(metadata, WithNewColumns(cols, types)), declaration)
    BY <1>2 DEF AddColumnsCall, AddColumns
  <2>2. SameKeyFlags(metadata', metadata)
    BY <2>1, DescribedKeys DEF Linked
  <2> QED BY <2>2, SameKeys DEF PrimaryKeys
<1>3. CASE UpdateValueLabelsCall
  BY <1>3 DEF UpdateValueLabelsCall, UpdateValueLabels, PrimaryKeys
<1>4. CASE DeleteRowsCall
  <2>1. PICK dropped, left : /\ dropped \cap PrimaryKeys = {}
                             /\ drop_columns_with_references(dropped, left, FALSE)
    BY <1>4, CleanupSparesKeys DEF DeleteRowsCall, DeleteRows
  <2> QED BY <2>1, DropKeepsKeys DEF Linked
<1>5. CASE DeleteColumnsCall
  BY <1>5, DropKeepsKeys DEF DeleteColumnsCall, DeleteColumns, Linked
<1>6. CASE UpdateColumnMetadataCall
  <2>1. PICK column, fields : metadata' = update_column_metadata(metadata, column, fields)
    BY <1>6 DEF UpdateColumnMetadataCall, UpdateColumnMetadata
  <2>2. DOMAIN metadata' = DOMAIN metadata
        /\ \A c \in DOMAIN metadata : metadata'[c].is_primary_key = metadata[c].is_primary_key
    BY <2>1 DEF update_column_metadata
  <2> QED BY <2>2 DEF PrimaryKeys, get_primary_key_columns
<1>7. CASE UpdateClusterByCall
  BY <1>7 DEF UpdateClusterByCall, UpdateClusterBy, PrimaryKeys
<1>8. CASE UNCHANGED vars
  BY <1>8 DEF vars, PrimaryKeys
<1> QED BY <1>1, <1>2, <1>3, <1>4, <1>5, <1>6, <1>7, <1>8 DEF Next

\* No call changes which columns identify a row.
THEOREM KeysStay == Spec => KeysNeverChange
<1>1. Linked /\ [Next]_vars => [PrimaryKeys' = PrimaryKeys]_vars
  BY StepKeys
<1> QED BY <1>1, InitLinked, StepLinked, PTL DEF Spec, KeysNeverChange

(* Rows keep distinct keys *)

LEMMA PaddedUnique ==
  ASSUME NEW table, NEW cols, NEW keys \in SUBSET cols, UniqueOn(table, keys),
         \A r \in table : keys \subseteq DOMAIN r
  PROVE  UniqueOn(Padded(table, cols), keys)
<1> SUFFICES ASSUME NEW r \in table, NEW s \in table,
                    SameKey(padded_row(r, cols), padded_row(s, cols), keys)
             PROVE  padded_row(r, cols) = padded_row(s, cols)
  BY DEF UniqueOn, Padded
<1>1. \A k \in keys : padded_row(r, cols)[k] = r[k] /\ padded_row(s, cols)[k] = s[k]
  BY DEF padded_row
<1>2. r = s
  BY <1>1 DEF UniqueOn, SameKey
<1> QED BY <1>2

LEMMA UpsertUnique ==
  ASSUME NEW cols, NEW batch_cols \in SUBSET cols, NEW table, NEW batch \in SUBSET RowsOver(batch_cols),
         NEW keys, check_batch_keys(batch, batch_cols, keys),
         UniqueOn(table, keys), UniqueOn(batch, keys)
  PROVE  UniqueOn(upsert_fact_table(table, cols, batch, batch_cols, keys), keys)
<1> DEFINE upd(f)   == updated_row(f, cols, batch, batch_cols, keys)
           fresh    == unmatched_rows(table, batch, keys)
           inserted == Padded(fresh, cols)
<1>1. keys \subseteq batch_cols /\ \A t \in batch, k \in keys : t[k] # NULL
  BY DEF check_batch_keys
<1>2. \A f \in table, k \in keys : upd(f)[k] = f[k]
  BY <1>1 DEF updated_row
<1>3. fresh \subseteq batch
  BY DEF unmatched_rows
<1>4. \A t \in fresh : keys \subseteq DOMAIN t
  BY <1>1, <1>3 DEF RowsOver
<1>5. UniqueOn(inserted, keys)
  <2>1. UniqueOn(fresh, keys)
    BY <1>3 DEF UniqueOn
  <2> HIDE DEF fresh
  <2>2. keys \in SUBSET cols
    BY <1>1
  <2> QED BY <1>4, <2>1, <2>2, PaddedUnique
<1>6. ASSUME NEW f \in table, NEW t \in fresh
      PROVE  ~ SameKey(upd(f), padded_row(t, cols), keys)
  <2>1. \A k \in keys : padded_row(t, cols)[k] = t[k] /\ t[k] # NULL
    BY <1>1, <1>3, <1>4 DEF padded_row
  <2>2. ~ Matches(f, t, keys)
    BY DEF unmatched_rows
  <2> QED BY <1>2, <2>1, <2>2 DEF Matches, SameKey
<1>7. ASSUME NEW f \in table, NEW g \in table, SameKey(upd(f), upd(g), keys)
      PROVE  upd(f) = upd(g)
  <2>1. SameKey(f, g, keys)
    BY <1>2, <1>7 DEF SameKey
  <2> QED BY <2>1 DEF UniqueOn
<1>8. \A r, s : SameKey(r, s, keys) => SameKey(s, r, keys)
  BY DEF SameKey
<1>9. upsert_fact_table(table, cols, batch, batch_cols, keys) = {upd(f) : f \in table} \cup inserted
  BY DEF upsert_fact_table
<1> HIDE DEF upd
<1>10. \A r \in {upd(f) : f \in table}, s \in inserted : ~ SameKey(r, s, keys)
  BY <1>6 DEF Padded
<1>11. \A r, s \in {upd(f) : f \in table} : SameKey(r, s, keys) => r = s
  BY <1>7
<1> HIDE DEF inserted
<1>12. UniqueOn({upd(f) : f \in table} \cup inserted, keys)
  BY <1>5, <1>8, <1>10, <1>11 DEF UniqueOn
<1> QED BY <1>9, <1>12

Keyed ==
  /\ Linked
  /\ PrimaryKeyUnique

LEMMA InitKeyed == Init => PrimaryKeyUnique
<1> SUFFICES ASSUME Init PROVE PrimaryKeyUnique
  OBVIOUS
<1>1. PICK cols \in SUBSET Columns, keys \in KeyChoices :
        /\ keys \subseteq cols
        /\ fact_columns \in Typings(cols)
        /\ UniqueOn(rows, keys)
        /\ \E parents, labels : metadata = create_metadata_table(fact_columns, keys, parents, labels)
  BY DEF Init
<1>2. DOMAIN fact_columns = cols
  BY <1>1 DEF Typings
<1>3. DOMAIN metadata = cols
  BY <1>1, <1>2 DEF create_metadata_table
<1>4. \A c \in cols : /\ c \in keys => metadata[c].is_primary_key
                      /\ c \notin keys => ~ metadata[c].is_primary_key
  <2>1. PICK parents, labels : metadata = create_metadata_table(fact_columns, keys, parents, labels)
    BY <1>1
  <2>2. ASSUME NEW c \in cols
        PROVE  metadata[c].is_primary_key = (c \in keys)
    BY <1>2, <2>1 DEF create_metadata_table
  <2> QED BY <2>2
<1>5. PrimaryKeys = keys /\ keys # {}
  BY <1>1, <1>3, <1>4 DEF PrimaryKeys, get_primary_key_columns
<1> QED BY <1>1, <1>5 DEF PrimaryKeyUnique

\* The rows of a batch write, before the metadata is looked at.
LEMMA WrittenUnique ==
  ASSUME Keyed, NEW cols \in SUBSET Columns, NEW types \in Typings(cols),
         NEW batch \in SUBSET RowsOver(cols), check_batch_keys(batch, cols, PrimaryKeys),
         UniqueOn(batch, PrimaryKeys)
  PROVE  LET all == DOMAIN WithNewColumns(cols, types)
         IN  UniqueOn(upsert_fact_table(Padded(rows, all), all, batch, cols, PrimaryKeys),
                      PrimaryKeys)
<1> DEFINE all == DOMAIN fact_columns \cup cols
<1>1. DOMAIN WithNewColumns(cols, types) = all
  BY DEF WithNewColumns
<1>2. PrimaryKeys \subseteq DOMAIN fact_columns
  BY MetadataTyped DEF Keyed, Linked, PrimaryKeys, get_primary_key_columns
<1>3. \A r \in rows : PrimaryKeys \subseteq DOMAIN r
  BY <1>2 DEF Keyed, Linked, Shape, TypeOK, RowsOver
<1>4. UniqueOn(Padded(rows, all), PrimaryKeys)
  BY <1>2, <1>3, PaddedUnique DEF Keyed, PrimaryKeyUnique
<1>5. cols \in SUBSET all
  OBVIOUS
<1> HIDE DEF all
<1>6. UniqueOn(upsert_fact_table(Padded(rows, all), all, batch, cols, PrimaryKeys), PrimaryKeys)
  BY <1>4, <1>5, UpsertUnique
<1> QED BY <1>1, <1>6

LEMMA RelabelledUnique ==
  ASSUME Keyed, NEW label \in Declared(LabelFor(metadata)), NEW labels,
         UpdateValueLabels(label, labels)
  PROVE  UniqueOn(rows', PrimaryKeys)
<1> DEFINE rel(f) == relabelled_row(f, labels, metadata[label].label_for, label)
<1>1. rows' = {rel(f) : f \in rows}
  BY DEF UpdateValueLabels
<1>2. label \notin PrimaryKeys
  BY DEF Keyed, Linked, WellLinked, Declared, LabelFor, PrimaryKeys, get_primary_key_columns
<1>3. \A f \in rows, k \in PrimaryKeys : rel(f)[k] = f[k]
  BY <1>2 DEF relabelled_row
<1> HIDE DEF rel
<1>4. ASSUME NEW f \in rows, NEW g \in rows, SameKey(rel(f), rel(g), PrimaryKeys)
      PROVE  rel(f) = rel(g)
  <2>1. SameKey(f, g, PrimaryKeys)
    BY <1>3, <1>4 DEF SameKey
  <2> QED BY <2>1 DEF Keyed, PrimaryKeyUnique, UniqueOn
<1> QED BY <1>1, <1>4 DEF UniqueOn

LEMMA DropUnique ==
  ASSUME Keyed, NEW dropped, dropped \cap PrimaryKeys = {}, NEW table \in SUBSET rows,
         NEW cascade, drop_columns_with_references(dropped, table, cascade)
  PROVE  UniqueOn(rows', PrimaryKeys)
<1> DEFINE kept == DOMAIN fact_columns \ dropped
<1>1. rows' = {projected(r, kept) : r \in table}
  BY DEF drop_columns_with_references
<1>2. PrimaryKeys \subseteq kept
  BY MetadataTyped DEF Keyed, Linked, PrimaryKeys, get_primary_key_columns
<1>3. \A r \in rows, k \in PrimaryKeys : projected(r, kept)[k] = r[k]
  BY <1>2 DEF projected
<1> HIDE DEF kept
<1>4. ASSUME NEW r \in table, NEW s \in table,
             SameKey(projected(r, kept), projected(s, kept), PrimaryKeys)
      PROVE  projected(r, kept) = projected(s, kept)
  <2>1. SameKey(r, s, PrimaryKeys)
    BY <1>3, <1>4 DEF SameKey
  <2> QED BY <2>1 DEF Keyed, PrimaryKeyUnique, UniqueOn
<1> QED BY <1>1, <1>4 DEF UniqueOn

LEMMA StepKeyed == Keyed /\ [Next]_vars => Keyed'
<1> SUFFICES ASSUME Keyed, [Next]_vars PROVE UniqueOn(rows', PrimaryKeys)
  BY StepLinked, StepKeys DEF Keyed, PrimaryKeyUnique
<1>1. CASE UpdateDatabaseCall
  <2>1. PICK cols \in SUBSET Columns :
          \E batch \in DeduplicatedBatches(cols), types \in Typings(cols),
             declaration \in Declarations(cols \ DOMAIN fact_columns) :
            UpdateDatabase(cols, types, batch, declaration)
    BY <1>1 DEF UpdateDatabaseCall
  <2>2. PICK batch \in DeduplicatedBatches(cols), types \in Typings(cols),
             declaration \in Declarations(cols \ DOMAIN fact_columns) :
          UpdateDatabase(cols, types, batch, declaration)
    BY <2>1
  <2>3. batch \in SUBSET RowsOver(cols)
    BY BatchesAreRows
  <2> QED BY <2>2, <2>3, WrittenUnique DEF UpdateDatabase
<1>2. CASE AddColumnsCall
  <2>1. PICK cols \in SUBSET Columns :
          \E df \in SetsUpTo(RowsOver(cols), MaxBatch), types \in Typings(cols),
             declaration \in Declarations(cols \ PrimaryKeys) :
            AddColumns(cols, types, df, declaration)
    BY <1>2 DEF AddColumnsCall
  <2>2. PICK df \in SetsUpTo(RowsOver(cols), MaxBatch), types \in Typings(cols),
             declaration \in Declarations(cols \ PrimaryKeys) :
          AddColumns(cols, types, df, declaration)
    BY <2>1
  <2>3. df \in SUBSET RowsOver(cols)
    BY SetsUpToSubset
  <2> QED BY <2>2, <2>3, WrittenUnique DEF AddColumns
<1>3. CASE UpdateValueLabelsCall
  BY <1>3, RelabelledUnique DEF UpdateValueLabelsCall
<1>4. CASE DeleteRowsCall
  <2>1. PICK dropped, left :
          /\ left \in SUBSET rows
          /\ dropped \cap PrimaryKeys = {}
          /\ drop_columns_with_references(dropped, left, FALSE)
    BY <1>4, CleanupSparesKeys DEF DeleteRowsCall, DeleteRows
  <2> QED BY <2>1, DropUnique
<1>5. CASE DeleteColumnsCall
  BY <1>5, DropUnique DEF DeleteColumnsCall, DeleteColumns
<1>6. CASE UpdateColumnMetadataCall
  BY <1>6 DEF UpdateColumnMetadataCall, UpdateColumnMetadata, Keyed, PrimaryKeyUnique
<1>7. CASE UpdateClusterByCall
  BY <1>7 DEF UpdateClusterByCall, UpdateClusterBy, Keyed, PrimaryKeyUnique
<1>8. CASE UNCHANGED vars
  BY <1>8 DEF vars, Keyed, PrimaryKeyUnique
<1> QED BY <1>1, <1>2, <1>3, <1>4, <1>5, <1>6, <1>7, <1>8 DEF Next

\* No write creates a second row for a key, whether or not it checks afterwards,
\* and no relabelling or drop makes two rows coincide.
THEOREM KeysStayUnique == Spec => []PrimaryKeyUnique
<1>1. Init => Keyed
  BY InitLinked, InitKeyed DEF Keyed
<1>2. Keyed => PrimaryKeyUnique
  BY DEF Keyed
<1> QED BY <1>1, <1>2, StepKeyed, PTL DEF Spec
=============================================================================
