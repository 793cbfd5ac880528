-------------------------- MODULE ValuePairs_proofs --------------------------
(***************************************************************************)
(* The theorem that the code/label pairs of ResultSet hold on the whole    *)
(* fact table, although a write checks them only for the codes it touched. *)
(***************************************************************************)
EXTENDS ResultSet_proofs

-----------------------------------------------------------------------------
(* What the dependency check of a pair establishes *)

LEMMA CheckedCode ==
  ASSUME NEW table, NEW code, NEW label, NEW restrict_to,
         check_value_label_dependency(table, code, label, restrict_to),
         NEW r \in table, NEW s \in table, r[code] \in restrict_to, s[code] = r[code]
  PROVE  /\ r[code] = NULL => r[label] = NULL
         /\ r[label] = s[label]
BY DEF check_value_label_dependency

\* On all the codes of the table, it is the dependency.
LEMMA FullCheckDetermines ==
  ASSUME NEW table, NEW code, NEW label,
         check_value_label_dependency(table, code, label, ColumnValues(table, code))
  PROVE  Determines(table, code, label)
<1>1. \A r \in table : r[code] \in ColumnValues(table, code)
  BY DEF ColumnValues
<1> QED BY <1>1, CheckedCode DEF Determines

\* A table whose rows either hold a checked code or come from a table where the
\* pair held satisfies the pair.
LEMMA CheckCompletes ==
  ASSUME NEW table, NEW old, NEW code, NEW label, NEW restrict_to,
         check_value_label_dependency(table, code, label, restrict_to),
         Determines(old, code, label),
         \A r \in table : r[code] \in restrict_to \/ r \in old
  PROVE  Determines(table, code, label)
<1>1. ASSUME NEW r \in table, r[code] = NULL
      PROVE  r[label] = NULL
  <2>1. CASE r[code] \in restrict_to
    BY <1>1, <2>1, CheckedCode
  <2>2. CASE r \in old
    BY <1>1, <2>2 DEF Determines
  <2> QED BY <2>1, <2>2
<1>2. ASSUME NEW r \in table, NEW s \in table, r[code] = s[code]
      PROVE  r[label] = s[label]
  <2>1. CASE r[code] \in restrict_to
    BY <1>2, <2>1, CheckedCode
  <2>2. CASE r \in old /\ s \in old
    BY <1>2, <2>2 DEF Determines
  <2> QED BY <1>2, <2>1, <2>2
<1> QED BY <1>1, <1>2 DEF Determines

LEMMA ChecksEachPair ==
  ASSUME NEW table, NEW md, NEW batch, NEW keys, NEW touched,
         check_value_label_dependencies(table, md, batch, keys, touched),
         NEW l \in DOMAIN md, md[l].label_for # NULL,
         md[l].label_for \in touched \/ l \in touched
  PROVE  check_value_label_dependency(table, md[l].label_for, l,
                                      TouchedCodes(table, batch, keys, md[l].label_for))
<1> DEFINE labels == LabelFor(md)
           pairs  == get_value_label_columns(labels)
           code   == md[l].label_for
<1>1. l \in Declared(labels) /\ labels[l] = code
  BY DEF LabelFor, Declared
<1> HIDE DEF labels
<1>2. code \in DOMAIN pairs /\ l \in pairs[code]
  BY <1>1 DEF get_value_label_columns
<1>3. code \in touched \/ pairs[code] \cap touched # {}
  BY <1>2
<1> QED BY <1>2, <1>3 DEF check_value_label_dependencies, labels

-----------------------------------------------------------------------------
(* The operations on rows *)

\* New columns leave the pairs of the others alone.
LEMMA PaddedDetermines ==
  ASSUME NEW table, NEW code, NEW label, Determines(table, code, label), NEW cols,
         code \in cols, label \in cols, \A r \in table : code \in DOMAIN r /\ label \in DOMAIN r
  PROVE  Determines(Padded(table, cols), code, label)
<1>1. \A r \in table : /\ padded_row(r, cols)[code] = r[code]
                       /\ padded_row(r, cols)[label] = r[label]
  BY DEF padded_row
<1> QED BY <1>1 DEF Padded, Determines

\* A drop of other columns, and of any rows, leaves a pair alone.
LEMMA ProjectedDetermines ==
  ASSUME NEW old, NEW table \in SUBSET old, NEW code, NEW label, Determines(old, code, label),
         NEW kept, code \in kept, label \in kept
  PROVE  Determines({projected(r, kept) : r \in table}, code, label)
<1>1. \A r \in table : projected(r, kept)[code] = r[code] /\ projected(r, kept)[label] = r[label]
  BY DEF projected
<1> QED BY <1>1 DEF Determines

\* The rows an upsert leaves: an old row, unchanged, or one that matches the batch.
LEMMA UpsertedRows ==
  ASSUME NEW cols, NEW batch_cols \in SUBSET cols, NEW table \in SUBSET RowsOver(cols),
         NEW batch \in SUBSET RowsOver(batch_cols),
         NEW keys, check_batch_keys(batch, batch_cols, keys),
         NEW w \in upsert_fact_table(table, cols, batch, batch_cols, keys)
  PROVE  w \in table \/ \E t \in batch : Matches(w, t, keys)
<1>1. CASE \E f \in table : w = updated_row(f, cols, batch, batch_cols, keys)
  <2>1. PICK f \in table : w = updated_row(f, cols, batch, batch_cols, keys)
    BY <1>1
  <2>2. CASE ~ \E t \in batch : Matches(f, t, keys)
    BY <2>1, <2>2 DEF updated_row
  <2>3. CASE \E t \in batch : Matches(f, t, keys)
    <3>1. PICK t \in batch : Matches(f, t, keys)
      BY <2>3
    <3>2. \A k \in keys : w[k] = f[k]
      BY <2>1, <2>3 DEF updated_row, check_batch_keys
    <3> QED BY <3>1, <3>2 DEF Matches
  <2> QED BY <2>2, <2>3
<1>2. CASE \E t \in batch : w = padded_row(t, cols)
  <2>1. PICK t \in batch : w = padded_row(t, cols)
    BY <1>2
  <2>2. \A k \in keys : w[k] = t[k] /\ t[k] # NULL
    BY <2>1 DEF check_batch_keys, padded_row, RowsOver
  <2> QED BY <2>2 DEF Matches
<1>3. w \in {updated_row(f, cols, batch, batch_cols, keys) : f \in table}
        \/ w \in {padded_row(t, cols) : t \in batch}
  BY DEF upsert_fact_table, Padded, unmatched_rows
<1> QED BY <1>1, <1>2, <1>3

\* An upsert that writes neither column of a pair keeps it without any check.
LEMMA UntouchedPair ==
  ASSUME NEW cols, NEW batch_cols \in SUBSET cols, NEW table \in SUBSET RowsOver(cols),
         NEW batch \in SUBSET RowsOver(batch_cols), NEW keys,
         NEW code \in cols \ batch_cols, NEW label \in cols \ batch_cols,
         Determines(table, code, label)
  PROVE  Determines(upsert_fact_table(table, cols, batch, batch_cols, keys), code, label)
<1> DEFINE written == upsert_fact_table(table, cols, batch, batch_cols, keys)
<1>1. ASSUME NEW w \in written
      PROVE  \/ \E f \in table : w[code] = f[code] /\ w[label] = f[label]
             \/ w[code] = NULL /\ w[label] = NULL
  <2>1. CASE w \in {updated_row(f, cols, batch, batch_cols, keys) : f \in table}
    BY <2>1 DEF updated_row
  <2>2. CASE w \in {padded_row(t, cols) : t \in batch}
    BY <2>2 DEF padded_row, RowsOver
  <2> QED BY <2>1, <2>2 DEF upsert_fact_table, Padded, unmatched_rows
<1> HIDE DEF written
<1>2. Determines(written, code, label)
  BY <1>1 DEF Determines
<1> QED BY <1>2 DEF written

\* An upsert followed by the check of a pair it touches keeps the pair.
LEMMA UpsertDetermines ==
  ASSUME NEW cols, NEW batch_cols \in SUBSET cols, NEW table \in SUBSET RowsOver(cols),
         NEW batch \in SUBSET RowsOver(batch_cols),
         NEW keys, check_batch_keys(batch, batch_cols, keys),
         NEW code \in cols, NEW label \in cols, Determines(table, code, label),
         LET written == upsert_fact_table(table, cols, batch, batch_cols, keys)
         IN  code \in batch_cols \/ label \in batch_cols =>
               check_value_label_dependency(written, code, label,
                                            TouchedCodes(written, batch, keys, code))
  PROVE  Determines(upsert_fact_table(table, cols, batch, batch_cols, keys), code, label)
<1> DEFINE written == upsert_fact_table(table, cols, batch, batch_cols, keys)
           touched == TouchedCodes(written, batch, keys, code)
<1>1. CASE code \in batch_cols \/ label \in batch_cols
  <2>1. check_value_label_dependency(written, code, label, touched)
    BY <1>1
  <2>2. \A w \in written : w \in table \/ \E t \in batch : Matches(w, t, keys)
    BY UpsertedRows
  <2> HIDE DEF written
  <2>3. \A w \in written : w[code] \in touched \/ w \in table
    BY <2>2 DEF TouchedCodes
  <2> HIDE DEF touched
  <2>4. Determines(written, code, label)
    BY <2>1, <2>3, CheckCompletes
  <2> QED BY <2>4 DEF written
<1>2. CASE code \notin batch_cols /\ label \notin batch_cols
  BY <1>2, UntouchedPair
<1> QED BY <1>1, <1>2

\* A relabelling gives the listed codes one label each, and is checked for them.
LEMMA RelabelledDetermines ==
  ASSUME NEW cols, NEW table \in SUBSET RowsOver(cols), NEW labels,
         NEW code \in cols, NEW label \in cols, code # label, Determines(table, code, label),
         LET written == {relabelled_row(f, labels, code, label) : f \in table}
         IN  check_value_label_dependency(written, code, label, ColumnValues(labels, code))
  PROVE  Determines({relabelled_row(f, labels, code, label) : f \in table}, code, label)
<1> DEFINE written == {relabelled_row(f, labels, code, label) : f \in table}
           listed  == ColumnValues(labels, code)
<1>1. \A w \in written : w[code] \in listed \/ w \in table
  <2> SUFFICES ASSUME NEW f \in table, NEW w, w = relabelled_row(f, labels, code, label)
               PROVE  w[code] \in listed \/ w \in table
    OBVIOUS
  <2>1. CASE \E t \in labels : Matches(f, t, {code})
    <3>1. f[code] \in listed
      BY <2>1 DEF Matches, ColumnValues
    <3>2. w[code] = f[code]
      BY <2>1 DEF relabelled_row, RowsOver
    <3> QED BY <3>1, <3>2
  <2>2. CASE ~ \E t \in labels : Matches(f, t, {code})
    BY <2>2 DEF relabelled_row
  <2> QED BY <2>1, <2>2
<1>2. check_value_label_dependency(written, code, label, listed)
  OBVIOUS
<1> HIDE DEF written, listed
<1>3. Determines(written, code, label)
  BY <1>1, <1>2, CheckCompletes
<1> QED BY <1>3 DEF written

\* It leaves the pairs of the other label columns alone.
LEMMA OtherPairsStay ==
  ASSUME NEW cols, NEW table \in SUBSET RowsOver(cols), NEW labels, NEW listed, NEW label \in cols,
         NEW code, NEW other, code # label, other # label, Determines(table, code, other)
  PROVE  Determines({relabelled_row(f, labels, listed, label) : f \in table}, code, other)
<1>1. \A f \in table : /\ relabelled_row(f, labels, listed, label)[code] = f[code]
                       /\ relabelled_row(f, labels, listed, label)[other] = f[other]
  BY DEF relabelled_row, RowsOver
<1> QED BY <1>1 DEF Determines

-----------------------------------------------------------------------------
(* The steps *)

\* The pairs of a metadata table whose code is no key hold on a table.
HoldOn(md, table, keys) ==
  \A l \in DOMAIN md :
    md[l].label_for # NULL /\ md[l].label_for \notin keys
      => Determines(table, md[l].label_for, l)

Paired ==
  /\ Linked
  /\ HoldOn(metadata, rows, PrimaryKeys)

LEMMA PairedHolds == HoldOn(metadata, rows, PrimaryKeys) <=> ValuePairsHold
BY DEF HoldOn, ValuePairsHold, Declared, LabelFor

LEMMA InitPaired == Init => HoldOn(metadata, rows, PrimaryKeys)
<1> SUFFICES ASSUME Init, NEW l \in DOMAIN metadata, metadata[l].label_for # NULL
             PROVE  Determines(rows, metadata[l].label_for, l)
  BY DEF HoldOn
<1>1. PICK keys, parents, labels :
        /\ \A d \in Declared(labels) :
             check_value_label_dependency(rows, labels[d], d, ColumnValues(rows, labels[d]))
        /\ metadata = create_metadata_table(fact_columns, keys, parents, labels)
        /\ \E cols : labels \in LinksAmong(cols, LabelChoices) /\ fact_columns \in Typings(cols)
  BY DEF Init
<1>2. metadata[l].label_for = labels[l] /\ l \in DOMAIN labels
  BY <1>1 DEF create_metadata_table, LinksAmong, Typings
<1>3. l \in Declared(labels)
  BY <1>2 DEF Declared
<1> QED BY <1>1, <1>2, <1>3, FullCheckDetermines

\* What update_column_metadata declares, it has checked on the table.
LEMMA UpdatedPairs ==
  ASSUME NEW md, NEW table, NEW keys, HoldOn(md, table, keys),
         NEW column, NEW fields, metadata_update_accepted(md, table, column, fields)
  PROVE  HoldOn(update_column_metadata(md, column, fields), table, keys)
<1> DEFINE new == update_column_metadata(md, column, fields)
<1> SUFFICES ASSUME NEW l \in DOMAIN new, new[l].label_for # NULL, new[l].label_for \notin keys
             PROVE  Determines(table, new[l].label_for, l)
  BY DEF HoldOn
<1>1. l \in DOMAIN md
  BY DEF update_column_metadata
<1>2. new[l].label_for = IF l = column THEN Merge(fields.label_for, md[l].label_for)
                         ELSE md[l].label_for
  BY <1>1 DEF update_column_metadata
<1> HIDE DEF new
<1>3. CASE new[l].label_for = md[l].label_for
  BY <1>1, <1>3 DEF HoldOn
<1>4. CASE l = column /\ Declares(fields.label_for) /\ new[l].label_for = fields.label_for
  <2>1. check_value_label_dependency(table, fields.label_for, column,
                                     ColumnValues(table, fields.label_for))
    BY <1>4 DEF metadata_update_accepted, label_for_accepted
  <2> QED BY <1>4, <2>1, FullCheckDetermines
<1> QED BY <1>2, <1>3, <1>4 DEF Merge, Declares

\* The pairs a batch write declares, or finds, hold on the padded table.
LEMMA DescribedPairs ==
  ASSUME Paired, NEW cols \in SUBSET Columns, NEW types \in Typings(cols), NEW declaration,
         LET fact_cols == WithNewColumns(cols, types)
         IN  declaration_accepted(add_columns_to_metadata(metadata, fact_cols),
                                  Padded(rows, DOMAIN fact_cols), declaration)
  PROVE  LET fact_cols == WithNewColumns(cols, types)
         IN  HoldOn(apply_declaration(add_columns_to_metadata(metadata, fact_cols), declaration),
                    Padded(rows, DOMAIN fact_cols), PrimaryKeys)
<1> DEFINE fact_cols == WithNewColumns(cols, types)
           added     == add_columns_to_metadata(metadata, fact_cols)
           padded    == Padded(rows, DOMAIN fact_cols)
<1>1. DOMAIN fact_cols = DOMAIN fact_columns \cup cols /\ DOMAIN added = DOMAIN fact_cols
  BY DEF WithNewColumns, add_columns_to_metadata
<1>2. \A c \in DOMAIN added : added[c].label_for =
        IF c \in DOMAIN fact_columns THEN metadata[c].label_for ELSE NULL
  BY MetadataTyped DEF add_columns_to_metadata, new_metadata_row, Paired, Linked
<1>3. declaration_accepted(added, padded, declaration)
  OBVIOUS
<1>4. HoldOn(added, padded, PrimaryKeys)
  <2> SUFFICES ASSUME NEW l \in DOMAIN added, added[l].label_for # NULL,
                      added[l].label_for \notin PrimaryKeys
               PROVE  Determines(padded, added[l].label_for, l)
    BY DEF HoldOn
  <2> DEFINE code == metadata[l].label_for
  <2>1. l \in DOMAIN metadata /\ l \in DOMAIN fact_columns /\ added[l].label_for = code
    BY <1>2, MetadataTyped DEF Paired, Linked
  <2>2. code \in DOMAIN fact_columns
    BY <2>1, MetadataTyped DEF Paired, Linked, WellLinked
  <2>3. Determines(rows, code, l)
    BY <2>1 DEF Paired, HoldOn
  <2>4. \A r \in rows : DOMAIN r = DOMAIN fact_columns
    BY DEF Paired, Linked, Shape, TypeOK, RowsOver
  <2> HIDE DEF code, added, fact_cols
  <2>5. Determines(padded, code, l)
    BY <1>1, <2>1, <2>2, <2>3, <2>4, PaddedDetermines
  <2> QED BY <2>1, <2>5
<1> HIDE DEF added, padded
<1>5. HoldOn(apply_declaration(added, declaration), padded, PrimaryKeys)
  BY <1>3, <1>4, UpdatedPairs DEF apply_declaration, declaration_accepted
<1> QED BY <1>5 DEF added, padded

\* A batch write over described metadata, checked for the columns it touches.
LEMMA WrittenPairs ==
  ASSUME Paired, NEW cols \in SUBSET Columns, NEW types \in Typings(cols),
         NEW batch \in SUBSET RowsOver(cols), check_batch_keys(batch, cols, PrimaryKeys),
         NEW md, DOMAIN md = DOMAIN fact_columns \cup cols, WellLinked(md),
         NEW touched, cols \ PrimaryKeys \subseteq touched,
         get_primary_key_columns(md) = PrimaryKeys,
         LET all     == DOMAIN WithNewColumns(cols, types)
             written == upsert_fact_table(Padded(rows, all), all, batch, cols, PrimaryKeys)
         IN  /\ HoldOn(md, Padded(rows, all), PrimaryKeys)
             /\ check_value_label_dependencies(written, md, batch, PrimaryKeys, touched)
  PROVE  LET all == DOMAIN WithNewColumns(cols, types)
         IN  HoldOn(md, upsert_fact_table(Padded(rows, all), all, batch, cols, PrimaryKeys),
                    PrimaryKeys)
<1> DEFINE all     == DOMAIN fact_columns \cup cols
           padded  == Padded(rows, all)
           written == upsert_fact_table(padded, all, batch, cols, PrimaryKeys)
<1>1. DOMAIN WithNewColumns(cols, types) = all
  BY DEF WithNewColumns
<1>2. padded \in SUBSET RowsOver(all)
  BY PaddedTyped DEF Paired, Linked, Shape, TypeOK
<1>3. /\ HoldOn(md, padded, PrimaryKeys)
      /\ check_value_label_dependencies(written, md, batch, PrimaryKeys, touched)
  BY <1>1
<1>4. cols \in SUBSET all
  OBVIOUS
<1> HIDE DEF padded
<1>5. ASSUME NEW l \in DOMAIN md, md[l].label_for # NULL, md[l].label_for \notin PrimaryKeys
      PROVE  Determines(written, md[l].label_for, l)
  <2> DEFINE code == md[l].label_for
  <2>1. code \in all /\ l \in all /\ l \notin PrimaryKeys
    BY <1>5 DEF WellLinked, get_primary_key_columns
  <2>2. Determines(padded, code, l)
    BY <1>3, <1>5 DEF HoldOn
  <2>3. code \in cols \/ l \in cols => code \in touched \/ l \in touched
    BY <1>5, <2>1
  <2>4. code \in cols \/ l \in cols =>
          check_value_label_dependency(written, code, l,
                                       TouchedCodes(written, batch, PrimaryKeys, code))
    BY <1>3, <1>5, <2>3, ChecksEachPair
  <2> HIDE DEF code, all
  <2> QED BY <1>2, <1>4, <2>1, <2>2, <2>4, UpsertDetermines DEF code
<1>6. HoldOn(md, written, PrimaryKeys)
  BY <1>5 DEF HoldOn
<1> QED BY <1>1, <1>6 DEF padded

LEMMA UpdateDatabasePairs ==
  ASSUME Paired, NEW cols \in SUBSET Columns, NEW types \in Typings(cols),
         NEW batch \in SUBSET RowsOver(cols),
         NEW declaration \in Declarations(cols \ DOMAIN fact_columns),
         UpdateDatabase(cols, types, batch, declaration)
  PROVE  HoldOn(metadata', rows', PrimaryKeys)
<1> DEFINE fact_cols == WithNewColumns(cols, types)
           all       == DOMAIN fact_cols
           described == apply_declaration(add_columns_to_metadata(metadata, fact_cols), declaration)
           resolved  == [c \in DOMAIN described |->
                           resolve_type_conflict(described[c].sql_type, batch, types, c)]
           written   == upsert_fact_table(Padded(rows, all), all, batch, cols, PrimaryKeys)
<1>1. /\ check_batch_keys(batch, cols, PrimaryKeys)
      /\ declaration_accepted(add_columns_to_metadata(metadata, fact_cols),
                              Padded(rows, all), declaration)
      /\ check_value_label_dependencies(written, described, batch, PrimaryKeys, cols)
      /\ rows' = written
      /\ metadata' = [c \in DOMAIN described |-> [described[c] EXCEPT !.sql_type = resolved[c]]]
  BY DEF UpdateDatabase
<1>2. /\ described \in [DOMAIN fact_columns \cup cols -> MetadataRow]
      /\ WellLinked(described)
  <2>1. cols \ DOMAIN fact_columns \in SUBSET Columns
    OBVIOUS
  <2> QED BY <1>1, <2>1, DescribedLinks DEF Paired
<1>3. HoldOn(described, Padded(rows, all), PrimaryKeys)
  BY <1>1, DescribedPairs
<1>4. get_primary_key_columns(described) = PrimaryKeys
  BY DescribedKeys, SameKeys DEF Paired, Linked, PrimaryKeys
<1> HIDE DEF described, resolved
<1>5. HoldOn(described, written, PrimaryKeys)
  BY <1>1, <1>2, <1>3, <1>4, WrittenPairs
<1>6. DOMAIN metadata' = DOMAIN described
      /\ \A c \in DOMAIN described : metadata'[c].label_for = described[c].label_for
  BY <1>1, <1>2 DEF MetadataRow
<1> HIDE DEF written
<1> QED BY <1>1, <1>5, <1>6 DEF HoldOn

LEMMA AddColumnsPairs ==
  ASSUME Paired, NEW cols \in SUBSET Columns, NEW types \in Typings(cols),
         NEW df \in SUBSET RowsOver(cols),
         NEW declaration \in Declarations(cols \ PrimaryKeys),
         AddColumns(cols, types, df, declaration)
  PROVE  HoldOn(metadata', rows', PrimaryKeys)
<1> DEFINE fact_cols == WithNewColumns(cols, types)
           all       == DOMAIN fact_cols
           described == apply_declaration(add_columns_to_metadata(metadata, fact_cols), declaration)
           written   == upsert_fact_table(Padded(rows, all), all, df, cols, PrimaryKeys)
<1>1. /\ check_batch_keys(df, cols, PrimaryKeys)
      /\ declaration_accepted(add_columns_to_metadata(metadata, fact_cols),
                              Padded(rows, all), declaration)
      /\ check_value_label_dependencies(written, described, df, PrimaryKeys, cols \ PrimaryKeys)
      /\ rows' = written
      /\ metadata' = described
  BY DEF AddColumns
<1>2. /\ described \in [DOMAIN fact_columns \cup cols -> MetadataRow]
      /\ WellLinked(described)
  <2>1. cols \ PrimaryKeys \in SUBSET Columns
    OBVIOUS
  <2> QED BY <1>1, <2>1, DescribedLinks DEF Paired
<1>3. HoldOn(described, Padded(rows, all), PrimaryKeys)
  BY <1>1, DescribedPairs
<1>4. get_primary_key_columns(described) = PrimaryKeys
  BY DescribedKeys, SameKeys DEF Paired, Linked, PrimaryKeys
<1> HIDE DEF described
<1>5. HoldOn(described, written, PrimaryKeys)
  BY <1>1, <1>2, <1>3, <1>4, WrittenPairs
<1> HIDE DEF written
<1> QED BY <1>1, <1>5

LEMMA UpdateValueLabelsPairs ==
  ASSUME Paired, NEW label \in Declared(LabelFor(metadata)), NEW labels,
         UpdateValueLabels(label, labels)
  PROVE  HoldOn(metadata', rows', PrimaryKeys)
<1> DEFINE listed == metadata[label].label_for
           cols   == DOMAIN fact_columns
<1>1. /\ metadata' = metadata
      /\ rows' = {relabelled_row(f, labels, listed, label) : f \in rows}
      /\ check_value_label_dependency(rows', listed, label, ColumnValues(labels, listed))
  BY DEF UpdateValueLabels
<1>2. /\ rows \in SUBSET RowsOver(cols)
      /\ DOMAIN metadata = cols
      /\ label \in cols /\ listed # NULL /\ listed \in cols
  BY MetadataTyped DEF Paired, Linked, Shape, TypeOK, WellLinked, Declared, LabelFor
<1>3. \A l \in cols : metadata[l].label_for # NULL => metadata[l].label_for # label
  BY <1>2, MetadataTyped DEF Paired, Linked, WellLinked
<1> SUFFICES ASSUME NEW l \in cols, metadata[l].label_for # NULL,
                    metadata[l].label_for \notin PrimaryKeys
             PROVE  Determines(rows', metadata[l].label_for, l)
  BY <1>1, <1>2 DEF HoldOn
<1>4. Determines(rows, metadata[l].label_for, l)
  BY <1>2 DEF Paired, HoldOn
<1>5. CASE l = label
  <2>1. listed # label
    BY <1>2, <1>3
  <2> HIDE DEF cols
  <2> QED BY <1>1, <1>2, <1>4, <1>5, <2>1, RelabelledDetermines
<1>6. CASE l # label
  <2> HIDE DEF cols, listed
  <2> QED BY <1>1, <1>2, <1>3, <1>4, <1>6, OtherPairsStay
<1> QED BY <1>5, <1>6

LEMMA DropPairs ==
  ASSUME Paired, NEW dropped, NEW table \in SUBSET rows, NEW cascade \in BOOLEAN,
         cascade \/ \A c \in dropped \cap DOMAIN metadata :
                      Dependents(ParentOf(metadata), LabelFor(metadata), c) \subseteq dropped,
         drop_columns_with_references(dropped, table, cascade)
  PROVE  HoldOn(metadata', rows', PrimaryKeys)
<1> DEFINE kept == DOMAIN fact_columns \ dropped
<1>1. /\ metadata' = metadata_without(metadata, dropped, cascade)
      /\ rows' = {projected(r, kept) : r \in table}
  BY DEF drop_columns_with_references
<1>2. DOMAIN metadata = DOMAIN fact_columns
  BY MetadataTyped DEF Paired, Linked
<1>3. DOMAIN metadata' = kept
  BY <1>1, <1>2 DEF metadata_without
<1> SUFFICES ASSUME NEW l \in kept, metadata'[l].label_for # NULL,
                    metadata'[l].label_for \notin PrimaryKeys
             PROVE  Determines(rows', metadata'[l].label_for, l)
  BY <1>3 DEF HoldOn
<1> DEFINE code == metadata[l].label_for
<1>4. metadata'[l].label_for = code /\ ~ (cascade /\ code \in dropped)
  BY <1>1, <1>2 DEF metadata_without
<1>5. code \in DOMAIN fact_columns
  BY <1>2, <1>4 DEF Paired, Linked, WellLinked
<1>6. code \notin dropped
  <2> SUFFICES ASSUME code \in dropped, ~ cascade PROVE FALSE
    BY <1>4
  <2>1. l \in Dependents(ParentOf(metadata), LabelFor(metadata), code)
    BY <1>2 DEF Dependents, LabelFor
  <2> QED BY <1>2, <1>5, <2>1
<1>7. Determines(rows, code, l)
  BY <1>2, <1>4 DEF Paired, HoldOn
<1> HIDE DEF code
<1> QED BY <1>1, <1>4, <1>5, <1>6, <1>7, ProjectedDetermines

LEMMA StepPaired == Paired /\ [Next]_vars => Paired'
<1> SUFFICES ASSUME Paired, [Next]_vars PROVE HoldOn(metadata', rows', PrimaryKeys)
  BY StepLinked, StepKeys DEF Paired
<1>1. CASE UpdateDatabaseCall
  <2>1. PICK cols \in SUBSET Columns :
          \E batch \in DeduplicatedBatches(cols), types \in Typings(cols),
             declaration \in Declarations(cols \ DOMAIN fact_columns) :
            UpdateDatabase(cols, types, batch, declaration)
    BY <1>1 DEF UpdateDatabaseCall
  <2>2. PICK batch \in DeduplicatedBatches(cols), types \in Typings(cols),
             declaration \in Declarations(cols \ DOMAIN fact_columns) :
          UpdateDatabase(cols, types, batch, declaration)
    BY <2>1
  <2>3. batch \in SUBSET RowsOver(cols)
    BY BatchesAreRows
  <2> QED BY <2>2, <2>3, UpdateDatabasePairs
<1>2. CASE AddColumnsCall
  <2>1. PICK cols \in SUBSET Columns :
          \E df \in SetsUpTo(RowsOver(cols), MaxBatch), types \in Typings(cols),
             declaration \in Declarations(cols \ PrimaryKeys) :
            AddColumns(cols, types, df, declaration)
    BY <1>2 DEF AddColumnsCall
  <2>2. PICK df \in SetsUpTo(RowsOver(cols), MaxBatch), types \in Typings(cols),
             declaration \in Declarations(cols \ PrimaryKeys) :
          AddColumns(cols, types, df, declaration)
    BY <2>1
  <2>3. df \in SUBSET RowsOver(cols)
    BY SetsUpToSubset, ResultSetAssumption
  <2> QED BY <2>2, <2>3, AddColumnsPairs
<1>3. CASE UpdateValueLabelsCall
  BY <1>3, UpdateValueLabelsPairs DEF UpdateValueLabelsCall
<1>4. CASE DeleteRowsCall
  <2>1. PICK gone \in SUBSET rows, perform_cleanup \in BOOLEAN : DeleteRows(gone, perform_cleanup)
    BY <1>4 DEF DeleteRowsCall
  <2> DEFINE left    == rows \ gone
             dropped == IF perform_cleanup /\ gone # {} THEN null_only_columns_dropped(left) ELSE {}
  <2>2. \A c \in dropped : Dependents(ParentOf(metadata), LabelFor(metadata), c) \subseteq dropped
    BY DroppableClosed DEF null_only_columns_dropped
  <2>3. drop_columns_with_references(dropped, left, FALSE)
    BY <2>1 DEF DeleteRows
  <2> QED BY <2>2, <2>3, DropPairs
<1>5. CASE DeleteColumnsCall
  <2>1. PICK columns \in SUBSET DOMAIN fact_columns, cascade \in BOOLEAN :
          DeleteColumns(columns, cascade)
    BY <1>5 DEF DeleteColumnsCall
  <2> QED BY <2>1, DropPairs DEF DeleteColumns
<1>6. CASE UpdateColumnMetadataCall
  BY <1>6, UpdatedPairs DEF UpdateColumnMetadataCall, UpdateColumnMetadata, Paired
<1>7. CASE UpdateClusterByCall
  BY <1>7 DEF UpdateClusterByCall, UpdateClusterBy, Paired
<1>8. CASE UNCHANGED vars
  BY <1>8 DEF vars, Paired
<1> QED BY <1>1, <1>2, <1>3, <1>4, <1>5, <1>6, <1>7, <1>8 DEF Next

\* Checking after a write only the codes it touched is enough: for every choice of
\* columns, batches, declarations and drops, equal codes carry equal labels on the
\* whole fact table, as long as the code is not a primary key.
THEOREM PairsStay == Spec => []ValuePairsHold
<1>1. Init => Paired
  BY InitLinked, InitPaired DEF Paired
<1>2. Paired => ValuePairsHold
  BY PairedHolds DEF Paired
<1> QED BY <1>1, <1>2, StepPaired, PTL DEF Spec
=============================================================================
