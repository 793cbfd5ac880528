------------------------ MODULE SharedCatalog_proofs ------------------------
(***************************************************************************)
(* Theorems about SharedCatalog, for every set of processes, of calls and  *)
(* of earlier snapshots.                                                   *)
(***************************************************************************)
EXTENDS SharedCatalog, ValuePairs_proofs

-----------------------------------------------------------------------------
(* What one step lets the others see *)

\* The primary keys of the result set, which never change.
Keys == get_primary_key_columns(Built.metadata)

\* Two metadata tables are the same outside the rows of `columns`.
SameOutside(md, other, columns) ==
  \A x : x \notin columns =>
    /\ x \in DOMAIN md <=> x \in DOMAIN other
    /\ x \in DOMAIN md => md[x] = other[x]

\* What a step with this footprint and these kinds of change may do.
Moves(footprint, kinds) ==
  /\ ~ footprint.altered => fact_columns' = fact_columns /\ sorted_by' = sorted_by
                            /\ rows \ rows' \subseteq footprint.removed
  /\ ~ footprint.stamped => cluster_by' = cluster_by /\ fact_columns' = fact_columns
  /\ ~ footprint.stamped /\ "restored" \notin kinds =>
       rows' = rows /\ SqlType(metadata') = SqlType(metadata)
  /\ SameOutside(metadata', metadata, footprint.described)
  /\ Keys \cap footprint.described = {} => DOMAIN metadata' \subseteq DOMAIN metadata
  /\ "rows" \notin kinds => rows' = rows
  /\ "columns" \notin kinds => fact_columns' = fact_columns
  /\ "sort key" \notin kinds => cluster_by' = cluster_by
  /\ "links" \notin kinds =>
       ParentOf(metadata') = ParentOf(metadata) /\ LabelFor(metadata') = LabelFor(metadata)
  /\ "types" \notin kinds => SqlType(metadata') = SqlType(metadata)

\* What a process that runs sees of a step of another.
SeenBy(q, footprint, kinds) ==
  /\ DOMAIN proc'[q] = DOMAIN proc[q]
  /\ proc'[q].phase = proc[q].phase /\ proc'[q].call = proc[q].call
  /\ proc'[q].cleanup = proc[q].cleanup
  /\ proc'[q].read = proc[q].read /\ proc'[q].view = proc[q].view
  /\ proc[q].phase = "open" => proc'[q].written_since = Joined(proc[q].written_since, footprint)
  /\ proc[q].phase # "open" => proc'[q].written_since = proc[q].written_since
  /\ proc[q].phase # "idle" => proc'[q].beside = proc[q].beside \cup kinds

Fields_of_proc == {"phase", "call", "cleanup", "read", "view", "written_since", "beside"}

LEMMA IdleFields == DOMAIN Idle = Fields_of_proc
BY DEF Idle, Fields_of_proc

LEMMA StepSeen ==
  ASSUME NEW p \in Processes, NEW q \in Processes, q # p, NEW next, NEW footprint, NEW kinds,
         DOMAIN proc[q] = Fields_of_proc, Step(p, next, footprint, kinds)
  PROVE  SeenBy(q, footprint, kinds)
<1>1. proc'[q] = CASE proc[q].phase = "idle" -> proc[q]
                   [] proc[q].phase = "open" ->
                        [proc[q] EXCEPT !.written_since = Joined(@, footprint),
                                        !.beside = @ \cup kinds]
                   [] OTHER -> [proc[q] EXCEPT !.beside = @ \cup kinds]
  BY Zenon DEF Step
<1>2. CASE proc[q].phase = "idle"
  <2>1. proc'[q] = proc[q]
    BY <1>1, <1>2
  <2> QED BY <1>2, <2>1 DEF SeenBy
<1>3. CASE proc[q].phase = "open"
  <2>1. proc'[q] = [proc[q] EXCEPT !.written_since = Joined(@, footprint), !.beside = @ \cup kinds]
    BY <1>1, <1>3
  <2> QED BY <1>3, <2>1 DEF SeenBy, Fields_of_proc
<1>4. CASE proc[q].phase \notin {"idle", "open"}
  <2>1. proc'[q] = [proc[q] EXCEPT !.beside = @ \cup kinds]
    BY <1>1, <1>4
  <2> QED BY <1>4, <2>1 DEF SeenBy, Fields_of_proc
<1> QED BY <1>2, <1>3, <1>4

LEMMA StepTaken ==
  ASSUME NEW p \in Processes, NEW next, NEW footprint, NEW kinds, Step(p, next, footprint, kinds)
  PROVE  proc'[p] = next /\ DOMAIN proc' = Processes
BY DEF Step

-----------------------------------------------------------------------------
(* What a process knows of the current snapshot *)

\* A snapshot with its types and its keys.
TypedSnapshot(s) ==
  /\ DOMAIN s.fact_columns \subseteq Columns
  /\ s.fact_columns \in [DOMAIN s.fact_columns -> AllSqlTypes]
  /\ s.rows \subseteq RowsOver(DOMAIN s.fact_columns)
  /\ s.metadata \in [DOMAIN s.metadata -> MetadataRow]
  /\ DOMAIN s.metadata \subseteq Columns /\ IsFiniteSet(DOMAIN s.metadata)
  /\ s.cluster_by \subseteq Columns /\ s.sorted_by \subseteq Columns
  /\ get_primary_key_columns(s.metadata) = Keys
  /\ Keys \subseteq DOMAIN s.fact_columns

\* The snapshot a transaction reads is the current one, but for what the others have
\* written since.
Sees(q) ==
  LET view   == proc[q].view
      since  == proc[q].written_since
      beside == proc[q].beside
  IN  /\ TypedSnapshot(view)
      /\ ~ since.altered => fact_columns = view.fact_columns /\ sorted_by = view.sorted_by
                            /\ view.rows \ rows \subseteq since.removed
      /\ ~ since.stamped => cluster_by = view.cluster_by /\ fact_columns = view.fact_columns
      /\ ~ since.stamped /\ "restored" \notin beside =>
           rows = view.rows /\ SqlType(metadata) = SqlType(view.metadata)
      /\ SameOutside(metadata, view.metadata, since.described)
      /\ Keys \cap since.described = {} => DOMAIN metadata \subseteq DOMAIN view.metadata
      /\ "rows" \notin beside => rows = view.rows
      /\ "columns" \notin beside => fact_columns = view.fact_columns
      /\ "links" \notin beside => ParentOf(metadata) = ParentOf(view.metadata)
                                  /\ LabelFor(metadata) = LabelFor(view.metadata)

\* The checks of update_column_metadata, on some rows.
Acceptable(md, column, fields) == \E table : metadata_update_accepted(md, table, column, fields)

\* What its checks have read still holds, unless it has changed beside.
HasRead(q) ==
  LET call   == Calls[proc[q].call]
      read   == proc[q].read
      beside == proc[q].beside
  IN  /\ Op(q) = "update_database" =>
           check_batch_keys(call.batch, DOMAIN call.types, Keys) /\ UniqueOn(call.batch, Keys)
      /\ Op(q) = "delete_columns" => call.columns \cap Keys = {}
      /\ Op(q) = "delete_columns" /\ ~ call.cascade /\ "links" \notin beside =>
           \A c \in call.columns : Dependents(ParentOf(metadata), LabelFor(metadata), c) = {}
      /\ Op(q) = "update_column_metadata" /\ beside \cap {"links", "types"} = {} =>
           Acceptable(metadata, call.column, call.fields)
      /\ Op(q) = "update_column_metadata" /\ Declares(call.fields.label_for) /\ "rows" \notin beside =>
           Determines(rows, call.fields.label_for, call.column)
      /\ Op(q) = "recluster" /\ "sort key" \notin beside => read.sort_columns = cluster_by
      /\ Op(q) = "recluster" => read.sort_columns \subseteq Columns /\ read.realign \in BOOLEAN
      /\ Op(q) = "restore_snapshot" =>
           /\ read \in History
           /\ "fact_table" \in call.tables /\ "columns" \notin beside =>
                fact_columns = read.fact_columns

Phases == {"idle", "checked", "open", "child", "parent"}

\* Where a process is in its call.
Running(q) ==
  /\ DOMAIN proc[q] = Fields_of_proc
  /\ proc[q].phase \in Phases
  /\ proc[q].call \in DOMAIN Calls \cup {NULL}
  /\ proc[q].phase # "idle" => proc[q].call \in DOMAIN Calls
  /\ proc[q].cleanup => Op(q) = "delete_rows"
  /\ proc[q].cleanup \in BOOLEAN
  /\ proc[q].phase = "checked" => proc[q].written_since = NoFootprint
  /\ proc[q].phase = "open" => Op(q) # "update_column_metadata"
  /\ proc[q].phase \in {"child", "parent"} =>
       Op(q) = "update_column_metadata" /\ Declares(Calls[proc[q].call].fields.parent_name)

Follows(q) ==
  /\ Running(q)
  /\ proc[q].phase \in {"checked", "open"} => HasRead(q)
  /\ proc[q].phase = "open" => Sees(q)

\* The inductive invariant on which the others build.
Followed ==
  /\ TypedSnapshot(Snapshot)
  /\ called \subseteq DOMAIN Calls
  /\ \A q \in Processes : Follows(q)

LEMMA SnapshotFields ==
  /\ Snapshot.fact_columns = fact_columns /\ Snapshot.rows = rows /\ Snapshot.metadata = metadata
  /\ Snapshot.cluster_by = cluster_by /\ Snapshot.sorted_by = sorted_by
BY DEF Snapshot

LEMMA SnapshotFieldsNext ==
  /\ Snapshot'.fact_columns = fact_columns' /\ Snapshot'.rows = rows'
  /\ Snapshot'.metadata = metadata'
  /\ Snapshot'.cluster_by = cluster_by' /\ Snapshot'.sorted_by = sorted_by'
BY DEF Snapshot

LEMMA SameOutsideJoined ==
  ASSUME NEW a, NEW b, NEW c, NEW S, NEW T, SameOutside(a, b, S), SameOutside(b, c, T)
  PROVE  SameOutside(a, c, S \cup T)
BY DEF SameOutside

LEMMA SeesOn ==
  ASSUME NEW q \in Processes, NEW footprint, NEW kinds, proc[q].phase = "open",
         Sees(q), SeenBy(q, footprint, kinds), Moves(footprint, kinds)
  PROVE  Sees(q)'
<1> DEFINE view   == proc[q].view
           since  == proc[q].written_since
           beside == proc[q].beside
           later  == Joined(since, footprint)
<1>1. /\ proc'[q].view = view
      /\ proc'[q].written_since = later
      /\ proc'[q].beside = beside \cup kinds
  BY DEF SeenBy
<1>2. /\ later.removed = since.removed \cup footprint.removed
      /\ later.described = since.described \cup footprint.described
      /\ later.stamped = (since.stamped \/ footprint.stamped)
      /\ later.altered = (since.altered \/ footprint.altered)
  BY DEF Joined
<1> HIDE DEF later
<1>3. TypedSnapshot(view)
  BY DEF Sees
<1>4. ~ later.altered => fact_columns' = view.fact_columns /\ sorted_by' = view.sorted_by
                            /\ view.rows \ rows' \subseteq later.removed
  BY <1>2 DEF Sees, Moves
<1>5. ~ later.stamped => cluster_by' = view.cluster_by /\ fact_columns' = view.fact_columns
  BY <1>2 DEF Sees, Moves
<1>6. ~ later.stamped /\ "restored" \notin beside \cup kinds =>
        rows' = view.rows /\ SqlType(metadata') = SqlType(view.metadata)
  BY <1>2 DEF Sees, Moves
<1>10. Keys \cap later.described = {} => DOMAIN metadata' \subseteq DOMAIN view.metadata
  BY <1>2 DEF Sees, Moves
<1>7. SameOutside(metadata', view.metadata, later.described)
  <2>1. SameOutside(metadata', metadata, footprint.described)
    BY DEF Moves
  <2>2. SameOutside(metadata, view.metadata, since.described)
    BY DEF Sees
  <2>3. later.described = footprint.described \cup since.described
    BY <1>2
  <2> HIDE DEF since, view
  <2> QED BY <2>1, <2>2, <2>3, SameOutsideJoined
<1>8. /\ "rows" \notin beside \cup kinds => rows' = view.rows
      /\ "columns" \notin beside \cup kinds => fact_columns' = view.fact_columns
  BY DEF Sees, Moves
<1>9. "links" \notin beside \cup kinds => ParentOf(metadata') = ParentOf(view.metadata)
                                  /\ LabelFor(metadata') = LabelFor(view.metadata)
  BY DEF Sees, Moves
<1> QED BY <1>1, <1>3, <1>4, <1>5, <1>6, <1>7, <1>8, <1>9, <1>10 DEF Sees

LEMMA AcceptableAs ==
  ASSUME NEW md, NEW other, NEW column, NEW fields, Acceptable(md, column, fields),
         ParentOf(other) = ParentOf(md), LabelFor(other) = LabelFor(md),
         SqlType(other) = SqlType(md),
         get_primary_key_columns(other) = get_primary_key_columns(md)
  PROVE  Acceptable(other, column, fields)
<1>1. PICK table : metadata_update_accepted(md, table, column, fields)
  BY DEF Acceptable
<1>2. DOMAIN other = DOMAIN md
  BY DEF ParentOf
<1>3. column \in DOMAIN md
  BY <1>1 DEF metadata_update_accepted
<1>4. other[column].parent_name = md[column].parent_name /\ other[column].label_for = md[column].label_for
  BY <1>2, <1>3 DEF ParentOf, LabelFor
<1>5. /\ parent_name_accepted(md, column, fields) => parent_name_accepted(other, column, fields)
      /\ label_for_accepted(md, table, column, fields) => label_for_accepted(other, table, column, fields)
      /\ is_categorical_accepted(md, column, fields) => is_categorical_accepted(other, column, fields)
  BY <1>2, <1>4 DEF parent_name_accepted, label_for_accepted, is_categorical_accepted
<1>6. metadata_update_accepted(other, table, column, fields)
  BY <1>1, <1>2, <1>5 DEF metadata_update_accepted
<1> QED BY <1>6 DEF Acceptable

LEMMA HasReadOn ==
  ASSUME TypedSnapshot(Snapshot), TypedSnapshot(Snapshot)',
         NEW q \in Processes, NEW footprint, NEW kinds, proc[q].phase \in {"checked", "open"},
         HasRead(q), SeenBy(q, footprint, kinds), Moves(footprint, kinds)
  PROVE  HasRead(q)'
<1>1. /\ proc'[q].call = proc[q].call
      /\ proc'[q].read = proc[q].read
      /\ proc'[q].beside = proc[q].beside \cup kinds
  BY DEF SeenBy
<1>2. Op(q)' = Op(q)
  BY <1>1 DEF Op
<1>3. /\ "columns" \notin kinds => fact_columns' = fact_columns
      /\ "sort key" \notin kinds => cluster_by' = cluster_by
      /\ "rows" \notin kinds => rows' = rows
      /\ "types" \notin kinds => SqlType(metadata') = SqlType(metadata)
      /\ "links" \notin kinds =>
           ParentOf(metadata') = ParentOf(metadata) /\ LabelFor(metadata') = LabelFor(metadata)
  BY DEF Moves
<1>4. get_primary_key_columns(metadata') = get_primary_key_columns(metadata)
  BY SnapshotFields, SnapshotFieldsNext DEF TypedSnapshot
<1> DEFINE call == Calls[proc[q].call]
<1>5. Acceptable(metadata, call.column, call.fields) /\ kinds \cap {"links", "types"} = {} =>
        Acceptable(metadata', call.column, call.fields)
  BY <1>3, <1>4, AcceptableAs
<1>6. (proc[q].beside \cup kinds) \cap {"links", "types"} = {} =>
        proc[q].beside \cap {"links", "types"} = {} /\ kinds \cap {"links", "types"} = {}
  OBVIOUS
<1>7. Op(q) = "delete_columns" /\ ~ call.cascade /\ "links" \notin proc[q].beside \cup kinds =>
        \A c \in call.columns : Dependents(ParentOf(metadata'), LabelFor(metadata'), c) = {}
  BY <1>3 DEF HasRead
<1>8. Op(q) = "update_column_metadata" /\ (proc[q].beside \cup kinds) \cap {"links", "types"} = {} =>
        Acceptable(metadata', call.column, call.fields)
  BY <1>5, <1>6 DEF HasRead
<1>9. Op(q) = "update_column_metadata" /\ Declares(call.fields.label_for)
        /\ "rows" \notin proc[q].beside \cup kinds =>
      Determines(rows', call.fields.label_for, call.column)
  BY <1>3 DEF HasRead
<1>10. HasRead(q)
  OBVIOUS
<1> QED BY <1>1, <1>2, <1>3, <1>7, <1>8, <1>9, <1>10 DEF HasRead

LEMMA RunningOn ==
  ASSUME NEW q \in Processes, NEW footprint, NEW kinds, Running(q), SeenBy(q, footprint, kinds)
  PROVE  Running(q)'
<1>1. Op(q)' = Op(q)
  BY DEF SeenBy, Op
<1> QED BY <1>1 DEF Running, SeenBy

-----------------------------------------------------------------------------
(* What a transaction may write *)

\* A change made to `view` keeps types and keys, and writes the table it alters as
\* a whole.
TypedChange(change, view) ==
  /\ change.fact_columns \in [DOMAIN change.fact_columns -> AllSqlTypes]
  /\ DOMAIN change.fact_columns \subseteq DOMAIN view.fact_columns
  /\ Keys \subseteq DOMAIN change.fact_columns
  /\ change.inserted \subseteq RowsOver(DOMAIN view.fact_columns)
  /\ change.described \in [DOMAIN change.described -> MetadataRow]
  /\ DOMAIN change.described \subseteq Columns /\ IsFiniteSet(DOMAIN change.described)
  /\ \A x \in DOMAIN change.described : change.described[x].is_primary_key <=> x \in Keys
  /\ Keys \cap change.undescribed \subseteq DOMAIN change.described
  /\ DOMAIN change.described \subseteq DOMAIN view.metadata \/ Keys \subseteq DOMAIN change.described
  /\ change.cluster_by \subseteq Columns /\ change.sorted_by \subseteq Columns
  /\ change.stamped \in BOOLEAN /\ change.altered \in BOOLEAN
  /\ ~ change.stamped => change.fact_columns = view.fact_columns
  /\ change.removed \subseteq view.rows

\* Without the stamp only a restore changes rows or metadata: a recluster puts back
\* all it deletes.
KeepsRows(change, view) ==
  ~ change.stamped =>
    /\ \/ change.removed = {} /\ change.inserted = {}
       \/ change.removed = view.rows /\ change.inserted = view.rows
    /\ change.undescribed = {} /\ DOMAIN change.described = {}

LEMMA KeyRows ==
  ASSUME NEW s, TypedSnapshot(s)
  PROVE  /\ Keys \subseteq DOMAIN s.metadata
         /\ DOMAIN s.metadata \subseteq Columns /\ IsFiniteSet(DOMAIN s.metadata)
         /\ \A x \in DOMAIN s.metadata : s.metadata[x].is_primary_key <=> x \in Keys
         /\ \A x \in DOMAIN s.metadata : s.metadata[x] \in MetadataRow
BY DEF TypedSnapshot, get_primary_key_columns

LEMMA NothingDescribed ==
  /\ << >> \in [DOMAIN << >> -> MetadataRow]
  /\ DOMAIN << >> = {} /\ IsFiniteSet(DOMAIN << >>)
<1>1. DOMAIN << >> = {}
  OBVIOUS
<1> QED BY <1>1, FS_EmptySet

LEMMA NoChangeTyped ==
  ASSUME NEW view, TypedSnapshot(view)
  PROVE  TypedChange(NoChange(view), view)
BY NothingDescribed DEF NoChange, TypedChange, TypedSnapshot

\* update_database: the types it resolves, the columns it retypes, the table it writes.
Resolved(view, call) ==
  [c \in DOMAIN view.metadata |->
     resolve_type_conflict(view.metadata[c].sql_type, call.batch, call.types, c)]
RetypedColumns(view, call) ==
  {c \in DOMAIN call.types \cap DOMAIN Resolved(view, call) :
     Resolved(view, call)[c] # view.metadata[c].sql_type}
WrittenRows(view, call) ==
  upsert_fact_table(view.rows, DOMAIN view.fact_columns, call.batch, DOMAIN call.types,
                    get_primary_key_columns(view.metadata))

Updates(change, view, call) ==
  LET resolved == Resolved(view, call)
      retyped  == RetypedColumns(view, call)
      written  == WrittenRows(view, call)
  IN  /\ DOMAIN call.types \subseteq DOMAIN view.fact_columns
      /\ change.stamped = TRUE /\ change.altered = (retyped # {})
      /\ change.removed = view.rows \ written /\ change.inserted = written \ view.rows
      /\ change.fact_columns = [c \in DOMAIN view.fact_columns |->
                                  IF c \in retyped THEN resolved[c] ELSE view.fact_columns[c]]
      /\ change.described = [c \in retyped |->
                               [view.metadata[c] EXCEPT !.sql_type = resolved[c]]]
      /\ change.undescribed = {}
      /\ change.cluster_by = view.cluster_by /\ change.sorted_by = view.sorted_by

LEMMA UpdateWrites ==
  ASSUME NEW view, NEW call, NEW change \in update_database(view, call)
  PROVE  Updates(change, view, call)
<1> DEFINE cols     == DOMAIN call.types
           keys     == get_primary_key_columns(view.metadata)
           resolved == [c \in DOMAIN view.metadata |->
                          resolve_type_conflict(view.metadata[c].sql_type, call.batch, call.types, c)]
           retyped  == {c \in cols \cap DOMAIN resolved : resolved[c] # view.metadata[c].sql_type}
           written  == upsert_fact_table(view.rows, DOMAIN view.fact_columns, call.batch, cols, keys)
           retypes  == [c \in DOMAIN view.fact_columns |->
                          IF c \in retyped THEN resolved[c] ELSE view.fact_columns[c]]
           described == [c \in retyped |-> [view.metadata[c] EXCEPT !.sql_type = resolved[c]]]
<1>1. /\ cols \subseteq DOMAIN view.fact_columns
      /\ change = [NoChange(view) EXCEPT
               !.stamped = TRUE, !.removed = view.rows \ written, !.inserted = written \ view.rows,
               !.altered = retyped # {}, !.fact_columns = retypes, !.described = described]
  <2>1. update_database(view, call) # {}
    OBVIOUS
  <2>2. cols \subseteq DOMAIN view.fact_columns
    BY <2>1 DEF update_database
  <2>3. [NoChange(view) EXCEPT
               !.stamped = TRUE, !.removed = view.rows \ written, !.inserted = written \ view.rows,
               !.altered = retyped # {},
               !.fact_columns = [c \in DOMAIN @ |-> IF c \in retyped THEN resolved[c] ELSE @[c]],
               !.described = described]
        = [NoChange(view) EXCEPT
               !.stamped = TRUE, !.removed = view.rows \ written, !.inserted = written \ view.rows,
               !.altered = retyped # {}, !.fact_columns = retypes, !.described = described]
    BY DEF NoChange
  <2> QED BY <2>2, <2>3 DEF update_database
<1>2. /\ change.stamped = TRUE /\ change.altered = (retyped # {})
      /\ change.removed = view.rows \ written /\ change.inserted = written \ view.rows
      /\ change.fact_columns = retypes /\ change.described = described
      /\ change.undescribed = {}
      /\ change.cluster_by = view.cluster_by /\ change.sorted_by = view.sorted_by
  BY <1>1 DEF NoChange
<1> QED BY <1>1, <1>2 DEF Resolved, RetypedColumns, WrittenRows, Updates

LEMMA UpdateTyped ==
  ASSUME NEW view, TypedSnapshot(view), NEW call, WellFormed(call), call.op = "update_database",
         NEW change \in update_database(view, call)
  PROVE  TypedChange(change, view) /\ change.stamped
<1> USE ResultSetAssumption
<1> DEFINE cols     == DOMAIN call.types
           resolved == Resolved(view, call)
           retyped  == RetypedColumns(view, call)
           written  == WrittenRows(view, call)
           retypes  == [c \in DOMAIN view.fact_columns |->
                          IF c \in retyped THEN resolved[c] ELSE view.fact_columns[c]]
           described == [c \in retyped |-> [view.metadata[c] EXCEPT !.sql_type = resolved[c]]]
<1>1. /\ cols \subseteq DOMAIN view.fact_columns
      /\ change.stamped = TRUE /\ change.altered = (retyped # {})
      /\ change.removed = view.rows \ written /\ change.inserted = written \ view.rows
      /\ change.fact_columns = retypes /\ change.described = described
      /\ change.undescribed = {}
      /\ change.cluster_by = view.cluster_by /\ change.sorted_by = view.sorted_by
  <2>1. Updates(change, view, call)
    BY UpdateWrites
  <2> QED BY <2>1 DEF Updates
<1>3. /\ call.types \in [cols -> AllSqlTypes]
      /\ call.batch \in SUBSET RowsOver(cols)
  BY DEF WellFormed
<1>4. \A x \in DOMAIN view.metadata : view.metadata[x] \in MetadataRow /\ resolved[x] \in AllSqlTypes
  <2>1. ASSUME NEW x \in DOMAIN view.metadata
        PROVE  view.metadata[x] \in MetadataRow /\ view.metadata[x].sql_type \in AllSqlTypes
    BY KeyRows DEF MetadataRow
  <2> QED BY <1>3, <2>1, ResolveTyped DEF resolve_type_conflict, Resolved
<1>5. written \subseteq RowsOver(DOMAIN view.fact_columns)
  BY <1>1, <1>3, UpsertTyped DEF TypedSnapshot, WrittenRows
<1>8. /\ DOMAIN described = retyped /\ retyped \subseteq DOMAIN view.metadata
      /\ \A x \in DOMAIN view.metadata : view.metadata[x].is_primary_key <=> x \in Keys
  BY KeyRows DEF RetypedColumns, Resolved
<1>6. \A x \in retyped : described[x] \in MetadataRow
                         /\ described[x].is_primary_key = view.metadata[x].is_primary_key
  <2> SUFFICES ASSUME NEW x \in retyped
               PROVE  described[x] \in MetadataRow
                      /\ described[x].is_primary_key = view.metadata[x].is_primary_key
    OBVIOUS
  <2>1. view.metadata[x] \in MetadataRow /\ resolved[x] \in AllSqlTypes
    BY <1>4, <1>8
  <2>2. described[x] = [view.metadata[x] EXCEPT !.sql_type = resolved[x]]
    OBVIOUS
  <2> HIDE DEF described, resolved
  <2> QED BY <2>1, <2>2 DEF MetadataRow
<1>7. retypes \in [DOMAIN view.fact_columns -> AllSqlTypes]
  BY <1>4, <1>8 DEF TypedSnapshot
<1>9. \A x \in retyped : described[x].is_primary_key <=> x \in Keys
  BY <1>6, <1>8
<1>10. described \in [retyped -> MetadataRow]
  <2> HIDE DEF retyped
  <2> QED BY <1>6
<1>11. DOMAIN change.described \subseteq Columns /\ IsFiniteSet(DOMAIN change.described)
  BY <1>1, <1>8, KeyRows, FS_Subset
<1> HIDE DEF retyped, described, retypes, written, resolved
<1> QED BY <1>1, <1>5, <1>7, <1>8, <1>9, <1>10, <1>11 DEF TypedChange, TypedSnapshot

\* drop_columns: the columns left, the key it sets.
Drops(change, view, dropped, cascade) ==
  LET sort_key == IF view.cluster_by \cap dropped # {} THEN view.cluster_by \ dropped
                  ELSE view.sorted_by
      left     == metadata_without(view.metadata, dropped, cascade)
  IN  /\ change.stamped = (dropped # {}) /\ change.altered = (dropped # {})
      /\ change.removed = {} /\ change.inserted = {}
      /\ change.fact_columns = [c \in DOMAIN view.fact_columns \ dropped |-> view.fact_columns[c]]
      /\ change.described = Rewritten(view.metadata, left)
      /\ change.undescribed = dropped \cap DOMAIN view.metadata
      /\ change.cluster_by = view.cluster_by \ dropped /\ change.sorted_by = sort_key
      /\ sort_key \cap dropped = {}

LEMMA DropWrites ==
  ASSUME NEW view, NEW dropped, NEW cascade, NEW change \in drop_columns(view, dropped, cascade)
  PROVE  Drops(change, view, dropped, cascade)
<1> DEFINE sort_key == IF view.cluster_by \cap dropped # {} THEN view.cluster_by \ dropped
                       ELSE view.sorted_by
           left     == metadata_without(view.metadata, dropped, cascade)
           kept     == [c \in DOMAIN view.fact_columns \ dropped |-> view.fact_columns[c]]
           described == Rewritten(view.metadata, left)
<1>1. /\ change = [NoChange(view) EXCEPT
                  !.stamped = dropped # {}, !.altered = dropped # {}, !.fact_columns = kept,
                  !.undescribed = dropped \cap DOMAIN view.metadata, !.described = described,
                  !.cluster_by = view.cluster_by \ dropped, !.sorted_by = sort_key]
      /\ sort_key \cap dropped = {}
  <2>1. drop_columns(view, dropped, cascade) # {}
    OBVIOUS
  <2>2. sort_key \cap dropped = {}
    BY <2>1 DEF drop_columns
  <2> QED BY <2>2 DEF drop_columns, NoChange
<1>2. /\ change.stamped = (dropped # {}) /\ change.altered = (dropped # {})
      /\ change.removed = {} /\ change.inserted = {}
      /\ change.fact_columns = kept /\ change.described = described
      /\ change.undescribed = dropped \cap DOMAIN view.metadata
      /\ change.cluster_by = view.cluster_by \ dropped /\ change.sorted_by = sort_key
  BY <1>1 DEF NoChange
<1> QED BY <1>1, <1>2 DEF Drops

\* A drop of no column rewrites no row of metadata.
LEMMA NothingDropped ==
  ASSUME NEW md, md \in [DOMAIN md -> MetadataRow], NEW cascade \in BOOLEAN
  PROVE  metadata_without(md, {}, cascade) = md
<1>1. ASSUME NEW c \in DOMAIN md
      PROVE  [ sql_type |-> md[c].sql_type, is_primary_key |-> md[c].is_primary_key,
               is_categorical |-> md[c].is_categorical,
               parent_name |-> md[c].parent_name, label_for |-> md[c].label_for ] = md[c]
  BY <1>1 DEF MetadataRow
<1>2. metadata_without(md, {}, cascade)
        = [c \in DOMAIN md |->
             [ sql_type |-> md[c].sql_type, is_primary_key |-> md[c].is_primary_key,
               is_categorical |-> md[c].is_categorical,
               parent_name |-> md[c].parent_name, label_for |-> md[c].label_for ]]
  BY DEF metadata_without
<1> QED BY <1>1, <1>2

LEMMA DropTyped ==
  ASSUME NEW view, TypedSnapshot(view), NEW dropped, dropped \cap Keys = {},
         NEW cascade \in BOOLEAN, NEW change \in drop_columns(view, dropped, cascade)
  PROVE  TypedChange(change, view) /\ KeepsRows(change, view)
<1> USE ResultSetAssumption
<1> DEFINE sort_key == IF view.cluster_by \cap dropped # {} THEN view.cluster_by \ dropped
                       ELSE view.sorted_by
           left     == metadata_without(view.metadata, dropped, cascade)
           kept     == [c \in DOMAIN view.fact_columns \ dropped |-> view.fact_columns[c]]
           described == Rewritten(view.metadata, left)
<1>2. /\ change.stamped = (dropped # {}) /\ change.altered = (dropped # {})
      /\ change.removed = {} /\ change.inserted = {}
      /\ change.fact_columns = kept /\ change.described = described
      /\ change.undescribed = dropped \cap DOMAIN view.metadata
      /\ change.cluster_by = view.cluster_by \ dropped /\ change.sorted_by = sort_key
  <2>1. Drops(change, view, dropped, cascade)
    BY DropWrites
  <2> QED BY <2>1 DEF Drops
<1>3. /\ DOMAIN left = DOMAIN view.metadata \ dropped
      /\ \A x \in DOMAIN left : left[x] \in MetadataRow
                                /\ left[x].is_primary_key = view.metadata[x].is_primary_key
  <2>1. \A x \in DOMAIN view.metadata : view.metadata[x] \in MetadataRow
    BY KeyRows
  <2>2. DOMAIN left = DOMAIN view.metadata \ dropped
    BY DEF metadata_without
  <2>3. ASSUME NEW x \in DOMAIN view.metadata \ dropped
        PROVE  left[x] \in MetadataRow /\ left[x].is_primary_key = view.metadata[x].is_primary_key
    BY <2>1 DEF metadata_without, MetadataRow
  <2> QED BY <2>2, <2>3
<1>4. /\ DOMAIN described \subseteq DOMAIN left
      /\ described \in [DOMAIN described -> MetadataRow]
      /\ \A x \in DOMAIN described : described[x].is_primary_key <=> x \in Keys
  <2>1. \A x \in DOMAIN left : left[x].is_primary_key <=> x \in Keys
    BY <1>3, KeyRows
  <2> HIDE DEF left
  <2> QED BY <1>3, <2>1 DEF Rewritten
<1>5. kept \in [DOMAIN view.fact_columns \ dropped -> AllSqlTypes]
  BY DEF TypedSnapshot
<1>6. dropped = {} => kept = view.fact_columns
  BY <1>5 DEF TypedSnapshot
<1>7. sort_key \subseteq Columns /\ view.cluster_by \ dropped \subseteq Columns
  BY DEF TypedSnapshot
<1>8. Keys \subseteq DOMAIN view.fact_columns \ dropped
  BY DEF TypedSnapshot
<1> HIDE DEF sort_key, left, kept, described
<1>14. dropped = {} => DOMAIN described = {}
  <2>1. view.metadata \in [DOMAIN view.metadata -> MetadataRow]
    BY DEF TypedSnapshot
  <2>2. dropped = {} => left = view.metadata
    BY <2>1, NothingDropped DEF left
  <2> QED BY <2>2 DEF described, Rewritten
<1>9. KeepsRows(change, view)
  BY <1>2, <1>14 DEF KeepsRows
<1>15. DOMAIN change.described \subseteq DOMAIN view.metadata
  BY <1>2, <1>3, <1>4
<1>10. DOMAIN kept = DOMAIN view.fact_columns \ dropped
  BY <1>5
<1>11. Keys \cap change.undescribed \subseteq DOMAIN change.described
  BY <1>2
<1>12. change.stamped \in BOOLEAN /\ change.altered \in BOOLEAN
  BY <1>2, Zenon
<1>13. DOMAIN change.described \subseteq Columns /\ IsFiniteSet(DOMAIN change.described)
  BY <1>2, <1>3, <1>4, KeyRows, FS_Subset
<1> QED BY <1>2, <1>4, <1>5, <1>6, <1>7, <1>8, <1>9, <1>10, <1>11, <1>12, <1>13, <1>15 DEF TypedChange

LEMMA DeleteTyped ==
  ASSUME NEW view, TypedSnapshot(view), NEW call, NEW change \in delete_rows(view, call)
  PROVE  TypedChange(change, view) /\ KeepsRows(change, view)
<1> DEFINE gone == {r \in view.rows : r[call.column] \in call.values}
<1>1. change = [NoChange(view) EXCEPT !.removed = gone, !.stamped = gone # {}]
  BY DEF delete_rows
<1>2. /\ change.removed = gone /\ change.stamped = (gone # {})
      /\ change.inserted = {} /\ change.altered = FALSE
      /\ change.fact_columns = view.fact_columns /\ change.described = << >>
      /\ change.undescribed = {}
      /\ change.cluster_by = view.cluster_by /\ change.sorted_by = view.sorted_by
  BY <1>1 DEF NoChange
<1>3. gone \subseteq view.rows
  OBVIOUS
<1>4. change.stamped \in BOOLEAN /\ change.altered \in BOOLEAN
  BY <1>2, Zenon
<1> HIDE DEF gone
<1>5. TypedChange(change, view)
  BY <1>2, <1>3, <1>4, NothingDescribed DEF TypedChange, TypedSnapshot
<1>6. KeepsRows(change, view)
  BY <1>2, NothingDescribed DEF KeepsRows
<1> QED BY <1>5, <1>6

LEMMA SortTyped ==
  ASSUME NEW view, TypedSnapshot(view), NEW call, NEW change \in update_cluster_by(view, call)
  PROVE  TypedChange(change, view) /\ KeepsRows(change, view)
<1>1. /\ change = [NoChange(view) EXCEPT !.stamped = TRUE, !.altered = TRUE,
                               !.cluster_by = call.columns, !.sorted_by = call.columns]
      /\ call.columns \subseteq DOMAIN view.fact_columns
  BY DEF update_cluster_by
<1>2. /\ change.removed = {} /\ change.stamped = TRUE
      /\ change.inserted = {} /\ change.altered = TRUE
      /\ change.fact_columns = view.fact_columns /\ change.described = << >>
      /\ change.undescribed = {}
      /\ change.cluster_by = call.columns /\ change.sorted_by = call.columns
  BY <1>1 DEF NoChange
<1>3. TypedChange(change, view)
  BY <1>1, <1>2, NothingDescribed DEF TypedChange, TypedSnapshot
<1>4. KeepsRows(change, view)
  BY <1>2, NothingDescribed DEF KeepsRows
<1> QED BY <1>3, <1>4

LEMMA ReclusterTyped ==
  ASSUME NEW view, TypedSnapshot(view), NEW read, read.sort_columns \subseteq Columns,
         read.realign \in BOOLEAN, NEW change \in recluster(view, read)
  PROVE  TypedChange(change, view) /\ KeepsRows(change, view)
<1>1. change = [NoChange(view) EXCEPT
           !.removed = view.rows, !.inserted = view.rows, !.altered = read.realign,
           !.sorted_by = IF read.realign THEN read.sort_columns ELSE view.sorted_by]
  BY DEF recluster, NoChange
<1>2. /\ change.removed = view.rows /\ change.stamped = FALSE
      /\ change.inserted = view.rows /\ change.altered = read.realign
      /\ change.fact_columns = view.fact_columns /\ change.described = << >>
      /\ change.undescribed = {}
      /\ change.cluster_by = view.cluster_by
      /\ change.sorted_by = IF read.realign THEN read.sort_columns ELSE view.sorted_by
  BY <1>1 DEF NoChange
<1>3. TypedChange(change, view)
  BY <1>2, NothingDescribed DEF TypedChange, TypedSnapshot
<1>4. KeepsRows(change, view)
  BY <1>2, NothingDescribed DEF KeepsRows
<1> QED BY <1>3, <1>4

LEMMA PastTyped ==
  ASSUME NEW past \in History
  PROVE  /\ DOMAIN past.fact_columns \subseteq Columns
         /\ past.fact_columns \in [DOMAIN past.fact_columns -> AllSqlTypes]
         /\ past.rows \subseteq RowsOver(DOMAIN past.fact_columns)
         /\ past.metadata \in [DOMAIN past.fact_columns -> MetadataRow]
         /\ DOMAIN past.metadata \subseteq Columns /\ IsFiniteSet(DOMAIN past.metadata)
         /\ Keys \subseteq DOMAIN past.fact_columns
         /\ DOMAIN past.metadata = DOMAIN past.fact_columns
         /\ \A x \in DOMAIN past.metadata : past.metadata[x].is_primary_key <=> x \in Keys
         /\ past.cluster_by \subseteq DOMAIN past.fact_columns
<1>1. Sound(past) /\ get_primary_key_columns(past.metadata) = Keys
  BY SharedAssumption DEF Keys
<1> QED BY <1>1 DEF Sound, get_primary_key_columns

LEMMA RestoreTyped ==
  ASSUME NEW view, TypedSnapshot(view), NEW call, NEW read \in History,
         NEW change \in restore_snapshot(view, call, read)
  PROVE  /\ TypedChange(change, view)
         /\ change.stamped = ("dataset_metadata" \in call.tables)
<1> DEFINE facts     == "fact_table" \in call.tables
           described == "metadata" \in call.tables
           stamped   == "dataset_metadata" \in call.tables
<1>1. /\ facts => DOMAIN read.fact_columns = DOMAIN view.fact_columns
      /\ change = [NoChange(view) EXCEPT
           !.removed = IF facts THEN view.rows ELSE {},
           !.inserted = IF facts THEN read.rows ELSE {},
           !.undescribed = IF described THEN DOMAIN view.metadata ELSE {},
           !.described = IF described THEN read.metadata ELSE << >>,
           !.stamped = stamped,
           !.cluster_by = IF stamped THEN read.cluster_by ELSE view.cluster_by]
  BY DEF restore_snapshot, NoChange
<1>2. /\ change.removed = IF facts THEN view.rows ELSE {}
      /\ change.inserted = IF facts THEN read.rows ELSE {}
      /\ change.undescribed = IF described THEN DOMAIN view.metadata ELSE {}
      /\ change.described = IF described THEN read.metadata ELSE << >>
      /\ change.stamped = stamped /\ change.altered = FALSE
      /\ change.fact_columns = view.fact_columns
      /\ change.cluster_by = IF stamped THEN read.cluster_by ELSE view.cluster_by
      /\ change.sorted_by = view.sorted_by
  BY <1>1 DEF NoChange
<1>3. stamped \in BOOLEAN
  OBVIOUS
<1> HIDE DEF facts, described, stamped
<1>4. change.inserted \subseteq RowsOver(DOMAIN view.fact_columns)
  BY <1>1, <1>2, PastTyped
<1>5. /\ change.described \in [DOMAIN change.described -> MetadataRow]
      /\ \A x \in DOMAIN change.described : change.described[x].is_primary_key <=> x \in Keys
      /\ Keys \cap change.undescribed \subseteq DOMAIN change.described
      /\ DOMAIN change.described \subseteq Columns /\ IsFiniteSet(DOMAIN change.described)
      /\ DOMAIN change.described \subseteq DOMAIN view.metadata \/ Keys \subseteq DOMAIN change.described
  <2>1. CASE described
    BY <1>2, <2>1, PastTyped
  <2>2. CASE ~ described
    BY <1>2, <2>2, NothingDescribed
  <2> QED BY <2>1, <2>2
<1>6. change.cluster_by \subseteq Columns
  BY <1>2, PastTyped DEF TypedSnapshot
<1>7. TypedChange(change, view)
  BY <1>2, <1>3, <1>4, <1>5, <1>6 DEF TypedChange, TypedSnapshot
<1> QED BY <1>2, <1>7 DEF stamped

\* Which of the bodies a transaction runs.
LEMMA BodyOf ==
  ASSUME NEW p \in Processes, Running(p), proc[p].phase \in {"checked", "open"},
         Op(p) # "update_column_metadata", NEW view, NEW change \in Body(p, view)
  PROVE  LET call == Calls[proc[p].call]
             read == proc[p].read
         IN  \/ proc[p].cleanup /\ change \in cleanup_null_only_columns(view)
             \/ ~ proc[p].cleanup /\ Op(p) = "update_database" /\ change \in update_database(view, call)
             \/ ~ proc[p].cleanup /\ Op(p) = "delete_rows" /\ change \in delete_rows(view, call)
             \/ ~ proc[p].cleanup /\ Op(p) = "delete_columns"
                  /\ change \in drop_columns(view, call.columns, call.cascade)
             \/ ~ proc[p].cleanup /\ Op(p) = "update_cluster_by"
                  /\ change \in update_cluster_by(view, call)
             \/ ~ proc[p].cleanup /\ Op(p) = "recluster" /\ change \in recluster(view, read)
             \/ ~ proc[p].cleanup /\ Op(p) = "restore_snapshot"
                  /\ change \in restore_snapshot(view, call, read)
<1>1. /\ Op(p) \in {"update_database", "delete_rows", "delete_columns", "update_cluster_by",
                  "recluster", "restore_snapshot"}
      /\ proc[p].cleanup \in BOOLEAN
      /\ proc[p].cleanup => Op(p) = "delete_rows"
  <2>1. WellFormed(Calls[proc[p].call])
    BY SharedAssumption DEF Running
  <2> QED BY <2>1 DEF Running, Op, WellFormed
<1> QED BY <1>1 DEF Body, Op

LEMMA BodyTyped ==
  ASSUME NEW p \in Processes, Running(p), HasRead(p), proc[p].phase \in {"checked", "open"},
         Op(p) # "update_column_metadata", NEW view, TypedSnapshot(view), NEW change \in Body(p, view)
  PROVE  TypedChange(change, view) /\ (UnstampedRestore(p) \/ KeepsRows(change, view))
<1> DEFINE call == Calls[proc[p].call]
           read == proc[p].read
<1>1. WellFormed(call) /\ Op(p) = call.op
  BY SharedAssumption DEF Running, Op
<1>2. CASE proc[p].cleanup /\ change \in cleanup_null_only_columns(view)
  <2>1. PICK dropped : /\ change \in drop_columns(view, dropped, FALSE)
                       /\ dropped \cap get_primary_key_columns(view.metadata) = {}
    <3> DEFINE keys      == get_primary_key_columns(view.metadata)
               null_only == {c \in DOMAIN view.fact_columns \ keys : \A r \in view.rows : r[c] = NULL}
               droppable == Droppable(null_only, ParentOf(view.metadata), LabelFor(view.metadata))
    <3>1. droppable \cap keys = {}
      BY DEF Droppable
    <3>2. change \in drop_columns(view, IF view.rows = {} THEN {} ELSE droppable, FALSE)
      BY <1>2 DEF cleanup_null_only_columns
    <3> HIDE DEF droppable, keys
    <3>3. CASE view.rows = {}
      <4>1. change \in drop_columns(view, {}, FALSE)
        BY <3>2, <3>3
      <4>2. {} \cap keys = {}
        OBVIOUS
      <4> QED BY <4>1, <4>2, Zenon DEF keys
    <3>4. CASE view.rows # {}
      <4>1. change \in drop_columns(view, droppable, FALSE)
        BY <3>2, <3>4
      <4> QED BY <3>1, <4>1 DEF keys
    <3> QED BY <3>3, <3>4
  <2> QED BY <2>1, DropTyped DEF TypedSnapshot
<1>3. CASE Op(p) = "update_database" /\ change \in update_database(view, call)
  BY <1>1, <1>3, UpdateTyped DEF KeepsRows
<1>4. CASE Op(p) = "delete_rows" /\ change \in delete_rows(view, call)
  BY <1>4, DeleteTyped
<1>5. CASE Op(p) = "delete_columns" /\ change \in drop_columns(view, call.columns, call.cascade)
  BY <1>1, <1>5, DropTyped DEF HasRead, WellFormed
<1>6. CASE Op(p) = "update_cluster_by" /\ change \in update_cluster_by(view, call)
  BY <1>6, SortTyped
<1>7. CASE Op(p) = "recluster" /\ change \in recluster(view, read)
  BY <1>7, ReclusterTyped DEF HasRead
<1>8. CASE Op(p) = "restore_snapshot" /\ change \in restore_snapshot(view, call, read)
  <2>1. read \in History
    BY <1>8 DEF HasRead
  <2>2. TypedChange(change, view) /\ change.stamped = ("dataset_metadata" \in call.tables)
    BY <1>8, <2>1, RestoreTyped
  <2> QED BY <1>8, <2>2 DEF UnstampedRestore, Restores, KeepsRows
<1> QED BY <1>2, <1>3, <1>4, <1>5, <1>6, <1>7, <1>8, BodyOf

-----------------------------------------------------------------------------
(* What a commit does to the current snapshot *)

LEMMA ProjectedWhole ==
  ASSUME NEW cols, NEW r \in RowsOver(cols)
  PROVE  projected(r, cols) = r
BY DEF projected, RowsOver

\* What the conflicts of DuckLake exclude.
LEMMA NoConflict ==
  ASSUME NEW change, NEW since, ~ Conflicts(Footprint(change), since)
  PROVE  /\ ~ (change.stamped /\ since.stamped)
         /\ change.removed \cap since.removed = {}
         /\ (DOMAIN change.described \cup change.undescribed) \cap since.described = {}
         /\ since.altered => ~ change.altered /\ change.removed = {} /\ change.inserted = {}
BY DEF Conflicts, Footprint

\* p has computed the change, and nothing refuses its commit.
Ready(p, change) ==
  /\ proc[p].phase = "open"
  /\ change \in Body(p, proc[p].view)
  /\ ~ Conflicts(Footprint(change), proc[p].written_since)

Stores(p, change) == Ready(p, change) /\ Store(change)

LEMMA ReadyChange ==
  ASSUME NEW p \in Processes, Follows(p), NEW change, Ready(p, change)
  PROVE  /\ TypedSnapshot(proc[p].view)
         /\ TypedChange(change, proc[p].view)
         /\ UnstampedRestore(p) \/ KeepsRows(change, proc[p].view)
<1>1. Running(p) /\ HasRead(p) /\ Sees(p) /\ Op(p) # "update_column_metadata"
  BY DEF Follows, Ready, Running
<1>2. TypedSnapshot(proc[p].view)
  BY <1>1 DEF Sees
<1> QED BY <1>1, <1>2, BodyTyped DEF Ready

\* The columns a change was computed on are the current ones if it writes the table.
LEMMA ReadyTable ==
  ASSUME NEW p \in Processes, Follows(p), NEW change, Ready(p, change)
  PROVE  /\ change.altered \/ change.inserted # {} \/ change.removed # {} =>
              ~ proc[p].written_since.altered /\ fact_columns = proc[p].view.fact_columns
         /\ change.stamped =>
              ~ proc[p].written_since.stamped /\ fact_columns = proc[p].view.fact_columns
<1>1. Sees(p)
  BY DEF Follows, Ready
<1>2. /\ ~ (change.stamped /\ proc[p].written_since.stamped)
      /\ proc[p].written_since.altered => ~ change.altered /\ change.removed = {} /\ change.inserted = {}
  BY NoConflict DEF Ready
<1> QED BY <1>1, <1>2 DEF Sees

LEMMA StoredChange ==
  ASSUME NEW p \in Processes, Follows(p), NEW change, Stores(p, change)
  PROVE  /\ TypedSnapshot(proc[p].view)
         /\ TypedChange(change, proc[p].view)
         /\ UnstampedRestore(p) \/ KeepsRows(change, proc[p].view)
BY ReadyChange DEF Stores

LEMMA WrittenTable ==
  ASSUME NEW p \in Processes, Follows(p), NEW change, Stores(p, change)
  PROVE  /\ change.altered \/ change.inserted # {} \/ change.removed # {} =>
              ~ proc[p].written_since.altered /\ fact_columns = proc[p].view.fact_columns
         /\ change.stamped =>
              ~ proc[p].written_since.stamped /\ fact_columns = proc[p].view.fact_columns
BY ReadyTable DEF Stores

LEMMA StoredColumns ==
  ASSUME TypedSnapshot(Snapshot), NEW p \in Processes, Follows(p), NEW change, Stores(p, change)
  PROVE  /\ DOMAIN fact_columns' \subseteq DOMAIN fact_columns
         /\ fact_columns' \in [DOMAIN fact_columns' -> AllSqlTypes]
         /\ Keys \subseteq DOMAIN fact_columns'
         /\ ~ change.stamped => fact_columns' = fact_columns
<1>1. fact_columns' = IF change.altered THEN change.fact_columns ELSE fact_columns
  BY DEF Stores, Store
<1>2. CASE change.altered
  BY <1>1, <1>2, StoredChange, WrittenTable DEF TypedChange
<1>3. CASE ~ change.altered
  BY <1>1, <1>3, SnapshotFields DEF TypedSnapshot
<1>4. change.altered \in BOOLEAN
  BY StoredChange DEF TypedChange
<1> QED BY <1>2, <1>3, <1>4

LEMMA StoredRows ==
  ASSUME TypedSnapshot(Snapshot), NEW p \in Processes, Follows(p), NEW change, Stores(p, change)
  PROVE  /\ rows' \subseteq RowsOver(DOMAIN fact_columns')
         /\ fact_columns' = fact_columns => rows' = (rows \ change.removed) \cup change.inserted
<1>1. rows' = {projected(r, DOMAIN fact_columns') : r \in (rows \ change.removed) \cup change.inserted}
  BY DEF Stores, Store
<1>2. DOMAIN fact_columns' \subseteq DOMAIN fact_columns
  BY StoredColumns
<1>3. (rows \ change.removed) \cup change.inserted \subseteq RowsOver(DOMAIN fact_columns)
  <2>1. rows \subseteq RowsOver(DOMAIN fact_columns)
    BY SnapshotFields DEF TypedSnapshot
  <2>2. change.inserted \subseteq RowsOver(DOMAIN proc[p].view.fact_columns)
    BY StoredChange DEF TypedChange
  <2>3. change.inserted # {} => fact_columns = proc[p].view.fact_columns
    BY WrittenTable
  <2> QED BY <2>1, <2>2, <2>3
<1>4. \A r \in RowsOver(DOMAIN fact_columns) :
        projected(r, DOMAIN fact_columns') \in RowsOver(DOMAIN fact_columns')
  BY <1>2, ProjectionTyped
<1>5. fact_columns' = fact_columns =>
        \A r \in RowsOver(DOMAIN fact_columns) : projected(r, DOMAIN fact_columns') = r
  BY ProjectedWhole
<1> QED BY <1>1, <1>3, <1>4, <1>5

LEMMA StoredMetadata ==
  ASSUME TypedSnapshot(Snapshot), NEW p \in Processes, Follows(p), NEW change, Stores(p, change)
  PROVE  /\ metadata' \in [DOMAIN metadata' -> MetadataRow]
         /\ get_primary_key_columns(metadata') = Keys
         /\ DOMAIN metadata' \subseteq Columns /\ IsFiniteSet(DOMAIN metadata')
         /\ SameOutside(metadata', metadata, DOMAIN change.described \cup change.undescribed)
         /\ Keys \cap (DOMAIN change.described \cup change.undescribed) = {} =>
              DOMAIN metadata' \subseteq DOMAIN metadata
<1>1. metadata' = [c \in (DOMAIN metadata \ change.undescribed) \cup DOMAIN change.described |->
                    IF c \in DOMAIN change.described THEN change.described[c] ELSE metadata[c]]
  BY DEF Stores, Store
<1>2. /\ Keys \subseteq DOMAIN metadata
      /\ DOMAIN metadata \subseteq Columns /\ IsFiniteSet(DOMAIN metadata)
      /\ \A x \in DOMAIN metadata : metadata[x].is_primary_key <=> x \in Keys
      /\ \A x \in DOMAIN metadata : metadata[x] \in MetadataRow
  BY SnapshotFields, KeyRows
<1>3. /\ change.described \in [DOMAIN change.described -> MetadataRow]
      /\ DOMAIN change.described \subseteq Columns /\ IsFiniteSet(DOMAIN change.described)
      /\ \A x \in DOMAIN change.described : change.described[x].is_primary_key <=> x \in Keys
      /\ Keys \cap change.undescribed \subseteq DOMAIN change.described
  BY StoredChange DEF TypedChange
<1>4. metadata' \in [DOMAIN metadata' -> MetadataRow]
  BY <1>1, <1>2, <1>3
<1>5. \A x \in DOMAIN metadata' : metadata'[x].is_primary_key <=> x \in Keys
  BY <1>1, <1>2, <1>3
<1>6. Keys \subseteq DOMAIN metadata'
  BY <1>1, <1>2, <1>3
<1>7. get_primary_key_columns(metadata') = Keys
  BY <1>5, <1>6 DEF get_primary_key_columns
<1>8. SameOutside(metadata', metadata, DOMAIN change.described \cup change.undescribed)
  BY <1>1 DEF SameOutside
<1>9. DOMAIN metadata' = (DOMAIN metadata \ change.undescribed) \cup DOMAIN change.described
  BY <1>1
<1>10. DOMAIN metadata' \subseteq Columns /\ IsFiniteSet(DOMAIN metadata')
  BY <1>2, <1>3, <1>9, FS_Subset, FS_Union
<1>11. Keys \cap (DOMAIN change.described \cup change.undescribed) = {} =>
          DOMAIN metadata' \subseteq DOMAIN metadata
  <2> SUFFICES ASSUME Keys \cap (DOMAIN change.described \cup change.undescribed) = {}
               PROVE  DOMAIN change.described \subseteq DOMAIN metadata
    BY <1>9
  <2> DEFINE view == proc[p].view
             since == proc[p].written_since
  <2>1. Keys # {}
    BY SharedAssumption DEF Keys, Sound
  <2>2. DOMAIN change.described \subseteq DOMAIN view.metadata
    BY <2>1, StoredChange DEF TypedChange
  <2>3. DOMAIN change.described \cap since.described = {}
    BY NoConflict DEF Stores, Ready
  <2>4. SameOutside(metadata, view.metadata, since.described)
    BY DEF Follows, Stores, Ready, Sees
  <2> HIDE DEF view, since
  <2> QED BY <2>2, <2>3, <2>4 DEF SameOutside
<1> QED BY <1>4, <1>7, <1>8, <1>10, <1>11

LEMMA StoreKeepsTypes ==
  ASSUME TypedSnapshot(Snapshot), NEW p \in Processes, Follows(p), NEW change, Stores(p, change)
  PROVE  TypedSnapshot(Snapshot)'
<1>1. /\ DOMAIN fact_columns' \subseteq Columns
      /\ fact_columns' \in [DOMAIN fact_columns' -> AllSqlTypes]
      /\ Keys \subseteq DOMAIN fact_columns'
  BY StoredColumns, SnapshotFields DEF TypedSnapshot
<1>2. rows' \subseteq RowsOver(DOMAIN fact_columns')
  BY StoredRows
<1>3. /\ metadata' \in [DOMAIN metadata' -> MetadataRow] /\ get_primary_key_columns(metadata') = Keys
      /\ DOMAIN metadata' \subseteq Columns /\ IsFiniteSet(DOMAIN metadata')
  BY StoredMetadata
<1>4. cluster_by' \subseteq Columns /\ sorted_by' \subseteq Columns
  BY StoredChange, SnapshotFields DEF Stores, Store, TypedSnapshot, TypedChange
<1> QED BY <1>1, <1>2, <1>3, <1>4, SnapshotFieldsNext DEF TypedSnapshot

LEMMA StoreMoves ==
  ASSUME TypedSnapshot(Snapshot), NEW p \in Processes, Follows(p), NEW change, Stores(p, change),
         NEW kinds, Changed \subseteq kinds, UnstampedRestore(p) => "restored" \in kinds
  PROVE  Moves(Footprint(change), kinds)
<1> DEFINE since == proc[p].written_since
           view  == proc[p].view
<1>1. /\ Footprint(change).removed = change.removed
      /\ Footprint(change).described = DOMAIN change.described \cup change.undescribed
      /\ Footprint(change).stamped = change.stamped
      /\ Footprint(change).altered = change.altered
  BY DEF Footprint
<1>2. /\ ~ change.altered => fact_columns' = fact_columns /\ sorted_by' = sorted_by
      /\ ~ change.stamped => cluster_by' = cluster_by
  BY DEF Stores, Store
<1>3. fact_columns' = fact_columns => rows' = (rows \ change.removed) \cup change.inserted
  BY StoredRows
<1>4. ~ change.stamped => fact_columns' = fact_columns
  BY StoredColumns
<1>5. ~ change.stamped /\ "restored" \notin kinds => rows' = rows
  <2> SUFFICES ASSUME ~ change.stamped, "restored" \notin kinds
               PROVE  rows' = rows
    OBVIOUS
  <2>1. \/ change.removed = {} /\ change.inserted = {}
        \/ change.removed = view.rows /\ change.inserted = view.rows
    BY StoredChange DEF KeepsRows
  <2>2. view.rows # {} /\ change.removed = view.rows => view.rows \subseteq rows
    <3>1. Sees(p) /\ change.removed \cap since.removed = {}
      BY NoConflict DEF Follows, Stores, Ready
    <3>2. change.removed # {} => ~ since.altered
      BY WrittenTable
    <3> QED BY <3>1, <3>2 DEF Sees
  <2> QED BY <1>3, <1>4, <2>1, <2>2
<1>6. /\ SameOutside(metadata', metadata, Footprint(change).described)
      /\ Keys \cap Footprint(change).described = {} => DOMAIN metadata' \subseteq DOMAIN metadata
  BY <1>1, StoredMetadata
<1>8. ~ change.stamped /\ "restored" \notin kinds => SqlType(metadata') = SqlType(metadata)
  <2> SUFFICES ASSUME ~ change.stamped, "restored" \notin kinds
               PROVE  metadata' = metadata
    OBVIOUS
  <2>1. change.undescribed = {} /\ DOMAIN change.described = {}
    BY StoredChange DEF KeepsRows
  <2>2. metadata \in [DOMAIN metadata -> MetadataRow]
    BY SnapshotFields DEF TypedSnapshot
  <2> QED BY <2>1, <2>2 DEF Stores, Store
<1>7. /\ "rows" \notin kinds => rows' = rows
      /\ "columns" \notin kinds => fact_columns' = fact_columns
      /\ "sort key" \notin kinds => cluster_by' = cluster_by
      /\ "types" \notin kinds => SqlType(metadata') = SqlType(metadata)
      /\ "links" \notin kinds =>
           ParentOf(metadata') = ParentOf(metadata) /\ LabelFor(metadata') = LabelFor(metadata)
  BY DEF Changed
<1> QED BY <1>1, <1>2, <1>3, <1>4, <1>5, <1>6, <1>7, <1>8 DEF Moves

-----------------------------------------------------------------------------
(* The invariant is inductive *)

LEMMA StillMoves == UNCHANGED vars => Moves(NoFootprint, {})
<1> SUFFICES ASSUME UNCHANGED vars PROVE Moves(NoFootprint, {})
  OBVIOUS
<1>1. /\ fact_columns' = fact_columns /\ rows' = rows /\ metadata' = metadata
      /\ cluster_by' = cluster_by /\ sorted_by' = sorted_by
  BY DEF vars
<1> QED BY <1>1 DEF Moves, NoFootprint, SameOutside

LEMMA StillTyped ==
  ASSUME TypedSnapshot(Snapshot), UNCHANGED vars
  PROVE  TypedSnapshot(Snapshot)'
BY DEF vars, Snapshot, TypedSnapshot

LEMMA OthersFollow ==
  ASSUME TypedSnapshot(Snapshot), TypedSnapshot(Snapshot)',
         NEW p \in Processes, NEW q \in Processes, q # p, Follows(q),
         NEW next, NEW footprint, NEW kinds, Step(p, next, footprint, kinds),
         Moves(footprint, kinds)
  PROVE  Follows(q)'
<1>1. Running(q)
  BY DEF Follows
<1>2. SeenBy(q, footprint, kinds)
  BY <1>1, StepSeen DEF Running
<1>3. proc'[q].phase = proc[q].phase
  BY <1>2 DEF SeenBy
<1>4. Running(q)'
  BY <1>1, <1>2, RunningOn
<1>5. proc[q].phase \in {"checked", "open"} => HasRead(q)'
  BY <1>2, HasReadOn DEF Follows
<1>6. proc[q].phase = "open" => Sees(q)'
  BY <1>2, SeesOn DEF Follows
<1> QED BY <1>3, <1>4, <1>5, <1>6 DEF Follows

LEMMA IdleFollows ==
  ASSUME NEW p, proc'[p] = Idle
  PROVE  Follows(p)'
<1>1. /\ DOMAIN proc'[p] = Fields_of_proc
      /\ proc'[p].phase = "idle" /\ proc'[p].call = NULL /\ proc'[p].cleanup = FALSE
  BY IdleFields DEF Idle
<1>2. Running(p)'
  BY <1>1 DEF Running, Phases
<1> QED BY <1>1, <1>2 DEF Follows

LEMMA CheckFollows ==
  ASSUME TypedSnapshot(Snapshot), NEW p \in Processes, NEW name \in DOMAIN Calls,
         NEW read \in ReadsBeforeBegin(Calls[name]), UNCHANGED vars,
         proc'[p] = [Idle EXCEPT !.phase = "checked", !.call = name, !.read = read]
  PROVE  Follows(p)'
<1> DEFINE call == Calls[name]
<1>1. /\ DOMAIN proc'[p] = Fields_of_proc
      /\ proc'[p].phase = "checked" /\ proc'[p].call = name /\ proc'[p].cleanup = FALSE
      /\ proc'[p].read = read /\ proc'[p].written_since = NoFootprint
      /\ proc'[p].beside = {}
  BY DEF Idle, Fields_of_proc
<1>2. Op(p)' = call.op
  BY <1>1 DEF Op
<1>3. Running(p)'
  BY <1>1 DEF Running, Phases
<1>4. PrimaryKeys = Keys
  BY SnapshotFields DEF TypedSnapshot, PrimaryKeys
<1>5. call.op = "update_database" =>
        check_batch_keys(call.batch, DOMAIN call.types, Keys) /\ UniqueOn(call.batch, Keys)
  BY <1>4 DEF ReadsBeforeBegin, update_database_accepted
<1>6. call.op = "delete_columns" => call.columns \cap Keys = {}
  BY <1>4 DEF ReadsBeforeBegin, delete_columns_accepted
<1>7. call.op = "recluster" =>
        /\ read.sort_columns = cluster_by /\ read.sort_columns \subseteq Columns
        /\ read.realign \in BOOLEAN
  <2> SUFFICES ASSUME call.op = "recluster"
               PROVE  /\ read.sort_columns = cluster_by /\ read.sort_columns \subseteq Columns
                      /\ read.realign \in BOOLEAN
    OBVIOUS
  <2>1. read \in recluster_reads
    BY DEF ReadsBeforeBegin
  <2>2. read = [sort_columns |-> cluster_by, realign |-> sorted_by # cluster_by]
    BY <2>1 DEF recluster_reads
  <2>3. (sorted_by # cluster_by) \in BOOLEAN
    OBVIOUS
  <2>4. cluster_by \subseteq Columns
    BY SnapshotFields DEF TypedSnapshot
  <2> QED BY <2>2, <2>3, <2>4
<1>8. call.op = "restore_snapshot" =>
        read \in History /\ ("fact_table" \in call.tables => fact_columns = read.fact_columns)
  BY DEF ReadsBeforeBegin, restore_snapshot_reads
<1>9. /\ fact_columns' = fact_columns /\ cluster_by' = cluster_by
      /\ rows' = rows /\ metadata' = metadata
  BY DEF vars
<1>11. call.op = "delete_columns" /\ ~ call.cascade =>
         \A c \in call.columns : Dependents(ParentOf(metadata), LabelFor(metadata), c) = {}
  BY DEF ReadsBeforeBegin, delete_columns_accepted
<1>12. call.op = "update_column_metadata" =>
         /\ Acceptable(metadata, call.column, call.fields)
         /\ Declares(call.fields.label_for) => Determines(rows, call.fields.label_for, call.column)
  <2> SUFFICES ASSUME call.op = "update_column_metadata"
               PROVE  /\ Acceptable(metadata, call.column, call.fields)
                      /\ Declares(call.fields.label_for) =>
                           Determines(rows, call.fields.label_for, call.column)
    OBVIOUS
  <2>1. metadata_update_accepted(metadata, rows, call.column, call.fields)
    BY DEF ReadsBeforeBegin, update_column_metadata_accepted
  <2>2. Declares(call.fields.label_for) =>
          check_value_label_dependency(rows, call.fields.label_for, call.column,
                                       ColumnValues(rows, call.fields.label_for))
    BY <2>1 DEF metadata_update_accepted, label_for_accepted
  <2> QED BY <2>1, <2>2, FullCheckDetermines DEF Acceptable
<1> HIDE DEF call
<1>10. HasRead(p)'
  BY <1>1, <1>2, <1>5, <1>6, <1>7, <1>8, <1>9, <1>11, <1>12 DEF HasRead, call
<1> QED BY <1>1, <1>3, <1>10 DEF Follows

LEMMA BeginFollows ==
  ASSUME TypedSnapshot(Snapshot), NEW p \in Processes, Follows(p), proc[p].phase = "checked",
         Op(p) # "update_column_metadata", UNCHANGED vars,
         proc'[p] = [proc[p] EXCEPT !.phase = "open", !.view = Snapshot]
  PROVE  Follows(p)'
<1>1. Running(p) /\ HasRead(p)
  BY DEF Follows
<1>2. /\ DOMAIN proc'[p] = Fields_of_proc
      /\ proc'[p].phase = "open" /\ proc'[p].call = proc[p].call
      /\ proc'[p].cleanup = proc[p].cleanup /\ proc'[p].read = proc[p].read
      /\ proc'[p].view = Snapshot /\ proc'[p].written_since = proc[p].written_since
      /\ proc'[p].beside = proc[p].beside
  BY <1>1 DEF Running, Fields_of_proc
<1>3. Op(p)' = Op(p)
  BY <1>2 DEF Op
<1>4. Running(p)'
  BY <1>1, <1>2, <1>3 DEF Running, Phases
<1>5. /\ fact_columns' = fact_columns /\ rows' = rows /\ metadata' = metadata
      /\ cluster_by' = cluster_by /\ sorted_by' = sorted_by
  BY DEF vars
<1>6. HasRead(p)'
  BY <1>1, <1>2, <1>3, <1>5 DEF HasRead
<1>7. SameOutside(metadata', Snapshot.metadata, proc'[p].written_since.described)
  BY <1>5, SnapshotFields DEF SameOutside
<1>8. Sees(p)'
  BY <1>2, <1>5, <1>7, SnapshotFields DEF Sees
<1> QED BY <1>2, <1>4, <1>6, <1>8 DEF Follows

LEMMA CleanupFollows ==
  ASSUME NEW p, NEW name \in DOMAIN Calls, Calls[name].op = "delete_rows",
         proc'[p] = [Cleanup EXCEPT !.call = name]
  PROVE  Follows(p)'
<1>1. /\ DOMAIN proc'[p] = Fields_of_proc
      /\ proc'[p].phase = "checked" /\ proc'[p].call = name /\ proc'[p].cleanup = TRUE
      /\ proc'[p].written_since = NoFootprint
  BY DEF Cleanup, Idle, Fields_of_proc
<1>2. Op(p)' = "delete_rows"
  BY <1>1 DEF Op
<1>3. Running(p)'
  BY <1>1, <1>2 DEF Running, Phases
<1>4. HasRead(p)'
  BY <1>2 DEF HasRead
<1> QED BY <1>1, <1>3, <1>4 DEF Follows

\* A statement of update_column_metadata writes one row of metadata, and leaves its
\* type and its key as they are.
RowRewritten(column) ==
  /\ fact_columns' = fact_columns /\ rows' = rows
  /\ cluster_by' = cluster_by /\ sorted_by' = sorted_by
  /\ metadata' \in [DOMAIN metadata -> MetadataRow]
  /\ \A x \in DOMAIN metadata :
       /\ x # column => metadata'[x] = metadata[x]
       /\ metadata'[x].is_primary_key = metadata[x].is_primary_key
       /\ metadata'[x].sql_type = metadata[x].sql_type

LEMMA RowTyped ==
  ASSUME TypedSnapshot(Snapshot), NEW column, RowRewritten(column)
  PROVE  TypedSnapshot(Snapshot)'
<1>1. TypedSnapshot(Snapshot) /\ get_primary_key_columns(metadata) = Keys
  BY SnapshotFields DEF TypedSnapshot
<1>2. DOMAIN metadata' = DOMAIN metadata
  BY DEF RowRewritten
<1>3. get_primary_key_columns(metadata') = get_primary_key_columns(metadata)
  BY <1>2 DEF RowRewritten, get_primary_key_columns
<1> QED BY <1>1, <1>2, <1>3, SnapshotFields, SnapshotFieldsNext DEF RowRewritten, TypedSnapshot

LEMMA RowMoves ==
  ASSUME NEW column, RowRewritten(column), NEW kinds,
         "links" \notin kinds =>
           ParentOf(metadata') = ParentOf(metadata) /\ LabelFor(metadata') = LabelFor(metadata)
  PROVE  Moves(Writes(column), kinds)
<1>1. DOMAIN metadata' = DOMAIN metadata
  BY DEF RowRewritten
<1>2. SqlType(metadata') = SqlType(metadata)
  BY <1>1 DEF RowRewritten, SqlType
<1>3. /\ Writes(column).described = {column} \cap DOMAIN metadata
      /\ Writes(column).stamped = FALSE /\ Writes(column).altered = FALSE
      /\ Writes(column).removed = {}
  BY DEF Writes, NoFootprint
<1>4. SameOutside(metadata', metadata, {column} \cap DOMAIN metadata)
  BY <1>1 DEF RowRewritten, SameOutside
<1> QED BY <1>2, <1>3, <1>4 DEF RowRewritten, Moves

\* The fields that a declaration passes.
LEMMA CallFields ==
  ASSUME NEW name \in DOMAIN Calls, Calls[name].op = "update_column_metadata"
  PROVE  Calls[name].fields \in Fields
BY SharedAssumption, FieldsTyped DEF WellFormed

LEMMA UpdateFieldsRewrites ==
  ASSUME TypedSnapshot(Snapshot), NEW p \in Processes, Follows(p), UpdateFields(p)
  PROVE  RowRewritten(Calls[proc[p].call].column)
<1> DEFINE call == Calls[proc[p].call]
<1>1. call.fields \in Fields
  BY CallFields DEF UpdateFields, Follows, Running
<1>2. metadata \in [DOMAIN metadata -> MetadataRow]
  BY SnapshotFields DEF TypedSnapshot
<1>3. metadata' = [c \in DOMAIN metadata |->
                        IF c # call.column THEN metadata[c]
                        ELSE [metadata[c] EXCEPT
                                !.parent_name = Merge(call.fields.parent_name, @),
                                !.label_for = Merge(call.fields.label_for, @),
                                !.is_categorical = Merge(call.fields.is_categorical, @)]]
  BY DEF UpdateFields
<1>4. ASSUME NEW x \in DOMAIN metadata
      PROVE  /\ metadata'[x] \in MetadataRow
             /\ x # call.column => metadata'[x] = metadata[x]
             /\ metadata'[x].is_primary_key = metadata[x].is_primary_key
             /\ metadata'[x].sql_type = metadata[x].sql_type
  <2>1. metadata[x] \in MetadataRow
    BY <1>2
  <2>2. CASE x # call.column
    BY <1>3, <2>1, <2>2
  <2>3. CASE x = call.column
    <3>1. metadata'[x] = [metadata[x] EXCEPT
                                !.parent_name = Merge(call.fields.parent_name, @),
                                !.label_for = Merge(call.fields.label_for, @),
                                !.is_categorical = Merge(call.fields.is_categorical, @)]
      BY <1>3, <2>3
    <3> HIDE DEF call
    <3> QED BY <1>1, <2>1, <2>3, <3>1 DEF MetadataRow, Merge, Fields
  <2> QED BY <2>2, <2>3
<1>5. metadata' \in [DOMAIN metadata -> MetadataRow]
  BY <1>3, <1>4
<1> QED BY <1>4, <1>5 DEF RowRewritten, UpdateFields

LEMMA ForceRewrites ==
  ASSUME TypedSnapshot(Snapshot), NEW p \in Processes, ForceCategorical(p)
  PROVE  LET end == IF proc[p].phase = "child" THEN Calls[proc[p].call].column
                    ELSE Calls[proc[p].call].fields.parent_name
         IN  /\ RowRewritten(end)
             /\ ParentOf(metadata') = ParentOf(metadata)
             /\ LabelFor(metadata') = LabelFor(metadata)
<1> DEFINE end == IF proc[p].phase = "child" THEN Calls[proc[p].call].column
                  ELSE Calls[proc[p].call].fields.parent_name
<1>2. metadata \in [DOMAIN metadata -> MetadataRow]
  BY SnapshotFields DEF TypedSnapshot
<1>3. /\ metadata' = [c \in DOMAIN metadata |->
                        IF c = end THEN [metadata[c] EXCEPT !.is_categorical = TRUE] ELSE metadata[c]]
      /\ fact_columns' = fact_columns /\ rows' = rows
      /\ cluster_by' = cluster_by /\ sorted_by' = sorted_by
  BY DEF ForceCategorical
<1> HIDE DEF end
<1>4. ASSUME NEW x \in DOMAIN metadata
      PROVE  /\ metadata'[x] \in MetadataRow
             /\ x # end => metadata'[x] = metadata[x]
             /\ metadata'[x].is_primary_key = metadata[x].is_primary_key
             /\ metadata'[x].sql_type = metadata[x].sql_type
             /\ metadata'[x].parent_name = metadata[x].parent_name
             /\ metadata'[x].label_for = metadata[x].label_for
  <2>1. metadata[x] \in MetadataRow
    BY <1>2
  <2>2. metadata'[x] \in {metadata[x], [metadata[x] EXCEPT !.is_categorical = TRUE]}
    BY <1>3
  <2>3. x # end => metadata'[x] = metadata[x]
    BY <1>3
  <2> QED BY <2>1, <2>2, <2>3 DEF MetadataRow
<1>5. metadata' \in [DOMAIN metadata -> MetadataRow]
  BY <1>3, <1>4
<1>6. RowRewritten(end)
  BY <1>3, <1>4, <1>5 DEF RowRewritten
<1>7. ParentOf(metadata') = ParentOf(metadata) /\ LabelFor(metadata') = LabelFor(metadata)
  BY <1>4, <1>5 DEF ParentOf, LabelFor
<1> QED BY <1>6, <1>7 DEF end

\* A process that returns to one of its statements.
LEMMA StatementFollows ==
  ASSUME NEW p, Running(p), NEW phase \in {"child", "parent"}, Op(p) = "update_column_metadata",
         Declares(Calls[proc[p].call].fields.parent_name), proc[p].phase # "idle",
         proc'[p] = [proc[p] EXCEPT !.phase = phase]
  PROVE  Follows(p)'
<1>1. /\ DOMAIN proc'[p] = Fields_of_proc
      /\ proc'[p].phase = phase /\ proc'[p].call = proc[p].call
      /\ proc'[p].cleanup = proc[p].cleanup
  BY DEF Running, Fields_of_proc
<1>2. Op(p)' = Op(p)
  BY <1>1 DEF Op
<1>3. Running(p)'
  BY <1>1, <1>2 DEF Running, Phases
<1> QED BY <1>1, <1>3 DEF Follows

\* What every step of a process comes down to.
LEMMA TakenStep ==
  ASSUME Followed, NEW p \in Processes, NEW next, NEW footprint, NEW kinds,
         Step(p, next, footprint, kinds), Moves(footprint, kinds), TypedSnapshot(Snapshot)',
         called' \subseteq DOMAIN Calls, Follows(p)'
  PROVE  Followed'
<1>1. ASSUME NEW q \in Processes, q # p
      PROVE  Follows(q)'
  BY <1>1, OthersFollow DEF Followed
<1> QED BY <1>1 DEF Followed

LEMMA CheckFollowed ==
  ASSUME Followed, NEW p \in Processes, Check(p)
  PROVE  Followed'
<1>. PICK name \in DOMAIN Calls \ called :
        /\ called' = called \cup {name}
        /\ \E read \in ReadsBeforeBegin(Calls[name]) :
             Step(p, [Idle EXCEPT !.phase = "checked", !.call = name, !.read = read], NoFootprint, {})
  BY DEF Check
<1>1. PICK read \in ReadsBeforeBegin(Calls[name]) :
        /\ called' = called \cup {name}
        /\ Step(p, [Idle EXCEPT !.phase = "checked", !.call = name, !.read = read], NoFootprint, {})
  OBVIOUS
<1>2. UNCHANGED vars
  BY DEF Check
<1>3. proc'[p] = [Idle EXCEPT !.phase = "checked", !.call = name, !.read = read]
  BY <1>1, StepTaken
<1>4. Follows(p)'
  BY <1>2, <1>3, CheckFollows DEF Followed
<1>5. TypedSnapshot(Snapshot)' /\ Moves(NoFootprint, {})
  BY <1>2, StillTyped, StillMoves DEF Followed
<1>6. called' \subseteq DOMAIN Calls
  BY <1>1 DEF Followed
<1> QED BY <1>1, <1>4, <1>5, <1>6, TakenStep

LEMMA BeginFollowed ==
  ASSUME Followed, NEW p \in Processes, Begin(p)
  PROVE  Followed'
<1>1. /\ Step(p, [proc[p] EXCEPT !.phase = "open", !.view = Snapshot], NoFootprint, {})
      /\ UNCHANGED vars /\ called' = called
      /\ proc[p].phase = "checked" /\ Op(p) # "update_column_metadata"
  BY DEF Begin
<1>2. proc'[p] = [proc[p] EXCEPT !.phase = "open", !.view = Snapshot]
  BY <1>1, StepTaken
<1>3. Follows(p)'
  BY <1>1, <1>2, BeginFollows DEF Followed
<1>4. TypedSnapshot(Snapshot)' /\ Moves(NoFootprint, {})
  BY <1>1, StillTyped, StillMoves DEF Followed
<1> QED BY <1>1, <1>3, <1>4, TakenStep DEF Followed

LEMMA StopFollowed ==
  ASSUME Followed, NEW p \in Processes, Rollback(p) \/ CutShort(p)
  PROVE  Followed'
<1>1. Step(p, Idle, NoFootprint, {}) /\ UNCHANGED vars /\ called' = called
  BY DEF Rollback, CutShort
<1>2. Follows(p)'
  BY <1>1, StepTaken, IdleFollows
<1>3. TypedSnapshot(Snapshot)' /\ Moves(NoFootprint, {})
  BY <1>1, StillTyped, StillMoves DEF Followed
<1> QED BY <1>1, <1>2, <1>3, TakenStep DEF Followed

\* What a commit is made of.
LEMMA CommitStores ==
  ASSUME NEW p, Commit(p)
  PROVE  \E change :
           /\ Stores(p, change)
           /\ Step(p, IF /\ Op(p) = "delete_rows" /\ ~ proc[p].cleanup /\ change.removed # {}
                         /\ Calls[proc[p].call].perform_cleanup
                      THEN [Cleanup EXCEPT !.call = proc[p].call] ELSE Idle,
                   Footprint(change),
                   Changed \cup (IF UnstampedRestore(p) THEN {"restored"} ELSE {}))
BY DEF Commit, Stores, Ready

LEMMA CommitFollowed ==
  ASSUME Followed, NEW p \in Processes, Commit(p)
  PROVE  Followed'
<1> DEFINE kinds == Changed \cup (IF UnstampedRestore(p) THEN {"restored"} ELSE {})
           cleans(change) == /\ Op(p) = "delete_rows" /\ ~ proc[p].cleanup /\ change.removed # {}
                             /\ Calls[proc[p].call].perform_cleanup
<1>1. PICK change :
        /\ Stores(p, change)
        /\ Step(p, IF cleans(change) THEN [Cleanup EXCEPT !.call = proc[p].call] ELSE Idle,
                Footprint(change), kinds)
  BY CommitStores
<1>2. called' = called
  BY DEF Commit
<1>3. Follows(p) /\ TypedSnapshot(Snapshot)
  BY DEF Followed
<1>4. Changed \subseteq kinds /\ (UnstampedRestore(p) => "restored" \in kinds)
  OBVIOUS
<1> HIDE DEF kinds
<1>5. Moves(Footprint(change), kinds)
  BY <1>1, <1>3, <1>4, StoreMoves
<1>6. TypedSnapshot(Snapshot)'
  BY <1>1, <1>3, StoreKeepsTypes
<1>7. Follows(p)'
  <2>1. CASE cleans(change)
    <3>1. proc'[p] = [Cleanup EXCEPT !.call = proc[p].call]
      BY <1>1, <2>1, StepTaken
    <3>2. proc[p].call \in DOMAIN Calls /\ Calls[proc[p].call].op = "delete_rows"
      BY <1>1, <1>3, <2>1 DEF Follows, Running, Stores, Ready, Op
    <3> QED BY <3>1, <3>2, CleanupFollows
  <2>2. CASE ~ cleans(change)
    BY <1>1, <2>2, StepTaken, IdleFollows
  <2> QED BY <2>1, <2>2
<1> HIDE DEF cleans
<1> QED BY <1>1, <1>2, <1>5, <1>6, <1>7, TakenStep DEF Followed

LEMMA UpdateFieldsFollowed ==
  ASSUME Followed, NEW p \in Processes, UpdateFields(p)
  PROVE  Followed'
<1> DEFINE call     == Calls[proc[p].call]
           declares == Declares(call.fields.parent_name)
<1>1. /\ proc[p].phase = "checked" /\ call.op = "update_column_metadata" /\ called' = called
      /\ Step(p, IF declares THEN [proc[p] EXCEPT !.phase = "child"] ELSE Idle,
              Writes(call.column), Changed)
  BY DEF UpdateFields
<1>2. Follows(p) /\ TypedSnapshot(Snapshot) /\ Running(p)
  BY DEF Followed, Follows
<1>3. RowRewritten(call.column)
  BY <1>2, UpdateFieldsRewrites
<1>4. TypedSnapshot(Snapshot)' /\ Moves(Writes(call.column), Changed)
  <2>1. "links" \notin Changed =>
           ParentOf(metadata') = ParentOf(metadata) /\ LabelFor(metadata') = LabelFor(metadata)
    BY DEF Changed
  <2> HIDE DEF call
  <2> QED BY <1>2, <1>3, <2>1, RowTyped, RowMoves
<1>5. Follows(p)'
  <2>1. CASE declares
    <3>1. proc'[p] = [proc[p] EXCEPT !.phase = "child"]
      BY <1>1, <2>1, StepTaken
    <3> QED BY <1>1, <1>2, <2>1, <3>1, StatementFollows DEF Op
  <2>2. CASE ~ declares
    BY <1>1, <2>2, StepTaken, IdleFollows
  <2> QED BY <2>1, <2>2
<1>6. called' \subseteq DOMAIN Calls
  BY <1>1 DEF Followed
<1> HIDE DEF call, declares
<1> QED BY <1>1, <1>4, <1>5, <1>6, TakenStep

LEMMA ForceFollowed ==
  ASSUME Followed, NEW p \in Processes, ForceCategorical(p)
  PROVE  Followed'
<1> DEFINE end == IF proc[p].phase = "child" THEN Calls[proc[p].call].column
                  ELSE Calls[proc[p].call].fields.parent_name
           footprint == IF metadata' = metadata THEN NoFootprint ELSE Writes(end)
<1>1. /\ proc[p].phase \in {"child", "parent"} /\ called' = called
      /\ Step(p, IF proc[p].phase = "child" THEN [proc[p] EXCEPT !.phase = "parent"] ELSE Idle,
              footprint, {})
      /\ UNCHANGED <<fact_columns, rows, cluster_by, sorted_by>>
  BY DEF ForceCategorical
<1>2. Running(p) /\ TypedSnapshot(Snapshot)
  BY DEF Followed, Follows
<1>3. /\ RowRewritten(end)
      /\ ParentOf(metadata') = ParentOf(metadata) /\ LabelFor(metadata') = LabelFor(metadata)
  BY <1>2, ForceRewrites
<1> HIDE DEF end
<1>4. TypedSnapshot(Snapshot)'
  BY <1>2, <1>3, RowTyped
<1>5. Moves(footprint, {})
  <2>1. CASE metadata' = metadata
    <3>1. UNCHANGED vars
      BY <1>1, <2>1 DEF vars
    <3> QED BY <2>1, <3>1, StillMoves
  <2>2. CASE metadata' # metadata
    <3>1. Moves(Writes(end), {})
      BY <1>3, RowMoves
    <3> QED BY <2>2, <3>1
  <2> QED BY <2>1, <2>2
<1>6. Follows(p)'
  <2>1. CASE proc[p].phase = "child"
    <3>1. proc'[p] = [proc[p] EXCEPT !.phase = "parent"]
      BY <1>1, <2>1, StepTaken
    <3> QED BY <1>1, <1>2, <2>1, <3>1, StatementFollows DEF Running
  <2>2. CASE proc[p].phase # "child"
    BY <1>1, <2>2, StepTaken, IdleFollows
  <2> QED BY <2>1, <2>2
<1>7. called' \subseteq DOMAIN Calls
  BY <1>1 DEF Followed
<1> HIDE DEF footprint
<1> QED BY <1>1, <1>4, <1>5, <1>6, <1>7, TakenStep

LEMMA InitFollowed == SharedInit => Followed
<1> SUFFICES ASSUME SharedInit PROVE Followed
  OBVIOUS
<1>1. Sound(Built) /\ Built.sorted_by = Built.cluster_by
  BY SharedAssumption
<1>2. TypedSnapshot(Snapshot)
  BY <1>1, SnapshotFields DEF SharedInit, Sound, TypedSnapshot, Keys, get_primary_key_columns
<1>3. ASSUME NEW q \in Processes
      PROVE  Follows(q)
  <2>1. proc[q] = Idle
    BY DEF SharedInit
  <2>2. DOMAIN proc[q] = Fields_of_proc
    BY <2>1, IdleFields
  <2> QED BY <2>1, <2>2 DEF Follows, Running, Idle, Phases
<1> QED BY <1>2, <1>3 DEF Followed, SharedInit

LEMMA StepFollowed == Followed /\ [SharedNext]_shared_vars => Followed'
<1> SUFFICES ASSUME Followed, [SharedNext]_shared_vars PROVE Followed'
  OBVIOUS
<1>1. CASE UNCHANGED shared_vars
  <2>1. /\ UNCHANGED vars /\ proc' = proc /\ called' = called
        /\ fact_columns' = fact_columns /\ rows' = rows /\ metadata' = metadata
        /\ cluster_by' = cluster_by /\ sorted_by' = sorted_by
    BY <1>1 DEF shared_vars, vars
  <2>2. TypedSnapshot(Snapshot)'
    BY <2>1, StillTyped DEF Followed
  <2>3. ASSUME NEW q \in Processes
        PROVE  Follows(q)'
    <3>1. Follows(q) /\ Op(q)' = Op(q)
      BY <2>1 DEF Followed, Op
    <3>2. Running(q)'
      BY <2>1, <3>1 DEF Follows, Running
    <3>3. HasRead(q) => HasRead(q)'
      BY <2>1, <3>1 DEF HasRead
    <3>4. Sees(q) => Sees(q)'
      BY <2>1 DEF Sees
    <3> QED BY <2>1, <3>1, <3>2, <3>3, <3>4 DEF Follows
  <2> QED BY <2>1, <2>2, <2>3 DEF Followed
<1>2. CASE SharedNext
  <2>1. PICK p \in Processes : ProcessStep(p)
    BY <1>2 DEF SharedNext
  <2> QED BY <2>1, CheckFollowed, BeginFollowed, StopFollowed, CommitFollowed,
             UpdateFieldsFollowed, ForceFollowed DEF ProcessStep
<1> QED BY <1>1, <1>2

-----------------------------------------------------------------------------
(* Rows are written on the rows that were read *)

LEMMA OpenedWriteBesideRestore ==
  ASSUME NEW p, "write beside restore" \notin Opened(p)
  PROVE  /\ UnstampedRestore(p) => "rows" \notin proc[p].beside
         /\ Op(p) = "update_database" \/ Restores(p, {"fact_table"}) =>
              "restored" \notin proc[p].beside
BY DEF Opened

\* Apart from that hole, the rows that a commit inserts are computed from all the
\* rows of the current snapshot, or are those it deletes.
LEMMA InsertsOnCurrent ==
  ASSUME NEW p \in Processes, Follows(p), NEW change, Ready(p, change),
         "write beside restore" \notin Opened(p)
  PROVE  \/ change.inserted = {}
         \/ Op(p) = "recluster" /\ change.removed = proc[p].view.rows
                                /\ change.inserted = proc[p].view.rows
         \/ /\ rows = proc[p].view.rows
            /\ \/ /\ Op(p) = "update_database"
                  /\ change \in update_database(proc[p].view, Calls[proc[p].call])
               \/ /\ Op(p) = "restore_snapshot" /\ change.removed = proc[p].view.rows
                  /\ change.inserted = proc[p].read.rows
<1> DEFINE view  == proc[p].view
           since == proc[p].written_since
           call  == Calls[proc[p].call]
           read  == proc[p].read
<1>1. Running(p) /\ HasRead(p) /\ Sees(p) /\ Op(p) # "update_column_metadata"
  BY DEF Follows, Ready, Running
<1>2. change \in Body(p, view) /\ proc[p].phase = "open"
  BY DEF Ready
<1>3. TypedSnapshot(view) /\ WellFormed(call) /\ Op(p) = call.op
  BY <1>1, <1>2, SharedAssumption DEF Sees, Running, Op
<1>4. ~ since.stamped /\ "restored" \notin proc[p].beside => rows = view.rows
  BY <1>1 DEF Sees
<1>5. change.stamped => ~ since.stamped
  BY NoConflict DEF Ready
<1> HIDE DEF call
<1>6. CASE proc[p].cleanup /\ change \in cleanup_null_only_columns(view)
  <2>1. change.inserted = {}
    BY <1>6 DEF cleanup_null_only_columns, drop_columns, NoChange
  <2> QED BY <2>1
<1>7. CASE Op(p) = "update_database" /\ change \in update_database(view, call)
  <2>1. change.stamped
    BY <1>3, <1>7, UpdateTyped
  <2>2. rows = view.rows
    BY <1>4, <1>5, <1>7, <2>1, OpenedWriteBesideRestore
  <2> QED BY <1>7, <2>2 DEF call
<1>8. CASE Op(p) = "delete_rows" /\ change \in delete_rows(view, call)
  <2>1. change.inserted = {}
    BY <1>8 DEF delete_rows, NoChange
  <2> QED BY <2>1
<1>9. CASE Op(p) = "delete_columns" /\ change \in drop_columns(view, call.columns, call.cascade)
  <2>1. change.inserted = {}
    BY <1>9 DEF drop_columns, NoChange
  <2> QED BY <2>1
<1>10. CASE Op(p) = "update_cluster_by" /\ change \in update_cluster_by(view, call)
  <2>1. change.inserted = {}
    BY <1>10 DEF update_cluster_by, NoChange
  <2> QED BY <2>1
<1>11. CASE Op(p) = "recluster" /\ change \in recluster(view, read)
  <2>1. change.removed = view.rows /\ change.inserted = view.rows
    BY <1>11 DEF recluster, NoChange
  <2> QED BY <1>11, <2>1
<1>12. CASE Op(p) = "restore_snapshot" /\ change \in restore_snapshot(view, call, read)
  <2>1. /\ change.removed = IF "fact_table" \in call.tables THEN view.rows ELSE {}
        /\ change.inserted = IF "fact_table" \in call.tables THEN read.rows ELSE {}
        /\ change.stamped = ("dataset_metadata" \in call.tables)
    BY <1>12 DEF restore_snapshot, NoChange
  <2>2. CASE "fact_table" \notin call.tables
    BY <2>1, <2>2
  <2>3. CASE "fact_table" \in call.tables
    <3>1. Restores(p, {"fact_table"})
      BY <1>12, <2>3 DEF Restores, call
    <3>2. CASE change.stamped
      BY <1>4, <1>5, <1>12, <2>1, <2>3, <3>1, <3>2, OpenedWriteBesideRestore
    <3>3. CASE ~ change.stamped
      <4>1. UnstampedRestore(p)
        BY <1>12, <2>1, <3>3 DEF UnstampedRestore, Restores, call
      <4>2. rows = view.rows
        BY <1>1, <4>1, OpenedWriteBesideRestore DEF Sees
      <4> QED BY <1>12, <2>1, <2>3, <4>2
    <3> QED BY <3>2, <3>3
  <2> QED BY <2>2, <2>3
<1> QED BY <1>1, <1>2, <1>6, <1>7, <1>8, <1>9, <1>10, <1>11, <1>12, BodyOf DEF call

LEMMA InsertsAreNew ==
  ASSUME NEW p \in Processes, Follows(p), NEW change, Ready(p, change),
         "write beside restore" \notin Opened(p)
  PROVE  change.inserted \cap (rows \ change.removed) = {}
<1> DEFINE view == proc[p].view
           call == Calls[proc[p].call]
<1>1. CASE change.inserted = {}
  BY <1>1
<1>2. CASE change.removed = view.rows /\ change.inserted = view.rows
  BY <1>2
<1>3. CASE rows = view.rows /\ change \in update_database(view, call)
  <2> DEFINE written == upsert_fact_table(view.rows, DOMAIN view.fact_columns, call.batch,
                                          DOMAIN call.types, get_primary_key_columns(view.metadata))
  <2>1. change.removed = view.rows \ written /\ change.inserted = written \ view.rows
    BY <1>3 DEF update_database, NoChange
  <2> HIDE DEF written
  <2> QED BY <1>3, <2>1
<1>4. CASE rows = view.rows /\ change.removed = view.rows
  BY <1>4
<1> QED BY <1>1, <1>2, <1>3, <1>4, InsertsOnCurrent

LEMMA FollowedTypes == Followed => SharedTypeOK
<1> SUFFICES ASSUME Followed PROVE SharedTypeOK
  OBVIOUS
<1>1. TypeOK
  BY SnapshotFields DEF Followed, TypedSnapshot, TypeOK
<1>2. ASSUME NEW p \in Processes
      PROVE  /\ proc[p].phase \in {"idle", "checked", "open", "child", "parent"}
             /\ proc[p].call \in DOMAIN Calls \cup {NULL}
  BY DEF Followed, Follows, Running, Phases
<1>3. ASSUME NEW p \in Processes, proc[p].phase = "open", NEW change \in Body(p, proc[p].view),
             ~ Conflicts(Footprint(change), proc[p].written_since),
             "write beside restore" \notin Opened(p)
      PROVE  change.inserted \cap (rows \ change.removed) = {}
  BY <1>3, InsertsAreNew DEF Followed, Ready
<1>4. called \subseteq DOMAIN Calls
  BY DEF Followed
<1> QED BY <1>1, <1>2, <1>3, <1>4 DEF SharedTypeOK

\* The tables keep their types, and rows that two processes insert are distinct,
\* whatever calls are made on however many connections: what a transaction computed
\* on the snapshot it read fits the later one it is committed to.
THEOREM SharedTypesHold == SharedSpec => []SharedTypeOK
<1> QED BY InitFollowed, StepFollowed, FollowedTypes, PTL DEF SharedSpec

-----------------------------------------------------------------------------
(* The sort key *)

\* The keys a commit computed on are the current ones where it writes them.
LEMMA ReadyKeys ==
  ASSUME NEW p \in Processes, Follows(p), NEW change, Ready(p, change)
  PROVE  /\ change.stamped => cluster_by = proc[p].view.cluster_by
                              /\ fact_columns = proc[p].view.fact_columns
         /\ change.altered => sorted_by = proc[p].view.sorted_by
                              /\ fact_columns = proc[p].view.fact_columns
<1>1. Sees(p)
  BY DEF Follows, Ready
<1>2. /\ ~ (change.stamped /\ proc[p].written_since.stamped)
      /\ proc[p].written_since.altered => ~ change.altered
  BY NoConflict DEF Ready
<1> QED BY <1>1, <1>2 DEF Sees

LEMMA StoredKeys ==
  ASSUME NEW p, NEW change, Stores(p, change)
  PROVE  /\ cluster_by' = IF change.stamped THEN change.cluster_by ELSE cluster_by
         /\ sorted_by' = IF change.altered THEN change.sorted_by ELSE sorted_by
         /\ fact_columns' = IF change.altered THEN change.fact_columns ELSE fact_columns
BY DEF Stores, Store

LEMMA DropSorts ==
  ASSUME NEW p \in Processes, Follows(p), NEW change, Stores(p, change), SortKeyAgrees,
         NEW dropped, NEW cascade, change \in drop_columns(proc[p].view, dropped, cascade)
  PROVE  SortKeyAgrees'
<1> DEFINE view     == proc[p].view
           sort_key == IF view.cluster_by \cap dropped # {} THEN view.cluster_by \ dropped
                       ELSE view.sorted_by
<1>1. /\ change.stamped = (dropped # {}) /\ change.altered = (dropped # {})
      /\ DOMAIN change.fact_columns = DOMAIN view.fact_columns \ dropped
      /\ change.cluster_by = view.cluster_by \ dropped
      /\ change.sorted_by = sort_key
  <2>1. Drops(change, view, dropped, cascade)
    BY DropWrites
  <2> QED BY <2>1 DEF Drops
<1>2. Ready(p, change)
  BY DEF Stores
<1>3. CASE dropped = {}
  <2>1. cluster_by' = cluster_by /\ sorted_by' = sorted_by /\ fact_columns' = fact_columns
    BY <1>1, <1>3, StoredKeys
  <2> QED BY <2>1 DEF SortKeyAgrees
<1>4. CASE dropped # {}
  <2>1. /\ cluster_by' = view.cluster_by \ dropped /\ sorted_by' = sort_key
        /\ DOMAIN fact_columns' = DOMAIN view.fact_columns \ dropped
    BY <1>1, <1>4, StoredKeys
  <2>2. /\ cluster_by = view.cluster_by /\ sorted_by = view.sorted_by
        /\ fact_columns = view.fact_columns
    BY <1>1, <1>2, <1>4, ReadyKeys
  <2> QED BY <2>1, <2>2 DEF SortKeyAgrees
<1> QED BY <1>3, <1>4

LEMMA OpenedSortKey ==
  ASSUME NEW p, "sort key" \notin Opened(p)
  PROVE  /\ Restores(p, {"dataset_metadata"}) => proc[p].read.cluster_by = sorted_by
         /\ Op(p) = "recluster" /\ proc[p].read.realign => "sort key" \notin proc[p].beside
BY DEF Opened

LEMMA CommitSorts ==
  ASSUME Followed, SortKeySurvivesWriters, NEW p \in Processes, Commit(p)
  PROVE  SortKeySurvivesWriters'
<1> DEFINE view == proc[p].view
           call == Calls[proc[p].call]
           read == proc[p].read
<1> SUFFICES ASSUME "sort key" \notin holes' PROVE SortKeyAgrees'
  BY DEF SortKeySurvivesWriters
<1>1. /\ "sort key" \notin Opened(p)
      /\ RepairsSortKey(p) \/ SortKeyAgrees
  BY DEF Commit, SortKeySurvivesWriters
<1>2. PICK change : Stores(p, change)
  BY CommitStores
<1>3. Follows(p) /\ Ready(p, change)
  BY <1>2 DEF Followed, Stores
<1>4. Running(p) /\ HasRead(p) /\ Op(p) # "update_column_metadata" /\ proc[p].phase = "open"
  BY <1>3 DEF Follows, Ready, Running
<1>5. change \in Body(p, view)
  BY <1>3 DEF Ready
<1> HIDE DEF call
<1>6. CASE proc[p].cleanup /\ change \in cleanup_null_only_columns(view)
  <2>1. \E dropped : change \in drop_columns(view, dropped, FALSE)
    BY <1>6 DEF cleanup_null_only_columns
  <2>2. Op(p) = "delete_rows"
    BY <1>4, <1>6 DEF Running
  <2>3. SortKeyAgrees
    BY <1>1, <2>2 DEF RepairsSortKey
  <2> QED BY <1>2, <1>3, <2>1, <2>3, DropSorts
<1>7. CASE Op(p) = "update_database" /\ change \in update_database(view, call)
  <2>1. /\ change.stamped = TRUE
        /\ change.cluster_by = view.cluster_by /\ change.sorted_by = view.sorted_by
        /\ DOMAIN change.fact_columns = DOMAIN view.fact_columns
    <3>1. Updates(change, view, call)
      BY <1>7, UpdateWrites
    <3> QED BY <3>1 DEF Updates
  <2>3. change.altered \in BOOLEAN
    BY <1>2, <1>3, StoredChange DEF TypedChange
  <2>4. /\ cluster_by' = IF change.stamped THEN change.cluster_by ELSE cluster_by
        /\ sorted_by' = IF change.altered THEN change.sorted_by ELSE sorted_by
        /\ fact_columns' = IF change.altered THEN change.fact_columns ELSE fact_columns
    BY <1>2, StoredKeys
  <2>5. /\ change.stamped => cluster_by = view.cluster_by
                             /\ fact_columns = view.fact_columns
        /\ change.altered => sorted_by = view.sorted_by
                             /\ fact_columns = view.fact_columns
    BY <1>3, ReadyKeys
  <2>6. cluster_by' = cluster_by
    BY <2>1, <2>4, <2>5
  <2>7. sorted_by' = sorted_by /\ DOMAIN fact_columns' = DOMAIN fact_columns
    <3>1. CASE change.altered
      BY <2>1, <2>4, <2>5, <3>1
    <3>2. CASE ~ change.altered
      BY <2>4, <3>2
    <3> QED BY <3>1, <3>2
  <2>8. SortKeyAgrees
    BY <1>1, <1>7 DEF RepairsSortKey
  <2> QED BY <2>6, <2>7, <2>8 DEF SortKeyAgrees
<1>8. CASE Op(p) = "delete_rows" /\ change \in delete_rows(view, call)
  <2>1. change.altered = FALSE /\ change.cluster_by = view.cluster_by
    BY <1>8 DEF delete_rows, NoChange
  <2>2. cluster_by' = cluster_by /\ sorted_by' = sorted_by /\ fact_columns' = fact_columns
    BY <1>2, <1>3, <2>1, StoredKeys, ReadyKeys
  <2> QED BY <1>1, <1>8, <2>2 DEF RepairsSortKey, SortKeyAgrees
<1>9. CASE Op(p) = "delete_columns" /\ change \in drop_columns(view, call.columns, call.cascade)
  <2>1. SortKeyAgrees
    BY <1>1, <1>9 DEF RepairsSortKey
  <2> QED BY <1>2, <1>3, <1>9, <2>1, DropSorts
<1>10. CASE Op(p) = "update_cluster_by" /\ change \in update_cluster_by(view, call)
  <2>1. /\ change.stamped = TRUE /\ change.altered = TRUE
        /\ change.cluster_by = call.columns /\ change.sorted_by = call.columns
        /\ call.columns \subseteq DOMAIN change.fact_columns
    BY <1>10 DEF update_cluster_by, NoChange
  <2> QED BY <1>2, <2>1, StoredKeys DEF SortKeyAgrees
<1>11. CASE Op(p) = "recluster" /\ change \in recluster(view, read)
  <2>1. /\ change.stamped = FALSE /\ change.altered = read.realign
        /\ change.fact_columns = view.fact_columns
        /\ change.sorted_by = IF read.realign THEN read.sort_columns ELSE view.sorted_by
        /\ read.realign => read.sort_columns \subseteq DOMAIN view.fact_columns
    BY <1>11 DEF recluster, NoChange
  <2>2. CASE read.realign
    <3>1. read.sort_columns = cluster_by
      BY <1>1, <1>4, <1>11, <2>2, OpenedSortKey DEF HasRead
    <3> QED BY <1>2, <2>1, <2>2, <3>1, StoredKeys DEF SortKeyAgrees
  <2>3. CASE ~ read.realign
    <3>1. SortKeyAgrees
      BY <1>1, <1>11, <2>3 DEF RepairsSortKey
    <3> QED BY <1>2, <2>1, <2>3, <3>1, StoredKeys DEF SortKeyAgrees
  <2> QED BY <2>2, <2>3
<1>12. CASE Op(p) = "restore_snapshot" /\ change \in restore_snapshot(view, call, read)
  <2>1. /\ change.altered = FALSE
        /\ change.stamped = ("dataset_metadata" \in call.tables)
        /\ "dataset_metadata" \in call.tables => change.cluster_by = read.cluster_by
    BY <1>12 DEF restore_snapshot, NoChange
  <2>2. SortKeyAgrees
    BY <1>1, <1>12 DEF RepairsSortKey
  <2>3. "dataset_metadata" \in call.tables => read.cluster_by = sorted_by
    BY <1>1, <1>12, OpenedSortKey DEF Restores, call
  <2>4. /\ cluster_by' = IF change.stamped THEN change.cluster_by ELSE cluster_by
        /\ sorted_by' = IF change.altered THEN change.sorted_by ELSE sorted_by
        /\ fact_columns' = IF change.altered THEN change.fact_columns ELSE fact_columns
    BY <1>2, StoredKeys
  <2>5. sorted_by' = sorted_by /\ fact_columns' = fact_columns
    BY <2>1, <2>4
  <2>6. cluster_by' = cluster_by \/ cluster_by' = sorted_by
    BY <2>1, <2>3, <2>4
  <2> QED BY <2>2, <2>5, <2>6 DEF SortKeyAgrees
<1> QED BY <1>4, <1>5, <1>6, <1>7, <1>8, <1>9, <1>10, <1>11, <1>12, BodyOf DEF call

LEMMA StepSorts ==
  Followed /\ SortKeySurvivesWriters /\ [SharedNext]_shared_vars => SortKeySurvivesWriters'
<1> SUFFICES ASSUME Followed, SortKeySurvivesWriters, [SharedNext]_shared_vars
             PROVE  SortKeySurvivesWriters'
  OBVIOUS
<1>1. CASE UNCHANGED shared_vars
  BY <1>1 DEF shared_vars, vars, SortKeySurvivesWriters, SortKeyAgrees
<1>2. CASE SharedNext
  <2>1. PICK p \in Processes : ProcessStep(p)
    BY <1>2 DEF SharedNext
  <2>2. CASE Check(p) \/ Begin(p) \/ Rollback(p) \/ UpdateFields(p) \/ ForceCategorical(p) \/ CutShort(p)
    <3>1. /\ cluster_by' = cluster_by /\ sorted_by' = sorted_by /\ fact_columns' = fact_columns
          /\ holes \subseteq holes'
      BY <2>2 DEF Check, Begin, Rollback, UpdateFields, ForceCategorical, CutShort, vars
    <3> QED BY <3>1 DEF SortKeySurvivesWriters, SortKeyAgrees
  <2>3. CASE Commit(p)
    BY <2>1, <2>3, CommitSorts
  <2> QED BY <2>1, <2>2, <2>3 DEF ProcessStep
<1> QED BY <1>1, <1>2

\* cluster_by is the key DuckLake applies, on however many connections the sort key
\* is declared, columns of it dropped, the table reclustered and snapshots restored:
\* only a restore of dataset_metadata, or a recluster under a key read before it
\* changed, parts them, until the next call that writes both.
THEOREM SortKeysSurviveWriters == SharedSpec => []SortKeySurvivesWriters
<1>1. SharedInit => SortKeySurvivesWriters
  BY SharedAssumption DEF SharedInit, SortKeySurvivesWriters, SortKeyAgrees, Sound
<1> QED BY <1>1, InitFollowed, StepFollowed, StepSorts, PTL DEF SharedSpec

-----------------------------------------------------------------------------
(* The keys *)

\* The rows that a commit leaves keep distinct keys: those it keeps come from
\* distinct rows, and those it inserts were computed on the very rows they join.
RowsKeyed == "write beside restore" \notin holes => UniqueOn(rows, Keys)

LEMMA ProjectedUnique ==
  ASSUME NEW table, UniqueOn(table, Keys), NEW cols, Keys \subseteq cols
  PROVE  UniqueOn({projected(r, cols) : r \in table}, Keys)
<1> SUFFICES ASSUME NEW r \in table, NEW s \in table,
                    SameKey(projected(r, cols), projected(s, cols), Keys)
             PROVE  projected(r, cols) = projected(s, cols)
  BY DEF UniqueOn
<1>1. SameKey(r, s, Keys)
  BY DEF SameKey, projected
<1> QED BY <1>1 DEF UniqueOn

\* The rows that a commit puts together, before they lose the dropped columns.
LEMMA JoinedRowsUnique ==
  ASSUME TypedSnapshot(Snapshot), NEW p \in Processes, Follows(p), NEW change, Stores(p, change),
         "write beside restore" \notin Opened(p), UniqueOn(rows, Keys)
  PROVE  UniqueOn((rows \ change.removed) \cup change.inserted, Keys)
<1> DEFINE view  == proc[p].view
           since == proc[p].written_since
           call  == Calls[proc[p].call]
           read  == proc[p].read
           left  == (rows \ change.removed) \cup change.inserted
<1>1. Running(p) /\ HasRead(p) /\ Sees(p) /\ TypedSnapshot(view) /\ Ready(p, change)
  BY DEF Follows, Stores, Ready, Sees
<1>2. WellFormed(call) /\ Op(p) = call.op
  BY <1>1, SharedAssumption DEF Running, Op, Ready
<1>3. CASE change.inserted = {}
  BY <1>3 DEF UniqueOn
<1>4. CASE change.removed = view.rows /\ change.inserted = view.rows /\ view.rows # {}
  <2>1. ~ since.altered /\ change.removed \cap since.removed = {}
    BY <1>1, <1>4, NoConflict DEF Ready
  <2>2. view.rows \subseteq rows
    BY <1>1, <1>4, <2>1 DEF Sees
  <2>3. left = rows
    BY <1>4, <2>2
  <2> QED BY <2>3
<1>5. CASE rows = view.rows /\ Op(p) = "update_database" /\ change \in update_database(view, call)
  <2>1. /\ DOMAIN call.types \subseteq DOMAIN view.fact_columns
        /\ change.removed = view.rows \ WrittenRows(view, call)
        /\ change.inserted = WrittenRows(view, call) \ view.rows
    <3>1. Updates(change, view, call)
      BY <1>5, UpdateWrites
    <3> QED BY <3>1 DEF Updates
  <2>2. left = WrittenRows(view, call)
    BY <1>5, <2>1
  <2>3. check_batch_keys(call.batch, DOMAIN call.types, Keys) /\ UniqueOn(call.batch, Keys)
    BY <1>1, <1>5 DEF HasRead
  <2>4. call.batch \in SUBSET RowsOver(DOMAIN call.types)
    BY <1>2, <1>5 DEF WellFormed
  <2>5. get_primary_key_columns(view.metadata) = Keys /\ UniqueOn(view.rows, Keys)
    BY <1>1, <1>5 DEF TypedSnapshot
  <2>6. UniqueOn(WrittenRows(view, call), Keys)
    BY <2>1, <2>3, <2>4, <2>5, UpsertUnique DEF WrittenRows
  <2> QED BY <2>2, <2>6
<1>6. CASE rows = view.rows /\ Op(p) = "restore_snapshot" /\ change.removed = view.rows
           /\ change.inserted = read.rows
  <2>1. left = read.rows
    BY <1>6
  <2>2. read \in History
    BY <1>1, <1>6 DEF HasRead
  <2>3. UniqueOn(read.rows, Keys)
    BY <2>2, SharedAssumption DEF Sound, Keys
  <2> QED BY <2>1, <2>3
<1> QED BY <1>1, <1>3, <1>4, <1>5, <1>6, InsertsOnCurrent

LEMMA StepKeysRows == Followed /\ RowsKeyed /\ [SharedNext]_shared_vars => RowsKeyed'
<1> SUFFICES ASSUME Followed, RowsKeyed, [SharedNext]_shared_vars,
                    "write beside restore" \notin holes'
             PROVE  UniqueOn(rows, Keys)'
  BY DEF RowsKeyed
<1>1. CASE UNCHANGED shared_vars
  BY <1>1 DEF shared_vars, vars, RowsKeyed, UniqueOn, Keys
<1>2. CASE SharedNext
  <2>1. PICK p \in Processes : ProcessStep(p)
    BY <1>2 DEF SharedNext
  <2>2. CASE Check(p) \/ Begin(p) \/ Rollback(p) \/ UpdateFields(p) \/ ForceCategorical(p) \/ CutShort(p)
    <3>1. rows' = rows /\ holes \subseteq holes'
      BY <2>2 DEF Check, Begin, Rollback, UpdateFields, ForceCategorical, CutShort, vars
    <3> QED BY <3>1 DEF RowsKeyed
  <2>3. CASE Commit(p)
    <3>1. PICK change : Stores(p, change)
      BY <2>3, CommitStores
    <3>2. "write beside restore" \notin Opened(p) /\ "write beside restore" \notin holes
      BY <2>3 DEF Commit
    <3>3. TypedSnapshot(Snapshot) /\ Follows(p)
      BY DEF Followed
    <3>4. UniqueOn((rows \ change.removed) \cup change.inserted, Keys)
      BY <3>1, <3>2, <3>3, JoinedRowsUnique DEF RowsKeyed
    <3>5. Keys \subseteq DOMAIN fact_columns'
      BY <3>1, <3>3, StoredColumns
    <3>6. rows' = {projected(r, DOMAIN fact_columns') :
                     r \in (rows \ change.removed) \cup change.inserted}
      BY <3>1 DEF Stores, Store
    <3> QED BY <3>4, <3>5, <3>6, ProjectedUnique
  <2> QED BY <2>1, <2>2, <2>3 DEF ProcessStep
<1> QED BY <1>1, <1>2

-----------------------------------------------------------------------------
(* What metadata says of the table *)

\* metadata has a row for each column, with its type.
Describes(s) ==
  /\ DOMAIN s.metadata = DOMAIN s.fact_columns
  /\ \A c \in DOMAIN s.metadata : s.metadata[c].sql_type = s.fact_columns[c]

\* The current snapshot describes its table, and so do those that transactions read.
Describing ==
  holes \cap {"metadata restored", "restore beside columns"} = {} =>
    /\ Describes(Snapshot)
    /\ \A q \in Processes : proc[q].phase = "open" => Describes(proc[q].view)

LEMMA DescribesNow == Describes(Snapshot) <=> MetadataDescribesFactTable
BY SnapshotFields DEF Describes, MetadataDescribesFactTable

LEMMA DescribesNext ==
  Describes(Snapshot)' <=> /\ DOMAIN metadata' = DOMAIN fact_columns'
                           /\ \A c \in DOMAIN metadata' : metadata'[c].sql_type = fact_columns'[c]
BY SnapshotFieldsNext DEF Describes

LEMMA StoredTables ==
  ASSUME NEW p, NEW change, Stores(p, change)
  PROVE  /\ fact_columns' = IF change.altered THEN change.fact_columns ELSE fact_columns
         /\ DOMAIN metadata' = (DOMAIN metadata \ change.undescribed) \cup DOMAIN change.described
         /\ \A c \in DOMAIN metadata' :
              metadata'[c] = IF c \in DOMAIN change.described THEN change.described[c]
                             ELSE metadata[c]
BY DEF Stores, Store

\* A call that leaves the columns and the rows of metadata alone.
LEMMA UndescribedStores ==
  ASSUME Describes(Snapshot), NEW p \in Processes, Follows(p), NEW change, Stores(p, change),
         change.fact_columns = proc[p].view.fact_columns,
         change.described = << >>, change.undescribed = {}
  PROVE  Describes(Snapshot)'
<1>1. fact_columns' = fact_columns
  <2>1. change.altered => fact_columns = proc[p].view.fact_columns
    BY WrittenTable
  <2> QED BY <2>1, StoredTables
<1>2. DOMAIN metadata' = DOMAIN metadata /\ \A c \in DOMAIN metadata' : metadata'[c] = metadata[c]
  BY StoredTables, NothingDescribed
<1> QED BY <1>1, <1>2, DescribesNow, DescribesNext DEF MetadataDescribesFactTable

LEMMA UpdateDescribes ==
  ASSUME Describes(Snapshot), NEW p \in Processes, Follows(p), NEW change, Stores(p, change),
         NEW call, change \in update_database(proc[p].view, call)
  PROVE  Describes(Snapshot)'
<1> DEFINE view     == proc[p].view
           resolved == Resolved(view, call)
           retyped  == RetypedColumns(view, call)
<1>1. /\ DOMAIN call.types \subseteq DOMAIN view.fact_columns
      /\ change.stamped = TRUE /\ change.altered = (retyped # {})
      /\ change.fact_columns = [c \in DOMAIN view.fact_columns |->
                                  IF c \in retyped THEN resolved[c] ELSE view.fact_columns[c]]
      /\ change.described = [c \in retyped |->
                               [view.metadata[c] EXCEPT !.sql_type = resolved[c]]]
      /\ change.undescribed = {}
  <2>1. Updates(change, view, call)
    BY UpdateWrites
  <2> QED BY <2>1 DEF Updates
<1>2. fact_columns = view.fact_columns
  BY <1>1, WrittenTable
<1>3. /\ DOMAIN metadata = DOMAIN fact_columns
      /\ \A c \in DOMAIN metadata : metadata[c].sql_type = fact_columns[c]
  BY DescribesNow DEF MetadataDescribesFactTable
<1>4. retyped \subseteq DOMAIN call.types /\ retyped \subseteq DOMAIN view.metadata
  BY DEF RetypedColumns, Resolved
<1>5. \A c \in DOMAIN view.metadata : view.metadata[c] \in MetadataRow
  BY StoredChange, KeyRows
<1>6. \A c \in retyped : change.described[c].sql_type = resolved[c]
  <2> HIDE DEF retyped, resolved
  <2> QED BY <1>1, <1>4, <1>5 DEF MetadataRow
<1> HIDE DEF retyped, resolved
<1>7. /\ DOMAIN fact_columns' = DOMAIN fact_columns
      /\ \A c \in DOMAIN fact_columns :
           fact_columns'[c] = IF c \in retyped THEN resolved[c] ELSE fact_columns[c]
  <2>1. CASE retyped = {}
    BY <1>1, <2>1, StoredTables
  <2>2. CASE retyped # {}
    <3>1. fact_columns' = change.fact_columns
      BY <1>1, <2>2, StoredTables
    <3> QED BY <1>1, <1>2, <3>1
  <2> QED BY <2>1, <2>2
<1>8. DOMAIN change.described = retyped
  BY <1>1
<1>9. DOMAIN metadata' = DOMAIN metadata
  BY <1>1, <1>2, <1>3, <1>4, <1>8, StoredTables
<1>10. ASSUME NEW c \in DOMAIN metadata PROVE metadata'[c].sql_type = fact_columns'[c]
  <2>1. metadata'[c] = IF c \in retyped THEN change.described[c] ELSE metadata[c]
    BY <1>8, <1>9, StoredTables
  <2> QED BY <1>3, <1>6, <1>7, <2>1
<1> QED BY <1>3, <1>7, <1>9, <1>10, DescribesNext

LEMMA DropDescribes ==
  ASSUME Describes(Snapshot), NEW p \in Processes, Follows(p), NEW change, Stores(p, change),
         Describes(proc[p].view), NEW dropped, NEW cascade,
         change \in drop_columns(proc[p].view, dropped, cascade)
  PROVE  Describes(Snapshot)'
<1> DEFINE view  == proc[p].view
           since == proc[p].written_since
           left  == metadata_without(view.metadata, dropped, cascade)
<1>1. /\ change.stamped = (dropped # {}) /\ change.altered = (dropped # {})
      /\ change.fact_columns = [c \in DOMAIN view.fact_columns \ dropped |-> view.fact_columns[c]]
      /\ change.described = Rewritten(view.metadata, left)
      /\ change.undescribed = dropped \cap DOMAIN view.metadata
  <2>1. Drops(change, view, dropped, cascade)
    BY DropWrites
  <2> QED BY <2>1 DEF Drops
<1>2. /\ DOMAIN metadata = DOMAIN fact_columns
      /\ \A c \in DOMAIN metadata : metadata[c].sql_type = fact_columns[c]
  BY DescribesNow DEF MetadataDescribesFactTable
<1>3. DOMAIN view.metadata = DOMAIN view.fact_columns
  BY DEF Describes
<1>4. /\ DOMAIN left = DOMAIN view.metadata \ dropped
      /\ \A c \in DOMAIN left : left[c].sql_type = view.metadata[c].sql_type
  BY DEF metadata_without
<1> HIDE DEF left
<1>5. DOMAIN change.described \subseteq DOMAIN left
  BY <1>1 DEF Rewritten
<1>6. ASSUME NEW c \in DOMAIN change.described
      PROVE  /\ c \in DOMAIN metadata
             /\ change.described[c].sql_type = metadata[c].sql_type
  <2>1. c \notin since.described
    BY NoConflict DEF Stores, Ready
  <2>2. SameOutside(metadata, view.metadata, since.described)
    BY DEF Stores, Ready, Follows, Sees
  <2>3. c \in DOMAIN metadata /\ metadata[c] = view.metadata[c]
    BY <1>4, <1>5, <2>1, <2>2 DEF SameOutside
  <2>4. change.described[c] = left[c]
    BY <1>1 DEF Rewritten
  <2> QED BY <1>4, <1>5, <2>3, <2>4
<1>7. DOMAIN fact_columns' = DOMAIN fact_columns \ dropped
      /\ \A c \in DOMAIN fact_columns' : fact_columns'[c] = fact_columns[c]
  <2>1. CASE dropped = {}
    BY <1>1, <2>1, StoredTables
  <2>2. CASE dropped # {}
    <3>1. fact_columns = view.fact_columns
      BY <1>1, <2>2, WrittenTable
    <3>2. fact_columns' = change.fact_columns
      BY <1>1, <2>2, StoredTables
    <3> QED BY <1>1, <3>1, <3>2
  <2> QED BY <2>1, <2>2
<1>8. DOMAIN metadata' = DOMAIN metadata \ dropped
  <2>1. dropped # {} => fact_columns = view.fact_columns
    BY <1>1, WrittenTable
  <2>2. DOMAIN metadata \ change.undescribed = DOMAIN metadata \ dropped
    BY <1>1, <1>2, <1>3, <2>1
  <2>3. DOMAIN change.described \cap dropped = {}
    BY <1>4, <1>5
  <2>4. DOMAIN change.described \subseteq DOMAIN metadata
    BY <1>6
  <2> QED BY <2>2, <2>3, <2>4, StoredTables
<1>9. ASSUME NEW c \in DOMAIN metadata' PROVE metadata'[c].sql_type = fact_columns'[c]
  <2>1. metadata'[c].sql_type = metadata[c].sql_type
    BY <1>6, StoredTables
  <2> QED BY <1>2, <1>7, <1>8, <2>1
<1> QED BY <1>2, <1>7, <1>8, <1>9, DescribesNext

\* A restore that is not beside a change of columns, and that puts back the rows of
\* fact_table with those of metadata.
LEMMA RestoreDescribes ==
  ASSUME Describes(Snapshot), NEW p \in Processes, Follows(p), NEW change, Stores(p, change),
         Describes(proc[p].view), Op(p) = "restore_snapshot",
         change \in restore_snapshot(proc[p].view, Calls[proc[p].call], proc[p].read),
         "columns" \notin proc[p].beside,
         Restores(p, {"metadata"}) => Restores(p, {"fact_table"})
  PROVE  Describes(Snapshot)'
<1> DEFINE view == proc[p].view
           call == Calls[proc[p].call]
           read == proc[p].read
<1>1. /\ change.altered = FALSE /\ change.fact_columns = view.fact_columns
      /\ change.undescribed = IF "metadata" \in call.tables THEN DOMAIN view.metadata ELSE {}
      /\ change.described = IF "metadata" \in call.tables THEN read.metadata ELSE << >>
  BY DEF restore_snapshot, NoChange
<1>2. CASE "metadata" \notin call.tables
  BY <1>1, <1>2, UndescribedStores
<1>3. CASE "metadata" \in call.tables
  <2>1. "fact_table" \in call.tables
    BY <1>3 DEF Restores
  <2>2. read \in History /\ fact_columns = read.fact_columns
    BY <2>1 DEF Follows, HasRead, Stores, Ready
  <2>3. /\ read.metadata \in [DOMAIN read.fact_columns -> MetadataRow]
        /\ \A c \in DOMAIN read.fact_columns : read.metadata[c].sql_type = read.fact_columns[c]
    BY <2>2, SharedAssumption DEF Sound
  <2>4. fact_columns = view.fact_columns
    BY DEF Follows, Sees, Stores, Ready
  <2>5. DOMAIN view.metadata = DOMAIN fact_columns /\ DOMAIN metadata = DOMAIN fact_columns
    BY <2>4, DescribesNow DEF Describes, MetadataDescribesFactTable
  <2>6. DOMAIN change.described = DOMAIN fact_columns /\ change.undescribed = DOMAIN fact_columns
        /\ change.described = read.metadata
    BY <1>1, <1>3, <2>2, <2>3, <2>5
  <2>7. fact_columns' = fact_columns
    BY <1>1, StoredTables
  <2>8. DOMAIN metadata' = DOMAIN fact_columns
    <3>1. DOMAIN metadata' = (DOMAIN metadata \ change.undescribed) \cup DOMAIN change.described
      BY StoredTables
    <3> QED BY <2>5, <2>6, <3>1
  <2>9. \A c \in DOMAIN metadata' : metadata'[c] = read.metadata[c]
    BY <2>6, <2>8, StoredTables
  <2> QED BY <2>2, <2>3, <2>7, <2>8, <2>9, DescribesNext
<1> QED BY <1>2, <1>3

LEMMA OpenedRestores ==
  ASSUME NEW p, Opened(p) \cap {"metadata restored", "restore beside columns"} = {},
         Op(p) = "restore_snapshot"
  PROVE  /\ "columns" \notin proc[p].beside
         /\ Restores(p, {"metadata"}) => Restores(p, {"fact_table"})
BY DEF Opened

LEMMA CommitDescribes ==
  ASSUME Followed, NEW p \in Processes, NEW change, Stores(p, change),
         Describes(Snapshot), Describes(proc[p].view),
         Opened(p) \cap {"metadata restored", "restore beside columns"} = {}
  PROVE  Describes(Snapshot)'
<1> DEFINE view == proc[p].view
           call == Calls[proc[p].call]
           read == proc[p].read
<1>1. Follows(p) /\ Ready(p, change)
  BY DEF Followed, Stores
<1>2. Running(p) /\ Op(p) # "update_column_metadata" /\ proc[p].phase = "open"
  BY <1>1 DEF Follows, Ready, Running
<1>3. change \in Body(p, view)
  BY <1>1 DEF Ready
<1> HIDE DEF call
<1>4. CASE proc[p].cleanup /\ change \in cleanup_null_only_columns(view)
  <2>1. \E dropped : change \in drop_columns(view, dropped, FALSE)
    BY <1>4 DEF cleanup_null_only_columns
  <2> QED BY <1>1, <2>1, DropDescribes
<1>5. CASE Op(p) = "update_database" /\ change \in update_database(view, call)
  BY <1>1, <1>5, UpdateDescribes
<1>6. CASE Op(p) = "delete_rows" /\ change \in delete_rows(view, call)
  <2>1. change.fact_columns = view.fact_columns /\ change.described = << >> /\ change.undescribed = {}
    BY <1>6 DEF delete_rows, NoChange
  <2> QED BY <1>1, <2>1, UndescribedStores
<1>7. CASE Op(p) = "delete_columns" /\ change \in drop_columns(view, call.columns, call.cascade)
  BY <1>1, <1>7, DropDescribes
<1>8. CASE Op(p) = "update_cluster_by" /\ change \in update_cluster_by(view, call)
  <2>1. change.fact_columns = view.fact_columns /\ change.described = << >> /\ change.undescribed = {}
    BY <1>8 DEF update_cluster_by, NoChange
  <2> QED BY <1>1, <2>1, UndescribedStores
<1>9. CASE Op(p) = "recluster" /\ change \in recluster(view, read)
  <2>1. change.fact_columns = view.fact_columns /\ change.described = << >> /\ change.undescribed = {}
    BY <1>9 DEF recluster, NoChange
  <2> QED BY <1>1, <2>1, UndescribedStores
<1>10. CASE Op(p) = "restore_snapshot" /\ change \in restore_snapshot(view, call, read)
  BY <1>1, <1>10, OpenedRestores, RestoreDescribes DEF call
<1> QED BY <1>2, <1>3, <1>4, <1>5, <1>6, <1>7, <1>8, <1>9, <1>10, BodyOf DEF call

\* A step of update_column_metadata rewrites the links of one row.
LEMMA RowDescribes ==
  ASSUME Describes(Snapshot), NEW column, RowRewritten(column)
  PROVE  Describes(Snapshot)'
BY DescribesNow, DescribesNext DEF RowRewritten, MetadataDescribesFactTable

\* The views that are open after a step were open before it, but for the one of a
\* process that has just begun.
LEMMA ViewsStay ==
  ASSUME Followed, NEW p \in Processes, NEW next, NEW footprint, NEW kinds,
         Step(p, next, footprint, kinds), next.phase # "open",
         \A q \in Processes : proc[q].phase = "open" => Describes(proc[q].view)
  PROVE  \A q \in Processes : proc'[q].phase = "open" => Describes(proc'[q].view)
<1> SUFFICES ASSUME NEW q \in Processes, proc'[q].phase = "open" PROVE Describes(proc'[q].view)
  OBVIOUS
<1>1. q # p
  BY StepTaken
<1>2. DOMAIN proc[q] = Fields_of_proc
  BY DEF Followed, Follows, Running
<1>3. SeenBy(q, footprint, kinds)
  BY <1>1, <1>2, StepSeen
<1> QED BY <1>3 DEF SeenBy

LEMMA StepDescribing == Followed /\ Describing /\ [SharedNext]_shared_vars => Describing'
<1> SUFFICES ASSUME Followed, Describing, [SharedNext]_shared_vars,
                    holes' \cap {"metadata restored", "restore beside columns"} = {}
             PROVE  /\ Describes(Snapshot)'
                    /\ \A q \in Processes : proc'[q].phase = "open" => Describes(proc'[q].view)
  BY DEF Describing
<1>1. CASE UNCHANGED shared_vars
  BY <1>1, DescribesNow, DescribesNext
     DEF shared_vars, vars, Describing, MetadataDescribesFactTable
<1>2. CASE SharedNext
  <2>1. PICK p \in Processes : ProcessStep(p)
    BY <1>2 DEF SharedNext
  <2>2. \A f \in Fields_of_proc : f \in DOMAIN proc[p]
    BY DEF Followed, Follows, Running
  <2>3. holes \subseteq holes' \cup {"sort key"}
    BY <2>1 DEF ProcessStep, Check, Begin, Commit, Rollback, UpdateFields, ForceCategorical, CutShort
  <2>4. /\ Describes(Snapshot)
        /\ \A q \in Processes : proc[q].phase = "open" => Describes(proc[q].view)
    BY <2>3 DEF Describing
  <2>5. TypedSnapshot(Snapshot) /\ Follows(p)
    BY DEF Followed
  <2>6. CASE Check(p)
    <3>1. PICK name \in DOMAIN Calls : \E read \in ReadsBeforeBegin(Calls[name]) :
            Step(p, [Idle EXCEPT !.phase = "checked", !.call = name, !.read = read], NoFootprint, {})
      BY <2>6 DEF Check
    <3>2. PICK read \in ReadsBeforeBegin(Calls[name]) :
            Step(p, [Idle EXCEPT !.phase = "checked", !.call = name, !.read = read], NoFootprint, {})
      BY <3>1
    <3>3. [Idle EXCEPT !.phase = "checked", !.call = name, !.read = read].phase = "checked"
      BY DEF Idle
    <3>4. Describes(Snapshot)'
      BY <2>4, <2>6, DescribesNow, DescribesNext DEF Check, vars, MetadataDescribesFactTable
    <3> QED BY <2>4, <3>2, <3>3, <3>4, ViewsStay
  <2>7. CASE Begin(p)
    <3>1. Describes(Snapshot)'
      BY <2>4, <2>7, DescribesNow, DescribesNext DEF Begin, vars, MetadataDescribesFactTable
    <3>2. ASSUME NEW q \in Processes, q # p, proc'[q].phase = "open" PROVE Describes(proc'[q].view)
      <4>1. SeenBy(q, NoFootprint, {})
        BY <2>7, <3>2, StepSeen DEF Begin, Followed, Follows, Running
      <4> QED BY <2>4, <3>2, <4>1 DEF SeenBy
    <3>3. proc'[p].view = Snapshot
      <4>1. proc'[p] = [proc[p] EXCEPT !.phase = "open", !.view = Snapshot]
        BY <2>7, StepTaken DEF Begin
      <4> QED BY <2>2, <4>1 DEF Fields_of_proc
    <3> QED BY <2>4, <3>1, <3>2, <3>3
  <2>8. CASE Commit(p)
    <3>1. PICK change :
             /\ Stores(p, change)
             /\ Step(p, IF /\ Op(p) = "delete_rows" /\ ~ proc[p].cleanup /\ change.removed # {}
                           /\ Calls[proc[p].call].perform_cleanup
                        THEN [Cleanup EXCEPT !.call = proc[p].call] ELSE Idle,
                     Footprint(change),
                     Changed \cup (IF UnstampedRestore(p) THEN {"restored"} ELSE {}))
      BY <2>8, CommitStores
    <3>2. (IF /\ Op(p) = "delete_rows" /\ ~ proc[p].cleanup /\ change.removed # {}
              /\ Calls[proc[p].call].perform_cleanup
           THEN [Cleanup EXCEPT !.call = proc[p].call] ELSE Idle).phase # "open"
      BY DEF Cleanup, Idle
    <3>3. Opened(p) \cap {"metadata restored", "restore beside columns"} = {}
      BY <2>8 DEF Commit
    <3>4. Describes(Snapshot)'
      BY <2>4, <3>1, <3>3, CommitDescribes DEF Stores, Ready
    <3>5. \A q \in Processes : proc'[q].phase = "open" => Describes(proc'[q].view)
      BY <2>4, <3>1, <3>2, ViewsStay
    <3> QED BY <3>4, <3>5
  <2>9. CASE Rollback(p) \/ CutShort(p)
    <3>1. Step(p, Idle, NoFootprint, {}) /\ UNCHANGED vars
      BY <2>9 DEF Rollback, CutShort
    <3>2. Describes(Snapshot)'
      BY <2>4, <3>1, DescribesNow, DescribesNext DEF vars, MetadataDescribesFactTable
    <3>3. Idle.phase # "open"
      BY DEF Idle
    <3> QED BY <2>4, <3>1, <3>2, <3>3, ViewsStay
  <2>10. CASE UpdateFields(p)
    <3>1. PICK next, footprint, kinds : Step(p, next, footprint, kinds) /\ next.phase # "open"
      <4>1. Idle.phase # "open" /\ [proc[p] EXCEPT !.phase = "child"].phase # "open"
        BY <2>2 DEF Idle, Fields_of_proc
      <4> QED BY <2>10, <4>1 DEF UpdateFields
    <3>2. Describes(Snapshot)'
      BY <2>4, <2>5, <2>10, UpdateFieldsRewrites, RowDescribes
    <3> QED BY <2>4, <3>1, <3>2, ViewsStay
  <2>11. CASE ForceCategorical(p)
    <3>1. PICK next, footprint, kinds : Step(p, next, footprint, kinds) /\ next.phase # "open"
      <4>1. Idle.phase # "open" /\ [proc[p] EXCEPT !.phase = "parent"].phase # "open"
        BY <2>2 DEF Idle, Fields_of_proc
      <4> QED BY <2>11, <4>1 DEF ForceCategorical
    <3>2. Describes(Snapshot)'
      BY <2>4, <2>5, <2>11, ForceRewrites, RowDescribes
    <3> QED BY <2>4, <3>1, <3>2, ViewsStay
  <2> QED BY <2>1, <2>6, <2>7, <2>8, <2>9, <2>10, <2>11 DEF ProcessStep
<1> QED BY <1>1, <1>2

\* Two processes never insert the same key, and metadata describes the table it was
\* written with, whatever else runs beside: outside the restores that the property
\* excepts, what a commit writes was computed on the rows and columns it joins.
THEOREM KeysAreKept == SharedSpec => []KeysSurviveWriters
<1>1. SharedInit => RowsKeyed /\ Describing
  <2> SUFFICES ASSUME SharedInit PROVE RowsKeyed /\ Describing
    OBVIOUS
  <2>1. Sound(Built)
    BY SharedAssumption
  <2>2. RowsKeyed
    BY <2>1 DEF SharedInit, RowsKeyed, Sound, Keys
  <2>3. Describes(Snapshot)
    BY <2>1, DescribesNow DEF SharedInit, Sound, MetadataDescribesFactTable
  <2>4. \A q \in Processes : proc[q].phase # "open"
    BY DEF SharedInit, Idle
  <2> QED BY <2>2, <2>3, <2>4 DEF Describing
<1>2. Followed /\ RowsKeyed /\ Describing => KeysSurviveWriters
  <2> SUFFICES ASSUME Followed, RowsKeyed, Describing PROVE KeysSurviveWriters
    OBVIOUS
  <2>1. PrimaryKeys = Keys
    BY SnapshotFields DEF Followed, TypedSnapshot, PrimaryKeys
  <2>2. Keys # {}
    BY SharedAssumption DEF Sound, Keys
  <2> QED BY <2>1, <2>2, DescribesNow DEF KeysSurviveWriters, RowsKeyed, Describing, PrimaryKeyUnique
<1> QED BY <1>1, <1>2, InitFollowed, StepFollowed, StepKeysRows, StepDescribing, PTL DEF SharedSpec

-----------------------------------------------------------------------------
(* The audit *)

Advice == {"no rows", "only nulls", "mostly null"}

\* What BASIC looks at.
Structural ==
  /\ MetadataDescribesFactTable /\ LinksResolve /\ HierarchyIsForest
  /\ LabelColumnShape /\ NoLabelColumnInHierarchy

\* On all the codes of the table, the check of a pair is the dependency.
LEMMA DependencyChecked ==
  ASSUME NEW table, NEW code, NEW label
  PROVE  check_value_label_dependency(table, code, label, ColumnValues(table, code))
           <=> Determines(table, code, label)
<1>1. \A r \in table : r[code] \in ColumnValues(table, code)
  BY DEF ColumnValues
<1>2. ASSUME Determines(table, code, label)
      PROVE  check_value_label_dependency(table, code, label, ColumnValues(table, code))
  BY <1>2 DEF Determines, check_value_label_dependency
<1> QED BY <1>2, FullCheckDetermines

\* The label columns in order, which is all that validate_value_labels asks.
LEMMA LabelsChecked ==
  ASSUME TypedSnapshot(Snapshot)
  PROVE  validate_value_labels(LabelFor(metadata), SqlType(metadata), PrimaryKeys,
                               ParentOf(metadata))
           <=> /\ LabelColumnShape /\ NoLabelColumnInHierarchy
               /\ \A l \in Declared(LabelFor(metadata)) : metadata[l].label_for \in DOMAIN metadata
<1> DEFINE labels == Declared(LabelFor(metadata))
<1>1. /\ DOMAIN SqlType(metadata) = DOMAIN metadata /\ DOMAIN ParentOf(metadata) = DOMAIN metadata
      /\ labels = {l \in DOMAIN metadata : metadata[l].label_for # NULL}
      /\ \A l \in DOMAIN metadata : /\ LabelFor(metadata)[l] = metadata[l].label_for
                                    /\ Get(SqlType(metadata), l) = metadata[l].sql_type
                                    /\ Get(ParentOf(metadata), l) = metadata[l].parent_name
  BY DEF Declared, LabelFor, ParentOf, SqlType, Get
<1>2. \A l \in DOMAIN metadata : l \in PrimaryKeys <=> metadata[l].is_primary_key
  BY SnapshotFields, KeyRows DEF TypedSnapshot, PrimaryKeys
<1> HIDE DEF labels
<1>3. validate_value_labels(LabelFor(metadata), SqlType(metadata), PrimaryKeys, ParentOf(metadata))
        <=> \A l \in labels : /\ metadata[l].label_for \in DOMAIN metadata
                              /\ metadata[l].label_for # l
                              /\ metadata[l].label_for \notin labels
                              /\ metadata[l].sql_type = "VARCHAR"
                              /\ ~ metadata[l].is_primary_key
                              /\ metadata[l].parent_name = NULL
                              /\ Children(ParentOf(metadata), l) = {}
  BY <1>1, <1>2 DEF validate_value_labels, labels
<1>4. \A l \in DOMAIN metadata : l \notin labels <=> metadata[l].label_for = NULL
  BY <1>1
<1> QED BY <1>1, <1>3, <1>4 DEF LabelColumnShape, NoLabelColumnInHierarchy, labels

LEMMA IssueFields ==
  \A check, severity, column :
    /\ Issue(check, severity, column).check = check
    /\ Issue(check, severity, column).severity = severity
BY DEF Issue

\* The links of metadata, which the fact table plays no part in.
LEMMA LinksAudited ==
  ASSUME TypedSnapshot(Snapshot)
  PROVE  validate_column_links = {} <=>
           LinksResolve /\ HierarchyIsForest /\ LabelColumnShape /\ NoLabelColumnInHierarchy
<1> DEFINE missing == {d \in Declared(ParentOf(metadata)) :
                         metadata[d].parent_name \notin DOMAIN metadata}
           shaped  == validate_value_labels(LabelFor(metadata), SqlType(metadata), PrimaryKeys,
                                            ParentOf(metadata))
<1>1. {Issue("parent", "HIGH", c) : c \in missing} = {} <=> missing = {}
  BY SMT
<1>2. IssueIf(~ validate_hierarchy_forest(ParentOf(metadata)), "cycle", "HIGH") = {}
        <=> validate_hierarchy_forest(ParentOf(metadata))
  BY DEF IssueIf
<1>3. IssueIf(~ shaped, "label_for", "HIGH") = {} <=> shaped
  BY DEF IssueIf
<1>4. validate_hierarchy_forest(ParentOf(metadata)) <=> HierarchyIsForest
  <2>1. IsFiniteSet(DOMAIN metadata) /\ DOMAIN metadata \subseteq Columns
    BY SnapshotFields DEF TypedSnapshot
  <2>2. DOMAIN ParentOf(metadata) = DOMAIN metadata
    BY DEF ParentOf
  <2>3. NULL \notin Columns
    BY ResultSetAssumption
  <2> QED BY <2>1, <2>2, <2>3, WalkDecidesForest DEF HierarchyIsForest
<1>5. validate_column_links = {} <=> missing = {} /\ validate_hierarchy_forest(ParentOf(metadata)) /\ shaped
  <2> HIDE DEF shaped, missing
  <2>1. validate_column_links =
          {Issue("parent", "HIGH", c) : c \in missing}
            \cup IssueIf(~ validate_hierarchy_forest(ParentOf(metadata)), "cycle", "HIGH")
            \cup IssueIf(~ shaped, "label_for", "HIGH")
    BY DEF validate_column_links, shaped, missing
  <2> QED BY <1>1, <1>2, <1>3, <2>1
<1>6. LinksResolve <=>
        missing = {} /\ \A l \in Declared(LabelFor(metadata)) : metadata[l].label_for \in DOMAIN metadata
  BY DEF LinksResolve, Declared, ParentOf, LabelFor
<1> QED BY <1>4, <1>5, <1>6, LabelsChecked DEF shaped

\* BASIC ends with an issue where the structure is broken, and only there.
LEMMA BasicAudited ==
  ASSUME TypedSnapshot(Snapshot), Keys # {}
  PROVE  validate_database("BASIC") = {} <=> Structural
<1> DEFINE alone  == DOMAIN metadata \ DOMAIN fact_columns
           absent == DOMAIN fact_columns \ DOMAIN metadata
           mistyped == {d \in DOMAIN metadata \cap DOMAIN fact_columns :
                          metadata[d].sql_type # fact_columns[d]}
<1>1. validate_metadata_consistency = {}
  <2>1. DOMAIN metadata # {}
    BY SnapshotFields, KeyRows
  <2> QED BY <2>1 DEF validate_metadata_consistency, IssueIf
<1>2. validate_metadata_fact_consistency = {} <=> DOMAIN metadata = DOMAIN fact_columns
  <2>1. alone = {} /\ absent = {} <=> DOMAIN metadata = DOMAIN fact_columns
    OBVIOUS
  <2>2. validate_metadata_fact_consistency =
          {Issue("described only", "HIGH", c) : c \in alone}
            \cup {Issue("not described", "HIGH", c) : c \in absent}
    BY DEF validate_metadata_fact_consistency
  <2> HIDE DEF alone, absent
  <2>3. {Issue("described only", "HIGH", c) : c \in alone} = {} <=> alone = {}
    BY Zenon
  <2>4. {Issue("not described", "HIGH", c) : c \in absent} = {} <=> absent = {}
    BY Zenon
  <2> QED BY <2>1, <2>2, <2>3, <2>4
<1>3. validate_data_types_consistency = {} <=> mistyped = {}
  BY SMT DEF validate_data_types_consistency
<1>4. MetadataDescribesFactTable <=> DOMAIN metadata = DOMAIN fact_columns /\ mistyped = {}
  BY DEF MetadataDescribesFactTable
<1>5. validate_database("BASIC") =
        validate_metadata_consistency \cup validate_metadata_fact_consistency
          \cup validate_data_types_consistency \cup validate_column_links
  BY DEF validate_database
<1> HIDE DEF mistyped
<1> QED BY <1>1, <1>2, <1>3, <1>4, <1>5, LinksAudited DEF Structural

\* No issue of BASIC is critical, nor mere advice.
LEMMA BasicIssues ==
  \A i \in validate_database("BASIC") : i.severity # "CRITICAL" /\ i.check \notin Advice
<1>1. ASSUME NEW i \in validate_metadata_consistency
      PROVE  i.check = "empty metadata" /\ i.severity = "HIGH"
  <2>1. i = Issue("empty metadata", "HIGH", NULL)
    BY DEF validate_metadata_consistency, IssueIf
  <2> QED BY <2>1, IssueFields, Zenon
<1>2. ASSUME NEW i \in validate_metadata_fact_consistency
      PROVE  i.check \in {"described only", "not described"} /\ i.severity = "HIGH"
  <2>1. \/ \E c : i = Issue("described only", "HIGH", c)
        \/ \E c : i = Issue("not described", "HIGH", c)
    BY DEF validate_metadata_fact_consistency
  <2>2. ASSUME NEW c, i = Issue("described only", "HIGH", c)
        PROVE  i.check \in {"described only", "not described"} /\ i.severity = "HIGH"
    BY <2>2, IssueFields, Zenon
  <2>3. ASSUME NEW c, i = Issue("not described", "HIGH", c)
        PROVE  i.check \in {"described only", "not described"} /\ i.severity = "HIGH"
    BY <2>3, IssueFields, Zenon
  <2> QED BY <2>1, <2>2, <2>3
<1>3. ASSUME NEW i \in validate_data_types_consistency
      PROVE  i.check = "type" /\ i.severity = "MEDIUM"
  <2>1. \E c : i = Issue("type", "MEDIUM", c)
    BY DEF validate_data_types_consistency
  <2> QED BY <2>1, IssueFields
<1>4. ASSUME NEW i \in validate_column_links
      PROVE  i.check \in {"parent", "cycle", "label_for"} /\ i.severity = "HIGH"
  <2>1. \/ \E c : i = Issue("parent", "HIGH", c)
        \/ i = Issue("cycle", "HIGH", NULL)
        \/ i = Issue("label_for", "HIGH", NULL)
    BY DEF validate_column_links, IssueIf
  <2>2. CASE \E c : i = Issue("parent", "HIGH", c)
    BY <2>2, IssueFields
  <2>3. CASE i = Issue("cycle", "HIGH", NULL)
    BY <2>3, IssueFields
  <2>4. CASE i = Issue("label_for", "HIGH", NULL)
    BY <2>4, IssueFields
  <2> QED BY <2>1, <2>2, <2>3, <2>4
<1>5. \A i \in validate_database("BASIC") :
        /\ i.severity \in {"HIGH", "MEDIUM"}
        /\ i.check \in {"empty metadata", "described only", "not described", "type", "parent",
                        "cycle", "label_for"}
  BY <1>1, <1>2, <1>3, <1>4 DEF validate_database
<1> QED BY <1>5 DEF Advice

\* What COMPREHENSIVE adds, its advice left out.
LEMMA RowsAudited ==
  ASSUME TypedSnapshot(Snapshot), Keys # {}, Structural
  PROVE  /\ validate_primary_key_uniqueness = {} <=> UniqueOn(rows, PrimaryKeys)
         /\ validate_value_label_dependencies = {} <=> PairsHold
<1>1. PrimaryKeys \subseteq DOMAIN fact_columns /\ PrimaryKeys # {}
  BY SnapshotFields DEF TypedSnapshot, PrimaryKeys
<1>2. validate_primary_key_uniqueness = {} <=> UniqueOn(rows, PrimaryKeys)
  BY <1>1 DEF validate_primary_key_uniqueness, IssueIf
<1> DEFINE labels == Declared(LabelFor(metadata))
           broken == {m \in labels \cap DOMAIN fact_columns :
                        /\ metadata[m].label_for \in DOMAIN fact_columns
                        /\ ~ check_value_label_dependency(rows, metadata[m].label_for, m,
                                                ColumnValues(rows, metadata[m].label_for))}
<1>3. validate_value_label_dependencies = {} <=> broken = {}
  BY SMT DEF validate_value_label_dependencies
<1>4. \A l \in labels : l \in DOMAIN fact_columns /\ metadata[l].label_for \in DOMAIN fact_columns
  BY DEF Structural, MetadataDescribesFactTable, LinksResolve, Declared, LabelFor
<1>5. broken = {} <=> \A l \in labels : Determines(rows, metadata[l].label_for, l)
  <2> HIDE DEF labels
  <2> QED BY <1>4, DependencyChecked
<1> QED BY <1>2, <1>3, <1>5 DEF PairsHold

\* What rows lack is not damage, whatever the rows.
LEMMA QualityIsAdvice == \A i \in validate_data_quality : i.check \in Advice
<1> SUFFICES ASSUME NEW i \in validate_data_quality PROVE i.check \in Advice
  OBVIOUS
<1>1. \/ \E c : i = Issue("no rows", "MEDIUM", c)
      \/ \E c : i = Issue("only nulls", "HIGH", c)
      \/ \E c : i = Issue("mostly null", "MEDIUM", c)
  BY DEF validate_data_quality, IssueIf
<1>2. ASSUME NEW c, i = Issue("no rows", "MEDIUM", c)
      PROVE  i.check \in Advice
  <2>1. i.check = "no rows"
    BY <1>2, IssueFields, Zenon
  <2> QED BY <2>1 DEF Advice
<1>3. ASSUME NEW c, i = Issue("only nulls", "HIGH", c)
      PROVE  i.check \in Advice
  <2>1. i.check = "only nulls"
    BY <1>3, IssueFields, Zenon
  <2> QED BY <2>1 DEF Advice
<1>4. ASSUME NEW c, i = Issue("mostly null", "MEDIUM", c)
      PROVE  i.check \in Advice
  <2>1. i.check = "mostly null"
    BY <1>4, IssueFields, Zenon
  <2> QED BY <2>1 DEF Advice
<1> QED BY <1>1, <1>2, <1>3, <1>4

LEMMA RowIssues ==
  \A i \in validate_primary_key_uniqueness \cup validate_value_label_dependencies :
    i.check \notin Advice
<1>1. ASSUME NEW i \in validate_primary_key_uniqueness
      PROVE  i.check \in {"duplicate keys", "failed check"}
  <2>1. i = Issue("duplicate keys", "HIGH", NULL) \/ i = Issue("failed check", "HIGH", NULL)
    BY DEF validate_primary_key_uniqueness, IssueIf
  <2>2. CASE i = Issue("duplicate keys", "HIGH", NULL)
    BY <2>2, IssueFields, Zenon
  <2>3. CASE i = Issue("failed check", "HIGH", NULL)
    BY <2>3, IssueFields, Zenon
  <2> QED BY <2>1, <2>2, <2>3
<1>2. ASSUME NEW i \in validate_value_label_dependencies PROVE i.check = "pair"
  <2>1. \E c : i = Issue("pair", "CRITICAL", c)
    BY DEF validate_value_label_dependencies
  <2> QED BY <2>1, IssueFields
<1>3. \A i \in validate_primary_key_uniqueness \cup validate_value_label_dependencies :
        i.check \in {"duplicate keys", "failed check", "pair"}
  BY <1>1, <1>2
<1> QED BY <1>3 DEF Advice

\* The audit in any state with its types, whatever calls led to it.
LEMMA AuditDecides ==
  ASSUME TypedSnapshot(Snapshot), Keys # {}
  PROVE  AuditDecidesInvariants
<1> DEFINE basic == validate_database("BASIC")
           full  == validate_database("COMPREHENSIVE")
           found == {i \in full : i.check \notin Advice}
<1>1. full = basic \cup validate_primary_key_uniqueness \cup validate_value_label_dependencies
               \cup validate_data_quality
  BY DEF validate_database
<1>2. found = basic \cup validate_primary_key_uniqueness \cup validate_value_label_dependencies
  <2> HIDE DEF basic, full
  <2> QED BY <1>1, BasicIssues, RowIssues, QualityIsAdvice DEF basic
<1>3. basic = {} <=> Structural
  BY BasicAudited
<1> HIDE DEF basic, found
<1>4. PrimaryKeyUnique <=> UniqueOn(rows, PrimaryKeys)
  BY SnapshotFields DEF TypedSnapshot, PrimaryKeys, PrimaryKeyUnique
<1>5. found = {} <=> Structural /\ PrimaryKeyUnique /\ PairsHold
  BY <1>2, <1>3, <1>4, RowsAudited
<1>6. BySeverity(basic, "CRITICAL") = {}
  BY BasicIssues DEF basic, BySeverity
<1>7. /\ get_quick_health_check = "warning" <=> basic # {}
      /\ get_quick_health_check = "healthy" => rows # {}
  <2>1. get_quick_health_check =
          CASE basic # {} -> "warning"
            [] basic = {} /\ rows # {} /\ DOMAIN metadata # {} -> "healthy"
            [] OTHER -> "empty"
    BY <1>6, Zenon DEF get_quick_health_check, basic
  <2>2. CASE basic # {}
    BY <2>1, <2>2
  <2>3. CASE basic = {} /\ rows # {} /\ DOMAIN metadata # {}
    BY <2>1, <2>3
  <2>4. CASE basic = {} /\ ~ (rows # {} /\ DOMAIN metadata # {})
    BY <2>1, <2>4
  <2> QED BY <2>2, <2>3, <2>4
<1> QED BY <1>3, <1>5, <1>7 DEF AuditDecidesInvariants, Structural, Advice, found

\* The audit misses no damage to keys, columns, types, links and pairs that
\* concurrent writers, restores and interruptions leave, and reports none that is
\* not there.
THEOREM AuditsDecide == SharedSpec => []AuditDecidesInvariants
<1>1. Keys # {}
  BY SharedAssumption DEF Sound, Keys
<1>2. Followed => AuditDecidesInvariants
  BY <1>1, AuditDecides DEF Followed
<1> QED BY <1>2, InitFollowed, StepFollowed, PTL DEF SharedSpec

-----------------------------------------------------------------------------
(* Order among the links *)

\* `new` has the columns, links, keys and flags of `md`; its text columns stay text.
OnlyRetyped(md, new) ==
  /\ DOMAIN new = DOMAIN md
  /\ \A c \in DOMAIN md :
       /\ new[c].parent_name = md[c].parent_name /\ new[c].label_for = md[c].label_for
       /\ new[c].is_primary_key = md[c].is_primary_key
       /\ new[c].is_categorical = md[c].is_categorical
       /\ md[c].sql_type = "VARCHAR" => new[c].sql_type = "VARCHAR"

\* What the order among links depends on.
SameOrder(md, new) ==
  /\ DOMAIN new = DOMAIN md
  /\ \A c \in DOMAIN md :
       /\ new[c].parent_name = md[c].parent_name /\ new[c].label_for = md[c].label_for
       /\ new[c].is_primary_key = md[c].is_primary_key
       /\ md[c].sql_type = "VARCHAR" => new[c].sql_type = "VARCHAR"

LEMMA OrderStays ==
  ASSUME NEW md, NEW new, LinksInOrder(md), SameOrder(md, new)
  PROVE  LinksInOrder(new)
<1>1. DOMAIN new = DOMAIN md
  BY DEF SameOrder
<1>2. ParentOf(new) = ParentOf(md) /\ LabelFor(new) = LabelFor(md)
  BY <1>1 DEF SameOrder, ParentOf, LabelFor
<1>3. \A c \in DOMAIN new : {new[c].parent_name, new[c].label_for} \subseteq DOMAIN new \cup {NULL}
  BY <1>1 DEF SameOrder, LinksInOrder
<1>4. ASSUME NEW l \in Declared(LabelFor(new))
      PROVE  /\ new[l].label_for # l /\ new[new[l].label_for].label_for = NULL
             /\ new[l].sql_type = "VARCHAR" /\ ~ new[l].is_primary_key
             /\ new[l].parent_name = NULL
  <2>1. l \in DOMAIN md /\ l \in Declared(LabelFor(md)) /\ md[l].label_for # NULL
    BY <1>1, <1>2 DEF Declared, LabelFor
  <2>2. md[l].label_for \in DOMAIN md
    BY <2>1 DEF LinksInOrder
  <2> QED BY <2>1, <2>2 DEF LinksInOrder, SameOrder
<1> QED BY <1>2, <1>3, <1>4 DEF LinksInOrder

\* The metadata table with every column categorical: the order among its links is
\* then all that WellLinked says.
Forced(md) == [c \in DOMAIN md |-> [md[c] EXCEPT !.is_categorical = TRUE]]

LEMMA ForcedRows ==
  ASSUME NEW cols, NEW md \in [cols -> MetadataRow]
  PROVE  /\ Forced(md) \in [cols -> MetadataRow]
         /\ SameOrder(md, Forced(md)) /\ SameOrder(Forced(md), md)
         /\ SqlType(Forced(md)) = SqlType(md)
         /\ \A c \in cols : Forced(md)[c].is_categorical = TRUE
<1>1. DOMAIN Forced(md) = cols
  BY DEF Forced
<1>2. ASSUME NEW c \in cols
      PROVE  /\ Forced(md)[c] \in MetadataRow
             /\ Forced(md)[c].is_categorical = TRUE
             /\ Forced(md)[c].parent_name = md[c].parent_name
             /\ Forced(md)[c].label_for = md[c].label_for
             /\ Forced(md)[c].is_primary_key = md[c].is_primary_key
             /\ Forced(md)[c].sql_type = md[c].sql_type
  BY DEF Forced, MetadataRow
<1>3. Forced(md) \in [cols -> MetadataRow]
  BY <1>2 DEF Forced
<1> HIDE DEF Forced
<1> QED BY <1>1, <1>2, <1>3 DEF SameOrder, SqlType

LEMMA ForcedLinks ==
  ASSUME NEW cols \in SUBSET Columns, NEW md \in [cols -> MetadataRow], LinksInOrder(md)
  PROVE  WellLinked(Forced(md))
<1> USE ResultSetAssumption
<1> DEFINE new == Forced(md)
<1>1. /\ new \in [cols -> MetadataRow] /\ LinksInOrder(new)
      /\ \A c \in cols : new[c].is_categorical = TRUE
  BY ForcedRows, OrderStays
<1> HIDE DEF new
<1>2. DOMAIN new = cols
  BY <1>1
<1>3. \A l \in DOMAIN new : new[l].label_for # NULL => l \in Declared(LabelFor(new))
  BY DEF Declared, LabelFor
<1>4. WellLinked(new)
  BY <1>1, <1>2, <1>3 DEF WellLinked, LinksInOrder
<1> QED BY <1>4 DEF new

LEMMA LinkedOrder ==
  ASSUME NEW md, WellLinked(md)
  PROVE  LinksInOrder(md)
<1>1. \A l \in Declared(LabelFor(md)) : l \in DOMAIN md /\ md[l].label_for # NULL
  BY DEF Declared, LabelFor
<1> QED BY <1>1 DEF WellLinked, LinksInOrder

LEMMA UpdatedOrder ==
  ASSUME NEW cols \in SUBSET Columns, NEW md \in [cols -> MetadataRow], LinksInOrder(md),
         NEW column \in Columns, NEW fields \in Fields, Acceptable(md, column, fields)
  PROVE  LinksInOrder(update_column_metadata(md, column, fields))
<1> DEFINE forced == Forced(md)
           links  == update_column_metadata(forced, column, fields)
           new    == update_column_metadata(md, column, fields)
<1>1. /\ forced \in [cols -> MetadataRow] /\ SameOrder(md, forced) /\ SameOrder(forced, md)
      /\ SqlType(forced) = SqlType(md) /\ WellLinked(forced)
  BY ForcedRows, ForcedLinks
<1> HIDE DEF forced
<1>2. DOMAIN forced = cols /\ DOMAIN md = cols
  BY <1>1
<1>3. /\ ParentOf(forced) = ParentOf(md) /\ LabelFor(forced) = LabelFor(md)
      /\ get_primary_key_columns(forced) = get_primary_key_columns(md)
  BY <1>1, <1>2 DEF SameOrder, ParentOf, LabelFor, get_primary_key_columns
<1>4. Acceptable(forced, column, fields)
  BY <1>1, <1>3, AcceptableAs
<1>5. PICK table : metadata_update_accepted(forced, table, column, fields)
  BY <1>4 DEF Acceptable
<1>6. LinksInOrder(links)
  BY <1>1, <1>5, UpdatedLinks, LinkedOrder
<1>7. SameOrder(links, new)
  BY <1>1, <1>2 DEF SameOrder, update_column_metadata
<1> QED BY <1>6, <1>7, OrderStays

LEMMA DetachedOrder ==
  ASSUME NEW cols \in SUBSET Columns, NEW md \in [cols -> MetadataRow], LinksInOrder(md),
         NEW dropped, NEW cascade \in BOOLEAN,
         cascade \/ \A c \in dropped \cap cols : Dependents(ParentOf(md), LabelFor(md), c) \subseteq dropped
  PROVE  LinksInOrder(metadata_without(md, dropped, cascade))
<1> DEFINE forced == Forced(md)
           links  == metadata_without(forced, dropped, cascade)
           new    == metadata_without(md, dropped, cascade)
<1>1. /\ forced \in [cols -> MetadataRow] /\ SameOrder(md, forced) /\ WellLinked(forced)
      /\ SameOrder(forced, md)
  BY ForcedRows, ForcedLinks
<1> HIDE DEF forced
<1>2. DOMAIN forced = cols /\ DOMAIN md = cols
  BY <1>1
<1>3. ParentOf(forced) = ParentOf(md) /\ LabelFor(forced) = LabelFor(md)
  BY <1>1, <1>2 DEF SameOrder, ParentOf, LabelFor
<1>4. LinksInOrder(links)
  BY <1>1, <1>3, DetachedLinks, LinkedOrder
<1>5. SameOrder(links, new)
  BY <1>1, <1>2 DEF SameOrder, metadata_without
<1> QED BY <1>4, <1>5, OrderStays

\* What a commit makes of metadata.
LEMMA UndescribedMetadata ==
  ASSUME TypedSnapshot(Snapshot), NEW p \in Processes, NEW change, Stores(p, change),
         DOMAIN change.described = {}, change.undescribed = {}
  PROVE  metadata' = metadata
<1>1. metadata \in [DOMAIN metadata -> MetadataRow]
  BY SnapshotFields DEF TypedSnapshot
<1> QED BY <1>1 DEF Stores, Store

\* A row that a transaction rewrites is the one it read.
LEMMA DescribedOnCurrent ==
  ASSUME NEW p \in Processes, Follows(p), NEW change, Stores(p, change),
         NEW c \in DOMAIN change.described \cup change.undescribed,
         c \in DOMAIN proc[p].view.metadata \/ c \in DOMAIN metadata
  PROVE  /\ c \in DOMAIN proc[p].view.metadata /\ c \in DOMAIN metadata
         /\ metadata[c] = proc[p].view.metadata[c]
<1>1. c \notin proc[p].written_since.described
  BY NoConflict DEF Stores, Ready
<1>2. SameOutside(metadata, proc[p].view.metadata, proc[p].written_since.described)
  BY DEF Follows, Stores, Ready, Sees
<1> QED BY <1>1, <1>2 DEF SameOutside

LEMMA SameRetyped ==
  ASSUME NEW md
  PROVE  OnlyRetyped(md, md)
BY DEF OnlyRetyped

LEMMA UpdateRetypes ==
  ASSUME NEW p \in Processes, Follows(p), NEW change, Stores(p, change), NEW call,
         WellFormed(call), call.op = "update_database",
         change \in update_database(proc[p].view, call)
  PROVE  OnlyRetyped(metadata, metadata')
<1> DEFINE view     == proc[p].view
           resolved == Resolved(view, call)
           retyped  == RetypedColumns(view, call)
<1>1. /\ change.described = [c \in retyped |->
                               [view.metadata[c] EXCEPT !.sql_type = resolved[c]]]
      /\ change.undescribed = {}
  <2>1. Updates(change, view, call)
    BY UpdateWrites
  <2> QED BY <2>1 DEF Updates
<1>2. retyped \subseteq DOMAIN view.metadata
  BY DEF RetypedColumns, Resolved
<1>3. \A c \in DOMAIN view.metadata : view.metadata[c] \in MetadataRow
  BY StoredChange, KeyRows
<1>4. ASSUME NEW c \in DOMAIN view.metadata, view.metadata[c].sql_type = "VARCHAR"
      PROVE  resolved[c] = "VARCHAR"
  <2>1. \A t \in AllSqlTypes : resolve_sql_type_conflict("VARCHAR", t) = "VARCHAR"
    BY TextStaysText
  <2>2. call.types \in [DOMAIN call.types -> AllSqlTypes]
    BY DEF WellFormed
  <2>3. resolved[c] = resolve_type_conflict("VARCHAR", call.batch, call.types, c)
    BY <1>4 DEF Resolved
  <2> QED BY <2>1, <2>2, <2>3 DEF resolve_type_conflict
<1> HIDE DEF retyped, resolved
<1>5. DOMAIN change.described = retyped
  BY <1>1
<1>6. \A c \in retyped : c \in DOMAIN metadata /\ metadata[c] = view.metadata[c]
  BY <1>2, <1>5, DescribedOnCurrent
<1>7. DOMAIN metadata' = DOMAIN metadata
  BY <1>1, <1>5, <1>6, StoredTables
<1>8. ASSUME NEW c \in DOMAIN metadata
      PROVE  /\ metadata'[c].parent_name = metadata[c].parent_name
             /\ metadata'[c].label_for = metadata[c].label_for
             /\ metadata'[c].is_primary_key = metadata[c].is_primary_key
             /\ metadata'[c].is_categorical = metadata[c].is_categorical
             /\ metadata[c].sql_type = "VARCHAR" => metadata'[c].sql_type = "VARCHAR"
  <2>1. CASE c \in retyped
    <3>1. metadata'[c] = [view.metadata[c] EXCEPT !.sql_type = resolved[c]]
      BY <1>1, <1>5, <1>7, <2>1, StoredTables
    <3>2. view.metadata[c] \in MetadataRow /\ metadata[c] = view.metadata[c]
      BY <1>2, <1>3, <1>6, <2>1
    <3>3. metadata[c].sql_type = "VARCHAR" => resolved[c] = "VARCHAR"
      BY <1>2, <1>4, <2>1, <3>2
    <3> QED BY <3>1, <3>2, <3>3 DEF MetadataRow
  <2>2. CASE c \notin retyped
    <3>1. metadata'[c] = metadata[c]
      BY <1>5, <1>7, <2>2, StoredTables
    <3> QED BY <3>1
  <2> QED BY <2>1, <2>2
<1> QED BY <1>7, <1>8 DEF OnlyRetyped

\* What a drop leaves of the links.
FewerLinksOf(md, new) ==
  /\ DOMAIN new \subseteq DOMAIN md
  /\ \A c \in DOMAIN new :
       /\ new[c].parent_name \in {md[c].parent_name, NULL}
       /\ new[c].label_for \in {md[c].label_for, NULL}
       /\ new[c].is_categorical = md[c].is_categorical

LEMMA DropFewerLinks ==
  ASSUME NEW p \in Processes, Follows(p), NEW change, Stores(p, change), NEW dropped, NEW cascade,
         change \in drop_columns(proc[p].view, dropped, cascade)
  PROVE  FewerLinksOf(metadata, metadata')
<1> DEFINE view  == proc[p].view
           left  == metadata_without(view.metadata, dropped, cascade)
<1>1. change.described = Rewritten(view.metadata, left)
  <2>1. Drops(change, view, dropped, cascade)
    BY DropWrites
  <2> QED BY <2>1 DEF Drops
<1>2. /\ DOMAIN left \subseteq DOMAIN view.metadata
      /\ \A c \in DOMAIN left :
           /\ left[c].parent_name \in {view.metadata[c].parent_name, NULL}
           /\ left[c].label_for \in {view.metadata[c].label_for, NULL}
           /\ left[c].is_categorical = view.metadata[c].is_categorical
  BY DEF metadata_without
<1> HIDE DEF left
<1>3. \A c \in DOMAIN change.described : c \in DOMAIN left /\ change.described[c] = left[c]
  BY <1>1 DEF Rewritten
<1>4. \A c \in DOMAIN change.described : c \in DOMAIN metadata /\ metadata[c] = view.metadata[c]
  BY <1>2, <1>3, DescribedOnCurrent
<1>5. DOMAIN metadata' \subseteq DOMAIN metadata
  BY <1>4, StoredTables
<1>6. ASSUME NEW c \in DOMAIN metadata'
      PROVE  /\ metadata'[c].parent_name \in {metadata[c].parent_name, NULL}
             /\ metadata'[c].label_for \in {metadata[c].label_for, NULL}
             /\ metadata'[c].is_categorical = metadata[c].is_categorical
  <2>1. CASE c \in DOMAIN change.described
    <3>1. metadata'[c] = left[c]
      BY <1>3, <2>1, StoredTables
    <3> QED BY <1>2, <1>3, <1>4, <2>1, <3>1
  <2>2. CASE c \notin DOMAIN change.described
    BY <2>2, StoredTables
  <2> QED BY <2>1, <2>2
<1> QED BY <1>5, <1>6 DEF FewerLinksOf

\* A drop whose view has the current links is the drop made now.
LEMMA DropOnCurrent ==
  ASSUME TypedSnapshot(Snapshot), NEW p \in Processes, Follows(p), NEW change, Stores(p, change),
         NEW dropped, NEW cascade \in BOOLEAN,
         change \in drop_columns(proc[p].view, dropped, cascade), "links" \notin proc[p].beside
  PROVE  metadata' = metadata_without(metadata, dropped, cascade)
<1> DEFINE view  == proc[p].view
           left  == metadata_without(view.metadata, dropped, cascade)
           now   == metadata_without(metadata, dropped, cascade)
<1>1. /\ change.described = Rewritten(view.metadata, left)
      /\ change.undescribed = dropped \cap DOMAIN view.metadata
  <2>1. Drops(change, view, dropped, cascade)
    BY DropWrites
  <2> QED BY <2>1 DEF Drops
<1>2. ParentOf(metadata) = ParentOf(view.metadata) /\ LabelFor(metadata) = LabelFor(view.metadata)
  BY DEF Follows, Stores, Ready, Sees
<1>3. /\ DOMAIN metadata = DOMAIN view.metadata
      /\ \A c \in DOMAIN metadata : /\ metadata[c].parent_name = view.metadata[c].parent_name
                                    /\ metadata[c].label_for = view.metadata[c].label_for
  <2>1. DOMAIN ParentOf(metadata) = DOMAIN metadata /\ DOMAIN ParentOf(view.metadata) = DOMAIN view.metadata
    BY DEF ParentOf
  <2> QED BY <1>2, <2>1 DEF ParentOf, LabelFor
<1>4. \A c \in DOMAIN metadata : metadata[c] \in MetadataRow /\ view.metadata[c] \in MetadataRow
  BY <1>3, StoredChange, SnapshotFields DEF TypedSnapshot
<1>5. DOMAIN left = DOMAIN metadata \ dropped /\ DOMAIN now = DOMAIN metadata \ dropped
  BY <1>3 DEF metadata_without
<1>6. \A c \in DOMAIN now : metadata[c] = view.metadata[c] => now[c] = left[c]
  BY <1>3, <1>5 DEF metadata_without
<1>7. ASSUME NEW c \in DOMAIN now, left[c] = view.metadata[c]
      PROVE  now[c] = metadata[c]
  <2>1. c \in DOMAIN metadata /\ metadata[c] \in MetadataRow /\ view.metadata[c] \in MetadataRow
    BY <1>4, <1>5
  <2>2. left[c].parent_name = view.metadata[c].parent_name /\ left[c].label_for = view.metadata[c].label_for
    BY <1>7
  <2>3. now[c].parent_name = metadata[c].parent_name /\ now[c].label_for = metadata[c].label_for
    BY <1>3, <1>5, <2>1, <2>2 DEF metadata_without
  <2>4. now[c] = [ sql_type |-> metadata[c].sql_type, is_primary_key |-> metadata[c].is_primary_key,
                   is_categorical |-> metadata[c].is_categorical,
                   parent_name |-> metadata[c].parent_name, label_for |-> metadata[c].label_for ]
    BY <1>5, <2>3 DEF metadata_without
  <2> QED BY <2>1, <2>4 DEF MetadataRow
<1>8. now = [c \in DOMAIN now |-> now[c]]
  BY DEF metadata_without
<1> HIDE DEF left, now
<1>9. /\ DOMAIN change.described = {c \in DOMAIN left : left[c] # view.metadata[c]}
      /\ \A c \in DOMAIN change.described : change.described[c] = left[c]
  BY <1>1, <1>3, <1>5 DEF Rewritten
<1>10. DOMAIN metadata' = DOMAIN now
  BY <1>1, <1>3, <1>5, <1>9, StoredTables
<1>11. ASSUME NEW c \in DOMAIN now PROVE metadata'[c] = now[c]
  <2>1. CASE c \in DOMAIN change.described
    <3>1. metadata[c] = view.metadata[c]
      BY <1>3, <1>5, <2>1, DescribedOnCurrent
    <3> QED BY <1>6, <1>9, <1>10, <2>1, <3>1, StoredTables
  <2>2. CASE c \notin DOMAIN change.described
    <3>1. left[c] = view.metadata[c]
      BY <1>5, <1>9, <2>2
    <3> QED BY <1>7, <1>10, <2>2, <3>1, StoredTables
  <2> QED BY <2>1, <2>2
<1>12. metadata' = [c \in DOMAIN metadata' |-> metadata'[c]]
  BY DEF Stores, Store
<1> QED BY <1>8, <1>10, <1>11, <1>12 DEF now

\* A restore of metadata leaves the rows it copied and no other.
LEMMA RestoreReplaces ==
  ASSUME TypedSnapshot(Snapshot), NEW p \in Processes, Follows(p), NEW change, Stores(p, change),
         Op(p) = "restore_snapshot", "metadata" \in Calls[proc[p].call].tables,
         change \in restore_snapshot(proc[p].view, Calls[proc[p].call], proc[p].read)
  PROVE  proc[p].read \in History /\ metadata' = proc[p].read.metadata
<1> DEFINE view  == proc[p].view
           read  == proc[p].read
           since == proc[p].written_since
<1>1. change.undescribed = DOMAIN view.metadata /\ change.described = read.metadata
  BY DEF restore_snapshot, NoChange
<1>2. read \in History
  BY DEF Follows, HasRead, Stores, Ready
<1>3. /\ read.metadata \in [DOMAIN read.metadata -> MetadataRow]
      /\ Keys \subseteq DOMAIN read.metadata
  BY <1>2, PastTyped
<1>4. Keys \cap since.described = {}
  BY <1>1, <1>3, NoConflict DEF Stores, Ready
<1>5. DOMAIN metadata \subseteq DOMAIN view.metadata
  BY <1>4 DEF Follows, Stores, Ready, Sees
<1>6. DOMAIN metadata' = DOMAIN read.metadata
  BY <1>1, <1>5, StoredTables
<1>7. \A c \in DOMAIN metadata' : metadata'[c] = read.metadata[c]
  BY <1>1, <1>6, StoredTables
<1>8. metadata' = [c \in DOMAIN metadata' |-> metadata'[c]]
  BY DEF Stores, Store
<1> QED BY <1>2, <1>3, <1>6, <1>7, <1>8

\* p drops the columns `dropped`, which nothing needs by the links its checks saw.
Dropping(p, change, dropped, cascade) ==
  /\ change \in drop_columns(proc[p].view, dropped, cascade)
  /\ Op(p) = "delete_columns" \/ proc[p].cleanup
  /\ cascade \in BOOLEAN
  /\ "links" \notin proc[p].beside =>
       cascade \/ \A c \in dropped : Dependents(ParentOf(metadata), LabelFor(metadata), c) \subseteq dropped

LEMMA NothingNeedsDropped ==
  ASSUME NEW pending, NEW parents, NEW labels
  PROVE  \A c \in Droppable(pending, parents, labels) :
           Dependents(parents, labels, c) \subseteq Droppable(pending, parents, labels)
BY DroppableClosed

LEMMA CleanupDrops ==
  ASSUME NEW p \in Processes, Follows(p), NEW change, Ready(p, change),
         proc[p].cleanup, change \in cleanup_null_only_columns(proc[p].view)
  PROVE  \E dropped : Dropping(p, change, dropped, FALSE)
<1> DEFINE view == proc[p].view
           Closed(columns) ==
             \A c \in columns : Dependents(ParentOf(view.metadata), LabelFor(view.metadata), c)
                                 \subseteq columns
<1>1. PICK pending :
        change \in drop_columns(view, IF view.rows = {} THEN {} ELSE
                     Droppable(pending, ParentOf(view.metadata), LabelFor(view.metadata)), FALSE)
  BY DEF cleanup_null_only_columns
<1>2. Closed(Droppable(pending, ParentOf(view.metadata), LabelFor(view.metadata)))
  BY NothingNeedsDropped
<1>3. PICK dropped : change \in drop_columns(view, dropped, FALSE) /\ Closed(dropped)
  BY <1>1, <1>2
<1>4. "links" \notin proc[p].beside =>
        ParentOf(metadata) = ParentOf(view.metadata) /\ LabelFor(metadata) = LabelFor(view.metadata)
  BY DEF Follows, Ready, Sees
<1>5. Dropping(p, change, dropped, FALSE)
  BY <1>3, <1>4 DEF Dropping
<1> QED BY <1>5

LEMMA DeleteDrops ==
  ASSUME NEW p \in Processes, Follows(p), NEW change, Ready(p, change),
         Op(p) = "delete_columns",
         change \in drop_columns(proc[p].view, Calls[proc[p].call].columns, Calls[proc[p].call].cascade)
  PROVE  Dropping(p, change, Calls[proc[p].call].columns, Calls[proc[p].call].cascade)
<1> DEFINE call == Calls[proc[p].call]
<1>1. WellFormed(call) /\ call.op = "delete_columns"
  BY SharedAssumption DEF Follows, Running, Ready, Op
<1>2. call.cascade \in BOOLEAN
  BY <1>1 DEF WellFormed
<1>3. HasRead(p)
  BY DEF Follows, Ready
<1>4. "links" \notin proc[p].beside /\ ~ call.cascade =>
        \A c \in call.columns : Dependents(ParentOf(metadata), LabelFor(metadata), c) = {}
  BY <1>3 DEF HasRead
<1> QED BY <1>2, <1>4 DEF Dropping

\* What a commit may do to metadata.
LEMMA CommitMetadata ==
  ASSUME Followed, NEW p \in Processes, NEW change, Stores(p, change)
  PROVE  \/ OnlyRetyped(metadata, metadata')
         \/ /\ Op(p) = "restore_snapshot" /\ proc[p].read \in History
            /\ metadata' = proc[p].read.metadata
         \/ \E dropped, cascade : Dropping(p, change, dropped, cascade)
<1> DEFINE view == proc[p].view
           call == Calls[proc[p].call]
           read == proc[p].read
<1>1. Follows(p) /\ Ready(p, change) /\ TypedSnapshot(Snapshot)
  BY DEF Followed, Stores
<1>2. Running(p) /\ Op(p) # "update_column_metadata" /\ proc[p].phase = "open"
  BY <1>1 DEF Follows, Ready, Running
<1>3. change \in Body(p, view)
  BY <1>1 DEF Ready
<1>4. WellFormed(call) /\ call.op = Op(p)
  BY <1>2, SharedAssumption DEF Running, Op
<1> HIDE DEF call
<1>5. DOMAIN change.described = {} /\ change.undescribed = {} => OnlyRetyped(metadata, metadata')
  BY <1>1, UndescribedMetadata, SameRetyped
<1>6. CASE proc[p].cleanup /\ change \in cleanup_null_only_columns(view)
  BY <1>1, <1>6, CleanupDrops
<1>7. CASE Op(p) = "update_database" /\ change \in update_database(view, call)
  BY <1>1, <1>4, <1>7, UpdateRetypes
<1>8. CASE Op(p) = "delete_rows" /\ change \in delete_rows(view, call)
  <2>1. change.described = << >> /\ change.undescribed = {}
    BY <1>8 DEF delete_rows, NoChange
  <2> QED BY <1>5, <2>1, NothingDescribed
<1>9. CASE Op(p) = "delete_columns" /\ change \in drop_columns(view, call.columns, call.cascade)
  BY <1>1, <1>9, DeleteDrops DEF call
<1>10. CASE Op(p) = "update_cluster_by" /\ change \in update_cluster_by(view, call)
  <2>1. change.described = << >> /\ change.undescribed = {}
    BY <1>10 DEF update_cluster_by, NoChange
  <2> QED BY <1>5, <2>1, NothingDescribed
<1>11. CASE Op(p) = "recluster" /\ change \in recluster(view, read)
  <2>1. change.described = << >> /\ change.undescribed = {}
    BY <1>11 DEF recluster, NoChange
  <2> QED BY <1>5, <2>1, NothingDescribed
<1>12. CASE Op(p) = "restore_snapshot" /\ change \in restore_snapshot(view, call, read)
  <2>1. CASE "metadata" \in call.tables
    BY <1>1, <1>12, <2>1, RestoreReplaces DEF call
  <2>2. CASE "metadata" \notin call.tables
    <3>1. change.described = << >> /\ change.undescribed = {}
      BY <1>12, <2>2 DEF restore_snapshot, NoChange
    <3> QED BY <1>5, <3>1, NothingDescribed
  <2> QED BY <2>1, <2>2
<1> QED BY <1>2, <1>3, <1>6, <1>7, <1>8, <1>9, <1>10, <1>11, <1>12, BodyOf DEF call

\* The row that UpdateFields writes.
LEMMA UpdateFieldsWrites ==
  ASSUME TypedSnapshot(Snapshot), NEW p \in Processes, Follows(p), UpdateFields(p)
  PROVE  LET call == Calls[proc[p].call]
         IN  /\ call.column \in Columns /\ call.fields \in Fields
             /\ DOMAIN metadata' = DOMAIN metadata
             /\ \A c \in DOMAIN metadata \ {call.column} : metadata'[c] = metadata[c]
             /\ call.column \in DOMAIN metadata =>
                  /\ metadata'[call.column].parent_name
                       = Merge(call.fields.parent_name, metadata[call.column].parent_name)
                  /\ metadata'[call.column].label_for
                       = Merge(call.fields.label_for, metadata[call.column].label_for)
                  /\ metadata'[call.column].is_categorical
                       = Merge(call.fields.is_categorical, metadata[call.column].is_categorical)
                  /\ metadata'[call.column].is_primary_key = metadata[call.column].is_primary_key
                  /\ metadata'[call.column].sql_type = metadata[call.column].sql_type
<1> DEFINE call == Calls[proc[p].call]
           end  == call.column
<1>1. proc[p].call \in DOMAIN Calls /\ call.op = "update_column_metadata"
  BY DEF UpdateFields, Follows, Running
<1>2. call.fields \in Fields /\ end \in Columns
  BY <1>1, CallFields, SharedAssumption DEF WellFormed
<1>3. metadata \in [DOMAIN metadata -> MetadataRow]
  BY SnapshotFields DEF TypedSnapshot
<1>4. metadata' = [c \in DOMAIN metadata |->
                        IF c # end THEN metadata[c]
                        ELSE [metadata[c] EXCEPT
                                !.parent_name = Merge(call.fields.parent_name, @),
                                !.label_for = Merge(call.fields.label_for, @),
                                !.is_categorical = Merge(call.fields.is_categorical, @)]]
  BY DEF UpdateFields
<1> HIDE DEF end
<1>5. end \in DOMAIN metadata =>
                  /\ metadata'[end].parent_name = Merge(call.fields.parent_name, metadata[end].parent_name)
                  /\ metadata'[end].label_for = Merge(call.fields.label_for, metadata[end].label_for)
                  /\ metadata'[end].is_categorical
                       = Merge(call.fields.is_categorical, metadata[end].is_categorical)
                  /\ metadata'[end].is_primary_key = metadata[end].is_primary_key
                  /\ metadata'[end].sql_type = metadata[end].sql_type
  <2> HIDE DEF call
  <2> QED BY <1>3, <1>4 DEF MetadataRow
<1>6. /\ DOMAIN metadata' = DOMAIN metadata
      /\ \A c \in DOMAIN metadata \ {end} : metadata'[c] = metadata[c]
  BY <1>4
<1> QED BY <1>2, <1>5, <1>6 DEF end

LEMMA CommitOrder ==
  ASSUME Followed, NEW p \in Processes, NEW change, Stores(p, change), LinksInOrder(metadata),
         "drop beside declaration" \notin Opened(p)
  PROVE  LinksInOrder(metadata')
<1>1. TypedSnapshot(Snapshot) /\ Follows(p)
  BY DEF Followed
<1>2. CASE OnlyRetyped(metadata, metadata')
  <2>1. SameOrder(metadata, metadata')
    BY <1>2 DEF OnlyRetyped, SameOrder
  <2> QED BY <2>1, OrderStays
<1>3. CASE proc[p].read \in History /\ metadata' = proc[p].read.metadata
  <2>1. Sound(proc[p].read)
    BY <1>3, SharedAssumption
  <2> QED BY <1>3, <2>1 DEF Sound
<1>4. ASSUME NEW dropped, NEW cascade, Dropping(p, change, dropped, cascade)
      PROVE  LinksInOrder(metadata')
  <2>1. "links" \notin proc[p].beside
    BY <1>4 DEF Dropping, Opened
  <2>2. /\ cascade \in BOOLEAN
        /\ cascade \/ \A c \in dropped : Dependents(ParentOf(metadata), LabelFor(metadata), c) \subseteq dropped
    BY <1>4, <2>1 DEF Dropping
  <2>3. metadata' = metadata_without(metadata, dropped, cascade)
    BY <1>1, <1>4, <2>1, <2>2, DropOnCurrent DEF Dropping
  <2>4. DOMAIN metadata \in SUBSET Columns /\ metadata \in [DOMAIN metadata -> MetadataRow]
    BY <1>1, SnapshotFields DEF TypedSnapshot
  <2>5. LinksInOrder(metadata_without(metadata, dropped, cascade))
    BY <2>2, <2>4, DetachedOrder
  <2> QED BY <2>3, <2>5
<1> QED BY <1>2, <1>3, <1>4, CommitMetadata

\* A declaration whose checks have read the current links and types.
LEMMA DeclaredOrder ==
  ASSUME TypedSnapshot(Snapshot), NEW p \in Processes, Follows(p), UpdateFields(p),
         LinksInOrder(metadata), proc[p].beside \cap {"links", "types"} = {}
  PROVE  LinksInOrder(metadata')
<1> DEFINE call == Calls[proc[p].call]
           new  == update_column_metadata(metadata, call.column, call.fields)
<1>1. Acceptable(metadata, call.column, call.fields)
  BY DEF UpdateFields, Follows, HasRead, Op
<1>2. DOMAIN metadata \in SUBSET Columns /\ metadata \in [DOMAIN metadata -> MetadataRow]
  BY SnapshotFields DEF TypedSnapshot
<1> HIDE DEF call
<1>3. /\ call.column \in Columns /\ call.fields \in Fields
      /\ DOMAIN metadata' = DOMAIN metadata
      /\ \A c \in DOMAIN metadata \ {call.column} : metadata'[c] = metadata[c]
      /\ call.column \in DOMAIN metadata =>
           /\ metadata'[call.column].parent_name
                = Merge(call.fields.parent_name, metadata[call.column].parent_name)
           /\ metadata'[call.column].label_for
                = Merge(call.fields.label_for, metadata[call.column].label_for)
           /\ metadata'[call.column].is_primary_key = metadata[call.column].is_primary_key
           /\ metadata'[call.column].sql_type = metadata[call.column].sql_type
  BY UpdateFieldsWrites DEF call
<1>4. LinksInOrder(new)
  BY <1>1, <1>2, <1>3, UpdatedOrder
<1>5. /\ DOMAIN new = DOMAIN metadata
      /\ \A c \in DOMAIN metadata :
           /\ new[c].sql_type = metadata[c].sql_type
           /\ new[c].is_primary_key = metadata[c].is_primary_key
           /\ new[c].parent_name = IF c = call.column
                THEN Merge(call.fields.parent_name, metadata[c].parent_name) ELSE metadata[c].parent_name
           /\ new[c].label_for = IF c = call.column
                THEN Merge(call.fields.label_for, metadata[c].label_for) ELSE metadata[c].label_for
  BY DEF update_column_metadata
<1> HIDE DEF new
<1>6. SameOrder(new, metadata')
  BY <1>3, <1>5 DEF SameOrder
<1> QED BY <1>4, <1>6, OrderStays

LEMMA ForcedOrder ==
  ASSUME TypedSnapshot(Snapshot), NEW p \in Processes, ForceCategorical(p), LinksInOrder(metadata)
  PROVE  LinksInOrder(metadata')
<1>1. PICK end : RowRewritten(end) /\ ParentOf(metadata') = ParentOf(metadata)
                 /\ LabelFor(metadata') = LabelFor(metadata)
  BY ForceRewrites
<1>2. DOMAIN metadata' = DOMAIN metadata
  BY <1>1 DEF RowRewritten
<1>3. \A c \in DOMAIN metadata : metadata'[c].parent_name = metadata[c].parent_name
                                 /\ metadata'[c].label_for = metadata[c].label_for
  BY <1>1, <1>2 DEF ParentOf, LabelFor
<1>4. SameOrder(metadata, metadata')
  BY <1>1, <1>2, <1>3 DEF SameOrder, RowRewritten
<1> QED BY <1>4, OrderStays

LinksOrdered ==
  holes \cap {"declaration beside links", "drop beside declaration"} = {} => LinksInOrder(metadata)

LEMMA StepOrdered == Followed /\ LinksOrdered /\ [SharedNext]_shared_vars => LinksOrdered'
<1> SUFFICES ASSUME Followed, LinksOrdered, [SharedNext]_shared_vars,
                    holes' \cap {"declaration beside links", "drop beside declaration"} = {}
             PROVE  LinksInOrder(metadata')
  BY DEF LinksOrdered
<1>1. CASE UNCHANGED shared_vars
  BY <1>1 DEF shared_vars, vars, LinksOrdered
<1>2. CASE SharedNext
  <2>1. PICK p \in Processes : ProcessStep(p)
    BY <1>2 DEF SharedNext
  <2>2. holes \subseteq holes' \cup {"sort key"}
    BY <2>1 DEF ProcessStep, Check, Begin, Commit, Rollback, UpdateFields, ForceCategorical, CutShort
  <2>3. LinksInOrder(metadata)
    BY <2>2 DEF LinksOrdered
  <2>4. TypedSnapshot(Snapshot) /\ Follows(p)
    BY DEF Followed
  <2>5. CASE Check(p) \/ Begin(p) \/ Rollback(p) \/ CutShort(p)
    BY <2>3, <2>5 DEF Check, Begin, Rollback, CutShort, vars
  <2>6. CASE Commit(p)
    <3>1. "drop beside declaration" \notin Opened(p)
      BY <2>6 DEF Commit
    <3> QED BY <2>3, <2>6, <3>1, CommitStores, CommitOrder
  <2>7. CASE UpdateFields(p)
    <3>1. proc[p].beside \cap {"links", "types"} = {}
      BY <2>7, Zenon DEF UpdateFields
    <3> QED BY <2>3, <2>4, <2>7, <3>1, DeclaredOrder
  <2>8. CASE ForceCategorical(p)
    BY <2>3, <2>4, <2>8, ForcedOrder
  <2> QED BY <2>1, <2>5, <2>6, <2>7, <2>8 DEF ProcessStep
<1> QED BY <1>1, <1>2

\* No link dangles, loops or mixes a pair with a hierarchy: a drop or a declaration
\* that commits beside no change of links joins the links its checks have read.
THEOREM LinksAreKept == SharedSpec => []LinksSurviveWriters
<1>1. SharedInit => LinksOrdered
  BY SharedAssumption DEF SharedInit, LinksOrdered, Sound
<1>2. LinksOrdered => LinksSurviveWriters
  BY DEF LinksOrdered, LinksSurviveWriters, LinksInOrder, LinksResolve, HierarchyIsForest,
         LabelColumnShape
<1> QED BY <1>1, <1>2, InitFollowed, StepFollowed, StepOrdered, PTL DEF SharedSpec

-----------------------------------------------------------------------------
(* Members of a hierarchy *)

InHierarchy(md, c) == md[c].parent_name # NULL \/ \E d \in DOMAIN md : md[d].parent_name = c

\* A call that has declared c at an end of a link has yet to make it categorical.
Awaited(c) ==
  \E q \in Processes :
    \/ proc[q].phase = "child" /\ c = Calls[proc[q].call].column
    \/ proc[q].phase \in {"child", "parent"} /\ c = Calls[proc[q].call].fields.parent_name

MembersForced ==
  holes \cap {"cut short", "declaration beside links"} = {} =>
    \A c \in DOMAIN metadata :
      InHierarchy(metadata, c) => metadata[c].is_categorical = TRUE \/ Awaited(c)

LEMMA HierarchyMembers ==
  ASSUME NEW md, NEW c
  PROVE  InHierarchy(md, c) <=> md[c].parent_name # NULL \/ Children(ParentOf(md), c) # {}
BY DEF InHierarchy, Children, ParentOf

LEMMA CategoricalMembers ==
  ASSUME NEW cols, NEW md \in [cols -> MetadataRow], MembersCategorical(md)
  PROVE  \A c \in cols : InHierarchy(md, c) => md[c].is_categorical = TRUE
<1> SUFFICES ASSUME NEW c \in cols, InHierarchy(md, c) PROVE md[c].is_categorical = TRUE
  OBVIOUS
<1>1. md[c].is_categorical \in BOOLEAN
  BY DEF MetadataRow
<1>2. md[c].is_categorical
  BY HierarchyMembers DEF MembersCategorical
<1> QED BY <1>1, <1>2

LEMMA FewerMembers ==
  ASSUME NEW md, NEW new, FewerLinksOf(md, new), NULL \notin DOMAIN md, NEW c \in DOMAIN new,
         InHierarchy(new, c)
  PROVE  c \in DOMAIN md /\ InHierarchy(md, c) /\ new[c].is_categorical = md[c].is_categorical
BY DEF FewerLinksOf, InHierarchy

LEMMA CommitMembers ==
  ASSUME Followed, NEW p \in Processes, NEW change, Stores(p, change)
  PROVE  \/ FewerLinksOf(metadata, metadata')
         \/ \A c \in DOMAIN metadata' : InHierarchy(metadata', c) => metadata'[c].is_categorical = TRUE
<1>1. Follows(p)
  BY DEF Followed
<1>2. CASE OnlyRetyped(metadata, metadata')
  BY <1>2 DEF OnlyRetyped, FewerLinksOf
<1>3. CASE proc[p].read \in History /\ metadata' = proc[p].read.metadata
  <2>1. Sound(proc[p].read)
    BY <1>3, SharedAssumption
  <2>2. /\ proc[p].read.metadata \in [DOMAIN proc[p].read.metadata -> MetadataRow]
        /\ MembersCategorical(proc[p].read.metadata)
    BY <2>1 DEF Sound
  <2> QED BY <1>3, <2>2, CategoricalMembers
<1>4. ASSUME NEW dropped, NEW cascade, Dropping(p, change, dropped, cascade)
      PROVE  FewerLinksOf(metadata, metadata')
  BY <1>1, <1>4, DropFewerLinks DEF Dropping
<1> QED BY <1>2, <1>3, <1>4, CommitMetadata

\* A step of a process that awaits nothing.
LEMMA AwaitedStays ==
  ASSUME Followed, NEW p \in Processes, proc[p].phase \notin {"child", "parent"},
         NEW next, NEW footprint, NEW kinds, Step(p, next, footprint, kinds),
         NEW c, Awaited(c)
  PROVE  Awaited(c)'
<1>1. PICK q \in Processes :
        \/ proc[q].phase = "child" /\ c = Calls[proc[q].call].column
        \/ proc[q].phase \in {"child", "parent"} /\ c = Calls[proc[q].call].fields.parent_name
  BY DEF Awaited
<1>2. q # p
  BY <1>1
<1>3. DOMAIN proc[q] = Fields_of_proc
  BY DEF Followed, Follows, Running
<1>4. SeenBy(q, footprint, kinds)
  BY <1>2, <1>3, StepSeen
<1> QED BY <1>1, <1>4 DEF SeenBy, Awaited

\* A declaration whose checks have read the current links.
LEMMA DeclaredMembers ==
  ASSUME Followed, MembersForced, NEW p \in Processes, UpdateFields(p),
         holes \cap {"cut short", "declaration beside links"} = {},
         proc[p].beside \cap {"links", "types"} = {}
  PROVE  \A c \in DOMAIN metadata' :
           InHierarchy(metadata', c) => metadata'[c].is_categorical = TRUE \/ Awaited(c)'
<1> DEFINE call   == Calls[proc[p].call]
           column == call.column
           fields == call.fields
<1> SUFFICES ASSUME NEW c \in DOMAIN metadata', InHierarchy(metadata', c)
             PROVE  metadata'[c].is_categorical = TRUE \/ Awaited(c)'
  OBVIOUS
<1>1. TypedSnapshot(Snapshot) /\ Follows(p) /\ DOMAIN proc[p] = Fields_of_proc
  BY DEF Followed, Follows, Running
<1>2. Acceptable(metadata, column, fields)
  BY <1>1 DEF UpdateFields, Follows, HasRead, Op
<1>3. PICK kinds, footprint, next :
        /\ Step(p, next, footprint, kinds)
        /\ Declares(fields.parent_name) => next = [proc[p] EXCEPT !.phase = "child"]
  BY DEF UpdateFields
<1>4. proc[p].phase = "checked"
  BY DEF UpdateFields
<1>5. Declares(fields.parent_name) => proc'[p].phase = "child" /\ proc'[p].call = proc[p].call
  <2>1. proc'[p] = next
    BY <1>3, StepTaken
  <2>2. [proc[p] EXCEPT !.phase = "child"].phase = "child"
        /\ [proc[p] EXCEPT !.phase = "child"].call = proc[p].call
    BY <1>1 DEF Fields_of_proc
  <2> QED BY <1>3, <2>1, <2>2
<1>6. Declares(fields.parent_name) /\ c \in {column, fields.parent_name} => Awaited(c)'
  BY <1>5 DEF Awaited
<1>7. Awaited(c) => Awaited(c)'
  BY <1>3, <1>4, AwaitedStays
<1> HIDE DEF call
<1>8. /\ fields \in Fields /\ column \in Columns
      /\ DOMAIN metadata' = DOMAIN metadata
      /\ \A d \in DOMAIN metadata \ {column} : metadata'[d] = metadata[d]
      /\ column \in DOMAIN metadata =>
           /\ metadata'[column].parent_name = Merge(fields.parent_name, metadata[column].parent_name)
           /\ metadata'[column].is_categorical
                = Merge(fields.is_categorical, metadata[column].is_categorical)
  BY <1>1, UpdateFieldsWrites DEF call
<1>9. /\ column \in DOMAIN metadata
      /\ fields.is_categorical = FALSE =>
           Children(ParentOf(metadata), column) = {}
           /\ Merge(fields.parent_name, metadata[column].parent_name) = NULL
  BY <1>2 DEF Acceptable, metadata_update_accepted, is_categorical_accepted
<1> HIDE DEF column, fields
<1>10. NULL \notin DOMAIN metadata
  BY <1>1, SnapshotFields, ResultSetAssumption DEF TypedSnapshot
<1>11. CASE Declares(fields.parent_name) /\ c \in {column, fields.parent_name}
  BY <1>6, <1>11
<1>12. CASE ~ (Declares(fields.parent_name) /\ c \in {column, fields.parent_name})
  <2>1. InHierarchy(metadata, c)
    <3>1. \A d \in DOMAIN metadata :
            d = column => metadata'[d].parent_name \in {fields.parent_name, metadata[d].parent_name}
      BY <1>8 DEF Merge
    <3>2. c \in DOMAIN metadata /\ c # NULL
      BY <1>8, <1>10
    <3>3. CASE metadata'[c].parent_name # NULL
      <4>1. CASE c # column
        BY <1>8, <3>2, <3>3, <4>1 DEF InHierarchy
      <4>2. CASE c = column
        <5>1. ~ Declares(fields.parent_name)
          BY <1>12, <4>2
        <5>2. metadata'[c].parent_name = metadata[c].parent_name
          BY <1>8, <1>9, <3>3, <4>2, <5>1 DEF Merge, Declares
        <5> QED BY <3>3, <5>2 DEF InHierarchy
      <4> QED BY <4>1, <4>2
    <3>4. ASSUME NEW d \in DOMAIN metadata, metadata'[d].parent_name = c
          PROVE  metadata[d].parent_name = c
      <4>1. CASE d # column
        BY <1>8, <3>4, <4>1
      <4>2. CASE d = column
        <5>1. c # fields.parent_name \/ ~ Declares(fields.parent_name)
          BY <1>12
        <5>2. fields.parent_name = ABSENT \/ c # fields.parent_name
          BY <3>2, <5>1 DEF Declares
        <5> QED BY <1>8, <1>9, <3>4, <4>2, <5>2 DEF Merge
      <4> QED BY <4>1, <4>2
    <3> QED BY <1>8, <3>3, <3>4 DEF InHierarchy
  <2>2. metadata[c].is_categorical = TRUE \/ Awaited(c)
    BY <1>8, <2>1 DEF MembersForced
  <2>3. metadata[c].is_categorical = TRUE => metadata'[c].is_categorical = TRUE
    <3>1. CASE c # column
      BY <1>8, <3>1
    <3>2. CASE c = column
      <4>1. fields.is_categorical # FALSE
        <5>1. ASSUME fields.is_categorical = FALSE PROVE FALSE
          <6>1. metadata'[c].parent_name = NULL
            BY <1>8, <1>9, <3>2, <5>1
          <6>2. PICK d \in DOMAIN metadata : metadata'[d].parent_name = c
            BY <1>8, <6>1 DEF InHierarchy
          <6>3. d # column
            BY <1>8, <1>10, <3>2, <6>1, <6>2
          <6>4. metadata[d].parent_name = c
            BY <1>8, <6>2, <6>3
          <6>5. d \in Children(ParentOf(metadata), c)
            BY <6>4 DEF Children, ParentOf
          <6> QED BY <1>9, <3>2, <5>1, <6>5
        <5> QED BY <5>1
      <4>2. fields.is_categorical \in {TRUE, ABSENT}
        BY <1>8, <4>1 DEF Fields
      <4> QED BY <1>8, <1>9, <3>2, <4>2 DEF Merge
    <3> QED BY <3>1, <3>2
  <2> QED BY <1>7, <2>2, <2>3
<1> QED BY <1>11, <1>12

\* One of the two statements that follow a declaration.
LEMMA ForcedMembers ==
  ASSUME Followed, MembersForced, NEW p \in Processes, ForceCategorical(p),
         holes \cap {"cut short", "declaration beside links"} = {}
  PROVE  \A c \in DOMAIN metadata' :
           InHierarchy(metadata', c) => metadata'[c].is_categorical = TRUE \/ Awaited(c)'
<1> DEFINE call == Calls[proc[p].call]
           end  == IF proc[p].phase = "child" THEN call.column ELSE call.fields.parent_name
<1> SUFFICES ASSUME NEW c \in DOMAIN metadata', InHierarchy(metadata', c)
             PROVE  metadata'[c].is_categorical = TRUE \/ Awaited(c)'
  OBVIOUS
<1>1. TypedSnapshot(Snapshot) /\ DOMAIN proc[p] = Fields_of_proc
  BY DEF Followed, Follows, Running
<1>2. PICK kinds, footprint, next :
        /\ Step(p, next, footprint, kinds)
        /\ proc[p].phase = "child" => next = [proc[p] EXCEPT !.phase = "parent"]
  BY DEF ForceCategorical
<1>3. metadata' = [d \in DOMAIN metadata |->
                     IF d = end THEN [metadata[d] EXCEPT !.is_categorical = TRUE] ELSE metadata[d]]
  BY DEF ForceCategorical
<1>4. proc[p].phase \in {"child", "parent"}
  BY DEF ForceCategorical
<1>5. \A d \in DOMAIN metadata : metadata[d] \in MetadataRow
  BY <1>1, SnapshotFields DEF TypedSnapshot
<1>6. /\ DOMAIN metadata' = DOMAIN metadata
      /\ \A d \in DOMAIN metadata :
           /\ metadata'[d].parent_name = metadata[d].parent_name
           /\ d = end => metadata'[d].is_categorical = TRUE
           /\ d # end => metadata'[d] = metadata[d]
  <2> HIDE DEF end
  <2> QED BY <1>3, <1>5 DEF MetadataRow
<1>7. InHierarchy(metadata, c)
  BY <1>6 DEF InHierarchy
<1>8. CASE c = end
  BY <1>6, <1>8
<1>9. CASE c # end
  <2>1. metadata'[c] = metadata[c]
    BY <1>6, <1>9
  <2>2. metadata[c].is_categorical = TRUE \/ Awaited(c)
    BY <1>6, <1>7 DEF MembersForced
  <2>3. ASSUME Awaited(c) PROVE Awaited(c)'
    <3>1. PICK q \in Processes :
            \/ proc[q].phase = "child" /\ c = Calls[proc[q].call].column
            \/ proc[q].phase \in {"child", "parent"} /\ c = Calls[proc[q].call].fields.parent_name
      BY <2>3 DEF Awaited
    <3>2. CASE q # p
      <4>1. DOMAIN proc[q] = Fields_of_proc
        BY DEF Followed, Follows, Running
      <4>2. SeenBy(q, footprint, kinds)
        BY <1>2, <3>2, <4>1, StepSeen
      <4> QED BY <3>1, <4>2 DEF SeenBy, Awaited
    <3>3. CASE q = p
      <4>1. proc[p].phase = "child" /\ c = call.fields.parent_name
        BY <1>4, <1>9, <3>1, <3>3
      <4>2. proc'[p] = [proc[p] EXCEPT !.phase = "parent"]
        BY <1>2, <4>1, StepTaken
      <4>3. proc'[p].phase = "parent" /\ proc'[p].call = proc[p].call
        BY <1>1, <4>2 DEF Fields_of_proc
      <4> QED BY <4>1, <4>3 DEF Awaited
    <3> QED BY <3>2, <3>3
  <2> QED BY <2>1, <2>2, <2>3
<1> QED BY <1>8, <1>9

LEMMA StepMembers == Followed /\ MembersForced /\ [SharedNext]_shared_vars => MembersForced'
<1> SUFFICES ASSUME Followed, MembersForced, [SharedNext]_shared_vars,
                    holes' \cap {"cut short", "declaration beside links"} = {}
             PROVE  \A c \in DOMAIN metadata' :
                      InHierarchy(metadata', c) => metadata'[c].is_categorical = TRUE \/ Awaited(c)'
  BY DEF MembersForced, InHierarchy
<1>1. CASE UNCHANGED shared_vars
  BY <1>1 DEF shared_vars, vars, MembersForced, InHierarchy, Awaited
<1>2. CASE SharedNext
  <2>1. PICK p \in Processes : ProcessStep(p)
    BY <1>2 DEF SharedNext
  <2>2. holes \subseteq holes' \cup {"sort key"}
    BY <2>1 DEF ProcessStep, Check, Begin, Commit, Rollback, UpdateFields, ForceCategorical, CutShort
  <2>3. holes \cap {"cut short", "declaration beside links"} = {}
    BY <2>2
  <2>4. \A c \in DOMAIN metadata :
          InHierarchy(metadata, c) => metadata[c].is_categorical = TRUE \/ Awaited(c)
    BY <2>3 DEF MembersForced
  <2>5. NULL \notin DOMAIN metadata
    BY SnapshotFields, ResultSetAssumption DEF Followed, TypedSnapshot
  <2>6. CASE Check(p) \/ Begin(p) \/ Rollback(p)
    <3>1. proc[p].phase \notin {"child", "parent"} /\ metadata' = metadata
      BY <2>6 DEF Check, Begin, Rollback, vars
    <3>2. PICK next, footprint, kinds : Step(p, next, footprint, kinds)
      BY <2>6 DEF Check, Begin, Rollback
    <3> QED BY <2>4, <3>1, <3>2, AwaitedStays DEF InHierarchy
  <2>7. CASE Commit(p)
    <3>1. PICK change, next, footprint, kinds :
            Stores(p, change) /\ Step(p, next, footprint, kinds)
      BY <2>7, CommitStores
    <3>2. proc[p].phase \notin {"child", "parent"}
      BY <2>7 DEF Commit
    <3>3. CASE FewerLinksOf(metadata, metadata')
      BY <2>4, <2>5, <3>1, <3>2, <3>3, AwaitedStays, FewerMembers
    <3> QED BY <3>1, <3>3, CommitMembers
  <2>8. CASE UpdateFields(p)
    <3>1. proc[p].beside \cap {"links", "types"} = {}
      BY <2>8, Zenon DEF UpdateFields
    <3> QED BY <2>3, <2>8, <3>1, DeclaredMembers
  <2>9. CASE ForceCategorical(p)
    BY <2>3, <2>9, ForcedMembers
  <2>10. ~ CutShort(p)
    BY DEF CutShort
  <2> QED BY <2>1, <2>6, <2>7, <2>8, <2>9, <2>10 DEF ProcessStep
<1> QED BY <1>1, <1>2

\* Whatever runs beside, both ends of a link are categorical or about to be made so by
\* the call that declared it: a check that has read the current links lets nobody
\* take the flag off a member.
THEOREM MembersAreKept == SharedSpec => []MembersSurviveWriters
<1>1. SharedInit => MembersForced
  <2> SUFFICES ASSUME SharedInit PROVE MembersForced
    OBVIOUS
  <2>1. metadata \in [DOMAIN metadata -> MetadataRow] /\ MembersCategorical(metadata)
    BY SharedAssumption DEF SharedInit, Sound
  <2> QED BY <2>1, CategoricalMembers DEF MembersForced
<1>2. MembersForced => MembersSurviveWriters
  <2> SUFFICES ASSUME MembersForced,
                      holes \cap {"cut short", "declaration beside links"} = {},
                      \A q \in Processes : proc[q].phase \notin {"child", "parent"},
                      NEW c \in DOMAIN metadata,
                      metadata[c].parent_name # NULL \/ Children(ParentOf(metadata), c) # {}
               PROVE  metadata[c].is_categorical
    BY DEF MembersSurviveWriters, HierarchyIsCategorical
  <2>1. InHierarchy(metadata, c)
    BY HierarchyMembers
  <2>2. ~ Awaited(c)
    BY DEF Awaited
  <2> QED BY <2>1, <2>2 DEF MembersForced
<1> QED BY <1>1, <1>2, InitFollowed, StepFollowed, StepMembers, PTL DEF SharedSpec

-----------------------------------------------------------------------------
(* Pairs *)

\* The declared pairs whose columns the table has.
PairsInPlace ==
  \A l \in DOMAIN metadata :
    metadata[l].label_for # NULL /\ {l, metadata[l].label_for} \subseteq DOMAIN fact_columns
      => Determines(rows, metadata[l].label_for, l)

PairHoles == {"declaration beside rows", "write beside declaration", "partial restore"}

\* Only a restore of some of the tables goes unstamped beside a write.
RestoredBeside ==
  \A q \in Processes :
    proc[q].phase # "idle" /\ "restored" \in proc[q].beside => "partial restore" \in holes

PairsKept == holes \cap PairHoles = {} => PairsInPlace

LEMMA UnstampedIsPartial == \A p : UnstampedRestore(p) => PartialRestore(p)
BY DEF UnstampedRestore, Restores, PartialRestore, Tables

LEMMA FewerPairs ==
  ASSUME PairsInPlace, TypedSnapshot(Snapshot),
         FewerLinksOf(metadata, metadata'), DOMAIN fact_columns' \subseteq DOMAIN fact_columns,
         NEW left \in SUBSET rows, rows' = {projected(r, DOMAIN fact_columns') : r \in left}
  PROVE  PairsInPlace'
<1> SUFFICES ASSUME NEW l \in DOMAIN metadata', metadata'[l].label_for # NULL,
                    {l, metadata'[l].label_for} \subseteq DOMAIN fact_columns'
             PROVE  Determines(rows', metadata'[l].label_for, l)
  BY DEF PairsInPlace
<1>1. l \in DOMAIN metadata /\ metadata'[l].label_for = metadata[l].label_for
  BY DEF FewerLinksOf
<1>2. Determines(rows, metadata[l].label_for, l)
  BY <1>1 DEF PairsInPlace
<1> QED BY <1>1, <1>2, ProjectedDetermines

LEMMA RetypedFewer ==
  ASSUME NEW md, NEW new, OnlyRetyped(md, new)
  PROVE  FewerLinksOf(md, new)
BY DEF OnlyRetyped, FewerLinksOf

\* A write that read the current rows and links.
LEMMA UpdateKeepsPairs ==
  ASSUME TypedSnapshot(Snapshot), PairsInPlace, NEW p \in Processes, Follows(p),
         NEW change, Stores(p, change), NEW call, WellFormed(call), call = Calls[proc[p].call],
         Op(p) = "update_database", change \in update_database(proc[p].view, call),
         proc[p].beside \cap {"links", "restored"} = {}
  PROVE  PairsInPlace'
<1> DEFINE view    == proc[p].view
           cols    == DOMAIN call.types
           written == WrittenRows(view, call)
<1>1. /\ cols \subseteq DOMAIN view.fact_columns /\ change.stamped = TRUE
      /\ change.removed = view.rows \ written /\ change.inserted = written \ view.rows
  <2>1. Updates(change, view, call)
    BY UpdateWrites
  <2> QED BY <2>1 DEF Updates
<1>2. Sees(p) /\ HasRead(p) /\ TypedSnapshot(view)
  BY DEF Follows, Stores, Ready, Sees
<1>3. /\ rows = view.rows /\ fact_columns = view.fact_columns
      /\ LabelFor(metadata) = LabelFor(view.metadata)
  BY <1>1, <1>2, WrittenTable DEF Sees
<1>4. OnlyRetyped(metadata, metadata')
  BY UpdateRetypes DEF Op
<1>5. call.op = "update_database" /\ call.batch \in SUBSET RowsOver(cols)
  BY DEF Op, WellFormed
<1>6. check_batch_keys(call.batch, cols, Keys) /\ get_primary_key_columns(view.metadata) = Keys
  BY <1>2 DEF HasRead, TypedSnapshot
<1>7. check_value_label_dependencies(written, view.metadata, call.batch, Keys, cols)
  <2>1. update_database(view, call) # {}
    OBVIOUS
  <2>2. check_value_label_dependencies(written, view.metadata, call.batch,
                                       get_primary_key_columns(view.metadata), cols)
    BY <2>1 DEF update_database, WrittenRows
  <2> QED BY <1>6, <2>2
<1>8. view.rows \in SUBSET RowsOver(DOMAIN view.fact_columns)
  BY <1>2 DEF TypedSnapshot
<1>9. written = upsert_fact_table(view.rows, DOMAIN view.fact_columns, call.batch, cols, Keys)
  BY <1>6 DEF WrittenRows
<1>10. rows' = {projected(r, DOMAIN fact_columns') : r \in written}
  <2> HIDE DEF written
  <2>1. (rows \ change.removed) \cup change.inserted = written
    BY <1>1, <1>3
  <2> QED BY <2>1 DEF Stores, Store
<1>11. DOMAIN fact_columns' \subseteq DOMAIN fact_columns
  BY StoredColumns
<1> HIDE DEF written, view, cols
<1> SUFFICES ASSUME NEW l \in DOMAIN metadata', metadata'[l].label_for # NULL,
                    {l, metadata'[l].label_for} \subseteq DOMAIN fact_columns'
             PROVE  Determines(rows', metadata'[l].label_for, l)
  BY DEF PairsInPlace
<1>12. l \in DOMAIN metadata /\ metadata'[l].label_for = metadata[l].label_for
  BY <1>4 DEF OnlyRetyped
<1>13. PICK code : code = metadata[l].label_for
  OBVIOUS
<1>14. /\ l \in DOMAIN view.metadata /\ view.metadata[l].label_for = code
       /\ code # NULL
  BY <1>3, <1>12, <1>13 DEF LabelFor
<1>15. Determines(view.rows, code, l)
  BY <1>3, <1>11, <1>12, <1>13 DEF PairsInPlace
<1>16. code \in cols \/ l \in cols =>
         check_value_label_dependency(written, code, l, TouchedCodes(written, call.batch, Keys, code))
  BY <1>7, <1>14, ChecksEachPair
<1>17. l \in DOMAIN view.fact_columns /\ code \in DOMAIN view.fact_columns
  BY <1>3, <1>11, <1>12, <1>13
<1>18. Determines(written, code, l)
  BY <1>1, <1>5, <1>6, <1>8, <1>9, <1>15, <1>16, <1>17, UpsertDetermines
<1> QED BY <1>10, <1>12, <1>13, <1>18, ProjectedDetermines

LEMMA RestoreKeepsPairs ==
  ASSUME TypedSnapshot(Snapshot), NEW p \in Processes, Follows(p),
         NEW change, Stores(p, change), Op(p) = "restore_snapshot",
         change \in restore_snapshot(proc[p].view, Calls[proc[p].call], proc[p].read),
         Calls[proc[p].call].tables = Tables, "restored" \notin proc[p].beside
  PROVE  PairsInPlace'
<1> DEFINE view == proc[p].view
           read == proc[p].read
<1>1. /\ change.removed = view.rows /\ change.inserted = read.rows /\ change.stamped = TRUE
  BY DEF restore_snapshot, NoChange, Tables
<1>2. read \in History /\ metadata' = read.metadata
  BY RestoreReplaces DEF Tables
<1>3. rows = view.rows
  BY <1>1, WrittenTable DEF Follows, Stores, Ready, Sees
<1>4. rows' = {projected(r, DOMAIN fact_columns') : r \in read.rows}
  <2>1. (rows \ change.removed) \cup change.inserted = read.rows
    BY <1>1, <1>3
  <2> QED BY <2>1 DEF Stores, Store
<1>5. \A l \in Declared(LabelFor(read.metadata)) : Determines(read.rows, read.metadata[l].label_for, l)
  BY <1>2, SharedAssumption DEF Sound
<1> HIDE DEF view, read
<1> SUFFICES ASSUME NEW l \in DOMAIN metadata', metadata'[l].label_for # NULL,
                    {l, metadata'[l].label_for} \subseteq DOMAIN fact_columns'
             PROVE  Determines(rows', metadata'[l].label_for, l)
  BY DEF PairsInPlace
<1>6. l \in Declared(LabelFor(read.metadata))
  BY <1>2 DEF Declared, LabelFor
<1>7. Determines(read.rows, metadata'[l].label_for, l)
  BY <1>2, <1>5, <1>6
<1> QED BY <1>4, <1>7, ProjectedDetermines

LEMMA CommitPairs ==
  ASSUME Followed, PairsInPlace, NEW p \in Processes, NEW change, Stores(p, change),
         Opened(p) \cap PairHoles = {}, "restored" \notin proc[p].beside
  PROVE  PairsInPlace'
<1> DEFINE view == proc[p].view
           call == Calls[proc[p].call]
           read == proc[p].read
<1>1. Follows(p) /\ Ready(p, change) /\ TypedSnapshot(Snapshot)
  BY DEF Followed, Stores
<1>2. Running(p) /\ Op(p) # "update_column_metadata" /\ proc[p].phase = "open"
  BY <1>1 DEF Follows, Ready, Running
<1>3. change \in Body(p, view)
  BY <1>1 DEF Ready
<1>4. WellFormed(call) /\ call.op = Op(p)
  BY <1>2, SharedAssumption DEF Running, Op
<1>5. "write beside restore" \notin Opened(p)
  BY UnstampedIsPartial DEF Opened, PairHoles
<1>6. CASE Op(p) = "update_database"
  <2>1. proc[p].beside \cap {"links", "restored"} = {}
    BY <1>6 DEF Opened, PairHoles
  <2>2. change \in update_database(view, call)
    <3>1. ~ proc[p].cleanup
      BY <1>2, <1>6 DEF Running
    <3> QED BY <1>2, <1>3, <1>6, <3>1, BodyOf
  <2> QED BY <1>1, <1>4, <1>6, <2>1, <2>2, UpdateKeepsPairs
<1>7. CASE Op(p) = "restore_snapshot"
  <2>1. call.tables = Tables
    BY <1>7 DEF Opened, PairHoles, PartialRestore
  <2>2. change \in restore_snapshot(view, call, read)
    <3>1. ~ proc[p].cleanup
      BY <1>2, <1>7 DEF Running
    <3> QED BY <1>2, <1>3, <1>7, <3>1, BodyOf
  <2> QED BY <1>1, <1>7, <2>1, <2>2, RestoreKeepsPairs
<1>8. CASE Op(p) \notin {"update_database", "restore_snapshot"}
  <2>1. FewerLinksOf(metadata, metadata')
    BY <1>1, <1>8, CommitMetadata, RetypedFewer, DropFewerLinks DEF Dropping
  <2>2. (rows \ change.removed) \cup change.inserted \in SUBSET rows
    <3>1. CASE change.inserted = {}
      BY <3>1
    <3>2. CASE change.inserted # {} /\ change.removed = view.rows /\ change.inserted = view.rows
      <4>1. ~ proc[p].written_since.altered /\ change.removed \cap proc[p].written_since.removed = {}
        BY <1>1, <3>2, NoConflict DEF Ready
      <4>2. view.rows \subseteq rows
        BY <1>1, <1>2, <3>2, <4>1 DEF Follows, Sees
      <4> QED BY <3>2, <4>2
    <3> QED BY <1>1, <1>5, <1>8, <3>1, <3>2, InsertsOnCurrent
  <2>3. DOMAIN fact_columns' \subseteq DOMAIN fact_columns
    BY <1>1, StoredColumns
  <2>4. rows' = {projected(r, DOMAIN fact_columns') : r \in (rows \ change.removed) \cup change.inserted}
    BY DEF Stores, Store
  <2> QED BY <1>1, <2>1, <2>2, <2>3, <2>4, FewerPairs
<1> QED BY <1>6, <1>7, <1>8

\* A declaration whose checks have read the current rows.
LEMMA DeclaredPairs ==
  ASSUME TypedSnapshot(Snapshot), PairsInPlace, NEW p \in Processes, Follows(p), UpdateFields(p),
         Declares(Calls[proc[p].call].fields.label_for) => "rows" \notin proc[p].beside
  PROVE  PairsInPlace'
<1> DEFINE call   == Calls[proc[p].call]
           column == call.column
           code   == call.fields.label_for
<1>1. Declares(code) => Determines(rows, code, column)
  BY DEF UpdateFields, Follows, HasRead, Op
<1>2. rows' = rows /\ fact_columns' = fact_columns
  BY DEF UpdateFields
<1> HIDE DEF call
<1>3. /\ DOMAIN metadata' = DOMAIN metadata
      /\ \A c \in DOMAIN metadata \ {column} : metadata'[c] = metadata[c]
      /\ column \in DOMAIN metadata =>
           metadata'[column].label_for = Merge(code, metadata[column].label_for)
  BY UpdateFieldsWrites DEF call
<1> HIDE DEF column, code
<1> SUFFICES ASSUME NEW l \in DOMAIN metadata', metadata'[l].label_for # NULL,
                    {l, metadata'[l].label_for} \subseteq DOMAIN fact_columns'
             PROVE  Determines(rows', metadata'[l].label_for, l)
  BY DEF PairsInPlace
<1>4. CASE l = column /\ Declares(code)
  <2>1. metadata'[l].label_for = code
    BY <1>3, <1>4 DEF Merge, Declares
  <2> QED BY <1>1, <1>2, <1>4, <2>1
<1>5. CASE ~ (l = column /\ Declares(code))
  <2>1. metadata'[l].label_for = metadata[l].label_for
    BY <1>3, <1>5 DEF Merge, Declares
  <2> QED BY <1>2, <1>3, <2>1 DEF PairsInPlace
<1> QED BY <1>4, <1>5

LEMMA StepRestored == Followed /\ RestoredBeside /\ [SharedNext]_shared_vars => RestoredBeside'
<1> SUFFICES ASSUME Followed, RestoredBeside, [SharedNext]_shared_vars PROVE RestoredBeside'
  OBVIOUS
<1>1. CASE UNCHANGED shared_vars
  BY <1>1 DEF shared_vars, RestoredBeside
<1>2. CASE SharedNext
  <2>1. PICK p \in Processes : ProcessStep(p)
    BY <1>2 DEF SharedNext
  <2>2. "partial restore" \in holes => "partial restore" \in holes'
    BY <2>1 DEF ProcessStep, Check, Begin, Commit, Rollback, UpdateFields, ForceCategorical, CutShort
  <2>3. DOMAIN proc[p] = Fields_of_proc
    BY DEF Followed, Follows, Running
  <2>4. ASSUME NEW next, NEW footprint, NEW kinds, Step(p, next, footprint, kinds),
               "restored" \in kinds => "partial restore" \in holes',
               next.phase # "idle" =>
                 \/ next.beside = {}
                 \/ next.beside = proc[p].beside /\ proc[p].phase # "idle"
        PROVE  RestoredBeside'
    <3> SUFFICES ASSUME NEW q \in Processes, proc'[q].phase # "idle", "restored" \in proc'[q].beside
                 PROVE  "partial restore" \in holes'
      BY DEF RestoredBeside
    <3>1. CASE q = p
      <4>1. proc'[p] = next
        BY <2>4, StepTaken
      <4> QED BY <2>2, <2>4, <3>1, <4>1 DEF RestoredBeside
    <3>2. CASE q # p
      <4>1. DOMAIN proc[q] = Fields_of_proc
        BY DEF Followed, Follows, Running
      <4>2. SeenBy(q, footprint, kinds)
        BY <2>4, <3>2, <4>1, StepSeen
      <4> QED BY <2>2, <2>4, <4>2 DEF SeenBy, RestoredBeside
    <3> QED BY <3>1, <3>2
  <2>5. Idle.phase = "idle" /\ Idle.beside = {}
    BY DEF Idle
  <2>6. CASE Check(p)
    <3>1. PICK name \in DOMAIN Calls : \E read \in ReadsBeforeBegin(Calls[name]) :
            Step(p, [Idle EXCEPT !.phase = "checked", !.call = name, !.read = read], NoFootprint, {})
      BY <2>6 DEF Check
    <3>2. PICK read \in ReadsBeforeBegin(Calls[name]) :
            Step(p, [Idle EXCEPT !.phase = "checked", !.call = name, !.read = read], NoFootprint, {})
      BY <3>1
    <3>3. [Idle EXCEPT !.phase = "checked", !.call = name, !.read = read].beside = {}
      BY DEF Idle
    <3> QED BY <2>4, <3>2, <3>3
  <2>7. CASE Begin(p)
    <3>1. [proc[p] EXCEPT !.phase = "open", !.view = Snapshot].beside = proc[p].beside
      BY <2>3 DEF Fields_of_proc
    <3>2. proc[p].phase # "idle"
      BY <2>7 DEF Begin
    <3>3. PICK next : next = [proc[p] EXCEPT !.phase = "open", !.view = Snapshot]
                      /\ Step(p, next, NoFootprint, {})
      BY <2>7 DEF Begin
    <3>4. next.beside = proc[p].beside
      BY <3>1, <3>3
    <3>5. Step(p, next, NoFootprint, {})
      BY <3>3
    <3> QED BY <2>4, <3>2, <3>4, <3>5
  <2>8. CASE Commit(p)
    <3>1. PICK change, next :
            /\ next \in {Idle, [Cleanup EXCEPT !.call = proc[p].call]}
            /\ Step(p, next, Footprint(change),
                    Changed \cup (IF UnstampedRestore(p) THEN {"restored"} ELSE {}))
      BY <2>8, CommitStores
    <3>2. [Cleanup EXCEPT !.call = proc[p].call].beside = {}
      BY DEF Cleanup, Idle
    <3>3. UnstampedRestore(p) => "partial restore" \in holes'
      BY <2>8, UnstampedIsPartial DEF Commit, Opened
    <3>4. "restored" \notin Changed
      BY DEF Changed
    <3> QED BY <2>4, <2>5, <3>1, <3>2, <3>3, <3>4
  <2>9. CASE Rollback(p) \/ CutShort(p)
    <3>1. Step(p, Idle, NoFootprint, {})
      BY <2>9 DEF Rollback, CutShort
    <3> QED BY <2>4, <2>5, <3>1
  <2>10. CASE UpdateFields(p)
    <3>1. [proc[p] EXCEPT !.phase = "child"].beside = proc[p].beside
      BY <2>3 DEF Fields_of_proc
    <3>2. proc[p].phase # "idle"
      BY <2>10 DEF UpdateFields
    <3>3. PICK next, footprint : /\ next \in {Idle, [proc[p] EXCEPT !.phase = "child"]}
                                 /\ Step(p, next, footprint, Changed)
      <4> DEFINE declares == Declares(Calls[proc[p].call].fields.parent_name)
      <4>1. PICK footprint :
              Step(p, IF declares THEN [proc[p] EXCEPT !.phase = "child"] ELSE Idle, footprint, Changed)
        BY <2>10 DEF UpdateFields
      <4> HIDE DEF declares
      <4>2. CASE declares
        <5>1. Step(p, [proc[p] EXCEPT !.phase = "child"], footprint, Changed)
          BY <4>1, <4>2
        <5> QED BY <5>1
      <4>3. CASE ~ declares
        <5>1. Step(p, Idle, footprint, Changed)
          BY <4>1, <4>3
        <5> QED BY <5>1
      <4> QED BY <4>2, <4>3
    <3>4. "restored" \notin Changed
      BY DEF Changed
    <3> QED BY <2>4, <2>5, <3>1, <3>2, <3>3, <3>4
  <2>11. CASE ForceCategorical(p)
    <3>1. [proc[p] EXCEPT !.phase = "parent"].beside = proc[p].beside
      BY <2>3 DEF Fields_of_proc
    <3>2. proc[p].phase # "idle"
      BY <2>11 DEF ForceCategorical
    <3>3. PICK next, footprint : /\ next \in {Idle, [proc[p] EXCEPT !.phase = "parent"]}
                                 /\ Step(p, next, footprint, {})
      BY <2>11 DEF ForceCategorical
    <3> QED BY <2>4, <2>5, <3>1, <3>2, <3>3
  <2> QED BY <2>1, <2>6, <2>7, <2>8, <2>9, <2>10, <2>11 DEF ProcessStep
<1> QED BY <1>1, <1>2

LEMMA StepPairs ==
  Followed /\ RestoredBeside /\ PairsKept /\ [SharedNext]_shared_vars => PairsKept'
<1> SUFFICES ASSUME Followed, RestoredBeside, PairsKept, [SharedNext]_shared_vars,
                    holes' \cap PairHoles = {}
             PROVE  PairsInPlace'
  BY DEF PairsKept, PairHoles
<1>1. CASE UNCHANGED shared_vars
  BY <1>1 DEF shared_vars, vars, PairsKept, PairsInPlace
<1>2. CASE SharedNext
  <2>1. PICK p \in Processes : ProcessStep(p)
    BY <1>2 DEF SharedNext
  <2>2. holes \subseteq holes' \cup {"sort key"}
    BY <2>1 DEF ProcessStep, Check, Begin, Commit, Rollback, UpdateFields, ForceCategorical, CutShort
  <2>3. holes \cap PairHoles = {}
    BY <2>2 DEF PairHoles
  <2>4. TypedSnapshot(Snapshot) /\ Follows(p) /\ PairsInPlace
    BY <2>3 DEF Followed, PairsKept
  <2>5. CASE Check(p) \/ Begin(p) \/ Rollback(p) \/ CutShort(p)
    <3>1. UNCHANGED vars
      BY <2>5 DEF Check, Begin, Rollback, CutShort
    <3> QED BY <2>4, <3>1 DEF vars, PairsInPlace
  <2>6. CASE Commit(p)
    <3>1. PICK change : Stores(p, change)
      BY <2>6, CommitStores
    <3>2. Opened(p) \cap PairHoles = {}
      BY <2>6 DEF Commit
    <3>3. "restored" \notin proc[p].beside
      BY <2>3, <2>6 DEF Commit, RestoredBeside, PairHoles
    <3> QED BY <2>4, <3>1, <3>2, <3>3, CommitPairs
  <2>7. CASE UpdateFields(p)
    <3>1. Declares(Calls[proc[p].call].fields.label_for) => "rows" \notin proc[p].beside
      BY <2>7, Zenon DEF UpdateFields, PairHoles
    <3> QED BY <2>4, <2>7, <3>1, DeclaredPairs
  <2>8. CASE ForceCategorical(p)
    <3>1. PICK end : RowRewritten(end) /\ LabelFor(metadata') = LabelFor(metadata)
      BY <2>4, <2>8, ForceRewrites
    <3>2. /\ rows' = rows /\ fact_columns' = fact_columns /\ DOMAIN metadata' = DOMAIN metadata
      BY <3>1 DEF RowRewritten
    <3>3. \A l \in DOMAIN metadata : metadata'[l].label_for = metadata[l].label_for
      BY <3>1, <3>2 DEF LabelFor
    <3> QED BY <2>4, <3>2, <3>3 DEF PairsInPlace
  <2> QED BY <2>1, <2>5, <2>6, <2>7, <2>8 DEF ProcessStep
<1> QED BY <1>1, <1>2

\* The pairs hold on the whole table while writes that each check the codes they touch
\* run beside one another: the stamp makes what a write has read current when it
\* commits.
THEOREM PairsAreKept == SharedSpec => []PairsSurviveWriters
<1>1. SharedInit => RestoredBeside /\ PairsKept
  <2> SUFFICES ASSUME SharedInit PROVE RestoredBeside /\ PairsKept
    OBVIOUS
  <2>1. RestoredBeside
    BY DEF SharedInit, RestoredBeside, Idle
  <2>2. \A l \in Declared(LabelFor(metadata)) : Determines(rows, metadata[l].label_for, l)
    BY SharedAssumption DEF SharedInit, Sound
  <2>3. PairsInPlace
    BY <2>2 DEF PairsInPlace, Declared, LabelFor
  <2> QED BY <2>1, <2>3 DEF PairsKept
<1>2. PairsKept => PairsSurviveWriters
  BY DEF PairsKept, PairHoles, PairsInPlace, PairsSurviveWriters, Declared, LabelFor
<1> QED BY <1>1, <1>2, InitFollowed, StepFollowed, StepRestored, StepPairs, PTL DEF SharedSpec

-----------------------------------------------------------------------------
(* What a commit does is the call, made now *)

LEMMA StampedOnCurrent ==
  ASSUME NEW p \in Processes, Follows(p), NEW change, Stores(p, change),
         "restored" \notin proc[p].beside
  PROVE  /\ change.stamped =>
              /\ rows = proc[p].view.rows /\ fact_columns = proc[p].view.fact_columns
              /\ cluster_by = proc[p].view.cluster_by
              /\ SqlType(metadata) = SqlType(proc[p].view.metadata)
         /\ change.altered => sorted_by = proc[p].view.sorted_by
<1>1. Sees(p)
  BY DEF Follows, Stores, Ready
<1>2. /\ change.stamped => ~ proc[p].written_since.stamped
      /\ change.altered => ~ proc[p].written_since.altered
  BY NoConflict DEF Stores, Ready
<1> QED BY <1>1, <1>2 DEF Sees

LEMMA ProjectedSame ==
  ASSUME NEW cols, NEW table \in SUBSET RowsOver(cols)
  PROVE  {projected(r, cols) : r \in table} = table
<1>1. \A r \in table : projected(r, cols) = r
  BY DEF RowsOver, projected
<1> QED BY <1>1

LEMMA PaddedSame ==
  ASSUME NEW cols, NEW table \in SUBSET RowsOver(cols)
  PROVE  Padded(table, cols) = table
<1>1. \A r \in table : padded_row(r, cols) = r
  BY DEF RowsOver, padded_row
<1> QED BY <1>1 DEF Padded

LEMMA WithoutNone ==
  ASSUME NEW cols, NEW md \in [cols -> MetadataRow], NEW cascade
  PROVE  metadata_without(md, {}, cascade) = md
<1>1. \A c \in cols : /\ md[c] = [ sql_type |-> md[c].sql_type,
                                   is_primary_key |-> md[c].is_primary_key,
                                   is_categorical |-> md[c].is_categorical,
                                   parent_name |-> md[c].parent_name,
                                   label_for |-> md[c].label_for ]
  BY DEF MetadataRow
<1>2. DOMAIN metadata_without(md, {}, cascade) = cols
  BY DEF metadata_without
<1>3. \A c \in cols : metadata_without(md, {}, cascade)[c] = md[c]
  <2> SUFFICES ASSUME NEW c \in cols PROVE metadata_without(md, {}, cascade)[c] = md[c]
    OBVIOUS
  <2>1. metadata_without(md, {}, cascade)[c]
          = [ sql_type |-> md[c].sql_type, is_primary_key |-> md[c].is_primary_key,
              is_categorical |-> md[c].is_categorical, parent_name |-> md[c].parent_name,
              label_for |-> md[c].label_for ]
    BY DEF metadata_without
  <2> QED BY <1>1, <2>1
<1>4. metadata_without(md, {}, cascade) = [c \in cols |-> metadata_without(md, {}, cascade)[c]]
  BY <1>2 DEF metadata_without
<1> QED BY <1>3, <1>4

\* A commit of nothing.
LEMMA NothingStored ==
  ASSUME TypedSnapshot(Snapshot), NEW p \in Processes, NEW change, Stores(p, change),
         change.removed = {}, change.inserted = {}, ~ change.stamped, ~ change.altered,
         DOMAIN change.described = {}, change.undescribed = {}
  PROVE  UNCHANGED vars
<1>1. metadata' = metadata
  BY UndescribedMetadata
<1>2. fact_columns' = fact_columns /\ cluster_by' = cluster_by /\ sorted_by' = sorted_by
  BY DEF Stores, Store
<1>3. rows \in SUBSET RowsOver(DOMAIN fact_columns)
  BY SnapshotFields DEF TypedSnapshot
<1>4. rows' = {projected(r, DOMAIN fact_columns) : r \in rows}
  BY <1>2 DEF Stores, Store
<1> QED BY <1>1, <1>2, <1>3, <1>4, ProjectedSame DEF vars

LEMMA CommittedSortKey ==
  ASSUME TypedSnapshot(Snapshot), NEW p \in Processes, Follows(p), NEW change, Stores(p, change),
         NEW call, change \in update_cluster_by(proc[p].view, call),
         "restored" \notin proc[p].beside
  PROVE  UpdateClusterBy(call.columns)
<1> DEFINE view == proc[p].view
<1>1. /\ change.stamped = TRUE /\ change.altered = TRUE /\ change.removed = {} /\ change.inserted = {}
      /\ change.described = << >> /\ change.undescribed = {}
      /\ change.fact_columns = view.fact_columns
      /\ change.cluster_by = call.columns /\ change.sorted_by = call.columns
      /\ call.columns \subseteq DOMAIN view.fact_columns
  <2>1. call.columns \subseteq DOMAIN view.fact_columns
    BY DEF update_cluster_by
  <2> QED BY <2>1 DEF update_cluster_by, NoChange
<1>2. fact_columns = view.fact_columns
  BY <1>1, StampedOnCurrent
<1>3. metadata' = metadata
  BY <1>1, NothingDescribed, UndescribedMetadata
<1>4. /\ fact_columns' = fact_columns
      /\ cluster_by' = call.columns /\ sorted_by' = call.columns
  BY <1>1, <1>2 DEF Stores, Store
<1>5. rows' = rows
  <2>1. rows \in SUBSET RowsOver(DOMAIN fact_columns)
    BY SnapshotFields DEF TypedSnapshot
  <2>2. rows' = {projected(r, DOMAIN fact_columns) : r \in rows}
    BY <1>1, <1>4 DEF Stores, Store
  <2> QED BY <2>1, <2>2, ProjectedSame
<1> QED BY <1>1, <1>2, <1>3, <1>4, <1>5 DEF UpdateClusterBy

LEMMA CommittedDrop ==
  ASSUME TypedSnapshot(Snapshot), NEW p \in Processes, Follows(p), NEW change, Stores(p, change),
         NEW dropped, dropped # {}, NEW cascade \in BOOLEAN,
         change \in drop_columns(proc[p].view, dropped, cascade),
         proc[p].beside \cap {"links", "restored"} = {}
  PROVE  /\ rows = proc[p].view.rows /\ fact_columns = proc[p].view.fact_columns
         /\ drop_columns_with_references(dropped, rows, cascade)
<1> DEFINE view == proc[p].view
           kept == DOMAIN fact_columns \ dropped
<1>1. /\ change.stamped = TRUE /\ change.altered = TRUE
      /\ change.removed = {} /\ change.inserted = {}
      /\ change.fact_columns = [c \in DOMAIN view.fact_columns \ dropped |-> view.fact_columns[c]]
      /\ change.cluster_by = view.cluster_by \ dropped
      /\ change.sorted_by = IF view.cluster_by \cap dropped # {} THEN view.cluster_by \ dropped
                            ELSE view.sorted_by
      /\ change.sorted_by \cap dropped = {}
  <2>1. Drops(change, view, dropped, cascade)
    BY DropWrites
  <2> QED BY <2>1 DEF Drops
<1>2. /\ rows = view.rows /\ fact_columns = view.fact_columns /\ cluster_by = view.cluster_by
      /\ sorted_by = view.sorted_by
  BY <1>1, StampedOnCurrent
<1>3. metadata' = metadata_without(metadata, dropped, cascade)
  BY DropOnCurrent
<1>4. /\ fact_columns' = [c \in kept |-> fact_columns[c]]
      /\ cluster_by' = cluster_by \ dropped /\ sorted_by' = change.sorted_by
  BY <1>1, <1>2 DEF Stores, Store
<1>5. DOMAIN fact_columns' = kept
  BY <1>4
<1>6. rows' = {projected(r, kept) : r \in rows}
  <2>1. (rows \ change.removed) \cup change.inserted = rows
    BY <1>1
  <2>2. rows' = {projected(r, DOMAIN fact_columns') : r \in (rows \ change.removed) \cup change.inserted}
    BY DEF Stores, Store
  <2> HIDE DEF kept
  <2> QED BY <1>5, <2>1, <2>2
<1> QED BY <1>1, <1>2, <1>3, <1>4, <1>6 DEF drop_columns_with_references

LEMMA CommittedNoDrop ==
  ASSUME TypedSnapshot(Snapshot), NEW p \in Processes, Follows(p), NEW change, Stores(p, change),
         NEW cascade \in BOOLEAN, change \in drop_columns(proc[p].view, {}, cascade)
  PROVE  UNCHANGED vars
<1> DEFINE view == proc[p].view
<1>1. /\ change.stamped = FALSE /\ change.altered = FALSE
      /\ change.removed = {} /\ change.inserted = {}
      /\ change.described = Rewritten(view.metadata, metadata_without(view.metadata, {}, cascade))
      /\ change.undescribed = {}
  <2>1. Drops(change, view, {}, cascade)
    BY DropWrites
  <2> QED BY <2>1 DEF Drops
<1>2. metadata_without(view.metadata, {}, cascade) = view.metadata
  BY WithoutNone, StoredChange DEF TypedSnapshot
<1>3. DOMAIN change.described = {}
  BY <1>1, <1>2 DEF Rewritten
<1> QED BY <1>1, <1>3, NothingStored

LEMMA CommittedDeletion ==
  ASSUME TypedSnapshot(Snapshot), NEW p \in Processes, Follows(p), NEW change, Stores(p, change),
         NEW call, change \in delete_rows(proc[p].view, call),
         "restored" \notin proc[p].beside
  PROVE  UNCHANGED vars \/ DeleteRows({r \in rows : r[call.column] \in call.values}, FALSE)
<1> DEFINE view == proc[p].view
           gone == {r \in view.rows : r[call.column] \in call.values}
<1>1. /\ change.removed = gone /\ change.inserted = {} /\ change.altered = FALSE
      /\ change.stamped = (gone # {})
      /\ change.described = << >> /\ change.undescribed = {}
      /\ change.cluster_by = view.cluster_by
  BY DEF delete_rows, NoChange
<1>2. CASE gone = {}
  BY <1>1, <1>2, NothingDescribed, NothingStored
<1>3. CASE gone # {}
  <2>1. rows = view.rows /\ cluster_by = view.cluster_by
    BY <1>1, <1>3, StampedOnCurrent
  <2> HIDE DEF gone
  <2>2. metadata' = metadata
    BY <1>1, NothingDescribed, UndescribedMetadata
  <2>3. fact_columns' = fact_columns /\ cluster_by' = cluster_by /\ sorted_by' = sorted_by
    BY <1>1, <1>3, <2>1 DEF Stores, Store
  <2>4. rows' = {projected(r, DOMAIN fact_columns) : r \in rows \ gone}
    BY <1>1, <2>3 DEF Stores, Store
  <2>5. metadata_without(metadata, {}, FALSE) = metadata
    BY WithoutNone, SnapshotFields DEF TypedSnapshot
  <2>6. fact_columns = [c \in DOMAIN fact_columns |-> fact_columns[c]]
    BY SnapshotFields DEF TypedSnapshot
  <2>7. drop_columns_with_references({}, rows \ gone, FALSE)
    BY <2>2, <2>3, <2>4, <2>5, <2>6 DEF drop_columns_with_references
  <2>8. DeleteRows(gone, FALSE)
    BY <2>7 DEF DeleteRows
  <2> QED BY <2>1, <2>8 DEF gone
<1> QED BY <1>2, <1>3

\* What UpdateDatabase comes to when the batch has no new column and declares nothing.
Undeclared(cols, types, batch, written, resolved) ==
  /\ WithNewColumns(cols, types) = fact_columns
  /\ Padded(rows, DOMAIN fact_columns) = rows
  /\ add_columns_to_metadata(metadata, fact_columns) = metadata
  /\ written = upsert_fact_table(rows, DOMAIN fact_columns, batch, cols, PrimaryKeys)
  /\ resolved = [c \in DOMAIN metadata |->
                   resolve_type_conflict(metadata[c].sql_type, batch, types, c)]
  /\ check_batch_keys(batch, cols, PrimaryKeys)
  /\ UniqueOn(batch, PrimaryKeys)
  /\ batch # {}
  /\ check_value_label_dependencies(written, metadata, batch, PrimaryKeys, cols)
  /\ check_duplicates_db => UniqueOn(written, PrimaryKeys)
  /\ rows' = written
  /\ fact_columns' = [c \in DOMAIN fact_columns |->
                        IF resolved[c] = metadata[c].sql_type THEN fact_columns[c]
                        ELSE resolved[c]]
  /\ metadata' = [c \in DOMAIN metadata |-> [metadata[c] EXCEPT !.sql_type = resolved[c]]]
  /\ UNCHANGED <<cluster_by, sorted_by>>

LEMMA UndeclaredUpdate ==
  ASSUME NEW cols, NEW types, NEW batch, NEW written, NEW resolved,
         Undeclared(cols, types, batch, written, resolved)
  PROVE  UpdateDatabase(cols, types, batch, NoDeclaration)
<1>1. /\ apply_declaration(metadata, NoDeclaration) = metadata
      /\ declaration_accepted(metadata, rows, NoDeclaration)
  BY DEF apply_declaration, declaration_accepted, NoDeclaration
<1> QED BY <1>1 DEF UpdateDatabase, Undeclared

LEMMA CommittedUpdate ==
  ASSUME TypedSnapshot(Snapshot), MetadataDescribesFactTable,
         NEW p \in Processes, Follows(p), NEW change, Stores(p, change),
         NEW call, WellFormed(call), call = Calls[proc[p].call], Op(p) = "update_database",
         change \in update_database(proc[p].view, call),
         proc[p].beside \cap {"links", "restored"} = {}
  PROVE  UpdateDatabase(DOMAIN call.types, call.types, call.batch, NoDeclaration)
<1> DEFINE view     == proc[p].view
           cols     == DOMAIN call.types
           resolved == Resolved(view, call)
           retyped  == RetypedColumns(view, call)
           written  == WrittenRows(view, call)
<1>1. /\ cols \subseteq DOMAIN view.fact_columns
      /\ change.stamped = TRUE /\ change.altered = (retyped # {})
      /\ change.removed = view.rows \ written /\ change.inserted = written \ view.rows
      /\ change.fact_columns = [c \in DOMAIN view.fact_columns |->
                                  IF c \in retyped THEN resolved[c] ELSE view.fact_columns[c]]
      /\ change.described = [c \in retyped |->
                               [view.metadata[c] EXCEPT !.sql_type = resolved[c]]]
      /\ change.undescribed = {}
      /\ change.cluster_by = view.cluster_by /\ change.sorted_by = view.sorted_by
  <2>1. Updates(change, view, call)
    BY UpdateWrites
  <2> QED BY <2>1 DEF Updates
<1>2. Sees(p) /\ HasRead(p) /\ TypedSnapshot(view)
  BY DEF Follows, Stores, Ready, Sees
<1>3. /\ rows = view.rows /\ fact_columns = view.fact_columns /\ cluster_by = view.cluster_by
      /\ SqlType(metadata) = SqlType(view.metadata) /\ LabelFor(metadata) = LabelFor(view.metadata)
      /\ change.altered => sorted_by = view.sorted_by
  <2>1. LabelFor(metadata) = LabelFor(view.metadata)
    BY <1>2 DEF Sees
  <2> QED BY <1>1, <2>1, StampedOnCurrent
<1>4. /\ DOMAIN metadata = DOMAIN view.metadata
      /\ \A c \in DOMAIN metadata : metadata[c].sql_type = view.metadata[c].sql_type
  <2>1. DOMAIN SqlType(metadata) = DOMAIN metadata /\ DOMAIN SqlType(view.metadata) = DOMAIN view.metadata
    BY DEF SqlType
  <2> QED BY <1>3, <2>1 DEF SqlType
<1>5. resolved = [c \in DOMAIN metadata |->
                    resolve_type_conflict(metadata[c].sql_type, call.batch, call.types, c)]
  BY <1>4 DEF Resolved
<1>6. \A c \in DOMAIN metadata : c \in retyped <=> resolved[c] # metadata[c].sql_type
  <2>1. \A c \in DOMAIN metadata : c \notin cols => resolved[c] = metadata[c].sql_type
    BY <1>5 DEF resolve_type_conflict
  <2>2. DOMAIN resolved = DOMAIN metadata
    BY <1>5
  <2> QED BY <1>4, <2>1, <2>2 DEF RetypedColumns
<1>7. retyped \subseteq DOMAIN metadata
  BY <1>4 DEF RetypedColumns, Resolved
<1>8. /\ PrimaryKeys = Keys /\ get_primary_key_columns(view.metadata) = Keys
      /\ check_batch_keys(call.batch, cols, Keys) /\ UniqueOn(call.batch, Keys)
  BY <1>2, SnapshotFields DEF HasRead, TypedSnapshot, PrimaryKeys
<1>9. call.batch \in SUBSET RowsOver(cols) /\ call.batch # {}
  <2>1. call.op = "update_database"
    BY DEF Op
  <2>2. call.batch \in (SUBSET RowsOver(cols)) \ {{}}
    BY <2>1 DEF WellFormed
  <2> QED BY <2>2
<1>10. /\ check_value_label_dependencies(written, metadata, call.batch, Keys, cols)
       /\ check_duplicates_db => UniqueOn(written, Keys)
  <2>1. update_database(view, call) # {}
    OBVIOUS
  <2>2. /\ check_value_label_dependencies(written, view.metadata, call.batch,
                                          get_primary_key_columns(view.metadata), cols)
        /\ check_duplicates_db => UniqueOn(written, get_primary_key_columns(view.metadata))
    BY <2>1 DEF update_database, WrittenRows
  <2>3. check_value_label_dependencies(written, view.metadata, call.batch, Keys, cols)
    BY <1>8, <2>2
  <2>4. check_value_label_dependencies(written, metadata, call.batch, Keys, cols)
    BY <1>3, <2>3 DEF check_value_label_dependencies
  <2> QED BY <1>8, <2>2, <2>4
<1>11. /\ rows \in SUBSET RowsOver(DOMAIN fact_columns)
       /\ fact_columns = [c \in DOMAIN fact_columns |-> fact_columns[c]]
       /\ \A c \in DOMAIN metadata : metadata[c] \in MetadataRow
       /\ metadata = [c \in DOMAIN metadata |-> metadata[c]]
  BY SnapshotFields DEF TypedSnapshot
<1>12. written = upsert_fact_table(rows, DOMAIN fact_columns, call.batch, cols, Keys)
  BY <1>3, <1>8 DEF WrittenRows
<1>13. written \in SUBSET RowsOver(DOMAIN fact_columns)
  BY <1>1, <1>3, <1>9, <1>11, <1>12, UpsertTyped
<1>14. /\ WithNewColumns(cols, call.types) = fact_columns
       /\ add_columns_to_metadata(metadata, fact_columns) = metadata
  <2>1. DOMAIN fact_columns \cup cols = DOMAIN fact_columns
    BY <1>1, <1>3
  <2>2. WithNewColumns(cols, call.types) = fact_columns
    BY <1>11, <2>1 DEF WithNewColumns
  <2>3. DOMAIN fact_columns = DOMAIN metadata
    BY DEF MetadataDescribesFactTable
  <2>4. add_columns_to_metadata(metadata, fact_columns) = metadata
    BY <1>11, <2>3 DEF add_columns_to_metadata
  <2> QED BY <2>2, <2>4
<1> HIDE DEF written, retyped, resolved, view, cols
<1>15. DOMAIN fact_columns = DOMAIN metadata
  BY DEF MetadataDescribesFactTable
<1>16. fact_columns' = [c \in DOMAIN fact_columns |->
                          IF resolved[c] = metadata[c].sql_type THEN fact_columns[c] ELSE resolved[c]]
  <2>1. CASE change.altered
    <3>1. fact_columns' = [c \in DOMAIN fact_columns |->
                             IF c \in retyped THEN resolved[c] ELSE fact_columns[c]]
      BY <1>1, <1>3, <2>1 DEF Stores, Store
    <3> QED BY <1>6, <1>15, <3>1
  <2>2. CASE ~ change.altered
    <3>1. fact_columns' = fact_columns /\ retyped = {}
      BY <1>1, <2>2 DEF Stores, Store
    <3> QED BY <1>6, <1>11, <1>15, <3>1
  <2> QED BY <2>1, <2>2
<1>17. rows' = written
  <2>1. (rows \ change.removed) \cup change.inserted = written
    BY <1>1, <1>3
  <2>2. rows' = {projected(r, DOMAIN fact_columns') : r \in (rows \ change.removed) \cup change.inserted}
    BY DEF Stores, Store
  <2>3. DOMAIN fact_columns' = DOMAIN fact_columns
    BY <1>16
  <2>4. {projected(r, DOMAIN fact_columns) : r \in written} = written
    BY <1>13, ProjectedSame
  <2> QED BY <2>1, <2>2, <2>3, <2>4
<1>18. metadata' = [c \in DOMAIN metadata |-> [metadata[c] EXCEPT !.sql_type = resolved[c]]]
  <2>1. DOMAIN change.described = retyped
    BY <1>1
  <2>2. DOMAIN metadata' = DOMAIN metadata
    BY <1>1, <1>7, <2>1, StoredTables
  <2>3. ASSUME NEW c \in DOMAIN metadata
        PROVE  metadata'[c] = [metadata[c] EXCEPT !.sql_type = resolved[c]]
    <3>1. CASE c \in retyped
      <4>1. change.described[c] = [view.metadata[c] EXCEPT !.sql_type = resolved[c]]
        BY <1>1, <3>1
      <4>2. metadata'[c] = change.described[c]
        BY <2>1, <2>2, <3>1, StoredTables
      <4>3. metadata[c] = view.metadata[c]
        BY <2>1, <3>1, DescribedOnCurrent DEF view
      <4> QED BY <4>1, <4>2, <4>3
    <3>2. CASE c \notin retyped
      <4>1. metadata'[c] = metadata[c]
        BY <2>1, <2>2, <3>2, StoredTables
      <4>2. resolved[c] = metadata[c].sql_type /\ metadata[c] \in MetadataRow
        BY <1>6, <1>11, <3>2
      <4>3. metadata[c] = [metadata[c] EXCEPT !.sql_type = metadata[c].sql_type]
        BY <4>2 DEF MetadataRow
      <4> QED BY <4>1, <4>2, <4>3
    <3> QED BY <3>1, <3>2
  <2>4. metadata' = [c \in DOMAIN metadata' |-> metadata'[c]]
    BY DEF Stores, Store
  <2> QED BY <2>2, <2>3, <2>4
<1>19. cluster_by' = cluster_by /\ sorted_by' = sorted_by
  BY <1>1, <1>3 DEF Stores, Store
<1>20. Padded(rows, DOMAIN fact_columns) = rows
  BY <1>11, PaddedSame
<1>21. /\ written = upsert_fact_table(rows, DOMAIN fact_columns, call.batch, cols, PrimaryKeys)
       /\ check_batch_keys(call.batch, cols, PrimaryKeys) /\ UniqueOn(call.batch, PrimaryKeys)
       /\ check_value_label_dependencies(written, metadata, call.batch, PrimaryKeys, cols)
       /\ check_duplicates_db => UniqueOn(written, PrimaryKeys)
  BY <1>8, <1>10, <1>12
<1>22. UNCHANGED <<cluster_by, sorted_by>>
  BY <1>19
<1>23. Undeclared(cols, call.types, call.batch, written, resolved)
  BY ONLY <1>5, <1>9, <1>14, <1>16, <1>17, <1>18, <1>20, <1>21, <1>22 DEF Undeclared
<1>24. UpdateDatabase(cols, call.types, call.batch, NoDeclaration)
  BY ONLY <1>23, UndeclaredUpdate
<1> QED BY <1>24 DEF cols

LEMMA CommittedCleanup ==
  ASSUME TypedSnapshot(Snapshot), NEW p \in Processes, Follows(p), NEW change, Stores(p, change),
         change \in cleanup_null_only_columns(proc[p].view),
         proc[p].beside \cap {"links", "restored"} = {}
  PROVE  UNCHANGED vars \/ drop_columns_with_references(null_only_columns_dropped(rows), rows, FALSE)
<1> DEFINE view == proc[p].view
           Dropped(table, columns, keys, md) ==
             IF table = {} THEN {}
             ELSE Droppable({c \in DOMAIN columns \ keys : \A r \in table : r[c] = NULL},
                            ParentOf(md), LabelFor(md))
<1>1. PICK dropped :
        /\ dropped = Dropped(view.rows, view.fact_columns, get_primary_key_columns(view.metadata),
                             view.metadata)
        /\ change \in drop_columns(view, dropped, FALSE)
  BY DEF cleanup_null_only_columns
<1>2. CASE dropped = {}
  BY <1>1, <1>2, CommittedNoDrop
<1>3. CASE dropped # {}
  <2>1. /\ rows = view.rows /\ fact_columns = view.fact_columns
        /\ drop_columns_with_references(dropped, rows, FALSE)
    BY <1>1, <1>3, CommittedDrop
  <2>2. /\ get_primary_key_columns(view.metadata) = PrimaryKeys
        /\ ParentOf(metadata) = ParentOf(view.metadata) /\ LabelFor(metadata) = LabelFor(view.metadata)
    BY SnapshotFields DEF Follows, Stores, Ready, Sees, TypedSnapshot, PrimaryKeys
  <2>3. dropped = null_only_columns_dropped(rows)
    BY <1>1, <2>1, <2>2 DEF null_only_columns_dropped
  <2> QED BY <2>1, <2>3
<1> QED BY <1>2, <1>3

LEMMA CommittedColumns ==
  ASSUME TypedSnapshot(Snapshot), NEW p \in Processes, Follows(p), NEW change, Stores(p, change),
         NEW call, WellFormed(call), call = Calls[proc[p].call], Op(p) = "delete_columns",
         change \in drop_columns(proc[p].view, call.columns, call.cascade),
         proc[p].beside \cap {"links", "restored"} = {}
  PROVE  DeleteColumns(call.columns, call.cascade)
<1>1. call.op = "delete_columns"
  BY DEF Op
<1>2. call.columns # {} /\ call.cascade \in BOOLEAN
  BY <1>1 DEF WellFormed
<1>3. drop_columns_with_references(call.columns, rows, call.cascade)
  BY <1>2, CommittedDrop
<1>4. HasRead(p) /\ "links" \notin proc[p].beside
  BY DEF Follows, Stores, Ready
<1>5. /\ call.columns \cap Keys = {}
      /\ ~ call.cascade =>
           \A c \in call.columns : Dependents(ParentOf(metadata), LabelFor(metadata), c) = {}
  BY <1>4 DEF HasRead
<1>6. PrimaryKeys = Keys
  BY SnapshotFields DEF TypedSnapshot, PrimaryKeys
<1> QED BY <1>2, <1>3, <1>5, <1>6 DEF DeleteColumns

\* Only the step of p itself ends its transaction, and without a ROLLBACK that is a
\* commit.
LEMMA EndsByItself ==
  ASSUME Followed, NEW p \in Processes, NEW actor \in Processes, ProcessStep(actor),
         proc[p].phase = "open", proc'[p].phase # "open"
  PROVE  UNCHANGED vars \/ Commit(p)
<1>1. \E next, footprint, kinds : Step(actor, next, footprint, kinds)
  <2>1. CASE Check(actor)
    <3>1. PICK name \in DOMAIN Calls \ called :
            \E read \in ReadsBeforeBegin(Calls[name]) :
              Step(actor, [Idle EXCEPT !.phase = "checked", !.call = name, !.read = read],
                   NoFootprint, {})
      BY <2>1 DEF Check
    <3> QED BY <3>1
  <2>2. CASE Begin(actor) \/ Rollback(actor) \/ CutShort(actor)
    BY <2>2 DEF Begin, Rollback, CutShort
  <2>3. CASE Commit(actor)
    <3>1. PICK change :
            Step(actor, IF /\ Op(actor) = "delete_rows" /\ ~ proc[actor].cleanup
                           /\ change.removed # {} /\ Calls[proc[actor].call].perform_cleanup
                        THEN [Cleanup EXCEPT !.call = proc[actor].call] ELSE Idle,
                 Footprint(change),
                 Changed \cup (IF UnstampedRestore(actor) THEN {"restored"} ELSE {}))
      BY <2>3, CommitStores
    <3> QED BY <3>1
  <2>4. CASE UpdateFields(actor) \/ ForceCategorical(actor)
    BY <2>4 DEF UpdateFields, ForceCategorical
  <2> QED BY <2>1, <2>2, <2>3, <2>4 DEF ProcessStep
<1>2. actor = p
  <2>1. SUFFICES ASSUME actor # p PROVE FALSE
    OBVIOUS
  <2>2. PICK next, footprint, kinds : Step(actor, next, footprint, kinds)
    BY <1>1
  <2>3. DOMAIN proc[p] = Fields_of_proc
    BY DEF Followed, Follows, Running
  <2>4. SeenBy(p, footprint, kinds)
    BY <2>1, <2>2, <2>3, StepSeen
  <2> QED BY <2>4 DEF SeenBy
<1>3. ~ Check(p) /\ ~ Begin(p) /\ ~ UpdateFields(p) /\ ~ ForceCategorical(p) /\ ~ CutShort(p)
  BY DEF Check, Begin, UpdateFields, ForceCategorical, CutShort
<1>4. Rollback(p) => UNCHANGED vars
  BY DEF Rollback
<1> QED BY <1>2, <1>3, <1>4 DEF ProcessStep

LEMMA CommittedCall ==
  ASSUME Followed, MetadataDescribesFactTable, NEW p \in Processes, Commit(p),
         Op(p) \notin {"recluster", "restore_snapshot"},
         proc[p].beside \cap {"links", "restored"} = {}
  PROVE  UNCHANGED vars \/ CallAction(p)
<1> DEFINE call == Calls[proc[p].call]
<1>1. PICK change : Stores(p, change)
  BY CommitStores
<1>2. Follows(p) /\ TypedSnapshot(Snapshot) /\ Ready(p, change)
  BY <1>1 DEF Followed, Stores
<1>3. /\ Running(p) /\ Op(p) # "update_column_metadata" /\ proc[p].phase = "open"
      /\ change \in Body(p, proc[p].view)
  BY <1>2 DEF Follows, Ready, Running
<1>4. WellFormed(call) /\ call.op = Op(p)
  BY <1>3, SharedAssumption DEF Running, Op
<1>5. "restored" \notin proc[p].beside
  OBVIOUS
<1>6. CASE proc[p].cleanup /\ change \in cleanup_null_only_columns(proc[p].view)
  <2>1. UNCHANGED vars
        \/ drop_columns_with_references(null_only_columns_dropped(rows), rows, FALSE)
    BY <1>1, <1>2, <1>6, CommittedCleanup
  <2>2. Op(p) = "delete_rows" /\ proc[p].cleanup
    BY <1>3, <1>6 DEF Running
  <2>3. CallAction(p) = drop_columns_with_references(null_only_columns_dropped(rows), rows, FALSE)
    BY <2>2 DEF CallAction, Op
  <2> QED BY <2>1, <2>3
<1>7. CASE ~ proc[p].cleanup /\ Op(p) = "update_database"
           /\ change \in update_database(proc[p].view, call)
  <2>1. UpdateDatabase(DOMAIN call.types, call.types, call.batch, NoDeclaration)
    BY <1>1, <1>2, <1>4, <1>7, CommittedUpdate
  <2>2. CallAction(p) = UpdateDatabase(DOMAIN call.types, call.types, call.batch, NoDeclaration)
    BY <1>4, <1>7 DEF CallAction
  <2> QED BY <2>1, <2>2
<1>8. CASE ~ proc[p].cleanup /\ Op(p) = "delete_rows" /\ change \in delete_rows(proc[p].view, call)
  <2>1. UNCHANGED vars \/ DeleteRows({r \in rows : r[call.column] \in call.values}, FALSE)
    BY <1>1, <1>2, <1>5, <1>8, CommittedDeletion
  <2>2. CallAction(p) = DeleteRows({r \in rows : r[call.column] \in call.values}, FALSE)
    BY <1>4, <1>8 DEF CallAction
  <2> QED BY <2>1, <2>2
<1>9. CASE ~ proc[p].cleanup /\ Op(p) = "delete_columns"
           /\ change \in drop_columns(proc[p].view, call.columns, call.cascade)
  <2>1. DeleteColumns(call.columns, call.cascade)
    BY <1>1, <1>2, <1>4, <1>9, CommittedColumns
  <2>2. CallAction(p) = DeleteColumns(call.columns, call.cascade)
    BY <1>4, <1>9 DEF CallAction
  <2> QED BY <2>1, <2>2
<1>10. CASE ~ proc[p].cleanup /\ Op(p) = "update_cluster_by"
            /\ change \in update_cluster_by(proc[p].view, call)
  <2>1. UpdateClusterBy(call.columns)
    BY <1>1, <1>2, <1>5, <1>10, CommittedSortKey
  <2>2. CallAction(p) = UpdateClusterBy(call.columns)
    BY <1>4, <1>10 DEF CallAction
  <2> QED BY <2>1, <2>2
<1> QED BY <1>3, <1>6, <1>7, <1>8, <1>9, <1>10, BodyOf

LEMMA StepIsCall ==
  ASSUME Followed, [SharedNext]_shared_vars, NEW p \in Processes
  PROVE  CommitIsCall(p)
<1>1. CASE UNCHANGED shared_vars
  BY <1>1 DEF shared_vars, CommitIsCall
<1>2. CASE SharedNext
  <2> SUFFICES ASSUME proc[p].phase = "open", proc'[p].phase # "open",
                      Op(p) \notin {"recluster", "restore_snapshot"},
                      proc[p].beside \cap {"links", "restored"} = {},
                      MetadataDescribesFactTable
               PROVE  UNCHANGED vars \/ CallAction(p)
    BY DEF CommitIsCall
  <2>1. PICK actor \in Processes : ProcessStep(actor)
    BY <1>2 DEF SharedNext
  <2>2. UNCHANGED vars \/ Commit(p)
    BY <2>1, EndsByItself
  <2> QED BY <2>2, CommittedCall
<1> QED BY <1>1, <1>2

\* Any number of processes write through checks and views of an earlier snapshot,
\* and what each commits is its call of ResultSet made on the current one, in one
\* step: a write does not lose another's, nor act on what another has changed, but
\* for links declared and tables restored beside it.
THEOREM CommitsKeepCalls == SharedSpec => CommitsAreCalls
<1>1. Followed /\ [SharedNext]_shared_vars => \A p \in Processes : CommitIsCall(p)
  BY StepIsCall
<1> QED BY <1>1, InitFollowed, StepFollowed, PTL DEF SharedSpec, CommitsAreCalls
=============================================================================
