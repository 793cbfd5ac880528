-------------------------- MODULE MCSharedCatalog --------------------------
(* A result set of four columns that two processes write. *)
EXTENDS SharedCatalog, TLC

CONSTANTS k, c, l, p, v1, v2, v3

\* The processes make the same calls.
Interchangeable == Permutations(Processes)

SharedColumns == {k, c, l, p}
SharedValues == [x \in SharedColumns |-> IF x = k THEN {v1, v2, v3} ELSE {v1, v2}]
SharedTypes == k :> {"INTEGER"} @@ c :> {"INTEGER", "BIGINT"} @@ l :> {"VARCHAR"} @@ p :> {"VARCHAR"}
SharedParents == k :> {} @@ c :> {p} @@ l :> {} @@ p :> {c}
SharedLabels == k :> {} @@ c :> {} @@ l :> {c} @@ p :> {}
SharedFlags == [x \in SharedColumns |-> IF x = c THEN {FALSE} ELSE {}]

Row(key, code, label, parent) == k :> key @@ c :> code @@ l :> label @@ p :> parent
InitialTypes == k :> "INTEGER" @@ c :> "INTEGER" @@ l :> "VARCHAR" @@ p :> "VARCHAR"
NoLinks == [x \in SharedColumns |-> NULL]

\* Only the row that delete_rows deletes has a value in p.
MCBuilt ==
  [ fact_columns |-> InitialTypes,
    rows |-> {Row(v1, v1, v1, NULL), Row(v2, v1, v1, v1)},
    metadata |-> create_metadata_table(InitialTypes, {k}, NoLinks, NoLinks),
    cluster_by |-> {k}, sorted_by |-> {k} ]

\* One snapshot before: a row more, a pair declared, another sort key.  Two before:
\* other rows under the same keys, one of them a row that a call inserts.
MCHistory ==
  {[ fact_columns |-> InitialTypes,
     rows |-> MCBuilt.rows \cup {Row(v3, v1, v1, NULL)},
     metadata |-> create_metadata_table(InitialTypes, {k}, NoLinks, [NoLinks EXCEPT ![l] = c]),
     cluster_by |-> {c}, sorted_by |-> {c} ],
   [ MCBuilt EXCEPT !.rows = {Row(v1, v2, v1, NULL), Row(v3, v1, v2, NULL)} ]}

Update(types, row) == [op |-> "update_database", types |-> types, batch |-> {row}]
Declare(column, fields) == [op |-> "update_column_metadata", column |-> column, fields |-> fields]
DeleteColumn(cascade) == [op |-> "delete_columns", columns |-> {c}, cascade |-> cascade]
Restore(tables) == [op |-> "restore_snapshot", tables |-> tables]

\* Two inserts of one key, one with a label that contradicts those of its code, the
\* other with a wider type; links that loop; drops of what they name.
MCCalls ==
  [ insert    |-> Update([InitialTypes EXCEPT ![c] = "INTEGER"], Row(v3, v1, v2, NULL)),
    widen     |-> Update([InitialTypes EXCEPT ![c] = "BIGINT"], Row(v3, v2, v1, NULL)),
    label     |-> Declare(l, [NoFields EXCEPT !.label_for = c]),
    parent    |-> Declare(c, [NoFields EXCEPT !.parent_name = p]),
    opposite  |-> Declare(p, [NoFields EXCEPT !.parent_name = c]),
    flag      |-> Declare(c, [NoFields EXCEPT !.is_categorical = FALSE]),
    drop      |-> DeleteColumn(FALSE),
    cascade   |-> DeleteColumn(TRUE),
    delete    |-> [op |-> "delete_rows", column |-> k, values |-> {v2}, perform_cleanup |-> TRUE],
    clear     |-> [op |-> "delete_rows", column |-> k, values |-> {v1, v2, v3}, perform_cleanup |-> FALSE],
    sort      |-> [op |-> "update_cluster_by", columns |-> {p}],
    recluster |-> [op |-> "recluster"],
    restore   |-> Restore({"fact_table", "metadata", "dataset_metadata"}),
    rows      |-> Restore({"fact_table"}),
    described |-> Restore({"metadata"}),
    unlinked  |-> Restore({"fact_table", "dataset_metadata"}) ]
=============================================================================
