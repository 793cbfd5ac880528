------------------------------- MODULE Audit -------------------------------
(***************************************************************************)
(* DatabaseAuditor: the issues it reports on the committed result set,     *)
(* whatever state the set is in.  The three tables exist: build_schema     *)
(* creates them in one transaction and nothing drops one.                  *)
(***************************************************************************)
EXTENDS ResultSet

Issue(check, severity, column) == [check |-> check, severity |-> severity, column |-> column]

\* One issue on the table as a whole, when the condition holds.
IssueIf(condition, check, severity) ==
  IF condition THEN {Issue(check, severity, NULL)} ELSE {}

-----------------------------------------------------------------------------
(* BASIC: metadata and the columns of the fact table, no row is read *)

validate_metadata_consistency == IssueIf(DOMAIN metadata = {}, "empty metadata", "HIGH")

validate_metadata_fact_consistency ==
  {Issue("described only", "HIGH", c) : c \in DOMAIN metadata \ DOMAIN fact_columns}
    \cup {Issue("not described", "HIGH", c) : c \in DOMAIN fact_columns \ DOMAIN metadata}

\* A column missing on one side has no type to compare.
validate_data_types_consistency ==
  {Issue("type", "MEDIUM", c) :
     c \in {d \in DOMAIN metadata \cap DOMAIN fact_columns :
              metadata[d].sql_type # fact_columns[d]}}
\* Mutant: a parent without a metadata row is left to the search for cycles.
validate_column_links_cycles ==
  IssueIf(~ validate_hierarchy_forest(ParentOf(metadata)), "cycle", "HIGH")
    \cup IssueIf(~ validate_value_labels(LabelFor(metadata), SqlType(metadata), PrimaryKeys,
                                         ParentOf(metadata)),
                 "label_for", "HIGH")

\* A missing parent, a cycle, and the first label column that is not in order.
validate_column_links ==
  {Issue("parent", "HIGH", c) :
     c \in {d \in Declared(ParentOf(metadata)) : metadata[d].parent_name \notin DOMAIN metadata}}
    \cup IssueIf(~ validate_hierarchy_forest(ParentOf(metadata)), "cycle", "HIGH")
    \cup IssueIf(~ validate_value_labels(LabelFor(metadata), SqlType(metadata), PrimaryKeys,
                                         ParentOf(metadata)),
                 "label_for", "HIGH")

-----------------------------------------------------------------------------
(* COMPREHENSIVE: the rows of the fact table *)

\* Rows grouped by key, when there is one; a key that metadata describes and the
\* fact table lacks makes the query fail, which is an issue too.
validate_primary_key_uniqueness ==
  CASE PrimaryKeys = {} -> {}
    [] ~ PrimaryKeys \subseteq DOMAIN fact_columns -> {Issue("failed check", "HIGH", NULL)}
    [] OTHER -> IssueIf(~ UniqueOn(rows, PrimaryKeys), "duplicate keys", "HIGH")

\* The pairs with both columns in the fact table, on all their codes.
validate_value_label_dependencies ==
  {Issue("pair", "CRITICAL", l) :
     l \in {m \in Declared(LabelFor(metadata)) \cap DOMAIN fact_columns :
              /\ metadata[m].label_for \in DOMAIN fact_columns
              /\ ~ check_value_label_dependency(rows, metadata[m].label_for, m,
                                                ColumnValues(rows, metadata[m].label_for))}}

\* Null in every row, or in more than half of them.
validate_data_quality ==
  LET nulls(c) == {r \in rows : r[c] = NULL}
  IN  IF rows = {} THEN {Issue("no rows", "MEDIUM", NULL)}
      ELSE {Issue("only nulls", "HIGH", c) : c \in {d \in DOMAIN fact_columns : nulls(d) = rows}}
             \cup {Issue("mostly null", "MEDIUM", c) :
                     c \in {d \in DOMAIN fact_columns :
                              /\ nulls(d) # rows
                              /\ 2 * Cardinality(nulls(d)) > Cardinality(rows)}}

-----------------------------------------------------------------------------

validate_database(level) ==
  validate_metadata_consistency
    \cup validate_metadata_fact_consistency
    \cup validate_data_types_consistency
    \cup validate_column_links
    \cup (IF level = "COMPREHENSIVE"
          THEN validate_primary_key_uniqueness \cup validate_value_label_dependencies
                 \cup validate_data_quality
          ELSE {})

BySeverity(issues, severity) == {i \in issues : i.severity = severity}

\* The status of get_quick_health_check.
get_quick_health_check ==
  LET issues == validate_database("BASIC")
  IN  CASE BySeverity(issues, "CRITICAL") # {} -> "critical"
        [] BySeverity(issues, "CRITICAL") = {} /\ issues # {} -> "warning"
        [] issues = {} /\ rows # {} /\ DOMAIN metadata # {} -> "healthy"
        [] OTHER -> "empty"
=============================================================================
