----------------------------- MODULE Algorithms -----------------------------
(***************************************************************************)
(* Exercises the pure functions of ColumnLinks and SqlTypes: a step adds   *)
(* one link, one row or one batch type, so that every graph, every table   *)
(* and every type within the constants is visited, and each function is    *)
(* compared with a definition that does not follow the code.               *)
(***************************************************************************)
EXTENDS SqlTypes, Sequences, ColumnLinks

CONSTANTS Columns, LabelColumns, Values

ASSUME AlgorithmsAssumption ==
  /\ IsFiniteSet(Columns)
  /\ NULL \notin Columns \cup Values
  /\ LabelColumns \subseteq Columns

VARIABLES
  subject,     \* what this behaviour explores: "links", "rows" or "types"
  parent_of,   \* column -> parent column
  label_for,   \* label column -> code column
  table,       \* rows over the columns "code" and "label"
  recorded     \* metadata.sql_type of a column

vars == <<subject, parent_of, label_for, table, recorded>>

Rows == [{"code", "label"} -> Values \cup {NULL}]

Init ==
  /\ subject \in {"links", "rows", "types"}
  /\ parent_of = [c \in Columns |-> NULL]
  /\ label_for = [c \in LabelColumns |-> NULL]
  /\ table = {}
  /\ recorded \in IF subject = "types" THEN AllSqlTypes ELSE {"VARCHAR"}

DeclareParent ==
  /\ subject = "links"
  /\ \E c \in Columns, p \in Columns \cup {NULL} : parent_of' = [parent_of EXCEPT ![c] = p]
  /\ UNCHANGED <<subject, label_for, table, recorded>>

DeclareLabel ==
  /\ subject = "links"
  /\ \E c \in LabelColumns, code \in Columns \cup {NULL} :
       label_for' = [label_for EXCEPT ![c] = code]
  /\ UNCHANGED <<subject, parent_of, table, recorded>>

InsertRow ==
  /\ subject = "rows"
  /\ \E r \in Rows : table' = table \cup {r}
  /\ UNCHANGED <<subject, parent_of, label_for, recorded>>

MergeBatch ==
  /\ subject = "types"
  /\ \E batch \in AllSqlTypes : recorded' = resolve_sql_type_conflict(recorded, batch)
  /\ UNCHANGED <<subject, parent_of, label_for, table>>

Next == DeclareParent \/ DeclareLabel \/ InsertRow \/ MergeBatch

Spec == Init /\ [][Next]_vars

-----------------------------------------------------------------------------
(* Column links *)

\* The hop-by-hop walk of validate_hierarchy_forest, which stops at the first
\* column seen twice, refuses exactly the mappings that are not forests: no
\* cycle escapes it, however long its tail, and no forest is refused.
WalkFindsEveryCycle == validate_hierarchy_forest(parent_of) <=> IsForest(parent_of)

InHierarchy(c) == parent_of[c] # NULL \/ Children(parent_of, c) # {}

\* On a forest, get_column_hierarchies returns root-to-leaf paths that repeat no
\* column and together hold every column of every hierarchy, and only those.
ChainsAreTheHierarchies ==
  IsForest(parent_of) =>
    LET chains == get_column_hierarchies(parent_of)
    IN  /\ {c \in Columns : InHierarchy(c)} =
             UNION {{chain[i] : i \in DOMAIN chain} : chain \in chains}
        /\ \A chain \in chains :
             /\ parent_of[chain[1]] = NULL
             /\ Children(parent_of, chain[Len(chain)]) = {}
             /\ \A i \in 2 .. Len(chain) : parent_of[chain[i]] = chain[i - 1]
             /\ \A i, j \in DOMAIN chain : chain[i] = chain[j] => i = j

\* A pair that validate_value_labels accepts is read back by
\* get_value_label_columns as one level: no label column is a code.
AcceptedPairsHaveOneLevel ==
  validate_value_labels(label_for, [c \in Columns |-> "VARCHAR"], {}, parent_of) =>
    LET pairs == get_value_label_columns(label_for)
    IN  /\ \A code \in DOMAIN pairs : pairs[code] \cap DOMAIN pairs = {}
        /\ \A l \in UNION {pairs[code] : code \in DOMAIN pairs} : ~ InHierarchy(l)

\* The lists that name each column of a set once.
Orders == [S \in SUBSET Columns |->
             {order \in [1 .. Cardinality(S) -> S] :
                \A i, j \in 1 .. Cardinality(S) : order[i] = order[j] => i = j}]

\* The repeated passes of _cleanup_null_only_columns, whatever set of columns is
\* null-only, in whatever order the table lists them and even when parent and label
\* links form a loop, drop the least set closed under "all my dependents are
\* dropped": no dropped column leaves a dependent behind, no kept column was free
\* to go, and the order of the columns does not matter.
CleanupPassesDropLeastSet ==
  \A null_only \in SUBSET Columns :
    LET least == Droppable(null_only, parent_of, label_for)
    IN  /\ \A pending \in Orders[null_only] :
             DroppedByPasses(pending, parent_of, label_for) = least
        /\ \A c \in null_only :
             c \in least <=> Dependents(parent_of, label_for, c) \subseteq least

-----------------------------------------------------------------------------
(* Code/label dependency *)

\* The two queries of check_value_label_dependency, run on the whole table,
\* accept exactly the tables in which the code determines the label.
FullCheckIsDetermination ==
  check_value_label_dependency(table, "code", "label", ColumnValues(table, "code"))
    <=> Determines(table, "code", "label")

\* A table in which the code determined the label still does so, once rows were
\* added, changed or removed, exactly when the check restricted to the codes of the
\* rows that were not there before accepts it: this is what lets update_database
\* leave the other codes unread.
RestrictedCheckSuffices ==
  \A old \in SUBSET Rows :
    Determines(old, "code", "label") =>
      (check_value_label_dependency(table, "code", "label", ColumnValues(table \ old, "code"))
         <=> Determines(table, "code", "label"))

-----------------------------------------------------------------------------
(* Type widening *)

\* a can store every value of b: a text column anything, a floating column every
\* number (in range, not in precision), an integer column by sign and width.
Holds(a, b) ==
  \/ a = b
  \/ /\ a \in OrderedTypes /\ b \in OrderedTypes
     /\ LET ra == SQL_TYPE_RANK[a]
            rb == SQL_TYPE_RANK[b]
        IN  \/ ra[1] > rb[1]
            \/ /\ ra[1] = rb[1] /\ ra[2] >= rb[2]
               /\ Unsigned(a) = Unsigned(b) \/ (Unsigned(b) /\ ra[2] > rb[2])

\* A merge replaces the recorded type by one that holds its values, or replaces
\* a signed integer type by a wider unsigned one.
WidensUnlessUnsigned ==
  [][Holds(recorded', recorded) \/ (Unsigned(recorded') /\ ~ Unsigned(recorded))]_recorded

\* A batch sent again after its type was merged changes nothing: retrying an
\* update never widens a column twice.
RetryKeepsType ==
  \A batch \in AllSqlTypes :
    LET merged == resolve_sql_type_conflict(recorded, batch)
    IN  resolve_sql_type_conflict(merged, batch) = merged

\* Integer types of one width, one of them unsigned.
SignsClash(a, b) ==
  /\ a \in OrderedTypes /\ b \in OrderedTypes
  /\ SQL_TYPE_RANK[a] = SQL_TYPE_RANK[b]
  /\ Unsigned(a) # Unsigned(b)

\* Two batches give the same type in either order, unsigned types included, unless
\* two of the three types are the signed and the unsigned integer of one width: only
\* then does the type depend on which producer writes first.
OrderMattersOnlyIfSignsClash ==
  \A t, u \in AllSqlTypes :
    \/ SignsClash(recorded, t) \/ SignsClash(recorded, u) \/ SignsClash(t, u)
    \/ resolve_sql_type_conflict(resolve_sql_type_conflict(recorded, t), u)
         = resolve_sql_type_conflict(resolve_sql_type_conflict(recorded, u), t)

\* What the docstring of resolve_sql_type_conflict says: "Widening only: the
\* recorded type is never narrowed", so the stored values always still fit.
WideningOnly == [][Holds(recorded', recorded)]_recorded

TypeOK ==
  /\ subject \in {"links", "rows", "types"}
  /\ parent_of \in [Columns -> Columns \cup {NULL}]
  /\ label_for \in [LabelColumns -> Columns \cup {NULL}]
  /\ table \subseteq Rows
  /\ recorded \in AllSqlTypes
=============================================================================
