---------------------------- MODULE ColumnLinks ----------------------------
(***************************************************************************)
(* The links that columns of a fact table declare to one another, and the  *)
(* pure functions that validate and read them:                             *)
(*                                                                         *)
(*   parent_name  child column -> parent column  (utils/hierarchy.py)      *)
(*   label_for    label column -> code column    (utils/value_labels.py)   *)
(*                                                                         *)
(* A mapping is a function whose domain is the columns it has an entry     *)
(* for; NULL is Python's None and SQL's NULL.  A table is a set of rows, a *)
(* row a function from columns to values.                                  *)
(***************************************************************************)
EXTENDS Naturals, FiniteSets, Sequences

CONSTANT NULL

-----------------------------------------------------------------------------
(* Column hierarchies *)

\* Mapping.get: an absent key reads as None and ends a walk.
Get(mapping, c) == IF c \in DOMAIN mapping THEN mapping[c] ELSE NULL
\* Mutant: the walk stops one hop short.
Ancestry_short(parent_of, start) ==
  LET hops == 0 .. (Cardinality(DOMAIN parent_of) - 1)
      at[n \in hops] == IF n = 0 THEN start ELSE Get(parent_of, at[n - 1])
  IN  at

\* The columns reached from start after 0, 1, ..., |DOMAIN| + 1 hops.
Ancestry(parent_of, start) ==
  LET hops == 0 .. (Cardinality(DOMAIN parent_of) + 1)
      at[n \in hops] == IF n = 0 THEN start ELSE Get(parent_of, at[n - 1])
  IN  at

\* The walk of the code keeps the set `seen` and raises on a column met twice.
Revisits(parent_of, start) ==
  LET at == Ancestry(parent_of, start)
  IN  \E i, j \in DOMAIN at : i < j /\ at[j] # NULL /\ at[i] = at[j]

\* TRUE when validate_hierarchy_forest returns, FALSE when it raises.
validate_hierarchy_forest(parent_of) ==
  \A start \in DOMAIN parent_of : ~ Revisits(parent_of, start)

\* What the walks decide, without walking: a cycle is a nonempty set of columns
\* whose parents all belong to the set.
IsForest(parent_of) ==
  \A S \in SUBSET DOMAIN parent_of :
     (\A c \in S : parent_of[c] \in S) => S = {}

Children(parent_of, c) == {d \in DOMAIN parent_of : parent_of[d] = c}
\* Mutant: a column outside every hierarchy is a leaf.
Leaves_of_any_depth(parent_of) == {c \in DOMAIN parent_of : Children(parent_of, c) = {}}

Leaves(parent_of) ==
  {c \in DOMAIN parent_of : parent_of[c] # NULL /\ Children(parent_of, c) = {}}

\* One chain per leaf, listed from the root down to the leaf.
get_column_hierarchies(parent_of) ==
  { LET at    == Ancestry(parent_of, leaf)
        depth == CHOOSE n \in DOMAIN at :
                   at[n] # NULL /\ Get(parent_of, at[n]) = NULL
    IN  [i \in 1 .. depth + 1 |-> at[depth + 1 - i]] : leaf \in Leaves(parent_of) }

-----------------------------------------------------------------------------
(* Code/label pairs *)

\* The declared entries of a column -> column mapping.
Declared(mapping) == {c \in DOMAIN mapping : mapping[c] # NULL}
\* Mutant: a label column may be the code of another one.
validate_value_labels_chained(label_for, sql_type, primary_keys, parent_of) ==
  \A label \in Declared(label_for) :
     /\ label_for[label] \in DOMAIN sql_type
     /\ label_for[label] # label
     /\ Get(sql_type, label) = "VARCHAR"
     /\ label \notin primary_keys
     /\ Get(parent_of, label) = NULL
     /\ Children(parent_of, label) = {}

\* TRUE when validate_value_labels returns.  sql_type is the mapping of every
\* column to its type, label_for has an entry for every declared pair.
validate_value_labels(label_for, sql_type, primary_keys, parent_of) ==
  \A label \in Declared(label_for) :
     /\ label_for[label] \in DOMAIN sql_type
     /\ label_for[label] # label
     /\ label_for[label] \notin Declared(label_for)
     /\ Get(sql_type, label) = "VARCHAR"
     /\ label \notin primary_keys
     /\ Get(parent_of, label) = NULL
     /\ Children(parent_of, label) = {}

\* The label columns of each code that has one.
get_value_label_columns(label_for) ==
  [code \in {label_for[l] : l \in Declared(label_for)} |->
     {l \in Declared(label_for) : label_for[l] = code}]

\* All the values a column holds in a table.
ColumnValues(table, c) == {r[c] : r \in table}
\* Mutant: labels beside a null code are not counted.
check_value_label_dependency_not_null(table, code, label, restrict_to) ==
  \A v \in restrict_to \ {NULL}, r, s \in table :
     r[code] = v /\ s[code] = v => r[label] = s[label]

\* Mutant: a code with labelled and unlabelled rows passes.
check_value_label_dependency_labels(table, code, label, restrict_to) ==
  \A v \in restrict_to, r, s \in {row \in table : row[label] # NULL} :
     r[code] = v /\ s[code] = v => v # NULL /\ r[label] = s[label]

\* TRUE when check_value_label_dependency returns, restricted to the codes of
\* restrict_to.  The grouped query refuses a code with two labels or with both
\* labelled and unlabelled rows; the count refuses a label beside a null code.
check_value_label_dependency(table, code, label, restrict_to) ==
  /\ \A v \in restrict_to \ {NULL} :
       LET group == {r \in table : r[code] = v}
       IN  /\ ~ \E r, s \in group : /\ r[label] # NULL
                                    /\ s[label] # NULL
                                    /\ r[label] # s[label]
           /\ ~ \E r, s \in group : r[label] # NULL /\ s[label] = NULL
  /\ NULL \in restrict_to =>
       ~ \E r \in table : r[code] = NULL /\ r[label] # NULL

\* What the check is for: equal codes carry equal labels, NULL included, and a
\* null code carries no label.
Determines(table, code, label) ==
  \A r \in table :
     /\ r[code] = NULL => r[label] = NULL
     /\ \A s \in table : r[code] = s[code] => r[label] = s[label]

-----------------------------------------------------------------------------
(* The removal of null-only columns (operations/_base.py) *)
\* Mutant: a label column does not keep its code.
Dependents_children(parent_of, label_for, c) == Children(parent_of, c)

\* The columns that keep c alive: its hierarchy children and label columns.
Dependents(parent_of, label_for, c) ==
  Children(parent_of, c) \cup {l \in DOMAIN label_for : label_for[l] = c}

\* A pass over the list of pending columns drops those whose dependents are gone,
\* dropped by this pass or before it.
OnePass(gone, pending, parent_of, label_for) ==
  LET after[i \in 0 .. Len(pending)] ==
        IF i = 0 THEN gone
        ELSE LET so_far == after[i - 1]
             IN  so_far \cup {c \in {pending[i]} :
                                Dependents(parent_of, label_for, c) \subseteq so_far}
  IN  after[Len(pending)]
\* Mutant: one pass only.
DroppedByPasses_once(pending, parent_of, label_for) == OnePass({}, pending, parent_of, label_for)

\* The loop: passes over the list, until a pass drops nothing; at most one for each
\* column.
DroppedByPasses(pending, parent_of, label_for) ==
  LET dropped[n \in 0 .. Len(pending)] ==
        IF n = 0 THEN {} ELSE OnePass(dropped[n - 1], pending, parent_of, label_for)
  IN  dropped[Len(pending)]

\* S holds every pending column whose dependents S holds.
ClosedUnderDrop(S, pending, parent_of, label_for) ==
  \A c \in pending : Dependents(parent_of, label_for, c) \subseteq S => c \in S

\* The least such set.
Droppable(pending, parent_of, label_for) ==
  {c \in pending : \A S \in SUBSET pending :
                      ClosedUnderDrop(S, pending, parent_of, label_for) => c \in S}
=============================================================================
