-------------------------- MODULE Algorithms_proofs --------------------------
(***************************************************************************)
(* The pure functions agree with definitions that do not follow the code,  *)
(* for any finite set of columns, any tables and any values.               *)
(***************************************************************************)
EXTENDS Algorithms, ColumnLinks_proofs, TLAPS

USE AlgorithmsAssumption

LEMMA InitTypes == Init => TypeOK
<1> SUFFICES ASSUME Init PROVE TypeOK
  OBVIOUS
<1>1. "VARCHAR" \in AllSqlTypes
  BY DEF AllSqlTypes, OrderedTypes, SQL_TYPE_RANK
<1>2. recorded \in AllSqlTypes
  BY <1>1 DEF Init
<1> QED BY <1>2 DEF Init, TypeOK

-----------------------------------------------------------------------------
(* Type widening *)

\* What the table of ranks and the table of widenings hold.
LEMMA Ranks ==
  \A t \in OrderedTypes : /\ SQL_TYPE_RANK[t][1] \in Nat /\ SQL_TYPE_RANK[t][2] \in Nat
                          /\ Unsigned(t) => SQL_TYPE_RANK[t][1] = 2
BY DEF OrderedTypes, SQL_TYPE_RANK, Unsigned, UNSIGNED_SQL_TYPES

\* The rank tells the types apart that are both signed or both unsigned.
LEMMA RankAndSign ==
  ASSUME NEW t \in OrderedTypes, NEW u \in OrderedTypes, Unsigned(t) = Unsigned(u),
         SQL_TYPE_RANK[t][1] = SQL_TYPE_RANK[u][1], SQL_TYPE_RANK[t][2] = SQL_TYPE_RANK[u][2]
  PROVE  t = u
<1> DEFINE Level(x) == SQL_TYPE_RANK[x][1]
           Width(x) == SQL_TYPE_RANK[x][2]
<1>1. \A x \in OrderedTypes : ~ Unsigned(x) =>
        /\ Level(x) \in {1, 2, 3, 4}
        /\ Level(x) = 1 <=> x = "BOOLEAN"
        /\ Level(x) = 4 <=> x = "VARCHAR"
        /\ Level(x) = 3 => IF Width(x) = 32 THEN x = "FLOAT" ELSE x = "DOUBLE"
        /\ Level(x) = 2 => CASE Width(x) = 8  -> x = "TINYINT"
                             [] Width(x) = 16 -> x = "SMALLINT"
                             [] Width(x) = 32 -> x = "INTEGER"
                             [] Width(x) = 64 -> x = "BIGINT"
                             [] OTHER         -> x = "HUGEINT"
  BY DEF OrderedTypes, SQL_TYPE_RANK, Unsigned, UNSIGNED_SQL_TYPES
<1>2. \A x \in OrderedTypes : Unsigned(x) =>
        CASE Width(x) = 8  -> x = "UTINYINT"
          [] Width(x) = 16 -> x = "USMALLINT"
          [] Width(x) = 32 -> x = "UINTEGER"
          [] Width(x) = 64 -> x = "UBIGINT"
          [] OTHER         -> x = "UHUGEINT"
  BY DEF OrderedTypes, SQL_TYPE_RANK, Unsigned, UNSIGNED_SQL_TYPES
<1>3. Level(t) = Level(u) /\ Width(t) = Width(u)
  OBVIOUS
<1> HIDE DEF Level, Width
<1>4. CASE ~ Unsigned(t)
  <2>1. ~ Unsigned(u)
    BY <1>4
  <2> QED BY <1>1, <1>3, <1>4, <2>1
<1>5. CASE Unsigned(t)
  <2>1. Unsigned(u)
    BY <1>5
  <2> QED BY <1>2, <1>3, <1>5, <2>1
<1> QED BY <1>4, <1>5

LEMMA Widenings ==
  \A w \in DOMAIN SIGNED_WIDENING :
    /\ w \in Nat \ {0}
    /\ SIGNED_WIDENING[w] \in OrderedTypes
    /\ ~ Unsigned(SIGNED_WIDENING[w])
    /\ SQL_TYPE_RANK[SIGNED_WIDENING[w]][1] = 2
    /\ SQL_TYPE_RANK[SIGNED_WIDENING[w]][2] > w
BY DEF SIGNED_WIDENING, OrderedTypes, SQL_TYPE_RANK, Unsigned, UNSIGNED_SQL_TYPES

\* The merge of two types, by cases: the recorded type, the type of the batch when
\* its rank is above, or, when just one of them is unsigned, a signed type wider
\* than both.
LEMMA MergeCases ==
  ASSUME NEW current \in AllSqlTypes, NEW new \in AllSqlTypes
  PROVE  LET merged == resolve_sql_type_conflict(current, new)
         IN  \/ merged = current
             \/ /\ current \in OrderedTypes /\ new \in OrderedTypes
                /\ RankBelow(SQL_TYPE_RANK[current], SQL_TYPE_RANK[new])
                /\ merged = new
             \/ /\ current \in OrderedTypes /\ new \in OrderedTypes /\ merged \in OrderedTypes
                /\ SQL_TYPE_RANK[current] = SQL_TYPE_RANK[new]
                /\ SQL_TYPE_RANK[current][1] = 2
                /\ ~ Unsigned(merged)
                /\ SQL_TYPE_RANK[merged][1] = 2
                /\ SQL_TYPE_RANK[merged][2] > SQL_TYPE_RANK[current][2]
<1> DEFINE merged == resolve_sql_type_conflict(current, new)
<1> SUFFICES ASSUME merged # current,
                    ~ RankBelow(SQL_TYPE_RANK[current], SQL_TYPE_RANK[new]) \/ merged # new
             PROVE  /\ current \in OrderedTypes /\ new \in OrderedTypes /\ merged \in OrderedTypes
                    /\ SQL_TYPE_RANK[current] = SQL_TYPE_RANK[new]
                    /\ SQL_TYPE_RANK[current][1] = 2
                    /\ ~ Unsigned(merged)
                    /\ SQL_TYPE_RANK[merged][1] = 2
                    /\ SQL_TYPE_RANK[merged][2] > SQL_TYPE_RANK[current][2]
  BY DEF resolve_sql_type_conflict
<1>1. /\ current \in OrderedTypes /\ new \in OrderedTypes
      /\ SQL_TYPE_RANK[current] = SQL_TYPE_RANK[new]
      /\ Unsigned(current) # Unsigned(new)
      /\ SQL_TYPE_RANK[current][2] \in DOMAIN SIGNED_WIDENING
      /\ merged = SIGNED_WIDENING[SQL_TYPE_RANK[current][2]]
  BY DEF resolve_sql_type_conflict
<1>2. Unsigned(current) \/ Unsigned(new)
  BY <1>1 DEF Unsigned
<1>3. SQL_TYPE_RANK[current][1] = 2
  BY <1>1, <1>2, Ranks
<1> QED BY <1>1, <1>3, Widenings

LEMMA MergeTyped ==
  ASSUME NEW current \in AllSqlTypes, NEW new \in AllSqlTypes
  PROVE  resolve_sql_type_conflict(current, new) \in AllSqlTypes
<1> HIDE DEF OrderedTypes
<1> QED BY MergeCases DEF AllSqlTypes

\* Of two ordered types, the merge keeps the first unless its rank is below or the
\* ranks are equal.
LEMMA HigherRankStays ==
  ASSUME NEW a \in OrderedTypes, NEW b \in OrderedTypes,
         ~ RankBelow(SQL_TYPE_RANK[a], SQL_TYPE_RANK[b]), SQL_TYPE_RANK[a] # SQL_TYPE_RANK[b]
  PROVE  resolve_sql_type_conflict(a, b) = a
BY DEF resolve_sql_type_conflict

LEMMA MergeAgain ==
  ASSUME NEW current \in AllSqlTypes, NEW new \in AllSqlTypes
  PROVE  LET merged == resolve_sql_type_conflict(current, new)
         IN  resolve_sql_type_conflict(merged, new) = merged
<1> DEFINE merged == resolve_sql_type_conflict(current, new)
<1>1. CASE merged = current
  BY <1>1
<1>2. CASE merged = new
  BY <1>2 DEF resolve_sql_type_conflict
<1>3. CASE /\ current \in OrderedTypes /\ new \in OrderedTypes /\ merged \in OrderedTypes
           /\ SQL_TYPE_RANK[current] = SQL_TYPE_RANK[new]
           /\ SQL_TYPE_RANK[current][1] = 2
           /\ ~ Unsigned(merged)
           /\ SQL_TYPE_RANK[merged][1] = 2
           /\ SQL_TYPE_RANK[merged][2] > SQL_TYPE_RANK[current][2]
  <2> HIDE DEF merged
  <2>1. \A t \in OrderedTypes : SQL_TYPE_RANK[t][1] \in Nat /\ SQL_TYPE_RANK[t][2] \in Nat
    BY Ranks
  <2> HIDE DEF OrderedTypes, SQL_TYPE_RANK
  <2>2. /\ ~ RankBelow(SQL_TYPE_RANK[merged], SQL_TYPE_RANK[new])
        /\ SQL_TYPE_RANK[merged] # SQL_TYPE_RANK[new]
    BY <1>3, <2>1 DEF RankBelow
  <2>3. resolve_sql_type_conflict(merged, new) = merged
    BY <1>3, <2>2, HigherRankStays
  <2> QED BY <2>3 DEF merged
<1> QED BY <1>1, <1>2, <1>3, MergeCases

\* Types whose signs do not clash merge into the one of the higher rank.
LEMMA MergeKeepsHigher ==
  ASSUME NEW current \in OrderedTypes, NEW new \in OrderedTypes, ~ SignsClash(current, new)
  PROVE  resolve_sql_type_conflict(current, new) =
           IF RankBelow(SQL_TYPE_RANK[current], SQL_TYPE_RANK[new]) THEN new ELSE current
<1>1. CASE current = new
  BY <1>1 DEF resolve_sql_type_conflict
<1>2. CASE current # new
  <2>1. ~ (SQL_TYPE_RANK[current] = SQL_TYPE_RANK[new] /\ Unsigned(current) # Unsigned(new))
    BY DEF SignsClash
  <2> HIDE DEF SQL_TYPE_RANK, OrderedTypes
  <2> QED BY <1>2, <2>1 DEF resolve_sql_type_conflict
<1> QED BY <1>1, <1>2

\* Two ordered types of one rank are the same, or their signs clash.
LEMMA SameRankClashes ==
  ASSUME NEW t \in OrderedTypes, NEW u \in OrderedTypes, ~ SignsClash(t, u),
         SQL_TYPE_RANK[t][1] = SQL_TYPE_RANK[u][1], SQL_TYPE_RANK[t][2] = SQL_TYPE_RANK[u][2]
  PROVE  t = u
<1>1. \A x \in OrderedTypes : SQL_TYPE_RANK[x] = <<SQL_TYPE_RANK[x][1], SQL_TYPE_RANK[x][2]>>
  BY DEF OrderedTypes, SQL_TYPE_RANK
<1> HIDE DEF SQL_TYPE_RANK, OrderedTypes
<1>2. SQL_TYPE_RANK[t] = SQL_TYPE_RANK[u]
  BY <1>1
<1>3. Unsigned(t) = Unsigned(u)
  BY <1>2 DEF SignsClash
<1> QED BY <1>3, RankAndSign

LEMMA MergesCommute ==
  ASSUME NEW r \in AllSqlTypes, NEW t \in AllSqlTypes, NEW u \in AllSqlTypes,
         ~ SignsClash(r, t), ~ SignsClash(r, u), ~ SignsClash(t, u)
  PROVE  resolve_sql_type_conflict(resolve_sql_type_conflict(r, t), u)
           = resolve_sql_type_conflict(resolve_sql_type_conflict(r, u), t)
<1>1. CASE r \in OrderedTypes /\ t \in OrderedTypes /\ u \in OrderedTypes
  <2> DEFINE Level(x) == SQL_TYPE_RANK[x][1]
             Width(x) == SQL_TYPE_RANK[x][2]
             Above(x, y) == Level(x) < Level(y) \/ (Level(x) = Level(y) /\ Width(x) < Width(y))
             S == {r, t, u}
  <2>1. \A x \in S : Level(x) \in Nat /\ Width(x) \in Nat
    BY <1>1, Ranks
  <2>2. \A x, y \in S : x \in OrderedTypes /\ y \in OrderedTypes /\ ~ SignsClash(x, y)
    BY <1>1 DEF SignsClash
  <2>3. \A x, y \in S : Level(x) = Level(y) /\ Width(x) = Width(y) => x = y
    BY <2>2, SameRankClashes
  <2>4. \A x, y \in S : resolve_sql_type_conflict(x, y) = IF Above(x, y) THEN y ELSE x
    BY <2>2, MergeKeepsHigher DEF RankBelow
  <2>5. r \in S /\ t \in S /\ u \in S
    OBVIOUS
  <2> HIDE DEF Level, Width, S
  <2> QED BY <2>1, <2>3, <2>4, <2>5
<1>2. CASE r \notin OrderedTypes
  BY <1>2 DEF resolve_sql_type_conflict
<1>3. CASE t \notin OrderedTypes
  BY <1>3 DEF resolve_sql_type_conflict
<1>4. CASE u \notin OrderedTypes
  BY <1>4 DEF resolve_sql_type_conflict
<1> QED BY <1>1, <1>2, <1>3, <1>4

\* A type of a higher rank holds the values of a lower one, unless it is unsigned
\* and the lower one is not.
LEMMA HigherRankHolds ==
  ASSUME NEW a \in OrderedTypes, NEW b \in OrderedTypes,
         RankBelow(SQL_TYPE_RANK[b], SQL_TYPE_RANK[a]), ~ Unsigned(a) \/ Unsigned(b)
  PROVE  Holds(a, b)
<1>1. \A t \in OrderedTypes : SQL_TYPE_RANK[t][1] \in Nat /\ SQL_TYPE_RANK[t][2] \in Nat
  BY Ranks
<1> DEFINE ra == SQL_TYPE_RANK[a]
           rb == SQL_TYPE_RANK[b]
<1>2. ra[1] > rb[1] \/ (ra[1] = rb[1] /\ ra[2] > rb[2])
  BY <1>1 DEF RankBelow
<1>3. Unsigned(a) = Unsigned(b) \/ Unsigned(b)
  BY DEF Unsigned
<1>4. ra[2] > rb[2] => ra[2] >= rb[2]
  BY <1>1
<1> HIDE DEF ra, rb
<1>5. \/ ra[1] > rb[1]
      \/ /\ ra[1] = rb[1] /\ ra[2] >= rb[2]
         /\ Unsigned(a) = Unsigned(b) \/ (Unsigned(b) /\ ra[2] > rb[2])
  BY <1>2, <1>3, <1>4
<1> QED BY <1>5 DEF Holds, ra, rb

LEMMA MergeWidens ==
  ASSUME NEW current \in AllSqlTypes, NEW new \in AllSqlTypes
  PROVE  LET merged == resolve_sql_type_conflict(current, new)
         IN  Holds(merged, current) \/ (Unsigned(merged) /\ ~ Unsigned(current))
<1> DEFINE merged == resolve_sql_type_conflict(current, new)
<1>1. CASE merged = current
  BY <1>1 DEF Holds
<1>2. CASE /\ current \in OrderedTypes /\ new \in OrderedTypes
           /\ RankBelow(SQL_TYPE_RANK[current], SQL_TYPE_RANK[new])
           /\ merged = new
  <2>1. Holds(merged, current) \/ (Unsigned(merged) /\ ~ Unsigned(current))
    <3> HIDE DEF merged
    <3> QED BY <1>2, HigherRankHolds
  <2> QED BY <2>1
<1>3. CASE /\ current \in OrderedTypes /\ new \in OrderedTypes /\ merged \in OrderedTypes
           /\ SQL_TYPE_RANK[current] = SQL_TYPE_RANK[new]
           /\ SQL_TYPE_RANK[current][1] = 2
           /\ ~ Unsigned(merged)
           /\ SQL_TYPE_RANK[merged][1] = 2
           /\ SQL_TYPE_RANK[merged][2] > SQL_TYPE_RANK[current][2]
  <2>1. Holds(merged, current)
    <3> HIDE DEF merged
    <3>1. SQL_TYPE_RANK[merged][2] \in Nat /\ SQL_TYPE_RANK[current][2] \in Nat
      BY <1>3, Ranks
    <3>2. RankBelow(SQL_TYPE_RANK[current], SQL_TYPE_RANK[merged])
      <4> HIDE DEF SQL_TYPE_RANK, OrderedTypes
      <4> QED BY <1>3, <3>1 DEF RankBelow
    <3> QED BY <1>3, <3>2, HigherRankHolds
  <2> QED BY <2>1
<1> QED BY <1>1, <1>2, <1>3, MergeCases

-----------------------------------------------------------------------------
(* The theorems on types *)

LEMMA StepTypes == TypeOK /\ [Next]_vars => TypeOK'
<1> SUFFICES ASSUME TypeOK, [Next]_vars PROVE TypeOK'
  OBVIOUS
<1>1. CASE DeclareParent
  BY <1>1 DEF DeclareParent, TypeOK
<1>2. CASE DeclareLabel
  BY <1>2 DEF DeclareLabel, TypeOK
<1>3. CASE InsertRow
  BY <1>3 DEF InsertRow, TypeOK
<1>4. CASE MergeBatch
  BY <1>4, MergeTyped DEF MergeBatch, TypeOK
<1>5. CASE UNCHANGED vars
  BY <1>5 DEF vars, TypeOK
<1> QED BY <1>1, <1>2, <1>3, <1>4, <1>5 DEF Next

\* The explored mappings, tables and types keep their type.
THEOREM TypesStay == Spec => []TypeOK
BY InitTypes, StepTypes, PTL DEF Spec

\* A batch sent again after its type was merged never widens a column twice.
THEOREM RetriesKeepType == Spec => []RetryKeepsType
<1>1. TypeOK => RetryKeepsType
  BY MergeAgain DEF TypeOK, RetryKeepsType
<1> QED BY <1>1, TypesStay, PTL

\* The type of a column depends on the order in which two batches arrive only when
\* the signed and the unsigned integer of one width are among the three types.
THEOREM BatchesCommute == Spec => []OrderMattersOnlyIfSignsClash
<1>1. TypeOK => OrderMattersOnlyIfSignsClash
  BY MergesCommute DEF TypeOK, OrderMattersOnlyIfSignsClash
<1> QED BY <1>1, TypesStay, PTL

\* A merge never narrows a column, except that an unsigned batch type of a higher
\* rank replaces a signed one.
THEOREM MergesWiden == Spec => WidensUnlessUnsigned
<1>1. TypeOK /\ [Next]_vars
        => [Holds(recorded', recorded) \/ (Unsigned(recorded') /\ ~ Unsigned(recorded))]_recorded
  <2> SUFFICES ASSUME TypeOK, MergeBatch
               PROVE  Holds(recorded', recorded) \/ (Unsigned(recorded') /\ ~ Unsigned(recorded))
    BY DEF Next, vars, DeclareParent, DeclareLabel, InsertRow
  <2> QED BY MergeWidens DEF MergeBatch, TypeOK
<1> QED BY <1>1, TypesStay, PTL DEF Spec, WidensUnlessUnsigned

-----------------------------------------------------------------------------
(* The theorems on links *)

\* However parents are declared, redeclared and cleared, the walk that
\* validate_hierarchy_forest takes from each column raises exactly when there is
\* a cycle.
THEOREM WalksFindCycles == Spec => []WalkFindsEveryCycle
<1>1. TypeOK => WalkFindsEveryCycle
  BY WalkDecidesForest DEF TypeOK, WalkFindsEveryCycle
<1> QED BY <1>1, TypesStay, PTL

\* As many different columns as a set has are all of them.
LEMMA OrdersList ==
  ASSUME NEW null_only \in SUBSET Columns, NEW pending \in Orders[null_only]
  PROVE  Lists(pending, null_only)
<1> DEFINE N == Cardinality(null_only)
<1>1. IsFiniteSet(null_only) /\ N \in Nat
  BY FS_Subset, FS_CardinalityType
<1>2. /\ pending \in [1 .. N -> null_only]
      /\ \A i, j \in 1 .. N : pending[i] = pending[j] => i = j
  BY DEF Orders
<1>3. pending \in Injection(1 .. N, null_only)
  BY <1>2, Fun_IsInj
<1>4. IsFiniteSet(1 .. N) /\ Cardinality(1 .. N) = N
  BY <1>1, FS_Interval
<1>5. pending \in Surjection(1 .. N, null_only)
  BY <1>1, <1>3, <1>4, FS_Injection
<1>6. pending \in Seq(null_only) /\ Len(pending) = N
  BY <1>1, <1>2
<1>7. \A c \in null_only : \E i \in 1 .. N : pending[i] = c
  BY <1>5 DEF Surjection
<1> QED BY <1>6, <1>7 DEF Lists

\* The passes of the null-only cleanup drop the least closed set of columns, for
\* whatever columns are null-only, in whatever order, and whatever links.
THEOREM PassesDropLeast == Spec => []CleanupPassesDropLeastSet
<1>1. TypeOK => CleanupPassesDropLeastSet
  <2> SUFFICES ASSUME NEW null_only \in SUBSET Columns
               PROVE  LET least == Droppable(null_only, parent_of, label_for)
                      IN  /\ \A pending \in Orders[null_only] :
                               DroppedByPasses(pending, parent_of, label_for) = least
                          /\ \A c \in null_only :
                               c \in least <=> Dependents(parent_of, label_for, c) \subseteq least
    BY DEF CleanupPassesDropLeastSet
  <2>1. ASSUME NEW pending \in Orders[null_only]
        PROVE  Lists(pending, null_only)
    BY <2>1, OrdersList
  <2>2. \A c \in null_only :
          Dependents(parent_of, label_for, c) \subseteq Droppable(null_only, parent_of, label_for)
            => c \in Droppable(null_only, parent_of, label_for)
    BY DroppableIsClosed DEF ClosedUnderDrop
  <2> QED BY <2>1, <2>2, PassesDropLeastSet, DroppableClosed
<1> QED BY <1>1, TypesStay, PTL

\* A pair that validate_value_labels accepts is one level deep and touches no
\* hierarchy.
THEOREM PairsHaveOneLevel == Spec => []AcceptedPairsHaveOneLevel
<1>1. TypeOK => AcceptedPairsHaveOneLevel
  <2> DEFINE pairs == get_value_label_columns(label_for)
  <2> SUFFICES ASSUME TypeOK,
                      validate_value_labels(label_for, [c \in Columns |-> "VARCHAR"], {}, parent_of)
               PROVE  /\ \A code \in DOMAIN pairs : pairs[code] \cap DOMAIN pairs = {}
                      /\ \A l \in UNION {pairs[code] : code \in DOMAIN pairs} : ~ InHierarchy(l)
    BY DEF AcceptedPairsHaveOneLevel
  <2>1. \A label \in Declared(label_for) :
          /\ label_for[label] \notin Declared(label_for)
          /\ Get(parent_of, label) = NULL
          /\ Children(parent_of, label) = {}
    BY DEF validate_value_labels
  <2>2. \A code \in DOMAIN pairs : pairs[code] \subseteq Declared(label_for)
    BY DEF get_value_label_columns
  <2>3. \A code \in DOMAIN pairs : \E l \in Declared(label_for) : label_for[l] = code
    BY DEF get_value_label_columns
  <2>4. \A l \in Declared(label_for) : l \notin DOMAIN pairs /\ ~ InHierarchy(l)
    <3> TAKE l \in Declared(label_for)
    <3>1. l \notin DOMAIN pairs
      BY <2>1, <2>3
    <3>2. l \in DOMAIN parent_of
      BY DEF Declared, TypeOK
    <3> QED BY <2>1, <3>1, <3>2 DEF InHierarchy, Get
  <2> HIDE DEF pairs
  <2>5. ASSUME NEW l \in UNION {pairs[code] : code \in DOMAIN pairs}
        PROVE  ~ InHierarchy(l)
    BY <2>2, <2>4
  <2> QED BY <2>2, <2>4, <2>5
<1> QED BY <1>1, TypesStay, PTL

\* On a forest, get_column_hierarchies returns the root-to-leaf paths: they repeat
\* no column, and together hold every column of every hierarchy and no other.
THEOREM ChainsAreHierarchies == Spec => []ChainsAreTheHierarchies
<1>1. TypeOK => ChainsAreTheHierarchies
  <2> SUFFICES ASSUME TypeOK, IsForest(parent_of)
               PROVE  LET chains == get_column_hierarchies(parent_of)
                      IN  /\ {c \in Columns : InHierarchy(c)} =
                               UNION {{chain[i] : i \in DOMAIN chain} : chain \in chains}
                          /\ \A chain \in chains :
                               /\ parent_of[chain[1]] = NULL
                               /\ Children(parent_of, chain[Len(chain)]) = {}
                               /\ \A i \in 2 .. Len(chain) : parent_of[chain[i]] = chain[i - 1]
                               /\ \A i, j \in DOMAIN chain : chain[i] = chain[j] => i = j
    BY DEF ChainsAreTheHierarchies
  <2>1. Hierarchies(parent_of, Columns)
    BY DEF Hierarchies, TypeOK
  <2> QED BY <2>1, ChainsCoverHierarchies DEF InHierarchy
<1> QED BY <1>1, TypesStay, PTL

-----------------------------------------------------------------------------
(* The theorems on pairs *)

\* The grouped query and the count of check_value_label_dependency, run on a whole
\* table, accept it exactly when the code determines the label.
THEOREM FullCheckDecides == Spec => []FullCheckIsDetermination
<1>1. FullCheckIsDetermination
  BY DEF FullCheckIsDetermination, check_value_label_dependency, Determines, ColumnValues
<1> QED BY <1>1, PTL

\* The null code of a table whose code determines the label has no label, and each
\* other code has one label at most: with the codes of the new rows checked, so has
\* every code of the table.
LEMMA CheckedWithOld ==
  ASSUME NEW old, Determines(old, "code", "label"), NEW new,
         check_value_label_dependency(new, "code", "label", ColumnValues(new \ old, "code"))
  PROVE  Determines(new, "code", "label")
<1> DEFINE checked == ColumnValues(new \ old, "code")
<1>1. \A r \in new : r \in old \/ r["code"] \in checked
  BY DEF ColumnValues
<1> HIDE DEF checked
<1>2. \A r, s \in new : r["code"] \in checked /\ r["code"] # NULL /\ r["code"] = s["code"]
                           => r["label"] = s["label"]
  BY DEF check_value_label_dependency, checked
<1>3. \A r \in new : NULL \in checked /\ r["code"] = NULL => r["label"] = NULL
  BY DEF check_value_label_dependency, checked
<1>4. \A r \in old : r["code"] = NULL => r["label"] = NULL
  BY DEF Determines
<1>5. \A r, s \in old : r["code"] = s["code"] => r["label"] = s["label"]
  BY DEF Determines
<1>6. ASSUME NEW r \in new, r["code"] = NULL
      PROVE  r["label"] = NULL
  BY <1>1, <1>3, <1>4, <1>6
<1>7. ASSUME NEW r \in new, NEW s \in new, r["code"] = s["code"]
      PROVE  r["label"] = s["label"]
  <2>1. CASE r["code"] = NULL
    BY <1>6, <1>7, <2>1
  <2>2. CASE r["code"] # NULL
    BY <1>1, <1>2, <1>5, <1>7, <2>2
  <2> QED BY <2>1, <2>2
<1> QED BY <1>6, <1>7 DEF Determines

\* A write that was checked on the codes of its rows only, over a table in which the
\* code determined the label, is accepted exactly when it still does on the whole
\* table.
THEOREM RestrictedChecksSuffice == Spec => []RestrictedCheckSuffices
<1>1. ASSUME Determines(table, "code", "label"), NEW codes
      PROVE  check_value_label_dependency(table, "code", "label", codes)
  BY <1>1 DEF check_value_label_dependency, Determines
<1>2. RestrictedCheckSuffices
  BY <1>1, CheckedWithOld DEF RestrictedCheckSuffices
<1> QED BY <1>2, PTL
=============================================================================
