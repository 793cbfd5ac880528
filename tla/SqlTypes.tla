------------------------------ MODULE SqlTypes ------------------------------
(***************************************************************************)
(* The ordering of SQL types and the resolution of a conflict between the  *)
(* recorded type of a column and the type of an incoming batch             *)
(* (utils/types.py).                                                       *)
(***************************************************************************)
EXTENDS Naturals

\* (level, width in bits): boolean < integer < floating point < text.
SQL_TYPE_RANK ==
  [ BOOLEAN  |-> <<1, 1>>,
    TINYINT  |-> <<2, 8>>,   UTINYINT  |-> <<2, 8>>,
    SMALLINT |-> <<2, 16>>,  USMALLINT |-> <<2, 16>>,
    INTEGER  |-> <<2, 32>>,  UINTEGER  |-> <<2, 32>>,
    BIGINT   |-> <<2, 64>>,  UBIGINT   |-> <<2, 64>>,
    HUGEINT  |-> <<2, 128>>, UHUGEINT  |-> <<2, 128>>,
    FLOAT    |-> <<3, 32>>,  DOUBLE    |-> <<3, 64>>,
    VARCHAR  |-> <<4, 0>> ]

UNSIGNED_SQL_TYPES == {"UTINYINT", "USMALLINT", "UINTEGER", "UBIGINT", "UHUGEINT"}
\* Mutant: an alias that the ordering of types does not know.
SIGNED_WIDENING_alias ==
  [w \in {8, 16, 32, 64} |->
     CASE w = 8 -> "SMALLINT" [] w = 16 -> "INTEGER" [] w = 32 -> "BIGINT" [] OTHER -> "INT128"]

\* The signed type holding both integer types of a width; none above 64 bits.
SIGNED_WIDENING ==
  [w \in {8, 16, 32, 64} |->
     CASE w = 8 -> "SMALLINT" [] w = 16 -> "INTEGER" [] w = 32 -> "BIGINT" [] OTHER -> "HUGEINT"]

\* Types with a rank, and those without (temporal, decimal, binary).
OrderedTypes == DOMAIN SQL_TYPE_RANK
UnorderedTypes == {"DECIMAL", "DATE", "TIMESTAMP", "TIME", "INTERVAL", "BLOB"}
AllSqlTypes == OrderedTypes \cup UnorderedTypes
\* Mutant: the width alone.
RankBelow_width(a, b) == a[2] < b[2]

\* Python's comparison of tuples.
RankBelow(a, b) == a[1] < b[1] \/ (a[1] = b[1] /\ a[2] < b[2])

Unsigned(t) == t \in UNSIGNED_SQL_TYPES
\* Mutant: any difference of sign widens, whatever the ranks.
resolve_sql_type_conflict_sign_first(current, new) ==
  IF current = new \/ current \notin OrderedTypes \/ new \notin OrderedTypes THEN current
  ELSE CASE /\ Unsigned(current) # Unsigned(new)
            /\ SQL_TYPE_RANK[current][2] \in DOMAIN SIGNED_WIDENING ->
              SIGNED_WIDENING[SQL_TYPE_RANK[current][2]]
         [] RankBelow(SQL_TYPE_RANK[current], SQL_TYPE_RANK[new]) -> new
         [] OTHER -> current

\* Mutant: the type of the last batch.
resolve_sql_type_conflict_last(current, new) ==
  IF current \notin OrderedTypes \/ new \notin OrderedTypes THEN current ELSE new

\* The type to store; the current one where the code returns None (keep it).
resolve_sql_type_conflict(current, new) ==
  IF current = new \/ current \notin OrderedTypes \/ new \notin OrderedTypes THEN current
  ELSE LET current_rank == SQL_TYPE_RANK[current]
           new_rank     == SQL_TYPE_RANK[new]
       IN  CASE RankBelow(current_rank, new_rank) -> new
             [] /\ current_rank = new_rank
                /\ Unsigned(current) # Unsigned(new)
                /\ current_rank[2] \in DOMAIN SIGNED_WIDENING -> SIGNED_WIDENING[current_rank[2]]
             [] OTHER -> current
=============================================================================
