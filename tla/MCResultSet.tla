----------------------------- MODULE MCResultSet -----------------------------
(* Instances of ResultSet small enough for TLC. *)
EXTENDS ResultSet, TLC

CONSTANTS k, c, l, d, p, v1, v2

\* One or two columns identify a row; l may label the key k or the value c.
DataColumns == {k, c, l}
DataValues == [x \in DataColumns |-> {v1, v2}]
DataTypes == k :> {"INTEGER"} @@ c :> {"INTEGER"} @@ l :> {"VARCHAR"}
DataKeys == {{k}, {k, c}}
NeverPassed == [x \in DataColumns |-> {}]
DataLabels == k :> {} @@ c :> {} @@ l :> {k, c}

\* Every column may hold v1 and v2, and nothing else tells them apart.
DataSymmetry == Permutations({v1, v2})

\* Two columns identify a row, l labels the key c and d is linked to nothing.
KeyedColumns == {k, c, l, d}
KeyedValues == [x \in KeyedColumns |-> IF x = k THEN {v1, v2} ELSE {v1}]
KeyedTypes == k :> {"INTEGER"} @@ c :> {"INTEGER"} @@ l :> {"VARCHAR"} @@ d :> {"DOUBLE"}
KeyedLabels == k :> {} @@ c :> {} @@ l :> {c} @@ d :> {}
KeyedNeverPassed == [x \in KeyedColumns |-> {}]

\* Links that may loop (c and p), chain (c and l) or mix a hierarchy with a pair (l).
LinkColumns == {k, c, l, p}
LinkValues == [x \in LinkColumns |-> {v1}]
LinkTypes == [x \in LinkColumns |-> IF x = c THEN {"INTEGER", "VARCHAR"} ELSE {"VARCHAR"}]
LinkParents == k :> {} @@ c :> {p, l} @@ p :> {c} @@ l :> {p}
LinkLabels == k :> {} @@ c :> {l} @@ p :> {} @@ l :> {k, c}
LinkFlags == [x \in LinkColumns |-> IF x = c THEN {FALSE} ELSE {}]
=============================================================================
