---------------------------- MODULE LogicalTable ----------------------------
(***************************************************************************)
(* What the storage of a table promises to its readers: every retained     *)
(* snapshot keeps its rows, each read once; a committed write applies what *)
(* its caller asked for, and nothing else, to the latest snapshot;         *)
(* maintenance may add snapshots equal to the latest one; only expiration  *)
(* forgets snapshots, oldest first and never the latest.                   *)
(***************************************************************************)
EXTENDS Naturals, FiniteSets, FiniteSetsExt

CONSTANTS
  NULL,    \* no write in progress
  Rows     \* the rows that may ever be inserted

VARIABLES
  contents,   \* retained snapshot -> row -> number of times it is read
  requested   \* the write in progress, [inserts, deletes], or NULL

vars == <<contents, requested>>

Latest == Max(DOMAIN contents)

Init ==
  /\ contents = [s \in {0} |-> [r \in Rows |-> 0]]
  /\ requested = NULL

NewSnapshot(table) ==
  LET new == Latest + 1
  IN  contents' = [s \in DOMAIN contents \cup { new } |-> IF s = new THEN table ELSE contents[s]]

Request ==
  /\ requested = NULL
  /\ requested' \in [inserts : SUBSET Rows, deletes : SUBSET Rows]
  /\ UNCHANGED contents

Commit ==
  /\ requested # NULL
  /\ \A r \in requested.deletes : contents[Latest][r] = 1
  /\ \A r \in requested.inserts : contents[Latest][r] = 0
  /\ NewSnapshot([r \in Rows |-> IF r \in requested.inserts THEN 1
                                 ELSE IF r \in requested.deletes THEN 0
                                 ELSE contents[Latest][r]])
  /\ requested' = NULL

Abandon == requested # NULL /\ requested' = NULL /\ UNCHANGED contents

Reorganise == NewSnapshot(contents[Latest]) /\ UNCHANGED requested

Expire ==
  /\ \E oldest \in DOMAIN contents :
       contents' = [s \in { t \in DOMAIN contents : t >= oldest } |-> contents[s]]
  /\ UNCHANGED requested

Next == Request \/ Commit \/ Abandon \/ Reorganise \/ Expire

Spec == Init /\ [][Next]_vars
=============================================================================
