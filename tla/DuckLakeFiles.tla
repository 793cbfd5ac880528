--------------------------- MODULE DuckLakeFiles ---------------------------
(***************************************************************************)
(* The storage of one DuckLake table, as the package uses it: data files,  *)
(* rows inlined in the catalog, and what the write statements and the      *)
(* maintenance procedures of DuckLake do to them.  DuckLake is not under   *)
(* src/: its behaviour is the one that src/dt_ducklake_manager/maintenance *)
(* and docs/maintenance.md record ("measured").                            *)
(*                                                                         *)
(* A row is a number, its place in the order of cluster_by; a row is       *)
(* inserted once.  A holder of rows is a record                            *)
(*     born: row -> snapshot that inserted it                              *)
(*     gone: deleted row -> snapshot that deleted it (the delete file)     *)
(* and a data file has also the snapshots it is active in, [begin, end[,   *)
(* with end = NULL for an active file.                                     *)
(***************************************************************************)
EXTENDS Naturals, Sequences, FiniteSets, FiniteSetsExt, SequencesExt, Functions

CONSTANTS
  NULL,             \* no end snapshot; no limit
  TargetFileSize    \* option target_file_size, in rows

\* f, with the values of g where it has none: TLC's @@, which the provers lack.
Extended(f, g) == [x \in DOMAIN f \cup DOMAIN g |-> IF x \in DOMAIN f THEN f[x] ELSE g[x]]

Stored(rows, snapshot) == [r \in rows |-> snapshot]
Holder(rows, snapshot) == [born |-> Stored(rows, snapshot), gone |-> Stored({}, 0)]
DataFile(rows, snapshot) ==
  [born |-> Stored(rows, snapshot), gone |-> Stored({}, 0), begin |-> snapshot, end |-> NULL]

\* The rows of a holder at a snapshot, and its rows not deleted yet.
RowsAt(holder, s) ==
  { r \in DOMAIN holder.born : holder.born[r] <= s
                               /\ (r \in DOMAIN holder.gone => s < holder.gone[r]) }
Live(holder) == DOMAIN holder.born \ DOMAIN holder.gone

ActiveAt(file, s) == file.begin <= s /\ (file.end = NULL \/ s < file.end)
Active(files) == { f \in DOMAIN files : files[f].end = NULL }
FilesAt(files, s) == { f \in DOMAIN files : ActiveAt(files[f], s) }

\* What a scan at snapshot s returns, the files on disk being the only ones that
\* can be read: how many times each row.
Scan(rows, files, inlined, on_disk, s) ==
  LET read == FilesAt(files, s) \cap on_disk
      in_catalog == RowsAt(inlined, s)
  IN  [r \in rows |-> Cardinality({ f \in read : r \in RowsAt(files[f], s) })
                      + (IF r \in in_catalog THEN 1 ELSE 0)]

\* Where a row of the table is: its data file, or 0 for the catalog.
HolderOf(files, inlined, s, r) ==
  IF r \in RowsAt(inlined, s) THEN 0
  ELSE CHOOSE f \in FilesAt(files, s) : r \in RowsAt(files[f], s)

\* DELETE of rows: a delete file on each data file that keeps some of its
\* rows, the end of the data files that keep none.
DeleteFrom(holder, rows, s) ==
  [holder EXCEPT !.gone = Extended(@, Stored(rows \cap Live(holder), s))]

DeletedFiles(files, rows, s) ==
  [f \in DOMAIN files |->
     LET file == files[f]
     IN  IF file.end # NULL \/ rows \cap Live(file) = {} THEN file
         ELSE IF Live(file) \subseteq rows THEN [file EXCEPT !.end = s]
         ELSE DeleteFrom(file, rows, s)]

-----------------------------------------------------------------------------
(* What a procedure rewrites: active files in the order of their ids,      *)
(* packed into outputs of at most target_file_size                          *)

Packed(files, candidates) ==
  LET Size(group) == Cardinality(UNION { Live(files[f]) : f \in group })
      Add(groups, f) ==
        IF groups # <<>> /\ Size(Last(groups) \cup {f}) <= TargetFileSize
        THEN [groups EXCEPT ![Len(groups)] = @ \cup {f}]
        ELSE Append(groups, {f})
      last == Max(candidates \cup {0})
      packed[id \in 0 .. last] ==
        IF id = 0 THEN <<>>
        ELSE IF id \in candidates THEN Add(packed[id - 1], id) ELSE packed[id - 1]
  IN  packed[last]

\* The first operations, max_compacted_files of them.
Limited(groups, max_compacted_files) ==
  IF max_compacted_files = NULL \/ Len(groups) <= max_compacted_files THEN groups
  ELSE SubSeq(groups, 1, max_compacted_files)

\* The groups of more than one file: SelectSeq, which the provers lack.
Several(groups) ==
  LET kept[n \in 0 .. Len(groups)] ==
        IF n = 0 THEN <<>>
        ELSE IF Cardinality(groups[n]) > 1 THEN Append(kept[n - 1], groups[n]) ELSE kept[n - 1]
  IN  kept[Len(groups)]

\* merge_adjacent_files: the files with no delete file that start in the window.
MergeGroups(files, newer_than) ==
  Several(Packed(files, { f \in Active(files) : DOMAIN files[f].gone = {}
                                                /\ files[f].begin >= newer_than }))

\* rewrite_data_files: the files whose deleted share exceeds the threshold (in %).
AboveThreshold(file, delete_threshold) ==
  Cardinality(DOMAIN file.gone) * 100 > delete_threshold * Cardinality(DOMAIN file.born)
RewriteGroups(files, delete_threshold) ==
  Packed(files, { f \in Active(files) : AboveThreshold(files[f], delete_threshold) })

\* The merged file holds every row with the snapshot that inserted it, so that
\* it replaces its sources in the catalog at every snapshot.
MergedFile(files, group) ==
  [ born |-> [r \in UNION { DOMAIN files[f].born : f \in group } |->
                files[CHOOSE f \in group : r \in DOMAIN files[f].born].born[r]],
    gone |-> Stored({}, 0),
    begin |-> Min({ files[f].begin : f \in group }),
    end |-> NULL ]

\* The rows cut into files of target_file_size rows, one after the other in the
\* order of the sort key (threads = 1).
Chunks(rows) ==
  LET place(r) == Cardinality({ q \in rows : q < r }) \div TargetFileSize
      count == (Cardinality(rows) + TargetFileSize - 1) \div TargetFileSize
  IN  [i \in 1..count |-> { r \in rows : place(r) = i - 1 }]
=============================================================================
