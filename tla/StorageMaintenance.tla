------------------------- MODULE StorageMaintenance -------------------------
(***************************************************************************)
(* DuckLakeMaintenance and DuckLakeProcedures on one DuckLake table that   *)
(* another process writes: maintain, step by step, with the storage        *)
(* measures its guards read; recluster, with its transaction; the          *)
(* procedures; compact, run by the writer after its commit.                *)
(***************************************************************************)
EXTENDS Integers, DuckLakeFiles

CONSTANTS
  Rows,           \* the rows that may be inserted, numbered in the order of cluster_by
  SortValue,      \* row -> its value in the first column of cluster_by
  Policies,       \* the MaintenancePolicy values maintain is called with
  PlannedPolicy,  \* the one of the planned maintenance
  Requests,       \* bound: the transactions of the writer, each tried once, as
                  \*   inserts, deletes: rows
                  \*   inlining: the INSERT is under data_inlining_row_limit
                  \*   compaction: "none", "all" or "window" (compact_after_update)
  MaxFailures     \* bound: steps of maintain that fail

\* The bounds on a policy are those of MaintenancePolicy.__post_init__.
ASSUME StorageAssumption ==
  /\ Rows \subseteq Nat /\ IsFiniteSet(Rows)
  /\ SortValue \in [Rows -> Nat]
  /\ \A q, r \in Rows : q < r => SortValue[q] <= SortValue[r]
  /\ NULL \notin Nat \cup [inserts : SUBSET Rows, deletes : SUBSET Rows]
  /\ TargetFileSize \in Nat \ {0}
  /\ PlannedPolicy \in Policies
  /\ \A chosen \in Policies : /\ chosen.retention \in Nat \cup { NULL }
                             /\ chosen.max_compacted_files \in (Nat \ {0}) \cup { NULL }
  /\ \A request \in Requests : request.inserts \subseteq Rows /\ request.deletes \subseteq Rows

VARIABLES
  snapshot,      \* the current snapshot
  snapshots,     \* the snapshots not expired
  data_files,    \* catalog: file -> rows, deletions, snapshots it is active in
  inlined,       \* catalog: the inlined rows
  scheduled,     \* catalog: the files scheduled for deletion
  on_disk,       \* the files under data_path
  next_file,     \* the next file id
  sort_key_set,  \* SORTED BY is dataset_metadata.cluster_by
  writer,        \* the writer: its transaction, or its compaction
  maintenance,   \* the call to maintain: its step, its policy, its measures
  awaited,       \* the requests not tried yet
  failures,      \* failed steps so far
  swept          \* files deleted as orphans while their transaction was open

catalog == <<snapshot, snapshots, data_files, inlined, scheduled, next_file, sort_key_set>>
vars == <<catalog, on_disk, writer, maintenance, awaited, failures, swept>>

-----------------------------------------------------------------------------
(* Measures: storage_report *)

\* Strict inequalities, so that files sharing a boundary value do not overlap, or
\* identical ranges.
Overlap(a, b) ==
  \/ Min(b) < Max(a) /\ Min(a) < Max(b)
  \/ Min(a) = Min(b) /\ Max(a) = Max(b)

\* Column statistics cover the rows of the file, deleted ones included; the ratio
\* in %, 0 with at most one file.
overlap_ratio(files) ==
  LET active == Active(files)
      values(f) == { SortValue[r] : r \in DOMAIN files[f].born }
      overlapping == { f \in active : \E g \in active \ {f} : Overlap(values(f), values(g)) }
  IN  IF Cardinality(active) <= 1 THEN 0
      ELSE (Cardinality(overlapping) * 100) \div Cardinality(active)

\* Only the delete files of active data files count.
storage_report(files, in_catalog, min_file_size) ==
  [ has_inlined_data |-> Live(in_catalog) # {},
    delete_file_count |-> Cardinality({ f \in Active(files) : DOMAIN files[f].gone # {} }),
    small_file_count |-> Cardinality({ f \in Active(files) :
                                         Cardinality(DOMAIN files[f].born) < min_file_size }),
    overlap_ratio |-> overlap_ratio(files) ]

Unmeasured == [has_inlined_data |-> FALSE, delete_file_count |-> 0, small_file_count |-> 0,
               overlap_ratio |-> 0]

-----------------------------------------------------------------------------
Idle == [status |-> "idle"]

Init ==
  /\ snapshot = 0 /\ snapshots = {0}
  /\ data_files = Stored({}, 0) /\ inlined = Holder({}, 0)
  /\ scheduled = {} /\ on_disk = {} /\ next_file = 1
  /\ sort_key_set = FALSE
  /\ writer = Idle
  /\ maintenance = [step |-> "idle"]
  /\ awaited = Requests /\ failures = 0 /\ swept = {}

\* A commit: the next snapshot, and what it makes of the catalog.
Committed(files, in_catalog) ==
  /\ snapshot' = snapshot + 1
  /\ snapshots' = snapshots \cup { snapshot + 1 }
  /\ data_files' = files
  /\ inlined' = in_catalog

TableRows == RowsAt(inlined, snapshot) \cup UNION { RowsAt(data_files[f], snapshot) :
                                                    f \in FilesAt(data_files, snapshot) }
Inserted == DOMAIN inlined.born \cup UNION { DOMAIN data_files[f].born : f \in DOMAIN data_files }

-----------------------------------------------------------------------------
(* The writer: one transaction at a time, and its compaction *)

BeginWrite(request) ==
  LET inserts == request.inserts
      deletes == request.deletes
      inlining == request.inlining \/ inserts = {}
  IN
  /\ writer = Idle
  /\ inserts \cap Inserted = {} /\ deletes \subseteq TableRows
  /\ awaited' = awaited \ { request }
  /\ writer' = [ status |-> "open", inserts |-> inserts,
                 deletes |-> [r \in deletes |-> HolderOf(data_files, inlined, snapshot, r)],
                 compaction |-> request.compaction,
                 file |-> IF inlining THEN NULL ELSE next_file ]
  /\ IF inlining THEN UNCHANGED <<on_disk, next_file>>
     ELSE on_disk' = on_disk \cup { next_file } /\ next_file' = next_file + 1
  /\ UNCHANGED <<snapshot, snapshots, data_files, inlined, scheduled, sort_key_set,
                 maintenance, failures, swept>>

\* DuckLake accepts the commit when the rows it deletes are still where the
\* transaction read them: neither deleted, nor moved by a compaction.
Unmoved(deletes) ==
  \A r \in DOMAIN deletes :
    r \in TableRows /\ HolderOf(data_files, inlined, snapshot, r) = deletes[r]

\* COMMIT; the compaction follows when compact_after_update is set, over every
\* file or those of the compaction_window (here: of this very snapshot).
CommitWrite ==
  LET s == snapshot + 1
      gone == DOMAIN writer.deletes
      kept == DeletedFiles(data_files, gone, s)
      left == DeleteFrom(inlined, gone, s)
      new == Holder(writer.inserts, s)
  IN  /\ writer.status = "open"
      /\ Unmoved(writer.deletes)
      /\ IF writer.file = NULL
         THEN Committed(kept, [left EXCEPT !.born = Extended(@, new.born)])
         ELSE Committed(Extended(kept, [f \in { writer.file } |-> DataFile(writer.inserts, s)]), left)
      /\ writer' = IF writer.compaction = "none" THEN Idle
                   ELSE [ status |-> "rewrite",
                          newer_than |-> IF writer.compaction = "all" THEN 0 ELSE s ]
      /\ UNCHANGED <<scheduled, next_file, sort_key_set, on_disk, maintenance, awaited, failures,
                     swept>>

\* A conflict, an error or the end of the process: no row is written; ROLLBACK
\* deletes the file written, the end of the process leaves it.
AbandonWrite(process_ends) ==
  /\ writer.status = "open"
  /\ writer' = Idle
  /\ on_disk' = IF process_ends THEN on_disk ELSE on_disk \ { writer.file }
  /\ swept' = swept \ { writer.file }
  /\ UNCHANGED <<catalog, maintenance, awaited, failures>>

-----------------------------------------------------------------------------
(* DuckLakeProcedures: each call is one transaction of DuckLake; it has no  *)
(* effect when there is nothing to do, or when a file it reads is missing   *)

Unstored == UNCHANGED <<catalog, on_disk>>

Sources(groups) == UNION Range(groups)
Feasible(groups) == groups # <<>> /\ Sources(groups) \subseteq on_disk

\* The files that a call writes, under the next ids.
NewFiles(outputs) == next_file .. next_file + Len(outputs) - 1
Numbered(outputs) == [f \in NewFiles(outputs) |-> outputs[f - next_file + 1]]

Reorganised(kept, outputs, in_catalog) ==
  /\ Committed(Extended(kept, Numbered(outputs)), in_catalog)
  /\ on_disk' = on_disk \cup NewFiles(outputs)
  /\ next_file' = next_file + Len(outputs)
  /\ UNCHANGED sort_key_set

\* The sources of a merge leave the catalog at once.
merge_files(newer_than, max_compacted_files) ==
  LET groups == Limited(MergeGroups(data_files, newer_than), max_compacted_files)
  IN  IF Feasible(groups)
      THEN /\ Reorganised(Restrict(data_files, DOMAIN data_files \ Sources(groups)),
                          [i \in 1 .. Len(groups) |-> MergedFile(data_files, groups[i])], inlined)
           /\ scheduled' = scheduled \cup Sources(groups)
      ELSE Unstored

\* The files rewritten stay for the snapshots before.
Ended(files, s) ==
  [f \in DOMAIN data_files |->
     IF f \in files THEN [data_files[f] EXCEPT !.end = s] ELSE data_files[f]]
rewrite_data_files(delete_threshold, max_compacted_files) ==
  LET groups == Limited(RewriteGroups(data_files, delete_threshold), max_compacted_files)
      s == snapshot + 1
  IN  IF Feasible(groups)
      THEN /\ Reorganised(Ended(Sources(groups), s),
                          [i \in 1 .. Len(groups) |->
                             DataFile(UNION { Live(data_files[f]) : f \in groups[i] }, s)],
                          inlined)
           /\ UNCHANGED scheduled
      ELSE Unstored

\* The rows flushed keep the snapshot that inserted them.
flush_inlined_data ==
  LET rows == Live(inlined)
      born == Restrict(inlined.born, rows)
      file == [born |-> born, gone |-> Stored({}, 0), begin |-> Min(Range(born)), end |-> NULL]
  IN  IF rows # {}
      THEN /\ Reorganised(data_files, <<file>>,
                          [inlined EXCEPT !.born = Restrict(@, DOMAIN @ \ rows)])
           /\ UNCHANGED scheduled
      ELSE Unstored

\* The data that no snapshot in kept needs leaves the catalog.
Retaining(kept) ==
  LET needed == { f \in DOMAIN data_files : \E s \in kept : ActiveAt(data_files[f], s) }
      rows == { r \in DOMAIN inlined.born : \E s \in kept : r \in RowsAt(inlined, s) }
  IN  /\ snapshots' = kept
      /\ data_files' = Restrict(data_files, needed)
      /\ inlined' = [ born |-> Restrict(inlined.born, rows),
                      gone |-> Restrict(inlined.gone, rows \cap DOMAIN inlined.gone) ]
      /\ scheduled' = scheduled \cup (DOMAIN data_files \ needed)
      /\ UNCHANGED <<snapshot, next_file, sort_key_set, on_disk>>

\* Mutant: the cutoff is now() + timedelta(days=older_than_days).
expire_snapshots_future(retention) == Retaining({ s \in snapshots : s > snapshot + retention })

\* The snapshots older than the retention, counted in snapshots.
expire_snapshots(retention) == Retaining({ s \in snapshots : s >= snapshot - retention })

\* Mutant: the files that the current snapshot does not read go too.
cleanup_files_current ==
  /\ on_disk' = on_disk \ (scheduled \cup (DOMAIN data_files \ Active(data_files)))
  /\ scheduled' = {}
  /\ UNCHANGED <<snapshot, snapshots, data_files, inlined, next_file, sort_key_set>>

cleanup_files ==
  /\ on_disk' = on_disk \ scheduled
  /\ scheduled' = {}
  /\ UNCHANGED <<snapshot, snapshots, data_files, inlined, next_file, sort_key_set>>

\* The files of the transaction the writer has open are not in the catalog yet.
Uncommitted == IF writer.status = "open" /\ writer.file # NULL THEN { writer.file } ELSE {}
Orphans == on_disk \ (DOMAIN data_files \cup scheduled)

\* Called without older_than.
delete_orphaned_files ==
  /\ on_disk' = on_disk \ Orphans
  /\ swept' = swept \cup (Orphans \cap Uncommitted)
  /\ UNCHANGED catalog

-----------------------------------------------------------------------------
(* compact: the writer rewrites, then merges; each swallows its failures,  *)
(* so a rewrite that failed is followed by the merge                       *)

DEFAULT_DELETE_THRESHOLD == 10

CompactRewrite ==
  /\ writer.status = "rewrite"
  /\ rewrite_data_files(DEFAULT_DELETE_THRESHOLD, NULL) \/ Unstored
  /\ writer' = [writer EXCEPT !.status = "merge"]
  /\ UNCHANGED <<maintenance, awaited, failures, swept>>

CompactMerge ==
  /\ writer.status = "merge"
  /\ merge_files(writer.newer_than, NULL)
  /\ writer' = Idle
  /\ UNCHANGED <<maintenance, awaited, failures, swept>>

\* The merge fails, or the process of the writer ends.
CompactStops ==
  /\ writer.status \in {"rewrite", "merge"}
  /\ writer' = Idle
  /\ UNCHANGED <<catalog, on_disk, maintenance, awaited, failures, swept>>

-----------------------------------------------------------------------------
(* maintain *)

policy == maintenance.policy
storage == maintenance.storage
Maintaining == maintenance.step # "idle"
At(step) == maintenance.step = step /\ ~ maintenance.stale
Measureless(step) == maintenance' = [ step |-> step, stale |-> FALSE, policy |-> policy,
                                      storage |-> Unmeasured ]
Goes(step) == maintenance' = [maintenance EXCEPT !.step = step, !.stale = FALSE]

StartMaintain(chosen) ==
  /\ ~ Maintaining
  /\ maintenance' = [ step |-> "flush", stale |-> TRUE, policy |-> chosen,
                      storage |-> Unmeasured ]
  /\ UNCHANGED <<catalog, on_disk, writer, awaited, failures, swept>>

\* measure(): at the start, and after a step that ran.
Measure ==
  /\ Maintaining /\ maintenance.stale
  /\ maintenance' = [maintenance EXCEPT
                       !.stale = FALSE,
                       !.storage = storage_report(data_files, inlined, policy.min_file_size)]
  /\ UNCHANGED <<catalog, on_disk, writer, awaited, failures, swept>>

\* A failure of a step, swallowed by the procedure or by run().
Fails == failures < MaxFailures /\ failures' = failures + 1 /\ Unstored

\* A step that is not justified, or that dry_run only plans.
Skip(step, justified, following) ==
  /\ At(step)
  /\ ~ justified \/ policy.dry_run
  /\ Goes(following)
  /\ UNCHANGED <<catalog, on_disk, writer, awaited, failures, swept>>

\* A step that runs; the storage is measured again whatever the procedure did.
Runs(step, justified, following) ==
  /\ At(step)
  /\ justified /\ ~ policy.dry_run
  /\ maintenance' = [maintenance EXCEPT !.step = following, !.stale = TRUE]
  /\ UNCHANGED <<writer, awaited, swept>>

\* Mutant: the rows are flushed only when a merge will follow.
flush_justified_merging ==
  policy.flush_inlined /\ storage.has_inlined_data
  /\ storage.small_file_count > policy.max_small_files
flush_justified == policy.flush_inlined /\ storage.has_inlined_data
rewrite_justified == storage.delete_file_count > 0
merge_justified == storage.small_file_count > policy.max_small_files
\* The table has a cluster_by, and its measure succeeds: the ratio is not None.
recluster_justified == policy.recluster /\ storage.overlap_ratio > policy.max_overlap_ratio

FlushStep ==
  \/ Skip("flush", flush_justified, "rewrite")
  \/ /\ Runs("flush", flush_justified, "rewrite")
     /\ (flush_inlined_data /\ UNCHANGED failures) \/ Fails

RewriteStep ==
  \/ Skip("rewrite", rewrite_justified, "merge")
  \/ /\ Runs("rewrite", rewrite_justified, "merge")
     /\ \/ /\ rewrite_data_files(policy.delete_threshold, policy.max_compacted_files)
           /\ UNCHANGED failures
        \/ Fails

MergeStep ==
  \/ Skip("merge", merge_justified, "recluster")
  \/ /\ Runs("merge", merge_justified, "recluster")
     /\ (merge_files(0, policy.max_compacted_files) /\ UNCHANGED failures) \/ Fails

-----------------------------------------------------------------------------
(* recluster: one transaction, then a merge; a failure raises, and maintain *)
(* goes on                                                                  *)

SkipRecluster ==
  /\ At("recluster")
  /\ ~ recluster_justified \/ policy.dry_run
  /\ Measureless("expire")
  /\ UNCHANGED <<catalog, on_disk, writer, awaited, failures, swept>>

\* BEGIN, SET SORTED BY where it differs, the copy of the table, DELETE and the
\* sorted INSERT.
ReclusterBegin ==
  LET files == Chunks(TableRows)
  IN  /\ At("recluster")
      /\ recluster_justified /\ ~ policy.dry_run
      /\ FilesAt(data_files, snapshot) \subseteq on_disk
      /\ maintenance' = [ step |-> "recluster_commit", stale |-> FALSE, policy |-> policy,
                          storage |-> Unmeasured,
                          moved |-> [r \in TableRows |->
                                       HolderOf(data_files, inlined, snapshot, r)],
                          files |-> Numbered(files) ]
      /\ on_disk' = on_disk \cup NewFiles(files)
      /\ next_file' = next_file + Len(files)
      /\ UNCHANGED <<snapshot, snapshots, data_files, inlined, scheduled, sort_key_set, writer,
                     awaited, failures, swept>>

\* Mutant: the copy is made before BEGIN, so that the transaction deletes rows
\* that it does not reinsert.
ReclusterCommit_late_begin ==
  LET s == snapshot + 1
      files == maintenance.files
  IN  /\ At("recluster_commit")
      /\ Committed(Extended(DeletedFiles(data_files, TableRows, s),
                            [f \in DOMAIN files |-> DataFile(files[f], s)]),
                   DeleteFrom(inlined, TableRows, s))
      /\ sort_key_set' = TRUE
      /\ Measureless("recluster_merge")
      /\ UNCHANGED <<scheduled, next_file, on_disk, writer, awaited, failures, swept>>

ReclusterCommit ==
  LET s == snapshot + 1
      moved == maintenance.moved
      files == maintenance.files
  IN  /\ At("recluster_commit")
      /\ Unmoved(moved)
      /\ Committed(Extended(DeletedFiles(data_files, DOMAIN moved, s),
                            [f \in DOMAIN files |-> DataFile(files[f], s)]),
                   DeleteFrom(inlined, DOMAIN moved, s))
      /\ sort_key_set' = TRUE
      /\ Measureless("recluster_merge")
      /\ UNCHANGED <<scheduled, next_file, on_disk, writer, awaited, failures, swept>>

\* The read failed, the commit conflicts, or a statement fails: ROLLBACK.
ReclusterFails ==
  /\ \/ /\ At("recluster")
        /\ recluster_justified /\ ~ policy.dry_run
        /\ ~ FilesAt(data_files, snapshot) \subseteq on_disk
        /\ UNCHANGED <<failures, on_disk>>
     \/ /\ At("recluster_commit")
        /\ ~ Unmoved(maintenance.moved)
        /\ on_disk' = on_disk \ DOMAIN maintenance.files
        /\ UNCHANGED failures
     \/ /\ At("recluster_commit")
        /\ failures < MaxFailures /\ failures' = failures + 1
        /\ on_disk' = on_disk \ DOMAIN maintenance.files
  /\ Measureless("expire")
  /\ UNCHANGED <<catalog, writer, awaited, swept>>

ReclusterMerge ==
  /\ At("recluster_merge")
  /\ Goes("expire")
  /\ (merge_files(0, NULL) /\ UNCHANGED failures) \/ Fails
  /\ UNCHANGED <<writer, awaited, swept>>

-----------------------------------------------------------------------------
(* The steps that cannot be undone *)

\* Mutant: dry_run is not passed to expire_snapshots.
ExpireStep_forced ==
  /\ At("expire")
  /\ Goes(IF policy.retention # NULL THEN "cleanup" ELSE "delete_orphaned")
  /\ \/ policy.retention = NULL /\ Unstored /\ UNCHANGED failures
     \/ policy.retention # NULL /\ expire_snapshots(policy.retention) /\ UNCHANGED failures
     \/ policy.retention # NULL /\ Fails
  /\ UNCHANGED <<writer, awaited, swept>>

ExpireStep ==
  /\ At("expire")
  /\ Goes(IF policy.retention # NULL THEN "cleanup" ELSE "delete_orphaned")
  /\ \/ /\ policy.retention = NULL \/ policy.dry_run
        /\ Unstored /\ UNCHANGED failures
     \/ /\ policy.retention # NULL /\ ~ policy.dry_run
        /\ expire_snapshots(policy.retention)
        /\ UNCHANGED failures
     \/ policy.retention # NULL /\ Fails
  /\ UNCHANGED <<writer, awaited, swept>>

CleanupStep ==
  /\ At("cleanup")
  /\ Goes("delete_orphaned")
  /\ \/ ~ policy.dry_run /\ cleanup_files /\ UNCHANGED failures
     \/ policy.dry_run /\ Unstored /\ UNCHANGED failures
     \/ Fails
  /\ UNCHANGED <<writer, awaited, swept>>

DeleteOrphanedStep ==
  /\ At("delete_orphaned")
  /\ maintenance' = [step |-> "idle"]
  /\ \/ /\ policy.delete_orphaned /\ ~ policy.dry_run
        /\ delete_orphaned_files /\ UNCHANGED failures
     \/ /\ ~ policy.delete_orphaned \/ policy.dry_run
        /\ Unstored /\ UNCHANGED <<failures, swept>>
     \/ policy.delete_orphaned /\ Fails /\ UNCHANGED swept
  /\ UNCHANGED <<writer, awaited>>

\* The process that maintains ends: the call is lost, its files stay.
MaintainStops ==
  /\ Maintaining
  /\ failures < MaxFailures /\ failures' = failures + 1
  /\ maintenance' = [step |-> "idle"]
  /\ UNCHANGED <<catalog, on_disk, writer, awaited, swept>>

-----------------------------------------------------------------------------
Write ==
  \/ \E request \in awaited : BeginWrite(request)
  \/ CommitWrite
  \/ \E process_ends \in BOOLEAN : AbandonWrite(process_ends)
  \/ CompactRewrite \/ CompactMerge \/ CompactStops

MaintainStep ==
  \/ Measure
  \/ FlushStep \/ RewriteStep \/ MergeStep
  \/ SkipRecluster \/ ReclusterBegin \/ ReclusterCommit \/ ReclusterFails \/ ReclusterMerge
  \/ ExpireStep \/ CleanupStep \/ DeleteOrphanedStep

Next ==
  \/ Write
  \/ \E chosen \in Policies : StartMaintain(chosen)
  \/ MaintainStep
  \/ MaintainStops

\* maintain is sequential code that ends; a planned maintenance is called again
\* and again (docs/maintenance.md); nothing is assumed of the writer.
Fairness == WF_vars(MaintainStep) /\ SF_vars(StartMaintain(PlannedPolicy))

Spec == Init /\ [][Next]_vars /\ Fairness

-----------------------------------------------------------------------------
(* Properties *)

\* The type invariant: what the procedures of src/dt_ducklake_manager/maintenance
\* keep of the catalog; the latest snapshot is never expired, and the files of
\* the catalog were all written.
StorageTypeOK ==
  /\ snapshots \subseteq 0..snapshot /\ snapshot \in snapshots
  /\ DOMAIN data_files \cup scheduled \cup on_disk \subseteq 1..(next_file - 1)
  /\ DOMAIN data_files \cap scheduled = {}
  /\ \A f \in DOMAIN data_files :
       /\ DOMAIN data_files[f].gone \subseteq DOMAIN data_files[f].born
       /\ data_files[f].begin \in 0..snapshot
       /\ data_files[f].end \in 0..snapshot \cup { NULL }
  /\ sort_key_set \in BOOLEAN
  /\ writer.status \in {"idle", "open", "rewrite", "merge"}
  /\ maintenance.step \in {"idle", "flush", "rewrite", "merge", "recluster", "recluster_commit",
                           "recluster_merge", "expire", "cleanup", "delete_orphaned"}

\* Maintenance is invisible to the readers: whatever maintain, recluster and
\* compact interleave with the writes, each retained snapshot keeps its rows, each
\* read once, each commit applies its own inserts and deletes to the latest one,
\* and only expiration forgets snapshots.  The files that delete_orphaned_files
\* took from an open transaction (see OnlySweptFilesAreMissing) are put aside.
Contents == [s \in snapshots |-> Scan(Rows, data_files, inlined, on_disk \cup swept, s)]
Requested == IF writer.status = "open"
             THEN [inserts |-> writer.inserts, deletes |-> DOMAIN writer.deletes]
             ELSE NULL
Logical == INSTANCE LogicalTable WITH contents <- Contents, requested <- Requested
MaintenanceIsInvisible == Logical!Spec

\* A file that a retained snapshot needs is on disk, unless delete_orphaned_files,
\* which maintain calls without older_than, deleted it between its writing and the
\* commit of its transaction.
OnlySweptFilesAreMissing ==
  \A s \in snapshots : FilesAt(data_files, s) \subseteq on_disk \cup swept

\* Every destructive behaviour is opt-in (MaintenancePolicy): a snapshot or a file
\* of a retained snapshot goes only in a call to maintain with a retention, or for
\* files outside the catalog with delete_orphaned, and never under dry_run, where
\* the call changes nothing at all.
Expiring == Maintaining /\ policy.retention # NULL /\ ~ policy.dry_run
Sweeping == Maintaining /\ policy.delete_orphaned /\ ~ policy.dry_run
SnapshotsStay == snapshots \subseteq snapshots' \/ Expiring
FilesStay == on_disk \cap (DOMAIN data_files \cup scheduled) \subseteq on_disk' \/ Expiring
PendingStays == Uncommitted \cap on_disk \subseteq on_disk' \/ writer' # writer \/ Sweeping
DryRunIsDry ==
  (Maintaining /\ maintenance' # maintenance /\ policy.dry_run) => UNCHANGED <<catalog, on_disk>>
OptIn == SnapshotsStay /\ FilesStay /\ PendingStays /\ DryRunIsDry
OptInOnly == [][OptIn]_vars

\* The storage that planned maintenance aims at: nothing left that its policy asks
\* for and a procedure could do.
Settled ==
  LET report == storage_report(data_files, inlined, PlannedPolicy.min_file_size)
  IN  /\ ~ report.has_inlined_data
      /\ RewriteGroups(data_files, PlannedPolicy.delete_threshold) = <<>>
      /\ \/ report.small_file_count <= PlannedPolicy.max_small_files
         \/ MergeGroups(data_files, 0) = <<>>
      /\ report.overlap_ratio <= PlannedPolicy.max_overlap_ratio

\* Planned maintenance converges: whatever the writer left, however maintain was
\* interrupted, its calls end with a storage that needs nothing, and stays so,
\* unless delete_orphaned_files has destroyed a file.
StorageSettles == <>[](Settled \/ swept # {})
=============================================================================
