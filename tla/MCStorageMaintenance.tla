------------------------ MODULE MCStorageMaintenance ------------------------
(* Policies of maintain for StorageMaintenance. *)
EXTENDS StorageMaintenance

\* The planned maintenance, one compaction at a time.
MCPlanned ==
  [ flush_inlined |-> TRUE, delete_threshold |-> 40, min_file_size |-> 2, max_small_files |-> 1,
    max_compacted_files |-> 1, recluster |-> TRUE, max_overlap_ratio |-> 50, retention |-> 1,
    delete_orphaned |-> FALSE, dry_run |-> FALSE ]

\* MaintenancePolicy(), in which nothing is destructive.
MCDefault == [MCPlanned EXCEPT !.recluster = FALSE, !.retention = NULL,
                               !.max_compacted_files = NULL]

\* After an incident; and the same, only listed.
MCIncident == [MCDefault EXCEPT !.flush_inlined = FALSE, !.delete_orphaned = TRUE]
MCDryRun == [MCPlanned EXCEPT !.delete_orphaned = TRUE, !.dry_run = TRUE]

MCPolicies == { MCPlanned, MCIncident, MCDryRun }

\* Two of the four rows have the same value in the first sort column: files may share
\* a boundary value, or have one and the same range.
MCSortValue == <<1, 2, 2, 3>>

\* A build, an inlined insert whose range overlaps it, and an upsert that
\* replaces rows of both.
MCRequests ==
  { [inserts |-> {1, 4}, deletes |-> {}, inlining |-> FALSE, compaction |-> "none"],
    [inserts |-> {2}, deletes |-> {}, inlining |-> TRUE, compaction |-> "window"],
    [inserts |-> {3}, deletes |-> {1, 2}, inlining |-> FALSE, compaction |-> "all"] }
=============================================================================
