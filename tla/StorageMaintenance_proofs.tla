---------------------- MODULE StorageMaintenance_proofs ----------------------
(***************************************************************************)
(* Maintenance never harms what a table holds, for any rows, policies,     *)
(* requests and number of failures.                                        *)
(***************************************************************************)
EXTENDS StorageMaintenance, NaturalSets, SequenceTheorems, FiniteSetTheorems

-----------------------------------------------------------------------------
(* The groups of files that a procedure rewrites: nonempty and disjoint     *)

IsGrouping(groups, candidates) ==
  /\ groups \in Seq((SUBSET candidates) \ {{}})
  /\ \A i, j \in DOMAIN groups : i # j => groups[i] \cap groups[j] = {}

LEMMA EmptyGrouping == ASSUME NEW candidates PROVE IsGrouping(<<>>, candidates)
BY DEF IsGrouping

\* What the packing does with one more file.
Added(files, groups, f) ==
  IF groups # <<>> /\ Cardinality(UNION { Live(files[g]) : g \in Last(groups) \cup {f} }) <= TargetFileSize
  THEN [groups EXCEPT ![Len(groups)] = @ \cup {f}]
  ELSE Append(groups, {f})

IsPacking(packed, files, candidates, last) ==
  packed = [id \in 0 .. last |->
              IF id = 0 THEN <<>>
              ELSE IF id \in candidates THEN Added(files, packed[id - 1], id) ELSE packed[id - 1]]

LEMMA AddedTyped ==
  ASSUME NEW S, NEW files, NEW groups \in Seq(S), NEW f, {f} \in S,
         \A group \in S : group \cup {f} \in S
  PROVE  Added(files, groups, f) \in Seq(S)
<1>1. groups # <<>> => Len(groups) \in 1 .. Len(groups) /\ groups[Len(groups)] \in S
  OBVIOUS
<1>2. groups # <<>> => [groups EXCEPT ![Len(groups)] = @ \cup {f}] \in Seq(S)
  BY <1>1
<1> QED BY <1>2 DEF Added

LEMMA AddedGroups ==
  ASSUME NEW files, NEW candidates, NEW groups, IsGrouping(groups, candidates), NEW f, f \notin candidates
  PROVE  IsGrouping(Added(files, groups, f), candidates \cup {f})
<1> DEFINE S == (SUBSET (candidates \cup {f})) \ {{}}
           n == Len(groups)
           wider == [groups EXCEPT ![n] = @ \cup {f}]
           longer == Append(groups, {f})
<1>1. groups \in Seq(S)
  <2>1. (SUBSET candidates) \ {{}} \subseteq S
    OBVIOUS
  <2> QED BY <2>1 DEF IsGrouping
<1>2. Added(files, groups, f) \in Seq(S)
  BY <1>1, AddedTyped
<1>3. /\ n \in Nat /\ DOMAIN groups = 1 .. n
      /\ \A i \in 1 .. n : groups[i] \subseteq candidates
      /\ \A i, j \in 1 .. n : i # j => groups[i] \cap groups[j] = {}
  BY DEF IsGrouping
<1>4. ASSUME groups # <<>>, NEW i \in DOMAIN wider, NEW j \in DOMAIN wider, i # j
      PROVE  wider[i] \cap wider[j] = {}
  BY <1>3, <1>4
<1>5. ASSUME NEW i \in DOMAIN longer, NEW j \in DOMAIN longer, i # j
      PROVE  longer[i] \cap longer[j] = {}
  <2>1. DOMAIN longer = 1 .. n + 1 /\ longer[n + 1] = {f} /\ \A k \in 1 .. n : longer[k] = groups[k]
    BY <1>1
  <2> QED BY <1>3, <1>5, <2>1
<1> QED BY <1>2, <1>4, <1>5 DEF Added, IsGrouping

LEMMA GreatestId ==
  ASSUME NEW N \in Nat, NEW ids \in SUBSET (1 .. N)
  PROVE  Max(ids \cup {0}) \in 0 .. N /\ ids \subseteq 1 .. Max(ids \cup {0})
<1>1. ids \cup {0} \in SUBSET (0 .. N)
  OBVIOUS
<1>2. \E n \in ids \cup {0} : \A m \in ids \cup {0} : m <= n
  BY <1>1, GreatestNatural
<1>3. /\ Max(ids \cup {0}) \in ids \cup {0}
      /\ \A m \in ids \cup {0} : m <= Max(ids \cup {0})
  BY <1>1, <1>2 DEF Max
<1> DEFINE last == Max(ids \cup {0})
<1> HIDE DEF last
<1>4. last \in 0 .. N /\ \A m \in ids : m \in 1 .. N /\ m <= last
  BY <1>1, <1>3 DEF last
<1>5. last \in 0 .. N /\ ids \subseteq 1 .. last
  BY <1>4
<1> QED BY <1>5 DEF last

LEMMA PackedGroups ==
  ASSUME NEW files, NEW N \in Nat, NEW candidates \in SUBSET (1 .. N)
  PROVE  IsGrouping(Packed(files, candidates), candidates)
<1> DEFINE last == Max(candidates \cup {0})
           S == (SUBSET candidates) \ {{}}
           step == [id \in 1 .. last |-> [groups \in Seq(S) |->
                      IF id \in candidates THEN Added(files, groups, id) ELSE groups]]
           packed == CHOOSE p : IsPacking(p, files, candidates, last)
<1>1. last \in Nat /\ candidates \subseteq 1 .. last
  BY GreatestId
<1>2. Packed(files, candidates) = packed[last]
  BY DEF Packed, IsPacking, Added
<1> HIDE DEF last
<1>3. \E p : IsPacking(p, files, candidates, last)
  <2>1. \A id \in 1 .. last, groups \in Seq(S) :
          /\ step[id][groups] = IF id \in candidates THEN Added(files, groups, id) ELSE groups
          /\ step[id][groups] \in Seq(S)
    <3>1. \A id \in candidates : {id} \in S /\ \A group \in S : group \cup {id} \in S
      OBVIOUS
    <3> HIDE DEF S
    <3> QED BY <3>1, AddedTyped
  <2>2. <<>> \in Seq(S)
    OBVIOUS
  <2> HIDE DEF S, step
  <2>3. PICK p \in [0 .. last -> Seq(S)] : IsIteration(p, last, <<>>, step)
    BY <1>1, <2>1, <2>2, Recursion
  <2>4. \A id \in 0 .. last : id # 0 => id \in 1 .. last /\ p[id - 1] \in Seq(S)
    BY <1>1
  <2>5. p = [id \in 0 .. last |-> IF id = 0 THEN <<>> ELSE step[id][p[id - 1]]]
    BY <2>3 DEF IsIteration
  <2>6. IsPacking(p, files, candidates, last)
    BY <2>1, <2>4, <2>5 DEF IsPacking
  <2> QED BY <2>6
<1>4. IsPacking(packed, files, candidates, last)
  BY <1>3
<1> HIDE DEF packed
<1> DEFINE T == {id \in 0 .. last : IsGrouping(packed[id], candidates \cap (1 .. id))}
<1>5. 0 \in T
  <2>1. packed[0] = <<>> /\ 0 \in 0 .. last
    BY <1>1, <1>4 DEF IsPacking
  <2> QED BY <2>1, EmptyGrouping
<1>6. ASSUME NEW n \in 0 .. last - 1, n \in T
      PROVE  n + 1 \in T
  <2>1. n + 1 \in 0 .. last /\ n + 1 # 0 /\ (n + 1) - 1 = n
    BY <1>1
  <2>2. packed[n + 1] = IF n + 1 \in candidates THEN Added(files, packed[n], n + 1) ELSE packed[n]
    BY <1>4, <2>1 DEF IsPacking
  <2>3. IsGrouping(packed[n], candidates \cap (1 .. n))
    BY <1>6
  <2>4. CASE n + 1 \in candidates
    <3>1. n + 1 \notin candidates \cap (1 .. n)
      BY <1>1
    <3>2. (candidates \cap (1 .. n)) \cup {n + 1} = candidates \cap (1 .. n + 1)
      BY <1>1, <2>4
    <3>3. IsGrouping(Added(files, packed[n], n + 1), (candidates \cap (1 .. n)) \cup {n + 1})
      BY <2>3, <3>1, AddedGroups
    <3> QED BY <2>1, <2>2, <2>4, <3>2, <3>3
  <2>5. CASE n + 1 \notin candidates
    <3>1. candidates \cap (1 .. n) = candidates \cap (1 .. n + 1)
      BY <1>1, <2>5
    <3> QED BY <2>1, <2>2, <2>3, <2>5, <3>1
  <2> QED BY <2>4, <2>5
<1> HIDE DEF T
<1>7. last \in T
  <2>1. last \in Nat
    BY <1>1
  <2>2. 0 .. last \subseteq T
    BY <1>5, <1>6, <2>1, Induction
  <2> QED BY <2>1, <2>2
<1>8. candidates \cap (1 .. last) = candidates
  BY <1>1
<1> QED BY <1>2, <1>7, <1>8 DEF T

IsSelection(kept, groups) ==
  kept = [n \in 0 .. Len(groups) |->
            IF n = 0 THEN <<>>
            ELSE IF Cardinality(groups[n]) > 1 THEN Append(kept[n - 1], groups[n]) ELSE kept[n - 1]]

LEMMA SeveralGroups ==
  ASSUME NEW candidates, NEW groups, IsGrouping(groups, candidates)
  PROVE  IsGrouping(Several(groups), candidates)
<1> DEFINE S    == (SUBSET candidates) \ {{}}
           last == Len(groups)
           step == [n \in 1 .. last |-> [seq \in Seq(S) |->
                      IF Cardinality(groups[n]) > 1 THEN Append(seq, groups[n]) ELSE seq]]
           kept == CHOOSE k : IsSelection(k, groups)
<1>1. /\ last \in Nat /\ DOMAIN groups = 1 .. last /\ \A n \in 1 .. last : groups[n] \in S
      /\ \A i, j \in 1 .. last : i # j => groups[i] \cap groups[j] = {}
  BY DEF IsGrouping
<1>2. Several(groups) = kept[last]
  BY DEF Several, IsSelection
<1>3. \E k : IsSelection(k, groups)
  <2> HIDE DEF S
  <2>1. \A n \in 1 .. last, seq \in Seq(S) :
          /\ step[n][seq] = IF Cardinality(groups[n]) > 1 THEN Append(seq, groups[n]) ELSE seq
          /\ step[n][seq] \in Seq(S)
    BY <1>1
  <2>2. <<>> \in Seq(S)
    OBVIOUS
  <2> HIDE DEF step, last
  <2>3. PICK k \in [0 .. last -> Seq(S)] : IsIteration(k, last, <<>>, step)
    BY <1>1, <2>1, <2>2, Recursion
  <2>4. \A n \in 0 .. last : n # 0 => n \in 1 .. last /\ k[n - 1] \in Seq(S)
    BY <1>1
  <2>5. k = [n \in 0 .. last |-> IF n = 0 THEN <<>> ELSE step[n][k[n - 1]]]
    BY <2>3 DEF IsIteration
  <2>6. IsSelection(k, groups)
    BY <2>1, <2>4, <2>5 DEF IsSelection, last
  <2> QED BY <2>6
<1>4. IsSelection(kept, groups)
  BY <1>3
<1> HIDE DEF kept
<1> DEFINE Chosen(n) == /\ kept[n] \in Seq({groups[i] : i \in 1 .. n})
                        /\ \A i, j \in DOMAIN kept[n] : i # j => kept[n][i] \cap kept[n][j] = {}
           T == {n \in 0 .. last : Chosen(n)}
<1> HIDE DEF last
<1>5. 0 \in T
  <2>1. kept[0] = <<>> /\ 0 \in 0 .. last
    BY <1>1, <1>4 DEF IsSelection, last
  <2>2. \A X : <<>> \in Seq(X)
    OBVIOUS
  <2>3. DOMAIN <<>> = {}
    OBVIOUS
  <2>4. Chosen(0)
    BY <2>1, <2>2, <2>3
  <2> QED BY <2>1, <2>4
<1>6. ASSUME NEW n \in 0 .. last - 1, n \in T
      PROVE  n + 1 \in T
  <2> DEFINE before == kept[n]
             G(k)   == {groups[i] : i \in 1 .. k}
             longer == Append(before, groups[n + 1])
  <2>1. n \in Nat /\ n + 1 \in 1 .. last /\ n + 1 # 0 /\ (n + 1) - 1 = n
    BY <1>1
  <2>2. kept[n + 1] = IF Cardinality(groups[n + 1]) > 1 THEN longer ELSE before
    <3>1. n + 1 \in 0 .. last
      BY <1>1
    <3> QED BY <1>4, <2>1, <3>1 DEF IsSelection, last
  <2>3. /\ before \in Seq(G(n))
        /\ \A i, j \in DOMAIN before : i # j => before[i] \cap before[j] = {}
    BY <1>6
  <2>4. G(n) \subseteq G(n + 1) /\ groups[n + 1] \in G(n + 1)
        /\ \A group \in G(n) : group \cap groups[n + 1] = {}
    <3>1. \A i \in 1 .. n : i \in 1 .. n + 1 /\ i \in 1 .. last /\ i # n + 1
      BY <1>1, <2>1
    <3>2. n + 1 \in 1 .. n + 1
      BY <2>1
    <3> QED BY <1>1, <2>1, <3>1, <3>2
  <2> HIDE DEF before, G
  <2>5. before \in Seq(G(n + 1)) /\ longer \in Seq(G(n + 1))
    BY <2>3, <2>4
  <2>6. \A i, j \in DOMAIN longer : i # j => longer[i] \cap longer[j] = {}
    <3> DEFINE m == Len(before)
    <3>1. m \in Nat /\ DOMAIN before = 1 .. m /\ DOMAIN longer = 1 .. m + 1
          /\ longer[m + 1] = groups[n + 1]
          /\ \A i \in 1 .. m : longer[i] = before[i] /\ before[i] \in G(n)
      BY <2>3
    <3> HIDE DEF longer, m
    <3>2. \A i \in 1 .. m + 1 : i \in 1 .. m \/ i = m + 1
      BY <3>1
    <3> QED BY <2>3, <2>4, <3>1, <3>2
  <2>7. Chosen(n + 1)
    BY <2>2, <2>3, <2>5, <2>6 DEF before, G
  <2> QED BY <1>1, <2>7
<1> HIDE DEF T
<1>7. last \in T
  <2>1. last \in Nat
    BY <1>1
  <2>2. 0 .. last \subseteq T
    BY <1>5, <1>6, <2>1, Induction
  <2> QED BY <2>1, <2>2
<1>8. Chosen(last)
  BY <1>7 DEF T
<1>9. {groups[i] : i \in 1 .. last} \subseteq S
  BY <1>1
<1>10. kept[last] \in Seq(S)
  <2> HIDE DEF S
  <2> QED BY <1>8, <1>9
<1> QED BY <1>2, <1>8, <1>10 DEF IsGrouping

LEMMA LimitedGroups ==
  ASSUME NULL \notin Nat, NEW candidates, NEW groups, IsGrouping(groups, candidates),
         NEW max_compacted_files \in (Nat \ {0}) \cup { NULL }
  PROVE  IsGrouping(Limited(groups, max_compacted_files), candidates)
<1> DEFINE S == (SUBSET candidates) \ {{}}
<1>1. CASE Limited(groups, max_compacted_files) = groups
  BY <1>1
<1>2. CASE Limited(groups, max_compacted_files) # groups
  <2> DEFINE m == max_compacted_files
             short == SubSeq(groups, 1, m)
  <2> HIDE DEF S
  <2>1. m \in Nat /\ m < Len(groups) /\ Len(groups) \in Nat /\ DOMAIN groups = 1 .. Len(groups)
        /\ Limited(groups, m) = short
    BY <1>2 DEF Limited, IsGrouping, S
  <2>2. groups \in Seq(S)
    BY DEF IsGrouping, S
  <2>3. short \in Seq(S) /\ DOMAIN short = 1 .. m /\ \A i \in 1 .. m : short[i] = groups[i]
    BY <2>1, <2>2
  <2>4. \A i \in 1 .. m : i \in DOMAIN groups
    BY <2>1
  <2> HIDE DEF short
  <2> QED BY <2>1, <2>3, <2>4 DEF IsGrouping, S
<1> QED BY <1>1, <1>2

-----------------------------------------------------------------------------
(* The catalog: stamps are snapshots of the past, and a file holds no row   *)
(* inserted before it begins                                                *)

Stamped(stamps, last) ==
  DOMAIN stamps \subseteq Rows /\ \A r \in DOMAIN stamps : stamps[r] \in 0 .. last

HolderAt(holder, last) ==
  /\ {"born", "gone"} \subseteq DOMAIN holder
  /\ Stamped(holder.born, last) /\ Stamped(holder.gone, last)

FileAt(file, last) ==
  /\ HolderAt(file, last)
  /\ {"begin", "end"} \subseteq DOMAIN file
  /\ DOMAIN file.gone \subseteq DOMAIN file.born
  /\ file.begin \in 0 .. last
  /\ file.end \in 0 .. last \cup { NULL }
  /\ \A r \in DOMAIN file.born : file.begin <= file.born[r]

LEMMA LaterHolder ==
  ASSUME NEW last \in Nat, NEW holder, HolderAt(holder, last)
  PROVE  HolderAt(holder, last + 1)
BY DEF HolderAt, Stamped

LEMMA LaterFile ==
  ASSUME NEW last \in Nat, NEW file, FileAt(file, last)
  PROVE  FileAt(file, last + 1)
BY LaterHolder DEF FileAt

LEMMA NewFile ==
  ASSUME NEW s \in Nat, NEW rows \in SUBSET Rows
  PROVE  FileAt(DataFile(rows, s), s)
BY DEF FileAt, HolderAt, Stamped, DataFile, Stored

LEMMA DeletedHolder ==
  ASSUME NEW last \in Nat, NEW holder, HolderAt(holder, last), NEW rows
  PROVE  /\ HolderAt(DeleteFrom(holder, rows, last + 1), last + 1)
         /\ DOMAIN DeleteFrom(holder, rows, last + 1) = DOMAIN holder
         /\ DeleteFrom(holder, rows, last + 1).born = holder.born
         /\ DeleteFrom(holder, rows, last + 1).gone
              = Extended(holder.gone, Stored(rows \cap Live(holder), last + 1))
         /\ "begin" \in DOMAIN holder => DeleteFrom(holder, rows, last + 1).begin = holder.begin
         /\ "end" \in DOMAIN holder => DeleteFrom(holder, rows, last + 1).end = holder.end
<1> DEFINE gone == Extended(holder.gone, Stored(rows \cap Live(holder), last + 1))
<1>1. DeleteFrom(holder, rows, last + 1) = [holder EXCEPT !.gone = gone]
  BY DEF DeleteFrom
<1>2. Stamped(gone, last + 1)
  BY DEF Extended, Stored, Stamped, HolderAt, Live
<1> HIDE DEF gone
<1>3. Stamped(holder.born, last + 1)
  BY DEF Stamped, HolderAt
<1> QED BY <1>1, <1>2, <1>3 DEF HolderAt, gone

LEMMA DeletedFile ==
  ASSUME NEW last \in Nat, NEW files, \A f \in DOMAIN files : FileAt(files[f], last), NEW rows,
         NEW f \in DOMAIN files
  PROVE  FileAt(DeletedFiles(files, rows, last + 1)[f], last + 1)
<1> DEFINE file    == files[f]
           deleted == DeletedFiles(files, rows, last + 1)[f]
<1>1. deleted = IF file.end # NULL \/ rows \cap Live(file) = {} THEN file
                ELSE IF Live(file) \subseteq rows THEN [file EXCEPT !.end = last + 1]
                ELSE DeleteFrom(file, rows, last + 1)
  BY DEF DeletedFiles
<1>2. FileAt(file, last) /\ FileAt(file, last + 1)
  BY LaterFile
<1> HIDE DEF file, deleted
<1>3. FileAt([file EXCEPT !.end = last + 1], last + 1)
  BY <1>2 DEF FileAt, HolderAt
<1>4. FileAt(DeleteFrom(file, rows, last + 1), last + 1)
  <2> DEFINE shorter == DeleteFrom(file, rows, last + 1)
  <2>1. HolderAt(file, last) /\ {"begin", "end"} \subseteq DOMAIN file
    BY <1>2 DEF FileAt
  <2>2. /\ HolderAt(shorter, last + 1) /\ DOMAIN shorter = DOMAIN file
        /\ shorter.born = file.born
        /\ shorter.gone = Extended(file.gone, Stored(rows \cap Live(file), last + 1))
        /\ shorter.begin = file.begin /\ shorter.end = file.end
    BY <2>1, DeletedHolder
  <2> HIDE DEF shorter
  <2>3. DOMAIN shorter.gone \subseteq DOMAIN file.born
    BY <1>2, <2>2 DEF FileAt, Extended, Stored, Live
  <2> QED BY <1>2, <2>1, <2>2, <2>3 DEF FileAt, shorter
<1> QED BY <1>1, <1>2, <1>3, <1>4 DEF deleted

LEMMA LeastOf ==
  ASSUME NEW T \in SUBSET Nat, T # {}
  PROVE  Min(T) \in T /\ \A n \in T : Min(T) <= n
BY LeastNatural DEF Min

LEMMA MergedTyped ==
  ASSUME NEW last \in Nat, NEW files, \A f \in DOMAIN files : FileAt(files[f], last),
         NEW group \in (SUBSET DOMAIN files) \ {{}}
  PROVE  FileAt(MergedFile(files, group), last)
<1> DEFINE begins == {files[f].begin : f \in group}
           merged == MergedFile(files, group)
           Source(r) == CHOOSE f \in group : r \in DOMAIN files[f].born
           rows == UNION {DOMAIN files[f].born : f \in group}
<1>1. begins \in SUBSET Nat /\ begins # {} /\ begins \subseteq 0 .. last
  BY DEF FileAt
<1>2. Min(begins) \in 0 .. last /\ \A f \in group : Min(begins) <= files[f].begin
  BY <1>1, LeastOf
<1>3. merged = [ born |-> [r \in rows |-> files[Source(r)].born[r]], gone |-> Stored({}, 0),
                 begin |-> Min(begins), end |-> NULL ]
  BY DEF MergedFile
<1>4. \A r \in rows : Source(r) \in group /\ r \in DOMAIN files[Source(r)].born
  OBVIOUS
<1> HIDE DEF begins, merged, Source
<1>5. \A r \in rows : /\ r \in Rows
                      /\ files[Source(r)].born[r] \in 0 .. last
                      /\ Min(begins) <= files[Source(r)].born[r]
  BY <1>2, <1>4 DEF FileAt, HolderAt, Stamped
<1> HIDE DEF rows
<1> QED BY <1>2, <1>3, <1>5 DEF FileAt, HolderAt, Stamped, Stored, merged

-----------------------------------------------------------------------------
(* The inductive invariant *)

Steps == {"idle", "flush", "rewrite", "merge", "recluster", "recluster_commit",
          "recluster_merge", "expire", "cleanup", "delete_orphaned"}

Catalog ==
  /\ snapshot \in Nat /\ snapshots \subseteq 0 .. snapshot /\ snapshot \in snapshots
  /\ next_file \in Nat \ {0}
  /\ sort_key_set \in BOOLEAN
  /\ \A f \in DOMAIN data_files : FileAt(data_files[f], snapshot)
  /\ HolderAt(inlined, snapshot)

\* The files have an id; those of the catalog are not scheduled for deletion, and
\* are on disk or were swept.
Files ==
  /\ DOMAIN data_files \cup scheduled \cup on_disk \subseteq 1 .. next_file - 1
  /\ DOMAIN data_files \cap scheduled = {}
  /\ DOMAIN data_files \subseteq on_disk \cup swept

\* The files that a recluster has written and not committed yet.
Reclustered == IF maintenance.step = "recluster_commit" THEN DOMAIN maintenance.files ELSE {}

\* The files of the open transactions: written or swept, outside the catalog, and
\* not shared.
Pending ==
  /\ Uncommitted \cup Reclustered \subseteq (on_disk \cup swept) \cap (1 .. next_file - 1)
  /\ (Uncommitted \cup Reclustered) \cap (DOMAIN data_files \cup scheduled) = {}
  /\ Uncommitted \cap Reclustered = {}

Writer ==
  /\ awaited \subseteq Requests
  /\ \/ writer = Idle
     \/ /\ writer.status = "open"
        /\ writer.inserts \subseteq Rows /\ DOMAIN writer.deletes \subseteq Rows
     \/ writer.status \in {"rewrite", "merge"} /\ "status" \in DOMAIN writer

Maintenance ==
  /\ maintenance.step \in Steps
  /\ Maintaining => /\ {"step", "stale", "policy", "storage"} \subseteq DOMAIN maintenance
                    /\ policy \in Policies
  /\ maintenance.step = "cleanup" => policy.retention # NULL
  /\ maintenance.step \in {"recluster_commit", "recluster_merge"} => ~ policy.dry_run
  /\ maintenance.step = "recluster_commit" =>
       /\ DOMAIN maintenance.files \subseteq Nat
       /\ \A f \in DOMAIN maintenance.files : maintenance.files[f] \subseteq Rows

IInv == Catalog /\ Files /\ Pending /\ Writer /\ Maintenance

LEMMA InvariantTypes == IInv => StorageTypeOK /\ OnlySweptFilesAreMissing
<1> SUFFICES ASSUME IInv PROVE StorageTypeOK /\ OnlySweptFilesAreMissing
  OBVIOUS
<1>1. \A f \in DOMAIN data_files :
        /\ DOMAIN data_files[f].gone \subseteq DOMAIN data_files[f].born
        /\ data_files[f].begin \in 0 .. snapshot
        /\ data_files[f].end \in 0 .. snapshot \cup { NULL }
  BY DEF IInv, Catalog, FileAt
<1>2. writer.status \in {"idle", "open", "rewrite", "merge"}
  BY DEF IInv, Writer, Idle
<1>3. StorageTypeOK
  BY <1>1, <1>2 DEF IInv, Catalog, Files, Maintenance, Steps, StorageTypeOK
<1>4. OnlySweptFilesAreMissing
  BY DEF IInv, Files, OnlySweptFilesAreMissing, FilesAt
<1> QED BY <1>3, <1>4

LEMMA InitInvariant == Init => IInv
<1> SUFFICES ASSUME Init PROVE IInv
  OBVIOUS
<1>1. Catalog
  <2>1. DOMAIN data_files = {} /\ HolderAt(inlined, snapshot)
    BY DEF Init, Holder, Stored, HolderAt, Stamped
  <2>2. snapshot = 0 /\ snapshots = {0} /\ next_file = 1 /\ sort_key_set = FALSE
    BY DEF Init
  <2>3. /\ snapshot \in Nat /\ snapshots \subseteq 0 .. snapshot /\ snapshot \in snapshots
    BY <2>2
  <2>4. next_file \in Nat \ {0} /\ sort_key_set \in BOOLEAN
    <3>1. next_file \in Nat \ {0}
      BY <2>2
    <3> QED BY <2>2, <3>1, Zenon
  <2>5. \A f \in DOMAIN data_files : FileAt(data_files[f], snapshot)
    BY <2>1
  <2> QED BY <2>1, <2>3, <2>4, <2>5 DEF Catalog
<1>2. Files /\ Pending /\ Writer /\ Maintenance
  BY DEF Init, Files, Pending, Writer, Maintenance, Steps, Maintaining, Uncommitted, Reclustered,
         Idle, Stored
<1> QED BY <1>1, <1>2 DEF IInv

-----------------------------------------------------------------------------
(* The procedures *)

LEMMA Listed ==
  ASSUME NEW n \in Nat, NEW S, NEW list \in [1 .. n -> S]
  PROVE  list \in Seq(S) /\ Len(list) = n
<1>1. list \in Seq(S)
  BY SeqDef
<1>2. Len(list) \in Nat /\ 1 .. Len(list) = 1 .. n
  BY <1>1, LenProperties
<1>3. Len(list) = n
  BY ONLY <1>2, n \in Nat
<1> QED BY <1>1, <1>3

\* What a procedure that only adds and replaces files does to the catalog.
NewIds == next_file .. next_file' - 1
Adds ==
  /\ Catalog'
  /\ next_file <= next_file'
  /\ snapshots \subseteq snapshots'
  /\ DOMAIN data_files' \subseteq DOMAIN data_files \cup NewIds
  /\ on_disk' = on_disk \cup NewIds
  /\ scheduled \subseteq scheduled' /\ scheduled' \subseteq scheduled \cup DOMAIN data_files
  /\ DOMAIN data_files' \cap scheduled' = {}

\* What every step but the sweep of the orphans does to the files.
KeepsFiles ==
  /\ Catalog'
  /\ next_file <= next_file'
  /\ DOMAIN data_files' \subseteq DOMAIN data_files \cup NewIds
  /\ scheduled' \subseteq scheduled \cup DOMAIN data_files
  /\ DOMAIN data_files' \cap scheduled' = {}
  /\ on_disk' \subseteq on_disk \cup NewIds /\ NewIds \subseteq on_disk'
  /\ (on_disk \cup swept) \ scheduled \subseteq on_disk' \cup swept'

LEMMA FilesKept ==
  ASSUME IInv, KeepsFiles, Uncommitted' \subseteq Uncommitted, Reclustered' \subseteq Reclustered
  PROVE  Files' /\ Pending'
<1>1. next_file \in Nat \ {0} /\ next_file' \in Nat \ {0} /\ next_file <= next_file'
  BY DEF IInv, Catalog, KeepsFiles
<1>2. /\ 1 .. next_file - 1 \subseteq 1 .. next_file' - 1 /\ NewIds \subseteq 1 .. next_file' - 1
      /\ NewIds \cap (1 .. next_file - 1) = {}
  <2>1. \A a, b \in Nat \ {0} : a <= b =>
          /\ 1 .. a - 1 \subseteq 1 .. b - 1 /\ a .. b - 1 \subseteq 1 .. b - 1
          /\ (a .. b - 1) \cap (1 .. a - 1) = {}
    OBVIOUS
  <2> QED BY <1>1, <2>1 DEF NewIds
<1> HIDE DEF NewIds
<1>3. Files'
  BY <1>2 DEF IInv, Files, KeepsFiles
<1>4. Pending'
  BY <1>2 DEF IInv, Files, Pending, KeepsFiles
<1> QED BY <1>3, <1>4

LEMMA AddsKeepsFiles ==
  ASSUME Adds, swept' = swept
  PROVE  KeepsFiles
BY DEF Adds, KeepsFiles

LEMMA UnstoredAdds ==
  ASSUME IInv, Unstored
  PROVE  Adds
<1>1. next_file \in Nat /\ next_file' = next_file
  BY DEF IInv, Catalog, Unstored, catalog
<1>2. NewIds = {}
  BY <1>1 DEF NewIds
<1>3. Catalog'
  BY DEF IInv, Catalog, Unstored, catalog
<1>4. scheduled' = scheduled /\ data_files' = data_files /\ on_disk' = on_disk /\ snapshots' = snapshots
  BY DEF Unstored, catalog
<1> QED BY <1>1, <1>2, <1>3, <1>4 DEF Adds, IInv, Files

LEMMA ReorganisedAdds ==
  ASSUME Catalog,
         NEW kept, \A f \in DOMAIN kept : FileAt(kept[f], snapshot + 1),
         NEW n \in Nat, NEW S, NEW outputs \in [1 .. n -> S],
         \A i \in 1 .. n : FileAt(outputs[i], snapshot + 1),
         NEW in_catalog, HolderAt(in_catalog, snapshot + 1),
         Reorganised(kept, outputs, in_catalog)
  PROVE  /\ Catalog'
         /\ next_file' = next_file + n
         /\ snapshots \subseteq snapshots'
         /\ DOMAIN data_files' = DOMAIN kept \cup NewIds
         /\ on_disk' = on_disk \cup NewIds
<1>1. Len(outputs) = n
  BY Listed
<1>2. next_file' = next_file + n /\ NewFiles(outputs) = NewIds
  <2>1. next_file' = next_file + n
    BY <1>1 DEF Reorganised
  <2>2. NewFiles(outputs) = next_file .. next_file + n - 1
    BY <1>1 DEF NewFiles
  <2>3. next_file' - 1 = next_file + n - 1
    BY <2>1 DEF Catalog
  <2>4. NewIds = next_file .. next_file + n - 1
    BY <2>3 DEF NewIds
  <2> QED BY <2>1, <2>2, <2>4
<1>3. data_files' = Extended(kept, Numbered(outputs)) /\ DOMAIN Numbered(outputs) = NewIds
  BY <1>2 DEF Reorganised, Committed, Numbered
<1>4. \A f \in NewIds : FileAt(Numbered(outputs)[f], snapshot + 1)
  <2> TAKE f \in NewIds
  <2>1. f - next_file + 1 \in 1 .. n
    BY <1>2 DEF NewIds, Catalog
  <2> QED BY <1>2, <2>1 DEF Numbered
<1>5. \A f \in DOMAIN data_files' : FileAt(data_files'[f], snapshot + 1)
  BY <1>3, <1>4 DEF Extended
<1>6. /\ snapshot' = snapshot + 1 /\ snapshots' = snapshots \cup {snapshot + 1}
      /\ inlined' = in_catalog /\ sort_key_set' = sort_key_set
      /\ on_disk' = on_disk \cup NewIds
  BY <1>2 DEF Reorganised, Committed
<1>7. DOMAIN data_files' = DOMAIN kept \cup NewIds
  BY <1>3 DEF Extended
<1>8. Catalog'
  <2>1. next_file' \in Nat \ {0} /\ snapshot' \in Nat
    BY <1>2, <1>6 DEF Catalog
  <2>2. snapshots' \subseteq 0 .. snapshot' /\ snapshot' \in snapshots'
    BY <1>6 DEF Catalog
  <2> QED BY <1>5, <1>6, <2>1, <2>2 DEF Catalog
<1> QED BY <1>2, <1>6, <1>7, <1>8

LEMMA NewIdsAreNew ==
  ASSUME IInv
  PROVE  NewIds \cap (DOMAIN data_files \cup scheduled \cup on_disk) = {}
<1>2. next_file \in Nat
  BY DEF IInv, Catalog
<1>3. \A id \in NewIds : id \in Int /\ id >= next_file
  BY <1>2 DEF NewIds
<1>4. \A id \in 1 .. next_file - 1 : id < next_file
  BY <1>2
<1>5. \A id \in NewIds : id \notin 1 .. next_file - 1
  BY <1>2, <1>3, <1>4
<1> QED BY <1>5 DEF IInv, Files

LEMMA WiderGrouping ==
  ASSUME NEW candidates, NEW wider, candidates \subseteq wider, NEW groups, IsGrouping(groups, candidates)
  PROVE  IsGrouping(groups, wider)
<1>1. (SUBSET candidates) \ {{}} \subseteq (SUBSET wider) \ {{}}
  OBVIOUS
<1> QED BY <1>1 DEF IsGrouping

LEMMA GroupingFacts ==
  ASSUME NEW candidates, NEW groups, IsGrouping(groups, candidates)
  PROVE  /\ Len(groups) \in Nat /\ DOMAIN groups = 1 .. Len(groups)
         /\ \A i \in 1 .. Len(groups) : groups[i] \subseteq candidates /\ groups[i] # {}
         /\ Sources(groups) = UNION {groups[i] : i \in 1 .. Len(groups)}
         /\ Sources(groups) \subseteq candidates
         /\ \A f \in Sources(groups) : \E i \in 1 .. Len(groups) : f \in groups[i]
<1>1. /\ Len(groups) \in Nat /\ DOMAIN groups = 1 .. Len(groups)
      /\ \A i \in 1 .. Len(groups) : groups[i] \subseteq candidates /\ groups[i] # {}
  BY DEF IsGrouping
<1>2. Sources(groups) = UNION {groups[i] : i \in 1 .. Len(groups)}
  BY <1>1 DEF Sources, Range
<1> QED BY <1>1, <1>2

\* The files that a merge takes: active, and with no delete file.
Unmarked == {f \in Active(data_files) : DOMAIN data_files[f].gone = {}}
MergedGroups(newer_than, max_compacted_files) ==
  Limited(MergeGroups(data_files, newer_than), max_compacted_files)
RewrittenGroups(delete_threshold, max_compacted_files) ==
  Limited(RewriteGroups(data_files, delete_threshold), max_compacted_files)

LEMMA ProcedureGroups ==
  ASSUME IInv, NEW bound, NEW max_compacted_files \in (Nat \ {0}) \cup { NULL }
  PROVE  /\ IsGrouping(MergedGroups(bound, max_compacted_files), Unmarked)
         /\ IsGrouping(RewrittenGroups(bound, max_compacted_files), Active(data_files))
<1> DEFINE N == next_file - 1
           young == {f \in Active(data_files) : DOMAIN data_files[f].gone = {}
                                                /\ data_files[f].begin >= bound}
           marked == {f \in Active(data_files) : AboveThreshold(data_files[f], bound)}
<1>1. N \in Nat /\ DOMAIN data_files \subseteq 1 .. N /\ NULL \notin Nat
  BY StorageAssumption DEF IInv, Catalog, Files
<1>2. young \subseteq Unmarked /\ marked \subseteq Active(data_files)
      /\ Active(data_files) \subseteq DOMAIN data_files
  BY DEF Unmarked, Active
<1>3. young \in SUBSET (1 .. N) /\ marked \in SUBSET (1 .. N)
  BY <1>1, <1>2 DEF Unmarked
<1>4. MergeGroups(data_files, bound) = Several(Packed(data_files, young))
      /\ RewriteGroups(data_files, bound) = Packed(data_files, marked)
  BY DEF MergeGroups, RewriteGroups
<1> HIDE DEF N, young, marked
<1>5. IsGrouping(Several(Packed(data_files, young)), Unmarked)
  BY <1>1, <1>2, <1>3, PackedGroups, SeveralGroups, WiderGrouping
<1>6. IsGrouping(Packed(data_files, marked), Active(data_files))
  BY <1>1, <1>2, <1>3, PackedGroups, WiderGrouping
<1> QED BY <1>1, <1>4, <1>5, <1>6, LimitedGroups DEF MergedGroups, RewrittenGroups

LEMMA MergeAdds ==
  ASSUME IInv, NEW newer_than, NEW max_compacted_files \in (Nat \ {0}) \cup { NULL },
         merge_files(newer_than, max_compacted_files)
  PROVE  Adds
<1> DEFINE groups == MergedGroups(newer_than, max_compacted_files)
           kept == Restrict(data_files, DOMAIN data_files \ Sources(groups))
           n == Len(groups)
           outputs == [i \in 1 .. n |-> MergedFile(data_files, groups[i])]
<1>1. CASE ~ Feasible(groups)
  BY <1>1, UnstoredAdds DEF merge_files, MergedGroups
<1>2. CASE Feasible(groups)
  <2>1. Reorganised(kept, outputs, inlined) /\ scheduled' = scheduled \cup Sources(groups)
    BY <1>2 DEF merge_files, MergedGroups
  <2>2. IsGrouping(groups, Unmarked)
    BY ProcedureGroups
  <2> HIDE DEF groups
  <2>3. /\ n \in Nat /\ Sources(groups) \subseteq DOMAIN data_files
        /\ \A i \in 1 .. n : groups[i] \in (SUBSET DOMAIN data_files) \ {{}}
    <3>1. Unmarked \subseteq DOMAIN data_files
      BY DEF Unmarked, Active
    <3> QED BY <2>2, <3>1, GroupingFacts
  <2>4. snapshot \in Nat /\ \A f \in DOMAIN data_files : FileAt(data_files[f], snapshot)
    BY DEF IInv, Catalog
  <2>5. \A i \in 1 .. n : FileAt(MergedFile(data_files, groups[i]), snapshot + 1)
    BY <2>3, <2>4, MergedTyped, LaterFile
  <2>6. /\ DOMAIN kept = DOMAIN data_files \ Sources(groups)
        /\ \A f \in DOMAIN kept : FileAt(kept[f], snapshot + 1)
    BY <2>4, LaterFile DEF Restrict
  <2>7. HolderAt(inlined, snapshot + 1)
    BY LaterHolder DEF IInv, Catalog
  <2> DEFINE S == {MergedFile(data_files, groups[i]) : i \in 1 .. n}
  <2>8. outputs \in [1 .. n -> S] /\ \A i \in 1 .. n : FileAt(outputs[i], snapshot + 1)
    BY <2>5
  <2> HIDE DEF kept, outputs, n, S
  <2>9. /\ Catalog'
        /\ next_file' = next_file + n
        /\ snapshots \subseteq snapshots'
        /\ DOMAIN data_files' = DOMAIN kept \cup NewIds
        /\ on_disk' = on_disk \cup NewIds
    BY <2>1, <2>3, <2>6, <2>7, <2>8, ReorganisedAdds DEF IInv
  <2> QED BY <2>1, <2>3, <2>6, <2>9, NewIdsAreNew DEF Adds, IInv, Files, Catalog
<1> QED BY <1>1, <1>2

LEMMA RewriteAdds ==
  ASSUME IInv, NEW delete_threshold, NEW max_compacted_files \in (Nat \ {0}) \cup { NULL },
         rewrite_data_files(delete_threshold, max_compacted_files)
  PROVE  Adds
<1> DEFINE groups == RewrittenGroups(delete_threshold, max_compacted_files)
           s == snapshot + 1
           kept == Ended(Sources(groups), s)
           n == Len(groups)
           Rewritten(i) == UNION {Live(data_files[f]) : f \in groups[i]}
           outputs == [i \in 1 .. n |-> DataFile(Rewritten(i), s)]
<1>1. CASE ~ Feasible(groups)
  BY <1>1, UnstoredAdds DEF rewrite_data_files, RewrittenGroups
<1>2. CASE Feasible(groups)
  <2>1. Reorganised(kept, outputs, inlined) /\ scheduled' = scheduled
    BY <1>2 DEF rewrite_data_files, RewrittenGroups
  <2>2. IsGrouping(groups, Active(data_files))
    BY ProcedureGroups
  <2> HIDE DEF groups
  <2>3. /\ n \in Nat
        /\ \A i \in 1 .. n : groups[i] \subseteq DOMAIN data_files
    <3>1. Active(data_files) \subseteq DOMAIN data_files
      BY DEF Active
    <3> QED BY <2>2, <3>1, GroupingFacts
  <2>4. snapshot \in Nat /\ \A f \in DOMAIN data_files : FileAt(data_files[f], snapshot)
    BY DEF IInv, Catalog
  <2>5. \A f \in DOMAIN data_files : Live(data_files[f]) \subseteq Rows
    BY <2>4 DEF Live, FileAt, HolderAt, Stamped
  <2>6. \A i \in 1 .. n : Rewritten(i) \in SUBSET Rows
    BY <2>3, <2>5
  <2> HIDE DEF Rewritten
  <2>7. \A i \in 1 .. n : FileAt(DataFile(Rewritten(i), s), s)
    BY <2>4, <2>6, NewFile
  <2>8. DOMAIN kept = DOMAIN data_files /\ \A f \in DOMAIN kept : FileAt(kept[f], s)
    <3>1. ASSUME NEW f \in DOMAIN data_files
          PROVE  FileAt([data_files[f] EXCEPT !.end = s], s) /\ FileAt(data_files[f], s)
      BY <2>4, LaterFile DEF FileAt, HolderAt
    <3> HIDE DEF s
    <3> QED BY <3>1 DEF Ended
  <2>9. HolderAt(inlined, s)
    BY LaterHolder DEF IInv, Catalog
  <2> DEFINE S == {DataFile(Rewritten(i), s) : i \in 1 .. n}
  <2>10. outputs \in [1 .. n -> S] /\ \A i \in 1 .. n : FileAt(outputs[i], s)
    BY <2>7
  <2> HIDE DEF kept, outputs, n, S
  <2>11. /\ Catalog'
         /\ next_file' = next_file + n
         /\ snapshots \subseteq snapshots'
         /\ DOMAIN data_files' = DOMAIN kept \cup NewIds
         /\ on_disk' = on_disk \cup NewIds
    BY <2>1, <2>3, <2>8, <2>9, <2>10, ReorganisedAdds DEF IInv
  <2> QED BY <2>1, <2>3, <2>8, <2>11, NewIdsAreNew DEF Adds, IInv, Files, Catalog
<1> QED BY <1>1, <1>2

\* The file that a flush writes.
FlushedBorn == Restrict(inlined.born, Live(inlined))
FlushedFile ==
  [born |-> FlushedBorn, gone |-> Stored({}, 0), begin |-> Min(Range(FlushedBorn)), end |-> NULL]
Unflushed == [inlined EXCEPT !.born = Restrict(@, DOMAIN @ \ Live(inlined))]

LEMMA FlushTyped ==
  ASSUME IInv, Live(inlined) # {}
  PROVE  /\ FileAt(FlushedFile, snapshot) /\ HolderAt(Unflushed, snapshot)
         /\ FileAt(FlushedFile, snapshot + 1) /\ HolderAt(Unflushed, snapshot + 1)
         /\ DOMAIN FlushedBorn = Live(inlined)
         /\ \A r \in Live(inlined) : FlushedBorn[r] = inlined.born[r]
         /\ Unflushed.born = Restrict(inlined.born, DOMAIN inlined.born \ Live(inlined))
         /\ Unflushed.gone = inlined.gone
<1>1. snapshot \in Nat /\ HolderAt(inlined, snapshot)
  BY DEF IInv, Catalog
<1>2. /\ DOMAIN FlushedBorn = Live(inlined)
      /\ \A r \in Live(inlined) : /\ r \in Rows /\ inlined.born[r] \in 0 .. snapshot
                                  /\ FlushedBorn[r] = inlined.born[r]
  BY <1>1 DEF FlushedBorn, Restrict, Live, HolderAt, Stamped
<1>3. Range(FlushedBorn) \subseteq 0 .. snapshot /\ Range(FlushedBorn) # {}
      /\ \A r \in Live(inlined) : FlushedBorn[r] \in Range(FlushedBorn)
  BY <1>2 DEF Range
<1>4. /\ Min(Range(FlushedBorn)) \in 0 .. snapshot
      /\ \A r \in Live(inlined) : Min(Range(FlushedBorn)) <= FlushedBorn[r]
  BY <1>1, <1>3, LeastOf
<1>5. FileAt(FlushedFile, snapshot)
  <2> DEFINE b == Min(Range(FlushedBorn))
  <2>1. FlushedFile = [born |-> FlushedBorn, gone |-> Stored({}, 0), begin |-> b, end |-> NULL]
    BY DEF FlushedFile
  <2> HIDE DEF b
  <2>2. b \in 0 .. snapshot /\ \A r \in Live(inlined) : b <= FlushedBorn[r]
    BY <1>4 DEF b
  <2> QED BY <1>1, <1>2, <2>1, <2>2 DEF FileAt, HolderAt, Stamped, Stored
<1>6. /\ HolderAt(Unflushed, snapshot)
      /\ Unflushed.born = Restrict(inlined.born, DOMAIN inlined.born \ Live(inlined))
      /\ Unflushed.gone = inlined.gone
  BY <1>1 DEF Unflushed, HolderAt, Stamped, Restrict
<1> QED BY <1>1, <1>2, <1>5, <1>6, LaterFile, LaterHolder

LEMMA FlushAdds ==
  ASSUME IInv, flush_inlined_data
  PROVE  Adds
<1>1. CASE Live(inlined) = {}
  BY <1>1, UnstoredAdds DEF flush_inlined_data
<1>2. CASE Live(inlined) # {}
  <2> DEFINE outputs == <<FlushedFile>>
             S == {FlushedFile}
             N == 1
  <2>1. Reorganised(data_files, outputs, Unflushed) /\ scheduled' = scheduled
    BY <1>2 DEF flush_inlined_data, FlushedFile, FlushedBorn, Unflushed
  <2>2. snapshot \in Nat /\ \A f \in DOMAIN data_files : FileAt(data_files[f], snapshot + 1)
    BY LaterFile DEF IInv, Catalog
  <2>3. FileAt(FlushedFile, snapshot + 1) /\ HolderAt(Unflushed, snapshot + 1)
    BY <1>2, FlushTyped
  <2>4. N \in Nat /\ outputs \in [1 .. N -> S] /\ \A i \in 1 .. N : FileAt(outputs[i], snapshot + 1)
    BY <2>3
  <2> HIDE DEF outputs, S, N
  <2>5. /\ Catalog'
        /\ next_file' = next_file + N
        /\ snapshots \subseteq snapshots'
        /\ DOMAIN data_files' = DOMAIN data_files \cup NewIds
        /\ on_disk' = on_disk \cup NewIds
    BY <2>1, <2>2, <2>3, <2>4, ReorganisedAdds DEF IInv
  <2> QED BY <2>1, <2>4, <2>5, NewIdsAreNew DEF Adds, IInv, Files, Catalog
<1> QED BY <1>1, <1>2

LEMMA ExpireKeepsFiles ==
  ASSUME IInv, NEW retention \in Nat, expire_snapshots(retention), swept' = swept
  PROVE  KeepsFiles
<1> DEFINE kept == {s \in snapshots : s >= snapshot - retention}
           needed == {f \in DOMAIN data_files : \E s \in kept : ActiveAt(data_files[f], s)}
           rows == {r \in DOMAIN inlined.born : \E s \in kept : r \in RowsAt(inlined, s)}
<1>1. /\ snapshots' = kept
      /\ data_files' = Restrict(data_files, needed)
      /\ inlined' = [ born |-> Restrict(inlined.born, rows),
                      gone |-> Restrict(inlined.gone, rows \cap DOMAIN inlined.gone) ]
      /\ scheduled' = scheduled \cup (DOMAIN data_files \ needed)
      /\ snapshot' = snapshot /\ next_file' = next_file /\ sort_key_set' = sort_key_set
      /\ on_disk' = on_disk
  BY DEF expire_snapshots, Retaining
<1>2. snapshot \in Nat /\ snapshots \subseteq 0 .. snapshot /\ snapshot \in snapshots
      /\ next_file \in Nat \ {0} /\ NewIds = {}
  BY <1>1 DEF IInv, Catalog, NewIds
<1>3. needed \subseteq DOMAIN data_files /\ rows \subseteq DOMAIN inlined.born
      /\ kept \subseteq snapshots /\ snapshot \in kept
  BY <1>2
<1> HIDE DEF kept, needed, rows
<1>4. /\ DOMAIN data_files' = needed
      /\ \A f \in needed : data_files'[f] = data_files[f]
  BY <1>1 DEF Restrict
<1>5. HolderAt(inlined', snapshot)
  <2>1. HolderAt(inlined, snapshot)
    BY DEF IInv, Catalog
  <2> QED BY <1>1, <1>3, <2>1 DEF HolderAt, Stamped, Restrict
<1>6. Catalog'
  <2>1. \A f \in DOMAIN data_files' : FileAt(data_files'[f], snapshot')
    BY <1>1, <1>3, <1>4 DEF IInv, Catalog
  <2> QED BY <1>1, <1>2, <1>3, <1>5, <2>1 DEF IInv, Catalog
<1> QED BY <1>1, <1>2, <1>3, <1>4, <1>6 DEF KeepsFiles, IInv, Files

LEMMA CleanupKeepsFiles ==
  ASSUME IInv, cleanup_files, swept' = swept
  PROVE  KeepsFiles
<1>1. NewIds = {} /\ next_file' = next_file /\ next_file \in Nat
  BY DEF IInv, Catalog, NewIds, cleanup_files
<1>2. Catalog'
  BY DEF IInv, Catalog, cleanup_files
<1> QED BY <1>1, <1>2 DEF KeepsFiles, IInv, Files, cleanup_files

-----------------------------------------------------------------------------
(* The steps of the writer *)

LEMMA ExtendedFiles ==
  ASSUME NEW s, NEW files, \A f \in DOMAIN files : FileAt(files[f], s),
         NEW added, \A f \in DOMAIN added : FileAt(added[f], s)
  PROVE  /\ DOMAIN Extended(files, added) = DOMAIN files \cup DOMAIN added
         /\ \A f \in DOMAIN Extended(files, added) : FileAt(Extended(files, added)[f], s)
BY DEF Extended

LEMMA CommittedCatalog ==
  ASSUME Catalog,
         NEW files, \A f \in DOMAIN files : FileAt(files[f], snapshot + 1),
         NEW in_catalog, HolderAt(in_catalog, snapshot + 1),
         Committed(files, in_catalog), next_file' = next_file, sort_key_set' \in BOOLEAN
  PROVE  Catalog'
<1>1. /\ snapshot' = snapshot + 1 /\ snapshots' = snapshots \cup {snapshot + 1}
      /\ data_files' = files /\ inlined' = in_catalog
  BY DEF Committed
<1>2. snapshot \in Nat /\ snapshots \subseteq 0 .. snapshot
  BY DEF Catalog
<1>3. snapshot' \in Nat /\ 0 .. snapshot \subseteq 0 .. snapshot' /\ snapshot' \in 0 .. snapshot'
  BY <1>1, <1>2
<1>4. snapshots' \subseteq 0 .. snapshot' /\ snapshot' \in snapshots'
  BY <1>1, <1>2, <1>3
<1> QED BY <1>1, <1>3, <1>4 DEF Catalog

LEMMA DeletedFilesTyped ==
  ASSUME Catalog, NEW rows
  PROVE  /\ DOMAIN DeletedFiles(data_files, rows, snapshot + 1) = DOMAIN data_files
         /\ \A f \in DOMAIN data_files :
              FileAt(DeletedFiles(data_files, rows, snapshot + 1)[f], snapshot + 1)
         /\ HolderAt(DeleteFrom(inlined, rows, snapshot + 1), snapshot + 1)
<1>1. snapshot \in Nat /\ HolderAt(inlined, snapshot)
      /\ \A f \in DOMAIN data_files : FileAt(data_files[f], snapshot)
  BY DEF Catalog
<1>2. DOMAIN DeletedFiles(data_files, rows, snapshot + 1) = DOMAIN data_files
  BY DEF DeletedFiles
<1> QED BY <1>1, <1>2, DeletedFile, DeletedHolder

LEMMA BeginWriteKeeps ==
  ASSUME IInv, NEW request \in awaited, BeginWrite(request)
  PROVE  IInv'
<1> DEFINE inlining == request.inlining \/ request.inserts = {}
<1>1. /\ writer = Idle /\ awaited' = awaited \ {request}
      /\ writer' = [ status |-> "open", inserts |-> request.inserts,
                     deletes |-> [r \in request.deletes |-> HolderOf(data_files, inlined, snapshot, r)],
                     compaction |-> request.compaction,
                     file |-> IF inlining THEN NULL ELSE next_file ]
      /\ snapshot' = snapshot /\ snapshots' = snapshots /\ data_files' = data_files
      /\ inlined' = inlined /\ scheduled' = scheduled /\ sort_key_set' = sort_key_set
      /\ maintenance' = maintenance /\ swept' = swept
  BY DEF BeginWrite
<1>2. \/ inlining /\ on_disk' = on_disk /\ next_file' = next_file
      \/ ~ inlining /\ on_disk' = on_disk \cup {next_file} /\ next_file' = next_file + 1
  BY DEF BeginWrite
<1>3. Writer'
  <2>1. request.inserts \subseteq Rows /\ request.deletes \subseteq Rows /\ awaited' \subseteq Requests
    BY <1>1, StorageAssumption DEF IInv, Writer
  <2> QED BY <1>1, <2>1 DEF Writer
<1>4. Maintenance' /\ Reclustered' = Reclustered /\ Uncommitted = {}
  BY <1>1 DEF IInv, Maintenance, Reclustered, Maintaining, policy, Uncommitted, Idle
<1>5. next_file \in Nat \ {0} /\ NULL \notin Nat
  BY StorageAssumption DEF IInv, Catalog
<1>6. Uncommitted' = IF inlining THEN {} ELSE {next_file}
  BY <1>1, <1>5 DEF Uncommitted
<1>7. Catalog'
  BY <1>1, <1>2, <1>5 DEF IInv, Catalog
<1>8. Files' /\ Pending'
  <2>1. CASE inlining
    BY <1>1, <1>2, <1>4, <1>6, <2>1 DEF IInv, Files, Pending
  <2>2. CASE ~ inlining
    <3>1. 1 .. next_file' - 1 = (1 .. next_file - 1) \cup {next_file}
      BY <1>2, <1>5, <2>2
    <3>2. next_file \notin 1 .. next_file - 1
      BY <1>5
    <3> HIDE DEF inlining
    <3> QED BY <1>1, <1>2, <1>4, <1>6, <2>2, <3>1, <3>2 DEF IInv, Files, Pending
  <2> QED BY <2>1, <2>2
<1> QED BY <1>3, <1>4, <1>7, <1>8 DEF IInv

LEMMA CommitWriteKeeps ==
  ASSUME IInv, CommitWrite
  PROVE  IInv'
<1> DEFINE s == snapshot + 1
           rows == DOMAIN writer.deletes
           kept == DeletedFiles(data_files, rows, s)
           left == DeleteFrom(inlined, rows, s)
           added == [f \in {writer.file} |-> DataFile(writer.inserts, s)]
<1>1. /\ writer.status = "open"
      /\ writer' = IF writer.compaction = "none" THEN Idle
                   ELSE [ status |-> "rewrite",
                          newer_than |-> IF writer.compaction = "all" THEN 0 ELSE s ]
      /\ scheduled' = scheduled /\ next_file' = next_file /\ sort_key_set' = sort_key_set
      /\ on_disk' = on_disk /\ maintenance' = maintenance /\ awaited' = awaited /\ swept' = swept
  BY DEF CommitWrite
<1>2. IF writer.file = NULL
      THEN Committed(kept, [left EXCEPT !.born = Extended(@, Stored(writer.inserts, s))])
      ELSE Committed(Extended(kept, added), left)
  <2>1. Holder(writer.inserts, s).born = Stored(writer.inserts, s)
    BY DEF Holder
  <2> QED BY <2>1 DEF CommitWrite
<1>3. writer.inserts \subseteq Rows /\ s \in Nat /\ sort_key_set \in BOOLEAN /\ Catalog
  BY <1>1 DEF IInv, Writer, Catalog, Idle
<1>4. /\ DOMAIN kept = DOMAIN data_files /\ HolderAt(left, s)
      /\ \A f \in DOMAIN kept : FileAt(kept[f], s)
  BY <1>3, DeletedFilesTyped
<1>5. Uncommitted' = {} /\ Reclustered' = Reclustered /\ Maintenance'
  BY <1>1 DEF IInv, Maintenance, Reclustered, Maintaining, policy, Uncommitted, Idle
<1>6. Writer'
  BY <1>1 DEF IInv, Writer, Idle
<1> HIDE DEF kept, left
<1>7. CASE writer.file = NULL
  <2> DEFINE in_catalog == [left EXCEPT !.born = Extended(@, Stored(writer.inserts, s))]
  <2>1. HolderAt(in_catalog, s)
    BY <1>3, <1>4 DEF HolderAt, Stamped, Extended, Stored
  <2>2. Committed(kept, in_catalog)
    BY <1>2, <1>7
  <2> HIDE DEF in_catalog
  <2>3. Catalog' /\ DOMAIN data_files' = DOMAIN data_files
    BY <1>1, <1>3, <1>4, <2>1, <2>2, CommittedCatalog DEF Committed
  <2>4. Files' /\ Pending'
    BY <1>1, <1>5, <2>3 DEF IInv, Files, Pending
  <2> QED BY <1>5, <1>6, <2>3, <2>4 DEF IInv
<1>8. CASE writer.file # NULL
  <2>1. Uncommitted = {writer.file}
    BY <1>1, <1>8 DEF Uncommitted
  <2>2. DOMAIN added = {writer.file} /\ \A f \in DOMAIN added : FileAt(added[f], s)
    BY <1>3, NewFile
  <2>3. Committed(Extended(kept, added), left)
    BY <1>2, <1>8
  <2> HIDE DEF added
  <2>4. DOMAIN Extended(kept, added) = DOMAIN data_files \cup {writer.file}
        /\ \A f \in DOMAIN Extended(kept, added) : FileAt(Extended(kept, added)[f], s)
    <3>1. /\ DOMAIN Extended(kept, added) = DOMAIN kept \cup DOMAIN added
          /\ \A f \in DOMAIN Extended(kept, added) : FileAt(Extended(kept, added)[f], s)
      BY <1>4, <2>2 DEF Extended
    <3> QED BY <1>4, <2>2, <3>1
  <2>5. Catalog' /\ DOMAIN data_files' = DOMAIN data_files \cup {writer.file}
    BY <1>1, <1>3, <1>4, <2>3, <2>4, CommittedCatalog DEF Committed
  <2>6. Files' /\ Pending'
    BY <1>1, <1>5, <2>1, <2>5 DEF IInv, Files, Pending
  <2> QED BY <1>5, <1>6, <2>5, <2>6 DEF IInv
<1> QED BY <1>7, <1>8

LEMMA AbandonWriteKeeps ==
  ASSUME IInv, NEW process_ends, AbandonWrite(process_ends)
  PROVE  IInv'
<1>1. /\ writer.status = "open" /\ writer' = Idle
      /\ on_disk' = IF process_ends THEN on_disk ELSE on_disk \ {writer.file}
      /\ swept' = swept \ {writer.file}
      /\ UNCHANGED catalog /\ maintenance' = maintenance /\ awaited' = awaited
  BY DEF AbandonWrite
<1>2. Catalog'
  BY <1>1 DEF IInv, Catalog, catalog
<1>3. Writer' /\ Maintenance' /\ Uncommitted' = {} /\ Reclustered' = Reclustered
  BY <1>1 DEF IInv, Writer, Maintenance, Reclustered, Maintaining, policy, Uncommitted, Idle
<1>4. data_files' = data_files /\ scheduled' = scheduled /\ next_file' = next_file
  BY <1>1 DEF catalog
<1>5. writer.file \notin DOMAIN data_files /\ writer.file \notin Reclustered
  <2>1. CASE writer.file = NULL
    <3>1. NULL \notin 1 .. next_file - 1
      BY StorageAssumption DEF IInv, Catalog
    <3> QED BY <2>1, <3>1 DEF IInv, Files, Pending
  <2>2. CASE writer.file # NULL
    <3>1. Uncommitted = {writer.file}
      BY <1>1, <2>2 DEF Uncommitted
    <3> QED BY <3>1 DEF IInv, Pending
  <2> QED BY <2>1, <2>2
<1>6. Files' /\ Pending'
  BY <1>1, <1>3, <1>4, <1>5 DEF IInv, Files, Pending
<1> QED BY <1>2, <1>3, <1>6 DEF IInv

LEMMA CompactKeeps ==
  ASSUME IInv, CompactRewrite \/ CompactMerge \/ CompactStops
  PROVE  IInv'
<1>1. NULL \in (Nat \ {0}) \cup { NULL }
  OBVIOUS
<1>2. Adds
  BY <1>1, RewriteAdds, MergeAdds, UnstoredAdds DEF CompactRewrite, CompactMerge, CompactStops, Unstored
<1>3. /\ swept' = swept /\ maintenance' = maintenance /\ awaited' = awaited
      /\ writer' = Idle \/ writer' = [writer EXCEPT !.status = "merge"]
      /\ writer.status \in {"rewrite", "merge"}
  BY DEF CompactRewrite, CompactMerge, CompactStops
<1>4. Writer' /\ Uncommitted' = {}
  BY <1>3 DEF IInv, Writer, Uncommitted, Idle
<1>5. Maintenance' /\ Reclustered' = Reclustered
  BY <1>3 DEF IInv, Maintenance, Reclustered, Maintaining, policy
<1>6. Files' /\ Pending'
  BY <1>2, <1>3, <1>4, <1>5, AddsKeepsFiles, FilesKept
<1> QED BY <1>2, <1>4, <1>5, <1>6 DEF IInv, Adds

-----------------------------------------------------------------------------
(* The steps of maintain *)

LEMMA MaintenanceGoes ==
  ASSUME Maintenance, Maintaining,
         NEW step \in Steps \ {"idle", "recluster_commit"}, step = "cleanup" => policy.retention # NULL,
         step = "recluster_merge" => ~ policy.dry_run,
         \/ Goes(step)
         \/ maintenance' = [maintenance EXCEPT !.step = step, !.stale = TRUE]
         \/ Measureless(step)
  PROVE  Maintenance' /\ Reclustered' = {}
<1>1. /\ maintenance'.step = step /\ maintenance'.policy = policy
      /\ {"step", "stale", "policy", "storage"} \subseteq DOMAIN maintenance'
  <2>1. {"step", "stale", "policy", "storage"} \subseteq DOMAIN maintenance
    BY DEF Maintenance
  <2>2. CASE Measureless(step)
    BY <2>2 DEF Measureless
  <2>3. CASE ~ Measureless(step)
    BY <2>1, <2>3 DEF Goes, policy
  <2> QED BY <2>2, <2>3
<1>2. policy' = policy /\ policy \in Policies
  BY <1>1 DEF policy, Maintenance
<1> QED BY <1>1, <1>2 DEF Maintenance, Maintaining, Reclustered, Steps

LEMMA MaintainKeeps ==
  ASSUME IInv, KeepsFiles, writer' = writer, awaited' = awaited, Maintenance', Reclustered' \subseteq Reclustered
  PROVE  IInv'
<1>1. Writer' /\ Uncommitted' = Uncommitted
  BY DEF IInv, Writer, Uncommitted
<1>2. Files' /\ Pending'
  BY <1>1, FilesKept
<1> QED BY <1>1, <1>2 DEF IInv, KeepsFiles

LEMMA PolicyBounds ==
  ASSUME IInv, Maintaining
  PROVE  /\ policy.max_compacted_files \in (Nat \ {0}) \cup { NULL }
         /\ policy.retention # NULL => policy.retention \in Nat
BY StorageAssumption DEF IInv, Maintenance

LEMMA MeasureKeeps ==
  ASSUME IInv, Measure \/ \E chosen \in Policies : StartMaintain(chosen)
  PROVE  IInv'
<1>1. Unstored /\ writer' = writer /\ awaited' = awaited /\ swept' = swept
  BY DEF Measure, StartMaintain, Unstored
<1>2. KeepsFiles
  BY <1>1, UnstoredAdds, AddsKeepsFiles
<1>3. ASSUME Measure PROVE Maintenance' /\ Reclustered' \subseteq Reclustered
  <2> DEFINE measured == storage_report(data_files, inlined, policy.min_file_size)
  <2>1. maintenance' = [maintenance EXCEPT !.stale = FALSE, !.storage = measured] /\ Maintaining
    BY <1>3 DEF Measure
  <2> HIDE DEF measured
  <2>2. {"step", "stale", "policy", "storage"} \subseteq DOMAIN maintenance
    BY <2>1 DEF IInv, Maintenance
  <2>3. /\ DOMAIN maintenance' = DOMAIN maintenance
        /\ maintenance'.step = maintenance.step /\ maintenance'.policy = maintenance.policy
    BY <2>1, <2>2
  <2>4. maintenance.step = "recluster_commit" => maintenance'.files = maintenance.files
    BY <2>1, <2>2
  <2> QED BY <2>1, <2>2, <2>3, <2>4 DEF IInv, Maintenance, Maintaining, Reclustered, policy
<1>4. ASSUME NEW chosen \in Policies, StartMaintain(chosen) PROVE Maintenance' /\ Reclustered' = {}
  BY <1>4 DEF StartMaintain, Maintenance, Maintaining, Reclustered, Steps, policy
<1>5. Maintenance' /\ Reclustered' \subseteq Reclustered
  BY <1>3, <1>4
<1> QED BY <1>1, <1>2, <1>5, MaintainKeeps

LEMMA CompactStepsAdd ==
  ASSUME IInv, FlushStep \/ RewriteStep \/ MergeStep \/ ReclusterMerge
  PROVE  Adds
<1>1. Maintaining
  BY DEF FlushStep, RewriteStep, MergeStep, ReclusterMerge, Skip, Runs, At, Maintaining
<1>2. policy.max_compacted_files \in (Nat \ {0}) \cup { NULL } /\ NULL \in (Nat \ {0}) \cup { NULL }
  BY <1>1, PolicyBounds
<1>3. ASSUME Unstored PROVE Adds
  BY <1>3, UnstoredAdds
<1>4. ASSUME FlushStep PROVE Adds
  BY <1>3, <1>4, FlushAdds DEF FlushStep, Skip, Fails, Unstored
<1>5. ASSUME RewriteStep PROVE Adds
  BY <1>2, <1>3, <1>5, RewriteAdds DEF RewriteStep, Skip, Fails, Unstored
<1>6. ASSUME MergeStep PROVE Adds
  BY <1>2, <1>3, <1>6, MergeAdds DEF MergeStep, Skip, Fails, Unstored
<1>7. ASSUME ReclusterMerge PROVE Adds
  BY <1>2, <1>3, <1>7, MergeAdds DEF ReclusterMerge, Fails
<1> QED BY <1>4, <1>5, <1>6, <1>7

LEMMA CompactStepsKeep ==
  ASSUME IInv, FlushStep \/ RewriteStep \/ MergeStep \/ ReclusterMerge
  PROVE  IInv'
<1>1. Maintaining
  BY DEF FlushStep, RewriteStep, MergeStep, ReclusterMerge, Skip, Runs, At, Maintaining
<1>2. writer' = writer /\ awaited' = awaited /\ swept' = swept
  BY DEF FlushStep, RewriteStep, MergeStep, ReclusterMerge, Skip, Runs
<1>3. \E step \in {"rewrite", "merge", "recluster", "expire"} :
        Goes(step) \/ maintenance' = [maintenance EXCEPT !.step = step, !.stale = TRUE]
  BY DEF FlushStep, RewriteStep, MergeStep, ReclusterMerge, Skip, Runs
<1>4. Maintenance' /\ Reclustered' = {}
  BY <1>1, <1>3, MaintenanceGoes DEF IInv, Steps
<1>5. KeepsFiles
  BY <1>2, CompactStepsAdd, AddsKeepsFiles
<1> QED BY <1>2, <1>4, <1>5, MaintainKeeps

LEMMA ExpiringStepsKeep ==
  ASSUME IInv, SkipRecluster \/ ExpireStep \/ CleanupStep \/ MaintainStops
  PROVE  IInv'
<1>1. writer' = writer /\ awaited' = awaited /\ swept' = swept /\ Maintaining
  BY DEF SkipRecluster, ExpireStep, CleanupStep, MaintainStops, At, Maintaining
<1>2. ASSUME Unstored PROVE KeepsFiles
  BY <1>1, <1>2, UnstoredAdds, AddsKeepsFiles
<1>3. ASSUME SkipRecluster \/ MaintainStops PROVE KeepsFiles
  BY <1>2, <1>3 DEF SkipRecluster, MaintainStops, Unstored
<1>4. ASSUME ExpireStep PROVE KeepsFiles
  BY <1>1, <1>2, <1>4, PolicyBounds, ExpireKeepsFiles DEF ExpireStep, Fails
<1>5. ASSUME CleanupStep PROVE KeepsFiles
  BY <1>1, <1>2, <1>5, CleanupKeepsFiles DEF CleanupStep, Fails
<1>6. ASSUME MaintainStops PROVE Maintenance' /\ Reclustered' = {}
  BY <1>6 DEF MaintainStops, Maintenance, Maintaining, Reclustered, Steps
<1>7. ASSUME ~ MaintainStops PROVE Maintenance' /\ Reclustered' = {}
  <2>1. \E step \in {"expire", "cleanup", "delete_orphaned"} :
          /\ Goes(step) \/ Measureless(step)
          /\ step = "cleanup" => policy.retention # NULL
          /\ step # "recluster_merge"
    BY <1>7 DEF SkipRecluster, ExpireStep, CleanupStep
  <2> QED BY <1>1, <2>1, MaintenanceGoes DEF IInv, Steps
<1> QED BY <1>1, <1>3, <1>4, <1>5, <1>6, <1>7, MaintainKeeps

LEMMA DeleteOrphanedKeeps ==
  ASSUME IInv, DeleteOrphanedStep
  PROVE  IInv'
<1>1. /\ maintenance.step = "delete_orphaned" /\ maintenance' = [step |-> "idle"]
      /\ writer' = writer /\ awaited' = awaited
  BY DEF DeleteOrphanedStep, At
<1>2. Maintenance' /\ Reclustered' = {} /\ Reclustered = {}
  BY <1>1 DEF Maintenance, Maintaining, Reclustered, Steps
<1>3. CASE Unstored /\ swept' = swept
  BY <1>1, <1>2, <1>3, UnstoredAdds, AddsKeepsFiles, MaintainKeeps
<1>4. CASE delete_orphaned_files
  <2>1. /\ on_disk' = on_disk \ Orphans /\ swept' = swept \cup (Orphans \cap Uncommitted)
        /\ data_files' = data_files /\ scheduled' = scheduled /\ next_file' = next_file
    BY <1>4 DEF delete_orphaned_files, catalog
  <2>2. Catalog'
    BY <1>4 DEF delete_orphaned_files, catalog, IInv, Catalog
  <2>3. Writer' /\ Uncommitted' = Uncommitted
    BY <1>1 DEF IInv, Writer, Uncommitted
  <2>4. Files'
    BY <2>1 DEF IInv, Files, Orphans
  <2>5. Pending'
    BY <1>2, <2>1, <2>3 DEF IInv, Pending, Orphans
  <2> QED BY <1>2, <2>2, <2>3, <2>4, <2>5 DEF IInv
<1> QED BY <1>3, <1>4 DEF DeleteOrphanedStep, Fails

LEMMA ChunksTyped ==
  ASSUME NEW rows \in SUBSET Rows
  PROVE  /\ Len(Chunks(rows)) \in Nat /\ Chunks(rows) \in [1 .. Len(Chunks(rows)) -> SUBSET rows]
<1> DEFINE count == (Cardinality(rows) + TargetFileSize - 1) \div TargetFileSize
           chunks == Chunks(rows)
           Cut(i) == {r \in rows : Cardinality({q \in rows : q < r}) \div TargetFileSize = i - 1}
<1>1. Cardinality(rows) \in Nat
  BY StorageAssumption, FS_Subset, FS_CardinalityType
<1>2. count \in Nat
  <2>1. \A c \in Nat, t \in Nat \ {0} : (c + t - 1) \div t \in Nat
    OBVIOUS
  <2> QED BY <1>1, <2>1, StorageAssumption
<1>3. chunks = [i \in 1 .. count |-> Cut(i)]
  BY DEF Chunks
<1>4. \A i \in 1 .. count : Cut(i) \in SUBSET rows
  OBVIOUS
<1> HIDE DEF count, chunks, Cut
<1>5. chunks \in [1 .. count -> SUBSET rows]
  BY <1>3, <1>4
<1>6. Len(chunks) = count
  BY <1>2, <1>5, Listed
<1> QED BY <1>2, <1>5, <1>6 DEF chunks

LEMMA TableRowsTyped == IInv => TableRows \in SUBSET Rows
BY DEF IInv, Catalog, TableRows, RowsAt, FileAt, HolderAt, Stamped, FilesAt

LEMMA ReclusterBeginKeeps ==
  ASSUME IInv, ReclusterBegin
  PROVE  IInv'
<1> DEFINE files == Chunks(TableRows)
           n == Len(files)
           moved == [r \in TableRows |-> HolderOf(data_files, inlined, snapshot, r)]
<1>1. /\ maintenance.step = "recluster" /\ ~ policy.dry_run
      /\ maintenance' = [ step |-> "recluster_commit", stale |-> FALSE, policy |-> policy,
                          storage |-> Unmeasured, moved |-> moved, files |-> Numbered(files) ]
      /\ on_disk' = on_disk \cup NewFiles(files) /\ next_file' = next_file + n
      /\ snapshot' = snapshot /\ snapshots' = snapshots /\ data_files' = data_files
      /\ inlined' = inlined /\ scheduled' = scheduled /\ sort_key_set' = sort_key_set
      /\ writer' = writer /\ awaited' = awaited /\ swept' = swept
  BY DEF ReclusterBegin, At
<1>2. n \in Nat /\ files \in [1 .. n -> SUBSET TableRows] /\ TableRows \in SUBSET Rows
  BY TableRowsTyped, ChunksTyped
<1>3. next_file \in Nat \ {0}
  BY DEF IInv, Catalog
<1> HIDE DEF files, moved
<1>4. NewFiles(files) = next_file .. next_file + n - 1
  BY DEF NewFiles
<1>5. /\ DOMAIN Numbered(files) = NewFiles(files)
      /\ \A f \in NewFiles(files) : Numbered(files)[f] \subseteq Rows
  <2>1. DOMAIN Numbered(files) = NewFiles(files)
        /\ \A f \in NewFiles(files) : Numbered(files)[f] = files[f - next_file + 1]
    BY DEF Numbered
  <2>2. \A f \in NewFiles(files) : f - next_file + 1 \in 1 .. n
    BY <1>2, <1>3, <1>4
  <2> QED BY <1>2, <2>1, <2>2
<1>6. /\ NewFiles(files) \subseteq Nat /\ NewFiles(files) \subseteq 1 .. next_file' - 1
      /\ 1 .. next_file - 1 \subseteq 1 .. next_file' - 1
      /\ NewFiles(files) \cap (1 .. next_file - 1) = {}
  BY <1>1, <1>2, <1>3, <1>4
<1>7. Reclustered = {} /\ Reclustered' = NewFiles(files) /\ Uncommitted' = Uncommitted
  BY <1>1, <1>5 DEF Reclustered, Uncommitted
<1>8. Maintenance'
  <2>1. policy \in Policies /\ policy' = policy
    BY <1>1 DEF IInv, Maintenance, Maintaining, policy
  <2>2. maintenance'.files = Numbered(files) /\ maintenance'.step = "recluster_commit"
        /\ {"step", "stale", "policy", "storage"} \subseteq DOMAIN maintenance'
    BY <1>1
  <2> QED BY <1>1, <1>5, <1>6, <2>1, <2>2 DEF Maintenance, Maintaining, Steps
<1>9. Catalog' /\ Writer'
  <2>1. next_file' \in Nat \ {0}
    BY <1>1, <1>2, <1>3
  <2> QED BY <1>1, <2>1 DEF IInv, Catalog, Writer
<1> HIDE DEF n
<1>10. Files' /\ Pending'
  BY <1>1, <1>6, <1>7 DEF IInv, Files, Pending
<1> QED BY <1>8, <1>9, <1>10 DEF IInv

LEMMA ReclusterCommitKeeps ==
  ASSUME IInv, ReclusterCommit
  PROVE  IInv'
<1> DEFINE s == snapshot + 1
           rows == DOMAIN maintenance.moved
           files == maintenance.files
           kept == DeletedFiles(data_files, rows, s)
           left == DeleteFrom(inlined, rows, s)
           added == [f \in DOMAIN files |-> DataFile(files[f], s)]
<1>1. /\ maintenance.step = "recluster_commit"
      /\ Committed(Extended(kept, added), left)
      /\ sort_key_set' = TRUE /\ Measureless("recluster_merge")
      /\ scheduled' = scheduled /\ next_file' = next_file /\ on_disk' = on_disk
      /\ writer' = writer /\ awaited' = awaited /\ swept' = swept
  BY DEF ReclusterCommit, At
<1>2. /\ s \in Nat /\ Catalog /\ Reclustered = DOMAIN files
      /\ \A f \in DOMAIN files : files[f] \in SUBSET Rows
  BY <1>1 DEF IInv, Catalog, Maintenance, Reclustered
<1>3. /\ DOMAIN kept = DOMAIN data_files /\ HolderAt(left, s)
      /\ \A f \in DOMAIN kept : FileAt(kept[f], s)
  BY <1>2, DeletedFilesTyped
<1>4. DOMAIN added = DOMAIN files /\ \A f \in DOMAIN added : FileAt(added[f], s)
  BY <1>2, NewFile
<1> HIDE DEF kept, left, added, files
<1>5. /\ DOMAIN Extended(kept, added) = DOMAIN data_files \cup DOMAIN files
      /\ \A f \in DOMAIN Extended(kept, added) : FileAt(Extended(kept, added)[f], s)
  BY <1>3, <1>4 DEF Extended
<1>6. sort_key_set' \in BOOLEAN
  BY <1>1, Zenon
<1>7. Catalog' /\ DOMAIN data_files' = DOMAIN data_files \cup DOMAIN files
  BY <1>1, <1>2, <1>3, <1>5, <1>6, CommittedCatalog DEF Committed
<1>8. Maintenance' /\ Reclustered' = {}
  <2>1. Maintenance /\ Maintaining
    BY <1>1 DEF IInv, Maintaining
  <2>2. ~ policy.dry_run
    BY <1>1 DEF IInv, Maintenance
  <2>3. \E step \in Steps \ {"idle", "recluster_commit"} : step # "cleanup" /\ Measureless(step)
    BY <1>1 DEF Steps
  <2> QED BY <2>1, <2>2, <2>3, MaintenanceGoes
<1>9. Writer' /\ Uncommitted' = Uncommitted
  BY <1>1 DEF IInv, Writer, Uncommitted
<1>10. Files' /\ Pending'
  BY <1>1, <1>2, <1>7, <1>8, <1>9 DEF IInv, Files, Pending
<1> QED BY <1>7, <1>8, <1>9, <1>10 DEF IInv

LEMMA ReclusterFailsKeeps ==
  ASSUME IInv, ReclusterFails
  PROVE  IInv'
<1>1. /\ UNCHANGED catalog /\ writer' = writer /\ awaited' = awaited /\ swept' = swept
      /\ Measureless("expire")
      /\ \/ on_disk' = on_disk
         \/ maintenance.step = "recluster_commit" /\ on_disk' = on_disk \ DOMAIN maintenance.files
      /\ Maintaining
  BY DEF ReclusterFails, At, Maintaining
<1>2. /\ data_files' = data_files /\ scheduled' = scheduled /\ next_file' = next_file
      /\ on_disk \ Reclustered \subseteq on_disk' /\ on_disk' \subseteq on_disk
  BY <1>1 DEF Reclustered, catalog
<1>3. Catalog'
  BY <1>1 DEF IInv, Catalog, catalog
<1>4. Maintenance' /\ Reclustered' = {}
  <2>1. Maintenance /\ Maintaining
    BY <1>1 DEF IInv
  <2>2. \E step \in Steps \ {"idle", "recluster_commit"} :
          step # "cleanup" /\ step # "recluster_merge" /\ Measureless(step)
    BY <1>1 DEF Steps
  <2> QED BY <2>1, <2>2, MaintenanceGoes
<1>5. Writer' /\ Uncommitted' = Uncommitted
  BY <1>1 DEF IInv, Writer, Uncommitted
<1>6. Files' /\ Pending'
  BY <1>1, <1>2, <1>4, <1>5 DEF IInv, Files, Pending
<1> QED BY <1>3, <1>4, <1>5, <1>6 DEF IInv

LEMMA StepsKeepInvariant == IInv /\ [Next]_vars => IInv'
<1> SUFFICES ASSUME IInv, [Next]_vars PROVE IInv'
  OBVIOUS
<1>1. ASSUME Write PROVE IInv'
  BY <1>1, BeginWriteKeeps, CommitWriteKeeps, AbandonWriteKeeps, CompactKeeps DEF Write
<1>2. ASSUME MaintainStep PROVE IInv'
  BY <1>2, MeasureKeeps, CompactStepsKeep, ExpiringStepsKeep, ReclusterBeginKeeps, ReclusterCommitKeeps,
     ReclusterFailsKeeps, DeleteOrphanedKeeps DEF MaintainStep
<1>3. ASSUME (\E chosen \in Policies : StartMaintain(chosen)) \/ MaintainStops PROVE IInv'
  BY <1>3, MeasureKeeps, ExpiringStepsKeep
<1>4. ASSUME UNCHANGED vars PROVE IInv'
  BY <1>4 DEF vars, catalog, IInv, Catalog, Files, Pending, Writer, Maintenance, Uncommitted,
              Reclustered, Maintaining, policy
<1> QED BY <1>1, <1>2, <1>3, <1>4 DEF Next

\* The types of the catalog, of the files and of the calls, for any writes and
\* maintenance: an id is given once, a file leaves the catalog when it is scheduled
\* for deletion, the latest snapshot is retained.
THEOREM TypesKept == Spec => []StorageTypeOK
BY InitInvariant, StepsKeepInvariant, InvariantTypes, PTL DEF Spec

\* No call of maintain, of recluster or of compact, however it interleaves with the
\* writer, fails or stops, takes from the disk a file that a retained snapshot
\* reads, but for delete_orphaned_files in front of an open transaction.
THEOREM NeededFilesStay == Spec => []OnlySweptFilesAreMissing
BY InitInvariant, StepsKeepInvariant, InvariantTypes, PTL DEF Spec

-----------------------------------------------------------------------------
(* What is destructive is opt-in                                            *)

LEMMA AddingIsHarmless ==
  ASSUME Adds
  PROVE  SnapshotsStay /\ FilesStay /\ PendingStays
BY DEF Adds, SnapshotsStay, FilesStay, PendingStays

LEMMA WritesAreOptIn ==
  ASSUME IInv, Write
  PROVE  OptIn
<1>1. maintenance' = maintenance
  BY DEF Write, BeginWrite, CommitWrite, AbandonWrite, CompactRewrite, CompactMerge, CompactStops
<1>2. DryRunIsDry
  BY <1>1 DEF DryRunIsDry
<1>3. ASSUME NEW request \in awaited, BeginWrite(request) PROVE SnapshotsStay /\ FilesStay /\ PendingStays
  BY <1>3 DEF BeginWrite, SnapshotsStay, FilesStay, PendingStays
<1>4. ASSUME CommitWrite PROVE SnapshotsStay /\ FilesStay /\ PendingStays
  BY <1>4 DEF CommitWrite, Committed, SnapshotsStay, FilesStay, PendingStays
<1>5. ASSUME NEW process_ends \in BOOLEAN, AbandonWrite(process_ends)
      PROVE  SnapshotsStay /\ FilesStay /\ PendingStays
  <2>1. /\ writer.status = "open" /\ writer' = Idle /\ snapshots' = snapshots
        /\ on_disk \ {writer.file} \subseteq on_disk'
    BY <1>5 DEF AbandonWrite, catalog
  <2>2. writer' # writer
    BY <2>1 DEF Idle
  <2>3. writer.file \notin DOMAIN data_files \cup scheduled
    <3>1. CASE writer.file = NULL
      <4>1. NULL \notin 1 .. next_file - 1
        BY StorageAssumption DEF IInv, Catalog
      <4> QED BY <3>1, <4>1 DEF IInv, Files
    <3>2. CASE writer.file # NULL
      <4>1. Uncommitted = {writer.file}
        BY <2>1, <3>2 DEF Uncommitted
      <4> QED BY <4>1 DEF IInv, Pending
    <3> QED BY <3>1, <3>2
  <2> QED BY <2>1, <2>2, <2>3 DEF SnapshotsStay, FilesStay, PendingStays
<1>6. ASSUME CompactRewrite \/ CompactMerge \/ CompactStops PROVE SnapshotsStay /\ FilesStay /\ PendingStays
  <2>1. NULL \in (Nat \ {0}) \cup { NULL }
    OBVIOUS
  <2>2. Adds
    BY <1>6, <2>1, RewriteAdds, MergeAdds, UnstoredAdds DEF CompactRewrite, CompactMerge, CompactStops, Unstored
  <2> QED BY <2>2, AddingIsHarmless
<1> QED BY <1>2, <1>3, <1>4, <1>5, <1>6 DEF Write, OptIn

LEMMA MaintenanceIsOptIn ==
  ASSUME IInv, MaintainStep \/ MaintainStops \/ \E chosen \in Policies : StartMaintain(chosen)
  PROVE  OptIn
<1>1. ASSUME Unstored PROVE OptIn
  BY <1>1 DEF Unstored, catalog, OptIn, SnapshotsStay, FilesStay, PendingStays, DryRunIsDry
<1>2. ASSUME FlushStep \/ RewriteStep \/ MergeStep \/ ReclusterMerge PROVE OptIn
  <2>1. SnapshotsStay /\ FilesStay /\ PendingStays
    BY <1>2, CompactStepsAdd, AddingIsHarmless
  <2>2. policy.dry_run => Unstored
    BY <1>2 DEF FlushStep, RewriteStep, MergeStep, ReclusterMerge, Skip, Runs, Fails, Unstored,
                At, IInv, Maintenance
  <2> QED BY <1>1, <2>1, <2>2 DEF OptIn, DryRunIsDry
<1>3. ASSUME ReclusterBegin \/ ReclusterCommit PROVE OptIn
  <2>1. ~ policy.dry_run
    BY <1>3 DEF ReclusterBegin, ReclusterCommit, At, IInv, Maintenance
  <2>2. snapshots \subseteq snapshots' /\ on_disk \subseteq on_disk'
    BY <1>3 DEF ReclusterBegin, ReclusterCommit, Committed
  <2> QED BY <2>1, <2>2 DEF OptIn, SnapshotsStay, FilesStay, PendingStays, DryRunIsDry
<1>4. ASSUME ReclusterFails PROVE OptIn
  <2>1. CASE on_disk' = on_disk
    BY <1>1, <1>4, <2>1 DEF ReclusterFails, Unstored
  <2>2. CASE on_disk' # on_disk
    <3>1. maintenance.step = "recluster_commit" /\ on_disk' = on_disk \ DOMAIN maintenance.files
          /\ UNCHANGED catalog
      BY <1>4, <2>2 DEF ReclusterFails, At
    <3>2. Reclustered = DOMAIN maintenance.files /\ ~ policy.dry_run
      BY <3>1 DEF Reclustered, IInv, Maintenance
    <3> QED BY <3>1, <3>2 DEF IInv, Pending, catalog, OptIn, SnapshotsStay, FilesStay, PendingStays, DryRunIsDry
  <2> QED BY <2>1, <2>2
<1>5. ASSUME ExpireStep PROVE OptIn
  <2>1. \/ Unstored
        \/ policy.retention # NULL /\ ~ policy.dry_run /\ expire_snapshots(policy.retention) /\ Maintaining
    BY <1>5 DEF ExpireStep, Fails, At, Maintaining
  <2>2. ASSUME ~ Unstored PROVE Expiring /\ on_disk' = on_disk /\ ~ policy.dry_run
    BY <2>1, <2>2 DEF Expiring, expire_snapshots, Retaining
  <2> QED BY <1>1, <2>2 DEF OptIn, SnapshotsStay, FilesStay, PendingStays, DryRunIsDry
<1>6. ASSUME CleanupStep PROVE OptIn
  <2>1. \/ Unstored
        \/ policy.retention # NULL /\ ~ policy.dry_run /\ cleanup_files /\ Maintaining
    BY <1>6 DEF CleanupStep, Fails, At, Maintaining, IInv, Maintenance
  <2>2. ASSUME ~ Unstored
        PROVE  Expiring /\ on_disk' = on_disk \ scheduled /\ ~ policy.dry_run /\ snapshots' = snapshots
    BY <2>1, <2>2 DEF Expiring, cleanup_files
  <2> QED BY <1>1, <2>2 DEF IInv, Pending, OptIn, SnapshotsStay, FilesStay, PendingStays, DryRunIsDry
<1>7. ASSUME DeleteOrphanedStep PROVE OptIn
  <2>1. \/ Unstored
        \/ policy.delete_orphaned /\ ~ policy.dry_run /\ delete_orphaned_files /\ Maintaining
    BY <1>7 DEF DeleteOrphanedStep, Fails, At, Maintaining
  <2>2. ASSUME ~ Unstored
        PROVE  Sweeping /\ on_disk' = on_disk \ Orphans /\ ~ policy.dry_run /\ snapshots' = snapshots
    BY <2>1, <2>2 DEF Sweeping, delete_orphaned_files, catalog
  <2> QED BY <1>1, <2>2 DEF Orphans, OptIn, SnapshotsStay, FilesStay, PendingStays, DryRunIsDry
<1>8. ASSUME Measure \/ SkipRecluster \/ MaintainStops \/ \E chosen \in Policies : StartMaintain(chosen)
      PROVE  OptIn
  BY <1>1, <1>8 DEF Measure, SkipRecluster, MaintainStops, StartMaintain, Unstored
<1> QED BY <1>2, <1>3, <1>4, <1>5, <1>6, <1>7, <1>8 DEF MaintainStep

\* Snapshots and files go only on the demand of a policy, whatever runs beside the
\* maintenance, and a dry run changes nothing.
THEOREM DestructionIsOptIn == Spec => OptInOnly
<1>1. IInv /\ [Next]_vars => [OptIn]_vars
  BY WritesAreOptIn, MaintenanceIsOptIn DEF Next
<1> QED BY <1>1, InitInvariant, StepsKeepInvariant, PTL DEF Spec, OptInOnly

-----------------------------------------------------------------------------
(* What a snapshot shows: each row once                                     *)

InFile(file, s, r) == ActiveAt(file, s) /\ r \in RowsAt(file, s)

\* Every row is in one file, or in the catalog, or nowhere.
OnceAt(files, in_catalog, s) ==
  /\ \A f, g \in DOMAIN files : \A r \in Rows :
       InFile(files[f], s, r) /\ InFile(files[g], s, r) => f = g
  /\ \A f \in DOMAIN files : \A r \in Rows :
       ~ (InFile(files[f], s, r) /\ r \in RowsAt(in_catalog, s))

VisibleAt(files, in_catalog, s) ==
  {r \in Rows : r \in RowsAt(in_catalog, s) \/ \E f \in DOMAIN files : InFile(files[f], s, r)}

Shown(rows) == [r \in Rows |-> IF r \in rows THEN 1 ELSE 0]

LEMMA ScanShows ==
  ASSUME NEW files, NEW in_catalog, NEW s, OnceAt(files, in_catalog, s),
         NEW disk, DOMAIN files \subseteq disk
  PROVE  Scan(Rows, files, in_catalog, disk, s) = Shown(VisibleAt(files, in_catalog, s))
<1> DEFINE Holding(r) == {f \in FilesAt(files, s) \cap disk : r \in RowsAt(files[f], s)}
           Extra(r) == IF r \in RowsAt(in_catalog, s) THEN 1 ELSE 0
<1>1. Scan(Rows, files, in_catalog, disk, s) = [r \in Rows |-> Cardinality(Holding(r)) + Extra(r)]
  BY DEF Scan
<1>2. \A r, f : f \in Holding(r) <=> f \in DOMAIN files /\ InFile(files[f], s, r)
  BY DEF FilesAt, InFile
<1> HIDE DEF Holding
<1>3. ASSUME NEW r \in Rows
      PROVE  Cardinality(Holding(r)) + Extra(r) = IF r \in VisibleAt(files, in_catalog, s) THEN 1 ELSE 0
  <2>1. CASE Holding(r) = {}
    <3>1. r \in VisibleAt(files, in_catalog, s) <=> r \in RowsAt(in_catalog, s)
      BY <1>2, <2>1 DEF VisibleAt
    <3> QED BY <2>1, <3>1, FS_EmptySet
  <2>2. CASE Holding(r) # {}
    <3>1. PICK f : f \in Holding(r)
      BY <2>2
    <3>2. Holding(r) = {f}
      BY <1>2, <3>1 DEF OnceAt
    <3>3. r \notin RowsAt(in_catalog, s) /\ r \in VisibleAt(files, in_catalog, s)
      BY <1>2, <3>1 DEF OnceAt, VisibleAt
    <3>4. Cardinality(Holding(r)) = 1
      BY <3>2, FS_Singleton
    <3> QED BY <3>3, <3>4
  <2> QED BY <2>1, <2>2
<1> HIDE DEF Extra
<1> QED BY <1>1, <1>3 DEF Shown

\* A table, at t, whose files are made of files of another, at s, without some rows.
Relocated(files, in_catalog, s, moved, left, t, gone, from) ==
  /\ from \in [DOMAIN moved -> SUBSET DOMAIN files]
  /\ \A f \in DOMAIN moved : \A r \in Rows :
       InFile(moved[f], t, r) <=> r \notin gone /\ \E g \in from[f] : InFile(files[g], s, r)
  /\ \A f, g \in DOMAIN moved : f # g => from[f] \cap from[g] = {}
  /\ \A g \in DOMAIN files : \A r \in Rows :
       InFile(files[g], s, r) /\ r \notin gone => \E f \in DOMAIN moved : g \in from[f]
  /\ \A r \in Rows : r \in RowsAt(left, t) <=> r \in RowsAt(in_catalog, s) /\ r \notin gone

LEMMA RelocatedTable ==
  ASSUME NEW files, NEW in_catalog, NEW s, OnceAt(files, in_catalog, s),
         NEW moved, NEW left, NEW t, NEW gone, NEW from,
         Relocated(files, in_catalog, s, moved, left, t, gone, from)
  PROVE  /\ OnceAt(moved, left, t)
         /\ VisibleAt(moved, left, t) = VisibleAt(files, in_catalog, s) \ gone
<1> USE DEF Relocated
<1>1. ASSUME NEW f \in DOMAIN moved, NEW g \in DOMAIN moved, NEW r \in Rows,
             InFile(moved[f], t, r), InFile(moved[g], t, r)
      PROVE  f = g
  <2>1. PICK h \in from[f] : InFile(files[h], s, r)
    BY <1>1
  <2>2. PICK k \in from[g] : InFile(files[k], s, r)
    BY <1>1
  <2>3. h = k
    BY <2>1, <2>2 DEF OnceAt
  <2> QED BY <2>1, <2>2, <2>3
<1>2. ASSUME NEW f \in DOMAIN moved, NEW r \in Rows, InFile(moved[f], t, r)
      PROVE  r \notin RowsAt(left, t)
  BY <1>2 DEF OnceAt
<1>3. \A r \in Rows : (\E f \in DOMAIN moved : InFile(moved[f], t, r))
                        <=> (\E g \in DOMAIN files : InFile(files[g], s, r)) /\ r \notin gone
  OBVIOUS
<1> QED BY <1>1, <1>2, <1>3 DEF OnceAt, VisibleAt

\* The same table, with files of other rows.
LEMMA ExtendedTable ==
  ASSUME NEW files, NEW in_catalog, NEW s, OnceAt(files, in_catalog, s),
         NEW added, DOMAIN added \cap DOMAIN files = {},
         NEW rows, 
         \A r \in Rows : r \in rows <=> \E f \in DOMAIN added : InFile(added[f], s, r),
         \A f, g \in DOMAIN added : \A r \in Rows :
           InFile(added[f], s, r) /\ InFile(added[g], s, r) => f = g,
         \A r \in rows : r \notin VisibleAt(files, in_catalog, s)
  PROVE  /\ OnceAt(Extended(files, added), in_catalog, s)
         /\ VisibleAt(Extended(files, added), in_catalog, s)
              = VisibleAt(files, in_catalog, s) \cup (rows \cap Rows)
<1> DEFINE extended == Extended(files, added)
<1>1. /\ DOMAIN extended = DOMAIN files \cup DOMAIN added
      /\ \A f \in DOMAIN files : extended[f] = files[f]
      /\ \A f \in DOMAIN added : extended[f] = added[f]
  BY DEF Extended
<1> HIDE DEF extended
<1>2. ASSUME NEW r \in Rows
      PROVE  (\E f \in DOMAIN extended : InFile(extended[f], s, r))
               <=> (\E f \in DOMAIN files : InFile(files[f], s, r)) \/ r \in rows
  BY <1>1
<1>3. \A f \in DOMAIN added : \A r \in Rows :
        InFile(added[f], s, r) => /\ r \notin RowsAt(in_catalog, s)
                                  /\ \A g \in DOMAIN files : ~ InFile(files[g], s, r)
  BY DEF VisibleAt
<1>4. OnceAt(extended, in_catalog, s)
  BY <1>1, <1>3 DEF OnceAt
<1>5. VisibleAt(extended, in_catalog, s) = VisibleAt(files, in_catalog, s) \cup (rows \cap Rows)
  BY <1>2 DEF VisibleAt
<1> QED BY <1>4, <1>5 DEF extended

\* Nothing happens between the last commit and the next one.
LEMMA SteadyHolder ==
  ASSUME NEW last \in Nat, NEW holder, HolderAt(holder, last), NEW s \in {last, last + 1}
  PROVE  RowsAt(holder, s) = Live(holder)
BY DEF HolderAt, Stamped, RowsAt, Live

LEMMA SteadyFile ==
  ASSUME NEW last \in Nat, NEW file, FileAt(file, last), NEW s \in {last, last + 1}, NEW r
  PROVE  InFile(file, s, r) <=> file.end = NULL /\ r \in Live(file)
<1>1. RowsAt(file, s) = Live(file)
  BY SteadyHolder DEF FileAt
<1>2. ActiveAt(file, s) <=> file.end = NULL
  <2>1. file.begin \in 0 .. last /\ file.end \in 0 .. last \cup { NULL } /\ NULL \notin Nat
    BY StorageAssumption DEF FileAt
  <2> QED BY <2>1 DEF ActiveAt
<1> QED BY <1>1, <1>2 DEF InFile

LEMMA SteadyTable ==
  ASSUME NEW last \in Nat, NEW files, \A f \in DOMAIN files : FileAt(files[f], last),
         NEW in_catalog, HolderAt(in_catalog, last), OnceAt(files, in_catalog, last)
  PROVE  /\ OnceAt(files, in_catalog, last + 1)
         /\ VisibleAt(files, in_catalog, last + 1) = VisibleAt(files, in_catalog, last)
<1>1. \A f \in DOMAIN files : \A r \in Rows : InFile(files[f], last + 1, r) <=> InFile(files[f], last, r)
  BY SteadyFile
<1>2. RowsAt(in_catalog, last + 1) = RowsAt(in_catalog, last)
  BY SteadyHolder
<1> QED BY <1>1, <1>2 DEF OnceAt, VisibleAt

\* A DELETE: the past is as it was, the next snapshot is without the rows.
LEMMA DeletedHolderShows ==
  ASSUME NEW last \in Nat, NEW holder, HolderAt(holder, last), NEW rows
  PROVE  /\ \A s \in 0 .. last : RowsAt(DeleteFrom(holder, rows, last + 1), s) = RowsAt(holder, s)
         /\ RowsAt(DeleteFrom(holder, rows, last + 1), last + 1) = Live(holder) \ rows
<1> DEFINE left == DeleteFrom(holder, rows, last + 1)
           gone == left.gone
<1>1. left.born = holder.born /\ gone = Extended(holder.gone, Stored(rows \cap Live(holder), last + 1))
  BY DeletedHolder
<1>2. /\ DOMAIN gone = DOMAIN holder.gone \cup (rows \cap Live(holder))
      /\ \A r \in DOMAIN holder.gone : gone[r] = holder.gone[r]
      /\ \A r \in rows \cap Live(holder) : gone[r] = last + 1
  BY <1>1 DEF Extended, Stored, Live
<1>3. /\ \A r \in DOMAIN holder.born : holder.born[r] \in 0 .. last
      /\ \A r \in DOMAIN holder.gone : holder.gone[r] \in 0 .. last
  BY DEF HolderAt, Stamped
<1> HIDE DEF left, gone
<1>4. ASSUME NEW s \in 0 .. last, NEW r \in DOMAIN holder.born
      PROVE  (r \in DOMAIN gone => s < gone[r]) <=> (r \in DOMAIN holder.gone => s < holder.gone[r])
  BY <1>2
<1>5. \A r \in DOMAIN holder.born :
        (holder.born[r] <= last + 1 /\ (r \in DOMAIN gone => last + 1 < gone[r])) <=> r \in Live(holder) \ rows
  BY <1>2, <1>3 DEF Live
<1>6. \A s : RowsAt(left, s) = {r \in DOMAIN holder.born : holder.born[r] <= s /\ (r \in DOMAIN gone => s < gone[r])}
  BY <1>1 DEF RowsAt, gone
<1>7. \A s \in 0 .. last : RowsAt(left, s) = RowsAt(holder, s)
  BY <1>4, <1>6 DEF RowsAt
<1>8. RowsAt(left, last + 1) = Live(holder) \ rows
  BY <1>5, <1>6 DEF Live
<1> QED BY <1>7, <1>8 DEF left

LEMMA DeletedFileShows ==
  ASSUME NEW last \in Nat, NEW files, \A f \in DOMAIN files : FileAt(files[f], last), NEW rows,
         NEW f \in DOMAIN files, NEW r
  PROVE  /\ \A s \in 0 .. last :
              InFile(DeletedFiles(files, rows, last + 1)[f], s, r) <=> InFile(files[f], s, r)
         /\ InFile(DeletedFiles(files, rows, last + 1)[f], last + 1, r)
              <=> InFile(files[f], last, r) /\ r \notin rows
<1> DEFINE file    == files[f]
           deleted == DeletedFiles(files, rows, last + 1)[f]
           ended   == [file EXCEPT !.end = last + 1]
           shorter == DeleteFrom(file, rows, last + 1)
           Goal(d) == /\ \A s \in 0 .. last : InFile(d, s, r) <=> InFile(file, s, r)
                      /\ InFile(d, last + 1, r) <=> InFile(file, last, r) /\ r \notin rows
<1>1. deleted = IF file.end # NULL \/ rows \cap Live(file) = {} THEN file
                ELSE IF Live(file) \subseteq rows THEN ended
                ELSE shorter
  BY DEF DeletedFiles
<1>2. FileAt(file, last) /\ HolderAt(file, last) /\ {"begin", "end"} \subseteq DOMAIN file
  BY DEF FileAt
<1> HIDE DEF file, deleted
<1>3. /\ InFile(file, last, r) <=> file.end = NULL /\ r \in Live(file)
      /\ InFile(file, last + 1, r) <=> file.end = NULL /\ r \in Live(file)
  BY <1>2, SteadyFile
<1>4. CASE file.end # NULL \/ rows \cap Live(file) = {}
  <2>1. Goal(file)
    BY <1>3, <1>4
  <2> QED BY <1>1, <1>4, <2>1 DEF deleted, file
<1>5. CASE file.end = NULL /\ Live(file) \subseteq rows
  <2>1. /\ ended.born = file.born /\ ended.gone = file.gone /\ ended.begin = file.begin
        /\ ended.end = last + 1 /\ NULL \notin Nat
    BY <1>2, StorageAssumption DEF HolderAt
  <2> HIDE DEF ended
  <2>2. \A s \in 0 .. last + 1 : RowsAt(ended, s) = RowsAt(file, s)
    BY <2>1 DEF RowsAt
  <2>3. \A s \in 0 .. last : ActiveAt(ended, s) <=> ActiveAt(file, s)
    BY <1>5, <2>1 DEF ActiveAt
  <2>4. ~ ActiveAt(ended, last + 1)
    BY <2>1 DEF ActiveAt
  <2>5. Goal(ended)
    BY <1>3, <1>5, <2>2, <2>3, <2>4 DEF InFile
  <2>6. deleted = ended \/ (deleted = file /\ rows \cap Live(file) = {})
    BY <1>1, <1>5
  <2> QED BY <1>4, <1>5, <2>5, <2>6 DEF deleted, file
<1>6. CASE file.end = NULL /\ ~ (Live(file) \subseteq rows) /\ rows \cap Live(file) # {}
  <2>1. /\ shorter.begin = file.begin /\ shorter.end = file.end
        /\ \A s \in 0 .. last : RowsAt(shorter, s) = RowsAt(file, s)
        /\ RowsAt(shorter, last + 1) = Live(file) \ rows
    <3>1. shorter.begin = file.begin /\ shorter.end = file.end
      <4>1. HolderAt(file, last) /\ "begin" \in DOMAIN file /\ "end" \in DOMAIN file
        BY <1>2
      <4>2. \E gone : shorter = [file EXCEPT !.gone = gone]
        BY DEF DeleteFrom
      <4> HIDE DEF shorter
      <4> QED BY <4>1, <4>2
    <3>2. /\ \A s \in 0 .. last : RowsAt(shorter, s) = RowsAt(file, s)
          /\ RowsAt(shorter, last + 1) = Live(file) \ rows
      BY <1>2, DeletedHolderShows
    <3> QED BY <3>1, <3>2
  <2> HIDE DEF shorter
  <2>2. /\ \A s : ActiveAt(shorter, s) <=> ActiveAt(file, s)
        /\ ActiveAt(shorter, last + 1)
    <3>1. file.begin \in 0 .. last
      BY <1>2 DEF FileAt
    <3> QED BY <1>6, <2>1, <3>1 DEF ActiveAt
  <2>3. Goal(shorter)
    BY <1>3, <1>6, <2>1, <2>2 DEF InFile
  <2> QED BY <1>1, <1>6, <2>3 DEF deleted, file
<1> QED BY <1>4, <1>5, <1>6

LEMMA DeletedTable ==
  ASSUME NEW last \in Nat, NEW files, \A f \in DOMAIN files : FileAt(files[f], last),
         NEW in_catalog, HolderAt(in_catalog, last), NEW rows,
         NEW moved, moved = DeletedFiles(files, rows, last + 1),
         NEW left, left = DeleteFrom(in_catalog, rows, last + 1)
  PROVE  /\ \A s \in 0 .. last : OnceAt(files, in_catalog, s) =>
              /\ OnceAt(moved, left, s)
              /\ VisibleAt(moved, left, s) = VisibleAt(files, in_catalog, s)
         /\ OnceAt(files, in_catalog, last) =>
              /\ OnceAt(moved, left, last + 1)
              /\ VisibleAt(moved, left, last + 1) = VisibleAt(files, in_catalog, last) \ rows
<1>1. DOMAIN moved = DOMAIN files
  BY DEF DeletedFiles
<1>2. \A f \in DOMAIN files : \A r :
        /\ \A s \in 0 .. last : InFile(moved[f], s, r) <=> InFile(files[f], s, r)
        /\ InFile(moved[f], last + 1, r) <=> InFile(files[f], last, r) /\ r \notin rows
  BY DeletedFileShows
<1>3. /\ \A s \in 0 .. last : RowsAt(left, s) = RowsAt(in_catalog, s)
      /\ RowsAt(left, last + 1) = RowsAt(in_catalog, last) \ rows
  BY DeletedHolderShows, SteadyHolder
<1>4. ASSUME NEW s \in 0 .. last, OnceAt(files, in_catalog, s)
      PROVE  OnceAt(moved, left, s) /\ VisibleAt(moved, left, s) = VisibleAt(files, in_catalog, s)
  <2>1. OnceAt(moved, left, s)
    BY <1>1, <1>2, <1>3, <1>4 DEF OnceAt
  <2>2. VisibleAt(moved, left, s) = VisibleAt(files, in_catalog, s)
    BY <1>1, <1>2, <1>3 DEF VisibleAt
  <2> QED BY <2>1, <2>2
<1>5. ASSUME OnceAt(files, in_catalog, last)
      PROVE  /\ OnceAt(moved, left, last + 1)
             /\ VisibleAt(moved, left, last + 1) = VisibleAt(files, in_catalog, last) \ rows
  <2>1. OnceAt(moved, left, last + 1)
    BY <1>1, <1>2, <1>3, <1>5 DEF OnceAt
  <2>2. VisibleAt(moved, left, last + 1) = VisibleAt(files, in_catalog, last) \ rows
    BY <1>1, <1>2, <1>3 DEF VisibleAt
  <2> QED BY <2>1, <2>2
<1> QED BY <1>4, <1>5

\* The files of an INSERT, which no snapshot of the past reads.
LEMMA NewFileShows ==
  ASSUME NEW s \in Nat, NEW rows, NEW t \in 0 .. s, NEW r
  PROVE  InFile(DataFile(rows, s), t, r) <=> t = s /\ r \in rows
<1>1. RowsAt(DataFile(rows, s), t) = {q \in rows : s <= t}
  BY DEF RowsAt, DataFile, Stored
<1>2. ActiveAt(DataFile(rows, s), t) <=> s <= t
  BY DEF ActiveAt, DataFile
<1> QED BY <1>1, <1>2 DEF InFile

\* The catalog after a procedure: where each output is.
Placed(kept, n, outputs, in_catalog) ==
  /\ DOMAIN data_files' = DOMAIN kept \cup NewIds
  /\ NewIds \cap DOMAIN data_files = {}
  /\ \A f \in DOMAIN kept : data_files'[f] = kept[f]
  /\ \A f \in NewIds : f - next_file + 1 \in 1 .. n /\ data_files'[f] = outputs[f - next_file + 1]
  /\ \A i \in 1 .. n : \E f \in NewIds : f - next_file + 1 = i
  /\ \A f, g \in NewIds : f # g => f - next_file + 1 # g - next_file + 1
  /\ snapshot' = snapshot + 1 /\ snapshots' = snapshots \cup {snapshot + 1}
  /\ inlined' = in_catalog

LEMMA ReorganisedFiles ==
  ASSUME IInv, NEW kept, DOMAIN kept \subseteq DOMAIN data_files,
         NEW n \in Nat, NEW S, NEW outputs \in [1 .. n -> S],
         NEW in_catalog, Reorganised(kept, outputs, in_catalog)
  PROVE  Placed(kept, n, outputs, in_catalog)
<1>1. Len(outputs) = n
  BY Listed
<1>2. next_file \in Nat /\ next_file' = next_file + n
  BY <1>1 DEF Reorganised, IInv, Catalog
<1>3. NewFiles(outputs) = NewIds
  <2>1. NewFiles(outputs) = next_file .. next_file + n - 1
    BY <1>1 DEF NewFiles
  <2>2. next_file' - 1 = next_file + n - 1
    BY <1>2
  <2>3. NewIds = next_file .. next_file + n - 1
    BY <2>2 DEF NewIds
  <2> QED BY <2>1, <2>3
<1>4. /\ \A f \in NewIds : f - next_file + 1 \in 1 .. n
      /\ \A i \in 1 .. n : next_file + (i - 1) \in NewIds /\ (next_file + (i - 1)) - next_file + 1 = i
      /\ \A f, g \in NewIds : f # g => f - next_file + 1 # g - next_file + 1
  BY <1>2 DEF NewIds
<1>5. data_files' = Extended(kept, Numbered(outputs))
  BY DEF Reorganised, Committed
<1>6. DOMAIN Numbered(outputs) = NewIds
      /\ \A f \in NewIds : Numbered(outputs)[f] = outputs[f - next_file + 1]
  BY <1>3 DEF Numbered
<1>7. NewIds \cap DOMAIN data_files = {}
  BY NewIdsAreNew
<1>8. /\ DOMAIN data_files' = DOMAIN kept \cup NewIds
      /\ \A f \in DOMAIN kept : data_files'[f] = kept[f]
      /\ \A f \in NewIds : data_files'[f] = outputs[f - next_file + 1]
  BY <1>5, <1>6, <1>7 DEF Extended
<1>9. snapshot' = snapshot + 1 /\ snapshots' = snapshots \cup {snapshot + 1} /\ inlined' = in_catalog
  BY DEF Reorganised, Committed
<1> QED BY <1>4, <1>7, <1>8, <1>9 DEF Placed

LEMMA MergedShows ==
  ASSUME NEW last \in Nat, NEW files, \A f \in DOMAIN files : FileAt(files[f], last),
         NEW group \in (SUBSET DOMAIN files) \ {{}},
         \A f \in group : files[f].end = NULL /\ DOMAIN files[f].gone = {},
         \A f, g \in group : f # g => DOMAIN files[f].born \cap DOMAIN files[g].born = {},
         NEW s \in Nat, NEW r
  PROVE  InFile(MergedFile(files, group), s, r) <=> \E f \in group : InFile(files[f], s, r)
<1> DEFINE begins == {files[f].begin : f \in group}
           merged == MergedFile(files, group)
           Source(q) == CHOOSE f \in group : q \in DOMAIN files[f].born
           rows == UNION {DOMAIN files[f].born : f \in group}
<1>1. begins \in SUBSET Nat /\ begins # {}
  BY DEF FileAt
<1>2. Min(begins) \in Nat /\ \A f \in group : Min(begins) <= files[f].begin
  BY <1>1, LeastOf
<1>3. merged = [ born |-> [q \in rows |-> files[Source(q)].born[q]], gone |-> Stored({}, 0),
                 begin |-> Min(begins), end |-> NULL ]
  BY DEF MergedFile
<1>4. /\ merged.end = NULL /\ merged.begin = Min(begins)
      /\ DOMAIN merged.gone = {} /\ DOMAIN merged.born = rows
      /\ \A q \in rows : merged.born[q] = files[Source(q)].born[q]
  BY <1>3 DEF Stored
<1>5. \A q \in rows : Source(q) \in group /\ q \in DOMAIN files[Source(q)].born
  OBVIOUS
<1>6. ASSUME NEW f \in group
      PROVE  InFile(files[f], s, r) <=> r \in DOMAIN files[f].born /\ files[f].born[r] <= s
  <2>1. files[f].begin \in Nat
        /\ \A q \in DOMAIN files[f].born : files[f].begin <= files[f].born[q] /\ files[f].born[q] \in Nat
    BY DEF FileAt, HolderAt, Stamped
  <2>2. files[f].end = NULL /\ DOMAIN files[f].gone = {}
    OBVIOUS
  <2> QED BY <2>1, <2>2 DEF InFile, ActiveAt, RowsAt
<1>7. /\ \A q \in rows : merged.born[q] \in Nat
      /\ \A f \in group : \A q \in DOMAIN files[f].born :
           files[f].begin <= files[f].born[q] /\ files[f].begin \in Nat
  BY <1>4, <1>5 DEF FileAt, HolderAt, Stamped
<1> HIDE DEF begins, merged, Source
<1>8. InFile(merged, s, r) <=> merged.begin <= s /\ r \in rows /\ merged.born[r] <= s
  BY <1>4 DEF InFile, ActiveAt, RowsAt
<1>9. ASSUME r \in rows PROVE merged.begin <= merged.born[r]
  <2>1. merged.born[r] = files[Source(r)].born[r] /\ Source(r) \in group /\ r \in DOMAIN files[Source(r)].born
    BY <1>4, <1>5, <1>9
  <2>2. files[Source(r)].begin <= files[Source(r)].born[r] /\ files[Source(r)].begin \in Nat
    BY <1>7, <2>1
  <2>3. Min(begins) <= files[Source(r)].begin
    BY <1>2, <2>1
  <2> QED BY <1>2, <1>4, <1>7, <1>9, <2>1, <2>2, <2>3
<1>10. InFile(merged, s, r) <=> r \in rows /\ merged.born[r] <= s
  <2>1. \A a, b \in Nat : a <= b /\ b <= s => a <= s
    OBVIOUS
  <2> QED BY <1>2, <1>4, <1>7, <1>8, <1>9, <2>1
<1>11. ASSUME NEW f \in group, r \in DOMAIN files[f].born
       PROVE  r \in rows /\ merged.born[r] = files[f].born[r]
  <2>1. r \in rows
    BY <1>11
  <2>2. Source(r) = f
    BY <1>5, <1>11, <2>1
  <2> QED BY <1>4, <2>1, <2>2
<1>12. r \in rows => \E f \in group : r \in DOMAIN files[f].born
  OBVIOUS
<1> HIDE DEF rows
<1> QED BY <1>6, <1>10, <1>11, <1>12 DEF merged

-----------------------------------------------------------------------------
(* What the procedures show                                                 *)

Single == \A s \in snapshots : OnceAt(data_files, inlined, s)
InlinedGone == DOMAIN inlined.gone \subseteq DOMAIN inlined.born

\* The retained snapshots show what they showed.
PastKept ==
  \A s \in snapshots \cap snapshots' :
    /\ OnceAt(data_files', inlined', s)
    /\ VisibleAt(data_files', inlined', s) = VisibleAt(data_files, inlined, s)

\* A commit that reorganises the files.
Reorganises ==
  /\ snapshot' = snapshot + 1 /\ snapshots' = snapshots \cup {snapshot + 1}
  /\ PastKept
  /\ OnceAt(data_files', inlined', snapshot + 1)
  /\ VisibleAt(data_files', inlined', snapshot + 1) = VisibleAt(data_files, inlined, snapshot)
  /\ Inserted' \subseteq Inserted
  /\ InlinedGone'

LEMMA MergeReorganises ==
  ASSUME IInv, Single, InlinedGone, NEW newer_than, NEW max_compacted_files \in (Nat \ {0}) \cup { NULL },
         merge_files(newer_than, max_compacted_files)
  PROVE  Unstored \/ Reorganises
<1> DEFINE groups == MergedGroups(newer_than, max_compacted_files)
           kept == Restrict(data_files, DOMAIN data_files \ Sources(groups))
           n == Len(groups)
           outputs == [i \in 1 .. n |-> MergedFile(data_files, groups[i])]
           S == {MergedFile(data_files, groups[i]) : i \in 1 .. n}
<1>1. CASE ~ Feasible(groups)
  BY <1>1 DEF merge_files, MergedGroups
<1>2. CASE Feasible(groups)
  <2>1. Reorganised(kept, outputs, inlined)
    BY <1>2 DEF merge_files, MergedGroups
  <2>2. IsGrouping(groups, Unmarked)
    BY ProcedureGroups
  <2> HIDE DEF groups
  <2>3. snapshot \in Nat /\ snapshots \subseteq 0 .. snapshot /\ snapshot \in snapshots
        /\ HolderAt(inlined, snapshot)
        /\ \A f \in DOMAIN data_files : FileAt(data_files[f], snapshot)
    BY DEF IInv, Catalog
  <2>4. /\ n \in Nat /\ Sources(groups) \subseteq Unmarked /\ Unmarked \subseteq DOMAIN data_files
        /\ \A i \in 1 .. n : groups[i] \subseteq Sources(groups) /\ groups[i] # {}
        /\ \A i, j \in 1 .. n : i # j => groups[i] \cap groups[j] = {}
        /\ \A f \in Sources(groups) : \E i \in 1 .. n : f \in groups[i]
    <3>1. Unmarked \subseteq DOMAIN data_files
      BY DEF Unmarked, Active
    <3>2. \A i, j \in DOMAIN groups : i # j => groups[i] \cap groups[j] = {}
      BY <2>2 DEF IsGrouping
    <3> QED BY <2>2, <3>1, <3>2, GroupingFacts
  <2>5. outputs \in [1 .. n -> S] /\ DOMAIN kept \subseteq DOMAIN data_files
        /\ DOMAIN kept = DOMAIN data_files \ Sources(groups)
        /\ \A f \in DOMAIN kept : kept[f] = data_files[f]
        /\ \A i \in 1 .. n : outputs[i] = MergedFile(data_files, groups[i])
    BY DEF Restrict
  <2> HIDE DEF kept, outputs, n, S
  <2>6. Placed(kept, n, outputs, inlined)
    BY <2>1, <2>4, <2>5, ReorganisedFiles
  <2>17. ASSUME NEW f \in NewIds
         PROVE  /\ f - next_file + 1 \in 1 .. n
                /\ data_files'[f] = MergedFile(data_files, groups[f - next_file + 1])
    <3>1. f - next_file + 1 \in 1 .. n /\ data_files'[f] = outputs[f - next_file + 1]
      BY <2>6 DEF Placed
    <3>2. outputs[f - next_file + 1] = MergedFile(data_files, groups[f - next_file + 1])
      <4>1. PICK i \in 1 .. n : i = f - next_file + 1
        BY <3>1
      <4>2. outputs[i] = MergedFile(data_files, groups[i])
        BY DEF outputs
      <4> QED BY <4>1, <4>2
    <3> QED BY <3>1, <3>2
  <2>18. /\ DOMAIN data_files' = DOMAIN kept \cup NewIds /\ NewIds \cap DOMAIN data_files = {}
         /\ \A f \in DOMAIN kept : data_files'[f] = data_files[f]
         /\ \A i \in 1 .. n : \E f \in NewIds : f - next_file + 1 = i
         /\ \A f, g \in NewIds : f # g => f - next_file + 1 # g - next_file + 1
         /\ snapshot' = snapshot + 1 /\ snapshots' = snapshots \cup {snapshot + 1} /\ inlined' = inlined
    BY <2>5, <2>6 DEF Placed
  <2> DEFINE from == [f \in DOMAIN data_files' |-> IF f \in NewIds THEN groups[f - next_file + 1] ELSE {f}]
  <2>7. \A f, g \in Unmarked : f # g => DOMAIN data_files[f].born \cap DOMAIN data_files[g].born = {}
    <3>1. \A f \in Unmarked : \A r \in DOMAIN data_files[f].born : r \in Rows /\ InFile(data_files[f], snapshot, r)
      BY <2>3, SteadyFile DEF Unmarked, Active, Live, FileAt, HolderAt, Stamped
    <3> QED BY <2>3, <2>4, <3>1 DEF Single, OnceAt
  <2>8. ASSUME NEW i \in 1 .. n, NEW s \in Nat, NEW r
        PROVE  InFile(MergedFile(data_files, groups[i]), s, r) <=> \E f \in groups[i] : InFile(data_files[f], s, r)
    <3>1. groups[i] \in (SUBSET DOMAIN data_files) \ {{}} /\ groups[i] \subseteq Unmarked
      BY <2>4
    <3>2. \A f \in groups[i] : data_files[f].end = NULL /\ DOMAIN data_files[f].gone = {}
      BY <3>1 DEF Unmarked, Active
    <3>3. \A f, g \in groups[i] : f # g => DOMAIN data_files[f].born \cap DOMAIN data_files[g].born = {}
      BY <2>7, <3>1
    <3> QED BY <2>3, <3>1, <3>2, <3>3, MergedShows
  <2>9. /\ from \in [DOMAIN data_files' -> SUBSET DOMAIN data_files]
        /\ \A f \in NewIds : from[f] = groups[f - next_file + 1]
        /\ \A f \in DOMAIN kept : from[f] = {f}
    BY <2>4, <2>5, <2>17, <2>18
  <2> HIDE DEF from
  <2>10. \A f, g \in DOMAIN data_files' : f # g => from[f] \cap from[g] = {}
    <3>1. ASSUME NEW f \in NewIds, NEW g \in NewIds, f # g PROVE from[f] \cap from[g] = {}
      <4>1. f - next_file + 1 # g - next_file + 1
        BY <2>18, <3>1
      <4> QED BY <2>4, <2>9, <2>17, <4>1
    <3>2. ASSUME NEW f \in NewIds, NEW g \in DOMAIN kept PROVE from[f] \cap from[g] = {}
      BY <2>4, <2>5, <2>9, <2>17
    <3>3. ASSUME NEW f \in DOMAIN kept, NEW g \in DOMAIN kept, f # g PROVE from[f] \cap from[g] = {}
      BY <2>9, <3>3
    <3> QED BY <2>18, <3>1, <3>2, <3>3
  <2>11. \A g \in DOMAIN data_files : \E f \in DOMAIN data_files' : g \in from[f]
    <3>1. ASSUME NEW g \in Sources(groups) PROVE \E f \in DOMAIN data_files' : g \in from[f]
      BY <2>4, <2>9, <2>18
    <3> QED BY <2>5, <2>9, <2>18, <3>1
  <2>12. ASSUME NEW s \in Nat, NEW f \in DOMAIN data_files', NEW r
         PROVE  InFile(data_files'[f], s, r) <=> \E g \in from[f] : InFile(data_files[g], s, r)
    <3>1. CASE f \in NewIds
      <4>1. PICK i \in 1 .. n : i = f - next_file + 1
        BY <2>17, <3>1
      <4>2. data_files'[f] = MergedFile(data_files, groups[i]) /\ from[f] = groups[i]
        BY <2>9, <2>17, <3>1, <4>1
      <4> QED BY <2>8, <4>2
    <3>2. CASE f \in DOMAIN kept
      BY <2>9, <2>18, <3>2
    <3> QED BY <2>18, <3>1, <3>2
  <2>13. ASSUME NEW s \in snapshots
         PROVE  /\ OnceAt(data_files', inlined', s)
                /\ VisibleAt(data_files', inlined', s) = VisibleAt(data_files, inlined, s)
    <3> DEFINE gone == {}
    <3>1. s \in Nat /\ OnceAt(data_files, inlined, s)
      BY <2>3 DEF Single
    <3>2. /\ \A f \in DOMAIN data_files' : \A r \in Rows :
               InFile(data_files'[f], s, r) <=> r \notin gone /\ \E g \in from[f] : InFile(data_files[g], s, r)
          /\ \A r \in Rows : r \in RowsAt(inlined', s) <=> r \in RowsAt(inlined, s) /\ r \notin gone
          /\ \A X : X \ gone = X
      BY <2>12, <2>18, <3>1
    <3> HIDE DEF gone
    <3>3. Relocated(data_files, inlined, s, data_files', inlined', s, gone, from)
      BY <2>9, <2>10, <2>11, <3>2 DEF Relocated
    <3> QED BY <3>1, <3>2, <3>3, RelocatedTable
  <2>14. \A f \in DOMAIN data_files' : FileAt(data_files'[f], snapshot)
    <3>1. \A i \in 1 .. n : FileAt(MergedFile(data_files, groups[i]), snapshot)
      BY <2>3, <2>4, MergedTyped
    <3>2. ASSUME NEW f \in NewIds PROVE FileAt(data_files'[f], snapshot)
      BY <2>17, <3>1
    <3> QED BY <2>3, <2>5, <2>18, <3>2
  <2>15. /\ OnceAt(data_files', inlined', snapshot + 1)
         /\ VisibleAt(data_files', inlined', snapshot + 1) = VisibleAt(data_files, inlined, snapshot)
    BY <2>3, <2>13, <2>14, <2>18, SteadyTable
  <2>16. Inserted' \subseteq Inserted
    <3>1. \A i \in 1 .. n : DOMAIN MergedFile(data_files, groups[i]).born = UNION {DOMAIN data_files[f].born : f \in groups[i]}
      BY DEF MergedFile
    <3>2. ASSUME NEW f \in NewIds PROVE DOMAIN data_files'[f].born \subseteq Inserted
      BY <2>4, <2>17, <3>1 DEF Inserted
    <3>3. ASSUME NEW f \in DOMAIN kept PROVE DOMAIN data_files'[f].born \subseteq Inserted
      BY <2>5, <2>18 DEF Inserted
    <3>4. DOMAIN inlined'.born \subseteq Inserted
      BY <2>18 DEF Inserted
    <3>5. Inserted' = DOMAIN inlined'.born \cup UNION {DOMAIN data_files'[f].born : f \in DOMAIN data_files'}
      BY DEF Inserted
    <3> QED BY <2>18, <3>2, <3>3, <3>4, <3>5
  <2> QED BY <2>18, <2>13, <2>15, <2>16 DEF Reorganises, PastKept, InlinedGone
<1> QED BY <1>1, <1>2

LEMMA EndedShows ==
  ASSUME NEW last \in Nat, NEW file, FileAt(file, last), file.end = NULL, NEW r
  PROVE  /\ \A s \in 0 .. last : InFile([file EXCEPT !.end = last + 1], s, r) <=> InFile(file, s, r)
         /\ ~ InFile([file EXCEPT !.end = last + 1], last + 1, r)
         /\ [file EXCEPT !.end = last + 1].born = file.born
<1> DEFINE ended == [file EXCEPT !.end = last + 1]
<1>1. {"born", "gone", "begin", "end"} \subseteq DOMAIN file /\ NULL \notin Nat
  BY StorageAssumption DEF FileAt, HolderAt
<1>2. /\ ended.born = file.born /\ ended.gone = file.gone /\ ended.begin = file.begin
      /\ ended.end = last + 1
  BY <1>1
<1> HIDE DEF ended
<1>3. \A s : RowsAt(ended, s) = RowsAt(file, s)
  BY <1>2 DEF RowsAt
<1>4. \A s \in 0 .. last : ActiveAt(ended, s) <=> ActiveAt(file, s)
  BY <1>1, <1>2 DEF ActiveAt
<1>5. ~ ActiveAt(ended, last + 1)
  BY <1>1, <1>2 DEF ActiveAt
<1>6. /\ \A s \in 0 .. last : InFile(ended, s, r) <=> InFile(file, s, r)
      /\ ~ InFile(ended, last + 1, r)
  BY <1>3, <1>4, <1>5 DEF InFile
<1> QED BY <1>2, <1>6 DEF ended

LEMMA RewriteReorganises ==
  ASSUME IInv, Single, InlinedGone, NEW delete_threshold, NEW max_compacted_files \in (Nat \ {0}) \cup { NULL },
         rewrite_data_files(delete_threshold, max_compacted_files)
  PROVE  Unstored \/ Reorganises
<1> DEFINE groups == RewrittenGroups(delete_threshold, max_compacted_files)
           next == snapshot + 1
           sources == Sources(groups)
           kept == Ended(sources, next)
           n == Len(groups)
           Rewritten(i) == UNION {Live(data_files[f]) : f \in groups[i]}
           outputs == [i \in 1 .. n |-> DataFile(Rewritten(i), next)]
           S == {DataFile(Rewritten(i), next) : i \in 1 .. n}
<1>1. CASE ~ Feasible(groups)
  BY <1>1 DEF rewrite_data_files, RewrittenGroups
<1>2. CASE Feasible(groups)
  <2>1. Reorganised(kept, outputs, inlined)
    BY <1>2 DEF rewrite_data_files, RewrittenGroups
  <2>2. IsGrouping(groups, Active(data_files))
    BY ProcedureGroups
  <2> HIDE DEF groups
  <2>3. snapshot \in Nat /\ snapshots \subseteq 0 .. snapshot /\ snapshot \in snapshots
        /\ HolderAt(inlined, snapshot)
        /\ \A f \in DOMAIN data_files : FileAt(data_files[f], snapshot)
    BY DEF IInv, Catalog
  <2>4. /\ n \in Nat /\ sources \subseteq Active(data_files) /\ Active(data_files) \subseteq DOMAIN data_files
        /\ \A i \in 1 .. n : groups[i] \subseteq sources /\ groups[i] # {}
        /\ \A i, j \in 1 .. n : i # j => groups[i] \cap groups[j] = {}
        /\ \A f \in sources : \E i \in 1 .. n : f \in groups[i]
    <3>1. Active(data_files) \subseteq DOMAIN data_files
      BY DEF Active
    <3>2. \A i, j \in DOMAIN groups : i # j => groups[i] \cap groups[j] = {}
      BY <2>2 DEF IsGrouping
    <3> QED BY <2>2, <3>1, <3>2, GroupingFacts
  <2> HIDE DEF sources
  <2>5. /\ outputs \in [1 .. n -> S] /\ DOMAIN kept = DOMAIN data_files
        /\ \A f \in sources : kept[f] = [data_files[f] EXCEPT !.end = next]
        /\ \A f \in DOMAIN data_files \ sources : kept[f] = data_files[f]
    BY <2>4 DEF Ended
  <2> HIDE DEF kept, n, S
  <2>6. Placed(kept, n, outputs, inlined)
    <3> HIDE DEF outputs
    <3> QED BY <2>1, <2>4, <2>5, ReorganisedFiles
  <2> DEFINE group(f) == groups[f - next_file + 1]
  <2>7. ASSUME NEW f \in NewIds
        PROVE  /\ f - next_file + 1 \in 1 .. n
               /\ data_files'[f] = DataFile(UNION {Live(data_files[g]) : g \in group(f)}, next)
    <3>1. f - next_file + 1 \in 1 .. n /\ data_files'[f] = outputs[f - next_file + 1]
      BY <2>6 DEF Placed
    <3> QED BY <3>1
  <2> HIDE DEF outputs
  <2>8. /\ DOMAIN data_files' = DOMAIN data_files \cup NewIds /\ NewIds \cap DOMAIN data_files = {}
        /\ \A f \in DOMAIN data_files : data_files'[f] = kept[f]
        /\ \A i \in 1 .. n : \E f \in NewIds : f - next_file + 1 = i
        /\ \A f, g \in NewIds : f # g => f - next_file + 1 # g - next_file + 1
        /\ snapshot' = snapshot + 1 /\ snapshots' = snapshots \cup {snapshot + 1} /\ inlined' = inlined
    BY <2>5, <2>6 DEF Placed
  <2>9. /\ \A f \in NewIds : group(f) \subseteq sources
        /\ \A f, g \in NewIds : f # g => group(f) \cap group(g) = {}
        /\ \A g \in sources : \E f \in NewIds : g \in group(f)
    <3>1. \A f \in NewIds : group(f) \subseteq sources
      BY <2>4, <2>7
    <3>2. ASSUME NEW f \in NewIds, NEW g \in NewIds, f # g PROVE group(f) \cap group(g) = {}
      <4>1. PICK i \in 1 .. n : i = f - next_file + 1
        BY <2>7
      <4>2. PICK j \in 1 .. n : j = g - next_file + 1
        BY <2>7
      <4>3. i # j
        BY <2>8, <3>2, <4>1, <4>2
      <4> QED BY <2>4, <4>1, <4>2, <4>3
    <3>3. ASSUME NEW g \in sources PROVE \E f \in NewIds : g \in group(f)
      BY <2>4, <2>8
    <3> QED BY <3>1, <3>2, <3>3
  <2> HIDE DEF group
  <2>10. ASSUME NEW f \in NewIds, NEW s \in 0 .. next, NEW r
         PROVE  InFile(data_files'[f], s, r)
                  <=> s = next /\ \E g \in group(f) : InFile(data_files[g], snapshot, r)
    <3> DEFINE rows == UNION {Live(data_files[g]) : g \in group(f)}
    <3>1. data_files'[f] = DataFile(rows, next) /\ next \in Nat
      BY <2>3, <2>7
    <3>2. \A g \in group(f) : InFile(data_files[g], snapshot, r) <=> r \in Live(data_files[g])
      BY <2>3, <2>4, <2>9, SteadyFile DEF Active
    <3>3. r \in rows <=> \E g \in group(f) : InFile(data_files[g], snapshot, r)
      BY <3>2
    <3> HIDE DEF rows, next
    <3> QED BY <3>1, <3>3, NewFileShows
  <2>11. ASSUME NEW f \in sources, NEW r
         PROVE  /\ \A s \in 0 .. snapshot : InFile(data_files'[f], s, r) <=> InFile(data_files[f], s, r)
                /\ ~ InFile(data_files'[f], next, r)
                /\ data_files'[f].born = data_files[f].born
    <3>1. data_files'[f] = [data_files[f] EXCEPT !.end = snapshot + 1]
      BY <2>4, <2>5, <2>8
    <3>2. FileAt(data_files[f], snapshot) /\ data_files[f].end = NULL
      BY <2>3, <2>4 DEF Active
    <3> QED BY <2>3, <3>1, <3>2, EndedShows
  <2>12. ASSUME NEW f \in DOMAIN data_files \ sources, NEW r
         PROVE  /\ data_files'[f] = data_files[f]
                /\ InFile(data_files'[f], next, r) <=> InFile(data_files[f], snapshot, r)
    BY <2>3, <2>5, <2>8, SteadyFile
  <2> DEFINE gone == {}
             same == [f \in DOMAIN data_files' |-> IF f \in NewIds THEN {} ELSE {f}]
             from == [f \in DOMAIN data_files' |->
                        IF f \in NewIds THEN group(f) ELSE IF f \in sources THEN {} ELSE {f}]
  <2>13. ASSUME NEW s \in snapshots
         PROVE  Relocated(data_files, inlined, s, data_files', inlined', s, gone, same)
    <3>1. s \in 0 .. snapshot /\ s \in 0 .. next /\ s # next
      BY <2>3
    <3> HIDE DEF next
    <3>2. /\ same \in [DOMAIN data_files' -> SUBSET DOMAIN data_files]
          /\ \A f \in NewIds : same[f] = {}
          /\ \A f \in DOMAIN data_files : same[f] = {f}
      BY <2>8
    <3> HIDE DEF same
    <3>3. \A f \in NewIds : \A r : ~ InFile(data_files'[f], s, r)
      BY <2>10, <3>1
    <3>4. \A f \in DOMAIN data_files : \A r : InFile(data_files'[f], s, r) <=> InFile(data_files[f], s, r)
      BY <2>11, <2>12, <3>1
    <3>5. \A f, g \in DOMAIN data_files' : f # g => same[f] \cap same[g] = {}
      BY <2>8, <3>2
    <3>6. \A f \in DOMAIN data_files' : \A r \in Rows :
            InFile(data_files'[f], s, r) <=> \E g \in same[f] : InFile(data_files[g], s, r)
      BY <2>8, <3>2, <3>3, <3>4
    <3> QED BY <2>8, <3>2, <3>5, <3>6 DEF Relocated
  <2>14. Relocated(data_files, inlined, snapshot, data_files', inlined', next, gone, from)
    <3>1. /\ from \in [DOMAIN data_files' -> SUBSET DOMAIN data_files]
          /\ \A f \in NewIds : from[f] = group(f)
          /\ \A f \in sources : from[f] = {}
          /\ \A f \in DOMAIN data_files \ sources : from[f] = {f}
      BY <2>4, <2>8, <2>9
    <3> HIDE DEF from
    <3>2. next \in 0 .. next
      BY <2>3
    <3>3. \A r : r \in RowsAt(inlined', next) <=> r \in RowsAt(inlined, snapshot)
      BY <2>3, <2>8, SteadyHolder
    <3> HIDE DEF next
    <3>4. ASSUME NEW f \in NewIds, NEW r
          PROVE  InFile(data_files'[f], next, r) <=> \E g \in from[f] : InFile(data_files[g], snapshot, r)
      BY <2>10, <3>1, <3>2
    <3>5. ASSUME NEW f \in DOMAIN data_files, NEW r
          PROVE  InFile(data_files'[f], next, r) <=> \E g \in from[f] : InFile(data_files[g], snapshot, r)
      BY <2>11, <2>12, <3>1
    <3>6. \A f, g \in DOMAIN data_files' : f # g => from[f] \cap from[g] = {}
      <4>1. ASSUME NEW f \in NewIds, NEW g \in DOMAIN data_files PROVE from[f] \cap from[g] = {}
        BY <2>9, <3>1
      <4>2. ASSUME NEW f \in DOMAIN data_files, NEW g \in DOMAIN data_files, f # g PROVE from[f] \cap from[g] = {}
        BY <3>1, <4>2
      <4> QED BY <2>8, <2>9, <3>1, <4>1, <4>2
    <3>7. \A g \in DOMAIN data_files : \E f \in DOMAIN data_files' : g \in from[f]
      BY <2>8, <2>9, <3>1
    <3> QED BY <2>8, <3>1, <3>3, <3>4, <3>5, <3>6, <3>7 DEF Relocated
  <2> HIDE DEF same, from, gone
  <2>15. \A X : X \ gone = X
    BY DEF gone
  <2>16. PastKept
    <3>1. ASSUME NEW s \in snapshots
          PROVE  /\ OnceAt(data_files', inlined', s)
                 /\ VisibleAt(data_files', inlined', s) = VisibleAt(data_files, inlined, s) \ gone
      BY <2>13, RelocatedTable DEF Single
    <3> QED BY <2>15, <3>1 DEF PastKept
  <2>17. /\ OnceAt(data_files', inlined', next)
         /\ VisibleAt(data_files', inlined', next) = VisibleAt(data_files, inlined, snapshot)
    BY <2>3, <2>14, <2>15, RelocatedTable DEF Single
  <2>18. Inserted' \subseteq Inserted
    <3>1. ASSUME NEW f \in NewIds PROVE DOMAIN data_files'[f].born \subseteq Inserted
      <4>1. DOMAIN data_files'[f].born = UNION {Live(data_files[g]) : g \in group(f)}
        <5> DEFINE rows == UNION {Live(data_files[g]) : g \in group(f)}
        <5>1. data_files'[f] = DataFile(rows, next)
          BY <2>7
        <5> HIDE DEF rows
        <5>2. DOMAIN data_files'[f].born = rows
          BY <5>1 DEF DataFile, Stored
        <5> QED BY <5>2 DEF rows
      <4> QED BY <2>4, <2>9, <4>1 DEF Inserted, Live
    <3>2. ASSUME NEW f \in DOMAIN data_files PROVE DOMAIN data_files'[f].born \subseteq Inserted
      BY <2>11, <2>12 DEF Inserted
    <3>3. DOMAIN inlined'.born \subseteq Inserted
      BY <2>8 DEF Inserted
    <3>4. Inserted' = DOMAIN inlined'.born \cup UNION {DOMAIN data_files'[f].born : f \in DOMAIN data_files'}
      BY DEF Inserted
    <3> QED BY <2>8, <3>1, <3>2, <3>3, <3>4
  <2> QED BY <2>8, <2>16, <2>17, <2>18 DEF Reorganises, InlinedGone
<1> QED BY <1>1, <1>2

LEMMA FlushShows ==
  ASSUME IInv, InlinedGone, Live(inlined) # {}, NEW s \in Nat, NEW r
  PROVE  /\ r \in RowsAt(inlined, s) <=> InFile(FlushedFile, s, r) \/ r \in RowsAt(Unflushed, s)
         /\ ~ (InFile(FlushedFile, s, r) /\ r \in RowsAt(Unflushed, s))
<1>1. snapshot \in Nat /\ HolderAt(inlined, snapshot)
  BY DEF IInv, Catalog
<1>2. /\ FileAt(FlushedFile, snapshot + 1)
      /\ DOMAIN FlushedBorn = Live(inlined)
      /\ \A q \in Live(inlined) : FlushedBorn[q] = inlined.born[q]
      /\ Unflushed.born = Restrict(inlined.born, DOMAIN inlined.born \ Live(inlined))
      /\ Unflushed.gone = inlined.gone
  BY FlushTyped
<1>3. FlushedFile.born = FlushedBorn /\ FlushedFile.gone = Stored({}, 0) /\ FlushedFile.end = NULL
  BY DEF FlushedFile
<1>4. \A q \in Live(inlined) : /\ inlined.born[q] \in Nat /\ FlushedFile.begin \in Nat
                               /\ FlushedFile.begin <= inlined.born[q]
  <2>1. /\ FlushedFile.begin \in 0 .. snapshot + 1
        /\ \A q \in DOMAIN FlushedFile.born : FlushedFile.begin <= FlushedFile.born[q]
    BY <1>2 DEF FileAt
  <2>2. \A q \in Live(inlined) : inlined.born[q] \in Nat
    BY <1>1 DEF Live, HolderAt, Stamped
  <2> QED BY <1>1, <1>2, <1>3, <2>1, <2>2
<1>5. InFile(FlushedFile, s, r) <=> r \in Live(inlined) /\ inlined.born[r] <= s
  <2>1. RowsAt(FlushedFile, s) = {q \in Live(inlined) : inlined.born[q] <= s}
    BY <1>2, <1>3 DEF RowsAt, Stored
  <2>2. r \in Live(inlined) /\ inlined.born[r] <= s => FlushedFile.begin <= s
    BY <1>4
  <2> QED BY <1>3, <2>1, <2>2 DEF InFile, ActiveAt
<1>6. r \in RowsAt(Unflushed, s) <=> r \in RowsAt(inlined, s) /\ r \notin Live(inlined)
  BY <1>2 DEF RowsAt, Restrict
<1>7. r \in Live(inlined) => (r \in RowsAt(inlined, s) <=> inlined.born[r] <= s)
  BY DEF RowsAt, Live
<1> QED BY <1>5, <1>6, <1>7

LEMMA FlushReorganises ==
  ASSUME IInv, Single, InlinedGone, flush_inlined_data
  PROVE  Unstored \/ Reorganises
<1>1. CASE Live(inlined) = {}
  BY <1>1 DEF flush_inlined_data
<1>2. CASE Live(inlined) # {}
  <2> DEFINE outputs == <<FlushedFile>>
             S == {FlushedFile}
             n == 1
  <2>1. Reorganised(data_files, outputs, Unflushed)
    BY <1>2 DEF flush_inlined_data, FlushedFile, FlushedBorn, Unflushed
  <2>2. n \in Nat /\ outputs \in [1 .. n -> S] /\ \A i \in 1 .. n : outputs[i] = FlushedFile
    OBVIOUS
  <2> HIDE DEF outputs, S, n
  <2>3. Placed(data_files, n, outputs, Unflushed)
    BY <2>1, <2>2, ReorganisedFiles
  <2>4. PICK new : NewIds = {new}
    <3>1. \E f \in NewIds : f - next_file + 1 = 1
      BY <2>3 DEF Placed, n
    <3>2. \A f \in NewIds : f - next_file + 1 = 1
      BY <2>3 DEF Placed, n
    <3>3. \A f, g \in NewIds : f = g
      BY <2>3, <3>2 DEF Placed
    <3> QED BY <3>1, <3>3
  <2>5. /\ DOMAIN data_files' = DOMAIN data_files \cup {new} /\ new \notin DOMAIN data_files
        /\ \A f \in DOMAIN data_files : data_files'[f] = data_files[f]
        /\ data_files'[new] = FlushedFile
        /\ snapshot' = snapshot + 1 /\ snapshots' = snapshots \cup {snapshot + 1} /\ inlined' = Unflushed
    <3>1. data_files'[new] = FlushedFile
      <4>1. new - next_file + 1 \in 1 .. n /\ data_files'[new] = outputs[new - next_file + 1]
        BY <2>3, <2>4 DEF Placed
      <4> QED BY <2>2, <4>1
    <3> QED BY <2>3, <2>4, <3>1 DEF Placed
  <2>6. snapshot \in Nat /\ snapshots \subseteq 0 .. snapshot /\ snapshot \in snapshots
        /\ HolderAt(inlined, snapshot)
        /\ \A f \in DOMAIN data_files : FileAt(data_files[f], snapshot)
    BY DEF IInv, Catalog
  <2>7. ASSUME NEW s \in snapshots
        PROVE  /\ OnceAt(data_files', inlined', s)
               /\ VisibleAt(data_files', inlined', s) = VisibleAt(data_files, inlined, s)
    <3>1. s \in Nat /\ OnceAt(data_files, inlined, s)
      BY <2>6 DEF Single
    <3>2. \A r : /\ r \in RowsAt(inlined, s) <=> InFile(FlushedFile, s, r) \/ r \in RowsAt(Unflushed, s)
                 /\ ~ (InFile(FlushedFile, s, r) /\ r \in RowsAt(Unflushed, s))
      BY <1>2, <3>1, FlushShows
    <3>3. OnceAt(data_files', inlined', s)
      BY <2>5, <3>1, <3>2 DEF OnceAt
    <3>4. VisibleAt(data_files', inlined', s) = VisibleAt(data_files, inlined, s)
      BY <2>5, <3>2 DEF VisibleAt
    <3> QED BY <3>3, <3>4
  <2>8. FileAt(FlushedFile, snapshot) /\ HolderAt(Unflushed, snapshot)
    BY <1>2, FlushTyped
  <2>9. \A f \in DOMAIN data_files' : FileAt(data_files'[f], snapshot)
    BY <2>5, <2>6, <2>8
  <2>10. /\ OnceAt(data_files', inlined', snapshot + 1)
         /\ VisibleAt(data_files', inlined', snapshot + 1) = VisibleAt(data_files, inlined, snapshot)
    BY <2>5, <2>6, <2>7, <2>8, <2>9, SteadyTable
  <2>11. DOMAIN Unflushed.born \subseteq DOMAIN inlined.born /\ DOMAIN FlushedFile.born \subseteq DOMAIN inlined.born
         /\ Unflushed.gone = inlined.gone /\ DOMAIN inlined.gone \subseteq DOMAIN Unflushed.born
    <3>1. /\ Unflushed.born = Restrict(inlined.born, DOMAIN inlined.born \ Live(inlined))
          /\ Unflushed.gone = inlined.gone /\ DOMAIN FlushedBorn = Live(inlined)
      BY <1>2, FlushTyped
    <3>2. DOMAIN Unflushed.born = DOMAIN inlined.born \ Live(inlined)
      BY <3>1 DEF Restrict
    <3>3. FlushedFile.born = FlushedBorn
      BY DEF FlushedFile
    <3> QED BY <3>1, <3>2, <3>3 DEF Live, InlinedGone
  <2>12. Inserted' \subseteq Inserted
    <3>1. \A f \in DOMAIN data_files' : DOMAIN data_files'[f].born \subseteq Inserted
      BY <2>5, <2>11 DEF Inserted
    <3>2. DOMAIN inlined'.born \subseteq Inserted
      BY <2>5, <2>11 DEF Inserted
    <3>3. Inserted' = DOMAIN inlined'.born \cup UNION {DOMAIN data_files'[f].born : f \in DOMAIN data_files'}
      BY DEF Inserted
    <3> QED BY <3>1, <3>2, <3>3
  <2>13. InlinedGone'
    BY <2>5, <2>11 DEF InlinedGone
  <2> QED BY <2>5, <2>7, <2>10, <2>12, <2>13 DEF Reorganises, PastKept
<1> QED BY <1>1, <1>2

\* An expiration forgets the oldest snapshots, and nothing of the others.
Forgets ==
  /\ snapshot' = snapshot
  /\ \E oldest \in snapshots : snapshots' = {s \in snapshots : s >= oldest}
  /\ PastKept
  /\ Inserted' \subseteq Inserted
  /\ InlinedGone'

LEMMA ExpireForgets ==
  ASSUME IInv, Single, InlinedGone, NEW retention \in Nat, expire_snapshots(retention)
  PROVE  Forgets
<1> DEFINE kept == {s \in snapshots : s >= snapshot - retention}
           needed == {f \in DOMAIN data_files : \E s \in kept : ActiveAt(data_files[f], s)}
           rows == {r \in DOMAIN inlined.born : \E s \in kept : r \in RowsAt(inlined, s)}
<1>1. /\ snapshots' = kept
      /\ data_files' = Restrict(data_files, needed)
      /\ inlined' = [ born |-> Restrict(inlined.born, rows),
                      gone |-> Restrict(inlined.gone, rows \cap DOMAIN inlined.gone) ]
      /\ snapshot' = snapshot
  BY DEF expire_snapshots, Retaining
<1>2. snapshot \in Nat /\ snapshots \subseteq 0 .. snapshot /\ snapshot \in snapshots
  BY DEF IInv, Catalog
<1>3. \E oldest \in snapshots : kept = {s \in snapshots : s >= oldest}
  <2>1. kept \in SUBSET Nat /\ kept # {}
    <3>1. snapshot >= snapshot - retention
      BY <1>2
    <3>2. snapshot \in kept
      BY <1>2, <3>1
    <3>3. snapshots \subseteq Nat
      BY <1>2
    <3> QED BY <3>2, <3>3
  <2>2. Min(kept) \in kept /\ \A s \in kept : Min(kept) <= s
    BY <2>1, LeastOf
  <2> DEFINE oldest == Min(kept)
  <2> HIDE DEF oldest
  <2>3. oldest \in snapshots /\ oldest >= snapshot - retention /\ \A s \in kept : s >= oldest
    BY <1>2, <2>2 DEF oldest
  <2>4. \A s \in snapshots : s >= oldest => s >= snapshot - retention
    BY <1>2, <2>3
  <2>5. kept = {s \in snapshots : s >= oldest}
    BY <2>3, <2>4
  <2> QED BY <2>3, <2>5
<1>4. needed \subseteq DOMAIN data_files /\ rows \subseteq DOMAIN inlined.born /\ kept \subseteq snapshots
      /\ \A s \in kept : /\ \A f \in DOMAIN data_files : ActiveAt(data_files[f], s) => f \in needed
                         /\ RowsAt(inlined, s) \subseteq rows
  BY DEF RowsAt
<1> HIDE DEF kept, needed, rows
<1>5. /\ DOMAIN data_files' = needed
      /\ \A f \in needed : data_files'[f] = data_files[f]
      /\ DOMAIN inlined'.born = rows /\ \A r \in rows : inlined'.born[r] = inlined.born[r]
      /\ DOMAIN inlined'.gone = rows \cap DOMAIN inlined.gone
      /\ \A r \in rows \cap DOMAIN inlined.gone : inlined'.gone[r] = inlined.gone[r]
  BY <1>1 DEF Restrict
<1>6. ASSUME NEW s \in kept
      PROVE  /\ OnceAt(data_files', inlined', s)
             /\ VisibleAt(data_files', inlined', s) = VisibleAt(data_files, inlined, s)
  <2>1. RowsAt(inlined', s) = RowsAt(inlined, s)
    <3>1. RowsAt(inlined', s) \subseteq RowsAt(inlined, s)
      BY <1>4, <1>5 DEF RowsAt
    <3>2. RowsAt(inlined, s) \subseteq RowsAt(inlined', s)
      <4>1. RowsAt(inlined, s) \subseteq rows
        BY <1>4
      <4> QED BY <1>5, <4>1 DEF RowsAt
    <3> QED BY <3>1, <3>2
  <2>2. OnceAt(data_files, inlined, s)
    BY <1>4 DEF Single
  <2>3. \A f \in DOMAIN data_files : \A r : InFile(data_files[f], s, r) => f \in needed
    BY <1>4 DEF InFile
  <2>4. OnceAt(data_files', inlined', s)
    BY <1>4, <1>5, <2>1, <2>2 DEF OnceAt
  <2>5. VisibleAt(data_files', inlined', s) = VisibleAt(data_files, inlined, s)
    BY <1>4, <1>5, <2>1, <2>3 DEF VisibleAt
  <2> QED BY <2>4, <2>5
<1>7. Inserted' \subseteq Inserted /\ InlinedGone'
  <2>1. \A f \in DOMAIN data_files' : DOMAIN data_files'[f].born \subseteq Inserted
    BY <1>4, <1>5 DEF Inserted
  <2>2. DOMAIN inlined'.born \subseteq Inserted
    BY <1>4, <1>5 DEF Inserted
  <2>3. Inserted' = DOMAIN inlined'.born \cup UNION {DOMAIN data_files'[f].born : f \in DOMAIN data_files'}
    BY DEF Inserted
  <2>4. InlinedGone'
    BY <1>5 DEF InlinedGone
  <2> QED BY <2>1, <2>2, <2>3, <2>4
<1> QED BY <1>1, <1>3, <1>6, <1>7 DEF Forgets, PastKept

-----------------------------------------------------------------------------
(* The invariant of what the snapshots show                                 *)

\* The rows of the open transaction are not in the table yet.
Fresh == writer.status = "open" => writer.inserts \cap Inserted = {}

\* The files of an uncommitted recluster hold the rows that it deletes, each once.
Copied ==
  maintenance.step = "recluster_commit" =>
    /\ DOMAIN maintenance.moved \subseteq Rows
    /\ UNION {maintenance.files[f] : f \in DOMAIN maintenance.files} = DOMAIN maintenance.moved
    /\ \A f, g \in DOMAIN maintenance.files :
         f # g => maintenance.files[f] \cap maintenance.files[g] = {}

TInv == Single /\ InlinedGone /\ Fresh /\ Copied

LEMMA ChunksCover ==
  ASSUME NEW rows \in SUBSET Rows
  PROVE  /\ \A r \in rows : \E i \in DOMAIN Chunks(rows) : r \in Chunks(rows)[i]
         /\ \A i, j \in DOMAIN Chunks(rows) : i # j => Chunks(rows)[i] \cap Chunks(rows)[j] = {}
<1> DEFINE n == Cardinality(rows)
           count == (n + TargetFileSize - 1) \div TargetFileSize
           Below(r) == {q \in rows : q < r}
           Place(r) == Cardinality(Below(r)) \div TargetFileSize
           chunks == Chunks(rows)
<1>1. IsFiniteSet(rows) /\ n \in Nat /\ rows \subseteq Nat /\ TargetFileSize \in Nat \ {0}
  BY StorageAssumption, FS_Subset, FS_CardinalityType
<1>2. chunks = [i \in 1 .. count |-> {r \in rows : Place(r) = i - 1}]
  BY DEF Chunks
<1>3. ASSUME NEW r \in rows
      PROVE  Place(r) \in Nat /\ Place(r) + 1 \in 1 .. count
  <2>1. Below(r) \subseteq rows /\ Below(r) # rows
    <3>1. r \in Nat /\ ~ (r < r)
      BY <1>1
    <3> QED BY <3>1
  <2>2. IsFiniteSet(Below(r)) /\ Cardinality(Below(r)) < n
    <3> DEFINE B == Below(r)
    <3>1. B \in SUBSET rows /\ B # rows /\ IsFiniteSet(rows)
      BY <1>1, <2>1
    <3> HIDE DEF B
    <3>2. IsFiniteSet(B) /\ Cardinality(B) <= Cardinality(rows) /\ Cardinality(B) # Cardinality(rows)
      BY <3>1, FS_Subset
    <3>3. Cardinality(B) \in Nat /\ Cardinality(rows) \in Nat
      BY <3>1, <3>2, FS_CardinalityType
    <3>4. Cardinality(B) < Cardinality(rows)
      BY <3>2, <3>3
    <3> QED BY <3>2, <3>4 DEF B
  <2> DEFINE k == Cardinality(Below(r))
  <2>3. k \in Nat /\ k < n
    BY <2>2, FS_CardinalityType
  <2> HIDE DEF k, n
  <2>4. \A m \in Nat, l \in Nat, t \in Nat \ {0} :
          l < m => l \div t \in Nat /\ (l \div t) + 1 \in 1 .. ((m + t - 1) \div t)
    OBVIOUS
  <2>5. k \div TargetFileSize \in Nat
        /\ (k \div TargetFileSize) + 1 \in 1 .. ((n + TargetFileSize - 1) \div TargetFileSize)
    BY <1>1, <2>3, <2>4
  <2> QED BY <2>5 DEF k
<1> HIDE DEF chunks, Place, count, n
<1>4. ASSUME NEW r \in rows
      PROVE  \E i \in DOMAIN chunks : r \in chunks[i]
  <2>1. PICK i \in 1 .. count : i = Place(r) + 1
    BY <1>3
  <2>2. Place(r) = i - 1
    BY <1>3, <2>1
  <2> QED BY <1>2, <2>1, <2>2
<1>5. ASSUME NEW i \in DOMAIN chunks, NEW j \in DOMAIN chunks, i # j
      PROVE  chunks[i] \cap chunks[j] = {}
  <2>1. i \in 1 .. count /\ j \in 1 .. count
    BY <1>2
  <2>2. i \in Int /\ j \in Int
    BY <2>1
  <2>3. i - 1 # j - 1
    BY <1>5, <2>2
  <2> QED BY <1>2, <2>1, <2>3
<1> QED BY <1>4, <1>5 DEF chunks

\* The table that a statement reads is what the latest snapshot shows.
LEMMA TableIsVisible ==
  IInv => TableRows = VisibleAt(data_files, inlined, snapshot) /\ TableRows \subseteq Inserted
<1> SUFFICES ASSUME IInv
             PROVE  TableRows = VisibleAt(data_files, inlined, snapshot) /\ TableRows \subseteq Inserted
  OBVIOUS
<1>1. TableRows \in SUBSET Rows
  BY TableRowsTyped
<1>2. \A r : r \in TableRows <=> \/ r \in RowsAt(inlined, snapshot)
                                 \/ \E f \in DOMAIN data_files : InFile(data_files[f], snapshot, r)
  BY DEF TableRows, FilesAt, InFile
<1>3. TableRows = VisibleAt(data_files, inlined, snapshot)
  BY <1>1, <1>2 DEF VisibleAt
<1>4. TableRows \subseteq Inserted
  BY <1>2 DEF InFile, RowsAt, Inserted
<1> QED BY <1>3, <1>4

LEMMA UnmovedRows ==
  ASSUME IInv, NEW deletes, Unmoved(deletes)
  PROVE  DOMAIN deletes \subseteq VisibleAt(data_files, inlined, snapshot)
BY TableIsVisible DEF Unmoved

-----------------------------------------------------------------------------
(* What the commits of the transactions show                                *)

\* The same table, with other rows in the catalog.
LEMMA InlinedTable ==
  ASSUME NEW files, NEW in_catalog, NEW s, OnceAt(files, in_catalog, s),
         NEW rows, rows \cap VisibleAt(files, in_catalog, s) = {},
         NEW wider, RowsAt(wider, s) = RowsAt(in_catalog, s) \cup rows
  PROVE  /\ OnceAt(files, wider, s)
         /\ VisibleAt(files, wider, s) = VisibleAt(files, in_catalog, s) \cup (rows \cap Rows)
BY DEF OnceAt, VisibleAt

\* An INSERT that DuckLake inlines.
LEMMA InlinedShows ==
  ASSUME NEW s \in Nat, NEW t \in 0 .. s, NEW left,
         {"born", "gone"} \subseteq DOMAIN left, DOMAIN left.gone \subseteq DOMAIN left.born,
         NEW rows, rows \cap DOMAIN left.born = {},
         NEW wider, wider = [left EXCEPT !.born = Extended(@, Stored(rows, s))]
  PROVE  /\ RowsAt(wider, t) = RowsAt(left, t) \cup (IF t = s THEN rows ELSE {})
         /\ DOMAIN wider.gone \subseteq DOMAIN wider.born
<1>1. wider.born = Extended(left.born, Stored(rows, s)) /\ wider.gone = left.gone
  OBVIOUS
<1>2. /\ DOMAIN wider.born = DOMAIN left.born \cup rows
      /\ \A r \in DOMAIN left.born : wider.born[r] = left.born[r]
      /\ \A r \in rows : r \notin DOMAIN left.born /\ wider.born[r] = s
  BY <1>1 DEF Extended, Stored
<1>3. \A r \in rows : r \notin DOMAIN left.gone
  OBVIOUS
<1>4. ASSUME NEW r
      PROVE  r \in RowsAt(wider, t) <=> r \in RowsAt(left, t) \/ (t = s /\ r \in rows)
  <2>1. CASE r \in rows
    BY <1>1, <1>2, <1>3, <2>1 DEF RowsAt
  <2>2. CASE r \notin rows
    BY <1>1, <1>2, <2>2 DEF RowsAt
  <2> QED BY <2>1, <2>2
<1> QED BY <1>1, <1>2, <1>4

\* A commit: the past shows what it showed, the next snapshot the table rows.
Commits(table) ==
  /\ snapshot' = snapshot + 1 /\ snapshots' = snapshots \cup {snapshot + 1}
  /\ PastKept
  /\ OnceAt(data_files', inlined', snapshot + 1)
  /\ VisibleAt(data_files', inlined', snapshot + 1) = table
  /\ InlinedGone'

\* New files of the next snapshot: the rows, in disjoint parts.
Inserting(added, parts, rows) ==
  /\ DOMAIN added \cap DOMAIN data_files = {}
  /\ DOMAIN parts = DOMAIN added
  /\ \A f \in DOMAIN added : added[f] = DataFile(parts[f], snapshot + 1)
  /\ \A f, g \in DOMAIN added : f # g => parts[f] \cap parts[g] = {}
  /\ rows = UNION {parts[f] : f \in DOMAIN added}

\* A DELETE and an INSERT in new files.
LEMMA FilesCommit ==
  ASSUME IInv, Single, InlinedGone,
         NEW gone \in SUBSET Rows, NEW rows \in SUBSET Rows,
         NEW added, NEW parts, Inserting(added, parts, rows),
         rows \cap (VisibleAt(data_files, inlined, snapshot) \ gone) = {},
         Committed(Extended(DeletedFiles(data_files, gone, snapshot + 1), added),
                   DeleteFrom(inlined, gone, snapshot + 1))
  PROVE  Commits((VisibleAt(data_files, inlined, snapshot) \ gone) \cup rows)
<1> DEFINE s == snapshot + 1
           kept == DeletedFiles(data_files, gone, s)
           left == DeleteFrom(inlined, gone, s)
           visible == VisibleAt(data_files, inlined, snapshot)
<1>0. /\ DOMAIN added \cap DOMAIN data_files = {} /\ DOMAIN parts = DOMAIN added
      /\ \A f \in DOMAIN added : added[f] = DataFile(parts[f], s)
      /\ \A f, g \in DOMAIN added : f # g => parts[f] \cap parts[g] = {}
      /\ rows = UNION {parts[f] : f \in DOMAIN added}
  BY DEF Inserting
<1>1. /\ snapshot \in Nat /\ snapshots \subseteq 0 .. snapshot /\ snapshot \in snapshots
      /\ HolderAt(inlined, snapshot)
      /\ \A f \in DOMAIN data_files : FileAt(data_files[f], snapshot)
  BY DEF IInv, Catalog
<1>2. /\ snapshot' = s /\ snapshots' = snapshots \cup {s}
      /\ data_files' = Extended(kept, added) /\ inlined' = left
  BY DEF Committed
<1>3. DOMAIN kept = DOMAIN data_files /\ DOMAIN added \cap DOMAIN kept = {}
  BY <1>0 DEF DeletedFiles
<1>4. /\ \A t \in 0 .. snapshot : OnceAt(data_files, inlined, t) =>
           /\ OnceAt(kept, left, t) /\ VisibleAt(kept, left, t) = VisibleAt(data_files, inlined, t)
      /\ OnceAt(data_files, inlined, snapshot) =>
           OnceAt(kept, left, s) /\ VisibleAt(kept, left, s) = visible \ gone
  BY <1>1, DeletedTable
<1>5. \A f \in DOMAIN added : \A t \in 0 .. s : \A r :
        InFile(added[f], t, r) <=> t = s /\ r \in parts[f]
  BY <1>0, <1>1, NewFileShows
<1>6. DOMAIN left.gone \subseteq DOMAIN left.born
  <2>1. /\ left.born = inlined.born
        /\ left.gone = Extended(inlined.gone, Stored(gone \cap Live(inlined), s))
    BY <1>1, DeletedHolder
  <2> QED BY <2>1 DEF Extended, Stored, Live, InlinedGone
<1> HIDE DEF kept, left, visible, s
<1>7. ASSUME NEW t \in snapshots
      PROVE  /\ OnceAt(data_files', inlined', t)
             /\ VisibleAt(data_files', inlined', t) = VisibleAt(data_files, inlined, t)
  <2>1. t \in 0 .. snapshot /\ t \in 0 .. s /\ t # s /\ OnceAt(data_files, inlined, t)
    BY <1>1 DEF Single, s
  <2>2. OnceAt(kept, left, t) /\ VisibleAt(kept, left, t) = VisibleAt(data_files, inlined, t)
    BY <1>4, <2>1
  <2>3. \A f \in DOMAIN added : \A r : ~ InFile(added[f], t, r)
    BY <1>5, <2>1
  <2> DEFINE none == {}
  <2>6. /\ \A r \in Rows : r \in none <=> \E f \in DOMAIN added : InFile(added[f], t, r)
        /\ \A f, g \in DOMAIN added : \A r \in Rows :
             InFile(added[f], t, r) /\ InFile(added[g], t, r) => f = g
        /\ \A r \in none : r \notin VisibleAt(kept, left, t)
    BY <2>3
  <2> HIDE DEF none
  <2>4. OnceAt(Extended(kept, added), left, t)
    BY <1>3, <2>2, <2>6, ExtendedTable
  <2>5. VisibleAt(Extended(kept, added), left, t) = VisibleAt(kept, left, t) \cup (none \cap Rows)
    BY <1>3, <2>2, <2>6, ExtendedTable
  <2> QED BY <1>2, <2>2, <2>4, <2>5 DEF none
<1>8. /\ OnceAt(data_files', inlined', s)
      /\ VisibleAt(data_files', inlined', s) = (visible \ gone) \cup rows
  <2> DEFINE new == rows
  <2>1. OnceAt(kept, left, s) /\ VisibleAt(kept, left, s) = visible \ gone
    BY <1>1, <1>4 DEF Single
  <2>2. \A r \in Rows : r \in new <=> \E f \in DOMAIN added : InFile(added[f], s, r)
    BY <1>0, <1>1, <1>5 DEF s
  <2>3. \A f, g \in DOMAIN added : \A r \in Rows :
          InFile(added[f], s, r) /\ InFile(added[g], s, r) => f = g
    BY <1>0, <1>1, <1>5 DEF s
  <2>4. \A r \in new : r \notin VisibleAt(kept, left, s)
    BY <2>1 DEF visible
  <2> HIDE DEF new
  <2>5. OnceAt(Extended(kept, added), left, s)
    BY <1>3, <2>1, <2>2, <2>3, <2>4, ExtendedTable
  <2>6. VisibleAt(Extended(kept, added), left, s) = VisibleAt(kept, left, s) \cup (new \cap Rows)
    BY <1>3, <2>1, <2>2, <2>3, <2>4, ExtendedTable
  <2> QED BY <1>2, <2>1, <2>5, <2>6 DEF new
<1>9. InlinedGone'
  BY <1>2, <1>6 DEF InlinedGone
<1>10. PastKept
  BY <1>7 DEF PastKept
<1> QED BY <1>2, <1>8, <1>9, <1>10 DEF Commits, visible, s

LEMMA CommitWriteShows ==
  ASSUME IInv, TInv, CommitWrite
  PROVE  /\ writer.inserts \subseteq Rows
         /\ DOMAIN writer.deletes \subseteq VisibleAt(data_files, inlined, snapshot)
         /\ writer.inserts \cap VisibleAt(data_files, inlined, snapshot) = {}
         /\ Commits((VisibleAt(data_files, inlined, snapshot) \ DOMAIN writer.deletes)
                    \cup writer.inserts)
<1> DEFINE s == snapshot + 1
           gone == DOMAIN writer.deletes
           inserts == writer.inserts
           kept == DeletedFiles(data_files, gone, s)
           left == DeleteFrom(inlined, gone, s)
           visible == VisibleAt(data_files, inlined, snapshot)
<1>1. writer.status = "open" /\ Unmoved(writer.deletes)
  BY DEF CommitWrite
<1>2. inserts \in SUBSET Rows
  BY <1>1 DEF IInv, Writer, Idle
<1>3. gone \subseteq visible /\ gone \in SUBSET Rows
  BY <1>1, UnmovedRows DEF VisibleAt
<1>4. inserts \cap Inserted = {} /\ inserts \cap visible = {}
  <2>1. inserts \cap Inserted = {}
    BY <1>1 DEF TInv, Fresh
  <2>2. visible \subseteq Inserted
    BY TableIsVisible
  <2> QED BY <2>1, <2>2
<1>5. CASE writer.file # NULL
  <2> DEFINE added == [f \in {writer.file} |-> DataFile(inserts, s)]
             parts == [f \in {writer.file} |-> inserts]
  <2>1. Committed(Extended(kept, added), left)
    BY <1>5 DEF CommitWrite
  <2>2. DOMAIN added \cap DOMAIN data_files = {}
    BY <1>1, <1>5 DEF IInv, Pending, Uncommitted
  <2>3. /\ DOMAIN parts = DOMAIN added
        /\ \A f \in DOMAIN added : added[f] = DataFile(parts[f], s)
        /\ \A f, g \in DOMAIN added : f # g => parts[f] \cap parts[g] = {}
        /\ inserts = UNION {parts[f] : f \in DOMAIN added}
    OBVIOUS
  <2>6. Inserting(added, parts, inserts)
    BY <2>2, <2>3 DEF Inserting
  <2>4. inserts \cap (visible \ gone) = {} /\ Single /\ InlinedGone
    BY <1>4 DEF TInv
  <2> HIDE DEF added, parts, inserts, gone
  <2>5. Commits((visible \ gone) \cup inserts)
    BY <1>2, <1>3, <2>1, <2>4, <2>6, FilesCommit
  <2> QED BY <1>2, <1>3, <1>4, <2>5 DEF inserts, gone
<1>6. CASE writer.file = NULL
  <2> DEFINE wider == [left EXCEPT !.born = Extended(@, Stored(inserts, s))]
  <2>1. /\ snapshot' = s /\ snapshots' = snapshots \cup {s}
        /\ data_files' = kept /\ inlined' = wider
    BY <1>6 DEF CommitWrite, Committed, Holder
  <2>2. /\ snapshot \in Nat /\ snapshots \subseteq 0 .. snapshot /\ snapshot \in snapshots
        /\ HolderAt(inlined, snapshot)
        /\ \A f \in DOMAIN data_files : FileAt(data_files[f], snapshot)
        /\ Single /\ InlinedGone
    BY DEF IInv, Catalog, TInv
  <2>3. /\ \A t \in 0 .. snapshot : OnceAt(data_files, inlined, t) =>
             /\ OnceAt(kept, left, t) /\ VisibleAt(kept, left, t) = VisibleAt(data_files, inlined, t)
        /\ OnceAt(data_files, inlined, snapshot) =>
             OnceAt(kept, left, s) /\ VisibleAt(kept, left, s) = visible \ gone
    BY <2>2, DeletedTable
  <2>4. /\ {"born", "gone"} \subseteq DOMAIN left /\ DOMAIN left.gone \subseteq DOMAIN left.born
        /\ inserts \cap DOMAIN left.born = {}
    <3>1. /\ left.born = inlined.born /\ HolderAt(left, s)
          /\ left.gone = Extended(inlined.gone, Stored(gone \cap Live(inlined), s))
      BY <2>2, DeletedHolder
    <3>2. inserts \cap DOMAIN inlined.born = {}
      BY <1>4 DEF Inserted
    <3> QED BY <2>2, <3>1, <3>2 DEF Extended, Stored, Live, InlinedGone, HolderAt
  <2> HIDE DEF kept, left, wider, visible, inserts, gone
  <2>5. \A t \in 0 .. s : /\ RowsAt(wider, t) = RowsAt(left, t) \cup (IF t = s THEN inserts ELSE {})
                          /\ DOMAIN wider.gone \subseteq DOMAIN wider.born
    <3>1. s \in Nat
      BY <2>2
    <3> HIDE DEF s
    <3> QED BY <2>4, <3>1, InlinedShows DEF wider
  <2>6. ASSUME NEW t \in snapshots
        PROVE  /\ OnceAt(data_files', inlined', t)
               /\ VisibleAt(data_files', inlined', t) = VisibleAt(data_files, inlined, t)
    <3>1. t \in 0 .. snapshot /\ t \in 0 .. s /\ t # s /\ OnceAt(data_files, inlined, t)
      BY <2>2 DEF Single
    <3>2. OnceAt(kept, left, t) /\ VisibleAt(kept, left, t) = VisibleAt(data_files, inlined, t)
      BY <2>3, <3>1
    <3>3. RowsAt(wider, t) = RowsAt(left, t)
      BY <2>5, <3>1
    <3> QED BY <2>1, <3>2, <3>3 DEF OnceAt, VisibleAt
  <2>7. /\ OnceAt(data_files', inlined', s)
        /\ VisibleAt(data_files', inlined', s) = (visible \ gone) \cup inserts
    <3>1. OnceAt(kept, left, s) /\ VisibleAt(kept, left, s) = visible \ gone
      BY <2>2, <2>3 DEF Single
    <3>2. RowsAt(wider, s) = RowsAt(left, s) \cup inserts
      BY <2>2, <2>5
    <3>3. inserts \cap VisibleAt(kept, left, s) = {}
      BY <1>4, <3>1
    <3>4. /\ OnceAt(kept, wider, s)
          /\ VisibleAt(kept, wider, s) = VisibleAt(kept, left, s) \cup (inserts \cap Rows)
      BY <3>1, <3>2, <3>3, InlinedTable
    <3> QED BY <1>2, <2>1, <3>1, <3>4
  <2>8. InlinedGone'
    BY <2>1, <2>2, <2>5 DEF InlinedGone
  <2>9. PastKept
    BY <2>6 DEF PastKept
  <2>10. Commits((visible \ gone) \cup inserts)
    BY <2>1, <2>7, <2>8, <2>9 DEF Commits
  <2> QED BY <1>2, <1>3, <1>4, <2>10 DEF inserts, gone, visible
<1> QED BY <1>5, <1>6

LEMMA ReclusterReorganises ==
  ASSUME IInv, TInv, ReclusterCommit
  PROVE  Reorganises
<1> DEFINE s == snapshot + 1
           moved == maintenance.moved
           gone == DOMAIN moved
           files == maintenance.files
           kept == DeletedFiles(data_files, gone, s)
           left == DeleteFrom(inlined, gone, s)
           added == [f \in DOMAIN files |-> DataFile(files[f], s)]
           visible == VisibleAt(data_files, inlined, snapshot)
<1>1. maintenance.step = "recluster_commit" /\ Unmoved(moved) /\ Committed(Extended(kept, added), left)
  BY DEF ReclusterCommit, At
<1>2. /\ gone \in SUBSET Rows /\ UNION {files[f] : f \in DOMAIN files} = gone
      /\ \A f, g \in DOMAIN files : f # g => files[f] \cap files[g] = {}
      /\ Single /\ InlinedGone
  BY <1>1 DEF TInv, Copied
<1>3. gone \subseteq visible /\ visible \subseteq Inserted
  BY <1>1, UnmovedRows, TableIsVisible
<1>4. DOMAIN added = DOMAIN files /\ DOMAIN added \cap DOMAIN data_files = {}
      /\ \A f \in DOMAIN added : added[f] = DataFile(files[f], s)
  BY <1>1 DEF IInv, Pending, Reclustered
<1>5. gone \cap (visible \ gone) = {} /\ gone = UNION {files[f] : f \in DOMAIN added}
      /\ \A f, g \in DOMAIN added : f # g => files[f] \cap files[g] = {}
  BY <1>2, <1>4
<1>9. Inserting(added, files, gone)
  BY <1>4, <1>5 DEF Inserting
<1> HIDE DEF gone, files, added
<1>6. Commits((visible \ gone) \cup gone)
  BY <1>1, <1>2, <1>5, <1>9, FilesCommit
<1>7. (visible \ gone) \cup gone = visible
  BY <1>3
<1>8. Inserted' \subseteq Inserted
  <2>1. data_files' = Extended(kept, added) /\ inlined' = left
    BY <1>1 DEF Committed
  <2>2. \A f \in DOMAIN added : DOMAIN added[f].born = files[f]
    BY <1>4 DEF DataFile, Stored
  <2>3. /\ DOMAIN kept = DOMAIN data_files
        /\ \A f \in DOMAIN data_files : DOMAIN kept[f].born = DOMAIN data_files[f].born
    <3>1. ASSUME NEW f \in DOMAIN data_files
          PROVE  DOMAIN kept[f].born = DOMAIN data_files[f].born
      <4>1. FileAt(data_files[f], snapshot)
        BY DEF IInv, Catalog
      <4> DEFINE file == data_files[f]
      <4> HIDE DEF file
      <4>2. kept[f] = IF file.end # NULL \/ gone \cap Live(file) = {} THEN file
                      ELSE IF Live(file) \subseteq gone THEN [file EXCEPT !.end = s]
                      ELSE DeleteFrom(file, gone, s)
        BY DEF DeletedFiles, file
      <4>3. [file EXCEPT !.end = s].born = file.born
        BY <4>1 DEF FileAt, HolderAt, file
      <4>4. DeleteFrom(file, gone, s).born = file.born
        BY <4>1 DEF FileAt, HolderAt, file, DeleteFrom
      <4> QED BY <4>2, <4>3, <4>4 DEF file
    <3> QED BY <3>1 DEF DeletedFiles
  <2>4. left.born = inlined.born
    BY DeletedHolder DEF IInv, Catalog
  <2> HIDE DEF kept, left
  <2>5. DOMAIN inlined'.born \subseteq Inserted
    BY <2>1, <2>4 DEF Inserted
  <2>6. \A f \in DOMAIN data_files' : DOMAIN data_files'[f].born \subseteq Inserted
    <3>1. DOMAIN data_files' = DOMAIN data_files \cup DOMAIN added
      BY <2>1, <2>3 DEF Extended
    <3>2. \A f \in DOMAIN data_files : DOMAIN data_files'[f].born \subseteq Inserted
      BY <2>1, <2>3 DEF Extended, Inserted
    <3>3. \A f \in DOMAIN added : data_files'[f] = added[f]
      BY <1>4, <2>1, <2>3 DEF Extended
    <3>4. \A f \in DOMAIN added : files[f] \subseteq Inserted
      BY <1>3, <1>5
    <3> QED BY <2>2, <3>1, <3>2, <3>3, <3>4
  <2>7. Inserted' = DOMAIN inlined'.born \cup UNION {DOMAIN data_files'[f].born : f \in DOMAIN data_files'}
    BY DEF Inserted
  <2> QED BY <2>5, <2>6, <2>7
<1> QED BY <1>6, <1>7, <1>8 DEF Commits, Reorganises

-----------------------------------------------------------------------------
(* Every step, as the readers see it                                        *)

Same == UNCHANGED <<snapshot, snapshots, data_files, inlined>>
Shows == Same \/ Reorganises \/ Forgets

\* The request of the writer is the one before, or it is over.
SameRequest == /\ writer' = writer \/ writer'.status # "open"
               /\ Requested' = Requested

LEMMA SamePlan == ASSUME writer' = writer PROVE SameRequest
BY DEF SameRequest, Requested

LEMMA CompactShows ==
  ASSUME IInv, TInv, CompactRewrite \/ CompactMerge \/ CompactStops
  PROVE  Shows /\ SameRequest
<1>1. NULL \in (Nat \ {0}) \cup { NULL } /\ Single /\ InlinedGone
  BY DEF TInv
<1>2. ASSUME Unstored PROVE Shows
  BY <1>2 DEF Unstored, catalog, Shows, Same
<1>3. Shows
  BY <1>1, <1>2, RewriteReorganises, MergeReorganises
     DEF CompactRewrite, CompactMerge, CompactStops, Shows, Unstored
<1>4. writer.status # "open" /\ writer'.status # "open"
  BY DEF CompactRewrite, CompactMerge, CompactStops, Idle, IInv, Writer
<1> QED BY <1>3, <1>4 DEF SameRequest, Requested

LEMMA MaintainShows ==
  ASSUME IInv, TInv, MaintainStep \/ MaintainStops \/ \E chosen \in Policies : StartMaintain(chosen)
  PROVE  Shows /\ SameRequest
<1>1. ASSUME Unstored PROVE Shows
  BY <1>1 DEF Unstored, catalog, Shows, Same
<1>2. Single /\ InlinedGone
  BY DEF TInv
<1>3. ASSUME Maintaining
      PROVE  policy.max_compacted_files \in (Nat \ {0}) \cup { NULL } /\ NULL \in (Nat \ {0}) \cup { NULL }
  BY <1>3, PolicyBounds
<1>4. ASSUME FlushStep PROVE Shows
  BY <1>1, <1>2, <1>4, FlushReorganises DEF FlushStep, Skip, Fails, Unstored, Shows
<1>5. ASSUME RewriteStep PROVE Shows
  <2>1. Maintaining
    BY <1>5 DEF RewriteStep, Skip, Runs, At, Maintaining
  <2> QED BY <1>1, <1>2, <1>3, <1>5, <2>1, RewriteReorganises DEF RewriteStep, Skip, Fails, Unstored, Shows
<1>6. ASSUME MergeStep PROVE Shows
  <2>1. Maintaining
    BY <1>6 DEF MergeStep, Skip, Runs, At, Maintaining
  <2> QED BY <1>1, <1>2, <1>3, <1>6, <2>1, MergeReorganises DEF MergeStep, Skip, Fails, Unstored, Shows
<1>7. ASSUME ReclusterMerge PROVE Shows
  BY <1>1, <1>2, <1>7, MergeReorganises DEF ReclusterMerge, Fails, Shows
<1>8. ASSUME ReclusterCommit PROVE Shows
  BY <1>8, ReclusterReorganises DEF Shows
<1>9. ASSUME ExpireStep PROVE Shows
  <2>1. Maintaining
    BY <1>9 DEF ExpireStep, At, Maintaining
  <2> QED BY <1>1, <1>2, <1>9, <2>1, PolicyBounds, ExpireForgets DEF ExpireStep, Fails, Shows
<1>10. ASSUME \/ Measure \/ SkipRecluster \/ ReclusterBegin \/ ReclusterFails \/ CleanupStep
              \/ DeleteOrphanedStep \/ MaintainStops \/ \E chosen \in Policies : StartMaintain(chosen)
       PROVE  Same
  BY <1>10 DEF Measure, SkipRecluster, ReclusterBegin, ReclusterFails, CleanupStep, cleanup_files,
               DeleteOrphanedStep, delete_orphaned_files, MaintainStops, StartMaintain, Fails, Unstored,
               catalog, Same
<1>11. writer' = writer
  BY DEF MaintainStep, Measure, FlushStep, RewriteStep, MergeStep, SkipRecluster, ReclusterBegin,
         ReclusterCommit, ReclusterFails, ReclusterMerge, ExpireStep, CleanupStep, DeleteOrphanedStep,
         MaintainStops, StartMaintain, Skip, Runs
<1> QED BY <1>4, <1>5, <1>6, <1>7, <1>8, <1>9, <1>10, <1>11, SamePlan DEF MaintainStep, Shows

\* What a step is for the readers and for the writer.
LEMMA StepKinds ==
  ASSUME IInv, TInv, [Next]_vars
  PROVE  \/ CommitWrite
         \/ Same /\ \E request \in awaited : BeginWrite(request)
         \/ Same /\ \E process_ends \in BOOLEAN : AbandonWrite(process_ends)
         \/ Shows /\ SameRequest
<1>1. CASE UNCHANGED vars
  BY <1>1, SamePlan DEF vars, catalog, Shows, Same
<1>2. ASSUME NEW request \in awaited, BeginWrite(request) PROVE Same
  BY <1>2 DEF BeginWrite, Same
<1>3. ASSUME NEW process_ends \in BOOLEAN, AbandonWrite(process_ends) PROVE Same
  BY <1>3 DEF AbandonWrite, catalog, Same
<1> QED BY <1>1, <1>2, <1>3, CompactShows, MaintainShows DEF Next, Write

LEMMA TablesKept ==
  ASSUME IInv, Single, InlinedGone, Shows \/ \E table : Commits(table)
  PROVE  Single' /\ InlinedGone' /\ (Shows => Inserted' \subseteq Inserted)
<1>1. CASE Same
  BY <1>1 DEF Same, Single, InlinedGone, Inserted
<1>2. ASSUME snapshots' = snapshots \cup {snapshot + 1}, PastKept,
             OnceAt(data_files', inlined', snapshot + 1)
      PROVE  Single'
  BY <1>2 DEF PastKept, Single
<1>3. CASE Reorganises
  BY <1>2, <1>3 DEF Reorganises
<1>4. CASE \E table : Commits(table)
  <2>1. Single' /\ InlinedGone'
    BY <1>2, <1>4 DEF Commits
  <2>2. Shows => Inserted' \subseteq Inserted
    BY <1>1 DEF Shows, Same, Reorganises, Forgets, Inserted
  <2> QED BY <2>1, <2>2
<1>5. CASE Forgets
  <2>1. snapshots' \subseteq snapshots /\ PastKept /\ Inserted' \subseteq Inserted /\ InlinedGone'
    BY <1>5 DEF Forgets
  <2> QED BY <2>1 DEF PastKept, Single
<1> QED BY <1>1, <1>3, <1>4, <1>5 DEF Shows

LEMMA FreshKept ==
  ASSUME IInv, TInv, [Next]_vars
  PROVE  Fresh'
<1>1. CASE CommitWrite
  BY <1>1 DEF CommitWrite, Idle, Fresh
<1>2. ASSUME NEW request \in awaited, BeginWrite(request), Same PROVE Fresh'
  BY <1>2 DEF BeginWrite, Same, Inserted, Fresh
<1>3. ASSUME NEW process_ends \in BOOLEAN, AbandonWrite(process_ends) PROVE Fresh'
  BY <1>3 DEF AbandonWrite, Idle, Fresh
<1>4. CASE Shows /\ SameRequest
  <2>1. Inserted' \subseteq Inserted
    BY <1>4, TablesKept DEF TInv
  <2> QED BY <1>4, <2>1 DEF SameRequest, TInv, Fresh
<1> QED BY <1>1, <1>2, <1>3, <1>4, StepKinds

LEMMA ReclusterCopies ==
  ASSUME IInv, ReclusterBegin
  PROVE  Copied'
<1> DEFINE chunks == Chunks(TableRows)
           n == Len(chunks)
           ids == NewFiles(chunks)
<1>1. TableRows \in SUBSET Rows
  BY TableRowsTyped
<1>2. n \in Nat /\ chunks \in [1 .. n -> SUBSET TableRows]
  BY <1>1, ChunksTyped
<1>3. /\ \A r \in TableRows : \E i \in 1 .. n : r \in chunks[i]
      /\ \A i, j \in 1 .. n : i # j => chunks[i] \cap chunks[j] = {}
  BY <1>1, <1>2, ChunksCover
<1>4. /\ maintenance'.files = Numbered(chunks)
      /\ maintenance'.moved = [r \in TableRows |-> HolderOf(data_files, inlined, snapshot, r)]
  BY DEF ReclusterBegin
<1>5. DOMAIN maintenance'.moved = TableRows
  BY <1>4
<1>6. DOMAIN maintenance'.files = ids
      /\ \A f \in ids : maintenance'.files[f] = chunks[f - next_file + 1]
  BY <1>4 DEF Numbered
<1>7. next_file \in Nat
  BY DEF IInv, Catalog
<1> HIDE DEF chunks
<1>8. /\ \A f \in ids : f \in Int /\ f - next_file + 1 \in 1 .. n
      /\ \A i \in 1 .. n : next_file + (i - 1) \in ids /\ (next_file + (i - 1)) - next_file + 1 = i
      /\ \A f, g \in ids : f # g => f - next_file + 1 # g - next_file + 1
  BY <1>2, <1>7 DEF NewFiles
<1> HIDE DEF n, ids
<1>9. UNION {maintenance'.files[f] : f \in DOMAIN maintenance'.files} = DOMAIN maintenance'.moved
  <2>1. \A f \in ids : maintenance'.files[f] \subseteq TableRows
    BY <1>2, <1>6, <1>8
  <2>2. ASSUME NEW r \in TableRows PROVE \E f \in ids : r \in maintenance'.files[f]
    <3>1. PICK i \in 1 .. n : r \in chunks[i]
      BY <1>3
    <3>2. next_file + (i - 1) \in ids /\ (next_file + (i - 1)) - next_file + 1 = i
      BY <1>8
    <3> QED BY <1>6, <3>1, <3>2
  <2> QED BY <1>5, <1>6, <2>1, <2>2
<1>10. \A f, g \in DOMAIN maintenance'.files :
         f # g => maintenance'.files[f] \cap maintenance'.files[g] = {}
  BY <1>3, <1>6, <1>8
<1> QED BY <1>1, <1>5, <1>9, <1>10 DEF Copied

LEMMA CopiedKept ==
  ASSUME IInv, TInv, [Next]_vars
  PROVE  Copied'
<1>1. Copied
  BY DEF TInv
<1>2. CASE Write \/ UNCHANGED vars
  <2>1. maintenance' = maintenance
    BY <1>2 DEF Write, BeginWrite, CommitWrite, AbandonWrite, CompactRewrite, CompactMerge, CompactStops, vars
  <2> QED BY <1>1, <2>1 DEF Copied
<1>3. CASE Measure
  <2> DEFINE measured == storage_report(data_files, inlined, policy.min_file_size)
  <2>1. maintenance' = [maintenance EXCEPT !.stale = FALSE, !.storage = measured] /\ Maintaining
    BY <1>3 DEF Measure
  <2> HIDE DEF measured
  <2>2. {"step", "stale", "policy", "storage"} \subseteq DOMAIN maintenance
    BY <2>1 DEF IInv, Maintenance
  <2>3. /\ maintenance'.step = maintenance.step /\ maintenance'.moved = maintenance.moved
        /\ maintenance'.files = maintenance.files
    BY <2>1, <2>2
  <2> QED BY <1>1, <2>3 DEF Copied
<1>4. CASE ReclusterBegin
  BY <1>4, ReclusterCopies
<1>5. CASE ReclusterCommit \/ ReclusterFails \/ SkipRecluster
  BY <1>5 DEF ReclusterCommit, ReclusterFails, SkipRecluster, Measureless, Copied
<1>6. CASE MaintainStops \/ DeleteOrphanedStep \/ \E chosen \in Policies : StartMaintain(chosen)
  BY <1>6 DEF MaintainStops, DeleteOrphanedStep, StartMaintain, Copied
<1>7. CASE FlushStep \/ RewriteStep \/ MergeStep \/ ReclusterMerge \/ ExpireStep \/ CleanupStep
  <2>1. Maintaining
    BY <1>7 DEF FlushStep, RewriteStep, MergeStep, ReclusterMerge, ExpireStep, CleanupStep, Skip, Runs,
                At, Maintaining
  <2>2. \E step \in {"rewrite", "merge", "recluster", "expire", "cleanup", "delete_orphaned"} :
          \/ maintenance' = [maintenance EXCEPT !.step = step, !.stale = FALSE]
          \/ maintenance' = [maintenance EXCEPT !.step = step, !.stale = TRUE]
    BY <1>7 DEF FlushStep, RewriteStep, MergeStep, ReclusterMerge, ExpireStep, CleanupStep, Skip, Runs, Goes
  <2>3. {"step", "stale"} \subseteq DOMAIN maintenance
    BY <2>1 DEF IInv, Maintenance
  <2>4. maintenance'.step # "recluster_commit"
    BY <2>2, <2>3
  <2> QED BY <2>4 DEF Copied
<1> QED BY <1>2, <1>3, <1>4, <1>5, <1>6, <1>7 DEF Next, MaintainStep

LEMMA StepsKeepTables == IInv /\ TInv /\ [Next]_vars => TInv'
<1> SUFFICES ASSUME IInv, TInv, [Next]_vars PROVE TInv'
  OBVIOUS
<1>1. Shows \/ \E table : Commits(table)
  BY StepKinds, CommitWriteShows DEF Shows
<1>2. Single' /\ InlinedGone'
  BY <1>1, TablesKept DEF TInv
<1> QED BY <1>2, FreshKept, CopiedKept DEF TInv

-----------------------------------------------------------------------------
(* The refinement of LogicalTable                                           *)

Seen == [s \in snapshots |-> Shown(VisibleAt(data_files, inlined, s))]

LEMMA ContentsSeen == ASSUME IInv, TInv PROVE Contents = Seen
<1>1. \A s \in snapshots : OnceAt(data_files, inlined, s)
  BY DEF TInv, Single
<1>2. DOMAIN data_files \subseteq on_disk \cup swept
  BY DEF IInv, Files
<1>3. \A s \in snapshots : Scan(Rows, data_files, inlined, on_disk \cup swept, s)
                             = Shown(VisibleAt(data_files, inlined, s))
  BY <1>1, <1>2, ScanShows
<1> QED BY <1>3 DEF Contents, Seen

LEMMA ContentsSeenNext == ASSUME IInv', TInv' PROVE Contents' = Seen'
<1>1. \A s \in snapshots' : OnceAt(data_files', inlined', s)
  BY DEF TInv, Single
<1>2. DOMAIN data_files' \subseteq on_disk' \cup swept'
  BY DEF IInv, Files
<1>3. \A s \in snapshots' : Scan(Rows, data_files', inlined', on_disk' \cup swept', s)
                              = Shown(VisibleAt(data_files', inlined', s))
  BY <1>1, <1>2, ScanShows
<1> QED BY <1>3 DEF Contents, Seen

LEMMA LatestSnapshot ==
  ASSUME IInv, TInv
  PROVE  /\ DOMAIN Contents = snapshots /\ Logical!Latest = snapshot
         /\ Contents[snapshot] = Shown(VisibleAt(data_files, inlined, snapshot))
<1>1. snapshot \in Nat /\ snapshots \subseteq 0 .. snapshot /\ snapshot \in snapshots
  BY DEF IInv, Catalog
<1>2. DOMAIN Contents = snapshots
  BY DEF Contents
<1>3. Logical!Latest = CHOOSE s \in snapshots : \A t \in snapshots : s >= t
  BY <1>2 DEF Logical!Latest, Logical!Max
<1>4. \A s \in snapshots : (\A t \in snapshots : s >= t) <=> s = snapshot
  BY <1>1
<1>5. Logical!Latest = snapshot
  BY <1>1, <1>3, <1>4
<1> QED BY <1>1, <1>2, <1>5, ContentsSeen DEF Seen

\* A commit is a new snapshot of the abstract table.
LEMMA NewLogicalSnapshot ==
  ASSUME IInv, TInv, IInv', TInv',
         snapshot' = snapshot + 1, snapshots' = snapshots \cup {snapshot + 1}, PastKept
  PROVE  Logical!NewSnapshot(Shown(VisibleAt(data_files', inlined', snapshot + 1)))
<1> DEFINE new == snapshot + 1
           table == Shown(VisibleAt(data_files', inlined', new))
<1>1. snapshot \in Nat /\ snapshots \subseteq 0 .. snapshot
  BY DEF IInv, Catalog
<1>2. new \notin snapshots /\ \A s \in snapshots : s # new
  BY <1>1
<1>3. Contents = Seen /\ Contents' = Seen'
  BY ContentsSeen, ContentsSeenNext
<1>4. DOMAIN Contents = snapshots /\ Logical!Latest = snapshot
  BY LatestSnapshot
<1>5. \A s \in snapshots : Seen'[s] = Seen[s]
  BY DEF PastKept, Seen
<1>6. Seen'[new] = table
  BY DEF Seen
<1>7. Seen' = [s \in snapshots \cup {new} |-> IF s = new THEN table ELSE Seen[s]]
  <2>1. Seen' = [s \in snapshots \cup {new} |-> Seen'[s]]
    BY DEF Seen
  <2> HIDE DEF new, table
  <2> QED BY <1>2, <1>5, <1>6, <2>1
<1> HIDE DEF table
<1>8. Contents' = [s \in DOMAIN Contents \cup {Logical!Latest + 1} |->
                     IF s = Logical!Latest + 1 THEN table ELSE Contents[s]]
  BY <1>3, <1>4, <1>7
<1>9. Logical!NewSnapshot(table)
  BY <1>8 DEF Logical!NewSnapshot
<1> QED BY <1>9 DEF table

LEMMA ReorganiseStep ==
  ASSUME IInv, TInv, IInv', TInv', Reorganises, Requested' = Requested
  PROVE  Logical!Reorganise
<1>1. Logical!NewSnapshot(Shown(VisibleAt(data_files', inlined', snapshot + 1)))
  BY NewLogicalSnapshot DEF Reorganises
<1>2. VisibleAt(data_files', inlined', snapshot + 1) = VisibleAt(data_files, inlined, snapshot)
  BY DEF Reorganises
<1>3. Contents[Logical!Latest] = Shown(VisibleAt(data_files, inlined, snapshot))
  BY LatestSnapshot
<1> QED BY <1>1, <1>2, <1>3 DEF Logical!Reorganise

LEMMA ExpireStepForgets ==
  ASSUME IInv, TInv, IInv', TInv', Forgets, Requested' = Requested
  PROVE  Logical!Expire
<1>1. PICK oldest \in snapshots : snapshots' = {s \in snapshots : s >= oldest}
  BY DEF Forgets
<1>2. Contents = Seen /\ Contents' = Seen' /\ DOMAIN Contents = snapshots
  BY ContentsSeen, ContentsSeenNext, LatestSnapshot
<1>3. \A s \in snapshots' : Seen'[s] = Seen[s]
  BY <1>1 DEF Forgets, PastKept, Seen
<1>4. Seen' = [s \in snapshots' |-> Seen'[s]]
  BY DEF Seen
<1>5. Seen' = [s \in {t \in snapshots : t >= oldest} |-> Seen[s]]
  BY <1>1, <1>3, <1>4
<1> QED BY <1>2, <1>5 DEF Logical!Expire

LEMMA CommitStep ==
  ASSUME IInv, TInv, IInv', TInv', CommitWrite
  PROVE  Logical!Commit
<1> DEFINE visible == VisibleAt(data_files, inlined, snapshot)
           inserts == writer.inserts
           deletes == DOMAIN writer.deletes
           table == (visible \ deletes) \cup inserts
<1>1. /\ inserts \subseteq Rows /\ deletes \subseteq visible /\ inserts \cap visible = {}
      /\ Commits(table)
  BY CommitWriteShows
<1>2. Requested = [inserts |-> inserts, deletes |-> deletes] /\ Requested' = NULL
  BY DEF CommitWrite, Requested, Idle
<1>3. visible \subseteq Rows
  BY DEF VisibleAt
<1>4. Requested # NULL
  <2>1. inserts \in SUBSET Rows /\ deletes \in SUBSET Rows
    BY <1>1, <1>3
  <2> HIDE DEF inserts, deletes
  <2>2. Requested \in [inserts : SUBSET Rows, deletes : SUBSET Rows]
    BY <1>2, <2>1
  <2> QED BY <2>2, StorageAssumption
<1>5. Contents[Logical!Latest] = Shown(visible)
  BY LatestSnapshot
<1> HIDE DEF visible, inserts, deletes
<1>6. /\ \A r \in deletes : Contents[Logical!Latest][r] = 1
      /\ \A r \in inserts : Contents[Logical!Latest][r] = 0
  BY <1>1, <1>3, <1>5 DEF Shown
<1>7. Logical!NewSnapshot(Shown(table))
  BY <1>1, NewLogicalSnapshot DEF Commits
<1>8. Shown(table) = [r \in Rows |-> IF r \in inserts THEN 1
                                     ELSE IF r \in deletes THEN 0
                                     ELSE Contents[Logical!Latest][r]]
  BY <1>5 DEF Shown
<1> QED BY <1>2, <1>4, <1>6, <1>7, <1>8 DEF Logical!Commit

LEMMA RequestStep ==
  ASSUME IInv, TInv, IInv', TInv', Same, NEW request \in awaited, BeginWrite(request)
  PROVE  Logical!Request
<1>1. Requested = NULL
  BY DEF BeginWrite, Requested, Idle
<1>2. /\ writer'.status = "open"
      /\ writer'.inserts \subseteq Rows /\ DOMAIN writer'.deletes \subseteq Rows
  BY DEF BeginWrite, IInv, Writer, Idle
<1>3. Requested' \in [inserts : SUBSET Rows, deletes : SUBSET Rows]
  BY <1>2 DEF Requested
<1>4. Contents' = Contents
  BY ContentsSeen, ContentsSeenNext DEF Same, Seen
<1> QED BY <1>1, <1>3, <1>4 DEF Logical!Request

LEMMA AbandonStep ==
  ASSUME IInv, TInv, IInv', TInv', Same, NEW process_ends, AbandonWrite(process_ends)
  PROVE  Logical!Abandon
<1>1. writer.status = "open" /\ writer' = Idle
  BY DEF AbandonWrite
<1>2. writer.inserts \subseteq Rows /\ DOMAIN writer.deletes \subseteq Rows
  BY <1>1 DEF IInv, Writer, Idle
<1>3. Requested # NULL /\ Requested' = NULL
  <2>1. Requested = [inserts |-> writer.inserts, deletes |-> DOMAIN writer.deletes]
    BY <1>1 DEF Requested
  <2>2. Requested \in [inserts : SUBSET Rows, deletes : SUBSET Rows]
    BY <1>2, <2>1
  <2> QED BY <1>1, <2>2, StorageAssumption DEF Requested, Idle
<1>4. Contents' = Contents
  BY ContentsSeen, ContentsSeenNext DEF Same, Seen
<1> QED BY <1>3, <1>4 DEF Logical!Abandon

LEMMA InitTables == Init => TInv
BY DEF Init, Holder, Stored, Idle, TInv, Single, OnceAt, InlinedGone, Fresh, Copied

LEMMA InitShowsNothing == Init => Logical!Init
<1> SUFFICES ASSUME Init PROVE Logical!Init
  OBVIOUS
<1>1. IInv /\ TInv
  BY InitInvariant, InitTables
<1>2. Contents = Seen
  BY <1>1, ContentsSeen
<1>3. VisibleAt(data_files, inlined, 0) = {}
  BY DEF Init, Holder, Stored, VisibleAt, RowsAt
<1>4. Seen = [s \in {0} |-> [r \in Rows |-> 0]]
  BY <1>3 DEF Seen, Init, Shown
<1>5. Requested = NULL
  BY DEF Init, Idle, Requested
<1> QED BY <1>2, <1>4, <1>5 DEF Logical!Init

LEMMA LogicalStep ==
  IInv /\ TInv /\ IInv' /\ TInv' /\ [Next]_vars => [Logical!Next]_(Logical!vars)
<1> SUFFICES ASSUME IInv, TInv, IInv', TInv', [Next]_vars
             PROVE  Logical!Next \/ UNCHANGED <<Contents, Requested>>
  BY DEF Logical!vars
<1>1. CASE CommitWrite
  BY <1>1, CommitStep DEF Logical!Next
<1>2. ASSUME Same, NEW request \in awaited, BeginWrite(request) PROVE Logical!Next
  BY <1>2, RequestStep DEF Logical!Next
<1>3. ASSUME Same, NEW process_ends \in BOOLEAN, AbandonWrite(process_ends) PROVE Logical!Next
  BY <1>3, AbandonStep DEF Logical!Next
<1>4. ASSUME Same, SameRequest PROVE UNCHANGED <<Contents, Requested>>
  BY <1>4, ContentsSeen, ContentsSeenNext DEF Same, SameRequest, Seen
<1>5. ASSUME Reorganises, SameRequest PROVE Logical!Next
  BY <1>5, ReorganiseStep DEF SameRequest, Logical!Next
<1>6. ASSUME Forgets, SameRequest PROVE Logical!Next
  BY <1>6, ExpireStepForgets DEF SameRequest, Logical!Next
<1> QED BY <1>1, <1>2, <1>3, <1>4, <1>5, <1>6, StepKinds DEF Shows

\* Whatever maintain, recluster and compact interleave with the writes, the storage
\* is a LogicalTable for its readers.
THEOREM StorageIsTable == Spec => MaintenanceIsInvisible
<1> QED
  BY InitInvariant, InitTables, InitShowsNothing, StepsKeepInvariant, StepsKeepTables, LogicalStep, PTL
  DEF Spec, MaintenanceIsInvisible, Logical!Spec
=============================================================================
