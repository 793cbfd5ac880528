------------------------ MODULE WriteTransaction_proofs ------------------------
(***************************************************************************)
(* Theorems about WriteTransaction, for any managers, calls and number of  *)
(* statements.  The first part assumes nothing of the steps that fail; the *)
(* second, which ends with the refinement of AtomicWrites, lets only       *)
(* statements of the body fail.                                            *)
(***************************************************************************)
EXTENDS WriteTransaction, TLAPS

LEMMA StatementsPositive == Statements \in Nat /\ Statements > 0
BY WriteTransactionAssumption

LEMMA NullApart == NULL \notin Calls /\ NULL \notin Reports /\ NULL \notin Activities
BY WriteTransactionAssumption

USE StatementsPositive

-----------------------------------------------------------------------------
(* The inductive invariants, whatever fails *)

BlockNames == {"main", "cleanup"}

Untouched(call, block) == durable \cap BlockOf(call, block) = {}
Whole(call, block) == BlockOf(call, block) \subseteq durable

\* A call belongs to one manager, and answers once.
CallsAreApart ==
  /\ \A c \in Calls : made[c] = "no" => answers[c] = "none"
  /\ \A m \in Managers : latest[m] # NULL => made[latest[m]] # "no"
  /\ \A m, n \in Managers : latest[m] = latest[n] /\ latest[m] # NULL => m = n
  /\ active # NULL =>
       /\ latest[active.manager] = active.call
       /\ answers[active.call] = "none"
       /\ made[active.call] = IF active.use_transaction THEN "transaction" ELSE "autocommit"

\* What the block being executed has stored so far.
EnteringBlock ==
  active # NULL /\ active.at = "enter" =>
    /\ active.done = 0 /\ ~ active.direct
    /\ active.report = report_of(active.call, active.block)
    /\ <<active.call, active.block>> \notin opened
    /\ Untouched(active.call, active.block)
DirectBlock ==
  active # NULL /\ active.at = "body" /\ active.direct =>
    /\ <<active.call, active.block>> \notin opened
    /\ \/ active.report = report_of(active.call, active.block)
       \/ current_report[active.manager] # NULL
OwnBlock ==
  active # NULL /\ active.at = "body" /\ ~ active.direct =>
    /\ active.use_transaction
    /\ connection = "open" /\ in_transaction[active.manager]
    /\ current_report[active.manager] = active.report
    /\ active.report = report_of(active.call, active.block)
    /\ Untouched(active.call, active.block)
    /\ pending = {active.call} \X {active.block} \X (1 .. active.done)
CommittedBlock ==
  active # NULL /\ active.at = "measure" =>
    /\ active.report = report_of(active.call, active.block)
    /\ \/ Whole(active.call, active.block)
       \/ active.block = "cleanup" /\ Untouched(active.call, active.block)
BlocksInOrder ==
  active # NULL =>
    /\ active.block = "main" =>
         <<active.call, "cleanup">> \notin opened /\ Untouched(active.call, "cleanup")
    /\ active.block = "cleanup" /\ <<active.call, "main">> \in opened =>
         Whole(active.call, "main")

\* What the calls have stored.
NothingStoredBefore ==
  \A c \in Calls, b \in BlockNames : made[c] = "no" => <<c, b>> \notin opened /\ Untouched(c, b)
OpenedBlocks ==
  \A c \in Calls, b \in BlockNames :
    <<c, b>> \in opened =>
      /\ Untouched(c, b) \/ Whole(c, b)
      /\ answers[c] = "raised" => Untouched(c, b)
      /\ answers[c] = "returned" /\ b = "main" => Whole(c, b)

CurrentBlock == EnteringBlock /\ DirectBlock /\ OwnBlock /\ CommittedBlock /\ BlocksInOrder
StoredBlocks ==
  /\ connection = "idle" => pending = {}
  /\ NothingStoredBefore /\ OpenedBlocks

Atomic == TypeOK /\ CallsAreApart /\ CurrentBlock /\ StoredBlocks


-----------------------------------------------------------------------------
(* Types *)

LEMMA TypeInit == Init => TypeOK
BY DEF Init, TypeOK

LEMMA EnteringTyped ==
  ASSUME NEW m \in Managers, NEW call \in Calls, NEW use_transaction \in BOOLEAN,
         NEW with_cleanup \in BOOLEAN, NEW block \in BlockNames
  PROVE  Entering(m, call, use_transaction, with_cleanup, block) \in Activities
BY DEF Entering, Activities, report_of, Reports, BlockNames

LEMMA ReturnTyped ==
  ASSUME TypeOK, active # NULL, LeaveReturning
  PROVE  /\ active' \in Activities \cup {NULL}
         /\ last_report' \in [Managers -> Reports \cup {NULL}]
         /\ answers' \in [Calls -> {"none", "returned", "raised", "lost"}]
<1>1. active.report \in Reports /\ report_of(active.call, "main") \in Reports
  BY DEF TypeOK, Activities, Reports, report_of
<1>2. EnteringCleanup \in Activities
  BY EnteringTyped DEF EnteringCleanup, BlockNames, TypeOK, Activities
<1>3. CASE CleanupFollows
  BY <1>1, <1>2, <1>3 DEF CleanupFollows, TypeOK
<1>4. CASE CallReturns
  BY <1>1, <1>4 DEF CallReturns, TypeOK
<1> QED BY <1>3, <1>4 DEF LeaveReturning

LEMMA TypeStep == TypeOK /\ [Next]_vars => TypeOK'
<1> SUFFICES ASSUME TypeOK, [Next]_vars PROVE TypeOK'
  OBVIOUS
<1> USE DEF TypeOK, database, managers, callers
<1>1. ASSUME NEW m \in Managers, NEW call \in Calls, NEW use_transaction \in BOOLEAN,
             NEW with_cleanup \in BOOLEAN, Call(m, call, use_transaction, with_cleanup)
      PROVE  TypeOK'
  BY <1>1, EnteringTyped DEF Call, BlockNames
<1>2. CASE EnterDirectly
  BY <1>2 DEF EnterDirectly, Activities
<1>3. CASE Begin
  BY <1>3 DEF Begin, before_begin, Activities
<1>4. CASE BeginFails
  BY <1>4 DEF BeginFails, before_begin, LeaveRaising, Activities, report_of, Reports
<1>5. CASE LoadMetadata
  BY <1>5 DEF LoadMetadata, View
<1>6. CASE Statement
  BY <1>6 DEF Statement, Activities, Writes
<1>7. CASE StatementFails
  BY <1>7 DEF StatementFails, LeaveRaising, Activities, report_of, Reports
<1>8. CASE LeaveDirectly
  BY <1>8, ReturnTyped DEF LeaveDirectly, BodyDone
<1>9. CASE Commit
  BY <1>9 DEF Commit, BodyDone, Activities
<1>10. CASE CommitFails
  BY <1>10 DEF CommitFails, BodyDone, LeaveRaising, Activities, report_of, Reports
<1>11. CASE Measure
  BY <1>11, ReturnTyped DEF Measure
<1>12. CASE Restart
  BY <1>12 DEF Restart, Activities
<1>13. CASE UNCHANGED vars
  BY <1>13 DEF vars
<1> QED
  BY <1>1, <1>2, <1>3, <1>4, <1>5, <1>6, <1>7, <1>8, <1>9, <1>10, <1>11, <1>12, <1>13 DEF Next


-----------------------------------------------------------------------------
(* Calls *)

LEMMA CallsInit == Init => CallsAreApart
BY DEF Init, CallsAreApart

LEMMA ReturnCalls ==
  ASSUME TypeOK, CallsAreApart, active # NULL, LeaveReturning, UNCHANGED <<made, latest>>
  PROVE  CallsAreApart'
<1> USE DEF TypeOK, Activities, CallsAreApart
<1>1. CASE CleanupFollows
  BY <1>1 DEF CleanupFollows, EnteringCleanup, Entering
<1>2. CASE CallReturns
  BY <1>2 DEF CallReturns
<1> QED BY <1>1, <1>2 DEF LeaveReturning

LEMMA CallsStep == TypeOK /\ CallsAreApart /\ [Next]_vars => CallsAreApart'
<1> SUFFICES ASSUME TypeOK, CallsAreApart, [Next]_vars PROVE CallsAreApart'
  OBVIOUS
<1> USE DEF TypeOK, CallsAreApart, Activities, database, managers, callers
<1>1. ASSUME NEW m \in Managers, NEW call \in Calls, NEW use_transaction \in BOOLEAN,
             NEW with_cleanup \in BOOLEAN, Call(m, call, use_transaction, with_cleanup)
      PROVE  CallsAreApart'
  BY <1>1 DEF Call, Entering
<1>2. CASE EnterDirectly
  BY <1>2 DEF EnterDirectly
<1>3. CASE Begin
  BY <1>3 DEF Begin, before_begin
<1>4. CASE BeginFails
  BY <1>4 DEF BeginFails, before_begin, LeaveRaising
<1>5. CASE LoadMetadata
  BY <1>5 DEF LoadMetadata
<1>6. CASE Statement
  BY <1>6 DEF Statement
<1>7. CASE StatementFails
  BY <1>7 DEF StatementFails, LeaveRaising
<1>8. CASE LeaveDirectly
  BY <1>8, ReturnCalls DEF LeaveDirectly, BodyDone
<1>9. CASE Commit
  BY <1>9 DEF Commit, BodyDone
<1>10. CASE CommitFails
  BY <1>10 DEF CommitFails, BodyDone, LeaveRaising
<1>11. CASE Measure
  BY <1>11, ReturnCalls DEF Measure
<1>12. CASE Restart
  BY <1>12 DEF Restart
<1>13. CASE UNCHANGED vars
  BY <1>13 DEF vars
<1> QED
  BY <1>1, <1>2, <1>3, <1>4, <1>5, <1>6, <1>7, <1>8, <1>9, <1>10, <1>11, <1>12, <1>13 DEF Next

-----------------------------------------------------------------------------
(* Blocks *)

LEMMA BlocksApart ==
  ASSUME NEW c, NEW b, NEW d, NEW e, c # d \/ b # e
  PROVE  BlockOf(c, b) \cap BlockOf(d, e) = {}
BY DEF BlockOf, AllOrNothing!BlockOf

LEMMA SameStored ==
  ASSUME durable' = durable, NEW c, NEW b
  PROVE  (Untouched(c, b)' <=> Untouched(c, b)) /\ (Whole(c, b)' <=> Whole(c, b))
BY DEF Untouched, Whole, BlockOf, AllOrNothing!BlockOf

LEMMA OtherBlockStored ==
  ASSUME NEW c, NEW b, NEW written, written \subseteq BlockOf(c, b),
         durable' = durable \cup written, NEW d, NEW e, c # d \/ b # e
  PROVE  (Untouched(d, e)' <=> Untouched(d, e)) /\ (Whole(d, e)' <=> Whole(d, e))
<1>1. BlockOf(c, b) \cap BlockOf(d, e) = {}
  BY BlocksApart
<1> QED BY <1>1 DEF Untouched, Whole, BlockOf, AllOrNothing!BlockOf

LEMMA BlockStored ==
  ASSUME NEW c, NEW b, durable' = durable \cup BlockOf(c, b)
  PROVE  Whole(c, b)'
BY DEF Whole, BlockOf, AllOrNothing!BlockOf

LEMMA AtomicInit == Init => Atomic
<1> SUFFICES ASSUME Init PROVE Atomic
  OBVIOUS
<1>1. \A c, b : Untouched(c, b)
  BY DEF Init, Untouched
<1> QED
  BY <1>1, TypeInit, CallsInit
  DEF Init, Atomic, CurrentBlock, EnteringBlock, DirectBlock, OwnBlock, CommittedBlock,
      BlocksInOrder, StoredBlocks, NothingStoredBefore, OpenedBlocks

\* The steps that store nothing.
LEMMA CallAtomic ==
  ASSUME Atomic, NEW m \in Managers, NEW call \in Calls, NEW use_transaction \in BOOLEAN,
         NEW with_cleanup \in BOOLEAN, Call(m, call, use_transaction, with_cleanup)
  PROVE  CurrentBlock' /\ StoredBlocks'
<1> USE DEF Atomic, CurrentBlock, StoredBlocks, Call, Entering, database, managers
<1>1. \A c, b : (Untouched(c, b)' <=> Untouched(c, b)) /\ (Whole(c, b)' <=> Whole(c, b))
  BY SameStored
<1>2. CurrentBlock'
  BY <1>1 DEF EnteringBlock, DirectBlock, OwnBlock, CommittedBlock, BlocksInOrder, NothingStoredBefore, BlockNames
<1>3. StoredBlocks'
  BY <1>1 DEF NothingStoredBefore, OpenedBlocks, TypeOK
<1> QED BY <1>2, <1>3

LEMMA EnterDirectlyAtomic ==
  ASSUME Atomic, EnterDirectly
  PROVE  CurrentBlock' /\ StoredBlocks'
<1> USE DEF Atomic, CurrentBlock, StoredBlocks, EnterDirectly, database, managers, callers
<1>1. \A c, b : (Untouched(c, b)' <=> Untouched(c, b)) /\ (Whole(c, b)' <=> Whole(c, b))
  BY SameStored
<1>2. CurrentBlock'
  BY <1>1 DEF EnteringBlock, DirectBlock, OwnBlock, CommittedBlock, BlocksInOrder, TypeOK, Activities
<1>3. StoredBlocks'
  BY <1>1 DEF NothingStoredBefore, OpenedBlocks
<1> QED BY <1>2, <1>3

LEMMA BeginAtomic ==
  ASSUME Atomic, Begin
  PROVE  CurrentBlock' /\ StoredBlocks'
<1> USE DEF Atomic, CurrentBlock, StoredBlocks, Begin, before_begin
<1>1. \A c, b : (Untouched(c, b)' <=> Untouched(c, b)) /\ (Whole(c, b)' <=> Whole(c, b))
  BY SameStored
<1>2. CurrentBlock'
  BY <1>1 DEF EnteringBlock, DirectBlock, OwnBlock, CommittedBlock, BlocksInOrder, TypeOK, Activities
<1>3. StoredBlocks'
  BY <1>1 DEF NothingStoredBefore, OpenedBlocks, EnteringBlock, CallsAreApart, TypeOK, Activities
<1> QED BY <1>2, <1>3

LEMMA BeginFailsAtomic ==
  ASSUME Atomic, BeginFails
  PROVE  CurrentBlock' /\ StoredBlocks'
<1> USE DEF Atomic, CurrentBlock, StoredBlocks, BeginFails, before_begin, LeaveRaising, database
<1>1. \A c, b : (Untouched(c, b)' <=> Untouched(c, b)) /\ (Whole(c, b)' <=> Whole(c, b))
  BY SameStored
<1>2. CurrentBlock'
  BY <1>1 DEF EnteringBlock, DirectBlock, OwnBlock, CommittedBlock, BlocksInOrder, TypeOK, Activities
<1>3. StoredBlocks'
  BY <1>1 DEF NothingStoredBefore, OpenedBlocks, EnteringBlock, BlocksInOrder, CallsAreApart, TypeOK, Activities
<1> QED BY <1>2, <1>3

LEMMA LoadMetadataAtomic ==
  ASSUME Atomic, LoadMetadata
  PROVE  CurrentBlock' /\ StoredBlocks'
<1> USE DEF Atomic, CurrentBlock, StoredBlocks, LoadMetadata, database, callers
<1>1. \A c, b : (Untouched(c, b)' <=> Untouched(c, b)) /\ (Whole(c, b)' <=> Whole(c, b))
  BY SameStored
<1>2. CurrentBlock'
  BY <1>1 DEF EnteringBlock, DirectBlock, OwnBlock, CommittedBlock, BlocksInOrder, TypeOK, Activities
<1>3. StoredBlocks'
  BY <1>1 DEF NothingStoredBefore, OpenedBlocks
<1> QED BY <1>2, <1>3

LEMMA StatementFailsAtomic ==
  ASSUME Atomic, StatementFails
  PROVE  CurrentBlock' /\ StoredBlocks'
<1> USE DEF Atomic, CurrentBlock, StoredBlocks, StatementFails, LeaveRaising
<1>1. \A c, b : (Untouched(c, b)' <=> Untouched(c, b)) /\ (Whole(c, b)' <=> Whole(c, b))
  BY SameStored
<1>2. CurrentBlock'
  BY <1>1 DEF EnteringBlock, DirectBlock, OwnBlock, CommittedBlock, BlocksInOrder, TypeOK, Activities
<1>3. StoredBlocks'
  BY <1>1 DEF NothingStoredBefore, OpenedBlocks, DirectBlock, OwnBlock, BlocksInOrder, CallsAreApart, TypeOK, Activities
<1> QED BY <1>2, <1>3

LEMMA CommitFailsAtomic ==
  ASSUME Atomic, CommitFails
  PROVE  CurrentBlock' /\ StoredBlocks'
<1> USE DEF Atomic, CurrentBlock, StoredBlocks, CommitFails, BodyDone, LeaveRaising, database
<1>1. \A c, b : (Untouched(c, b)' <=> Untouched(c, b)) /\ (Whole(c, b)' <=> Whole(c, b))
  BY SameStored
<1>2. CurrentBlock'
  BY <1>1 DEF EnteringBlock, DirectBlock, OwnBlock, CommittedBlock, BlocksInOrder, TypeOK, Activities
<1>3. StoredBlocks'
  BY <1>1 DEF NothingStoredBefore, OpenedBlocks, OwnBlock, BlocksInOrder, CallsAreApart, TypeOK, Activities
<1> QED BY <1>2, <1>3

LEMMA RestartAtomic ==
  ASSUME Atomic, Restart
  PROVE  CurrentBlock' /\ StoredBlocks'
<1> USE DEF Atomic, CurrentBlock, StoredBlocks, Restart
<1>1. \A c, b : (Untouched(c, b)' <=> Untouched(c, b)) /\ (Whole(c, b)' <=> Whole(c, b))
  BY SameStored
<1>2. CurrentBlock'
  BY <1>1 DEF EnteringBlock, DirectBlock, OwnBlock, CommittedBlock, BlocksInOrder, TypeOK, Activities
<1>3. StoredBlocks'
  BY <1>1 DEF NothingStoredBefore, OpenedBlocks, BlocksInOrder, CallsAreApart, TypeOK, Activities
<1> QED BY <1>2, <1>3

LEMMA CleanupFollowsAtomic ==
  ASSUME Atomic, LeaveDirectly \/ Measure, CleanupFollows
  PROVE  CurrentBlock' /\ StoredBlocks'
<1> USE DEF Atomic, CurrentBlock, StoredBlocks, LeaveDirectly, Measure, BodyDone, database,
            CleanupFollows, EnteringCleanup, Entering
<1>1. \A c, b : (Untouched(c, b)' <=> Untouched(c, b)) /\ (Whole(c, b)' <=> Whole(c, b))
  BY SameStored
<1>2. CurrentBlock'
  BY <1>1 DEF EnteringBlock, DirectBlock, OwnBlock, CommittedBlock, BlocksInOrder, TypeOK, Activities
<1>3. StoredBlocks'
  BY <1>1 DEF NothingStoredBefore, OpenedBlocks, CommittedBlock, DirectBlock, TypeOK, Activities
<1> QED BY <1>2, <1>3

LEMMA CallReturnsAtomic ==
  ASSUME Atomic, LeaveDirectly \/ Measure, CallReturns
  PROVE  CurrentBlock' /\ StoredBlocks'
<1> USE DEF Atomic, CurrentBlock, StoredBlocks, LeaveDirectly, Measure, BodyDone, database,
            CallReturns
<1>1. \A c, b : (Untouched(c, b)' <=> Untouched(c, b)) /\ (Whole(c, b)' <=> Whole(c, b))
  BY SameStored
<1>2. CurrentBlock'
  BY <1>1 DEF EnteringBlock, DirectBlock, OwnBlock, CommittedBlock, BlocksInOrder, TypeOK, Activities
<1>3. StoredBlocks'
  BY <1>1 DEF NothingStoredBefore, OpenedBlocks, CommittedBlock, DirectBlock, BlocksInOrder, TypeOK, Activities
<1> QED BY <1>2, <1>3

LEMMA StatementAtomic ==
  ASSUME Atomic, Statement
  PROVE  CurrentBlock' /\ StoredBlocks'
<1> DEFINE write == {<<active.call, active.block, active.done + 1>>}
<1> USE DEF Atomic, CurrentBlock, StoredBlocks, Statement, callers
<1>1. CASE connection = "open"
  <2>1. \A c, b : (Untouched(c, b)' <=> Untouched(c, b)) /\ (Whole(c, b)' <=> Whole(c, b))
    BY <1>1, SameStored
  <2>2. CurrentBlock'
    BY <1>1, <2>1 DEF EnteringBlock, DirectBlock, OwnBlock, CommittedBlock, BlocksInOrder,
                      TypeOK, Activities
  <2>3. StoredBlocks'
    BY <1>1, <2>1 DEF NothingStoredBefore, OpenedBlocks
  <2> QED BY <2>2, <2>3
<1>2. CASE connection = "idle"
  <2>1. active.direct
    BY <1>2 DEF OwnBlock
  <2>2. write \subseteq BlockOf(active.call, active.block)
    BY DEF TypeOK, Activities, BlockOf, AllOrNothing!BlockOf
  <2>3. durable' = durable \cup write
    BY <1>2
  <2> HIDE DEF write
  <2>4. \A c, b : c # active.call \/ b # active.block =>
          (Untouched(c, b)' <=> Untouched(c, b)) /\ (Whole(c, b)' <=> Whole(c, b))
    BY <2>2, <2>3, OtherBlockStored
  <2>5. CurrentBlock'
    BY <1>2, <2>1, <2>4
    DEF EnteringBlock, DirectBlock, OwnBlock, CommittedBlock, BlocksInOrder, TypeOK, Activities
  <2>6. StoredBlocks'
    BY <1>2, <2>1, <2>4
    DEF NothingStoredBefore, OpenedBlocks, DirectBlock, CallsAreApart, TypeOK, Activities
  <2> QED BY <2>5, <2>6
<1> QED BY <1>1, <1>2 DEF TypeOK

\* COMMIT stores the block of the call and nothing else.
LEMMA CommitAtomic ==
  ASSUME Atomic, Commit
  PROVE  CurrentBlock' /\ StoredBlocks'
<1> USE DEF Atomic, CurrentBlock, StoredBlocks, Commit, BodyDone, callers
<1>1. pending = {active.call} \X {active.block} \X (1 .. active.done)
  BY DEF OwnBlock
<1>2. \/ pending = BlockOf(active.call, active.block)
      \/ active.block = "cleanup" /\ pending = {}
  BY <1>1 DEF BlockOf, AllOrNothing!BlockOf
<1>3. pending \subseteq BlockOf(active.call, active.block)
  BY <1>2
<1>4. \A c, b : c # active.call \/ b # active.block =>
        (Untouched(c, b)' <=> Untouched(c, b)) /\ (Whole(c, b)' <=> Whole(c, b))
  BY <1>3, OtherBlockStored
<1>5. \/ Whole(active.call, active.block)'
      \/ active.block = "cleanup" /\ Untouched(active.call, active.block)'
  BY <1>2, BlockStored, SameStored DEF OwnBlock
<1>6. CurrentBlock'
  BY <1>4, <1>5
  DEF EnteringBlock, DirectBlock, OwnBlock, CommittedBlock, BlocksInOrder, TypeOK, Activities
<1>7. StoredBlocks'
  BY <1>4, <1>5 DEF NothingStoredBefore, OpenedBlocks, CallsAreApart, TypeOK, Activities
<1> QED BY <1>6, <1>7

LEMMA AtomicStep == Atomic /\ [Next]_vars => Atomic'
<1> SUFFICES ASSUME Atomic, [Next]_vars PROVE CurrentBlock' /\ StoredBlocks'
  BY TypeStep, CallsStep DEF Atomic
<1>1. CASE LeaveDirectly
  BY <1>1, CleanupFollowsAtomic, CallReturnsAtomic DEF LeaveDirectly, LeaveReturning
<1>2. CASE Measure
  BY <1>2, CleanupFollowsAtomic, CallReturnsAtomic DEF Measure, LeaveReturning
<1>3. CASE UNCHANGED vars
  <2>1. \A c, b : (Untouched(c, b)' <=> Untouched(c, b)) /\ (Whole(c, b)' <=> Whole(c, b))
    BY <1>3, SameStored DEF vars, database
  <2> QED
    BY <1>3, <2>1
    DEF vars, database, managers, callers, Atomic, CurrentBlock, EnteringBlock, DirectBlock,
        OwnBlock, CommittedBlock, BlocksInOrder, StoredBlocks, NothingStoredBefore, OpenedBlocks
<1> QED
  BY <1>1, <1>2, <1>3, CallAtomic, EnterDirectlyAtomic, BeginAtomic, BeginFailsAtomic,
     LoadMetadataAtomic, StatementAtomic, StatementFailsAtomic, CommitAtomic,
     CommitFailsAtomic, RestartAtomic
  DEF Next

-----------------------------------------------------------------------------
(* Whatever fails *)

\* The managers, the connection and the calls keep their types, whatever step of
\* _transaction fails and wherever the process ends.
THEOREM TypesHold == Spec => []TypeOK
BY TypeInit, TypeStep, PTL DEF Spec

\* A block that _transaction ran in a transaction of its own is stored whole or not at
\* all, and as its caller was told, whatever a failed commit left on the connection.
THEOREM BlocksAreAtomic == Spec => []OwnTransactionsAreWhole
<1>1. Atomic => OwnTransactionsAreWhole
  BY DEF Atomic, StoredBlocks, OpenedBlocks, OwnTransactionsAreWhole, Untouched, Whole, BlockNames
<1> QED BY <1>1, AtomicInit, AtomicStep, PTL DEF Spec

LEMMA ReportsStep == Atomic /\ OnlyLeftOverReportsMislead /\ [Next]_vars => OnlyLeftOverReportsMislead'
<1> SUFFICES ASSUME Atomic, OnlyLeftOverReportsMislead, [Next]_vars,
                    NEW n \in Managers, latest'[n] # NULL, answers'[latest'[n]] # "none",
                    current_report'[n] = NULL
             PROVE  last_report'[n] = report_of(latest'[n], "main")
  BY DEF OnlyLeftOverReportsMislead
<1> USE DEF Atomic, TypeOK, Activities, OnlyLeftOverReportsMislead, database, managers, callers
<1>1. ASSUME NEW m \in Managers, NEW call \in Calls, NEW use_transaction \in BOOLEAN,
             NEW with_cleanup \in BOOLEAN, Call(m, call, use_transaction, with_cleanup)
      PROVE  last_report'[n] = report_of(latest'[n], "main")
  BY <1>1 DEF Call, CallsAreApart
<1>2. CASE EnterDirectly
  BY <1>2 DEF EnterDirectly
<1>3. CASE Begin
  BY <1>3, NullApart DEF Begin, before_begin, CallsAreApart
<1>4. CASE BeginFails
  BY <1>4, NullApart DEF BeginFails, before_begin, LeaveRaising, CallsAreApart
<1>5. CASE LoadMetadata
  BY <1>5 DEF LoadMetadata
<1>6. CASE Statement
  BY <1>6 DEF Statement
<1>7. CASE StatementFails
  BY <1>7 DEF StatementFails, LeaveRaising, CallsAreApart, CurrentBlock, DirectBlock, OwnBlock
<1>8. CASE LeaveDirectly /\ CleanupFollows
  BY <1>8 DEF LeaveDirectly, BodyDone, CleanupFollows, CallsAreApart
<1>9. CASE LeaveDirectly /\ CallReturns
  BY <1>9 DEF LeaveDirectly, BodyDone, CallReturns, CallsAreApart, CurrentBlock, DirectBlock
<1>10. CASE Commit
  BY <1>10 DEF Commit, BodyDone, CallsAreApart
<1>11. CASE CommitFails
  BY <1>11, NullApart
  DEF CommitFails, BodyDone, LeaveRaising, CallsAreApart, CurrentBlock, OwnBlock
<1>12. CASE Measure /\ CleanupFollows
  BY <1>12 DEF Measure, CleanupFollows, CallsAreApart
<1>13. CASE Measure /\ CallReturns
  BY <1>13 DEF Measure, CallReturns, CallsAreApart, CurrentBlock, CommittedBlock
<1>14. CASE Restart
  BY <1>14 DEF Restart
<1>15. CASE UNCHANGED vars
  BY <1>15 DEF vars
<1> QED
  BY <1>1, <1>2, <1>3, <1>4, <1>5, <1>6, <1>7, <1>8, <1>9, <1>10, <1>11, <1>12, <1>13, <1>14,
     <1>15
  DEF Next, LeaveDirectly, Measure, LeaveReturning

\* Whatever step fails, only a manager that kept the report of a call whose BEGIN or
\* COMMIT failed may show, as last_report, another report than that of its last call.
THEOREM ReportsDescribeCalls == Spec => []OnlyLeftOverReportsMislead
<1>1. Init => OnlyLeftOverReportsMislead
  BY DEF Init, OnlyLeftOverReportsMislead
<1> QED BY <1>1, AtomicInit, AtomicStep, ReportsStep, PTL DEF Spec

-----------------------------------------------------------------------------
(* When only statements of the body fail *)

OnlyStatementsFail == FailingSteps \subseteq {"statement"}

InOwnTransaction == active # NULL /\ active.at = "body" /\ ~ active.direct

\* Outside a block with a transaction of its own the connection and the managers have
\* none; what a block has written directly, or before its cleanup, is stored.
Undisturbed ==
  /\ ~ InOwnTransaction => connection = "idle"
  /\ \A m \in Managers :
       ~ (InOwnTransaction /\ active.manager = m) =>
         ~ in_transaction[m] /\ current_report[m] = NULL
  /\ active # NULL /\ active.at = "body" /\ active.direct =>
       /\ ~ active.use_transaction
       /\ \A i \in 1 .. active.done : <<active.call, active.block, i>> \in durable
  /\ active # NULL /\ active.block = "cleanup" => Whole(active.call, "main")

LEMMA UndisturbedInit == Init => Undisturbed
BY DEF Init, Undisturbed, InOwnTransaction

LEMMA StoredStays ==
  ASSUME NEW c, NEW b, durable \subseteq durable', Whole(c, b)
  PROVE  Whole(c, b)'
BY DEF Whole, BlockOf, AllOrNothing!BlockOf

LEMMA DirectStored ==
  ASSUME Atomic, Undisturbed, active # NULL, active.at = "body", active.direct,
         active.done = Statements
  PROVE  Whole(active.call, active.block)
BY DEF Undisturbed, Whole, BlockOf, AllOrNothing!BlockOf

LEMMA MainStored ==
  ASSUME Atomic, Undisturbed, LeaveDirectly \/ Measure
  PROVE  Whole(active.call, "main")
<1>1. CASE Measure
  BY <1>1 DEF Measure, Atomic, CurrentBlock, CommittedBlock, Undisturbed, TypeOK, Activities
<1>2. CASE LeaveDirectly
  BY <1>2, DirectStored DEF LeaveDirectly, BodyDone, Undisturbed, Atomic, TypeOK, Activities
<1> QED BY <1>1, <1>2

LEMMA UndisturbedStep ==
  ASSUME OnlyStatementsFail
  PROVE  Atomic /\ Undisturbed /\ [Next]_vars => Undisturbed'
<1> SUFFICES ASSUME Atomic, Undisturbed, [Next]_vars PROVE Undisturbed'
  OBVIOUS
<1> USE DEF Undisturbed, InOwnTransaction, Atomic, TypeOK, Activities, database, managers, callers
<1>1. ASSUME NEW m \in Managers, NEW call \in Calls, NEW use_transaction \in BOOLEAN,
             NEW with_cleanup \in BOOLEAN, Call(m, call, use_transaction, with_cleanup)
      PROVE  Undisturbed'
  BY <1>1 DEF Call, Entering
<1>2. CASE EnterDirectly
  BY <1>2, StoredStays DEF EnterDirectly, CurrentBlock, EnteringBlock
<1>3. CASE Begin
  <2>1. active' # NULL => active'.call = active.call /\ active'.block = active.block
    BY <1>3 DEF Begin, before_begin
  <2>2. (active # NULL /\ active.block = "cleanup" => Whole(active.call, "main"))'
    BY <1>3, <2>1, StoredStays DEF Begin, before_begin
  <2>3. InOwnTransaction' /\ active'.manager = active.manager
    BY <1>3, NullApart DEF Begin, before_begin, CurrentBlock, EnteringBlock
  <2>4. \A m \in Managers : m # active.manager => ~ in_transaction'[m] /\ current_report'[m] = NULL
    BY <1>3 DEF Begin, before_begin
  <2> QED BY <2>2, <2>3, <2>4
<1>4. CASE BeginFails
  BY <1>4 DEF BeginFails, before_begin
<1>5. CASE LoadMetadata
  BY <1>5, StoredStays DEF LoadMetadata
<1>6. CASE Statement
  <2>1. /\ active' = [active EXCEPT !.done = @ + 1]
        /\ UNCHANGED <<connection, in_transaction, current_report>>
    BY <1>6 DEF Statement
  <2>2. (active.block = "cleanup" => Whole(active.call, "main"))'
    BY <1>6, <2>1, StoredStays DEF Statement
  <2>3. (active.direct => ~ active.use_transaction
           /\ \A i \in 1 .. active.done : <<active.call, active.block, i>> \in durable)'
    BY <1>6, <2>1 DEF Statement
  <2>4. InOwnTransaction' <=> InOwnTransaction
    BY <1>6, <2>1, NullApart DEF Statement
  <2>5. active'.manager = active.manager
    BY <1>6, <2>1 DEF Statement
  <2> QED BY ONLY Undisturbed, <2>1, <2>2, <2>3, <2>4, <2>5 DEF Undisturbed
<1>7. CASE StatementFails
  BY <1>7 DEF StatementFails, LeaveRaising, CurrentBlock, OwnBlock
<1>8. CASE LeaveDirectly /\ CleanupFollows
  BY <1>8, MainStored, StoredStays
  DEF LeaveDirectly, BodyDone, CleanupFollows, EnteringCleanup, Entering
<1>9. CASE Measure /\ CleanupFollows
  BY <1>9, MainStored, StoredStays DEF Measure, CleanupFollows, EnteringCleanup, Entering
<1>10. CASE (LeaveDirectly \/ Measure) /\ CallReturns
  BY <1>10 DEF LeaveDirectly, Measure, BodyDone, CallReturns
<1>11. CASE Commit
  BY <1>11, StoredStays DEF Commit, BodyDone
<1>12. CASE CommitFails
  BY <1>12 DEF CommitFails, OnlyStatementsFail
<1>13. CASE Restart
  BY <1>13 DEF Restart
<1>14. CASE UNCHANGED vars
  BY <1>14, StoredStays DEF vars
<1> QED
  BY <1>1, <1>2, <1>3, <1>4, <1>5, <1>6, <1>7, <1>8, <1>9, <1>10, <1>11, <1>12, <1>13, <1>14
  DEF Next, LeaveDirectly, Measure, LeaveReturning

LEMMA CachesStep ==
  ASSUME OnlyStatementsFail
  PROVE  Atomic /\ Undisturbed /\ TransactionalReadsAreCurrent /\ [Next]_vars
           => TransactionalReadsAreCurrent'
<1> SUFFICES ASSUME Atomic, Undisturbed, TransactionalReadsAreCurrent, [Next]_vars
             PROVE  TransactionalReadsAreCurrent'
  OBVIOUS
<1> USE DEF TransactionalReadsAreCurrent, View, Atomic, TypeOK, Activities,
            database, managers, callers
<1>1. ASSUME NEW m \in Managers, NEW call \in Calls, NEW use_transaction \in BOOLEAN,
             NEW with_cleanup \in BOOLEAN, Call(m, call, use_transaction, with_cleanup)
      PROVE  TransactionalReadsAreCurrent'
  BY <1>1 DEF Call, Entering
<1>2. CASE EnterDirectly
  BY <1>2 DEF EnterDirectly, Undisturbed, InOwnTransaction, CurrentBlock, EnteringBlock
<1>3. CASE Begin
  BY <1>3 DEF Begin, before_begin
<1>4. CASE BeginFails
  BY <1>4 DEF BeginFails, LeaveRaising
<1>5. CASE LoadMetadata
  BY <1>5 DEF LoadMetadata
<1>6. CASE Statement
  BY <1>6 DEF Statement
<1>7. CASE StatementFails
  BY <1>7 DEF StatementFails, LeaveRaising
<1>8. CASE (LeaveDirectly \/ Measure) /\ CleanupFollows
  BY <1>8 DEF CleanupFollows, EnteringCleanup, Entering
<1>9. CASE (LeaveDirectly \/ Measure) /\ CallReturns
  BY <1>9 DEF CallReturns
<1>10. CASE Commit
  BY <1>10 DEF Commit
<1>11. CASE CommitFails
  BY <1>11 DEF CommitFails, LeaveRaising
<1>12. CASE Restart
  BY <1>12 DEF Restart
<1>13. CASE UNCHANGED vars
  BY <1>13 DEF vars
<1> QED
  BY <1>1, <1>2, <1>3, <1>4, <1>5, <1>6, <1>7, <1>8, <1>9, <1>10, <1>11, <1>12, <1>13
  DEF Next, LeaveDirectly, Measure, LeaveReturning

\* In a transaction of its own, a manager resolves types against the metadata that the
\* connection sees, although other managers wrote between its calls: the cache is
\* emptied before BEGIN, and calls on a connection run one at a time.
THEOREM ReadsAreCurrent ==
  ASSUME OnlyStatementsFail
  PROVE  Spec => []TransactionalReadsAreCurrent
<1>1. Init => TransactionalReadsAreCurrent
  BY DEF Init, TransactionalReadsAreCurrent
<1> QED
  BY <1>1, AtomicInit, AtomicStep, UndisturbedInit, UndisturbedStep, CachesStep, PTL DEF Spec

\* Once a call is over, last_report is its report: the one left over by a failed commit
\* is the only exception (ReportsDescribeCalls), and no commit fails.
THEOREM LastReportHolds ==
  ASSUME OnlyStatementsFail
  PROVE  Spec => []LastReportDescribesLastCall
<1>1. Init => OnlyLeftOverReportsMislead
  BY DEF Init, OnlyLeftOverReportsMislead
<1>2. Atomic /\ Undisturbed /\ OnlyLeftOverReportsMislead => LastReportDescribesLastCall
  BY DEF Atomic, CallsAreApart, Undisturbed, InOwnTransaction, OnlyLeftOverReportsMislead,
         LastReportDescribesLastCall, TypeOK
<1> QED
  BY <1>1, <1>2, AtomicInit, AtomicStep, UndisturbedInit, UndisturbedStep, ReportsStep, PTL DEF Spec

-----------------------------------------------------------------------------
(* The refinement of AtomicWrites *)

LEMMA AbstractInit == Init => AllOrNothing!Init
BY DEF Init, AllOrNothing!Init

LEMMA AbstractReturn ==
  ASSUME Atomic, Undisturbed, LeaveDirectly \/ Measure, CallReturns
  PROVE  AllOrNothing!Return(active.call)
<1>1. AllOrNothing!BlockOf(active.call, "main") \subseteq durable
  BY MainStored DEF Whole, BlockOf
<1>2. UNCHANGED <<durable, made>>
  BY DEF LeaveDirectly, Measure, database
<1> QED
  BY <1>1, <1>2
  DEF AllOrNothing!Return, AllOrNothing!Running, CallReturns, LeaveDirectly, Measure, BodyDone,
      Atomic, CallsAreApart

LEMMA AbstractStep ==
  ASSUME OnlyStatementsFail
  PROVE  Atomic /\ Undisturbed /\ [Next]_vars => [AllOrNothing!Next]_(AllOrNothing!vars)
<1> SUFFICES ASSUME Atomic, Undisturbed, [Next]_vars
             PROVE  AllOrNothing!Next \/ UNCHANGED <<durable, made, answers>>
  BY DEF AllOrNothing!vars
<1> USE DEF Atomic, TypeOK, Activities, database, managers, callers
<1>1. ASSUME NEW m \in Managers, NEW call \in Calls, NEW use_transaction \in BOOLEAN,
             NEW with_cleanup \in BOOLEAN, Call(m, call, use_transaction, with_cleanup)
      PROVE  AllOrNothing!Next
  BY <1>1 DEF Call, AllOrNothing!Next, AllOrNothing!Make
<1>2. CASE EnterDirectly \/ Begin \/ LoadMetadata
  BY <1>2 DEF EnterDirectly, Begin, LoadMetadata
<1>3. CASE BeginFails
  BY <1>3 DEF BeginFails, before_begin, Undisturbed, InOwnTransaction
<1>4. CASE Statement
  <2>1. CASE connection = "open"
    BY <1>4, <2>1 DEF Statement
  <2>2. CASE connection = "idle"
    <3>1. AllOrNothing!StoreStatement(active.call, active.block, active.done + 1)
      BY <1>4, <2>2
      DEF Statement, AllOrNothing!StoreStatement, AllOrNothing!Running, CallsAreApart,
          Undisturbed, InOwnTransaction, CurrentBlock, OwnBlock, Whole, BlockOf
    <3>2. active.call \in Calls /\ active.block \in AllOrNothing!Blocks /\ active.done + 1 \in 1 .. Statements
      BY <1>4 DEF Statement, AllOrNothing!Blocks
    <3> QED BY <3>1, <3>2 DEF AllOrNothing!Next
  <2> QED BY <1>4, <2>1, <2>2 DEF Statement
<1>5. CASE StatementFails
  <2>1. CASE active.block = "main"
    <3>1. AllOrNothing!Raise(active.call)
      BY <1>5, <2>1
      DEF StatementFails, LeaveRaising, AllOrNothing!Raise, AllOrNothing!Running, CallsAreApart,
          Undisturbed, CurrentBlock, OwnBlock, Untouched, BlockOf
    <3> QED BY <1>5, <3>1 DEF StatementFails, AllOrNothing!Next
  <2>2. CASE active.block = "cleanup"
    <3>1. AllOrNothing!Return(active.call)
      BY <1>5, <2>2
      DEF StatementFails, LeaveRaising, AllOrNothing!Return, AllOrNothing!Running, CallsAreApart,
          Undisturbed, Whole, BlockOf
    <3> QED BY <1>5, <3>1 DEF StatementFails, AllOrNothing!Next
  <2> QED BY <1>5, <2>1, <2>2 DEF StatementFails
<1>6. CASE (LeaveDirectly \/ Measure) /\ CleanupFollows
  BY <1>6 DEF LeaveDirectly, Measure, CleanupFollows
<1>7. CASE (LeaveDirectly \/ Measure) /\ CallReturns
  BY <1>7, AbstractReturn DEF LeaveDirectly, Measure, BodyDone, AllOrNothing!Next
<1>8. CASE Commit
  <2>1. pending = {active.call} \X {active.block} \X (1 .. active.done)
    BY <1>8 DEF Commit, BodyDone, CurrentBlock, OwnBlock
  <2>2. CASE active.done = Statements
    <3>1. AllOrNothing!StoreBlock(active.call, active.block)
      BY <1>8, <2>1, <2>2
      DEF Commit, BodyDone, AllOrNothing!StoreBlock, AllOrNothing!Running, CallsAreApart,
          Undisturbed, CurrentBlock, OwnBlock, Untouched, Whole, BlockOf, AllOrNothing!BlockOf
    <3> QED BY <1>8, <3>1 DEF Commit, BodyDone, AllOrNothing!Next, AllOrNothing!Blocks
  <2>3. CASE active.done = 0
    <3>1. pending = {}
      BY <2>1, <2>3
    <3> QED BY <1>8, <3>1 DEF Commit
  <2> QED BY <1>8, <2>2, <2>3 DEF Commit, BodyDone
<1>9. CASE CommitFails
  BY <1>9 DEF CommitFails, OnlyStatementsFail
<1>10. CASE Restart
  <2>1. CASE active = NULL
    BY <1>10, <2>1 DEF Restart
  <2>2. CASE active # NULL
    <3>1. AllOrNothing!Lose(active.call)
      BY <1>10, <2>2 DEF Restart, AllOrNothing!Lose, AllOrNothing!Running, CallsAreApart
    <3> QED BY <2>2, <3>1 DEF AllOrNothing!Next
  <2> QED BY <2>1, <2>2
<1>11. CASE UNCHANGED vars
  BY <1>11 DEF vars
<1> QED
  BY <1>1, <1>2, <1>3, <1>4, <1>5, <1>6, <1>7, <1>8, <1>9, <1>10, <1>11
  DEF Next, LeaveDirectly, Measure, LeaveReturning

\* The calls of managers that share a connection are the atomic writes of AtomicWrites
\* when only statements of a body fail, wherever the process ends.
THEOREM CallsAreAtomicWrites ==
  ASSUME OnlyStatementsFail
  PROVE  Spec => ImplementsAtomicWrites
<1> QED
  BY AbstractInit, AbstractStep, AtomicInit, AtomicStep, UndisturbedInit, UndisturbedStep, PTL
  DEF Spec, ImplementsAtomicWrites, AllOrNothing!Spec
=============================================================================
