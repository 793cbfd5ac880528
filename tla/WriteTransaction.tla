-------------------------- MODULE WriteTransaction --------------------------
(***************************************************************************)
(* _transaction, the context manager every write operation runs in, for    *)
(* managers (DatabaseUpdater, DatabaseDeleter) that share one DuckDB        *)
(* connection: the transaction of the connection, the flag, the cache and   *)
(* the reports of each manager, and what of a call is durable.             *)
(*                                                                         *)
(* A call is one block of Statements writes, or two when delete_rows is     *)
(* followed by its cleanup.  Calls on a connection run one at a time.       *)
(***************************************************************************)
EXTENDS Naturals

CONSTANTS
  NULL,          \* None
  Managers,      \* the managers sharing the connection
  Calls,         \* the calls ever made
  Statements,    \* the writes of a block
  FailingSteps   \* the steps that may raise: members of Failures

Failures == {"statement", "payload", "commit_message", "commit"}

\* A report is known by the block it was built for; a write is a statement of a block.
Reports == [call : Calls, block : {"main", "cleanup"}]
Writes == Calls \X {"main", "cleanup"} \X (1 .. Statements)

\* A call being executed: the block it is in, the point it has reached, whether that
\* block runs directly, the report it fills and the statements it has run.
Activities ==
  [ manager : Managers, call : Calls, use_transaction : BOOLEAN, with_cleanup : BOOLEAN,
    block : {"main", "cleanup"}, at : {"enter", "body", "measure"}, direct : BOOLEAN,
    report : Reports, done : 0 .. Statements ]

ASSUME WriteTransactionAssumption ==
  /\ Statements \in Nat \ {0}
  /\ NULL \notin Calls \cup Reports \cup Activities
  /\ FailingSteps \subseteq Failures

VARIABLES
  \* the connection
  durable,           \* the committed writes: <<call, block, statement>>
  pending,           \* those of the open transaction
  connection,        \* "idle" (no transaction), "open" or "aborted"
  \* each manager
  in_transaction,    \* _in_transaction
  current_report,    \* _current_report: the block whose report it is, or NULL
  last_report,       \* last_report
  metadata_cache,    \* _metadata_cache: the writes visible when it was loaded
  \* the caller
  active,            \* the call being executed, or NULL
  made,              \* call -> "no", "transaction" or "autocommit"
  answers,           \* call -> "none", "returned", "raised" or "lost"
  opened,            \* the blocks <<call, block>> that opened a transaction
  latest             \* manager -> its latest call

database == <<durable, pending, connection>>
managers == <<in_transaction, current_report, last_report, metadata_cache>>
callers == <<made, answers, opened, latest>>
vars == <<database, managers, active, callers>>

\* The writes that a SELECT on the connection sees.
View == durable \cup pending

report_of(call, block) == [call |-> call, block |-> block]

Init ==
  /\ durable = {} /\ pending = {} /\ connection = "idle"
  /\ in_transaction = [m \in Managers |-> FALSE]
  /\ current_report = [m \in Managers |-> NULL]
  /\ last_report = [m \in Managers |-> NULL]
  /\ metadata_cache = [m \in Managers |-> NULL]
  /\ active = NULL
  /\ made = [c \in Calls |-> "no"]
  /\ answers = [c \in Calls |-> "none"]
  /\ opened = {}
  /\ latest = [m \in Managers |-> NULL]

-----------------------------------------------------------------------------
(* The caller *)

\* At the entry of a block.
Entering(m, call, use_transaction, with_cleanup, block) ==
  [ manager |-> m, call |-> call, use_transaction |-> use_transaction,
    with_cleanup |-> with_cleanup, block |-> block, at |-> "enter", direct |-> FALSE,
    report |-> report_of(call, block), done |-> 0 ]
EnteringCleanup ==
  Entering(active.manager, active.call, active.use_transaction, active.with_cleanup, "cleanup")

\* A write operation past the checks that need no transaction.
Call(m, call, use_transaction, with_cleanup) ==
  /\ active = NULL
  /\ made[call] = "no"
  /\ made' = [made EXCEPT ![call] = IF use_transaction THEN "transaction" ELSE "autocommit"]
  /\ latest' = [latest EXCEPT ![m] = call]
  /\ active' = Entering(m, call, use_transaction, with_cleanup, "main")
  /\ UNCHANGED <<database, managers, answers, opened>>

\* The block is left by an exception: it ends the call, unless the block is the
\* cleanup of a deletion, whose failure is only a warning.
LeaveRaising(reports) ==
  /\ active' = NULL
  /\ answers' = [answers EXCEPT ![active.call] =
                   IF active.block = "main" THEN "raised" ELSE "returned"]
  /\ last_report' = [reports EXCEPT ![active.manager] =
                       IF active.block = "main" THEN @ ELSE report_of(active.call, "main")]

\* Mutant: the report of the cleanup replaces that of the deletion.
LeaveReturning_cleanup ==
  /\ last_report' = [last_report EXCEPT ![active.manager] = active.report]
  /\ IF active.block = "main" /\ active.with_cleanup
     THEN /\ active' = EnteringCleanup
          /\ answers' = answers
     ELSE active' = NULL /\ answers' = [answers EXCEPT ![active.call] = "returned"]

\* The block is left normally: the cleanup follows, or the call returns.
CleanupFollows ==
  /\ active.block = "main" /\ active.with_cleanup
  /\ active' = EnteringCleanup
  /\ last_report' = [last_report EXCEPT ![active.manager] = active.report]
  /\ answers' = answers

CallReturns ==
  /\ active.block = "cleanup" \/ ~ active.with_cleanup
  /\ active' = NULL
  /\ last_report' = [last_report EXCEPT ![active.manager] =
       IF active.block = "main" THEN active.report ELSE report_of(active.call, "main")]
  /\ answers' = [answers EXCEPT ![active.call] = "returned"]

LeaveReturning == CleanupFollows \/ CallReturns

-----------------------------------------------------------------------------
(* _transaction *)

\* A block without transaction of its own, or within the manager's open one, runs
\* directly and contributes to the report under construction.
EnterDirectly ==
  /\ active # NULL /\ active.at = "enter"
  /\ ~ active.use_transaction \/ in_transaction[active.manager]
  /\ active' = [active EXCEPT !.at = "body", !.direct = TRUE,
                  !.report = IF current_report[active.manager] # NULL
                             THEN current_report[active.manager] ELSE @]
  /\ UNCHANGED <<database, managers, callers>>

\* Mutant: the cache is kept.
before_begin_cached ==
  /\ active # NULL /\ active.at = "enter"
  /\ active.use_transaction /\ ~ in_transaction[active.manager]
  /\ current_report' = [current_report EXCEPT ![active.manager] = active.report]
  /\ UNCHANGED metadata_cache

\* What precedes BEGIN, whether it succeeds or not.
before_begin ==
  /\ active # NULL /\ active.at = "enter"
  /\ active.use_transaction /\ ~ in_transaction[active.manager]
  /\ current_report' = [current_report EXCEPT ![active.manager] = active.report]
  /\ metadata_cache' = [metadata_cache EXCEPT ![active.manager] = NULL]

\* Mutant: BEGIN is not sent.
Begin_autocommit ==
  /\ before_begin
  /\ in_transaction' = [in_transaction EXCEPT ![active.manager] = TRUE]
  /\ opened' = opened \cup {<<active.call, active.block>>}
  /\ active' = [active EXCEPT !.at = "body"]
  /\ UNCHANGED <<database, last_report, made, answers, latest>>

\* Mutant: a transaction left open is joined.
Begin_joining ==
  /\ before_begin
  /\ connection' = "open"
  /\ in_transaction' = [in_transaction EXCEPT ![active.manager] = TRUE]
  /\ opened' = opened \cup {<<active.call, active.block>>}
  /\ active' = [active EXCEPT !.at = "body"]
  /\ UNCHANGED <<durable, pending, last_report, made, answers, latest>>

Begin ==
  /\ before_begin
  /\ connection = "idle"
  /\ connection' = "open"
  /\ in_transaction' = [in_transaction EXCEPT ![active.manager] = TRUE]
  /\ opened' = opened \cup {<<active.call, active.block>>}
  /\ active' = [active EXCEPT !.at = "body"]
  /\ UNCHANGED <<durable, pending, last_report, made, answers, latest>>

\* DuckDB refuses a BEGIN inside an open transaction.
BeginFails ==
  /\ before_begin
  /\ connection # "idle"
  /\ LeaveRaising(last_report)
  /\ UNCHANGED <<database, in_transaction, made, opened, latest>>

\* _load_current_metadata, on which the resolution of types relies.
LoadMetadata ==
  /\ active # NULL /\ active.at = "body" /\ connection # "aborted"
  /\ metadata_cache[active.manager] = NULL
  /\ metadata_cache' = [metadata_cache EXCEPT ![active.manager] = View]
  /\ UNCHANGED <<database, in_transaction, current_report, last_report, active, callers>>

\* Mutant: one statement too many.
Statement_extra ==
  /\ active # NULL /\ active.at = "body" /\ active.done <= Statements
  /\ pending' = pending \cup {<<active.call, active.block, active.done + 1>>}
  /\ active' = [active EXCEPT !.done = @ + 1]
  /\ UNCHANGED <<durable, connection, managers, callers>>

\* A write, durable at once outside a transaction, then _invalidate_metadata_cache.
Statement ==
  /\ active # NULL /\ active.at = "body" /\ active.done < Statements
  /\ connection # "aborted"
  /\ LET write == {<<active.call, active.block, active.done + 1>>}
     IN  IF connection = "open"
         THEN pending' = pending \cup write /\ durable' = durable
         ELSE durable' = durable \cup write /\ pending' = pending
  /\ active' = [active EXCEPT !.done = @ + 1]
  /\ metadata_cache' = [metadata_cache EXCEPT ![active.manager] = NULL]
  /\ UNCHANGED <<connection, in_transaction, current_report, last_report, callers>>

\* The body raises: ROLLBACK when the transaction is its own; a failed statement
\* aborts the transaction it runs in.
StatementFails ==
  /\ active # NULL /\ active.at = "body"
  /\ "statement" \in FailingSteps \/ connection = "aborted"
  /\ LeaveRaising([last_report EXCEPT ![active.manager] = active.report])
  /\ IF active.direct
     THEN /\ connection' = IF connection = "open" THEN "aborted" ELSE connection
          /\ UNCHANGED <<pending, in_transaction, current_report, metadata_cache>>
     ELSE /\ connection' = "idle" /\ pending' = {}
          /\ in_transaction' = [in_transaction EXCEPT ![active.manager] = FALSE]
          /\ current_report' = [current_report EXCEPT ![active.manager] = NULL]
          /\ metadata_cache' = [metadata_cache EXCEPT ![active.manager] = NULL]
  /\ UNCHANGED <<durable, made, opened, latest>>

\* The statements have run; a cleanup with nothing to drop has none.
BodyDone ==
  /\ active # NULL /\ active.at = "body"
  /\ active.done = Statements \/ (active.block = "cleanup" /\ active.done = 0)

LeaveDirectly ==
  /\ BodyDone /\ active.direct
  /\ LeaveReturning
  /\ UNCHANGED <<database, in_transaction, current_report, metadata_cache, made, opened, latest>>

\* The `else` branch: the commit message, COMMIT, then the state of the manager.
Commit ==
  /\ BodyDone /\ ~ active.direct
  /\ durable' = durable \cup pending
  /\ pending' = {}
  /\ connection' = "idle"
  /\ in_transaction' = [in_transaction EXCEPT ![active.manager] = FALSE]
  /\ current_report' = [current_report EXCEPT ![active.manager] = NULL]
  /\ active' = [active EXCEPT !.at = "measure"]
  /\ UNCHANGED <<last_report, metadata_cache, callers>>

\* An exception in the `else` branch reaches no handler.  json.dumps raises with the
\* transaction untouched, the ducklake_set_commit_message call aborts it, and a
\* failed COMMIT ends it.
CommitFails ==
  /\ BodyDone /\ ~ active.direct
  /\ \/ "payload" \in FailingSteps /\ UNCHANGED database
     \/ "commit_message" \in FailingSteps /\ connection' = "aborted" /\ UNCHANGED <<durable, pending>>
     \/ "commit" \in FailingSteps /\ connection' = "idle" /\ pending' = {} /\ durable' = durable
  /\ LeaveRaising(last_report)
  /\ UNCHANGED <<in_transaction, current_report, metadata_cache, made, opened, latest>>

\* The after-state, measured once the write is durable.
Measure ==
  /\ active # NULL /\ active.at = "measure"
  /\ LeaveReturning
  /\ UNCHANGED <<database, in_transaction, current_report, metadata_cache, made, opened, latest>>

-----------------------------------------------------------------------------
(* The process ends, at any point, and another starts with fresh managers. *)

Restart ==
  /\ pending' = {} /\ connection' = "idle" /\ durable' = durable
  /\ in_transaction' = [m \in Managers |-> FALSE]
  /\ current_report' = [m \in Managers |-> NULL]
  /\ last_report' = [m \in Managers |-> NULL]
  /\ metadata_cache' = [m \in Managers |-> NULL]
  /\ latest' = [m \in Managers |-> NULL]
  /\ active' = NULL
  /\ answers' = IF active = NULL THEN answers ELSE [answers EXCEPT ![active.call] = "lost"]
  /\ UNCHANGED <<made, opened>>

Next ==
  \/ \E m \in Managers, call \in Calls, use_transaction, with_cleanup \in BOOLEAN :
       Call(m, call, use_transaction, with_cleanup)
  \/ EnterDirectly
  \/ Begin
  \/ BeginFails
  \/ LoadMetadata
  \/ Statement
  \/ StatementFails
  \/ LeaveDirectly
  \/ Commit
  \/ CommitFails
  \/ Measure
  \/ Restart

Spec == Init /\ [][Next]_vars

-----------------------------------------------------------------------------
(* Properties *)

AllOrNothing == INSTANCE AtomicWrites WITH stored <- durable

BlockOf(call, block) == AllOrNothing!BlockOf(call, block)
TypeOK ==
  /\ durable \subseteq Writes /\ pending \subseteq Writes
  /\ connection \in {"idle", "open", "aborted"}
  /\ in_transaction \in [Managers -> BOOLEAN]
  /\ current_report \in [Managers -> Reports \cup {NULL}]
  /\ last_report \in [Managers -> Reports \cup {NULL}]
  /\ metadata_cache \in [Managers -> (SUBSET Writes) \cup {NULL}]
  /\ active \in Activities \cup {NULL}
  /\ made \in [Calls -> {"no", "transaction", "autocommit"}]
  /\ answers \in [Calls -> {"none", "returned", "raised", "lost"}]
  /\ opened \subseteq Calls \X {"main", "cleanup"}
  /\ latest \in [Managers -> Calls \cup {NULL}]

\* As long as only statements of the body fail, the calls are the atomic writes of
\* AtomicWrites, whatever managers share the connection, whether or not a cleanup
\* follows, and wherever the process ends.
ImplementsAtomicWrites == AllOrNothing!Spec

\* The metadata a manager caches in a transaction of its own are those the
\* connection sees, although other managers write between its calls.
TransactionalReadsAreCurrent ==
  active # NULL /\ active.at = "body" /\ active.use_transaction =>
    metadata_cache[active.manager] \in {NULL, View}

\* Once a call is over its report is last_report, also when it raised in its
\* body, ran in autocommit, or was followed by a cleanup with a report of its own.
LastReportDescribesLastCall ==
  \A m \in Managers :
    latest[m] # NULL /\ answers[latest[m]] # "none" =>
      last_report[m] = report_of(latest[m], "main")

\* Whatever step fails, a manager whose last_report is not that of its last call has
\* kept the report under construction of a call whose BEGIN or COMMIT failed: a
\* call that opens and ends a transaction puts both right; there is no other cause.
OnlyLeftOverReportsMislead ==
  \A m \in Managers :
    /\ latest[m] # NULL /\ answers[latest[m]] # "none"
    /\ current_report[m] = NULL
    => last_report[m] = report_of(latest[m], "main")

\* Whatever step fails, a block that opened a transaction is stored as a whole or
\* not at all, and not at all when its call raised: no later call of any manager
\* commits what a failed commit left pending.
OwnTransactionsAreWhole ==
  \A call \in Calls, block \in {"main", "cleanup"} :
    <<call, block>> \in opened =>
      /\ durable \cap BlockOf(call, block) \in {{}, BlockOf(call, block)}
      /\ answers[call] = "raised" => durable \cap BlockOf(call, block) = {}
      /\ answers[call] = "returned" /\ block = "main" => BlockOf(call, block) \subseteq durable

\* The docstring of update_database: "True if the update was committed".
SuccessIsDurable ==
  \A call \in Calls :
    answers[call] = "returned" => BlockOf(call, "main") \subseteq durable
=============================================================================
