---------------------------- MODULE AtomicWrites ----------------------------
(***************************************************************************)
(* What the write operations of the library promise to their caller: a     *)
(* call made in a transaction stores each of its blocks of statements as a *)
(* whole, a call that returns has stored its main block, and a call that   *)
(* raises has stored nothing of it.                                        *)
(***************************************************************************)
EXTENDS Naturals

CONSTANTS Calls, Statements   \* the calls ever made, the statements of a block

\* The write itself, and the cleanup that may follow it on its own.
Blocks == {"main", "cleanup"}

VARIABLES
  stored,    \* the durable statements: <<call, block, statement>>
  made,      \* call -> how it was made
  answers    \* call -> what its caller was told

vars == <<stored, made, answers>>

BlockOf(call, block) == {call} \X {block} \X (1 .. Statements)

Running(call) == made[call] # "no" /\ answers[call] = "none"

Init ==
  /\ stored = {}
  /\ made = [call \in Calls |-> "no"]
  /\ answers = [call \in Calls |-> "none"]

Make(call, manner) ==
  /\ made[call] = "no"
  /\ made' = [made EXCEPT ![call] = manner]
  /\ UNCHANGED <<stored, answers>>

StoreBlock(call, block) ==
  /\ Running(call) /\ made[call] = "transaction"
  /\ stored \cap BlockOf(call, block) = {}
  /\ block = "cleanup" => BlockOf(call, "main") \subseteq stored
  /\ stored' = stored \cup BlockOf(call, block)
  /\ UNCHANGED <<made, answers>>

StoreStatement(call, block, i) ==
  /\ Running(call) /\ made[call] = "autocommit"
  /\ \A j \in 1 .. i - 1 : <<call, block, j>> \in stored
  /\ block = "cleanup" => BlockOf(call, "main") \subseteq stored
  /\ stored' = stored \cup {<<call, block, i>>}
  /\ UNCHANGED <<made, answers>>

Return(call) ==
  /\ Running(call)
  /\ BlockOf(call, "main") \subseteq stored
  /\ answers' = [answers EXCEPT ![call] = "returned"]
  /\ UNCHANGED <<stored, made>>

Raise(call) ==
  /\ Running(call)
  /\ made[call] = "transaction" => stored \cap BlockOf(call, "main") = {}
  /\ answers' = [answers EXCEPT ![call] = "raised"]
  /\ UNCHANGED <<stored, made>>

\* The process ends before the call answers; what it has stored stays.
Lose(call) ==
  /\ Running(call)
  /\ answers' = [answers EXCEPT ![call] = "lost"]
  /\ UNCHANGED <<stored, made>>

Next ==
  \E call \in Calls :
    \/ \E manner \in {"transaction", "autocommit"} : Make(call, manner)
    \/ \E block \in Blocks : StoreBlock(call, block)
    \/ \E block \in Blocks, i \in 1 .. Statements : StoreStatement(call, block, i)
    \/ Return(call)
    \/ Raise(call)
    \/ Lose(call)

Spec == Init /\ [][Next]_vars
=============================================================================
