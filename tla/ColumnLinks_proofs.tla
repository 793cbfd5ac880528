-------------------------- MODULE ColumnLinks_proofs --------------------------
(***************************************************************************)
(* Lemmas about the pure functions of ColumnLinks, for mappings of any     *)
(* finite size: the walks and the passes, which the code runs as loops,    *)
(* compute what the definitions without loops say.                         *)
(***************************************************************************)
EXTENDS ColumnLinks, NaturalSets, SequenceTheorems, FunctionTheorems, FiniteSetTheorems

-----------------------------------------------------------------------------
(* The walk from a column to the root of its hierarchy                     *)

Hops(parent_of) == 0 .. Cardinality(DOMAIN parent_of) + 1

IsWalk(at, parent_of, start) ==
  at = [n \in Hops(parent_of) |-> IF n = 0 THEN start ELSE Get(parent_of, at[n - 1])]

\* The walk exists, so that the recursive function is what its recursion says.
LEMMA AncestryExists ==
  ASSUME NEW parent_of, IsFiniteSet(DOMAIN parent_of), NEW start
  PROVE  \E at : IsWalk(at, parent_of, start)
<1> DEFINE N    == Cardinality(DOMAIN parent_of) + 1
           S    == {start, NULL} \cup {parent_of[c] : c \in DOMAIN parent_of}
           step == [n \in 1 .. N |-> [x \in S |-> Get(parent_of, x)]]
<1>1. N \in Nat
  BY FS_CardinalityType
<1>2. start \in S /\ \A x : Get(parent_of, x) \in S
  BY DEF Get
<1> HIDE DEF N, S
<1>3. \A n \in 1 .. N, x \in S : step[n][x] = Get(parent_of, x)
  OBVIOUS
<1> HIDE DEF step
<1>4. PICK at \in [0 .. N -> S] : IsIteration(at, N, start, step)
  <2>1. \A n \in 1 .. N, x \in S : step[n][x] \in S
    BY <1>2, <1>3
  <2> QED BY <1>1, <1>2, <2>1, Recursion
<1>5. at = [n \in 0 .. N |-> IF n = 0 THEN start ELSE Get(parent_of, at[n - 1])]
  <2>1. \A n \in 0 .. N : n # 0 => n \in 1 .. N /\ n - 1 \in 0 .. N
    BY <1>1
  <2> QED BY <1>3, <1>4, <2>1 DEF IsIteration
<1> QED BY <1>5 DEF IsWalk, Hops, N

LEMMA AncestryWalks ==
  ASSUME NEW parent_of, IsFiniteSet(DOMAIN parent_of), NEW start
  PROVE  LET at == Ancestry(parent_of, start)
             N  == Cardinality(DOMAIN parent_of)
         IN  /\ N \in Nat
             /\ DOMAIN at = 0 .. N + 1
             /\ at[0] = start
             /\ \A n \in 0 .. N : at[n + 1] = Get(parent_of, at[n])
<1> DEFINE at == Ancestry(parent_of, start)
           N  == Cardinality(DOMAIN parent_of)
<1>1. N \in Nat
  BY FS_CardinalityType
<1>2. at = [n \in Hops(parent_of) |-> IF n = 0 THEN start ELSE Get(parent_of, at[n - 1])]
  <2>1. at = CHOOSE f : IsWalk(f, parent_of, start)
    BY DEF Ancestry, Hops, IsWalk
  <2> HIDE DEF at
  <2>2. IsWalk(at, parent_of, start)
    BY <2>1, AncestryExists
  <2> QED BY <2>2 DEF IsWalk
<1> HIDE DEF at
<1>3. DOMAIN at = 0 .. N + 1
  BY <1>1, <1>2 DEF Hops
<1>4. \A n \in 0 .. N + 1 : at[n] = IF n = 0 THEN start ELSE Get(parent_of, at[n - 1])
  BY <1>1, <1>2 DEF Hops
<1>5. \A n \in 0 .. N : at[n + 1] = Get(parent_of, at[n])
  <2> TAKE n \in 0 .. N
  <2>1. n + 1 \in 0 .. N + 1 /\ n + 1 # 0 /\ (n + 1) - 1 = n
    BY <1>1
  <2> QED BY <1>4, <2>1
<1>6. at[0] = start
  BY <1>1, <1>4
<1> QED BY <1>1, <1>3, <1>5, <1>6 DEF at

\* A walk that is not at its end has been at declared columns all along.
LEMMA WalkSoFar ==
  ASSUME NEW parent_of, IsFiniteSet(DOMAIN parent_of), NULL \notin DOMAIN parent_of, NEW start,
         NEW j \in 0 .. Cardinality(DOMAIN parent_of) + 1,
         Ancestry(parent_of, start)[j] # NULL, NEW i \in 0 .. j
  PROVE  LET at == Ancestry(parent_of, start)
         IN  /\ at[i] # NULL
             /\ i # j => at[i] \in DOMAIN parent_of /\ parent_of[at[i]] = at[i + 1]
<1> DEFINE at == Ancestry(parent_of, start)
           N  == Cardinality(DOMAIN parent_of)
           T  == {m \in 0 .. N + 1 : \A k \in 0 .. m : at[k] = NULL => at[m] = NULL}
<1>1. N \in Nat /\ \A n \in 0 .. N : at[n + 1] = Get(parent_of, at[n])
  BY AncestryWalks
<1>2. at[j] # NULL /\ j \in 0 .. N + 1
  OBVIOUS
<1> HIDE DEF at, N
<1>3. 0 .. N + 1 \subseteq T
  <2>1. 0 \in T
    BY <1>1
  <2>2. ASSUME NEW m \in 0 .. (N + 1) - 1, m \in T
        PROVE  m + 1 \in T
    <3>1. m \in 0 .. N /\ m + 1 \in 0 .. N + 1
      BY <1>1
    <3>2. at[m] = NULL => at[m + 1] = NULL
      BY <1>1, <3>1 DEF Get
    <3>3. \A k \in 0 .. m + 1 : k \in 0 .. m \/ k = m + 1
      BY <3>1
    <3> QED BY <2>2, <3>1, <3>2, <3>3
  <2>3. N + 1 \in Nat
    BY <1>1
  <2> HIDE DEF T
  <2> QED BY <2>1, <2>2, <2>3, Induction
<1>4. \A k \in 0 .. j : at[k] # NULL
  BY <1>2, <1>3
<1>5. i # j => i \in 0 .. N /\ i + 1 \in 0 .. j
  BY <1>1, <1>2
<1>6. i # j => at[i] \in DOMAIN parent_of /\ parent_of[at[i]] = at[i + 1]
  BY <1>1, <1>4, <1>5 DEF Get
<1> QED BY <1>4, <1>6 DEF at

\* On a forest a walk meets no column twice: the columns between two meetings
\* would be a cycle.
LEMMA ForestHasNoRevisit ==
  ASSUME NEW parent_of, IsFiniteSet(DOMAIN parent_of), NULL \notin DOMAIN parent_of,
         IsForest(parent_of), NEW start
  PROVE  ~ Revisits(parent_of, start)
<1> DEFINE at == Ancestry(parent_of, start)
           N  == Cardinality(DOMAIN parent_of)
<1>1. N \in Nat /\ DOMAIN at = 0 .. N + 1
  BY AncestryWalks
<1> SUFFICES ASSUME NEW i \in 0 .. N + 1, NEW j \in 0 .. N + 1, i < j, at[j] # NULL, at[i] = at[j]
             PROVE  FALSE
  BY <1>1 DEF Revisits
<1>2. \A k \in 0 .. j : k # j => at[k] \in DOMAIN parent_of /\ parent_of[at[k]] = at[k + 1]
  BY WalkSoFar
<1> HIDE DEF at, N
<1> DEFINE cycle == {at[k] : k \in i .. j - 1}
<1>3. cycle \in SUBSET DOMAIN parent_of
  BY <1>1, <1>2
<1>4. \A c \in cycle : parent_of[c] \in cycle
  <2> SUFFICES ASSUME NEW k \in i .. j - 1 PROVE at[k + 1] \in cycle
    BY <1>1, <1>2
  <2>1. CASE k = j - 1
    <3>1. at[k + 1] = at[i] /\ i \in i .. j - 1
      BY <1>1, <2>1
    <3> QED BY <3>1
  <2>2. CASE k # j - 1
    <3>1. k + 1 \in i .. j - 1
      BY <1>1, <2>2
    <3> QED BY <3>1
  <2> QED BY <2>1, <2>2
<1>5. at[i] \in cycle
  BY <1>1
<1> HIDE DEF cycle
<1> QED BY <1>3, <1>4, <1>5 DEF IsForest

\* Inside a cycle a walk never ends, and meets a column twice: there are more
\* hops than columns.
LEMMA CycleIsRevisited ==
  ASSUME NEW parent_of, IsFiniteSet(DOMAIN parent_of), NULL \notin DOMAIN parent_of,
         NEW cycle \in SUBSET DOMAIN parent_of, \A c \in cycle : parent_of[c] \in cycle,
         NEW start \in cycle
  PROVE  Revisits(parent_of, start)
<1> DEFINE at == Ancestry(parent_of, start)
           N  == Cardinality(DOMAIN parent_of)
           T  == {m \in 0 .. N + 1 : at[m] \in cycle}
<1>1. /\ N \in Nat /\ DOMAIN at = 0 .. N + 1 /\ at[0] = start
      /\ \A n \in 0 .. N : at[n + 1] = Get(parent_of, at[n])
  BY AncestryWalks
<1>2. IsFiniteSet(0 .. N + 1) /\ Cardinality(0 .. N + 1) = N + 2
  BY <1>1, FS_Interval
<1>3. /\ IsFiniteSet(DOMAIN parent_of)
      /\ Cardinality(DOMAIN parent_of) < Cardinality(0 .. N + 1)
  BY <1>1, <1>2
<1> HIDE DEF at, N
<1>4. 0 .. N + 1 \subseteq T
  <2>1. 0 \in T
    BY <1>1
  <2>2. ASSUME NEW m \in 0 .. (N + 1) - 1, m \in T
        PROVE  m + 1 \in T
    <3>1. m \in 0 .. N /\ m + 1 \in 0 .. N + 1
      BY <1>1
    <3> QED BY <1>1, <2>2, <3>1 DEF Get
  <2>3. N + 1 \in Nat
    BY <1>1
  <2> HIDE DEF T
  <2> QED BY <2>1, <2>2, <2>3, Induction
<1> DEFINE walk == [n \in 0 .. N + 1 |-> at[n]]
<1>5. walk \in [0 .. N + 1 -> DOMAIN parent_of]
  BY <1>4
<1> HIDE DEF walk
<1>6. PICK i, j \in 0 .. N + 1 : i # j /\ walk[i] = walk[j]
  BY <1>2, <1>3, <1>5, FS_PigeonHole
<1>7. at[i] = at[j] /\ at[i] # NULL /\ at[j] # NULL
  BY <1>4, <1>6 DEF walk
<1>8. i < j \/ j < i
  BY <1>1, <1>6
<1> QED BY <1>1, <1>7, <1>8 DEF Revisits, at

\* validate_hierarchy_forest raises exactly on the mappings that hold a cycle.
THEOREM WalkDecidesForest ==
  ASSUME NEW parent_of, IsFiniteSet(DOMAIN parent_of), NULL \notin DOMAIN parent_of
  PROVE  validate_hierarchy_forest(parent_of) <=> IsForest(parent_of)
<1>1. ASSUME IsForest(parent_of)
      PROVE  validate_hierarchy_forest(parent_of)
  BY <1>1, ForestHasNoRevisit DEF validate_hierarchy_forest
<1>2. ASSUME validate_hierarchy_forest(parent_of), NEW S \in SUBSET DOMAIN parent_of,
             \A c \in S : parent_of[c] \in S, S # {}
      PROVE  FALSE
  BY <1>2, CycleIsRevisited DEF validate_hierarchy_forest
<1> QED BY <1>1, <1>2 DEF IsForest

-----------------------------------------------------------------------------
(* The passes of the null-only cleanup *)

\* The list names the columns of the set, in any order.
Lists(pending, null_only) ==
  /\ pending \in Seq(null_only)
  /\ \A c \in null_only : \E i \in 1 .. Len(pending) : pending[i] = c

\* The column at a place of the list goes once its dependents are in D.
DropAt(D, i, pending, parent_of, label_for) ==
  D \cup {c \in {pending[i]} : Dependents(parent_of, label_for, c) \subseteq D}

IsPass(after, gone, pending, parent_of, label_for) ==
  after = [i \in 0 .. Len(pending) |->
             IF i = 0 THEN gone ELSE DropAt(after[i - 1], i, pending, parent_of, label_for)]

LEMMA PassExists ==
  ASSUME NEW null_only, NEW pending, Lists(pending, null_only), NEW gone \in SUBSET null_only,
         NEW parent_of, NEW label_for
  PROVE  \E after \in [0 .. Len(pending) -> SUBSET null_only] :
           IsPass(after, gone, pending, parent_of, label_for)
<1> DEFINE N    == Len(pending)
           step == [i \in 1 .. N |-> [D \in SUBSET null_only |->
                      DropAt(D, i, pending, parent_of, label_for)]]
<1>1. N \in Nat /\ \A i \in 1 .. N : pending[i] \in null_only
  BY LenProperties DEF Lists
<1>2. \A i \in 1 .. N, D \in SUBSET null_only :
        DropAt(D, i, pending, parent_of, label_for) \in SUBSET null_only
  BY <1>1 DEF DropAt
<1> HIDE DEF N
<1>3. \A i \in 1 .. N, D \in SUBSET null_only :
        step[i][D] = DropAt(D, i, pending, parent_of, label_for)
  OBVIOUS
<1> HIDE DEF step
<1>4. PICK after \in [0 .. N -> SUBSET null_only] : IsIteration(after, N, gone, step)
  <2>1. \A i \in 1 .. N, D \in SUBSET null_only : step[i][D] \in SUBSET null_only
    BY <1>2, <1>3
  <2> QED BY <1>1, <2>1, Recursion
<1>5. after = [i \in 0 .. N |-> IF i = 0 THEN gone
                                ELSE DropAt(after[i - 1], i, pending, parent_of, label_for)]
  <2>1. \A i \in 0 .. N : i # 0 => i \in 1 .. N /\ i - 1 \in 0 .. N
    BY <1>1
  <2> QED BY <1>3, <1>4, <2>1 DEF IsIteration
<1> QED BY <1>4, <1>5 DEF IsPass, N

\* The columns that may go when those of D are gone.
Free(D, null_only, parent_of, label_for) ==
  {c \in null_only : Dependents(parent_of, label_for, c) \subseteq D}

\* What a pass makes of the columns that are gone, wherever in the list they stand:
\* the columns that were free to go go, and it goes no further than what is closed.
PassFacts(gone, pass, null_only, parent_of, label_for) ==
  /\ pass \subseteq null_only
  /\ gone \subseteq pass
  /\ Free(gone, null_only, parent_of, label_for) \subseteq pass
  /\ \A D : gone \subseteq D /\ ClosedUnderDrop(D, null_only, parent_of, label_for)
              => pass \subseteq D

LEMMA OnePassDrops ==
  ASSUME NEW null_only, NEW pending, Lists(pending, null_only), NEW gone \in SUBSET null_only,
         NEW parent_of, NEW label_for
  PROVE  PassFacts(gone, OnePass(gone, pending, parent_of, label_for), null_only, parent_of, label_for)
<1> DEFINE N     == Len(pending)
           after == CHOOSE f : IsPass(f, gone, pending, parent_of, label_for)
           Needs(c) == Dependents(parent_of, label_for, c)
<1>1. N \in Nat /\ \A i \in 1 .. N : pending[i] \in null_only
  BY LenProperties DEF Lists
<1>2. OnePass(gone, pending, parent_of, label_for) = after[N]
  BY DEF OnePass, IsPass, DropAt
<1>3. IsPass(after, gone, pending, parent_of, label_for)
  BY PassExists
<1> HIDE DEF after, Needs
<1>4. /\ after[0] = gone
      /\ \A i \in 1 .. N : after[i] = after[i - 1] \cup {c \in {pending[i]} : Needs(c) \subseteq after[i - 1]}
  <2>1. after = [i \in 0 .. N |-> IF i = 0 THEN gone
                                  ELSE DropAt(after[i - 1], i, pending, parent_of, label_for)]
    BY <1>3 DEF IsPass
  <2>2. after[0] = gone
    BY <1>1, <2>1
  <2>3. \A i \in 1 .. N : after[i] = DropAt(after[i - 1], i, pending, parent_of, label_for)
    BY <1>1, <2>1
  <2> QED BY <2>2, <2>3 DEF DropAt, Needs
<1>5. \A i \in 0 .. N - 1 :
        after[i + 1] = after[i] \cup {c \in {pending[i + 1]} : Needs(c) \subseteq after[i]}
  <2> TAKE i \in 0 .. N - 1
  <2>1. i + 1 \in 1 .. N /\ (i + 1) - 1 = i
    BY <1>1
  <2> QED BY <1>4, <2>1
<1> HIDE DEF N
<1>6. after[N] \subseteq null_only /\ gone \subseteq after[N]
  <2> DEFINE T == {i \in 0 .. N : after[i] \subseteq null_only /\ gone \subseteq after[i]}
  <2>1. 0 \in T
    BY <1>1, <1>4
  <2>2. ASSUME NEW i \in 0 .. N - 1, i \in T
        PROVE  i + 1 \in T
    <3>1. i + 1 \in 1 .. N /\ i + 1 \in 0 .. N
      BY <1>1
    <3> QED BY <1>1, <1>5, <2>2, <3>1
  <2> HIDE DEF T
  <2>3. 0 .. N \subseteq T
    BY <1>1, <2>1, <2>2, Induction
  <2> QED BY <1>1, <2>3 DEF T
<1>7. \A j \in 1 .. N : Needs(pending[j]) \subseteq gone => pending[j] \in after[N]
  <2> DEFINE T == {i \in 0 .. N : /\ gone \subseteq after[i]
                                  /\ \A j \in 1 .. i : Needs(pending[j]) \subseteq gone
                                                         => pending[j] \in after[i]}
  <2>1. 0 \in T
    BY <1>1, <1>4
  <2>2. ASSUME NEW i \in 0 .. N - 1, i \in T
        PROVE  i + 1 \in T
    <3>1. i + 1 \in 0 .. N /\ \A j \in 1 .. i + 1 : j \in 1 .. i \/ j = i + 1
      BY <1>1
    <3>2. gone \subseteq after[i] /\ after[i] \subseteq after[i + 1]
      BY <1>5, <2>2
    <3>3. Needs(pending[i + 1]) \subseteq gone => pending[i + 1] \in after[i + 1]
      BY <1>5, <3>2
    <3>4. \A j \in 1 .. i : Needs(pending[j]) \subseteq gone => pending[j] \in after[i + 1]
      BY <2>2, <3>2
    <3> QED BY <3>1, <3>2, <3>3, <3>4
  <2> HIDE DEF T
  <2>3. 0 .. N \subseteq T
    BY <1>1, <2>1, <2>2, Induction
  <2> QED BY <1>1, <2>3 DEF T
<1>8. ASSUME NEW D, gone \subseteq D, ClosedUnderDrop(D, null_only, parent_of, label_for)
      PROVE  after[N] \subseteq D
  <2> DEFINE T == {i \in 0 .. N : after[i] \subseteq D}
  <2>1. 0 \in T
    BY <1>1, <1>4, <1>8
  <2>2. ASSUME NEW i \in 0 .. N - 1, i \in T
        PROVE  i + 1 \in T
    <3>1. i + 1 \in 1 .. N /\ i + 1 \in 0 .. N
      BY <1>1
    <3>2. pending[i + 1] \in null_only
      BY <1>1, <3>1
    <3>3. Needs(pending[i + 1]) \subseteq after[i] => pending[i + 1] \in D
      BY <1>8, <2>2, <3>2 DEF ClosedUnderDrop, Needs
    <3> QED BY <1>5, <2>2, <3>1, <3>3
  <2> HIDE DEF T
  <2>3. 0 .. N \subseteq T
    BY <1>1, <2>1, <2>2, Induction
  <2> QED BY <1>1, <2>3 DEF T
<1>9. Free(gone, null_only, parent_of, label_for) \subseteq after[N]
  BY <1>7 DEF Free, Lists, Needs, N
<1> QED BY <1>2, <1>6, <1>8, <1>9 DEF PassFacts

IsPassing(dropped, pending, parent_of, label_for) ==
  dropped = [n \in 0 .. Len(pending) |->
               IF n = 0 THEN {} ELSE OnePass(dropped[n - 1], pending, parent_of, label_for)]

LEMMA PassesExist ==
  ASSUME NEW null_only, NEW pending, Lists(pending, null_only), NEW parent_of, NEW label_for
  PROVE  \E dropped \in [0 .. Len(pending) -> SUBSET null_only] :
           IsPassing(dropped, pending, parent_of, label_for)
<1> DEFINE N       == Len(pending)
           Next(D) == OnePass(D, pending, parent_of, label_for)
           none    == {}
           step    == [n \in 1 .. N |-> [D \in SUBSET null_only |-> Next(D)]]
<1>1. N \in Nat
  BY LenProperties DEF Lists
<1>2. none \in SUBSET null_only /\ \A D \in SUBSET null_only : Next(D) \in SUBSET null_only
  BY OnePassDrops DEF PassFacts
<1> HIDE DEF N, Next, none
<1>3. \A n \in 1 .. N, D \in SUBSET null_only : step[n][D] = Next(D)
  OBVIOUS
<1> HIDE DEF step
<1>4. PICK dropped \in [0 .. N -> SUBSET null_only] : IsIteration(dropped, N, none, step)
  <2>1. \A n \in 1 .. N, D \in SUBSET null_only : step[n][D] \in SUBSET null_only
    BY <1>2, <1>3
  <2> QED BY <1>1, <1>2, <2>1, Recursion
<1>5. dropped = [n \in 0 .. N |-> IF n = 0 THEN none ELSE Next(dropped[n - 1])]
  <2>1. \A n \in 0 .. N : n # 0 => n \in 1 .. N /\ n - 1 \in 0 .. N
    BY <1>1
  <2> QED BY <1>3, <1>4, <2>1 DEF IsIteration
<1> QED BY <1>4, <1>5 DEF N, IsPassing, Next, none

DroppedAfter(pending, parent_of, label_for) ==
  CHOOSE dropped : IsPassing(dropped, pending, parent_of, label_for)

LEMMA PassesRun ==
  ASSUME NEW null_only, NEW pending, Lists(pending, null_only), NEW parent_of, NEW label_for
  PROVE  LET dropped == DroppedAfter(pending, parent_of, label_for)
         IN  /\ DroppedByPasses(pending, parent_of, label_for) = dropped[Len(pending)]
             /\ dropped[0] = {}
             /\ \A n \in 0 .. Len(pending) - 1 :
                  dropped[n + 1] = OnePass(dropped[n], pending, parent_of, label_for)
<1> DEFINE N       == Len(pending)
           dropped == DroppedAfter(pending, parent_of, label_for)
<1>1. N \in Nat
  BY LenProperties DEF Lists
<1>2. DroppedByPasses(pending, parent_of, label_for) = dropped[N]
  BY DEF DroppedByPasses, DroppedAfter, IsPassing
<1>3. IsPassing(dropped, pending, parent_of, label_for)
  BY PassesExist DEF DroppedAfter
<1> HIDE DEF dropped
<1>4. \A n \in 0 .. N :
        /\ n = 0 => dropped[n] = {}
        /\ n # 0 => dropped[n] = OnePass(dropped[n - 1], pending, parent_of, label_for)
  BY <1>3 DEF IsPassing
<1>5. dropped[0] = {}
  BY <1>1, <1>4
<1>6. \A n \in 0 .. N - 1 : dropped[n + 1] = OnePass(dropped[n], pending, parent_of, label_for)
  <2> TAKE n \in 0 .. N - 1
  <2>1. n + 1 \in 0 .. N /\ n + 1 # 0 /\ (n + 1) - 1 = n
    BY <1>1
  <2> QED BY <1>4, <2>1
<1> QED BY <1>2, <1>5, <1>6 DEF dropped

\* The least closed set is closed.
LEMMA DroppableIsClosed ==
  ASSUME NEW pending, NEW parent_of, NEW label_for
  PROVE  ClosedUnderDrop(Droppable(pending, parent_of, label_for), pending, parent_of, label_for)
<1> DEFINE D == Droppable(pending, parent_of, label_for)
<1> SUFFICES ASSUME NEW c \in pending, Dependents(parent_of, label_for, c) \subseteq D,
                    NEW S \in SUBSET pending, ClosedUnderDrop(S, pending, parent_of, label_for)
             PROVE  c \in S
  BY DEF ClosedUnderDrop, Droppable
<1>1. D \subseteq S
  BY DEF Droppable
<1>2. Dependents(parent_of, label_for, c) \subseteq S
  BY <1>1
<1> QED BY <1>2 DEF ClosedUnderDrop

\* The null-only columns that the cleanup drops leave no dependent behind.
LEMMA DroppableClosed ==
  ASSUME NEW pending, NEW parents, NEW labels, NEW c \in Droppable(pending, parents, labels)
  PROVE  c \in pending /\ Dependents(parents, labels, c) \subseteq Droppable(pending, parents, labels)
<1> DEFINE D == Droppable(pending, parents, labels)
           E == {d \in D : Dependents(parents, labels, d) \subseteq D}
<1>1. \A S \in SUBSET pending : ClosedUnderDrop(S, pending, parents, labels) => D \subseteq S
  BY DEF Droppable
<1>2. D \subseteq pending
  BY DEF Droppable
<1>3. ClosedUnderDrop(D, pending, parents, labels)
  BY DroppableIsClosed
<1> HIDE DEF D
<1>4. ClosedUnderDrop(E, pending, parents, labels)
  BY <1>3 DEF ClosedUnderDrop
<1>5. D \subseteq E
  BY <1>1, <1>2, <1>4
<1> QED BY <1>2, <1>5 DEF D

\* A list is at least as long as the set it lists.
LEMMA ListLength ==
  ASSUME NEW null_only, NEW pending, Lists(pending, null_only)
  PROVE  IsFiniteSet(null_only) /\ Cardinality(null_only) <= Len(pending)
<1>1. Len(pending) \in Nat /\ pending \in [1 .. Len(pending) -> null_only]
  BY LenProperties DEF Lists
<1>2. IsFiniteSet(1 .. Len(pending)) /\ Cardinality(1 .. Len(pending)) = Len(pending)
  BY <1>1, FS_Interval
<1>3. pending \in Surjection(1 .. Len(pending), null_only)
  BY <1>1, Fun_IsSurj DEF Lists
<1> QED BY <1>2, <1>3, FS_Surjection

\* The passes of _cleanup_null_only_columns drop the least set of columns that is
\* closed under "all my dependents are dropped": no pass is missing, in whatever
\* order the list has the columns, whatever the depth of the hierarchy and whatever
\* loops parent and label links form.
THEOREM PassesDropLeastSet ==
  ASSUME NEW null_only, NEW pending, Lists(pending, null_only), NEW parent_of, NEW label_for
  PROVE  DroppedByPasses(pending, parent_of, label_for) = Droppable(null_only, parent_of, label_for)
<1> DEFINE N         == Len(pending)
           Pass(D)   == OnePass(D, pending, parent_of, label_for)
           Freed(D)  == Free(D, null_only, parent_of, label_for)
           Closed(D) == ClosedUnderDrop(D, null_only, parent_of, label_for)
           dropped   == DroppedAfter(pending, parent_of, label_for)
           least     == Droppable(null_only, parent_of, label_for)
<1>1. /\ DroppedByPasses(pending, parent_of, label_for) = dropped[N]
      /\ dropped[0] = {}
      /\ \A n \in 0 .. N - 1 : dropped[n + 1] = Pass(dropped[n])
  BY PassesRun
<1>2. N \in Nat /\ IsFiniteSet(null_only) /\ Cardinality(null_only) \in Nat
        /\ Cardinality(null_only) <= N
  BY LenProperties, ListLength, FS_CardinalityType DEF Lists
<1>3. \A D : Closed(D) <=> Freed(D) \subseteq D
  BY DEF ClosedUnderDrop, Free
<1>4. Closed(least) /\ least \subseteq null_only
        /\ \A S \in SUBSET null_only : Closed(S) => least \subseteq S
  BY DroppableIsClosed DEF Droppable
<1>5. \A D \in SUBSET null_only :
        /\ Pass(D) \in SUBSET null_only
        /\ D \subseteq Pass(D)
        /\ Freed(D) \subseteq Pass(D)
        /\ \A E : D \subseteq E /\ Closed(E) => Pass(D) \subseteq E
  BY OnePassDrops DEF PassFacts
<1>6. \A D : Freed(D) \subseteq null_only
  BY DEF Free
<1> HIDE DEF N, Pass, dropped, Freed, Closed, least
<1>7. \A n \in 0 .. N : dropped[n] \in SUBSET null_only /\ dropped[n] \subseteq least
  <2> DEFINE T == {n \in 0 .. N : dropped[n] \in SUBSET null_only /\ dropped[n] \subseteq least}
  <2>1. 0 \in T
    BY <1>1, <1>2
  <2>2. ASSUME NEW n \in 0 .. N - 1, n \in T
        PROVE  n + 1 \in T
    <3>1. Pass(dropped[n]) \in SUBSET null_only /\ Pass(dropped[n]) \subseteq least
      BY <1>4, <1>5, <2>2
    <3> QED BY <1>1, <1>2, <2>2, <3>1
  <2> HIDE DEF T
  <2>3. 0 .. N \subseteq T
    BY <1>2, <2>1, <2>2, Induction
  <2> QED BY <2>3 DEF T
\* A pass that drops nothing is the last one that could; each of the others drops
\* a column at least.
<1>8. \A n \in 0 .. N : Closed(dropped[n]) \/ Cardinality(dropped[n]) >= n
  <2> DEFINE T == {n \in 0 .. N : Closed(dropped[n]) \/ Cardinality(dropped[n]) >= n}
  <2>1. 0 \in T
    <3>1. Cardinality(dropped[0]) = 0 /\ 0 \in 0 .. N
      BY <1>1, <1>2, FS_EmptySet
    <3> QED BY <3>1
  <2>2. ASSUME NEW n \in 0 .. N - 1, n \in T
        PROVE  n + 1 \in T
    <3>1. dropped[n + 1] = Pass(dropped[n]) /\ n + 1 \in 0 .. N /\ n \in 0 .. N
      BY <1>1, <1>2
    <3>2. CASE Closed(dropped[n])
      <4>1. dropped[n + 1] = dropped[n]
        BY <1>5, <1>7, <3>1, <3>2
      <4> QED BY <3>1, <3>2, <4>1
    <3>3. CASE ~ Closed(dropped[n])
      <4>1. PICK c \in Freed(dropped[n]) : c \notin dropped[n]
        BY <1>3, <3>3
      <4>2. dropped[n + 1] \subseteq null_only /\ dropped[n] \subseteq dropped[n + 1] \ {c}
              /\ c \in dropped[n + 1]
        BY <1>5, <1>7, <3>1, <4>1
      <4>3. IsFiniteSet(dropped[n + 1]) /\ IsFiniteSet(dropped[n + 1] \ {c})
        BY <1>2, <4>2, FS_Subset
      <4>4. Cardinality(dropped[n + 1] \ {c}) = Cardinality(dropped[n + 1]) - 1
        BY <4>2, <4>3, FS_RemoveElement
      <4>5. Cardinality(dropped[n]) <= Cardinality(dropped[n + 1] \ {c})
        BY <4>2, <4>3, FS_Subset
      <4>6. /\ Cardinality(dropped[n]) \in Nat /\ Cardinality(dropped[n + 1]) \in Nat
            /\ Cardinality(dropped[n + 1] \ {c}) \in Nat
        <5>1. IsFiniteSet(dropped[n])
          BY <4>2, <4>3, FS_Subset
        <5> QED BY <4>3, <5>1, FS_CardinalityType
      <4>7. Cardinality(dropped[n]) >= n
        BY <2>2, <3>3
      <4>8. Cardinality(dropped[n + 1]) >= n + 1
        BY <4>4, <4>5, <4>6, <4>7
      <4> QED BY <3>1, <4>8
    <3> QED BY <3>2, <3>3
  <2> HIDE DEF T
  <2>3. 0 .. N \subseteq T
    BY <1>2, <2>1, <2>2, Induction
  <2> QED BY <2>3 DEF T
<1>9. dropped[N] \subseteq least /\ dropped[N] \in SUBSET null_only
  BY <1>2, <1>7
<1>10. Closed(dropped[N])
  <2> SUFFICES ASSUME Cardinality(dropped[N]) >= N PROVE Closed(dropped[N])
    BY <1>2, <1>8
  <2>1. Cardinality(dropped[N]) <= Cardinality(null_only) /\ Cardinality(dropped[N]) \in Nat
    <3>1. IsFiniteSet(dropped[N]) /\ Cardinality(dropped[N]) <= Cardinality(null_only)
      BY <1>2, <1>9, FS_Subset
    <3> QED BY <3>1, FS_CardinalityType
  <2>2. Cardinality(dropped[N]) = Cardinality(null_only)
    BY <1>2, <2>1
  <2>3. dropped[N] = null_only
    BY <1>2, <1>9, <2>2, FS_Subset
  <2> QED BY <1>3, <1>6, <2>3
<1> QED BY <1>1, <1>4, <1>9, <1>10 DEF least

-----------------------------------------------------------------------------
(* The chains of a forest: one from the root down to each leaf *)

\* How far from `column` the root of its hierarchy is, and the chain between them,
\* as get_column_hierarchies lists it.
Depth(parent_of, column) ==
  LET at == Ancestry(parent_of, column)
  IN  CHOOSE n \in DOMAIN at : at[n] # NULL /\ Get(parent_of, at[n]) = NULL
Chain(parent_of, column) ==
  [i \in 1 .. Depth(parent_of, column) + 1 |->
     Ancestry(parent_of, column)[Depth(parent_of, column) + 1 - i]]

LEMMA ChainsOfLeaves ==
  ASSUME NEW parent_of
  PROVE  get_column_hierarchies(parent_of) = {Chain(parent_of, leaf) : leaf \in Leaves(parent_of)}
BY DEF get_column_hierarchies, Chain, Depth

\* Links between the columns of a finite set, none of them in a cycle.
Hierarchies(parent_of, columns) ==
  /\ IsFiniteSet(columns)
  /\ NULL \notin columns
  /\ parent_of \in [columns -> columns \cup {NULL}]
  /\ IsForest(parent_of)

\* The walk ends: it is at a column up to its depth, the root, and nowhere beyond.
LEMMA WalkEnds ==
  ASSUME NEW parent_of, NEW columns, Hierarchies(parent_of, columns), NEW column \in columns
  PROVE  LET at == Ancestry(parent_of, column)
             d  == Depth(parent_of, column)
             N  == Cardinality(columns)
         IN  /\ d \in 0 .. N
             /\ \A n \in 0 .. N + 1 : /\ at[n] \in columns \cup {NULL}
                                      /\ at[n] # NULL <=> n <= d
             /\ parent_of[at[d]] = NULL
<1> DEFINE at == Ancestry(parent_of, column)
           d  == Depth(parent_of, column)
           N  == Cardinality(columns)
           L  == {n \in 0 .. N + 1 : at[n] # NULL}
<1>1. DOMAIN parent_of = columns /\ IsFiniteSet(columns) /\ NULL \notin columns
  BY DEF Hierarchies
<1>2. /\ N \in Nat /\ DOMAIN at = 0 .. N + 1 /\ at[0] = column
      /\ \A n \in 0 .. N : at[n + 1] = Get(parent_of, at[n])
  BY <1>1, AncestryWalks
<1>3. \A j \in 0 .. N + 1 : at[j] # NULL => \A i \in 0 .. j :
        at[i] # NULL /\ (i # j => at[i] \in columns)
  BY <1>1, WalkSoFar
<1>4. \A i, j \in 0 .. N + 1 : i < j /\ at[j] # NULL => at[i] # at[j]
  BY <1>1, <1>2, ForestHasNoRevisit DEF Hierarchies, Revisits
<1>5. d = CHOOSE n \in DOMAIN at : at[n] # NULL /\ Get(parent_of, at[n]) = NULL
  BY DEF Depth
<1> HIDE DEF at, d, N
<1>6. ASSUME NEW n \in 0 .. N + 1
      PROVE  at[n] \in columns \cup {NULL}
  <2>1. CASE n = 0
    BY <1>2, <2>1
  <2>2. CASE n # 0
    <3>1. n - 1 \in 0 .. N /\ (n - 1) + 1 = n
      BY <1>2, <2>2
    <3>2. at[n] = Get(parent_of, at[n - 1])
      BY <1>2, <3>1
    <3> QED BY <3>2 DEF Get, Hierarchies
  <2> QED BY <2>1, <2>2
<1>7. at[N + 1] = NULL
  <2> SUFFICES ASSUME at[N + 1] # NULL PROVE FALSE
    OBVIOUS
  <2> DEFINE walk == [n \in 0 .. N |-> at[n]]
  <2>1. walk \in [0 .. N -> columns]
    BY <1>2, <1>3
  <2>2. IsFiniteSet(0 .. N) /\ Cardinality(columns) < Cardinality(0 .. N)
    <3>1. IsFiniteSet(0 .. N) /\ Cardinality(0 .. N) = N + 1
      BY <1>2, FS_Interval
    <3> QED BY <1>2, <3>1 DEF N
  <2> HIDE DEF walk
  <2>3. PICK i, j \in 0 .. N : i # j /\ walk[i] = walk[j]
    BY <1>1, <2>1, <2>2, FS_PigeonHole
  <2>4. at[i] = at[j] /\ at[i] # NULL /\ at[j] # NULL
    BY <1>2, <1>3, <2>3 DEF walk
  <2>5. i < j \/ j < i
    BY <1>2, <2>3
  <2> QED BY <1>2, <1>4, <2>4, <2>5
<1>8. PICK m \in L : \A n \in L : n <= m
  <2>1. 0 \in L
    BY <1>1, <1>2
  <2>2. L \in SUBSET (0 .. N + 1) /\ N + 1 \in Nat
    BY <1>2
  <2> HIDE DEF L
  <2> QED BY <2>1, <2>2, GreatestNatural
<1>9. m \in 0 .. N /\ at[m] # NULL /\ Get(parent_of, at[m]) = NULL
  <2>1. m \in 0 .. N /\ m + 1 \in 0 .. N + 1 /\ m + 1 \notin L
    BY <1>2, <1>7, <1>8
  <2> QED BY <1>2, <1>8, <2>1
<1>10. d \in 0 .. N + 1 /\ at[d] # NULL /\ Get(parent_of, at[d]) = NULL
  <2>1. m \in DOMAIN at
    BY <1>2, <1>9
  <2> QED BY <1>2, <1>5, <1>9, <2>1
<1>11. d \in 0 .. N /\ at[d + 1] = NULL
  BY <1>2, <1>7, <1>10
<1>12. ASSUME NEW n \in 0 .. N + 1
       PROVE  at[n] # NULL <=> n <= d
  <2>1. n <= d => n \in 0 .. d
    BY <1>11
  <2>2. n > d => d + 1 \in 0 .. n
    BY <1>2, <1>11
  <2>3. n <= d \/ n > d
    BY <1>2, <1>11
  <2> QED BY <1>3, <1>10, <1>11, <2>1, <2>2, <2>3
<1>13. parent_of[at[d]] = NULL
  <2>1. at[d] \in columns
    BY <1>6, <1>10
  <2> QED BY <1>1, <1>10, <2>1 DEF Get
<1> QED BY <1>6, <1>11, <1>12, <1>13 DEF at, d, N

\* The walk from a child is one hop behind the walk from its parent.
LEMMA WalkFromChild ==
  ASSUME NEW parent_of, IsFiniteSet(DOMAIN parent_of), NEW child \in DOMAIN parent_of,
         NEW n \in 0 .. Cardinality(DOMAIN parent_of)
  PROVE  Ancestry(parent_of, child)[n + 1] = Ancestry(parent_of, parent_of[child])[n]
<1> DEFINE up   == Ancestry(parent_of, child)
           at   == Ancestry(parent_of, parent_of[child])
           N    == Cardinality(DOMAIN parent_of)
           T    == {m \in 0 .. N : up[m + 1] = at[m]}
<1>1. /\ N \in Nat /\ up[0] = child /\ at[0] = parent_of[child]
      /\ \A m \in 0 .. N : up[m + 1] = Get(parent_of, up[m]) /\ at[m + 1] = Get(parent_of, at[m])
  BY AncestryWalks
<1>2. n \in 0 .. N
  OBVIOUS
<1> HIDE DEF up, at, N
<1>3. 0 \in T
  BY <1>1 DEF Get
<1>4. ASSUME NEW m \in 0 .. N - 1, m \in T
      PROVE  m + 1 \in T
  <2>1. m \in 0 .. N /\ m + 1 \in 0 .. N
    BY <1>1
  <2>2. up[(m + 1) + 1] = Get(parent_of, up[m + 1]) /\ at[m + 1] = Get(parent_of, at[m])
    BY <1>1, <2>1
  <2> QED BY <1>4, <2>1, <2>2
<1> HIDE DEF T
<1>5. n \in T
  BY <1>1, <1>2, <1>3, <1>4, Induction
<1> QED BY <1>5 DEF T, up, at

\* Every column of a hierarchy is on the way up from some leaf: the deepest column
\* from which the walk comes through it has no child.
LEMMA LeafBelow ==
  ASSUME NEW parent_of, NEW columns, Hierarchies(parent_of, columns), NEW column \in columns,
         parent_of[column] # NULL \/ Children(parent_of, column) # {}
  PROVE  \E leaf \in Leaves(parent_of) :
           \E k \in 0 .. Depth(parent_of, leaf) : Ancestry(parent_of, leaf)[k] = column
<1> DEFINE N  == Cardinality(columns)
           K  == {k \in 0 .. N : \E c \in columns : Ancestry(parent_of, c)[k] = column}
<1>1. DOMAIN parent_of = columns /\ IsFiniteSet(columns) /\ NULL \notin columns
  BY DEF Hierarchies
<1>2. \A c \in columns :
        LET at == Ancestry(parent_of, c)
        IN  at[0] = c /\ \A n \in 0 .. N : at[n + 1] = Get(parent_of, at[n])
  BY <1>1, AncestryWalks
<1>3. N \in Nat
  BY <1>1, FS_CardinalityType
<1>4. PICK k \in K : \A j \in K : j <= k
  <2>1. 0 \in K
    BY <1>2, <1>3
  <2>2. K \in SUBSET (0 .. N)
    OBVIOUS
  <2> HIDE DEF K
  <2> QED BY <1>3, <2>1, <2>2, GreatestNatural
<1>5. PICK leaf \in columns : Ancestry(parent_of, leaf)[k] = column
  BY <1>4
<1> DEFINE at == Ancestry(parent_of, leaf)
<1>6. k \in 0 .. Depth(parent_of, leaf) /\ Depth(parent_of, leaf) \in 0 .. N
  <2>1. /\ Depth(parent_of, leaf) \in 0 .. N
        /\ \A n \in 0 .. N + 1 : at[n] # NULL <=> n <= Depth(parent_of, leaf)
    BY WalkEnds
  <2>2. at[k] # NULL /\ k \in 0 .. N + 1
    BY <1>1, <1>3, <1>4, <1>5
  <2> QED BY <2>1, <2>2
<1>7. Children(parent_of, leaf) = {}
  <2> SUFFICES ASSUME NEW child \in Children(parent_of, leaf) PROVE FALSE
    OBVIOUS
  <2>1. child \in columns /\ parent_of[child] = leaf
    BY <1>1 DEF Children
  <2>2. Ancestry(parent_of, child)[k + 1] = column
    BY <1>1, <1>4, <1>5, <2>1, WalkFromChild
  <2>3. k + 1 \in 0 .. N
    <3>1. /\ Depth(parent_of, child) \in 0 .. N
          /\ \A n \in 0 .. N + 1 :
               Ancestry(parent_of, child)[n] # NULL <=> n <= Depth(parent_of, child)
      BY <2>1, WalkEnds
    <3>2. k + 1 \in 0 .. N + 1
      BY <1>3, <1>4
    <3> QED BY <1>1, <1>3, <2>2, <3>1, <3>2
  <2>4. k + 1 \in K
    BY <2>1, <2>2, <2>3
  <2> QED BY <1>3, <1>4, <2>4
<1>8. parent_of[leaf] # NULL
  <2>1. CASE k = 0
    <3>1. leaf = column
      BY <1>2, <1>5, <2>1
    <3> QED BY <1>7, <3>1
  <2>2. CASE k # 0
    <3>1. 1 \in 0 .. k /\ k \in 0 .. N + 1
      BY <1>3, <1>4, <2>2
    <3>2. at[1] # NULL
      BY <1>1, <1>5, <3>1, WalkSoFar
    <3>3. at[1] = parent_of[leaf]
      <4>1. 0 \in 0 .. N /\ 0 + 1 = 1
        BY <1>3
      <4>2. at[0 + 1] = Get(parent_of, at[0]) /\ at[0] = leaf
        BY <1>2, <4>1
      <4> QED BY <1>1, <4>1, <4>2 DEF Get
    <3> QED BY <3>2, <3>3
  <2> QED BY <2>1, <2>2
<1>9. leaf \in Leaves(parent_of)
  BY <1>1, <1>7, <1>8 DEF Leaves
<1> QED BY <1>5, <1>6, <1>9

\* One chain: it starts at the root, ends at the leaf, follows the links and meets
\* each column once.
LEMMA ChainToLeaf ==
  ASSUME NEW parent_of, NEW columns, Hierarchies(parent_of, columns), NEW leaf \in Leaves(parent_of)
  PROVE  LET chain == Chain(parent_of, leaf)
             d     == Depth(parent_of, leaf)
         IN  /\ d \in Nat \ {0}
             /\ chain \in [1 .. d + 1 -> columns]
             /\ parent_of[chain[1]] = NULL
             /\ chain[d + 1] = leaf
             /\ \A i \in 2 .. d + 1 : parent_of[chain[i]] = chain[i - 1]
             /\ \A i, j \in 1 .. d + 1 : chain[i] = chain[j] => i = j
<1> DEFINE at    == Ancestry(parent_of, leaf)
           chain == Chain(parent_of, leaf)
           d     == Depth(parent_of, leaf)
           N     == Cardinality(columns)
<1>1. /\ DOMAIN parent_of = columns /\ IsFiniteSet(columns) /\ NULL \notin columns
      /\ IsForest(parent_of) /\ leaf \in columns /\ parent_of[leaf] # NULL
  BY DEF Hierarchies, Leaves
<1>2. /\ N \in Nat /\ DOMAIN at = 0 .. N + 1 /\ at[0] = leaf
      /\ \A n \in 0 .. N : at[n + 1] = Get(parent_of, at[n])
  BY <1>1, AncestryWalks
<1>3. /\ d \in 0 .. N
      /\ \A n \in 0 .. N + 1 : at[n] \in columns \cup {NULL} /\ (at[n] # NULL <=> n <= d)
      /\ parent_of[at[d]] = NULL
  BY <1>1, WalkEnds
<1>4. \A i, j \in 0 .. N + 1 : i < j /\ at[j] # NULL => at[i] # at[j]
  BY <1>1, <1>2, ForestHasNoRevisit DEF Revisits
<1>5. chain = [i \in 1 .. d + 1 |-> at[d + 1 - i]]
  BY DEF Chain
<1> HIDE DEF at, chain, d, N
<1>6. d \in Nat \ {0}
  BY <1>1, <1>2, <1>3
<1>7. \A n \in 0 .. d : n \in 0 .. N + 1 /\ at[n] \in columns /\ at[n] # NULL
  BY <1>2, <1>3
<1>8. \A i \in 1 .. d + 1 : d + 1 - i \in 0 .. d /\ chain[i] = at[d + 1 - i]
  BY <1>5, <1>6
<1>9. chain \in [1 .. d + 1 -> columns]
  BY <1>5, <1>7, <1>8
<1>10. parent_of[chain[1]] = NULL /\ chain[d + 1] = leaf
  <2>1. 1 \in 1 .. d + 1 /\ d + 1 \in 1 .. d + 1 /\ d + 1 - 1 = d /\ d + 1 - (d + 1) = 0
    BY <1>6
  <2> QED BY <1>2, <1>3, <1>8, <2>1
<1>11. ASSUME NEW i \in 2 .. d + 1
       PROVE  parent_of[chain[i]] = chain[i - 1]
  <2>1. /\ i \in 1 .. d + 1 /\ i - 1 \in 1 .. d + 1
        /\ d + 1 - i \in 0 .. N /\ d + 1 - (i - 1) = (d + 1 - i) + 1
    BY <1>2, <1>3, <1>6
  <2>2. chain[i] = at[d + 1 - i] /\ chain[i - 1] = at[(d + 1 - i) + 1]
    BY <1>8, <2>1
  <2>3. at[(d + 1 - i) + 1] = Get(parent_of, at[d + 1 - i])
    BY <1>2, <2>1
  <2>4. chain[i] \in DOMAIN parent_of
    BY <1>1, <1>9, <2>1
  <2> QED BY <2>2, <2>3, <2>4 DEF Get
<1>12. ASSUME NEW i \in 1 .. d + 1, NEW j \in 1 .. d + 1, i < j
       PROVE  chain[i] # chain[j]
  <2>1. d + 1 - i \in 0 .. d /\ d + 1 - j \in 0 .. d
    BY <1>8
  <2>2. d + 1 - j < d + 1 - i
    BY <1>6, <1>12
  <2>3. at[d + 1 - j] # at[d + 1 - i]
    BY <1>4, <1>7, <2>1, <2>2
  <2> QED BY <1>8, <2>3
<1>13. \A i, j \in 1 .. d + 1 : i < j => chain[i] # chain[j]
  BY <1>12
<1>14. \A i, j \in 1 .. d + 1 : chain[i] = chain[j] => i = j
  BY <1>6, <1>13
<1> QED BY <1>6, <1>9, <1>10, <1>11, <1>14 DEF chain, d

\* On a forest, get_column_hierarchies returns root-to-leaf paths that repeat no
\* column, and that together hold every column of every hierarchy and no other.
THEOREM ChainsCoverHierarchies ==
  ASSUME NEW parent_of, NEW columns, Hierarchies(parent_of, columns)
  PROVE  LET chains == get_column_hierarchies(parent_of)
         IN  /\ {c \in columns : parent_of[c] # NULL \/ Children(parent_of, c) # {}} =
                  UNION {{chain[i] : i \in DOMAIN chain} : chain \in chains}
             /\ \A chain \in chains :
                  /\ parent_of[chain[1]] = NULL
                  /\ Children(parent_of, chain[Len(chain)]) = {}
                  /\ \A i \in 2 .. Len(chain) : parent_of[chain[i]] = chain[i - 1]
                  /\ \A i, j \in DOMAIN chain : chain[i] = chain[j] => i = j
<1> DEFINE chains == get_column_hierarchies(parent_of)
           Linked == {c \in columns : parent_of[c] # NULL \/ Children(parent_of, c) # {}}
<1>1. DOMAIN parent_of = columns /\ NULL \notin columns
  BY DEF Hierarchies
<1>2. chains = {Chain(parent_of, leaf) : leaf \in Leaves(parent_of)}
  BY ChainsOfLeaves
<1>3. ASSUME NEW leaf \in Leaves(parent_of)
      PROVE  LET chain == Chain(parent_of, leaf)
             IN  /\ parent_of[chain[1]] = NULL
                 /\ Children(parent_of, chain[Len(chain)]) = {}
                 /\ \A i \in 2 .. Len(chain) : parent_of[chain[i]] = chain[i - 1]
                 /\ \A i, j \in DOMAIN chain : chain[i] = chain[j] => i = j
                 /\ \A i \in DOMAIN chain : chain[i] \in Linked
  <2> DEFINE chain == Chain(parent_of, leaf)
             d     == Depth(parent_of, leaf)
  <2>1. /\ d \in Nat \ {0}
        /\ chain \in [1 .. d + 1 -> columns]
        /\ parent_of[chain[1]] = NULL
        /\ chain[d + 1] = leaf
        /\ \A i \in 2 .. d + 1 : parent_of[chain[i]] = chain[i - 1]
        /\ \A i, j \in 1 .. d + 1 : chain[i] = chain[j] => i = j
    BY ChainToLeaf
  <2>2. Children(parent_of, leaf) = {}
    BY DEF Leaves
  <2> HIDE DEF chain, d
  <2>3. DOMAIN chain = 1 .. d + 1 /\ Len(chain) = d + 1
    <3>1. d + 1 \in Nat /\ chain \in Seq(columns)
      BY <2>1, SeqDef
    <3>2. Len(chain) \in Nat /\ 1 .. Len(chain) = 1 .. d + 1
      BY <2>1, <3>1, LenProperties
    <3>3. Len(chain) = d + 1
      BY ONLY <2>1, <3>1, <3>2
    <3> QED BY <2>1, <3>3
  <2>4. ASSUME NEW i \in 1 .. d + 1 PROVE chain[i] \in Linked
    <3>1. CASE i = 1
      <4>1. 2 \in 2 .. d + 1 /\ 2 \in 1 .. d + 1 /\ 2 - 1 = 1
        BY <2>1
      <4>2. chain[2] \in Children(parent_of, chain[1])
        BY <1>1, <2>1, <4>1 DEF Children
      <4> QED BY <2>1, <3>1, <4>2
    <3>2. CASE i # 1
      <4>1. i \in 2 .. d + 1 /\ i - 1 \in 1 .. d + 1
        BY <2>1, <3>2
      <4>2. parent_of[chain[i]] # NULL
        BY <1>1, <2>1, <4>1
      <4> QED BY <2>1, <4>2
    <3> QED BY <3>1, <3>2
  <2>5. /\ parent_of[chain[1]] = NULL
        /\ Children(parent_of, chain[Len(chain)]) = {}
        /\ \A i \in 2 .. Len(chain) : parent_of[chain[i]] = chain[i - 1]
        /\ \A i, j \in DOMAIN chain : chain[i] = chain[j] => i = j
        /\ \A i \in DOMAIN chain : chain[i] \in Linked
    BY <2>1, <2>2, <2>3, <2>4
  <2> QED BY <2>5 DEF chain
<1>4. ASSUME NEW c \in Linked
      PROVE  \E leaf \in Leaves(parent_of) :
               \E i \in DOMAIN Chain(parent_of, leaf) : c = Chain(parent_of, leaf)[i]
  <2>1. PICK leaf \in Leaves(parent_of) :
          \E k \in 0 .. Depth(parent_of, leaf) : Ancestry(parent_of, leaf)[k] = c
    BY LeafBelow
  <2> DEFINE at == Ancestry(parent_of, leaf)
             d  == Depth(parent_of, leaf)
  <2>2. PICK k \in 0 .. d : at[k] = c
    BY <2>1
  <2>3. d \in Nat
    BY ChainToLeaf
  <2>4. Chain(parent_of, leaf) = [i \in 1 .. d + 1 |-> at[d + 1 - i]]
    BY DEF Chain
  <2> HIDE DEF at, d
  <2>5. d + 1 - k \in 1 .. d + 1 /\ d + 1 - (d + 1 - k) = k
    BY <2>2, <2>3
  <2> QED BY <2>2, <2>4, <2>5
<1> HIDE DEF chains, Linked
<1>5. Linked = UNION {{chain[i] : i \in DOMAIN chain} : chain \in chains}
  <2> DEFINE On(chain) == {chain[i] : i \in DOMAIN chain}
  <2>1. \A chain \in chains : On(chain) \subseteq Linked
    BY <1>2, <1>3
  <2>2. \A c \in Linked : \E chain \in chains : c \in On(chain)
    BY <1>2, <1>4
  <2> HIDE DEF On
  <2>3. Linked = UNION {On(chain) : chain \in chains}
    BY <2>1, <2>2
  <2> QED BY <2>3 DEF On
<1> QED BY <1>2, <1>3, <1>5 DEF chains, Linked
=============================================================================
