---------------------------- MODULE QueriesProofs ----------------------------
(***************************************************************************)
(* What the services that answer and keep no state answer, for all they    *)
(* can be asked: the properties of Queries as theorems, for every finite   *)
(* graph, snapshot, rule document, message and set of definitions.         *)
(*                                                                         *)
(* An answer given in one step needs no invariant but what the question is *)
(* (AlwaysAskedFor).  A loop needs one that says what has been done and    *)
(* what is still waiting: that all that is reached lies behind what waits  *)
(* (bfs, dfs), that what is done is closed (the definitions), that what is *)
(* done is no farther than what is not (both searches for a way), that no  *)
(* step that was looked at leads to an open component below the low number *)
(* of its call (the strongly connected components, TarjanState).  The      *)
(* invariants are stated with sets of pairs, Pairwise and Linked, and not  *)
(* with positions, so that taking the first element off a list, putting    *)
(* others on it and cutting it in two are the only facts about lists that  *)
(* they need.                                                              *)
(*                                                                         *)
(* What is reachable is defined by recursion, over which none of the       *)
(* provers does induction; the proofs use that it is the least set that    *)
(* contains the start and is closed (LeastClosed, ReachedClosed).          *)
(***************************************************************************)
EXTENDS Queries, FiniteSetTheorems, FunctionTheorems, SequenceTheorems,
        WellFoundedInduction, TLAPS

\* A set of numbers has a least one.
LEMMA MinOfSet ==
  ASSUME NEW s \in SUBSET Nat, s # {}
  PROVE  Min(s) \in s /\ \A x \in s : Min(s) <= x
<1>1. IsWellFoundedOn(OpToRel(<, Nat), Nat)
  BY NatLessThanWellFounded
<1>2. PICK x \in s : \A y \in s : ~(<<y, x>> \in OpToRel(<, Nat))
  BY <1>1, WFMin
<1>3. \A y \in s : x <= y
  <2> SUFFICES ASSUME NEW y \in s PROVE x <= y
    OBVIOUS
  <2>1. ~(y < x)
    BY <1>2 DEF OpToRel
  <2> QED
    BY <2>1
<1> QED
  BY <1>3 DEF Min

\* Induction over the numbers up to n, for a set of them.
LEMMA NumbersUpTo ==
  ASSUME NEW n \in Nat, NEW S, 0 \in S, \A i \in 1 .. n : i - 1 \in S => i \in S
  PROVE  0 .. n \subseteq S
<1> DEFINE Fails == (0 .. n) \ S
<1> SUFFICES ASSUME Fails # {} PROVE FALSE
  OBVIOUS
<1>1. PICK k \in Fails : \A j \in Fails : k <= j
  <2>1. Fails \in SUBSET Nat
    OBVIOUS
  <2> HIDE DEF Fails
  <2> QED
    BY <2>1, MinOfSet
<1>2. k \in 1 .. n /\ k - 1 \notin Fails
  BY <1>1
<1> QED
  BY <1>1, <1>2

\* The last of a non-empty set of numbers up to n.
LEMMA MaxOfSet ==
  ASSUME NEW n \in Nat, NEW s \in SUBSET (1 .. n), s # {}
  PROVE  Max(s) \in s /\ \A i \in s : i <= Max(s)
<1> DEFINE below == {n - x : x \in s}
<1>1. PICK b \in below : \A c \in below : b <= c
  <2>1. \A x \in s : n - x \in Nat
    OBVIOUS
  <2>2. below \in SUBSET Nat /\ below # {}
    BY <2>1
  <2> HIDE DEF below
  <2> QED
    BY <2>2, MinOfSet
<1>2. \E x \in s : \A y \in s : x >= y
  BY <1>1
<1> QED
  BY <1>2 DEF Max

\* The first i of the numbers up to n, of which i is the last.
LEMMA MaxOfPrefix ==
  ASSUME NEW n \in Nat, NEW i \in 1 .. n
  PROVE  /\ 1 .. i \in SUBSET (1 .. n) /\ 1 .. i # {}
         /\ i - 1 \in 0 .. n /\ i \in 0 .. n
         /\ Max(1 .. i) = i /\ (1 .. i) \ {i} = 1 .. i - 1
<1>1. i \in Nat /\ 1 <= i /\ i <= n
  OBVIOUS
<1>2. 1 .. i \in SUBSET (1 .. n)
  BY <1>1
<1>3. 1 \in 1 .. i
  BY <1>1
<1>4. i - 1 \in 0 .. n /\ i \in 0 .. n
  BY <1>1
<1>5. Max(1 .. i) = i
  BY <1>1 DEF Max
<1>6. (1 .. i) \ {i} = 1 .. i - 1
  BY <1>1
<1> QED
  BY <1>2, <1>3, <1>4, <1>5, <1>6

-----------------------------------------------------------------------------
(* Numbers and recursion over them. *)

\* Induction over the numbers, for a set of them.
LEMMA AllNumbers ==
  ASSUME NEW S, 0 \in S, \A i \in Nat : i \in S => i + 1 \in S
  PROVE  Nat \subseteq S
<1> SUFFICES ASSUME NEW n \in Nat PROVE n \in S
  OBVIOUS
<1>1. \A i \in 1 .. n : i - 1 \in S => i \in S
  <2> SUFFICES ASSUME NEW i \in 1 .. n, i - 1 \in S PROVE i \in S
    OBVIOUS
  <2>1. i - 1 \in Nat /\ (i - 1) + 1 = i
    OBVIOUS
  <2> QED
    BY <2>1
<1>2. 0 .. n \subseteq S
  BY <1>1, NumbersUpTo
<1> QED
  BY <1>2

\* A function of the numbers that starts at a and goes on by a step, which may
\* look at the number.
IsRecursion(f, a, step) == f[0] = a /\ \A i \in Nat : f[i + 1] = step[<<i, f[i]>>]

\* Such a function exists.
LEMMA RecursionExists ==
  ASSUME NEW T, NEW a \in T, NEW step \in [Nat \X T -> T]
  PROVE  \E f \in [Nat -> T] : IsRecursion(f, a, step)
<1> DEFINE Upto(f, n) == f[0] = a /\ \A i \in 0 .. n - 1 : f[i + 1] = step[<<i, f[i]>>]
           S == {n \in Nat : \E f \in [0 .. n -> T] : Upto(f, n)}
<1>1. 0 \in S
  <2> DEFINE f == [i \in 0 .. 0 |-> a]
  <2>1. f \in [0 .. 0 -> T] /\ f[0] = a
    OBVIOUS
  <2>2. Upto(f, 0)
    BY <2>1
  <2> HIDE DEF f
  <2> QED
    BY <2>1, <2>2
<1>2. ASSUME NEW n \in Nat, n \in S PROVE n + 1 \in S
  <2>1. PICK f \in [0 .. n -> T] : Upto(f, n)
    BY <1>2
  <2> DEFINE g == [i \in 0 .. n + 1 |-> IF i = n + 1 THEN step[<<n, f[n]>>] ELSE f[i]]
  <2>2. n \in 0 .. n /\ f[n] \in T
    OBVIOUS
  <2>3. g \in [0 .. n + 1 -> T]
    BY <2>2
  <2>4. /\ \A i \in 0 .. n : g[i] = f[i]
        /\ g[n + 1] = step[<<n, f[n]>>]
    OBVIOUS
  <2> HIDE DEF g
  <2>5. ASSUME NEW i \in 0 .. (n + 1) - 1 PROVE g[i + 1] = step[<<i, g[i]>>]
    BY <2>1, <2>2, <2>4
  <2>6. Upto(g, n + 1)
    BY <2>1, <2>4, <2>5
  <2> QED
    BY <2>3, <2>6
<1>3. Nat \subseteq S
  <2> HIDE DEF S
  <2> QED
    BY <1>1, <1>2, AllNumbers
<1>4. ASSUME NEW n \in Nat PROVE \E f \in [0 .. n -> T] : Upto(f, n)
  BY <1>3
<1> DEFINE part == [n \in Nat |-> CHOOSE f \in [0 .. n -> T] : Upto(f, n)]
<1>5. \A n \in Nat : part[n] \in [0 .. n -> T] /\ Upto(part[n], n)
  BY <1>4
<1> HIDE DEF part, S
<1>6. ASSUME NEW m \in Nat, NEW n \in Nat, m <= n PROVE part[m][m] = part[n][m]
  <2> DEFINE Same == {i \in 0 .. m : part[m][i] = part[n][i]}
  <2>1. 0 \in Same
    BY <1>5
  <2>2. ASSUME NEW i \in 1 .. m, i - 1 \in Same PROVE i \in Same
    <3>1. i - 1 \in 0 .. m - 1 /\ i - 1 \in 0 .. n - 1 /\ (i - 1) + 1 = i
      BY <1>6
    <3>2. /\ part[m][(i - 1) + 1] = step[<<i - 1, part[m][i - 1]>>]
          /\ part[n][(i - 1) + 1] = step[<<i - 1, part[n][i - 1]>>]
      BY <1>5, <3>1
    <3> QED
      BY <2>2, <3>1, <3>2
  <2>3. 0 .. m \subseteq Same
    <3> HIDE DEF Same
    <3> QED
      BY <2>1, <2>2, NumbersUpTo
  <2> QED
    BY <2>3
<1> DEFINE whole == [n \in Nat |-> part[n][n]]
<1>7. whole \in [Nat -> T]
  BY <1>5
<1>8. whole[0] = a
  BY <1>5
<1>9. ASSUME NEW i \in Nat PROVE whole[i + 1] = step[<<i, whole[i]>>]
  BY <1>5, <1>6
<1> HIDE DEF whole
<1>10. IsRecursion(whole, a, step)
  BY <1>8, <1>9 DEF IsRecursion
<1> QED
  BY <1>7, <1>10

-----------------------------------------------------------------------------
(* What a relation reaches. *)

\* ReachedIn gives the levels.
LEMMA ReachedInLevels ==
  ASSUME NEW steps, NEW from
  PROVE  /\ ReachedIn(steps, from, 0) = from
         /\ \A i \in Nat : ReachedIn(steps, from, i + 1) =
              ReachedIn(steps, from, i) \cup Onward(steps, ReachedIn(steps, from, i))
<1> DEFINE All == from \cup {s[2] : s \in steps}
           T == SUBSET All
           step == [x \in Nat \X T |-> x[2] \cup Onward(steps, x[2])]
<1>1. from \in T
  OBVIOUS
<1>2. step \in [Nat \X T -> T]
  BY DEF Onward
<1>3. PICK f \in [Nat -> T] : IsRecursion(f, from, step)
  <2> HIDE DEF step, T, All
  <2> QED
      BY <1>1, <1>2, RecursionExists
<1>4. \A i \in Nat : f[i + 1] = f[i] \cup Onward(steps, f[i])
  <2> SUFFICES ASSUME NEW i \in Nat PROVE f[i + 1] = f[i] \cup Onward(steps, f[i])
    OBVIOUS
  <2>1. <<i, f[i]>> \in Nat \X T
    OBVIOUS
  <2>2. step[<<i, f[i]>>] = f[i] \cup Onward(steps, f[i])
    <3> HIDE DEF T
    <3> QED
      BY <2>1
  <2> QED
    BY <1>3, <2>2 DEF IsRecursion
<1> DEFINE Body(g) == [i \in Nat |-> IF i = 0 THEN from
                                     ELSE LET before == g[i - 1] IN before \cup Onward(steps, before)]
           reached == CHOOSE g : g = Body(g)
<1>5. f = Body(f)
  <2>1. ASSUME NEW i \in Nat PROVE f[i] = Body(f)[i]
    BY <1>3, <1>4 DEF IsRecursion
  <2>2. f = [i \in Nat |-> f[i]] /\ Body(f) = [i \in Nat |-> Body(f)[i]]
    OBVIOUS
  <2> HIDE DEF Body
  <2> QED
    BY <2>1, <2>2
<1>6. reached = Body(reached)
  <2> HIDE DEF Body
  <2> QED
    BY <1>5
<1>7. \A most : ReachedIn(steps, from, most) = reached[most]
  BY DEF ReachedIn
<1>8. \A i \in Nat : reached[i] = IF i = 0 THEN from
                                 ELSE reached[i - 1] \cup Onward(steps, reached[i - 1])
  <2> HIDE DEF reached
  <2> QED
    BY <1>6
<1> HIDE DEF reached
<1>9. reached[0] = from
  BY <1>8
<1>10. \A i \in Nat : reached[i + 1] = reached[i] \cup Onward(steps, reached[i])
  <2> SUFFICES ASSUME NEW i \in Nat
               PROVE  reached[i + 1] = reached[i] \cup Onward(steps, reached[i])
    OBVIOUS
  <2>1. i + 1 \in Nat /\ i + 1 # 0 /\ (i + 1) - 1 = i
    OBVIOUS
  <2> QED
    BY <1>8, <2>1
<1> QED
  BY <1>7, <1>9, <1>10

\* A function of finitely many arguments has finitely many values.
LEMMA ImageFinite ==
  ASSUME NEW f, IsFiniteSet(DOMAIN f), f = [x \in DOMAIN f |-> f[x]]
  PROVE  /\ IsFiniteSet({f[x] : x \in DOMAIN f})
         /\ Cardinality({f[x] : x \in DOMAIN f}) <= Cardinality(DOMAIN f)
<1> DEFINE S == DOMAIN f
           T == {f[x] : x \in S}
<1>1. f \in Surjection(S, T)
  BY DEF Surjection
<1> HIDE DEF T
<1> QED
  BY <1>1, FS_Surjection DEF T

\* What is reached in more steps is not less.
LEMMA ReachedGrows ==
  ASSUME NEW steps, NEW from, NEW m \in Nat, NEW n \in Nat, m <= n
  PROVE  ReachedIn(steps, from, m) \subseteq ReachedIn(steps, from, n)
<1> DEFINE S == {k \in Nat : ReachedIn(steps, from, m) \subseteq ReachedIn(steps, from, m + k)}
<1>1. 0 \in S
  OBVIOUS
<1>2. ASSUME NEW k \in Nat, k \in S PROVE k + 1 \in S
  <2>1. m + k \in Nat /\ m + (k + 1) = (m + k) + 1
    OBVIOUS
  <2> QED
    BY <1>2, <2>1, ReachedInLevels
<1>3. Nat \subseteq S
  <2> HIDE DEF S
  <2> QED
    BY <1>1, <1>2, AllNumbers
<1>4. n - m \in Nat /\ m + (n - m) = n
  OBVIOUS
<1> QED
  BY <1>3, <1>4

\* Nothing but these elements and what a step leads to is reached.
LEMMA LeastClosed ==
  ASSUME NEW steps, NEW from, NEW n \in Nat, NEW C, from \subseteq C, Onward(steps, C) \subseteq C
  PROVE  ReachedIn(steps, from, n) \subseteq C
<1> DEFINE S == {k \in Nat : ReachedIn(steps, from, k) \subseteq C}
<1>1. 0 \in S
  BY ReachedInLevels
<1>2. ASSUME NEW k \in Nat, k \in S PROVE k + 1 \in S
  <2>1. Onward(steps, ReachedIn(steps, from, k)) \subseteq Onward(steps, C)
    BY <1>2 DEF Onward
  <2> QED
    BY <1>2, <2>1, ReachedInLevels
<1>3. Nat \subseteq S
  <2> HIDE DEF S
  <2> QED
    BY <1>1, <1>2, AllNumbers
<1> QED
  BY <1>3

\* The beginnings are reached.
LEMMA ReachedFromStart ==
  ASSUME NEW steps, NEW from, NEW n \in Nat
  PROVE  from \subseteq ReachedIn(steps, from, n)
<1>1. 0 \in Nat /\ 0 <= n
  OBVIOUS
<1>2. ReachedIn(steps, from, 0) \subseteq ReachedIn(steps, from, n)
  BY <1>1, ReachedGrows
<1> QED
  BY <1>2, ReachedInLevels

\* In as many steps as there are elements everything is reached that can be.
LEMMA ReachedClosed ==
  ASSUME NEW steps, NEW from, NEW U, IsFiniteSet(U), from \subseteq U, Onward(steps, U) \subseteq U,
         NEW n \in Nat, n >= Cardinality(U)
  PROVE  LET R == ReachedIn(steps, from, n)
         IN  R \subseteq U /\ from \subseteq R /\ Onward(steps, R) \subseteq R
<1> DEFINE R(k) == ReachedIn(steps, from, k)
           Closed1(k) == Onward(steps, R(k)) \subseteq R(k)
           S == {k \in Nat : Closed1(k) \/ Cardinality(R(k)) >= k}
<1>1. ASSUME NEW k \in Nat PROVE R(k) \subseteq U
  BY LeastClosed
<1>2. ASSUME NEW k \in Nat PROVE IsFiniteSet(R(k)) /\ Cardinality(R(k)) \in Nat
  BY <1>1, FS_Subset, FS_CardinalityType
<1>3. \A k \in Nat : R(k + 1) = R(k) \cup Onward(steps, R(k))
  BY ReachedInLevels
<1> HIDE DEF R
<1>4. 0 \in S
  BY <1>2
<1>5. ASSUME NEW k \in Nat, k \in S PROVE k + 1 \in S
  <2>1. CASE Closed1(k)
    <3>1. R(k + 1) = R(k)
      BY <1>3, <2>1
    <3> QED
      BY <2>1, <3>1
  <2>2. CASE ~Closed1(k)
    <3>1. R(k) \subseteq R(k + 1) /\ R(k) # R(k + 1)
      BY <1>3, <2>2
    <3>2. Cardinality(R(k)) <= Cardinality(R(k + 1)) /\ Cardinality(R(k)) # Cardinality(R(k + 1))
      BY <1>2, <3>1, FS_Subset
    <3>3. Cardinality(R(k)) \in Nat /\ Cardinality(R(k + 1)) \in Nat
      BY <1>2
    <3>4. Cardinality(R(k)) >= k
      BY <1>5, <2>2
    <3> QED
      BY <3>2, <3>3, <3>4
  <2> QED
    BY <2>1, <2>2
<1>6. n \in S
  <2> HIDE DEF S
  <2> QED
    BY <1>4, <1>5, AllNumbers
<1>7. CASE Cardinality(R(n)) >= n
  <2>1. Cardinality(R(n)) <= Cardinality(U) /\ Cardinality(U) \in Nat
    BY <1>1, FS_Subset, FS_CardinalityType
  <2>2. Cardinality(R(n)) = Cardinality(U)
    BY <1>2, <1>7, <2>1
  <2>3. R(n) = U
    BY <1>1, <2>2, FS_Subset
  <2> QED
    BY <2>3, ReachedFromStart DEF R
<1>8. CASE Closed1(n)
  BY <1>1, <1>8, ReachedFromStart DEF R
<1> QED
  BY <1>6, <1>7, <1>8

-----------------------------------------------------------------------------
(* The queries and the steps. *)

\* What is asked about is what the instance gives.
AskedFor ==
  phase # "idle" =>
    /\ query.kind \in {"bfs", "dfs", "sorted", "components"} => query.about \in Traversals
    /\ query.kind = "path"        => query.about \in PathQueries
    /\ query.kind = "validation"  => query.about \in Validations
    /\ query.kind = "rules"       => query.about \in RuleQueries
    /\ query.kind = "grid"        => query.about \in GridQueries
    /\ query.kind = "document"    => query.about \in Documents
    /\ query.kind = "list"        => query.about \in Lists
    /\ query.kind = "command"     => query.about \in Commands
    /\ query.kind = "definitions" => query.about \in Definitions

\* A step asks, forgets or goes on with the query that was asked.
LEMMA StepOfKind ==
  ASSUME Next
  PROVE  \/ AskAnything
         \/ Forget
         \/ /\ UNCHANGED query
            /\ phase \in {"asked", "working", "walking", "running"}
            /\ \/ query.kind = "bfs" /\ BfsNext
               \/ query.kind = "dfs" /\ DfsNext
               \/ query.kind = "sorted" /\ SortedNext
               \/ query.kind = "components" /\ ComponentsNext
               \/ query.kind = "path" /\ PathNext
               \/ query.kind = "validation" /\ AnswerValidation
               \/ query.kind = "rules" /\ AnswerRules
               \/ query.kind = "routes" /\ AnswerRoutes
               \/ query.kind = "grid" /\ GridNext
               \/ query.kind = "document" /\ AnswerDocument
               \/ query.kind = "list" /\ AnswerList
               \/ query.kind = "command" /\ AnswerCommand
               \/ query.kind \in {"definitions", "execution"} /\ CompositesNext
<1> DEFINE Goes == UNCHANGED query /\ phase \in {"asked", "working", "walking", "running"}
<1> USE DEF Asked, Working, Walking, GoTo, Begin, GoOn, Answer
<1>1. BfsNext => Goes /\ query.kind = "bfs"
  BY DEF BfsNext, BeginBfs, VisitBfs, EndBfs
<1>2. DfsNext => Goes /\ query.kind = "dfs"
  BY DEF DfsNext, BeginDfs, VisitDfs, EndDfs
<1>3. SortedNext => Goes /\ query.kind = "sorted"
  BY DEF SortedNext, BeginSorted, VisitSorted, EndSorted
<1>4. ComponentsNext => Goes /\ query.kind = "components"
  BY DEF ComponentsNext, BeginComponents, ConnectNext, FollowLink, ReturnFromConnect, EndComponents
<1>5. PathNext => Goes /\ query.kind = "path"
  BY DEF PathNext, BeginPath, NoPath, VisitNearest, EndVisits, WalkPathBack, EndPath
<1>6. AnswerValidation => Goes /\ query.kind = "validation"
  BY DEF AnswerValidation
<1>7. AnswerRules => Goes /\ query.kind = "rules"
  BY DEF AnswerRules
<1>8. AnswerRoutes => Goes /\ query.kind = "routes"
  BY DEF AnswerRoutes
<1>9. GridNext => Goes /\ query.kind = "grid"
  BY DEF GridNext, BeginGrid, SearchCell, ReachGoal, GiveUpSearch, WalkCellsBack, EndGrid
<1>10. AnswerDocument => Goes /\ query.kind = "document"
  BY DEF AnswerDocument
<1>11. AnswerList => Goes /\ query.kind = "list"
  BY DEF AnswerList
<1>12. AnswerCommand => Goes /\ query.kind = "command"
  BY DEF AnswerCommand
<1>13. CompositesNext => Goes /\ query.kind \in {"definitions", "execution"}
  BY DEF BeginValidation, ValidateDefinition, ValidateNested, ReturnFromDefinition, EndDefinitions, Validating,
     RunComposite, AnswerExecution, EnterComposite, ExecuteOneStep, LeaveComposite, EndExecution, Running,
     CompositesNext
<1> QED
  BY <1>1, <1>2, <1>3, <1>4, <1>5, <1>6, <1>7, <1>8, <1>9, <1>10, <1>11, <1>12, <1>13 DEF Next

\* A query that was asked is one of the instance's.
LEMMA AskingGives ==
  ASSUME AskAnything
  PROVE  AskedFor' /\ phase' = "asked"
BY DEF AskAnything, Ask, AskedFor

\* Every query that is worked on is one of the instance's.
LEMMA AlwaysAskedFor == Spec => []AskedFor
<1>1. Init => AskedFor
  BY DEF Init, AskedFor
<1>2. AskedFor /\ [Next]_vars => AskedFor'
  <2> SUFFICES ASSUME AskedFor, [Next]_vars PROVE AskedFor'
    OBVIOUS
  <2>1. CASE UNCHANGED vars
    BY <2>1 DEF vars, AskedFor
  <2>2. CASE AskAnything
    BY <2>2, AskingGives
  <2>3. CASE Forget
    BY <2>3 DEF Forget, AskedFor
  <2>4. CASE UNCHANGED query /\ phase # "idle"
    BY <2>4 DEF AskedFor
  <2> QED
    BY <2>1, <2>2, <2>3, <2>4, StepOfKind
<1> QED
  BY <1>1, <1>2, PTL DEF Spec

-----------------------------------------------------------------------------
(* Validation. *)

\* The components of a type, by id.
OfType(s, type) == {c.id : c \in {d \in ToSet(s.components) : d.type = type}}

\* A snapshot: lists of components and of connections, with whole sizes.
IsSnapshot(s) ==
  /\ IsList(s.components) /\ IsList(s.connections)
  /\ \A i \in DOMAIN s.components : s.components[i].width \in Int /\ s.components[i].height \in Int

\* An id belongs to the last component that has it.
LEMMA LastWithHasId ==
  ASSUME NEW s, IsSnapshot(s), NEW id \in Ids(s.components)
  PROVE  LastWith(s, id) \in DOMAIN s.components /\ s.components[LastWith(s, id)].id = id
<1> DEFINE cs == s.components
           I == {i \in 1 .. Len(cs) : cs[i].id = id}
<1>1. Len(cs) \in Nat /\ DOMAIN cs = 1 .. Len(cs)
  BY DEF IsSnapshot, IsList
<1>2. I # {}
  BY <1>1 DEF Ids
<1>3. I \in SUBSET (1 .. Len(cs))
  OBVIOUS
<1>4. Max(I) \in I
  <2> HIDE DEF I, cs
  <2> QED
    BY <1>1, <1>2, <1>3, MaxOfSet
<1>5. LastWith(s, id) = Max(I)
  BY <1>1 DEF LastWith
<1> QED
  BY <1>1, <1>4, <1>5

\* A provider that finds an error is not overruled.
LEMMA ErrorsAreBridged ==
  ASSUME NEW issues, NEW i \in issues, i.severity = "error", i.text,
         NEW code, NEW x, i = [code |-> code, severity |-> "error", subject |-> x, text |-> TRUE]
  PROVE  ~Bridged(issues).ok \/ \E j \in Bridged(issues).issues : j.severity = "error" /\ j.text
<1> DEFINE converted == [i EXCEPT !.severity = IF @ = Missing THEN "error" ELSE @]
<1>1. converted.severity = "error" /\ converted.text
  OBVIOUS
<1>2. CASE Bridged(issues).ok
  BY <1>1, <1>2 DEF Bridged
<1> QED
  BY <1>2

\* A good verdict: no provider failed and none found an error.
LEMMA GoodVerdict ==
  ASSUME NEW providers, NEW s, Validate(providers, s), NEW p \in providers
  PROVE  Result(p, s).ok /\ \A j \in Result(p, s).issues : ~(j.severity = "error" /\ j.text)
<1> DEFINE core == [code |-> "CORE_VALIDATION_PROVIDER_ERROR", severity |-> "error", subject |-> 0, text |-> TRUE]
<1>1. ASSUME ~Result(p, s).ok PROVE FALSE
  <2>1. core \in Issues("CORE_VALIDATION_PROVIDER_ERROR", "error", {0})
    BY DEF Issues
  <2>2. core \in ValidationIssues(providers, s)
    BY <1>1, <2>1 DEF ValidationIssues
  <2>3. core.severity = "error" /\ core.text
    OBVIOUS
  <2> QED
    BY <2>2, <2>3 DEF Validate, ValidationErrors
<1>2. ASSUME NEW j \in Result(p, s).issues PROVE ~(j.severity = "error" /\ j.text)
  BY <1>1 DEF ValidationIssues, Validate, ValidationErrors
<1> QED
  BY <1>1, <1>2

\* Without an error among its issues a provider of the workflow pack finds no
\* subject for the code of an error.
LEMMA NoErrorNoSubject ==
  ASSUME NEW issues, Bridged(issues).ok,
         \A j \in Bridged(issues).issues : ~(j.severity = "error" /\ j.text),
         NEW code, NEW subjects, Issues(code, "error", subjects) \subseteq issues
  PROVE  subjects = {}
<1> SUFFICES ASSUME NEW x \in subjects PROVE FALSE
  OBVIOUS
<1> DEFINE i == [code |-> code, severity |-> "error", subject |-> x, text |-> TRUE]
<1>1. i \in issues /\ i.severity = "error" /\ i.text
  BY DEF Issues
<1>2. ~Bridged(issues).ok \/ \E j \in Bridged(issues).issues : j.severity = "error" /\ j.text
  <2>1. i = [code |-> code, severity |-> "error", subject |-> x, text |-> TRUE]
    OBVIOUS
  <2> HIDE DEF i
  <2> QED
    BY <1>1, <2>1, ErrorsAreBridged
<1> QED
  BY <1>2

\* Named and OfType are about the same components.
LEMMA OneOfType ==
  ASSUME NEW s, IsSnapshot(s), NEW type, \A i \in DOMAIN s.components : s.components[i].id # Blank
  PROVE  /\ Cardinality(Named(s, type)) = 1 => Cardinality(OfType(s, type)) = 1
         /\ Cardinality(Named(s, type)) = 1 =>
              \A i \in Named(s, type) : OfType(s, type) = {s.components[i].id}
         /\ (Cardinality(OfType(s, type)) = 1 /\ NoneRepeated(s.components)) =>
              Cardinality(Named(s, type)) = 1
         /\ OfType(s, type) = {s.components[i].id : i \in Named(s, type)}
<1> DEFINE cs == s.components
           N == Named(s, type)
           O == OfType(s, type)
<1>1. Len(cs) \in Nat /\ DOMAIN cs = 1 .. Len(cs)
  BY DEF IsSnapshot, IsList
<1>2. IsFiniteSet(1 .. Len(cs))
  BY <1>1, FS_Interval
<1>3. N \in SUBSET (1 .. Len(cs))
  BY <1>1 DEF Named
<1>4. IsFiniteSet(N)
  <2> HIDE DEF N
  <2> QED
    BY <1>2, <1>3, FS_Subset
<1>5. O = {cs[i].id : i \in N}
  BY DEF OfType, Named, ToSet
<1>6. ASSUME Cardinality(N) = 1 PROVE \E i \in N : N = {i} /\ O = {cs[i].id}
  BY <1>4, <1>5, <1>6, FS_Singleton
<1>7. ASSUME Cardinality(O) = 1, NoneRepeated(cs) PROVE Cardinality(N) = 1
  <2> DEFINE IdOf == [i \in N |-> cs[i].id]
  <2>1. IsFiniteSet({IdOf[i] : i \in N})
    <3> HIDE DEF N
    <3>1. DOMAIN IdOf = N /\ IdOf = [i \in DOMAIN IdOf |-> IdOf[i]]
      OBVIOUS
    <3> HIDE DEF IdOf
    <3> QED
      BY <1>4, <3>1, ImageFinite
  <2>2. O = {IdOf[i] : i \in N}
    BY <1>5
  <2>3. PICK a : O = {a}
    BY <1>7, <2>1, <2>2, FS_Singleton
  <2>4. PICK i \in N : cs[i].id = a
    BY <1>5, <2>3
  <2>5. \A j \in N : cs[j].id = a
    BY <1>5, <2>3
  <2>6. N = {i}
    <3>1. \A j \in N : j \in DOMAIN cs
      BY DEF Named
    <3> HIDE DEF N, O
    <3> QED
      BY <1>7, <2>4, <2>5, <3>1 DEF NoneRepeated
  <2> QED
    BY <2>6, FS_Singleton
<1>8. ASSUME Cardinality(N) = 1 PROVE Cardinality(O) = 1 /\ \A i \in N : O = {cs[i].id}
  BY <1>6, <1>8, FS_Singleton
<1> QED
  BY <1>5, <1>7, <1>8

\* What the three providers look at, without an error.
StructureClean(s) ==
  /\ \A i \in DOMAIN s.components :
       /\ s.components[i].id # Blank /\ i \notin Repeated(s.components)
       /\ ~(s.components[i].width <= 0) /\ ~(s.components[i].height <= 0)
  /\ Cardinality(Named(s, "start")) = 1 /\ Cardinality(Named(s, "stop")) = 1

\* Every connection has an id of its own, known sides and two different ends.
ConnectionClean(s) ==
  \A i \in DOMAIN s.connections :
    LET k == s.connections[i]
    IN  /\ k.id # Blank /\ i \notin Repeated(s.connections)
        /\ ~(k.source = k.target /\ k.source # Blank)
        /\ {k.sourceSide, k.targetSide} \subseteq Sides
        /\ {k.source, k.target} \subseteq Ids(s.components)

\* Only a stop ends, only a start begins, and the one start reaches all.
TopologyClean(s) ==
  /\ \A id \in Ids(s.components) :
       /\ (\A l \in Links(s) : l[1] # id) => TypeOf(s, id) = "stop"
       /\ (\A l \in Links(s) : l[2] # id) => TypeOf(s, id) = "start"
  /\ Cardinality(Named(s, "start")) = 1 =>
       Ids(s.components) \subseteq ReachedFrom(s, s.components[CHOOSE i \in Named(s, "start") : TRUE].id)

\* Nothing stands alone.
NoneAlone(s) ==
  \A id \in Ids(s.components) : \E l \in Links(s) : id \in {l[1], l[2]}

\* A verdict without errors means that the structure is clean,
LEMMA StructureErrors ==
  ASSUME NEW s, NEW issues, Bridged(issues).ok,
         \A j \in Bridged(issues).issues : ~(j.severity = "error" /\ j.text),
         StructureIssues(s) \subseteq issues
  PROVE  StructureClean(s)
<1> DEFINE cs == s.components
           bad == {i \in DOMAIN cs : \/ cs[i].id = Blank
                                     \/ i \in Repeated(cs)
                                     \/ cs[i].width <= 0
                                     \/ cs[i].height <= 0}
<1>1. StructureIssues(s) =
        Issues("W005", "error", bad)
          \cup Issues("W001", "error", TheGraphIf(Cardinality(Named(s, "start")) # 1))
          \cup Issues("W002", "error", TheGraphIf(Cardinality(Named(s, "stop")) # 1))
  BY DEF StructureIssues
<1> HIDE DEF bad
<1>2. bad = {}
  BY <1>1, NoErrorNoSubject
<1>3. TheGraphIf(Cardinality(Named(s, "start")) # 1) = {}
  BY <1>1, NoErrorNoSubject
<1>4. TheGraphIf(Cardinality(Named(s, "stop")) # 1) = {}
  BY <1>1, NoErrorNoSubject
<1> QED
  BY <1>2, <1>3, <1>4 DEF StructureClean, TheGraphIf, bad

\* and the connections,
LEMMA ConnectionErrors ==
  ASSUME NEW s, NEW issues, Bridged(issues).ok,
         \A j \in Bridged(issues).issues : ~(j.severity = "error" /\ j.text),
         ConnectionIssues(s) \subseteq issues
  PROVE  ConnectionClean(s)
<1> DEFINE ks == s.connections
           bad == {i \in DOMAIN ks : \/ ks[i].id = Blank
                                     \/ i \in Repeated(ks)
                                     \/ ks[i].source = ks[i].target /\ ks[i].source # Blank
                                     \/ ~({ks[i].sourceSide, ks[i].targetSide} \subseteq Sides)}
           lost == {i \in DOMAIN ks : ~({ks[i].source, ks[i].target} \subseteq Ids(s.components))}
<1>1. ConnectionIssues(s) = Issues("W006", "error", bad) \cup Issues("W003", "error", lost)
  BY Zenon DEF ConnectionIssues
<1> HIDE DEF bad, lost
<1>2. bad = {}
  BY <1>1, NoErrorNoSubject
<1>3. lost = {}
  BY <1>1, NoErrorNoSubject
<1>4. \A i \in DOMAIN ks : /\ ks[i].id # Blank /\ i \notin Repeated(ks)
                           /\ ~(ks[i].source = ks[i].target /\ ks[i].source # Blank)
                           /\ {ks[i].sourceSide, ks[i].targetSide} \subseteq Sides
  BY <1>2 DEF bad
<1>5. \A i \in DOMAIN ks : {ks[i].source, ks[i].target} \subseteq Ids(s.components)
  BY <1>3 DEF lost
<1> QED
  BY <1>4, <1>5, Zenon DEF ConnectionClean

\* and the topology.
LEMMA TopologyErrors ==
  ASSUME NEW s, NEW issues, Bridged(issues).ok,
         \A j \in Bridged(issues).issues : ~(j.severity = "error" /\ j.text),
         TopologyIssues(s) \subseteq issues
  PROVE  TopologyClean(s)
<1> DEFINE ids    == Ids(s.components)
           NoIn   == {id \in ids : \A l \in Links(s) : l[2] # id}
           NoOut  == {id \in ids : \A l \in Links(s) : l[1] # id}
           starts == Named(s, "start")
           At(some) == {LastWith(s, id) : id \in some}
           odd  == {id \in NoOut : TypeOf(s, id) # "stop"} \cup {id \in NoIn : TypeOf(s, id) # "start"}
           far  == IF Cardinality(starts) # 1 THEN {}
                   ELSE At(ids \ ReachedFrom(s, s.components[CHOOSE i \in starts : TRUE].id))
<1>1. TopologyIssues(s) =
        Issues("W004", "warning", At(NoIn \cap NoOut))
          \cup Issues("W007", "error", At(odd)) \cup Issues("W008", "error", far)
  BY DEF TopologyIssues
<1>2. Issues("W007", "error", At(odd)) \subseteq issues /\ Issues("W008", "error", far) \subseteq issues
  BY <1>1
<1>3. At(odd) = {}
  <2> DEFINE some == At(odd)
  <2> HIDE DEF some
  <2>1. some = {}
    BY <1>2, NoErrorNoSubject DEF some
  <2> QED
    BY <2>1 DEF some
<1>4. far = {}
  <2> HIDE DEF far
  <2> QED
    BY <1>2, NoErrorNoSubject
<1>5. odd = {}
  BY <1>3
<1>6. Cardinality(starts) = 1 =>
        ids \subseteq ReachedFrom(s, s.components[CHOOSE i \in starts : TRUE].id)
  BY <1>4
<1> QED
  BY <1>5, <1>6 DEF TopologyClean

\* Without anything to complain about there is no issue.
LEMMA NoIssues ==
  ASSUME NEW s
  PROVE  /\ StructureClean(s) => StructureIssues(s) = {}
         /\ ConnectionClean(s) => ConnectionIssues(s) = {}
         /\ TopologyClean(s) /\ NoneAlone(s) => TopologyIssues(s) = {}
<1>1. \A code, severity : Issues(code, severity, {}) = {}
  BY DEF Issues
<1>2. ASSUME StructureClean(s) PROVE StructureIssues(s) = {}
  <2> DEFINE cs == s.components
             bad == {i \in DOMAIN cs : \/ cs[i].id = Blank
                                       \/ i \in Repeated(cs)
                                       \/ cs[i].width <= 0
                                       \/ cs[i].height <= 0}
  <2>1. bad = {}
    BY <1>2 DEF StructureClean
  <2>2. TheGraphIf(Cardinality(Named(s, "start")) # 1) = {} /\ TheGraphIf(Cardinality(Named(s, "stop")) # 1) = {}
    BY <1>2 DEF StructureClean, TheGraphIf
  <2>3. StructureIssues(s) =
          Issues("W005", "error", bad)
            \cup Issues("W001", "error", TheGraphIf(Cardinality(Named(s, "start")) # 1))
            \cup Issues("W002", "error", TheGraphIf(Cardinality(Named(s, "stop")) # 1))
    BY DEF StructureIssues
  <2> HIDE DEF bad
  <2> QED
    BY <1>1, <2>1, <2>2, <2>3
<1>3. ASSUME ConnectionClean(s) PROVE ConnectionIssues(s) = {}
  <2> DEFINE ks == s.connections
             bad == {i \in DOMAIN ks : \/ ks[i].id = Blank
                                       \/ i \in Repeated(ks)
                                       \/ ks[i].source = ks[i].target /\ ks[i].source # Blank
                                       \/ ~({ks[i].sourceSide, ks[i].targetSide} \subseteq Sides)}
             lost == {i \in DOMAIN ks : ~({ks[i].source, ks[i].target} \subseteq Ids(s.components))}
  <2>1. bad = {} /\ lost = {}
    BY <1>3 DEF ConnectionClean
  <2>2. ConnectionIssues(s) = Issues("W006", "error", bad) \cup Issues("W003", "error", lost)
    BY Zenon DEF ConnectionIssues
  <2> HIDE DEF bad, lost
  <2> QED
    BY <1>1, <2>1, <2>2
<1>4. ASSUME TopologyClean(s), NoneAlone(s) PROVE TopologyIssues(s) = {}
  <2> DEFINE ids    == Ids(s.components)
             NoIn   == {id \in ids : \A l \in Links(s) : l[2] # id}
             NoOut  == {id \in ids : \A l \in Links(s) : l[1] # id}
             starts == Named(s, "start")
             At(some) == {LastWith(s, id) : id \in some}
             odd  == {id \in NoOut : TypeOf(s, id) # "stop"} \cup {id \in NoIn : TypeOf(s, id) # "start"}
             far  == IF Cardinality(starts) # 1 THEN {}
                     ELSE At(ids \ ReachedFrom(s, s.components[CHOOSE i \in starts : TRUE].id))
  <2>1. TopologyIssues(s) =
          Issues("W004", "warning", At(NoIn \cap NoOut))
            \cup Issues("W007", "error", At(odd)) \cup Issues("W008", "error", far)
    BY DEF TopologyIssues
  <2>2. NoIn \cap NoOut = {}
    BY <1>4 DEF NoneAlone
  <2>3. odd = {}
    BY <1>4 DEF TopologyClean
  <2>4. far = {}
    BY <1>4 DEF TopologyClean
  <2>5. At(NoIn \cap NoOut) = {} /\ At(odd) = {}
    BY <2>2, <2>3
  <2> DEFINE one == At(NoIn \cap NoOut)
             two == At(odd)
  <2>6. one = {} /\ two = {}
    BY <2>5
  <2>7. TopologyIssues(s) =
          Issues("W004", "warning", one) \cup Issues("W007", "error", two) \cup Issues("W008", "error", far)
    BY <2>1
  <2> HIDE DEF one, two, far
  <2> QED
    BY <1>1, <2>4, <2>6, <2>7
<1> QED
  BY <1>2, <1>3, <1>4

\* The ids of a snapshot, and the steps its connections make between them.
AllIds(s)  == {c.id : c \in ToSet(s.components)}
SnapshotSteps(s) == {<<k.source, k.target>> : k \in ToSet(s.connections)}

\* What makes a workflow, with the sets above.
LEMMA WorkflowMeans ==
  ASSUME NEW s
  PROVE  IsWorkflow(s) <=>
           /\ NoneRepeated(s.components) /\ NoneRepeated(s.connections)
           /\ \A c \in ToSet(s.components) : c.width > 0 /\ c.height > 0
           /\ SnapshotSteps(s) \subseteq {pair \in AllIds(s) \X AllIds(s) : pair[1] # pair[2]}
           /\ \A k \in ToSet(s.connections) : {k.sourceSide, k.targetSide} \subseteq -1..3
           /\ Cardinality(OfType(s, "start")) = 1 /\ Cardinality(OfType(s, "stop")) = 1
           /\ AllIds(s) = ReachedIn(SnapshotSteps(s), OfType(s, "start"), Cardinality(AllIds(s)))
           /\ AllIds(s) \ OfType(s, "stop") \subseteq {step[1] : step \in SnapshotSteps(s)}
BY Zenon DEF IsWorkflow, AllIds, SnapshotSteps, OfType

\* A component of a type has an id, which are finitely many.
LEMMA IdsAreFinite ==
  ASSUME NEW s, IsSnapshot(s)
  PROVE  /\ IsFiniteSet(AllIds(s)) /\ Cardinality(AllIds(s)) \in Nat
         /\ \A type : OfType(s, type) \subseteq AllIds(s)
         /\ Ids(s.components) = AllIds(s) \ {Blank}
<1> DEFINE cs == s.components
           IdOf == [i \in DOMAIN cs |-> cs[i].id]
<1>1. Len(cs) \in Nat /\ DOMAIN cs = 1 .. Len(cs)
  BY DEF IsSnapshot, IsList
<1>2. IsFiniteSet(DOMAIN cs)
  BY <1>1, FS_Interval
<1>3. DOMAIN IdOf = DOMAIN cs /\ IdOf = [i \in DOMAIN IdOf |-> IdOf[i]]
  OBVIOUS
<1>4. AllIds(s) = {IdOf[i] : i \in DOMAIN IdOf}
  BY DEF AllIds, ToSet
<1>5. IsFiniteSet(AllIds(s))
  <2> HIDE DEF IdOf
  <2> QED
    BY <1>2, <1>3, <1>4, ImageFinite
<1>6. Cardinality(AllIds(s)) \in Nat
  BY <1>5, FS_CardinalityType
<1>7. \A type : OfType(s, type) \subseteq AllIds(s)
  BY DEF OfType, AllIds
<1>8. Ids(s.components) = AllIds(s) \ {Blank}
  BY DEF Ids, AllIds, ToSet
<1> QED
  BY <1>5, <1>6, <1>7, <1>8

\* Where no id stands twice the type of a component is that of its id.
LEMMA TypeOfId ==
  ASSUME NEW s, IsSnapshot(s), NEW type, NEW id \in Ids(s.components)
  PROVE  /\ TypeOf(s, id) = type => id \in OfType(s, type)
         /\ NoneRepeated(s.components) /\ id \in OfType(s, type) => TypeOf(s, id) = type
<1> DEFINE cs == s.components
           i == LastWith(s, id)
<1>1. i \in DOMAIN cs /\ cs[i].id = id
  BY LastWithHasId
<1> HIDE DEF i
<1>2. TypeOf(s, id) = cs[i].type
  BY DEF TypeOf, i
<1>3. ASSUME TypeOf(s, id) = type PROVE id \in OfType(s, type)
  BY <1>1, <1>2, <1>3 DEF OfType, ToSet
<1>4. ASSUME NoneRepeated(cs), id \in OfType(s, type) PROVE TypeOf(s, id) = type
  BY <1>1, <1>2, <1>4 DEF OfType, ToSet, NoneRepeated
<1> QED
  BY <1>3, <1>4

\* No id stands twice, said of the positions before each.
LEMMA RepeatedMeans ==
  ASSUME NEW list, IsList(list)
  PROVE  NoneRepeated(list) <=> \A i \in DOMAIN list : list[i].id # Blank /\ i \notin Repeated(list)
<1>1. Len(list) \in Nat /\ DOMAIN list = 1 .. Len(list)
  BY DEF IsList
<1>2. ASSUME NoneRepeated(list), NEW i \in DOMAIN list PROVE list[i].id # Blank /\ i \notin Repeated(list)
  BY <1>1, <1>2 DEF NoneRepeated, Repeated
<1>3. ASSUME \A i \in DOMAIN list : list[i].id # Blank /\ i \notin Repeated(list)
      PROVE  NoneRepeated(list)
  <2>1. ASSUME NEW i \in DOMAIN list, NEW j \in DOMAIN list, list[i].id = list[j].id, i < j PROVE FALSE
    BY <1>1, <1>3, <2>1 DEF Repeated
  <2>2. \A i, j \in DOMAIN list : list[i].id = list[j].id => i = j
    <3> SUFFICES ASSUME NEW i \in DOMAIN list, NEW j \in DOMAIN list, list[i].id = list[j].id PROVE i = j
      OBVIOUS
    <3>1. ~(i < j) /\ ~(j < i)
      BY <2>1
    <3> QED
      BY <1>1, <3>1
  <2> QED
    BY <1>3, <2>2 DEF NoneRepeated
<1> QED
  BY <1>2, <1>3

\* What the topology provider searches are all the connections.
LEMMA LinksAreSteps ==
  ASSUME NEW s, IsSnapshot(s), NoneRepeated(s.components),
         SnapshotSteps(s) \subseteq {pair \in AllIds(s) \X AllIds(s) : pair[1] # pair[2]}
  PROVE  Links(s) = SnapshotSteps(s) /\ Ids(s.components) = AllIds(s)
<1>1. Blank \notin AllIds(s)
  BY DEF NoneRepeated, AllIds, ToSet
<1>2. Ids(s.components) = AllIds(s)
  BY <1>1, IdsAreFinite
<1> QED
  BY <1>2 DEF Links, SnapshotSteps

\* What the providers find clean is a workflow,
LEMMA CleanIsWorkflow ==
  ASSUME NEW s, IsSnapshot(s), StructureClean(s), ConnectionClean(s), TopologyClean(s)
  PROVE  IsWorkflow(s)
<1> DEFINE cs == s.components
           ks == s.connections
<1>1. NoneRepeated(cs) /\ NoneRepeated(ks)
  BY RepeatedMeans DEF StructureClean, ConnectionClean, IsSnapshot
<1>2. \A c \in ToSet(cs) : c.width > 0 /\ c.height > 0
  <2> SUFFICES ASSUME NEW i \in DOMAIN cs PROVE cs[i].width > 0 /\ cs[i].height > 0
    BY DEF ToSet
  <2>1. cs[i].width \in Int /\ cs[i].height \in Int
    BY DEF IsSnapshot
  <2>2. ~(cs[i].width <= 0) /\ ~(cs[i].height <= 0)
    BY DEF StructureClean
  <2> QED
    BY <2>1, <2>2
<1>3. Ids(cs) = AllIds(s)
  <2>1. Blank \notin AllIds(s)
    BY <1>1 DEF NoneRepeated, AllIds, ToSet
  <2> QED
    BY <2>1, IdsAreFinite
<1>4. SnapshotSteps(s) \subseteq {pair \in AllIds(s) \X AllIds(s) : pair[1] # pair[2]}
  <2> SUFFICES ASSUME NEW i \in DOMAIN ks
               PROVE  /\ ks[i].source \in AllIds(s) /\ ks[i].target \in AllIds(s)
                      /\ ks[i].source # ks[i].target
    BY DEF SnapshotSteps, ToSet
  <2>1. /\ {ks[i].source, ks[i].target} \subseteq Ids(cs)
        /\ ~(ks[i].source = ks[i].target /\ ks[i].source # Blank)
    BY DEF ConnectionClean
  <2>2. Blank \notin Ids(cs)
    BY DEF Ids
  <2> QED
    BY <1>3, <2>1, <2>2
<1>5. \A k \in ToSet(ks) : {k.sourceSide, k.targetSide} \subseteq -1..3
  BY DEF ConnectionClean, ToSet, Sides
<1>6. \A i \in DOMAIN cs : cs[i].id # Blank
  BY DEF StructureClean
<1>7. Cardinality(OfType(s, "start")) = 1 /\ Cardinality(OfType(s, "stop")) = 1
  BY <1>6, OneOfType DEF StructureClean
<1>8. Links(s) = SnapshotSteps(s)
  BY <1>1, <1>4, LinksAreSteps
<1>9. AllIds(s) = ReachedIn(SnapshotSteps(s), OfType(s, "start"), Cardinality(AllIds(s)))
  <2> DEFINE i == CHOOSE i \in Named(s, "start") : TRUE
             N == Cardinality(AllIds(s))
  <2>1. Cardinality(Named(s, "start")) = 1
    BY DEF StructureClean
  <2>2. i \in Named(s, "start")
    BY <2>1, FS_EmptySet
  <2>3. OfType(s, "start") = {cs[i].id}
    <3> HIDE DEF i
    <3> QED
      BY <1>6, <2>1, <2>2, OneOfType
  <2>4. AllIds(s) \subseteq ReachedFrom(s, cs[i].id)
    BY <1>3, <2>1 DEF TopologyClean
  <2>5. ReachedFrom(s, cs[i].id) = ReachedIn(SnapshotSteps(s), OfType(s, "start"), N)
    <3> HIDE DEF i
    <3> QED
      BY <1>3, <1>8, <2>3 DEF ReachedFrom
  <2>6. ReachedIn(SnapshotSteps(s), OfType(s, "start"), N) \subseteq AllIds(s)
    <3>1. N \in Nat /\ OfType(s, "start") \subseteq AllIds(s)
      BY IdsAreFinite
    <3>2. Onward(SnapshotSteps(s), AllIds(s)) \subseteq AllIds(s)
      BY <1>4 DEF Onward
    <3> HIDE DEF N
    <3> QED
      BY <3>1, <3>2, LeastClosed
  <2> QED
    BY <2>4, <2>5, <2>6
<1>10. AllIds(s) \ OfType(s, "stop") \subseteq {step[1] : step \in SnapshotSteps(s)}
  <2> SUFFICES ASSUME NEW id \in AllIds(s), id \notin OfType(s, "stop")
               PROVE  \E step \in SnapshotSteps(s) : step[1] = id
    OBVIOUS
  <2>1. TypeOf(s, id) # "stop"
    BY <1>3, TypeOfId
  <2> QED
    BY <1>3, <1>8, <2>1 DEF TopologyClean
<1> QED
  BY <1>1, <1>2, <1>4, <1>5, <1>7, <1>9, <1>10, WorkflowMeans

\* and a workflow is clean for them all, with no component alone.
LEMMA WorkflowIsClean ==
  ASSUME NEW s, IsSnapshot(s), IsWorkflow(s)
  PROVE  StructureClean(s) /\ ConnectionClean(s) /\ TopologyClean(s) /\ NoneAlone(s)
<1> DEFINE cs == s.components
           ks == s.connections
           N == Cardinality(AllIds(s))
<1>1. /\ NoneRepeated(cs) /\ NoneRepeated(ks)
      /\ \A c \in ToSet(cs) : c.width > 0 /\ c.height > 0
      /\ SnapshotSteps(s) \subseteq {pair \in AllIds(s) \X AllIds(s) : pair[1] # pair[2]}
      /\ \A k \in ToSet(ks) : {k.sourceSide, k.targetSide} \subseteq -1..3
      /\ Cardinality(OfType(s, "start")) = 1 /\ Cardinality(OfType(s, "stop")) = 1
      /\ AllIds(s) = ReachedIn(SnapshotSteps(s), OfType(s, "start"), N)
      /\ AllIds(s) \ OfType(s, "stop") \subseteq {step[1] : step \in SnapshotSteps(s)}
  BY WorkflowMeans
<1>2. \A i \in DOMAIN cs : cs[i].id # Blank /\ i \notin Repeated(cs)
  BY <1>1, RepeatedMeans DEF IsSnapshot
<1>3. \A i \in DOMAIN ks : ks[i].id # Blank /\ i \notin Repeated(ks)
  BY <1>1, RepeatedMeans DEF IsSnapshot
<1>4. Links(s) = SnapshotSteps(s) /\ Ids(cs) = AllIds(s)
  BY <1>1, LinksAreSteps
<1>5. Cardinality(Named(s, "start")) = 1 /\ Cardinality(Named(s, "stop")) = 1
  BY <1>1, <1>2, OneOfType
<1>6. StructureClean(s)
  <2>1. \A i \in DOMAIN cs : ~(cs[i].width <= 0) /\ ~(cs[i].height <= 0)
    <3> SUFFICES ASSUME NEW i \in DOMAIN cs PROVE ~(cs[i].width <= 0) /\ ~(cs[i].height <= 0)
      OBVIOUS
    <3>1. cs[i].width \in Int /\ cs[i].height \in Int
      BY DEF IsSnapshot
    <3>2. cs[i].width > 0 /\ cs[i].height > 0
      BY <1>1 DEF ToSet
    <3> QED
      BY <3>1, <3>2
  <2> QED
    BY <1>2, <1>5, <2>1 DEF StructureClean
<1>7. ConnectionClean(s)
  <2> SUFFICES ASSUME NEW i \in DOMAIN ks
               PROVE  /\ ~(ks[i].source = ks[i].target /\ ks[i].source # Blank)
                      /\ {ks[i].sourceSide, ks[i].targetSide} \subseteq Sides
                      /\ {ks[i].source, ks[i].target} \subseteq Ids(cs)
    BY <1>3 DEF ConnectionClean
  <2>1. <<ks[i].source, ks[i].target>> \in SnapshotSteps(s)
    BY DEF SnapshotSteps, ToSet
  <2>2. ks[i].source \in AllIds(s) /\ ks[i].target \in AllIds(s) /\ ks[i].source # ks[i].target
    BY <1>1, <2>1
  <2>3. {ks[i].sourceSide, ks[i].targetSide} \subseteq Sides
    BY <1>1 DEF ToSet, Sides
  <2> QED
    BY <1>4, <2>2, <2>3
<1>8. ASSUME NEW id \in Ids(cs), \A l \in Links(s) : l[1] # id
      PROVE  TypeOf(s, id) = "stop"
  BY <1>1, <1>4, <1>8, TypeOfId
<1>9. ASSUME NEW id \in Ids(cs), \A l \in Links(s) : l[2] # id
      PROVE  TypeOf(s, id) = "start"
  <2> DEFINE C == OfType(s, "start") \cup {l[2] : l \in SnapshotSteps(s)}
  <2>1. N \in Nat
    BY IdsAreFinite
  <2>2. OfType(s, "start") \subseteq C /\ Onward(SnapshotSteps(s), C) \subseteq C
    BY DEF Onward
  <2>3. AllIds(s) \subseteq C
    <3> HIDE DEF C, N
    <3> QED
      BY <1>1, <2>1, <2>2, LeastClosed
  <2>4. id \in OfType(s, "start")
    BY <1>4, <1>9, <2>3
  <2> QED
    BY <1>1, <2>4, TypeOfId
<1>10. Ids(cs) \subseteq ReachedFrom(s, cs[CHOOSE i \in Named(s, "start") : TRUE].id)
  <2> DEFINE i == CHOOSE i \in Named(s, "start") : TRUE
  <2>1. i \in Named(s, "start")
    BY <1>5, FS_EmptySet
  <2> HIDE DEF i
  <2>2. OfType(s, "start") = {cs[i].id}
    BY <1>2, <1>5, <2>1, OneOfType
  <2>3. ReachedFrom(s, cs[i].id) = ReachedIn(SnapshotSteps(s), OfType(s, "start"), N)
    BY <1>4, <2>2 DEF ReachedFrom
  <2>4. Ids(cs) \subseteq ReachedFrom(s, cs[i].id)
    BY <1>1, <1>4, <2>3
  <2> QED
    BY <2>4 DEF i
<1>11. TopologyClean(s)
  BY <1>8, <1>9, <1>10 DEF TopologyClean
<1>12. NoneAlone(s)
  <2> SUFFICES ASSUME NEW id \in Ids(cs), \A l \in Links(s) : id \notin {l[1], l[2]} PROVE FALSE
    BY DEF NoneAlone
  <2>1. TypeOf(s, id) = "stop"
    BY <1>8
  <2>2. TypeOf(s, id) = "start"
    BY <1>9
  <2> QED
    BY <2>1, <2>2
<1> QED
  BY <1>6, <1>7, <1>11, <1>12

\* What the verdict says of the graph, whichever providers are asked.
LEMMA VerdictOfProviders ==
  ASSUME NEW providers, NEW s, IsSnapshot(s)
  PROVE  LET kinds == {p.kind : p \in providers}
             asked == {{"workflow"}, {"structure", "connection", "topology"}}
         IN  /\ Validate(providers, s) =>
                  /\ "failing" \notin kinds
                  /\ (\E some \in asked : some \subseteq kinds) => IsWorkflow(s)
             /\ kinds \in asked /\ IsWorkflow(s) => Validate(providers, s)
<1> DEFINE kinds == {p.kind : p \in providers}
           three == {"structure", "connection", "topology"}
<1>1. ASSUME Validate(providers, s), NEW p \in providers
      PROVE  /\ p.kind # "failing"
             /\ p.kind \in {"workflow", "structure"} => StructureClean(s)
             /\ p.kind \in {"workflow", "connection"} => ConnectionClean(s)
             /\ p.kind \in {"workflow", "topology"} => TopologyClean(s)
  <2>1. Result(p, s).ok /\ \A j \in Result(p, s).issues : ~(j.severity = "error" /\ j.text)
    BY <1>1, GoodVerdict
  <2>2. p.kind # "failing"
    BY <2>1 DEF Result
  <2>3. CASE p.kind = "workflow"
    BY <2>1, <2>3, StructureErrors, ConnectionErrors, TopologyErrors DEF Result, WorkflowIssues
  <2>4. CASE p.kind = "structure"
    BY <2>1, <2>4, StructureErrors DEF Result
  <2>5. CASE p.kind = "connection"
    BY <2>1, <2>5, ConnectionErrors DEF Result
  <2>6. CASE p.kind = "topology"
    BY <2>1, <2>6, TopologyErrors DEF Result
  <2> QED
    BY <2>2, <2>3, <2>4, <2>5, <2>6
<1>2. ASSUME Validate(providers, s), {"workflow"} \subseteq kinds PROVE IsWorkflow(s)
  BY <1>1, <1>2, CleanIsWorkflow
<1>3. ASSUME Validate(providers, s), three \subseteq kinds PROVE IsWorkflow(s)
  BY <1>1, <1>3, CleanIsWorkflow
<1>4. ASSUME kinds \in {{"workflow"}, three}, IsWorkflow(s) PROVE Validate(providers, s)
  <2>1. StructureIssues(s) = {} /\ ConnectionIssues(s) = {} /\ TopologyIssues(s) = {}
    BY <1>4, WorkflowIsClean, NoIssues
  <2>2. WorkflowIssues(s) = {}
    BY <2>1 DEF WorkflowIssues
  <2>3. Bridged({}) = [ok |-> TRUE, issues |-> {}]
    BY DEF Bridged
  <2>4. ASSUME NEW p \in providers PROVE Result(p, s) = [ok |-> TRUE, issues |-> {}]
    <3>1. p.kind \in kinds
      OBVIOUS
    <3>2. p.kind \in {"workflow", "structure", "connection", "topology"}
      <4> HIDE DEF kinds
      <4> QED
        BY <1>4, <3>1
    <3> QED
      BY <2>1, <2>2, <2>3, <3>2 DEF Result
  <2>5. ValidationIssues(providers, s) = {}
    BY <2>4 DEF ValidationIssues
  <2> QED
    BY <2>5 DEF Validate, ValidationErrors
<1>5. Validate(providers, s) => "failing" \notin kinds
  BY <1>1
<1> HIDE DEF kinds
<1>6. Validate(providers, s) =>
        ((\E some \in {{"workflow"}, three} : some \subseteq kinds) => IsWorkflow(s))
  BY <1>2, <1>3
<1> QED
  BY <1>4, <1>5, <1>6 DEF kinds

\* The answer to a validation is what ValidationService makes of all results.
VerdictGiven ==
  Answered("validation") =>
    answer = [valid  |-> Validate(query.about.providers, query.about.snapshot),
              issues |-> ValidationIssues(query.about.providers, query.about.snapshot)]

\* Every reachable state has VerdictMeansWorkflow: a good verdict of the
\* workflow providers, together or one by one, is exactly a workflow, and
\* there is no good verdict while a provider fails.
THEOREM VerdictsMeanWorkflows == Spec => []VerdictMeansWorkflow
<1>1. Init => VerdictGiven
  BY DEF Init, VerdictGiven, Answered
<1>2. VerdictGiven /\ [Next]_vars => VerdictGiven'
  <2> SUFFICES ASSUME VerdictGiven, [Next]_vars PROVE VerdictGiven'
    OBVIOUS
  <2>1. CASE UNCHANGED vars
    BY <2>1 DEF vars, VerdictGiven, Answered
  <2>2. CASE AskAnything \/ Forget
    BY <2>2, AskingGives DEF Forget, VerdictGiven, Answered
  <2>3. CASE AnswerValidation
    BY <2>3 DEF AnswerValidation, Asked, Answer, GoTo, VerdictGiven
  <2>4. CASE UNCHANGED query /\ query.kind # "validation"
    BY <2>4 DEF VerdictGiven, Answered
  <2> QED
    BY <2>1, <2>2, <2>3, <2>4, StepOfKind
<1>3. VerdictGiven /\ AskedFor => VerdictMeansWorkflow
  <2> SUFFICES ASSUME VerdictGiven, AskedFor, Answered("validation") PROVE VerdictMeansWorkflow
    BY DEF VerdictMeansWorkflow
  <2> DEFINE s == query.about.snapshot
             providers == query.about.providers
  <2>1. query.about \in Validations
    BY DEF AskedFor, Answered
  <2>2. IsSnapshot(s)
    BY <2>1, SnapshotsAreLists DEF IsSnapshot
  <2>3. answer.valid = Validate(providers, s)
    BY DEF VerdictGiven
  <2> QED
    BY <2>2, <2>3, VerdictOfProviders DEF VerdictMeansWorkflow
<1> QED
  BY <1>1, <1>2, <1>3, AlwaysAskedFor, PTL DEF Spec

-----------------------------------------------------------------------------
(* Rules and policies. *)

\* The first rule that matches decides.
LEMMA FirstMatchDecides ==
  ASSUME NEW bundle, NEW x, NEW n \in Nat, Len(bundle.rules) = n,
         NEW k \in 1 .. n, RuleMatches(bundle.rules[k], x),
         \A j \in 1 .. k - 1 : ~RuleMatches(bundle.rules[j], x)
  PROVE  Evaluate(bundle, x) = bundle.rules[k].allowed
<1> DEFINE I == {i \in 1 .. n : RuleMatches(bundle.rules[i], x)}
           at == IF I # {} THEN Min(I) ELSE 0
<1>1. Evaluate(bundle, x) = IF at = 0 THEN bundle.default ELSE bundle.rules[at].allowed
  BY Zenon DEF Evaluate, SelectInSeq
<1>2. k \in I /\ \A y \in I : k =< y
  OBVIOUS
<1>3. I \subseteq Int
  OBVIOUS
<1> HIDE DEF I
<1>4. Min(I) \in I /\ \A y \in I : Min(I) =< y
  BY <1>2 DEF Min
<1>5. Min(I) = k
  <2>1. k \in Int /\ Min(I) \in Int
    BY <1>2, <1>3, <1>4
  <2>2. k <= Min(I) /\ Min(I) <= k
    BY <1>2, <1>4
  <2> QED
    BY <2>1, <2>2
<1>6. at = k /\ k # 0
  BY <1>2, <1>5
<1> HIDE DEF at
<1> QED
  BY <1>1, <1>6

\* Without one the default decides.
LEMMA NoMatchDecides ==
  ASSUME NEW bundle, NEW x, NEW n \in Nat, Len(bundle.rules) = n,
         \A j \in 1 .. n : ~RuleMatches(bundle.rules[j], x)
  PROVE  Evaluate(bundle, x) = bundle.default
<1> DEFINE I == {i \in 1 .. n : RuleMatches(bundle.rules[i], x)}
           at == IF I # {} THEN Min(I) ELSE 0
<1>1. Evaluate(bundle, x) = IF at = 0 THEN bundle.default ELSE bundle.rules[at].allowed
  BY Zenon DEF Evaluate, SelectInSeq
<1>2. at = 0
  OBVIOUS
<1> HIDE DEF at
<1> QED
  BY <1>1, <1>2

\* A rule of the packs looks at the types only.
IsPackRule(rule, source, target) ==
  /\ rule.source = source /\ rule.target = target
  /\ rule.minIncoming = Unset /\ rule.maxIncoming = Unset
  /\ rule.minOutgoing = Unset /\ rule.maxOutgoing = Unset

\* Such a rule matches by the types it names.
LEMMA PackRuleMatches ==
  ASSUME NEW source, NEW target, NEW rule, IsPackRule(rule, source, target), NEW x
  PROVE  RuleMatches(rule, x) <=> source \in {Blank, x.source} /\ target \in {Blank, x.target}
BY DEF RuleMatches, IsPackRule, Within

\* What the packs allow between the three types.
LEMMA PacksAllow ==
  ASSUME NEW source \in Types, NEW target \in Types
  PROVE  LET x == Pair(source, target)
         IN  /\ x.source = source /\ x.target = target
             /\ Evaluate(CustomizedPolicy, x) <=> target # "start" /\ source # "stop"
             /\ Evaluate(SamplePolicy, x) <=> <<source, target>> \in LeftByPacks
<1> DEFINE x == Pair(source, target)
<1>1. x.source = source /\ x.target = target
  BY DEF Pair, ContextFor, Types, Blank
<1>2. Evaluate(CustomizedPolicy, x) <=> target # "start" /\ source # "stop"
  <2> DEFINE b == CustomizedPolicy
  <2>1. /\ b.default = TRUE /\ Len(b.rules) = 2
        /\ IsPackRule(b.rules[1], Blank, "start") /\ b.rules[1].allowed = FALSE
        /\ IsPackRule(b.rules[2], "stop", Blank) /\ b.rules[2].allowed = FALSE
    BY DEF CustomizedPolicy, PackBundle, PolicyRule, IsPackRule
  <2> HIDE DEF b, x
  <2>2. /\ RuleMatches(b.rules[1], x) <=> target = "start"
        /\ RuleMatches(b.rules[2], x) <=> source = "stop"
    <3>1. \A r, f, t : IsPackRule(r, f, t) => (RuleMatches(r, x) <=> f \in {Blank, source} /\ t \in {Blank, target})
      BY <1>1, PackRuleMatches
    <3>2. source # Blank /\ target # Blank /\ Blank \notin Types
      BY DEF Types, Blank
    <3>3. RuleMatches(b.rules[1], x) <=> target = "start"
      BY <2>1, <3>1, <3>2 DEF Blank
    <3>4. RuleMatches(b.rules[2], x) <=> source = "stop"
      BY <2>1, <3>1, <3>2 DEF Blank
    <3> QED
      BY <3>3, <3>4
  <2>3. CASE target = "start"
    <3>1. Evaluate(b, x) = b.rules[1].allowed
      <4>1. \A j \in 1 .. 1 - 1 : ~RuleMatches(b.rules[j], x)
        OBVIOUS
      <4> QED
        <5>1. 2 \in Nat /\ 1 \in 1 .. 2
          OBVIOUS
        <5> QED
          BY <2>1, <2>2, <2>3, <4>1, <5>1, FirstMatchDecides
    <3> QED
      BY <2>1, <2>3, <3>1 DEF b
  <2>4. CASE target # "start" /\ source = "stop"
    <3>1. \A j \in 1 .. 2 - 1 : ~RuleMatches(b.rules[j], x)
      BY <2>2, <2>4
    <3>2. Evaluate(b, x) = b.rules[2].allowed
      <4>1. 2 \in Nat /\ 2 \in 1 .. 2
        OBVIOUS
      <4> QED
        BY <2>1, <2>2, <2>4, <3>1, <4>1, FirstMatchDecides
    <3> QED
      BY <2>1, <2>4, <3>2 DEF b
  <2>5. CASE target # "start" /\ source # "stop"
    <3>1. \A k \in 1 .. 2 : ~RuleMatches(b.rules[k], x)
      BY <2>2, <2>5
    <3>2. Evaluate(b, x) = b.default
      BY <2>1, <3>1, NoMatchDecides
    <3> QED
      BY <2>1, <2>5, <3>2 DEF b
  <2> QED
    BY <2>3, <2>4, <2>5
<1>3. Evaluate(SamplePolicy, x) <=> <<source, target>> \in LeftByPacks
  <2> DEFINE b == SamplePolicy
  <2>1. /\ Len(b.rules) = 7
        /\ IsPackRule(b.rules[1], Blank, "start") /\ b.rules[1].allowed = FALSE
        /\ IsPackRule(b.rules[2], "stop", Blank) /\ b.rules[2].allowed = FALSE
        /\ IsPackRule(b.rules[3], "start", "process") /\ b.rules[3].allowed = TRUE
        /\ IsPackRule(b.rules[4], "start", Blank) /\ b.rules[4].allowed = FALSE
        /\ IsPackRule(b.rules[5], "process", "process") /\ b.rules[5].allowed = TRUE
        /\ IsPackRule(b.rules[6], "process", "stop") /\ b.rules[6].allowed = TRUE
    BY DEF SamplePolicy, PackBundle, PolicyRule, IsPackRule
  <2> HIDE DEF b, x
  <2>2. /\ RuleMatches(b.rules[1], x) <=> target = "start"
        /\ RuleMatches(b.rules[2], x) <=> source = "stop"
        /\ RuleMatches(b.rules[3], x) <=> source = "start" /\ target = "process"
        /\ RuleMatches(b.rules[4], x) <=> source = "start"
        /\ RuleMatches(b.rules[5], x) <=> source = "process" /\ target = "process"
        /\ RuleMatches(b.rules[6], x) <=> source = "process" /\ target = "stop"
    <3>1. \A r, f, t : IsPackRule(r, f, t) => (RuleMatches(r, x) <=> f \in {Blank, source} /\ t \in {Blank, target})
      BY <1>1, PackRuleMatches
    <3>2. source # Blank /\ target # Blank /\ Blank \notin Types
      BY DEF Types, Blank
    <3> DEFINE In(a, c) == a \in {Blank, c}
    <3>9. \A a \in Types, c \in Types : In(a, c) <=> c = a
      BY <3>2
    <3> HIDE DEF In
    <3>10. /\ RuleMatches(b.rules[3], x) <=> In("start", source) /\ In("process", target)
           /\ RuleMatches(b.rules[5], x) <=> In("process", source) /\ In("process", target)
           /\ RuleMatches(b.rules[6], x) <=> In("process", source) /\ In("stop", target)
      BY <2>1, <3>1 DEF In
    <3>3. RuleMatches(b.rules[1], x) <=> target = "start"
      BY <2>1, <3>1, <3>2 DEF Blank
    <3>4. RuleMatches(b.rules[2], x) <=> source = "stop"
      BY <2>1, <3>1, <3>2 DEF Blank
    <3>5. RuleMatches(b.rules[3], x) <=> source = "start" /\ target = "process"
      BY <3>9, <3>10 DEF Types
    <3>6. RuleMatches(b.rules[4], x) <=> source = "start"
      BY <2>1, <3>1, <3>2 DEF Blank
    <3>7. RuleMatches(b.rules[5], x) <=> source = "process" /\ target = "process"
      BY <3>9, <3>10 DEF Types
    <3>8. RuleMatches(b.rules[6], x) <=> source = "process" /\ target = "stop"
      BY <3>9, <3>10 DEF Types
    <3> QED
      BY <3>3, <3>4, <3>5, <3>6, <3>7, <3>8
  <2>3. /\ ~b.rules[1].allowed /\ ~b.rules[2].allowed /\ b.rules[3].allowed
        /\ ~b.rules[4].allowed /\ b.rules[5].allowed /\ b.rules[6].allowed
    BY <2>1
  <2>4. \E k \in 1 .. 6 : /\ RuleMatches(b.rules[k], x)
                          /\ \A j \in 1 .. k - 1 : ~RuleMatches(b.rules[j], x)
                          /\ b.rules[k].allowed <=> <<source, target>> \in LeftByPacks
    <3>1. CASE target = "start"
      BY <2>2, <2>3, <3>1 DEF LeftByPacks
    <3>2. CASE target # "start" /\ source = "stop"
      BY <2>2, <2>3, <3>2 DEF LeftByPacks
    <3>3. CASE source = "start" /\ target = "process"
      BY <2>2, <2>3, <3>3 DEF LeftByPacks
    <3>4. CASE source = "start" /\ target = "stop"
      BY <2>2, <2>3, <3>4 DEF LeftByPacks
    <3>5. CASE source = "process" /\ target = "process"
      BY <2>2, <2>3, <3>5 DEF LeftByPacks
    <3>6. CASE source = "process" /\ target = "stop"
      BY <2>2, <2>3, <3>6 DEF LeftByPacks
    <3> QED
      BY <3>1, <3>2, <3>3, <3>4, <3>5, <3>6 DEF Types
  <2>5. PICK k \in 1 .. 6 : /\ RuleMatches(b.rules[k], x)
                            /\ \A j \in 1 .. k - 1 : ~RuleMatches(b.rules[j], x)
                            /\ b.rules[k].allowed <=> <<source, target>> \in LeftByPacks
    BY <2>4
  <2>6. Evaluate(b, x) = b.rules[k].allowed
    <3>1. 7 \in Nat /\ k \in 1 .. 7
      OBVIOUS
    <3> QED
      BY <2>1, <2>5, <3>1, FirstMatchDecides
  <2> QED
    BY <2>5, <2>6 DEF b
<1> QED
  BY <1>1, <1>2, <1>3

\* The customized pack, the rules and the sample pack together.
LEMMA AllPoliciesAllow ==
  ASSUME NEW rules, NEW source \in Types, NEW target \in Types
  PROVE  MayConnect(<<CustomizedPolicy, [kind |-> "rules", rules |-> rules], SamplePolicy>>,
                    Pair(source, target))
           <=> <<source, target>> \in LeftByPacks /\ CanConnect(rules, source, target)
<1> DEFINE x == Pair(source, target)
           policies == <<CustomizedPolicy, [kind |-> "rules", rules |-> rules], SamplePolicy>>
<1>1. /\ x.source = source /\ x.target = target
      /\ Evaluate(CustomizedPolicy, x) <=> target # "start" /\ source # "stop"
      /\ Evaluate(SamplePolicy, x) <=> <<source, target>> \in LeftByPacks
  BY PacksAllow
<1> HIDE DEF x
<1>2. CustomizedPolicy.kind = "bundle" /\ SamplePolicy.kind = "bundle"
  BY DEF CustomizedPolicy, SamplePolicy, PackBundle
<1>3. /\ DOMAIN policies = 1 .. 3 /\ policies[1] = CustomizedPolicy
      /\ policies[2] = [kind |-> "rules", rules |-> rules] /\ policies[3] = SamplePolicy
  OBVIOUS
<1> HIDE DEF policies
<1>4. /\ Allows(policies[1], x) <=> Evaluate(CustomizedPolicy, x)
      /\ Allows(policies[2], x) <=> CanConnect(rules, source, target)
      /\ Allows(policies[3], x) <=> Evaluate(SamplePolicy, x)
  BY <1>1, <1>2, <1>3 DEF Allows
<1>5. MayConnect(policies, x) <=>
        Allows(policies[1], x) /\ Allows(policies[2], x) /\ Allows(policies[3], x)
  BY <1>3 DEF MayConnect
<1>6. <<source, target>> \in LeftByPacks => target # "start" /\ source # "stop"
  BY DEF LeftByPacks
<1> QED
  BY <1>1, <1>4, <1>5, <1>6 DEF x, policies

\* What a document says of a pair of types: its last entry for the pair, or the
\* default.
Said(doc, pair) ==
  LET entries == Entries(doc.connections)
      naming  == {i \in DOMAIN entries : <<entries[i].source, entries[i].target>> = pair}
  IN  IF naming = {} THEN doc.defaultConnectionAllow # FALSE ELSE entries[Max(naming)].allow = TRUE

\* The position of the last entry that names a pair decides, if no entry is
\* wrong.
LEMMA TableDecides ==
  ASSUME NEW q \in RuleQueries, Compile(q.document).ok, NEW source \in Types, NEW target \in Types
  PROVE  CanConnect(Compile(q.document).descriptor, source, target) <=> Said(q.document, <<source, target>>)
<1> DEFINE doc     == q.document
           entries == Entries(doc.connections)
           rules   == Compile(doc).descriptor
           naming  == {i \in DOMAIN entries : <<entries[i].source, entries[i].target>> = <<source, target>>}
<1>1. doc \notin {Missing, Mistyped} /\ ~Wrong(doc)
  BY DEF Compile
<1>2. /\ rules.default = Flag(doc.defaultConnectionAllow, TRUE)
      /\ rules.connections = ConnectionTable(entries)
  BY <1>1 DEF Compile
<1>3. /\ doc.defaultConnectionAllow # Mistyped
      /\ doc.connections # Mistyped
      /\ \A i \in DOMAIN entries : ~ConnectionWrong(entries[i])
  BY <1>1 DEF Wrong, FlagWrong, ToSet
<1>4. doc.defaultConnectionAllow \in BOOLEAN \cup {Missing}
  BY <1>1, <1>3, RulesAreParsed
<1>5. IsList(entries) /\ \A i \in DOMAIN entries : entries[i].allow \in BOOLEAN \cup {Missing}
  <2>1. CASE doc.connections = Missing
    <3>1. entries = <<>>
      BY <2>1 DEF Entries
    <3> HIDE DEF entries
    <3> QED
      BY <3>1 DEF IsList
  <2>2. CASE doc.connections # Missing
    BY <1>1, <1>3, <2>2, RulesAreParsed DEF Entries, ConnectionWrong, FlagWrong
  <2> QED
    BY <2>1, <2>2
<1> HIDE DEF entries
<1> DEFINE PairOf(i) == <<entries[i].source, entries[i].target>>
           kept == {i \in DOMAIN entries : ConnectionKept(entries[i])}
<1>6. naming = {i \in kept : PairOf(i) = <<source, target>>}
  BY <1>3 DEF ConnectionWrong, TextWrong, Text, Types, Blank, ConnectionKept
<1>7. ConnectionTable(entries) =
        [pair \in {PairOf(i) : i \in kept} |->
           Flag(entries[Max({i \in kept : PairOf(i) = pair})].allow, FALSE)]
  BY DEF ConnectionTable
<1>8. CASE naming = {}
  <2>1. <<source, target>> \notin {PairOf(i) : i \in kept}
    BY <1>6, <1>8
  <2>2. <<source, target>> \notin DOMAIN rules.connections
    <3> HIDE DEF PairOf, kept
    <3> QED
      BY <1>2, <1>7, <2>1
  <2>3. CanConnect(rules, source, target) = Flag(doc.defaultConnectionAllow, TRUE)
    <3> HIDE DEF rules, doc
    <3> QED
      BY <1>2, <2>2 DEF CanConnect
  <2>4. Flag(doc.defaultConnectionAllow, TRUE) <=> doc.defaultConnectionAllow # FALSE
    <3> DEFINE d == doc.defaultConnectionAllow
    <3> HIDE DEF d
    <3>1. d \in BOOLEAN \cup {Missing} /\ d # Mistyped
      BY <1>3, <1>4 DEF d
    <3>2. Flag(d, TRUE) <=> d # FALSE
      BY <3>1, MarkersAreNoFlags DEF Flag
    <3> QED
      BY <3>2 DEF d
  <2> QED
    BY <1>8, <2>3, <2>4 DEF entries, Said
<1>9. CASE naming # {}
  <2> DEFINE m == Max(naming)
  <2>1. naming \in SUBSET (1 .. Len(entries)) /\ Len(entries) \in Nat
    BY <1>5 DEF IsList
  <2>2. m \in naming
    <3> HIDE DEF naming
    <3> QED
      BY <1>9, <2>1, MaxOfSet
  <2>3. <<source, target>> \in {PairOf(i) : i \in kept}
    BY <1>6, <1>9
  <2>4. /\ <<source, target>> \in DOMAIN rules.connections
        /\ rules.connections[<<source, target>>] =
             Flag(entries[Max({i \in kept : PairOf(i) = <<source, target>>})].allow, FALSE)
    <3> HIDE DEF PairOf, kept, rules
    <3> QED
      BY <1>2, <1>7, <2>3
  <2>5. rules.connections[<<source, target>>] = Flag(entries[m].allow, FALSE)
    BY <1>6, <2>4
  <2>6. CanConnect(rules, source, target) = Flag(entries[m].allow, FALSE)
    <3> HIDE DEF rules, doc, naming, kept, PairOf
    <3> QED
      BY <2>4, <2>5 DEF CanConnect
  <2> DEFINE d == entries[m].allow
  <2>7. d \in BOOLEAN \cup {Missing} /\ d # Mistyped
    BY <1>3, <1>5, <2>2 DEF ConnectionWrong, FlagWrong
  <2> HIDE DEF d
  <2>8. Flag(d, FALSE) <=> d = TRUE
    BY <2>7, MarkersAreNoFlags DEF Flag
  <2> QED
    BY <1>9, <2>6, <2>8 DEF d, entries, Said
<1> QED
  BY <1>8, <1>9

\* A pair of a name and a value for each property of a bundle.
Offered(bundle) ==
  LET t      == bundle.transport
      valid  == TransportIsValid(t)
      KeyIf(key, value) == IF valid /\ value # Blank THEN key ELSE Blank
  IN  << <<KeyIf("payloadSchemaId", t.payloadSchemaId), t.payloadSchemaId>>,
         <<KeyIf("payloadType", t.payloadType), t.payloadType>>,
         <<bundle.typeKey, bundle.typeValue>>,
         <<"transportMode", "broadcast">>,
         <<"mergeHint", "preserve-per-edge">> >>

\* One of them is added,
ByOffer(bundle, i, f) == AddedTo(f, Offered(bundle)[i][1], Offered(bundle)[i][2])

\* and all, one after the other.
LEMMA BundleOffers ==
  ASSUME NEW bundle, NEW f
  PROVE  NormalizedByBundle(bundle, f)
           = ByOffer(bundle, 5, ByOffer(bundle, 4, ByOffer(bundle, 3, ByOffer(bundle, 2, ByOffer(bundle, 1, f)))))
<1> DEFINE Step(i, a) == ByOffer(bundle, i, a)
           Body(g) == [s \in SUBSET (1 .. 5) |->
                         IF s = {} THEN f ELSE LET x == Max(s) IN Step(x, g[s \ {x}])]
           it == CHOOSE g : g = Body(g)
           A1(s) == IF 1 \in s THEN Step(1, f) ELSE f
           A2(s) == IF 2 \in s THEN Step(2, A1(s)) ELSE A1(s)
           A3(s) == IF 3 \in s THEN Step(3, A2(s)) ELSE A2(s)
           A4(s) == IF 4 \in s THEN Step(4, A3(s)) ELSE A3(s)
           A5(s) == IF 5 \in s THEN Step(5, A4(s)) ELSE A4(s)
           jt == [s \in SUBSET (1 .. 5) |-> A5(s)]
<1>1. NormalizedByBundle(bundle, f) = it[1 .. 5]
  <2> DEFINE list == Offered(bundle)
  <2>1. NormalizedByBundle(bundle, f) =
          FoldLeft(LAMBDA acc, added : AddedTo(acc, added[1], added[2]), f, list)
    BY DEF NormalizedByBundle, Offered
  <2>2. DOMAIN list = 1 .. 5
    BY DEF Offered
  <2>3. \A i, a : Step(i, a) = AddedTo(a, list[i][1], list[i][2])
    BY DEF ByOffer
  <2> HIDE DEF list
  <2> QED
    BY <2>1, <2>2 DEF FoldLeft, MapThenFoldSet, ByOffer, list
<1> HIDE DEF Step
<1>2. \A s \in SUBSET (1 .. 5) : jt[s] = IF s = {} THEN f ELSE Step(Max(s), jt[s \ {Max(s)}])
  <2>1. \A s :
        /\ A1(s) = IF 1 \in s THEN Step(1, f) ELSE f
        /\ A2(s) = IF 2 \in s THEN Step(2, A1(s)) ELSE A1(s)
        /\ A3(s) = IF 3 \in s THEN Step(3, A2(s)) ELSE A2(s)
        /\ A4(s) = IF 4 \in s THEN Step(4, A3(s)) ELSE A3(s)
        /\ A5(s) = IF 5 \in s THEN Step(5, A4(s)) ELSE A4(s)
    OBVIOUS
  <2>2. \A s \in SUBSET (1 .. 5) : jt[s] = A5(s)
    OBVIOUS
  <2> HIDE DEF jt, A1, A2, A3, A4, A5
  <2>3. jt[{}] = f
    <3>1. {} \in SUBSET (1 .. 5)
      OBVIOUS
    <3>2. A1({}) = f /\ A2({}) = A1({}) /\ A3({}) = A2({}) /\ A4({}) = A3({}) /\ A5({}) = A4({})
      BY <2>1
    <3> QED
      BY <2>2, <3>1, <3>2
  <2>4. ASSUME NEW t \in SUBSET (1 .. 5), t # {}
        PROVE  jt[t] = Step(Max(t), jt[t \ {Max(t)}])
    <3> DEFINE m == Max(t)
               r == t \ {m}
    <3>1. m \in t /\ \A i \in t : i <= m
      BY <2>4, MaxOfSet, 5 \in Nat
    <3> HIDE DEF m
    <3>2. /\ m \in 1 .. 5 /\ m \notin r /\ r \in SUBSET (1 .. 5)
          /\ \A i \in 1 .. 5 : i # m => (i \in t <=> i \in r)
          /\ \A i \in 1 .. 5 : i > m => i \notin t
      BY <3>1
    <3> HIDE DEF r
    <3>3. A1(t) = IF m <= 1 THEN Step(m, A1(r)) ELSE A1(r)
      BY <2>1, <3>1, <3>2
    <3>4. A2(t) = IF m <= 2 THEN Step(m, A2(r)) ELSE A2(r)
      BY <2>1, <3>1, <3>2, <3>3
    <3>5. A3(t) = IF m <= 3 THEN Step(m, A3(r)) ELSE A3(r)
      BY <2>1, <3>1, <3>2, <3>4
    <3>6. A4(t) = IF m <= 4 THEN Step(m, A4(r)) ELSE A4(r)
      BY <2>1, <3>1, <3>2, <3>5
    <3>7. A5(t) = IF m <= 5 THEN Step(m, A5(r)) ELSE A5(r)
      BY <2>1, <3>1, <3>2, <3>6
    <3>8. jt[t] = A5(t) /\ jt[r] = A5(r)
      BY <2>2, <3>2
    <3> QED
      BY <3>2, <3>7, <3>8, SMTT(60) DEF m, r
  <2> QED
    BY <2>3, <2>4
<1>3. it = Body(it)
  <2>1. jt = Body(jt)
    BY <1>2
  <2> HIDE DEF Body
  <2> QED
    BY <2>1
<1>4. \A s \in SUBSET (1 .. 5) : it[s] = IF s = {} THEN f ELSE Step(Max(s), it[s \ {Max(s)}])
  <2> HIDE DEF it
  <2> QED
    BY <1>3
<1> HIDE DEF it
<1>5. it[1 .. 0] = f
  BY <1>4
<1>6. \A i \in 1 .. 5 : it[1 .. i] = Step(i, it[1 .. i - 1])
  <2> SUFFICES ASSUME NEW i \in 1 .. 5 PROVE it[1 .. i] = Step(i, it[1 .. i - 1])
    OBVIOUS
  <2>1. 1 .. i \in SUBSET (1 .. 5) /\ 1 .. i # {} /\ Max(1 .. i) = i /\ (1 .. i) \ {i} = 1 .. i - 1
    BY MaxOfPrefix, 5 \in Nat
  <2> QED
    BY <1>4, <2>1
<1>7. it[1 .. 5] = Step(5, Step(4, Step(3, Step(2, Step(1, f)))))
  BY <1>5, <1>6
<1> QED
  BY <1>1, <1>7 DEF Step

\* A value is added under a name that has none.
LEMMA AddedToGives ==
  ASSUME NEW a, NEW key, key # Blank, NEW value
  PROVE  LET g == AddedTo(a, key, value)
         IN  /\ DOMAIN g = DOMAIN a \cup {key}
             /\ \A name \in DOMAIN g : g[name] = IF name \in DOMAIN a THEN a[name] ELSE value
             /\ key \in DOMAIN a => g = a
<1>1. CASE key \in DOMAIN a
  BY <1>1 DEF AddedTo
<1>2. CASE key \notin DOMAIN a
  BY <1>2 DEF AddedTo
<1> QED
  BY <1>1, <1>2

\* What the bundle of a pack gives to properties f that do not have it.
GivenBy(f, g) ==
  /\ DOMAIN g = DOMAIN f \cup DOMAIN GivenByPacks
  /\ \A name \in DOMAIN g : g[name] = IF name \in DOMAIN f THEN f[name] ELSE GivenByPacks[name]
  /\ DOMAIN GivenByPacks \subseteq DOMAIN f => g = f

LEMMA PackGives ==
  ASSUME NEW default, NEW rules, NEW f
  PROVE  GivenBy(f, NormalizedByBundle(PackBundle(default, rules), f))
<1> DEFINE bundle == PackBundle(default, rules)
           f3 == AddedTo(f, "type", "flow")
           f4 == AddedTo(f3, "transportMode", "broadcast")
           f5 == AddedTo(f4, "mergeHint", "preserve-per-edge")
<1>1. NormalizedByBundle(bundle, f) = f5
  <2>1. /\ bundle.typeKey = "type" /\ bundle.typeValue = "flow"
        /\ bundle.transport.payloadSchemaId = Blank /\ bundle.transport.payloadType = Blank
    BY DEF PackBundle, NoTransport
  <2> HIDE DEF bundle
  <2>2. /\ Offered(bundle)[1] = <<Blank, Blank>> /\ Offered(bundle)[2] = <<Blank, Blank>>
        /\ Offered(bundle)[3] = <<"type", "flow">> /\ Offered(bundle)[4] = <<"transportMode", "broadcast">>
        /\ Offered(bundle)[5] = <<"mergeHint", "preserve-per-edge">>
    BY <2>1 DEF Offered
  <2>3. \A a : AddedTo(a, Blank, Blank) = a
    BY DEF AddedTo
  <2> QED
    BY <2>2, <2>3, BundleOffers DEF ByOffer
<1>2. "type" # Blank /\ "transportMode" # Blank /\ "mergeHint" # Blank
  BY DEF Blank
<1>3. /\ DOMAIN GivenByPacks = {"type", "transportMode", "mergeHint"}
      /\ GivenByPacks["type"] = "flow" /\ GivenByPacks["transportMode"] = "broadcast"
      /\ GivenByPacks["mergeHint"] = "preserve-per-edge"
  BY DEF GivenByPacks
<1>4. /\ DOMAIN f3 = DOMAIN f \cup {"type"}
      /\ \A name \in DOMAIN f3 : f3[name] = IF name \in DOMAIN f THEN f[name] ELSE "flow"
      /\ "type" \in DOMAIN f => f3 = f
  BY <1>2, AddedToGives
<1> HIDE DEF f3
<1>5. /\ DOMAIN f4 = DOMAIN f3 \cup {"transportMode"}
      /\ \A name \in DOMAIN f4 : f4[name] = IF name \in DOMAIN f3 THEN f3[name] ELSE "broadcast"
      /\ "transportMode" \in DOMAIN f3 => f4 = f3
  BY <1>2, AddedToGives
<1> HIDE DEF f4
<1>6. /\ DOMAIN f5 = DOMAIN f4 \cup {"mergeHint"}
      /\ \A name \in DOMAIN f5 : f5[name] = IF name \in DOMAIN f4 THEN f4[name] ELSE "preserve-per-edge"
      /\ "mergeHint" \in DOMAIN f4 => f5 = f4
  BY <1>2, AddedToGives
<1> HIDE DEF f5, bundle
<1>7. GivenBy(f, f5)
  <2> HIDE DEF GivenByPacks
  <2> QED
    BY <1>3, <1>4, <1>5, <1>6 DEF GivenBy
<1> QED
  BY <1>1, <1>7 DEF bundle

\* What one policy makes of the properties, whichever kind it is,
ByPolicy(pack, f) ==
  IF pack.kind = "rules" THEN NormalizedByRules(pack.rules, f) ELSE NormalizedByBundle(pack, f)

\* and three, one after the other.
LEMMA PoliciesGive ==
  ASSUME NEW policies, DOMAIN policies = 1 .. 3, NEW f
  PROVE  NormalizedConnectionProperties(policies, f)
           = ByPolicy(policies[3], ByPolicy(policies[2], ByPolicy(policies[1], f)))
<1> DEFINE Step(i, a) == ByPolicy(policies[i], a)
           Body(g) == [s \in SUBSET (1 .. 3) |->
                         IF s = {} THEN f ELSE LET x == Max(s) IN Step(x, g[s \ {x}])]
           it == CHOOSE g : g = Body(g)
           A1(s) == IF 1 \in s THEN Step(1, f) ELSE f
           A2(s) == IF 2 \in s THEN Step(2, A1(s)) ELSE A1(s)
           A3(s) == IF 3 \in s THEN Step(3, A2(s)) ELSE A2(s)
           jt == [s \in SUBSET (1 .. 3) |-> A3(s)]
<1>1. NormalizedConnectionProperties(policies, f) = it[1 .. 3]
  BY Zenon DEF NormalizedConnectionProperties, FoldLeft, MapThenFoldSet, ByPolicy
<1> HIDE DEF Step
<1>2. \A s \in SUBSET (1 .. 3) : jt[s] = IF s = {} THEN f ELSE Step(Max(s), jt[s \ {Max(s)}])
  <2>1. \A s :
        /\ A1(s) = IF 1 \in s THEN Step(1, f) ELSE f
        /\ A2(s) = IF 2 \in s THEN Step(2, A1(s)) ELSE A1(s)
        /\ A3(s) = IF 3 \in s THEN Step(3, A2(s)) ELSE A2(s)
    OBVIOUS
  <2>2. \A s \in SUBSET (1 .. 3) : jt[s] = A3(s)
    OBVIOUS
  <2> HIDE DEF jt, A1, A2, A3
  <2>3. jt[{}] = f
    <3>1. {} \in SUBSET (1 .. 3)
      OBVIOUS
    <3>2. A1({}) = f /\ A2({}) = A1({}) /\ A3({}) = A2({})
      BY <2>1
    <3> QED
      BY <2>2, <3>1, <3>2
  <2>4. ASSUME NEW t \in SUBSET (1 .. 3), t # {}
        PROVE  jt[t] = Step(Max(t), jt[t \ {Max(t)}])
    <3> DEFINE m == Max(t)
               r == t \ {m}
    <3>1. m \in t /\ \A i \in t : i <= m
      BY <2>4, MaxOfSet, 3 \in Nat
    <3> HIDE DEF m
    <3>2. /\ m \in 1 .. 3 /\ m \notin r /\ r \in SUBSET (1 .. 3)
          /\ \A i \in 1 .. 3 : i # m => (i \in t <=> i \in r)
          /\ \A i \in 1 .. 3 : i > m => i \notin t
      BY <3>1
    <3> HIDE DEF r
    <3>3. A1(t) = IF m <= 1 THEN Step(m, A1(r)) ELSE A1(r)
      BY <2>1, <3>1, <3>2
    <3>4. A2(t) = IF m <= 2 THEN Step(m, A2(r)) ELSE A2(r)
      BY <2>1, <3>1, <3>2, <3>3
    <3>5. A3(t) = IF m <= 3 THEN Step(m, A3(r)) ELSE A3(r)
      BY <2>1, <3>1, <3>2, <3>4
    <3>6. jt[t] = A3(t) /\ jt[r] = A3(r)
      BY <2>2, <3>2
    <3> QED
      BY <3>2, <3>5, <3>6 DEF m, r
  <2> QED
    BY <2>3, <2>4
<1>3. it = Body(it)
  <2>1. jt = Body(jt)
    BY <1>2
  <2> HIDE DEF Body
  <2> QED
    BY <2>1
<1>4. \A s \in SUBSET (1 .. 3) : it[s] = IF s = {} THEN f ELSE Step(Max(s), it[s \ {Max(s)}])
  <2> HIDE DEF it
  <2> QED
    BY <1>3
<1> HIDE DEF it
<1>5. it[1 .. 0] = f
  BY <1>4
<1>6. \A i \in 1 .. 3 : it[1 .. i] = Step(i, it[1 .. i - 1])
  <2> SUFFICES ASSUME NEW i \in 1 .. 3 PROVE it[1 .. i] = Step(i, it[1 .. i - 1])
    OBVIOUS
  <2>1. 1 .. i \in SUBSET (1 .. 3) /\ 1 .. i # {} /\ Max(1 .. i) = i /\ (1 .. i) \ {i} = 1 .. i - 1
    BY MaxOfPrefix, 3 \in Nat
  <2> QED
    BY <1>4, <2>1
<1>7. it[1 .. 3] = Step(3, Step(2, Step(1, f)))
  BY <1>5, <1>6
<1> QED
  BY <1>1, <1>7 DEF Step

\* The derived properties for a type: by name, what the last entry says.
Derives(doc, type, name) ==
  LET derived == Entries(doc.derivedProperties)
  IN  {i \in DOMAIN derived : derived[i].target = "connection/" \o type /\ derived[i].property = name}

NamedIn(doc) == {Entries(doc.derivedProperties)[i].property : i \in DOMAIN Entries(doc.derivedProperties)} \ {Blank}

LEMMA DerivedDecide ==
  ASSUME NEW q \in RuleQueries, Compile(q.document).ok, NEW type, "connection/" \o type # Blank, NEW f
  PROVE  LET doc     == q.document
             derived == Entries(doc.derivedProperties)
             more    == {name \in NamedIn(doc) : Derives(doc, type, name) # {}}
         IN  NormalizedProperties(Compile(doc).descriptor, "connection/" \o type, f)
               = [name \in DOMAIN f \cup more |->
                    IF name \in DOMAIN f THEN f[name] ELSE derived[Max(Derives(doc, type, name))].value]
<1> DEFINE doc     == q.document
           derived == Entries(doc.derivedProperties)
           target  == "connection/" \o type
           more    == {name \in NamedIn(doc) : Derives(doc, type, name) # {}}
           rules   == Compile(doc).descriptor
           KeyOf(i) == <<derived[i].target, derived[i].property>>
           kept    == {i \in DOMAIN derived : DerivedKept(derived[i])}
           At(name) == {i \in kept : KeyOf(i) = <<target, name>>}
<1>1. rules.derived = [key \in {KeyOf(i) : i \in kept} |-> derived[Max({i \in kept : KeyOf(i) = key})].value]
  BY DEF Compile, DerivedTable
<1>2. \A i \in DOMAIN derived : ~DerivedWrong(derived[i])
  BY DEF Compile, Wrong, ToSet
<1>3. \A i \in DOMAIN derived : DerivedKept(derived[i]) <=> derived[i].target # Blank /\ derived[i].property # Blank
  <2> HIDE DEF derived
  <2> QED
    BY <1>2 DEF DerivedWrong, DerivedKept, TextWrong, Text
<1>4. \A name \in NamedIn(doc) : Derives(doc, type, name) = At(name)
  BY <1>3 DEF NamedIn, Derives
<1>5. \A name : <<target, name>> \in DOMAIN rules.derived <=> name \in more
  <2> SUFFICES ASSUME NEW name PROVE <<target, name>> \in DOMAIN rules.derived <=> name \in more
    OBVIOUS
  <2>1. <<target, name>> \in DOMAIN rules.derived <=> At(name) # {}
    <3> HIDE DEF KeyOf, kept, rules, target
    <3> QED
      BY <1>1
  <2>2. At(name) # {} => name \in NamedIn(doc)
    BY <1>3 DEF NamedIn
  <2> QED
    BY <1>4, <2>1, <2>2
<1>6. \A name \in more : rules.derived[<<target, name>>] = derived[Max(Derives(doc, type, name))].value
  <2> SUFFICES ASSUME NEW name \in more
               PROVE  rules.derived[<<target, name>>] = derived[Max(Derives(doc, type, name))].value
    OBVIOUS
  <2>1. <<target, name>> \in DOMAIN rules.derived /\ Derives(doc, type, name) = At(name)
    BY <1>4, <1>5
  <2> HIDE DEF KeyOf, kept, rules, target, more
  <2> DEFINE Value(key) == derived[Max({i \in kept : KeyOf(i) = key})].value
             keys == {KeyOf(i) : i \in kept}
  <2>2. Value(<<target, name>>) = derived[Max(At(name))].value
    OBVIOUS
  <2>3. rules.derived = [key \in keys |-> Value(key)]
    BY <1>1
  <2> HIDE DEF Value, keys
  <2>4. rules.derived[<<target, name>>] = Value(<<target, name>>)
    BY <2>1, <2>3
  <2> QED
    BY <2>1, <2>2, <2>4
<1>7. \A key \in DOMAIN rules.derived : key = <<key[1], key[2]>>
  <2>1. \A i \in kept : KeyOf(i) = <<KeyOf(i)[1], KeyOf(i)[2]>>
    OBVIOUS
  <2> HIDE DEF KeyOf, kept, rules
  <2>2. DOMAIN rules.derived = {KeyOf(i) : i \in kept}
    BY <1>1
  <2> QED
    BY <2>1, <2>2
<1> HIDE DEF rules, target, more, derived
<1>8. {key[2] : key \in {k \in DOMAIN rules.derived : k[1] = target}} = more
  <2> DEFINE keys == DOMAIN rules.derived
             seen == {key[2] : key \in {k \in keys : k[1] = target}}
  <2>1. \A name : <<target, name>> \in keys <=> name \in more
    BY <1>5
  <2>2. \A key \in keys : key = <<key[1], key[2]>>
    BY <1>7
  <2> HIDE DEF keys
  <2>3. ASSUME NEW name \in seen PROVE name \in more
    <3>1. PICK key \in keys : key[1] = target /\ name = key[2]
      OBVIOUS
    <3> QED
      BY <2>1, <2>2, <3>1
  <2>4. ASSUME NEW name \in more PROVE name \in seen
    <3> DEFINE key == <<target, name>>
    <3>1. key \in keys /\ key[1] = target /\ key[2] = name
      BY <2>1
    <3> HIDE DEF key
    <3> QED
      BY <3>1
  <2>5. seen = more
    BY <2>3, <2>4
  <2> QED
    BY <2>5 DEF keys
<1>9. NormalizedProperties(rules, target, f)
        = [name \in DOMAIN f \cup more |-> IF name \in DOMAIN f THEN f[name] ELSE rules.derived[<<target, name>>]]
  BY <1>8 DEF NormalizedProperties
<1> QED
  BY <1>6, <1>9 DEF rules, target, more, derived

\* What a new connection has in the end.
PropertiesGiven(doc, raw) ==
  LET derived == Entries(doc.derivedProperties)
      type    == TypeIn(raw)
  IN  [name \in DOMAIN raw \cup DOMAIN GivenByPacks \cup {n \in NamedIn(doc) : Derives(doc, type, n) # {}} |->
         IF name \in DOMAIN raw THEN raw[name]
         ELSE IF name \in DOMAIN GivenByPacks THEN GivenByPacks[name]
         ELSE derived[Max(Derives(doc, type, name))].value]

LEMMA AllPoliciesGive ==
  ASSUME NEW q \in RuleQueries, Compile(q.document).ok
  PROVE  LET rules == Compile(q.document).descriptor
         IN  NormalizedConnectionProperties(
               <<CustomizedPolicy, [kind |-> "rules", rules |-> rules], SamplePolicy>>, q.raw)
               = PropertiesGiven(q.document, q.raw)
<1> DEFINE doc  == q.document
           raw  == q.raw
           type == TypeIn(raw)
           rules == Compile(doc).descriptor
           policies == <<CustomizedPolicy, [kind |-> "rules", rules |-> rules], SamplePolicy>>
           first == NormalizedByBundle(CustomizedPolicy, raw)
           second == NormalizedByRules(rules, first)
           third == NormalizedByBundle(SamplePolicy, second)
           more == {n \in NamedIn(doc) : Derives(doc, type, n) # {}}
<1>1. NormalizedConnectionProperties(policies, raw) = third
  <2>1. CustomizedPolicy.kind = "bundle" /\ SamplePolicy.kind = "bundle"
    BY DEF CustomizedPolicy, SamplePolicy, PackBundle
  <2>2. /\ DOMAIN policies = 1 .. 3 /\ policies[1] = CustomizedPolicy
        /\ policies[2] = [kind |-> "rules", rules |-> rules] /\ policies[3] = SamplePolicy
    OBVIOUS
  <2> HIDE DEF policies, rules, raw
  <2> QED
    BY <2>1, <2>2, PoliciesGive DEF ByPolicy
<1>2. GivenBy(raw, first)
  BY PackGives DEF CustomizedPolicy
<1>3. GivenBy(second, third)
  BY PackGives DEF SamplePolicy
<1> HIDE DEF first
<1>4. second = NormalizedProperties(rules, "connection/" \o type, first)
  <2>1. "type" \in DOMAIN first /\ first["type"] = IF "type" \in DOMAIN raw THEN raw["type"] ELSE "flow"
    BY <1>2 DEF GivenBy, GivenByPacks
  <2> QED
    BY <2>1 DEF NormalizedByRules, TypeIn, Blank
<1> HIDE DEF second, third
<1>5. second = [name \in DOMAIN first \cup more |->
                  IF name \in DOMAIN first THEN first[name]
                  ELSE Entries(doc.derivedProperties)[Max(Derives(doc, type, name))].value]
  <2>1. "connection/" \o type # Blank
    BY TargetsAreNotBlank
  <2> HIDE DEF doc, type
  <2>2. q.document = doc
    BY DEF doc
  <2> QED
    BY <1>4, <2>1, <2>2, DerivedDecide DEF doc, rules, more
<1> HIDE DEF more
<1>6. third = second
  BY <1>2, <1>3, <1>5 DEF GivenBy
<1>7. second = PropertiesGiven(doc, raw)
  <2> HIDE DEF doc, raw
  <2> QED
    BY <1>2, <1>5 DEF GivenBy, PropertiesGiven, more
<1> QED
  BY <1>1, <1>6, <1>7

\* The answer to a question about rules is made of the compiled document.
RulesGiven ==
  Answered("rules") =>
    LET compiled == Compile(query.about.document)
        policies == <<CustomizedPolicy, [kind |-> "rules", rules |-> compiled.descriptor], SamplePolicy>>
    IN  answer = [ok         |-> compiled.ok,
                  descriptor |-> compiled.descriptor,
                  allowed    |-> {pair \in Types \X Types :
                                    MayConnect(policies, Pair(pair[1], pair[2]))},
                  properties |-> NormalizedConnectionProperties(policies, query.about.raw)]

\* Every reachable state has RulesDecideByLastEntry: in a document compiled
\* without a complaint the last entry for a pair of types decides, and rules
\* only take away from what the packs allow; a new connection has what its
\* caller gives, what the packs give and, where neither gives a value, what
\* the last entry for its type says, and nothing else.
THEOREM LastEntriesDecide == Spec => []RulesDecideByLastEntry
<1>1. Init => RulesGiven
  BY DEF Init, RulesGiven, Answered
<1>2. RulesGiven /\ [Next]_vars => RulesGiven'
  <2> SUFFICES ASSUME RulesGiven, [Next]_vars PROVE RulesGiven'
    OBVIOUS
  <2>1. CASE UNCHANGED vars
    BY <2>1 DEF vars, RulesGiven, Answered
  <2>2. CASE AskAnything \/ Forget
    BY <2>2, AskingGives DEF Forget, RulesGiven, Answered
  <2>3. CASE AnswerRules
    BY <2>3, Zenon DEF AnswerRules, Asked, Answer, GoTo, RulesGiven
  <2>4. CASE UNCHANGED query /\ query.kind # "rules"
    BY <2>4 DEF RulesGiven, Answered
  <2> QED
    BY <2>1, <2>2, <2>3, <2>4, StepOfKind
<1>3. RulesGiven /\ AskedFor => RulesDecideByLastEntry
  <2> SUFFICES ASSUME RulesGiven, AskedFor, Answered("rules"), answer.ok PROVE RulesDecideByLastEntry
    BY DEF RulesDecideByLastEntry
  <2> DEFINE doc      == query.about.document
             rules    == Compile(doc).descriptor
             policies == <<CustomizedPolicy, [kind |-> "rules", rules |-> rules], SamplePolicy>>
  <2>1. query.about \in RuleQueries
    BY DEF AskedFor, Answered
  <2>2. /\ Compile(doc).ok
        /\ answer.allowed = {pair \in Types \X Types : MayConnect(policies, Pair(pair[1], pair[2]))}
        /\ answer.properties = NormalizedConnectionProperties(policies, query.about.raw)
    BY DEF RulesGiven
  <2>3. ASSUME NEW pair \in Types \X Types
        PROVE  MayConnect(policies, Pair(pair[1], pair[2])) <=> pair \in LeftByPacks /\ Said(doc, pair)
    <3>1. pair[1] \in Types /\ pair[2] \in Types /\ pair = <<pair[1], pair[2]>>
      OBVIOUS
    <3>2. MayConnect(policies, Pair(pair[1], pair[2]))
            <=> <<pair[1], pair[2]>> \in LeftByPacks /\ CanConnect(rules, pair[1], pair[2])
      BY <3>1, AllPoliciesAllow
    <3>3. CanConnect(rules, pair[1], pair[2]) <=> Said(doc, <<pair[1], pair[2]>>)
      BY <2>1, <2>2, <3>1, TableDecides
    <3> HIDE DEF policies
    <3> QED
      BY <3>1, <3>2, <3>3
  <2>4. LeftByPacks \subseteq Types \X Types
    BY DEF LeftByPacks, Types
  <2>5. answer.allowed = {pair \in LeftByPacks : Said(doc, pair)}
    <3> HIDE DEF policies
    <3> QED
      BY <2>2, <2>3, <2>4
  <2>6. answer.properties = PropertiesGiven(doc, query.about.raw)
    BY <2>1, <2>2, AllPoliciesGive
  <2> HIDE DEF doc, rules, policies
  <2> QED
    BY <2>5, <2>6, Zenon DEF RulesDecideByLastEntry, Said, PropertiesGiven, NamedIn, Derives, doc
<1> QED
  BY <1>1, <1>2, <1>3, AlwaysAskedFor, PTL DEF Spec

(***************************************************************************)
(* Documents: what was imported is the same after another round.           *)
(***************************************************************************)
\* The fields of a component,
ComponentKeys == DOMAIN ComponentDefaults
\* and of a connection.
ConnectionKeys == DOMAIN ConnectionDefaults

\* What is read has the keys of the defaults.
LEMMA ReadHasAll ==
  ASSUME NEW object, NEW defaults
  PROVE  Read(object, defaults) = [key \in DOMAIN defaults |-> Read(object, defaults)[key]]
BY DEF Read

\* The keys of the two kinds of objects.
LEMMA KeysOfObjects ==
  /\ ComponentKeys = {"id", "title", "content", "icon", "x", "y", "width", "height", "shape", "color", "type"}
  /\ ConnectionKeys = {"id", "sourceId", "targetId", "label", "tokenKey", "sourceSide", "targetSide"}
BY DEF ComponentKeys, ConnectionKeys, ComponentDefaults, ConnectionDefaults

\* A migration keeps the keys.
LEMMA MigratedHasAll ==
  ASSUME NEW object, NEW system
  PROVE  DOMAIN Migrated(Read(object, ComponentDefaults), system) = ComponentKeys
<1> DEFINE c == Read(object, ComponentDefaults)
<1>1. DOMAIN c = ComponentKeys
  BY DEF Read, ComponentKeys
<1> HIDE DEF c
<1>2. DOMAIN (Migrated(c, system)) = DOMAIN c
  BY DEF Migrated, Current, LegacyV2
<1> QED
  BY <1>1, <1>2 DEF c

\* A setter leaves a value that it made as it is.
LEMMA SettingSettles ==
  ASSUME NEW field, NEW value
  PROVE  Setting(field, Setting(field, value)) = Setting(field, value)
<1>1. CASE field \in {"width", "height"}
  BY <1>1 DEF Setting, AtLeastOne
<1>2. CASE field = "shape"
  BY <1>2 DEF Setting
<1>3. CASE field \notin {"width", "height", "shape"}
  BY <1>3 DEF Setting
<1> QED
  BY <1>1, <1>2, <1>3

\* An object with dynamic properties: they and the other fields are read as
\* they were.
HoldsDynamic(object, dynamic, written) ==
  /\ DOMAIN PropertiesOf(written) = DOMAIN dynamic
  /\ \A p \in DOMAIN dynamic : PropertiesOf(written)[p] = dynamic[p]
  /\ \A key : key # "properties" => (key \in DOMAIN written <=> key \in DOMAIN object)
  /\ \A key \in DOMAIN object : written[key] = object[key]

\* The dynamic properties have other names than the fields, and are written
\* and read as they are.
LEMMA DynamicReadBack ==
  ASSUME NEW object, "properties" \notin DOMAIN object,
         NEW dynamic, dynamic = [p \in DOMAIN dynamic |-> dynamic[p]]
  PROVE  HoldsDynamic(object, dynamic, WithDynamic(object, dynamic))
<1>1. CASE DOMAIN dynamic = {}
  BY <1>1 DEF WithDynamic, PropertiesOf, HoldsDynamic
<1>2. CASE DOMAIN dynamic # {}
  <2> DEFINE written == WithDynamic(object, dynamic)
  <2>1. written = [field \in DOMAIN object \cup {"properties"} |->
                     IF field = "properties" THEN dynamic ELSE object[field]]
    BY <1>2 DEF WithDynamic
  <2>2. PropertiesOf(written) = dynamic
    BY <2>1 DEF PropertiesOf
  <2> HIDE DEF written
  <2>3. \A key : key # "properties" => (key \in DOMAIN written <=> key \in DOMAIN object)
    BY <2>1
  <2>4. \A key \in DOMAIN object : written[key] = object[key]
    BY <2>1
  <2> QED
    BY <2>2, <2>3, <2>4 DEF written, HoldsDynamic
<1> QED
  BY <1>1, <1>2

\* An object with its properties: the fields keep their keys, and no dynamic
\* property has the name of a field or is the name of the object.
LEMMA PropertiesSplit ==
  ASSUME NEW fields, NEW properties
  PROVE  LET split == WithProperties(fields, properties)
         IN  /\ split = [fields |-> split.fields, dynamic |-> split.dynamic]
             /\ split.fields = [f \in DOMAIN fields |-> split.fields[f]]
             /\ split.dynamic = [p \in DOMAIN split.dynamic |-> split.dynamic[p]]
             /\ DOMAIN split.dynamic \cap (DOMAIN fields \cup {"objectName"}) = {}
BY DEF WithProperties

\* Properties of other names than the fields leave the fields alone.
LEMMA OtherPropertiesStay ==
  ASSUME NEW fields, fields = [f \in DOMAIN fields |-> fields[f]],
         NEW dynamic, dynamic = [p \in DOMAIN dynamic |-> dynamic[p]],
         DOMAIN dynamic \cap (DOMAIN fields \cup {"objectName"}) = {},
         NEW properties, DOMAIN properties = DOMAIN dynamic,
         \A p \in DOMAIN dynamic : properties[p] = dynamic[p]
  PROVE  WithProperties(fields, properties) = [fields |-> fields, dynamic |-> dynamic]
<1>1. [f \in DOMAIN fields |-> IF f \in DOMAIN properties THEN Setting(f, properties[f]) ELSE fields[f]]
        = fields
  OBVIOUS
<1>2. [p \in DOMAIN properties \ (DOMAIN fields \cup {"objectName"}) |-> properties[p]] = dynamic
  OBVIOUS
<1> QED
  BY <1>1, <1>2 DEF WithProperties

\* A component that was read is the same after it was written and read again.
LEMMA ComponentReadBack ==
  ASSUME NEW object, NEW system
  PROVE  LET c == ComponentFrom(object, system)
         IN  ComponentFrom(WithDynamic(c.fields, c.dynamic), Current) = c
<1> DEFINE m == Migrated(Read(object, ComponentDefaults), system)
           set == [f \in DOMAIN m |-> Setting(f, m[f])]
           c == ComponentFrom(object, system)
           written == WithDynamic(c.fields, c.dynamic)
           r == Read(written, ComponentDefaults)
<1>1. DOMAIN m = ComponentKeys
  BY MigratedHasAll
<1>2. c = WithProperties(set, PropertiesOf(object))
  BY DEF ComponentFrom
<1>3. /\ c = [fields |-> c.fields, dynamic |-> c.dynamic]
      /\ c.fields = [f \in ComponentKeys |-> c.fields[f]]
      /\ c.dynamic = [p \in DOMAIN c.dynamic |-> c.dynamic[p]]
      /\ DOMAIN c.dynamic \cap (ComponentKeys \cup {"objectName"}) = {}
  <2>1. DOMAIN set = ComponentKeys
    BY <1>1
  <2> HIDE DEF set, c
  <2> QED
    BY <1>2, <2>1, PropertiesSplit
<1>4. \A f \in ComponentKeys : Setting(f, c.fields[f]) = c.fields[f]
  <2> SUFFICES ASSUME NEW f \in ComponentKeys PROVE Setting(f, c.fields[f]) = c.fields[f]
    OBVIOUS
  <2>1. set[f] = Setting(f, m[f])
    BY <1>1
  <2>2. c.fields[f] = IF f \in DOMAIN PropertiesOf(object) THEN Setting(f, PropertiesOf(object)[f]) ELSE set[f]
    <3>1. DOMAIN set = ComponentKeys
      BY <1>1
    <3> HIDE DEF set, c
    <3> QED
      BY <1>2, <3>1 DEF WithProperties
  <2> HIDE DEF set, c, m
  <2> QED
    BY <2>1, <2>2, SettingSettles
<1> HIDE DEF c
<1>5. "properties" \notin DOMAIN c.fields
  BY <1>3, KeysOfObjects
<1>6. /\ DOMAIN PropertiesOf(written) = DOMAIN c.dynamic
      /\ \A p \in DOMAIN c.dynamic : PropertiesOf(written)[p] = c.dynamic[p]
      /\ \A key \in ComponentKeys : key \in DOMAIN written /\ written[key] = c.fields[key]
  <2>1. DOMAIN c.fields = ComponentKeys
    BY <1>3
  <2>2. \A key \in ComponentKeys : key # "properties"
    BY KeysOfObjects
  <2> DEFINE fields == c.fields
             dynamic == c.dynamic
  <2>3. /\ DOMAIN fields = ComponentKeys
        /\ dynamic = [p \in DOMAIN dynamic |-> dynamic[p]]
        /\ "properties" \notin DOMAIN fields
    BY <1>3, <1>5
  <2>4. written = WithDynamic(fields, dynamic)
    OBVIOUS
  <2> HIDE DEF fields, dynamic, written
  <2>5. /\ DOMAIN PropertiesOf(written) = DOMAIN dynamic
        /\ \A p \in DOMAIN dynamic : PropertiesOf(written)[p] = dynamic[p]
        /\ \A key : key # "properties" => (key \in DOMAIN written <=> key \in DOMAIN fields)
        /\ \A key \in DOMAIN fields : written[key] = fields[key]
    BY <2>3, <2>4, DynamicReadBack DEF HoldsDynamic
  <2> QED
    BY <2>2, <2>3, <2>5 DEF fields, dynamic
<1>7. r = c.fields
  <2> HIDE DEF written
  <2>1. r = [key \in ComponentKeys |-> c.fields[key]]
    BY <1>6 DEF Read, ComponentKeys
  <2> QED
    BY <1>3, <2>1
<1>8. Migrated(r, Current) = r
  BY DEF Migrated, Current, LegacyV2
<1>9. [f \in DOMAIN r |-> Setting(f, r[f])] = c.fields
  <2> HIDE DEF r
  <2> QED
    BY <1>3, <1>4, <1>7
<1>10. WithProperties(c.fields, PropertiesOf(written)) = [fields |-> c.fields, dynamic |-> c.dynamic]
  <2> HIDE DEF written
  <2>1. DOMAIN c.fields = ComponentKeys
    BY <1>3
  <2> QED
    BY <1>3, <1>6, <2>1, OtherPropertiesStay
<1>11. ComponentFrom(written, Current) = c
  <2> HIDE DEF written
  <2> QED
    BY <1>3, <1>7, <1>8, <1>9, <1>10 DEF ComponentFrom
<1> QED
  BY <1>11 DEF c

\* The fields of a connection with a side open that is none of the four.
WithSides(fields) ==
  [f \in DOMAIN fields |-> IF f \in {"sourceSide", "targetSide"} /\ fields[f] \notin -1..3 THEN -1 ELSE fields[f]]

\* A connection is the same after it was written and read again, but for such
\* sides, and a token key that is left out is read as the empty one.
LEMMA ConnectionReadBack ==
  ASSUME NEW object
  PROVE  LET k == ConnectionFrom(object)
         IN  ConnectionFrom(WithDynamic(ConnectionObject(k.fields), k.dynamic))
               = [fields |-> WithSides(k.fields), dynamic |-> k.dynamic]
<1> DEFINE r0 == Read(object, ConnectionDefaults)
           n0 == [r0 EXCEPT !.sourceSide = NormalizedSide(@), !.targetSide = NormalizedSide(@)]
           k == ConnectionFrom(object)
           shown == ConnectionObject(k.fields)
           written == WithDynamic(shown, k.dynamic)
           r == Read(written, ConnectionDefaults)
<1>1. DOMAIN n0 = ConnectionKeys
  <2>1. DOMAIN r0 = ConnectionKeys
    BY DEF Read, ConnectionKeys
  <2> HIDE DEF r0
  <2> QED
    BY <2>1
<1>2. k = WithProperties(n0, PropertiesOf(object))
  BY DEF ConnectionFrom
<1> HIDE DEF n0, k
<1>3. /\ k.fields = [f \in ConnectionKeys |-> k.fields[f]]
      /\ k.dynamic = [p \in DOMAIN k.dynamic |-> k.dynamic[p]]
      /\ DOMAIN k.dynamic \cap (ConnectionKeys \cup {"objectName"}) = {}
  BY <1>1, <1>2, PropertiesSplit
<1>4. /\ "properties" \notin DOMAIN shown
      /\ \A key \in ConnectionKeys : key \in DOMAIN shown => shown[key] = k.fields[key]
      /\ \A key \in ConnectionKeys : key \notin DOMAIN shown => key = "tokenKey" /\ k.fields[key] = ""
  <2>1. DOMAIN k.fields = ConnectionKeys
    BY <1>3
  <2>2. shown = [key \in ConnectionKeys \ (IF k.fields.tokenKey = "" THEN {"tokenKey"} ELSE {}) |-> k.fields[key]]
    BY <2>1 DEF ConnectionObject
  <2>3. "properties" \notin ConnectionKeys
    BY KeysOfObjects
  <2> HIDE DEF shown
  <2> QED
    BY <2>2, <2>3
<1> HIDE DEF shown
<1>5. /\ DOMAIN PropertiesOf(written) = DOMAIN k.dynamic
      /\ \A p \in DOMAIN k.dynamic : PropertiesOf(written)[p] = k.dynamic[p]
      /\ \A key \in ConnectionKeys : key \in DOMAIN written <=> key \in DOMAIN shown
      /\ \A key \in DOMAIN shown : written[key] = shown[key]
  <2>1. \A key \in ConnectionKeys : key # "properties"
    BY KeysOfObjects
  <2>2. HoldsDynamic(shown, k.dynamic, written)
    <3> DEFINE dynamic == k.dynamic
    <3>1. dynamic = [p \in DOMAIN dynamic |-> dynamic[p]] /\ "properties" \notin DOMAIN shown
      BY <1>3, <1>4
    <3>2. written = WithDynamic(shown, dynamic)
      OBVIOUS
    <3> HIDE DEF dynamic, written
    <3>3. HoldsDynamic(shown, dynamic, written)
      BY <3>1, <3>2, DynamicReadBack
    <3> QED
      BY <3>3 DEF dynamic
  <2> HIDE DEF written
  <2>3. /\ DOMAIN PropertiesOf(written) = DOMAIN k.dynamic
        /\ \A p \in DOMAIN k.dynamic : PropertiesOf(written)[p] = k.dynamic[p]
        /\ \A key : key # "properties" => (key \in DOMAIN written <=> key \in DOMAIN shown)
        /\ \A key \in DOMAIN shown : written[key] = shown[key]
    BY <2>2, Zenon DEF HoldsDynamic
  <2> QED
    BY <1>3, <2>1, <2>3
<1> HIDE DEF written
<1>6. r = k.fields
  <2>1. r = [key \in ConnectionKeys |-> IF key \in DOMAIN written THEN written[key] ELSE ConnectionDefaults[key]]
    BY DEF Read, ConnectionKeys
  <2>2. ConnectionDefaults["tokenKey"] = ""
    BY DEF ConnectionDefaults
  <2> HIDE DEF r
  <2>3. \A key \in ConnectionKeys : r[key] = k.fields[key]
    BY <1>4, <1>5, <2>1, <2>2
  <2> QED
    BY <1>3, <2>1, <2>3
<1>7. /\ [r EXCEPT !.sourceSide = NormalizedSide(@), !.targetSide = NormalizedSide(@)] = WithSides(k.fields)
      /\ WithSides(k.fields) = [f \in ConnectionKeys |-> WithSides(k.fields)[f]]
  <2> DEFINE fields == k.fields
  <2>1. r = fields /\ fields = [f \in ConnectionKeys |-> fields[f]]
    BY <1>3, <1>6
  <2> HIDE DEF fields, r
  <2>2. [fields EXCEPT !.sourceSide = NormalizedSide(@), !.targetSide = NormalizedSide(@)]
          = [f \in ConnectionKeys |-> IF f \in {"sourceSide", "targetSide"} THEN NormalizedSide(fields[f]) ELSE fields[f]]
    BY <2>1, KeysOfObjects
  <2>3. WithSides(fields) = [f \in ConnectionKeys |-> IF f \in {"sourceSide", "targetSide"} THEN NormalizedSide(fields[f])
                                                    ELSE fields[f]]
    BY <2>1 DEF WithSides, NormalizedSide
  <2>4. WithSides(fields) = [f \in ConnectionKeys |-> WithSides(fields)[f]]
    BY <2>3
  <2> QED
    BY <2>1, <2>2, <2>3, <2>4 DEF fields
<1>8. WithProperties(WithSides(k.fields), PropertiesOf(written)) = [fields |-> WithSides(k.fields), dynamic |-> k.dynamic]
  <2> DEFINE fields == WithSides(k.fields)
             dynamic == k.dynamic
  <2>1. /\ fields = [f \in DOMAIN fields |-> fields[f]] /\ DOMAIN fields = ConnectionKeys
        /\ dynamic = [p \in DOMAIN dynamic |-> dynamic[p]]
        /\ DOMAIN dynamic \cap (ConnectionKeys \cup {"objectName"}) = {}
        /\ DOMAIN PropertiesOf(written) = DOMAIN dynamic
        /\ \A p \in DOMAIN dynamic : PropertiesOf(written)[p] = dynamic[p]
    BY <1>3, <1>5, <1>7
  <2> HIDE DEF fields, dynamic
  <2>2. WithProperties(fields, PropertiesOf(written)) = [fields |-> fields, dynamic |-> dynamic]
    BY <2>1, OtherPropertiesStay
  <2> QED
    BY <2>2 DEF fields, dynamic
<1>9. ConnectionFrom(written) = [fields |-> WithSides(k.fields), dynamic |-> k.dynamic]
  BY <1>7, <1>8 DEF ConnectionFrom
<1> QED
  BY <1>9 DEF k, written, shown

\* An imported graph with the sides of its connections settled,
WithSettledSides(imported) ==
  [components  |-> imported.components,
   connections |-> [i \in DOMAIN imported.connections |->
                      [fields  |-> WithSides(imported.connections[i].fields),
                       dynamic |-> imported.connections[i].dynamic]]]

\* is what an export and another import give.
LEMMA ImportReadBack ==
  ASSUME NEW doc
  PROVE  LET imported == ImportFromJson(doc)
         IN  ImportFromJson(ExportToJson(imported)) = WithSettledSides(imported)
<1> DEFINE imported == ImportFromJson(doc)
           exported == ExportToJson(imported)
<1>1. /\ DOMAIN imported.components = DOMAIN doc.components
      /\ \A i \in DOMAIN doc.components : imported.components[i] = ComponentFrom(doc.components[i], doc.system)
      /\ DOMAIN imported.connections = DOMAIN doc.connections
      /\ \A i \in DOMAIN doc.connections : imported.connections[i] = ConnectionFrom(doc.connections[i])
      /\ imported.components = [i \in DOMAIN doc.components |-> imported.components[i]]
  BY DEF ImportFromJson
<1> HIDE DEF imported
<1>2. /\ DOMAIN exported.components = DOMAIN doc.components
      /\ \A i \in DOMAIN doc.components :
           exported.components[i] = WithDynamic(imported.components[i].fields, imported.components[i].dynamic)
      /\ DOMAIN exported.connections = DOMAIN doc.connections
      /\ \A i \in DOMAIN doc.connections :
           exported.connections[i] = WithDynamic(ConnectionObject(imported.connections[i].fields),
                                                 imported.connections[i].dynamic)
      /\ exported.system = Current
  BY <1>1 DEF ExportToJson
<1> HIDE DEF exported
<1>3. \A i \in DOMAIN doc.components : ComponentFrom(exported.components[i], Current) = imported.components[i]
  BY <1>1, <1>2, ComponentReadBack
<1>4. \A i \in DOMAIN doc.connections :
        ConnectionFrom(exported.connections[i]) = [fields  |-> WithSides(imported.connections[i].fields),
                                                   dynamic |-> imported.connections[i].dynamic]
  BY <1>1, <1>2, ConnectionReadBack
<1>5. ImportFromJson(exported) = WithSettledSides(imported)
  BY <1>1, <1>2, <1>3, <1>4 DEF ImportFromJson, WithSettledSides
<1> QED
  BY <1>5 DEF imported, exported

(***************************************************************************)
(* Lists of messages: what was accepted is written to maps that give the   *)
(* same messages.                                                          *)
(***************************************************************************)
\* The classes of fields.
Classes == {"required", "requiredNumber", "number", "lenient", "stamp", "severity", "eventType",
            "optional", "map"}

\* The tables give every field a class.
LEMMA FieldsHaveClasses ==
  ASSUME NEW message \in Messages
  PROVE  \A f \in DOMAIN FieldsOf(message) : FieldsOf(message)[f] \in Classes
<1>1. CASE message \in DOMAIN CommandFields
  <2>1. FieldsOf(message) = CommandFields[message]
    BY <1>1 DEF FieldsOf, CommandFields, GraphFields, PolicyFields, ExecutionFields, ValidationFields
  <2>2. message \in {"addComponent", "removeComponent", "moveComponent", "addConnection", "removeConnection",
                     "setComponentProperty", "setConnectionProperty"}
    BY <1>1 DEF CommandFields
  <2>3. CASE message = "addComponent"
    BY <2>1, <2>3 DEF CommandFields, Classes
  <2>4. CASE message = "removeComponent"
    BY <2>1, <2>4 DEF CommandFields, Classes
  <2>5. CASE message = "moveComponent"
    BY <2>1, <2>5 DEF CommandFields, Classes
  <2>6. CASE message = "addConnection"
    BY <2>1, <2>6 DEF CommandFields, Classes
  <2>7. CASE message = "removeConnection"
    BY <2>1, <2>7 DEF CommandFields, Classes
  <2>8. CASE message = "setComponentProperty"
    BY <2>1, <2>8 DEF CommandFields, Classes
  <2>9. CASE message = "setConnectionProperty"
    BY <2>1, <2>9 DEF CommandFields, Classes
  <2> QED
    BY <2>2, <2>3, <2>4, <2>5, <2>6, <2>7, <2>8, <2>9
<1>2. CASE message \in DOMAIN GraphFields
  BY <1>2 DEF FieldsOf, CommandFields, GraphFields, PolicyFields, ExecutionFields, ValidationFields, Classes
<1>3. CASE message \in DOMAIN PolicyFields
  <2>1. FieldsOf(message) = PolicyFields[message]
    BY <1>3 DEF FieldsOf, CommandFields, GraphFields, PolicyFields, ExecutionFields, ValidationFields
  <2>2. message \in {"policyContext", "typeDefaults", "connectionProperties"}
    BY <1>3 DEF PolicyFields
  <2>3. CASE message = "policyContext"
    BY <2>1, <2>3 DEF PolicyFields, Classes
  <2>4. CASE message = "typeDefaults"
    BY <2>1, <2>4 DEF PolicyFields, Classes
  <2>5. CASE message = "connectionProperties"
    BY <2>1, <2>5 DEF PolicyFields, Classes
  <2> QED
    BY <2>2, <2>3, <2>4, <2>5
<1>4. CASE message \in DOMAIN ExecutionFields
  BY <1>4 DEF FieldsOf, CommandFields, GraphFields, PolicyFields, ExecutionFields, ValidationFields, Classes
<1>5. CASE message \in DOMAIN ValidationFields
  BY <1>5 DEF FieldsOf, CommandFields, GraphFields, PolicyFields, ExecutionFields, ValidationFields, Classes
<1> QED
  BY <1>1, <1>2, <1>3, <1>4, <1>5 DEF Messages

\* A field that was accepted is written to a map that gives the same value.
LEMMA FieldReadBack ==
  ASSUME NEW m, NEW f, f \in DOMAIN m => IsVariant(m[f]), NEW class \in Classes, ~Rejected(m, f, class),
         NEW back, f \in DOMAIN back <=> WrittenBack(Stored(m, f, class), class),
         f \in DOMAIN back => back[f] = Written(Stored(m, f, class), class)
  PROVE  ~Rejected(back, f, class) /\ Stored(back, f, class) = Stored(m, f, class)
<1> USE DEF Absent, IsText, IsTable, Rejected, Stored, WrittenBack, Written
<1>1. CASE class \in {"required", "optional"}
  <2> DEFINE text == Given(m, f, Empty)
  <2>1. f \in DOMAIN back => back[f] = [text |-> text]
    BY <1>1
  <2>2. f \notin DOMAIN back => class = "optional" /\ text = Empty
    BY <1>1
  <2> HIDE DEF text
  <2>3. Given(back, f, Empty) = text
    BY <2>1, <2>2 DEF Given, TextOf
  <2> QED
    BY <1>1, <2>2, <2>3 DEF text
<1>2. CASE class \in {"requiredNumber", "number"}
  <2> DEFINE n == Stored(m, f, class)
  <2>1. f \in DOMAIN back /\ back[f] = [number |-> n]
    BY <1>2
  <2> HIDE DEF n
  <2>2. IsNumber(back[f]) /\ NumberOf(back[f]) = n
    BY <2>1 DEF IsNumber, NumberOf
  <2> QED
    BY <1>2, <2>1, <2>2 DEF n
<1>3. CASE class \in {"lenient", "stamp"}
  <2> DEFINE n == Stored(m, f, class)
             read == NumberOf(m[f])
  <2>1. n \in Int /\ n % 2 = 0
    <3>1. CASE Absent(m, f) \/ ~IsWhole(m[f])
      BY <1>3, <3>1
    <3>2. CASE ~Absent(m, f) /\ IsWhole(m[f])
      <4>1. read \in Int
        BY <3>2, NumbersAreRead DEF IsWhole, IsNumber, NumberOf, IsVariant
      <4>2. n = IF read % 2 = 0 THEN read ELSE IF read > 0 THEN read + 1 ELSE read - 1
        BY <1>3, <3>2 DEF WholeOf
      <4> HIDE DEF read, n
      <4> QED
        BY <4>1, <4>2
    <3> QED
      BY <3>1, <3>2
  <2>2. f \in DOMAIN back => back[f] = [number |-> n]
    BY <1>3
  <2>3. f \notin DOMAIN back => class = "stamp" /\ n = 0
    BY <1>3
  <2> HIDE DEF n
  <2>4. f \in DOMAIN back => IsWhole(back[f]) /\ WholeOf(back[f]) = n
    BY <2>1, <2>2 DEF IsWhole, WholeOf, IsNumber, NumberOf
  <2> HIDE DEF IsText, IsTable, WrittenBack, Written
  <2>5. ~Rejected(back, f, class) /\ Stored(back, f, class) = n
    BY <1>3, <2>3, <2>4
  <2> QED
    BY <2>5 DEF n
<1>4. CASE class = "severity"
  <2> DEFINE severity == LowerCase(Given(m, f, "error"))
  <2>1. severity \in Severities /\ severity # Unspecified
    BY <1>4 DEF Severities, Unspecified
  <2>2. back[f] = [text |-> severity] /\ f \in DOMAIN back
    BY <1>4, <2>1
  <2> HIDE DEF severity
  <2>3. LowerCase(Given(back, f, "error")) = severity
    BY <2>1, <2>2, SmallLetters DEF Given, TextOf
  <2> QED
    BY <1>4, <2>1, <2>3 DEF severity
<1>5. CASE class = "eventType"
  <2> DEFINE type == LowerCase(Given(m, f, Empty))
  <2>1. type \in DOMAIN EventTypes /\ type # Unspecified
    BY <1>5 DEF EventTypes, Unspecified
  <2>2. back[f] = [text |-> EventTypes[type]] /\ f \in DOMAIN back
    BY <1>5, <2>1
  <2> HIDE DEF type
  <2>3. LowerCase(Given(back, f, Empty)) = type
    BY <2>1, <2>2, SmallLetters DEF Given, TextOf
  <2> QED
    BY <1>5, <2>1, <2>3 DEF type
<1>6. CASE class = "map"
  <2> DEFINE value == Stored(m, f, class)
  <2>1. value = [key \in DOMAIN value |-> value[key]] \/ value = <<>>
    BY <1>6 DEF TextsOf
  <2>2. f \in DOMAIN back => back[f] = [table |-> [key \in DOMAIN value |-> [text |-> value[key]]]]
    BY <1>6
  <2>3. f \notin DOMAIN back => value = <<>>
    BY <1>6
  <2> HIDE DEF value
  <2>4. f \in DOMAIN back => TextsOf(back[f]) = value
    <3> SUFFICES ASSUME f \in DOMAIN back PROVE TextsOf(back[f]) = value
      OBVIOUS
    <3>1. TextsOf(back[f]) = [key \in DOMAIN value |-> value[key]]
      BY <2>2 DEF TextsOf, TextOf
    <3> QED
      BY <2>1, <3>1
  <2> QED
    BY <1>6, <2>3, <2>4 DEF value
<1> QED
  BY <1>1, <1>2, <1>3, <1>4, <1>5, <1>6 DEF Classes

\* A value of a field, and what comes back for it: the same if it is one of the
\* field's own, or nothing if it is empty or zero.
ComesBack(m, f, class, back) ==
  IsOwn(m[f], class) =>
    IF f \in DOMAIN back THEN back[f] = m[f]
    ELSE m[f] \in {[text |-> Empty], [number |-> 0], [table |-> <<>>]}

\* What is written for an accepted field is a value that comes back.
LEMMA OwnComesBack ==
  ASSUME NEW m, NEW f \in DOMAIN m, IsVariant(m[f]), NEW class \in Classes,
         NEW back, f \in DOMAIN back <=> WrittenBack(Stored(m, f, class), class),
         f \in DOMAIN back => back[f] = Written(Stored(m, f, class), class)
  PROVE  ComesBack(m, f, class, back)
<1> DEFINE v == m[f]
           same == IF f \in DOMAIN back THEN back[f] = v
                   ELSE v \in {[text |-> Empty], [number |-> 0], [table |-> <<>>]}
<1> SUFFICES ASSUME IsOwn(v, class) PROVE same
  BY DEF ComesBack
<1>1. ~Absent(m, f)
  BY DEF Absent
<1> HIDE DEF v
<1>2. /\ v = m[f]
      /\ IsText(v) => v = [text |-> v.text]
      /\ ~IsText(v) /\ ~IsTable(v) => v = [number |-> v.number] /\ v.number \in Int
  BY DEF v, IsVariant, IsText, IsTable
<1>3. CASE class \in {"required", "optional"}
  BY <1>1, <1>2, <1>3 DEF IsOwn, Stored, WrittenBack, Written, Given, TextOf
<1>4. CASE class \in {"requiredNumber", "number"}
  BY <1>1, <1>2, <1>4 DEF IsOwn, Stored, WrittenBack, Written, NumberOf
<1>5. CASE class \in {"stamp", "lenient"}
  BY <1>1, <1>2, <1>5 DEF IsOwn, Stored, WrittenBack, Written, IsWhole, WholeOf, IsNumber, NumberOf
<1>6. CASE class = "severity"
  <2>1. v = [text |-> v.text] /\ v.text \in Severities
    BY <1>2, <1>6 DEF IsOwn
  <2>2. Stored(m, f, class) = v.text
    BY <1>1, <1>2, <1>6, <2>1, SmallLetters DEF Stored, Given, TextOf, IsText
  <2> QED
    BY <1>6, <2>1, <2>2 DEF WrittenBack, Written, Severities, Unspecified
<1>7. CASE class = "eventType"
  <2>1. PICK type \in DOMAIN EventTypes : v = [text |-> EventTypes[type]]
    BY <1>2, <1>7 DEF IsOwn
  <2>2. Stored(m, f, class) = type
    BY <1>1, <1>2, <1>7, <2>1, SmallLetters DEF Stored, Given, TextOf, IsText
  <2>3. type # Unspecified
    BY DEF EventTypes, Unspecified
  <2> QED
    BY <1>7, <2>1, <2>2, <2>3 DEF WrittenBack, Written
<1>8. CASE class = "map"
  <2> DEFINE texts == Stored(m, f, class)
  <2>1. IsTable(v) /\ \A key \in DOMAIN v.table : IsText(v.table[key])
    BY <1>8 DEF IsOwn
  <2>2. /\ v = [table |-> v.table]
        /\ v.table = [key \in DOMAIN v.table |-> v.table[key]]
        /\ \A key \in DOMAIN v.table : v.table[key] = [text |-> v.table[key].text]
    BY <2>1 DEF v, IsVariant, IsTable
  <2>3. texts = [key \in DOMAIN v.table |-> v.table[key].text]
    BY <1>1, <1>2, <1>8, <2>1 DEF Stored, TextsOf, TextOf
  <2> DEFINE table == v.table
  <2>4. /\ v = [table |-> table] /\ table = [key \in DOMAIN table |-> table[key]]
        /\ texts = [key \in DOMAIN table |-> table[key].text]
        /\ \A key \in DOMAIN table : table[key] = [text |-> table[key].text]
    BY <2>2, <2>3
  <2>5. f \in DOMAIN back <=> texts # <<>>
    BY <1>8 DEF WrittenBack
  <2>6. f \in DOMAIN back => back[f] = [table |-> [key \in DOMAIN texts |-> [text |-> texts[key]]]]
    BY <1>8 DEF Written
  <2> HIDE DEF texts, table
  <2>7. [key \in DOMAIN texts |-> [text |-> texts[key]]] = table
    BY <2>4
  <2>8. texts = <<>> => table = <<>>
    BY <2>4
  <2> QED
    BY <2>4, <2>5, <2>6, <2>7, <2>8
<1> QED
  BY <1>3, <1>4, <1>5, <1>6, <1>7, <1>8 DEF Classes

\* What an accepted message has.
LEMMA AcceptedHasAll ==
  ASSUME NEW message, NEW m
  PROVE  LET fields == FieldsOf(message)
         IN  /\ ToMessage(message, m).ok <=> \A f \in DOMAIN fields : ~Rejected(m, f, fields[f])
             /\ ToMessage(message, m).ok =>
                  ToMessage(message, m) = [ok |-> TRUE, stored |-> [f \in DOMAIN fields |-> Stored(m, f, fields[f])]]
<1> DEFINE fields == FieldsOf(message)
           wrong == {f \in DOMAIN fields : Rejected(m, f, fields[f])}
           set == IF wrong = {} THEN DOMAIN fields
                  ELSE IF \E f \in wrong : fields[f] \in AskedFirst THEN {} ELSE SetFirst(message)
           all == [f \in DOMAIN fields |-> Stored(m, f, fields[f])]
           stored == [f \in DOMAIN fields |-> IF f \in set THEN Stored(m, f, fields[f]) ELSE Default(fields[f])]
<1>1. ToMessage(message, m) = [ok |-> wrong = {}, stored |-> stored]
  BY Zenon DEF ToMessage
<1>2. wrong = {} <=> \A f \in DOMAIN fields : ~Rejected(m, f, fields[f])
  OBVIOUS
<1> HIDE DEF fields, wrong
<1>3. wrong = {} => stored = all
  OBVIOUS
<1> HIDE DEF stored, all
<1>4. /\ ToMessage(message, m).ok <=> \A f \in DOMAIN fields : ~Rejected(m, f, fields[f])
      /\ ToMessage(message, m).ok => ToMessage(message, m) = [ok |-> TRUE, stored |-> all]
  <2> DEFINE sent == ToMessage(message, m)
  <2>1. sent = [ok |-> wrong = {}, stored |-> stored]
    BY <1>1
  <2> HIDE DEF sent
  <2>2. sent.ok <=> wrong = {}
    BY <2>1
  <2>3. sent.ok => sent = [ok |-> TRUE, stored |-> all]
    BY <1>3, <2>1, <2>2
  <2>4. sent.ok <=> \A f \in DOMAIN fields : ~Rejected(m, f, fields[f])
    BY <1>2, <2>2, Zenon
  <2> QED
    BY <2>3, <2>4, Zenon DEF sent
<1> QED
  BY <1>4 DEF fields, all

\* An accepted message is written to a map that gives the same message, and in
\* which the values of the fields' own come back.
Returned(message, m) ==
  LET fields == FieldsOf(message)
      stored == ToMessage(message, m).stored
      back   == ToMap(message, stored)
  IN  /\ ToMessage(message, back) = [ok |-> TRUE, stored |-> stored]
      /\ \A f \in DOMAIN m \cap DOMAIN fields : ComesBack(m, f, fields[f], back)

LEMMA MessageReadBack ==
  ASSUME NEW message \in Messages, NEW m, HoldsVariants(m), ToMessage(message, m).ok
  PROVE  Returned(message, m)
<1> DEFINE fields == FieldsOf(message)
           stored == ToMessage(message, m).stored
           back == ToMap(message, stored)
<1>1. /\ \A f \in DOMAIN fields : ~Rejected(m, f, fields[f])
      /\ stored = [f \in DOMAIN fields |-> Stored(m, f, fields[f])]
  BY AcceptedHasAll
<1>2. \A f \in DOMAIN fields : fields[f] \in Classes
  BY FieldsHaveClasses
<1> HIDE DEF fields, stored
<1>3. back = [f \in {g \in DOMAIN fields : WrittenBack(stored[g], fields[g])} |-> Written(stored[f], fields[f])]
  BY DEF ToMap, fields
<1> HIDE DEF back
<1>4. \A f \in DOMAIN fields :
        /\ f \in DOMAIN back <=> WrittenBack(Stored(m, f, fields[f]), fields[f])
        /\ f \in DOMAIN back => back[f] = Written(Stored(m, f, fields[f]), fields[f])
  BY <1>1, <1>3
<1>5. \A f \in DOMAIN fields : ~Rejected(back, f, fields[f]) /\ Stored(back, f, fields[f]) = Stored(m, f, fields[f])
  BY <1>1, <1>2, <1>4, FieldReadBack DEF HoldsVariants
<1>6. \A f \in DOMAIN m \cap DOMAIN fields : ComesBack(m, f, fields[f], back)
  BY <1>2, <1>4, OwnComesBack DEF HoldsVariants
<1>7. ToMessage(message, back) = [ok |-> TRUE, stored |-> [f \in DOMAIN fields |-> Stored(back, f, fields[f])]]
  BY <1>5, AcceptedHasAll DEF fields
<1>8. [f \in DOMAIN fields |-> Stored(back, f, fields[f])] = stored
  BY <1>1, <1>5
<1> QED
  BY <1>6, <1>7, <1>8 DEF Returned, back, stored, fields

\* The length of a list given element by element.
LEMMA ListLength ==
  ASSUME NEW n \in Nat, NEW list, DOMAIN list = 1..n, list = [i \in 1..n |-> list[i]]
  PROVE  Len(list) = n
<1> DEFINE S == {list[i] : i \in 1..n}
<1>1. list \in [1..n -> S]
  OBVIOUS
<1>2. list \in Seq(S)
  BY <1>1, SeqDef
<1>3. Len(list) \in Nat /\ DOMAIN list = 1..Len(list)
  BY <1>2, LenProperties
<1> QED
  BY <1>3

\* The first element that is rejected, and what comes before it.
LEMMA AcceptedUpToBad ==
  ASSUME NEW message, NEW maps, IsList(maps)
  PROVE  LET sent == ListToMessages(message, maps)
         IN  \E n \in 0..Len(maps) :
               /\ sent = [ok |-> n = Len(maps),
                          elements |-> [i \in 1..(IF n = Len(maps) THEN n ELSE n + 1) |->
                                          ToMessage(message, maps[i]).stored]]
               /\ \A i \in 1..n : ToMessage(message, maps[i]).ok
               /\ (n = Len(maps)) \/ ~ToMessage(message, maps[n + 1]).ok
<1> DEFINE Good(m) == ToMessage(message, m).ok
           Sent(m) == ToMessage(message, m).stored
           Bad == {i \in 1..Len(maps) : ~Good(maps[i])}
           bad == IF Bad # {} THEN CHOOSE i \in Bad : \A j \in Bad : i <= j ELSE 0
           n == IF bad = 0 THEN Len(maps) ELSE bad - 1
           last == IF bad = 0 THEN Len(maps) ELSE bad
<1> Len(maps) \in Nat
  BY DEF IsList
<1>1. SelectInSeq(maps, LAMBDA m : ~ToMessage(message, m).ok) = bad
  BY DEF SelectInSeq, Min
<1>2. ListToMessages(message, maps) = [ok |-> bad = 0, elements |-> [i \in 1..last |-> Sent(maps[i])]]
  BY <1>1 DEF ListToMessages
<1> HIDE DEF Good, Sent, bad
<1>3. /\ Bad = {} => bad = 0
      /\ Bad # {} => bad \in Bad /\ \A j \in Bad : bad <= j
  <2>1. ASSUME Bad # {} PROVE bad \in Bad /\ \A j \in Bad : bad <= j
    <3>1. \E i \in Bad : \A j \in Bad : i <= j
      <4>1. Bad \in SUBSET Nat
        OBVIOUS
      <4> HIDE DEF Bad
      <4> QED
        BY <2>1, <4>1, MinOfSet
    <3> QED
      BY <2>1, <3>1 DEF bad
  <2>2. Bad = {} => bad = 0
    BY DEF bad
  <2> QED
    BY <2>1, <2>2
<1>4. /\ n \in 0..Len(maps) /\ (bad = 0 <=> n = Len(maps))
      /\ \A i \in 1..n : Good(maps[i])
      /\ n = Len(maps) \/ ~Good(maps[n + 1])
      /\ last = IF n = Len(maps) THEN n ELSE n + 1
  BY <1>3
<1> HIDE DEF n, last
<1>5. (bad = 0) = (n = Len(maps))
  BY <1>4
<1> QED
  BY <1>2, <1>4, <1>5 DEF Good, Sent

\* What is sent for a list of maps and written back is what SentBackUnchanged
\* says.
ReadBackFrom(message, maps) ==
  LET sent     == ListToMessages(message, maps)
      back     == [i \in DOMAIN sent.elements |-> ToMap(message, sent.elements[i])]
      again    == ListToMessages(message, back)
      accepted == IF sent.ok THEN Len(maps) ELSE Len(sent.elements) - 1
  IN  /\ accepted <= Len(maps) /\ (sent.ok \/ accepted < Len(maps))
      /\ sent.ok => again = sent
      /\ \A i \in 1..accepted :
           /\ again.elements[i] = sent.elements[i]
           /\ \A f \in DOMAIN maps[i] \cap DOMAIN FieldsOf(message) :
                ComesBack(maps[i], f, FieldsOf(message)[f], back[i])

LEMMA ListReadBack ==
  ASSUME NEW message \in Messages, NEW maps, IsList(maps), \A i \in DOMAIN maps : HoldsVariants(maps[i])
  PROVE  ReadBackFrom(message, maps)
<1> DEFINE Good(m) == ToMessage(message, m).ok
           Sent(m) == ToMessage(message, m).stored
           sent == ListToMessages(message, maps)
           back == [i \in DOMAIN sent.elements |-> ToMap(message, sent.elements[i])]
           again == ListToMessages(message, back)
           accepted == IF sent.ok THEN Len(maps) ELSE Len(sent.elements) - 1
           fields == FieldsOf(message)
<1> HIDE DEF Good, Sent, fields
<1> Len(maps) \in Nat
  BY DEF IsList
<1>1. PICK n \in 0..Len(maps) :
        /\ sent = [ok |-> n = Len(maps),
                   elements |-> [i \in 1..(IF n = Len(maps) THEN n ELSE n + 1) |-> Sent(maps[i])]]
        /\ \A i \in 1..n : Good(maps[i])
  BY AcceptedUpToBad DEF Good, Sent
<1> DEFINE last == IF n = Len(maps) THEN n ELSE n + 1
<1> HIDE DEF sent
<1>2. /\ sent.ok <=> n = Len(maps)
      /\ sent = [ok |-> n = Len(maps), elements |-> sent.elements]
      /\ sent.elements = [i \in 1..last |-> Sent(maps[i])]
  BY <1>1
<1>3. /\ last \in Nat /\ n \in 0..last /\ (n = Len(maps) => last = n)
      /\ n # Len(maps) => n < Len(maps) /\ n = last - 1
  OBVIOUS
<1> HIDE DEF last
<1>4. DOMAIN back = 1..last /\ \A i \in 1..last : back[i] = ToMap(message, Sent(maps[i]))
  BY <1>2
<1>5. back = [i \in 1..last |-> back[i]]
  BY <1>2
<1> HIDE DEF back
<1>6. Len(back) = last /\ Len(sent.elements) = last
  BY <1>2, <1>3, <1>4, <1>5, ListLength
<1>7. accepted = n
  BY <1>2, <1>3, <1>6
<1>8. \A i \in 1..n : /\ Good(back[i]) /\ Sent(back[i]) = Sent(maps[i])
                      /\ \A f \in DOMAIN maps[i] \cap DOMAIN fields : ComesBack(maps[i], f, fields[f], back[i])
  <2> SUFFICES ASSUME NEW i \in 1..n
               PROVE  /\ Good(back[i]) /\ Sent(back[i]) = Sent(maps[i])
                      /\ \A f \in DOMAIN maps[i] \cap DOMAIN fields : ComesBack(maps[i], f, fields[f], back[i])
    OBVIOUS
  <2>1. Returned(message, maps[i])
    <3>1. i \in DOMAIN maps
      BY DEF IsList
    <3>2. ToMessage(message, maps[i]).ok
      BY <1>1 DEF Good
    <3> QED
      BY <3>1, <3>2, MessageReadBack
  <2>2. back[i] = ToMap(message, Sent(maps[i]))
    BY <1>3, <1>4
  <2>3. ToMessage(message, back[i]) = [ok |-> TRUE, stored |-> Sent(maps[i])]
    BY <2>1, <2>2 DEF Returned, Sent
  <2> QED
    BY <2>1, <2>2, <2>3 DEF Returned, Good, Sent, fields
<1>9. IsList(back)
  BY <1>3, <1>4, <1>6 DEF IsList
<1>10. PICK k \in 0..last :
        /\ again = [ok |-> k = last, elements |-> [i \in 1..(IF k = last THEN k ELSE k + 1) |-> Sent(back[i])]]
        /\ (k = last) \/ ~Good(back[k + 1])
  BY <1>6, <1>9, AcceptedUpToBad DEF Good, Sent
<1> HIDE DEF again
<1>11. n <= k
  BY <1>3, <1>8, <1>10
<1>12. \A i \in 1..n : again.elements[i] = sent.elements[i]
  BY <1>2, <1>3, <1>8, <1>10, <1>11
<1>13. sent.ok => again = sent
  <2> SUFFICES ASSUME sent.ok PROVE again = sent
    OBVIOUS
  <2>1. n = Len(maps) /\ last = n /\ k = n
    BY <1>2, <1>3, <1>10, <1>11
  <2>2. [i \in 1..n |-> Sent(back[i])] = [i \in 1..n |-> Sent(maps[i])]
    BY <1>8
  <2> QED
    BY <1>2, <1>10, <2>1, <2>2
<1>14. accepted <= Len(maps) /\ (sent.ok \/ accepted < Len(maps))
  BY <1>2, <1>3, <1>7
<1> HIDE DEF accepted
<1> QED
  BY <1>7, <1>8, <1>12, <1>13, <1>14 DEF accepted, again, back, sent, fields, ReadBackFrom

\* An accepted command is written to a request that has one key, and is read
\* from it as the same command.
LEMMA CommandReadBack ==
  ASSUME NEW request, \A key \in DOMAIN request : HoldsVariants(request[key]), ToCommand(request).ok
  PROVE  ToCommand(ToRequest(ToCommand(request))) = ToCommand(request)
<1> DEFINE Known(asked) == {i \in 1..7 : CommandOrder[i] \in DOMAIN asked}
           Command(asked, key) == [ok |-> ToMessage(key, asked[key]).ok, command |-> key,
                                   stored |-> ToMessage(key, asked[key]).stored]
           first == Min(Known(request))
           key == CommandOrder[first]
           sent == ToCommand(request)
           stored == ToMessage(key, request[key]).stored
           back == ToRequest(sent)
<1>1. ASSUME NEW asked
      PROVE  ToCommand(asked) = IF Known(asked) = {} THEN NoCommand ELSE Command(asked, CommandOrder[Min(Known(asked))])
  <2>1. DOMAIN CommandOrder = 1..7
    BY DEF CommandOrder
  <2> QED
    BY <2>1 DEF ToCommand
<1> HIDE DEF sent
<1>2. Known(request) # {} /\ sent = Command(request, key)
  BY <1>1 DEF NoCommand, sent
<1>3. first \in Known(request)
  <2> DEFINE known == Known(request)
  <2>1. known \in SUBSET Nat /\ known # {}
    BY <1>2
  <2> HIDE DEF known
  <2>2. Min(known) \in known
    BY <2>1, MinOfSet
  <2> QED
    BY <2>2 DEF known
<1>4. /\ key \in Messages /\ key # Unspecified
      /\ \A i \in 1..7 : CommandOrder[i] = key <=> i = first
  <2> HIDE DEF first
  <2>1. first \in 1..7
    BY <1>3
  <2>2. CommandOrder[first] \in DOMAIN CommandFields
    BY <2>1 DEF CommandOrder, CommandFields
  <2>3. CommandOrder[first] # Unspecified
    BY <2>1 DEF CommandOrder, Unspecified
  <2>4. \A i, j \in 1..7 : CommandOrder[i] = CommandOrder[j] => i = j
    BY DEF CommandOrder
  <2> QED
    BY <2>1, <2>2, <2>3, <2>4 DEF Messages
<1> HIDE DEF key
<1>5. ToMessage(key, request[key]).ok /\ HoldsVariants(request[key])
  BY <1>2, <1>3 DEF key, sent
<1>6. ToMessage(key, ToMap(key, stored)) = [ok |-> TRUE, stored |-> stored]
  BY <1>4, <1>5, MessageReadBack DEF Returned
<1>7. DOMAIN back = {key} /\ back[key] = ToMap(key, stored)
  BY <1>2, <1>4 DEF ToRequest
<1> HIDE DEF back
<1>8. Known(back) = {first}
  BY <1>3, <1>4, <1>7
<1>9. ToCommand(back) = Command(back, key)
  <2>1. first \in Nat
    BY <1>3
  <2> HIDE DEF first, Known
  <2>2. {first} \in SUBSET Nat /\ {first} # {}
    BY <2>1
  <2>3. Min({first}) = first
    BY <2>2, MinOfSet
  <2> QED
    BY <1>1, <1>8, <2>3 DEF key
<1>10. Command(back, key) = sent
  <2> DEFINE was == ToMessage(key, request[key])
             is == ToMessage(key, back[key])
             all == [f \in DOMAIN FieldsOf(key) |-> Stored(request[key], f, FieldsOf(key)[f])]
  <2>1. was = [ok |-> TRUE, stored |-> all]
    BY <1>5, AcceptedHasAll
  <2>2. is = [ok |-> TRUE, stored |-> was.stored]
    BY <1>6, <1>7
  <2>3. sent = [ok |-> was.ok, command |-> key, stored |-> was.stored]
    BY <1>2
  <2> HIDE DEF was, is, all
  <2>4. [ok |-> is.ok, command |-> key, stored |-> is.stored] = sent
    BY <2>1, <2>2, <2>3
  <2> QED
    BY <2>4 DEF is
<1> QED
  BY <1>9, <1>10 DEF back, sent

\* What was read from a document or from maps, and what a second round gave.
RoundsGiven ==
  /\ Answered("document") =>
       LET imported == ImportFromJson(query.about)
       IN  answer = [imported |-> imported, again |-> ImportFromJson(ExportToJson(imported))]
  /\ Answered("list") =>
       LET message == query.about.message
           sent    == ListToMessages(message, query.about.maps)
           back    == [i \in DOMAIN sent.elements |-> ToMap(message, sent.elements[i])]
       IN  answer = [sent |-> sent, back |-> back, again |-> ListToMessages(message, back)]
  /\ Answered("command") =>
       LET sent == ToCommand(query.about)
       IN  answer = [sent |-> sent, again |-> ToCommand(ToRequest(sent))]

\* Every reachable state has WrittenIsReadBack: what was read, a graph from a
\* document, a list of messages or a command from maps, is what is read again
\* after it was written, but for sides of connections that are none of the
\* four; what the reading converted stays converted, and a value of a field's
\* own kind is written as it was.
THEOREM RoundsChangeNothing == Spec => []WrittenIsReadBack
<1>1. Init => RoundsGiven
  BY DEF Init, RoundsGiven, Answered
<1>2. RoundsGiven /\ [Next]_vars => RoundsGiven'
  <2> SUFFICES ASSUME RoundsGiven, [Next]_vars PROVE RoundsGiven'
    OBVIOUS
  <2>1. CASE UNCHANGED vars
    BY <2>1 DEF vars, RoundsGiven, Answered
  <2>2. CASE AskAnything \/ Forget
    BY <2>2, AskingGives DEF Forget, RoundsGiven, Answered
  <2>3. CASE AnswerDocument
    BY <2>3 DEF AnswerDocument, Asked, Answer, GoTo, RoundsGiven, Answered
  <2>4. CASE AnswerList
    BY <2>4 DEF AnswerList, Asked, Answer, GoTo, RoundsGiven, Answered
  <2>5. CASE AnswerCommand
    BY <2>5 DEF AnswerCommand, Asked, Answer, GoTo, RoundsGiven, Answered
  <2>6. CASE UNCHANGED query /\ query.kind \notin {"document", "list", "command"}
    BY <2>6 DEF RoundsGiven, Answered
  <2> QED
    BY <2>1, <2>2, <2>3, <2>4, <2>5, <2>6, StepOfKind
<1>3. RoundsGiven /\ AskedFor => WrittenIsReadBack
  <2> SUFFICES ASSUME RoundsGiven, AskedFor PROVE WrittenIsReadBack
    OBVIOUS
  <2>1. ReimportedUnchanged
    <3> DEFINE was == ImportFromJson(query.about)
    <3>1. Answered("document") => answer = [imported |-> was, again |-> WithSettledSides(was)]
      BY ImportReadBack DEF RoundsGiven
    <3> HIDE DEF was
    <3>2. Answered("document") => answer.imported = was /\ answer.again = WithSettledSides(was)
      BY <3>1
    <3> QED
      BY <3>2, Zenon DEF ReimportedUnchanged, WithSettledSides, WithSides
  <2>2. SentBackUnchanged
    <3> SUFFICES ASSUME Answered("list") PROVE SentBackUnchanged
      BY DEF SentBackUnchanged
    <3> DEFINE message == query.about.message
               maps == query.about.maps
               sent == ListToMessages(message, maps)
               back == [i \in DOMAIN sent.elements |-> ToMap(message, sent.elements[i])]
               again == ListToMessages(message, back)
    <3>1. /\ message \in Messages /\ IsList(maps)
          /\ \A i \in DOMAIN maps : HoldsVariants(maps[i])
      BY ListsAreOfMessages DEF AskedFor, Answered
    <3>2. ReadBackFrom(message, maps)
      BY <3>1, ListReadBack
    <3>3. answer = [sent |-> sent, back |-> back, again |-> again]
      BY DEF RoundsGiven
    <3> HIDE DEF sent, back, again
    <3>4. answer.sent = sent /\ answer.back = back /\ answer.again = again
      BY <3>3
    <3> QED
      BY <3>2, <3>4, ZenonT(40) DEF SentBackUnchanged, ReadBackFrom, ComesBack, sent, back, again
  <2>3. CommandsSentBack
    <3> DEFINE sent == ToCommand(query.about)
               again == ToCommand(ToRequest(sent))
    <3> SUFFICES ASSUME Answered("command"), answer.sent.ok PROVE answer.again = answer.sent
      BY DEF CommandsSentBack
    <3>1. answer = [sent |-> sent, again |-> again]
      BY DEF RoundsGiven
    <3>2. sent.ok => again = sent
      BY CommandReadBack, CommandsAreMaps DEF AskedFor, Answered
    <3> HIDE DEF sent, again
    <3> QED
      BY <3>1, <3>2
  <2> QED
    BY <2>1, <2>2, <2>3 DEF WrittenIsReadBack
<1> QED
  BY <1>1, <1>2, <1>3, AlwaysAskedFor, PTL DEF Spec

(***************************************************************************)
(* Sorted lists.                                                           *)
(***************************************************************************)
\* Of two elements one comes first, and nothing comes before itself.
IsStrictOrder(R, S) ==
  /\ \A x \in S : <<x, x>> \notin R
  /\ \A x, y, z \in S : <<x, y>> \in R /\ <<y, z>> \in R => <<x, z>> \in R
  /\ \A x, y \in S : x = y \/ <<x, y>> \in R \/ <<y, x>> \in R

\* What comes before an element.
Lower(R, S, x) == {y \in S : <<y, x>> \in R}

\* A list of the elements of a set, each once.
IsListing(list, S) ==
  /\ list \in Seq(S)
  /\ \A x \in S : \E i \in 1 .. Len(list) : list[i] = x
  /\ \A i, j \in 1 .. Len(list) : list[i] = list[j] => i = j

\* The elements by how many come before them.
IsRanking(list, R, S) ==
  list = [i \in 1 .. Cardinality(S) |-> CHOOSE x \in S : Cardinality(Lower(R, S, x)) = i - 1]

\* How many come before an element grows with the order.
LEMMA LowerGrows ==
  ASSUME NEW S, IsFiniteSet(S), NEW R, IsStrictOrder(R, S), NEW x \in S, NEW y \in S, <<x, y>> \in R
  PROVE  /\ Cardinality(Lower(R, S, x)) \in Nat /\ Cardinality(Lower(R, S, y)) \in Nat
         /\ Cardinality(Lower(R, S, x)) < Cardinality(Lower(R, S, y))
<1> DEFINE A == Lower(R, S, x)
           B == Lower(R, S, y)
<1>1. IsFiniteSet(A) /\ IsFiniteSet(B)
  BY FS_Subset DEF Lower
<1>2. A \in SUBSET B /\ x \in B /\ x \notin A
  BY DEF Lower, IsStrictOrder
<1>3. Cardinality(A) \in Nat /\ Cardinality(B) \in Nat
  BY <1>1, FS_CardinalityType
<1>4. Cardinality(A) <= Cardinality(B) /\ Cardinality(A) # Cardinality(B)
  <2> HIDE DEF A, B
  <2> QED
    BY <1>1, <1>2, FS_Subset
<1> QED
  BY <1>3, <1>4

\* The elements by how many come before them are a list of them.
LEMMA RankedIsListing ==
  ASSUME NEW S, IsFiniteSet(S), NEW R, IsStrictOrder(R, S),
         NEW list, IsRanking(list, R, S)
  PROVE  /\ IsListing(list, S) /\ Len(list) = Cardinality(S)
         /\ S # {} => Lower(R, S, list[1]) = {}
<1> DEFINE c == Cardinality(S)
           rank == [x \in S |-> Cardinality(Lower(R, S, x)) + 1]
<1>1. c \in Nat
  BY FS_CardinalityType
<1>2. ASSUME NEW x \in S PROVE Cardinality(Lower(R, S, x)) \in 0 .. c - 1
  <2>1. Lower(R, S, x) \in SUBSET (S \ {x})
    BY DEF Lower, IsStrictOrder
  <2>2. IsFiniteSet(S \ {x}) /\ Cardinality(S \ {x}) = c - 1
    BY FS_RemoveElement
  <2>3. IsFiniteSet(Lower(R, S, x)) /\ Cardinality(Lower(R, S, x)) <= c - 1
    BY <2>1, <2>2, FS_Subset
  <2>4. Cardinality(Lower(R, S, x)) \in Nat
    BY <2>3, FS_CardinalityType
  <2> HIDE DEF c
  <2> QED
    BY <1>1, <2>3, <2>4
<1> HIDE DEF c
<1>3. rank \in [S -> 1 .. c] /\ \A x \in S : rank[x] = Cardinality(Lower(R, S, x)) + 1
  BY <1>1, <1>2
<1> HIDE DEF rank
<1>4. ASSUME NEW x \in S, NEW y \in S, rank[x] = rank[y] PROVE x = y
  <2>1. Cardinality(Lower(R, S, x)) \in Int /\ Cardinality(Lower(R, S, y)) \in Int
    BY <1>1, <1>2
  <2>2. Cardinality(Lower(R, S, x)) = Cardinality(Lower(R, S, y))
    BY <1>3, <1>4, <2>1
  <2>3. <<x, y>> \notin R
    BY <2>2, LowerGrows
  <2>4. <<y, x>> \notin R
    BY <2>2, LowerGrows
  <2> QED
    BY <2>3, <2>4 DEF IsStrictOrder
<1>5. rank \in Injection(S, 1 .. c)
  BY <1>3, <1>4 DEF Injection, IsInjective
<1>6. IsFiniteSet(1 .. c) /\ Cardinality(1 .. c) = c
  BY <1>1, FS_Interval
<1>7. rank \in Surjection(S, 1 .. c)
  BY <1>5, <1>6, FS_Injection DEF c
<1>8. \A k \in 1 .. c : \E x \in S : rank[x] = k
  BY <1>7 DEF Surjection
<1>9. ASSUME NEW k \in 1 .. c
      PROVE  list[k] \in S /\ Cardinality(Lower(R, S, list[k])) = k - 1 /\ rank[list[k]] = k
  BY <1>1, <1>2, <1>3, <1>8 DEF c, IsRanking
<1>10. DOMAIN list = 1 .. c
  BY DEF c, IsRanking
<1>11. list \in [1 .. c -> S]
  BY <1>9 DEF c, IsRanking
<1>12. list \in Seq(S) /\ Len(list) = c
  BY <1>1, <1>10, <1>11, SeqDef, ListLength
<1>13. ASSUME NEW x \in S PROVE \E k \in 1 .. c : list[k] = x
  BY <1>3, <1>4, <1>9
<1>14. \A k, l \in 1 .. c : list[k] = list[l] => k = l
  <2> SUFFICES ASSUME NEW k \in 1 .. c, NEW l \in 1 .. c, list[k] = list[l] PROVE k = l
    OBVIOUS
  <2>1. rank[list[k]] = k /\ rank[list[l]] = l
    BY <1>9
  <2> QED
    BY <2>1
<1>15. S # {} => Lower(R, S, list[1]) = {}
  <2> SUFFICES ASSUME NEW x \in S PROVE Lower(R, S, list[1]) = {}
    OBVIOUS
  <2>1. 1 \in 1 .. c
    BY <1>1, <1>3
  <2>2. Cardinality(Lower(R, S, list[1])) = 0
    BY <1>9, <2>1
  <2>3. IsFiniteSet(Lower(R, S, list[1]))
    BY FS_Subset DEF Lower
  <2> QED
    BY <2>2, <2>3, FS_EmptySet
<1> QED
  BY <1>12, <1>13, <1>14, <1>15 DEF IsListing, c

\* The connections of a graph in the order of their scores.
Before(g, p, links) == {s \in links \X links : GoesBefore(g, p, s[1], s[2])}

\* Scores are numbers.
LEMMA ScoresAreNumbers ==
  ASSUME NEW g, NEW p, IsGraph(g, p), NEW k \in DOMAIN g.links
  PROVE  Score(g, p, k) \in Int /\ g.links[k].target \in Int /\ k \in Int
BY DEF IsGraph, Score

\* GoesBefore orders the connections.
LEMMA GoesBeforeOrders ==
  ASSUME NEW g, NEW p, IsGraph(g, p), NEW links \in SUBSET (DOMAIN g.links)
  PROVE  /\ IsFiniteSet(links)
         /\ IsStrictOrder(Before(g, p, links), links)
<1>1. IsFiniteSet(links)
  BY FS_Subset DEF IsGraph
<1>2. \A k \in links : Score(g, p, k) \in Int /\ g.links[k].target \in Int /\ k \in Int
  BY ScoresAreNumbers
<1>3. \A j, k \in links : <<j, k>> \in Before(g, p, links) <=> GoesBefore(g, p, j, k)
  BY DEF Before
<1>4. \A j, k \in links :
        GoesBefore(g, p, j, k) <=>
           \/ Score(g, p, j) > Score(g, p, k)
           \/ Score(g, p, j) = Score(g, p, k) /\ g.links[j].target < g.links[k].target
           \/ Score(g, p, j) = Score(g, p, k) /\ g.links[j].target = g.links[k].target /\ j < k
  BY DEF GoesBefore
<1> QED
  BY <1>1, <1>2, <1>3, <1>4 DEF IsStrictOrder

\* A sorted list of connections has each of them once; nothing goes before
\* the first.
LEMMA InOrderLists ==
  ASSUME NEW g, NEW p, IsGraph(g, p), NEW links \in SUBSET (DOMAIN g.links)
  PROVE  /\ IsListing(InOrder(g, p, links), links)
         /\ Len(InOrder(g, p, links)) = Cardinality(links)
         /\ links # {} => \E first \in links : \A j \in links : ~GoesBefore(g, p, j, first)
<1> DEFINE R == Before(g, p, links)
           list == InOrder(g, p, links)
<1>1. \A k \in links : Earlier(g, p, links, k) = Lower(R, links, k)
  BY DEF Before, Lower, Earlier
<1>2. IsFiniteSet(links) /\ IsStrictOrder(R, links)
  BY GoesBeforeOrders
<1> HIDE DEF R
<1>3. ASSUME NEW i \in 1 .. Cardinality(links)
      PROVE  list[i] = CHOOSE k \in links : Cardinality(Lower(R, links, k)) = i - 1
  BY <1>1 DEF InOrder
<1>4. IsRanking(list, R, links)
  <2>0. ASSUME NEW f, f = InOrder(g, p, links) PROVE f = [i \in 1 .. Cardinality(links) |-> f[i]]
    BY <2>0 DEF InOrder
  <2>1. list = [i \in 1 .. Cardinality(links) |-> list[i]]
    BY <2>0
  <2> HIDE DEF list
  <2> QED
    BY <1>3, <2>1 DEF IsRanking
<1> HIDE DEF list
<1>5. /\ IsListing(list, links) /\ Len(list) = Cardinality(links)
      /\ links # {} => Lower(R, links, list[1]) = {}
  BY <1>2, <1>4, RankedIsListing
<1>6. ASSUME links # {} PROVE \E first \in links : \A j \in links : ~GoesBefore(g, p, j, first)
  <2>1. Cardinality(links) \in Nat /\ Cardinality(links) # 0
    BY <1>2, <1>6, FS_CardinalityType, FS_EmptySet
  <2>2. list[1] \in links
    BY <1>5, <2>1, LenProperties DEF IsListing
  <2>3. Earlier(g, p, links, list[1]) = {}
    BY <1>1, <1>5, <1>6, <2>2
  <2> QED
    BY <2>2, <2>3 DEF Earlier
<1> QED
  BY <1>5, <1>6 DEF list

\* Numbers in ascending order are listed each once.
LEMMA AscendingLists ==
  ASSUME NEW ids, IsFiniteSet(ids), ids \subseteq Int
  PROVE  IsListing(Ascending(ids), ids) /\ Len(Ascending(ids)) = Cardinality(ids)
<1> DEFINE R == {s \in ids \X ids : s[1] < s[2]}
           list == Ascending(ids)
<1>1. \A n \in ids : Lesser(ids, n) = Lower(R, ids, n)
  BY DEF Lower, Lesser
<1>2. IsStrictOrder(R, ids)
  BY DEF IsStrictOrder
<1> HIDE DEF R
<1>3. ASSUME NEW i \in 1 .. Cardinality(ids)
      PROVE  list[i] = CHOOSE n \in ids : Cardinality(Lower(R, ids, n)) = i - 1
  BY <1>1 DEF Ascending
<1>4. IsRanking(list, R, ids)
  <2>0. ASSUME NEW f, f = Ascending(ids) PROVE f = [i \in 1 .. Cardinality(ids) |-> f[i]]
    BY <2>0 DEF Ascending
  <2>1. list = [i \in 1 .. Cardinality(ids) |-> list[i]]
    BY <2>0
  <2> HIDE DEF list
  <2> QED
    BY <1>3, <2>1 DEF IsRanking
<1> HIDE DEF list
<1>5. IsListing(list, ids) /\ Len(list) = Cardinality(ids)
  BY <1>2, <1>4, RankedIsListing
<1> QED
  BY <1>5 DEF list

(***************************************************************************)
(* What the steps of a graph reach.                                        *)
(***************************************************************************)
\* More is reached from more.
LEMMA ReachedFromMore ==
  ASSUME NEW steps, NEW less, NEW more, less \subseteq more, NEW n \in Nat
  PROVE  ReachedIn(steps, less, n) \subseteq ReachedIn(steps, more, n)
<1>0. \A from : \A i \in Nat :
        ReachedIn(steps, from, i + 1) = ReachedIn(steps, from, i) \cup Onward(steps, ReachedIn(steps, from, i))
  BY ReachedInLevels
<1> DEFINE S == {k \in Nat : ReachedIn(steps, less, k) \subseteq ReachedIn(steps, more, k)}
<1>1. 0 \in S
  BY ReachedInLevels
<1>2. ASSUME NEW k \in Nat, k \in S PROVE k + 1 \in S
  BY <1>0, <1>2 DEF Onward
<1>3. Nat \subseteq S
  <2> HIDE DEF S
  <2> QED
    BY <1>1, <1>2, AllNumbers
<1> QED
  BY <1>3

\* A step leads on from what it starts at, and to nothing that is pruned.
LEMMA StepsOfNode ==
  ASSUME NEW g, NEW p, NEW n, ~Pruned(g, p, n)
  PROVE  /\ \A t : t \in Onward(Steps(g, p), {n}) <=>
                     \E k \in LinksOut(g, p, n) : t = g.links[k].target /\ ~Pruned(g, p, t)
         /\ Onward(Steps(g, p), {n}) \subseteq Kept(g, p)
         /\ n \notin Nodes(g) => Onward(Steps(g, p), {n}) = {}
<1>1. ASSUME NEW t, t \in Onward(Steps(g, p), {n})
      PROVE  /\ \E k \in LinksOut(g, p, n) : t = g.links[k].target /\ ~Pruned(g, p, t)
             /\ t \in Kept(g, p) /\ n \in Nodes(g)
  BY <1>1 DEF Onward, Steps, LinksOut, Kept
<1>2. ASSUME NEW k \in LinksOut(g, p, n), ~Pruned(g, p, g.links[k].target)
      PROVE  g.links[k].target \in Onward(Steps(g, p), {n})
  <2> DEFINE s == <<g.links[k].source, g.links[k].target>>
  <2>1. /\ k \in DOMAIN g.links /\ Linking(g, k) /\ Allowed(p, g.links[k].label)
        /\ g.links[k].source = n
    BY DEF LinksOut
  <2>2. n \in Kept(g, p) /\ g.links[k].target \in Kept(g, p)
    BY <1>2, <2>1 DEF Linking, Kept
  <2>3. s \in Steps(g, p)
    BY <2>1, <2>2 DEF Steps
  <2>4. s[1] = n /\ s[2] = g.links[k].target
    BY <2>1
  <2> HIDE DEF s
  <2> QED
    BY <2>3, <2>4 DEF Onward
<1> QED
  BY <1>1, <1>2

\* What leads on from a set leads on from one of its elements.
LEMMA OnwardFromOne ==
  ASSUME NEW steps, NEW S
  PROVE  \A t : t \in Onward(steps, S) <=> \E n \in S : t \in Onward(steps, {n})
BY DEF Onward

\* The entry points are not pruned.
LEMMA EntriesKept ==
  ASSUME NEW g, NEW p
  PROVE  \A n \in SearchEntries(g, p) : ~Pruned(g, p, n)
BY DEF SearchEntries

\* In as many steps as there are components everything is reached, also from
\* entry points that are no components.
LEMMA AllReached ==
  ASSUME NEW g, NEW p, IsGraph(g, p)
  PROVE  LET R == ReachedIn(Steps(g, p), SearchEntries(g, p), Cardinality(Nodes(g)))
         IN  /\ SearchEntries(g, p) \subseteq R /\ Onward(Steps(g, p), R) \subseteq R
             /\ Cardinality(Nodes(g)) \in Nat
<1> DEFINE St == Steps(g, p)
           E == SearchEntries(g, p)
           E1 == E \cap Nodes(g)
           c == Cardinality(Nodes(g))
           R == ReachedIn(St, E, c)
           R1 == ReachedIn(St, E1, c)
<1>1. IsFiniteSet(Nodes(g)) /\ c \in Nat
  BY FS_CardinalityType DEF IsGraph
<1>2. \A S : Onward(St, S) \subseteq Nodes(g)
  BY DEF Onward, Steps, Kept
<1>3. R1 \subseteq Nodes(g) /\ E1 \subseteq R1 /\ Onward(St, R1) \subseteq R1
  <2> HIDE DEF St, E, c
  <2>1. c >= Cardinality(Nodes(g))
    BY <1>1 DEF c
  <2> QED
    BY <1>1, <1>2, <2>1, ReachedClosed
<1>4. Onward(St, E \cup R1) \subseteq E \cup R1
  <2>1. \A n \in E \ Nodes(g) : Onward(St, {n}) = {}
    BY StepsOfNode, EntriesKept
  <2> HIDE DEF St, E, R1
  <2>2. \A n \in (E \cup R1) : n \in E \ Nodes(g) \/ n \in R1
    BY <1>3
  <2>3. SUFFICES ASSUME NEW t \in Onward(St, E \cup R1) PROVE t \in R1
    OBVIOUS
  <2>4. PICK n \in E \cup R1 : t \in Onward(St, {n})
    BY OnwardFromOne
  <2>5. n \in R1
    BY <2>1, <2>2, <2>4
  <2>6. t \in Onward(St, R1)
    BY <2>4, <2>5, OnwardFromOne
  <2> QED
    BY <1>3, <2>6
<1>5. R \subseteq E \cup R1
  <2> HIDE DEF St, E, R1, c
  <2>1. E \subseteq E \cup R1
    OBVIOUS
  <2> QED
    BY <1>1, <1>4, <2>1, LeastClosed
<1>6. E \subseteq R /\ R1 \subseteq R
  <2> HIDE DEF St, E, c
  <2>1. E1 \subseteq E
    OBVIOUS
  <2> QED
    BY <1>1, <2>1, ReachedFromMore, ReachedFromStart
<1>7. R = E \cup R1
  <2> HIDE DEF E, R1, R
  <2> QED
    BY <1>5, <1>6
<1> QED
  BY <1>1, <1>4, <1>6, <1>7

(***************************************************************************)
(* Lists, by what they hold and by how any two of their elements are       *)
(* related, the earlier to the later one.                                  *)
(***************************************************************************)
Pairwise(list, R) == \A i, j \in 1 .. Len(list) : i < j => <<list[i], list[j]>> \in R

\* The elements of a list.
LEMMA ElementsOf ==
  ASSUME NEW T, NEW list \in Seq(T)
  PROVE  /\ ToSet(list) = {list[i] : i \in 1 .. Len(list)}
         /\ Len(list) \in Nat /\ DOMAIN list = 1 .. Len(list) /\ ToSet(list) \subseteq T
<1>1. Len(list) \in Nat /\ DOMAIN list = 1 .. Len(list) /\ \A i \in 1 .. Len(list) : list[i] \in T
  BY LenProperties
<1> QED
  BY <1>1 DEF ToSet

\* The elements of two lists, one after the other.
LEMMA ConcatHolds ==
  ASSUME NEW T, NEW a \in Seq(T), NEW b \in Seq(T)
  PROVE  /\ a \o b \in Seq(T) /\ ToSet(a \o b) = ToSet(a) \cup ToSet(b)
         /\ \A R : /\ Pairwise(a, R) /\ Pairwise(b, R)
                   /\ \A x \in ToSet(a), y \in ToSet(b) : <<x, y>> \in R
                   => Pairwise(a \o b, R)
<1> DEFINE m == Len(a)
           n == Len(b)
           c == a \o b
<1>1. m \in Nat /\ n \in Nat
  BY LenProperties
<1>2. /\ c \in Seq(T) /\ Len(c) = m + n
      /\ \A i \in 1 .. m + n : c[i] = IF i <= m THEN a[i] ELSE b[i - m]
  BY ConcatProperties
<1> HIDE DEF c
<1>3. ASSUME NEW i \in 1 .. Len(c)
      PROVE  \/ i \in 1 .. m /\ c[i] = a[i]
             \/ i - m \in 1 .. n /\ c[i] = b[i - m] /\ ~(i <= m)
  BY <1>1, <1>2
<1>4. /\ \A i \in 1 .. m : i \in 1 .. Len(c) /\ c[i] = a[i]
      /\ \A j \in 1 .. n : m + j \in 1 .. Len(c) /\ c[m + j] = b[j]
  <2>1. ASSUME NEW i \in 1 .. m PROVE i \in 1 .. Len(c) /\ c[i] = a[i]
    <3>1. i \in 1 .. m + n /\ i <= m
      BY <1>1
    <3> QED
      BY <1>2, <3>1
  <2>2. ASSUME NEW j \in 1 .. n PROVE m + j \in 1 .. Len(c) /\ c[m + j] = b[j]
    <3>1. m + j \in 1 .. m + n /\ ~(m + j <= m) /\ (m + j) - m = j
      BY <1>1
    <3> QED
      BY <1>2, <3>1
  <2> QED
    BY <2>1, <2>2
<1>5. /\ ToSet(a) = {a[i] : i \in 1 .. m} /\ ToSet(b) = {b[i] : i \in 1 .. n}
      /\ ToSet(c) = {c[i] : i \in 1 .. Len(c)}
  BY <1>2, ElementsOf
<1> HIDE DEF m, n
<1>6. ToSet(c) = ToSet(a) \cup ToSet(b)
  <2>1. ASSUME NEW x \in ToSet(c) PROVE x \in ToSet(a) \cup ToSet(b)
    <3>1. PICK i \in 1 .. Len(c) : x = c[i]
      BY <1>5
    <3> QED
      BY <1>3, <1>5, <3>1
  <2>2. ASSUME NEW x \in ToSet(a) PROVE x \in ToSet(c)
    BY <1>4, <1>5
  <2>3. ASSUME NEW x \in ToSet(b) PROVE x \in ToSet(c)
    <3>1. PICK j \in 1 .. n : x = b[j]
      BY <1>5
    <3>2. m + j \in 1 .. Len(c) /\ c[m + j] = x
      BY <1>4, <3>1
    <3> QED
      BY <1>5, <3>2
  <2> QED
    BY <2>1, <2>2, <2>3
<1>7. ASSUME NEW R, Pairwise(a, R), Pairwise(b, R), \A x \in ToSet(a), y \in ToSet(b) : <<x, y>> \in R
      PROVE  Pairwise(c, R)
  <2> SUFFICES ASSUME NEW i \in 1 .. Len(c), NEW j \in 1 .. Len(c), i < j PROVE <<c[i], c[j]>> \in R
    BY DEF Pairwise
  <2>1. CASE j \in 1 .. m /\ c[j] = a[j]
    <3>1. i \in 1 .. m /\ c[i] = a[i]
      BY <1>1, <1>2, <1>3, <2>1
    <3> QED
      BY <1>7, <2>1, <3>1 DEF Pairwise, m
  <2>2. CASE j - m \in 1 .. n /\ c[j] = b[j - m]
    <3>1. CASE i \in 1 .. m /\ c[i] = a[i]
      BY <1>5, <1>7, <2>2, <3>1
    <3>2. CASE i - m \in 1 .. n /\ c[i] = b[i - m]
      <4>1. i - m < j - m
        BY <1>1, <1>2
      <4> QED
        BY <1>7, <2>2, <3>2, <4>1 DEF Pairwise, n
    <3> QED
      BY <1>3, <3>1, <3>2
  <2> QED
    BY <1>3, <2>1, <2>2
<1> QED
  BY <1>2, <1>6, <1>7 DEF c

\* The first element of a list and the others.
LEMMA TailHolds ==
  ASSUME NEW T, NEW list \in Seq(T), list # <<>>
  PROVE  /\ Tail(list) \in Seq(T) /\ Head(list) \in T
         /\ ToSet(list) = {Head(list)} \cup ToSet(Tail(list))
         /\ \A R : Pairwise(list, R) =>
              Pairwise(Tail(list), R) /\ \A x \in ToSet(Tail(list)) : <<Head(list), x>> \in R
<1> DEFINE n == Len(list)
           t == Tail(list)
<1>1. n \in Nat /\ n # 0
  BY LenProperties, EmptySeq
<1>2. /\ t \in Seq(T) /\ Len(t) = n - 1 /\ Head(list) = list[1] /\ Head(list) \in T
      /\ \A i \in 1 .. n - 1 : t[i] = list[i + 1]
  BY HeadTailProperties
<1> HIDE DEF t
<1>3. ToSet(list) = {list[i] : i \in 1 .. n} /\ ToSet(t) = {t[i] : i \in 1 .. Len(t)}
  BY <1>2, ElementsOf
<1> HIDE DEF n
<1>4. /\ 1 \in 1 .. n
      /\ \A i \in 1 .. Len(t) : i + 1 \in 1 .. n /\ 1 < i + 1 /\ t[i] = list[i + 1]
  BY <1>1, <1>2
<1>5. ToSet(list) = {Head(list)} \cup ToSet(t)
  <2>1. ASSUME NEW x \in ToSet(list) PROVE x = Head(list) \/ x \in ToSet(t)
    <3>1. PICK i \in 1 .. n : x = list[i]
      BY <1>3
    <3>2. CASE i = 1
      BY <1>2, <3>1, <3>2
    <3>3. CASE i # 1
      <4>1. i - 1 \in 1 .. n - 1 /\ (i - 1) + 1 = i
        BY <1>1, <3>3
      <4>2. t[i - 1] = list[i]
        BY <1>2, <4>1
      <4> QED
        BY <1>2, <1>3, <3>1, <4>1, <4>2
    <3> QED
      BY <3>2, <3>3
  <2>2. Head(list) \in ToSet(list)
    BY <1>2, <1>3, <1>4
  <2>3. ASSUME NEW x \in ToSet(t) PROVE x \in ToSet(list)
    BY <1>3, <1>4
  <2> QED
    BY <2>1, <2>2, <2>3
<1>6. ASSUME NEW R, Pairwise(list, R)
      PROVE  Pairwise(t, R) /\ \A x \in ToSet(t) : <<Head(list), x>> \in R
  <2>1. ASSUME NEW i \in 1 .. Len(t), NEW j \in 1 .. Len(t), i < j PROVE <<t[i], t[j]>> \in R
    <3>1. i + 1 \in 1 .. n /\ j + 1 \in 1 .. n /\ i + 1 < j + 1 /\ t[i] = list[i + 1] /\ t[j] = list[j + 1]
      BY <1>1, <1>2, <1>4, <2>1
    <3>2. <<list[i + 1], list[j + 1]>> \in R
      BY <1>6, <3>1 DEF Pairwise, n
    <3> QED
      BY <3>1, <3>2
  <2>2. ASSUME NEW x \in ToSet(t) PROVE <<Head(list), x>> \in R
    <3>1. PICK i \in 1 .. Len(t) : x = t[i]
      BY <1>3
    <3>2. <<list[1], list[i + 1]>> \in R
      BY <1>4, <1>6 DEF Pairwise, n
    <3> QED
      BY <1>2, <1>4, <3>1, <3>2
  <2> QED
    BY <2>1, <2>2 DEF Pairwise
<1> QED
  BY <1>2, <1>5, <1>6 DEF t

\* A list with one element.
LEMMA SingleHolds ==
  ASSUME NEW T, NEW x \in T
  PROVE  /\ <<x>> \in Seq(T) /\ ToSet(<<x>>) = {x}
         /\ \A R : Pairwise(<<x>>, R)
         /\ \A list \in Seq(T) : Append(list, x) = list \o <<x>>
<1>1. <<x>> \in Seq(T) /\ Len(<<x>>) = 1 /\ <<x>>[1] = x
  OBVIOUS
<1>2. ToSet(<<x>>) = {x}
  <2> DEFINE one == <<x>>
  <2>1. one \in Seq(T) /\ Len(one) = 1 /\ one[1] = x
    BY <1>1
  <2> HIDE DEF one
  <2>2. ToSet(one) = {one[i] : i \in 1 .. Len(one)}
    BY <2>1, ElementsOf
  <2>3. ToSet(one) = {x}
    BY <2>1, <2>2
  <2> QED
    BY <2>3 DEF one
<1>3. \A R : Pairwise(<<x>>, R)
  BY <1>1 DEF Pairwise
<1>4. \A list \in Seq(T) : Append(list, x) = list \o <<x>>
  BY AppendIsConcat
<1> QED
  BY <1>1, <1>2, <1>3, <1>4

\* One more at the end of a list.
LEMMA AppendHolds ==
  ASSUME NEW T, NEW list \in Seq(T), NEW x \in T
  PROVE  /\ Append(list, x) \in Seq(T) /\ ToSet(Append(list, x)) = ToSet(list) \cup {x}
         /\ \A R : /\ Pairwise(list, R)
                   /\ \A y \in ToSet(list) : <<y, x>> \in R
                   => Pairwise(Append(list, x), R)
<1>1. <<x>> \in Seq(T) /\ ToSet(<<x>>) = {x} /\ Append(list, x) = list \o <<x>>
  BY SingleHolds
<1>2. \A R : Pairwise(<<x>>, R)
  BY SingleHolds
<1> DEFINE one == <<x>>
<1> HIDE DEF one
<1>3. one \in Seq(T) /\ ToSet(one) = {x} /\ Append(list, x) = list \o one /\ \A R : Pairwise(one, R)
  BY <1>1, <1>2 DEF one
<1>4. /\ list \o one \in Seq(T) /\ ToSet(list \o one) = ToSet(list) \cup ToSet(one)
      /\ \A R : /\ Pairwise(list, R) /\ Pairwise(one, R)
                /\ \A y \in ToSet(list), z \in ToSet(one) : <<y, z>> \in R
                => Pairwise(list \o one, R)
  BY <1>3, ConcatHolds
<1> QED
  BY <1>3, <1>4

\* Different components, the nearer or as near ones first.
NearerFirst == {s \in (Int \X Nat) \X (Int \X Nat) : s[1][1] # s[2][1] /\ s[1][2] <= s[2][2]}

\* The components that connections lead to, with a depth, in a list of them;
\* each once if no two of the connections lead to the same.
IsTargetList(g, links, depth, list) ==
  /\ list \in Seq(Int \X Nat)
  /\ ToSet(list) = {<<g.links[k].target, depth>> : k \in links}
  /\ (\A j, k \in links : g.links[j].target = g.links[k].target => j = k) => Pairwise(list, NearerFirst)

\* Targets gives such a list.
LEMMA TargetsOfList ==
  ASSUME NEW g, NEW p, IsGraph(g, p), NEW links \in SUBSET (DOMAIN g.links), NEW depth \in Nat
  PROVE  IsTargetList(g, links, depth, Targets(g, InOrder(g, p, links), depth))
<1> DEFINE list == InOrder(g, p, links)
           new == Targets(g, list, depth)
<1>1. IsListing(list, links)
  BY InOrderLists
<1> HIDE DEF list
<1>2. /\ Len(list) \in Nat /\ DOMAIN list = 1 .. Len(list)
      /\ \A i \in 1 .. Len(list) : list[i] \in links
      /\ \A x \in links : \E i \in 1 .. Len(list) : list[i] = x
      /\ \A i, j \in 1 .. Len(list) : list[i] = list[j] => i = j
  <2>1. /\ list \in Seq(links) /\ \A x \in links : \E i \in 1 .. Len(list) : list[i] = x
        /\ \A i, j \in 1 .. Len(list) : list[i] = list[j] => i = j
    BY <1>1 DEF IsListing
  <2>2. /\ Len(list) \in Nat /\ DOMAIN list = 1 .. Len(list)
        /\ \A i \in 1 .. Len(list) : list[i] \in links
    BY <2>1, LenProperties
  <2> QED
    BY <2>1, <2>2
<1>3. /\ DOMAIN new = 1 .. Len(list)
      /\ \A i \in 1 .. Len(list) : new[i] = <<g.links[list[i]].target, depth>>
      /\ new = [i \in 1 .. Len(list) |-> new[i]]
  <2>1. new = [i \in 1 .. Len(list) |-> <<g.links[list[i]].target, depth>>]
    BY <1>2 DEF Targets
  <2> HIDE DEF new
  <2> QED
    BY <2>1
<1> HIDE DEF new
<1>4. ASSUME NEW i \in 1 .. Len(list) PROVE new[i] \in Int \X Nat
  <2>1. \A k \in links : g.links[k].target \in Int
    BY DEF IsGraph
  <2>2. g.links[list[i]].target \in Int
    BY <1>2, <2>1
  <2>3. new[i] = <<g.links[list[i]].target, depth>>
    BY <1>3
  <2> QED
    BY <2>2, <2>3
<1>5. new \in Seq(Int \X Nat)
  BY <1>2, <1>3, <1>4, SeqDef
<1>6. Len(new) = Len(list)
  BY <1>2, <1>3, ListLength
<1>7. ToSet(new) = {<<g.links[k].target, depth>> : k \in links}
  <2>1. ToSet(new) = {new[i] : i \in 1 .. Len(list)}
    BY <1>5, <1>6, ElementsOf
  <2>2. ASSUME NEW k \in links PROVE <<g.links[k].target, depth>> \in ToSet(new)
    <3>1. PICK i \in 1 .. Len(list) : list[i] = k
      BY <1>2
    <3>2. new[i] = <<g.links[k].target, depth>>
      BY <1>3, <3>1
    <3> QED
      BY <2>1, <3>2
  <2>3. ASSUME NEW x \in ToSet(new) PROVE x \in {<<g.links[k].target, depth>> : k \in links}
    <3>1. PICK i \in 1 .. Len(list) : x = new[i]
      BY <2>1
    <3>2. x = <<g.links[list[i]].target, depth>> /\ list[i] \in links
      BY <1>2, <1>3, <3>1
    <3> QED
      BY <3>2
  <2> QED
    BY <2>2, <2>3
<1>8. ASSUME \A j, k \in links : g.links[j].target = g.links[k].target => j = k PROVE Pairwise(new, NearerFirst)
  <2> SUFFICES ASSUME NEW i \in 1 .. Len(list), NEW j \in 1 .. Len(list), i < j
               PROVE  <<new[i], new[j]>> \in NearerFirst
    BY <1>6 DEF Pairwise
  <2>1. /\ new[i] = <<g.links[list[i]].target, depth>> /\ new[j] = <<g.links[list[j]].target, depth>>
        /\ new[i] \in Int \X Nat /\ new[j] \in Int \X Nat
    BY <1>3, <1>4
  <2>2. list[i] # list[j]
    BY <1>2
  <2>3. g.links[list[i]].target # g.links[list[j]].target
    BY <1>2, <1>8, <2>2
  <2> QED
    BY <2>1, <2>3 DEF NearerFirst
<1> QED
  BY <1>5, <1>7, <1>8 DEF IsTargetList, new, list

\* The components of a set, each once, with no step made.
IsEntryQueue(queue, ids) ==
  /\ queue \in Seq(Int \X Nat)
  /\ ToSet(queue) = {<<n, 0>> : n \in ids}
  /\ Pairwise(queue, NearerFirst)

\* The entry points, in order.
LEMMA EntriesListed ==
  ASSUME NEW ids, IsFiniteSet(ids), ids \subseteq Int
  PROVE  IsEntryQueue([i \in DOMAIN Ascending(ids) |-> <<Ascending(ids)[i], 0>>], ids)
<1> DEFINE list == Ascending(ids)
           start == [i \in DOMAIN list |-> <<list[i], 0>>]
<1>1. IsListing(list, ids)
  BY AscendingLists
<1> HIDE DEF list
<1>2. /\ Len(list) \in Nat /\ DOMAIN list = 1 .. Len(list)
      /\ \A i \in 1 .. Len(list) : list[i] \in ids
      /\ \A n \in ids : \E i \in 1 .. Len(list) : list[i] = n
      /\ \A i, j \in 1 .. Len(list) : list[i] = list[j] => i = j
  BY <1>1, LenProperties DEF IsListing
<1>3. /\ DOMAIN start = 1 .. Len(list)
      /\ \A i \in 1 .. Len(list) : start[i] = <<list[i], 0>>
      /\ start = [i \in 1 .. Len(list) |-> start[i]]
  BY <1>2
<1> HIDE DEF start
<1>4. ASSUME NEW i \in 1 .. Len(list) PROVE start[i] \in Int \X Nat
  <2>1. start[i] = <<list[i], 0>> /\ list[i] \in Int
    BY <1>2, <1>3
  <2> QED
    BY <2>1
<1>5. start \in Seq(Int \X Nat)
  BY <1>2, <1>3, <1>4, SeqDef
<1>6. Len(start) = Len(list)
  BY <1>2, <1>3, ListLength
<1>7. ToSet(start) = {<<n, 0>> : n \in ids}
  <2>1. ToSet(start) = {start[i] : i \in 1 .. Len(list)}
    BY <1>5, <1>6, ElementsOf
  <2>2. ASSUME NEW n \in ids PROVE <<n, 0>> \in ToSet(start)
    BY <1>2, <1>3, <2>1
  <2>3. ASSUME NEW x \in ToSet(start) PROVE x \in {<<n, 0>> : n \in ids}
    <3>1. PICK i \in 1 .. Len(list) : x = start[i]
      BY <2>1
    <3>2. x = <<list[i], 0>> /\ list[i] \in ids
      BY <1>2, <1>3, <3>1
    <3> QED
      BY <3>2
  <2> QED
    BY <2>2, <2>3
<1>8. Pairwise(start, NearerFirst)
  <2> SUFFICES ASSUME NEW i \in 1 .. Len(list), NEW j \in 1 .. Len(list), i < j
               PROVE  <<start[i], start[j]>> \in NearerFirst
    BY <1>6 DEF Pairwise
  <2>1. /\ start[i] = <<list[i], 0>> /\ start[j] = <<list[j], 0>>
        /\ start[i] \in Int \X Nat /\ start[j] \in Int \X Nat
    BY <1>3, <1>4
  <2>2. list[i] # list[j]
    BY <1>2
  <2> QED
    BY <2>1, <2>2 DEF NearerFirst
<1>9. IsEntryQueue(start, ids)
  BY <1>5, <1>7, <1>8 DEF IsEntryQueue
<1> QED
  BY <1>9 DEF start, list

(***************************************************************************)
(* bfs: the queue holds what was found and not yet returned, by distance.  *)
(***************************************************************************)
\* What the entry points reach in so many steps.
InSteps(g, p, d) == ReachedIn(Steps(g, p), SearchEntries(g, p), d)

\* So many steps lead to a component, and no fewer.
IsDistance(g, p, n, d) ==
  n \in InSteps(g, p, d) /\ \A e \in Nat : n \in InSteps(g, p, e) => d <= e

\* Different components, none farther than a later one.
NoFarther(g, p) ==
  {s \in Int \X Int : /\ s[1] # s[2]
                      /\ \A d \in Nat : s[2] \in InSteps(g, p, d) => s[1] \in InSteps(g, p, d)}

\* Each component that was found is in one list, once.
BfsLists(s) ==
  /\ s.order \in Seq(Int) /\ s.queue \in Seq(Int \X Nat)
  /\ Pairwise(s.queue, NearerFirst)
  /\ \A q \in ToSet(s.queue) : q[1] \notin ToSet(s.order)
  /\ \A n : n \in s.visited <=> n \in ToSet(s.order) \/ \E q \in ToSet(s.queue) : q[1] = n

\* The queue has exact distances, within the limit and one apart at the most.
BfsQueue(g, p, s) ==
  /\ \A n \in s.visited : ~Pruned(g, p, n)
  /\ \A q \in ToSet(s.queue) : IsDistance(g, p, q[1], q[2])
  /\ \A q \in ToSet(s.queue) : p.maxDepth # Unbounded => q[2] <= p.maxDepth
  /\ \A q, r \in ToSet(s.queue) : q[2] <= r[2] + 1

\* What was returned is no farther than what comes after it.
BfsOrder(g, p, s) ==
  /\ Pairwise(s.order, NoFarther(g, p))
  /\ \A n \in ToSet(s.order) : \A q \in ToSet(s.queue) : n \in InSteps(g, p, q[2])
  /\ \A n \in ToSet(s.order) : \E d \in Nat :
       n \in InSteps(g, p, d) /\ (p.maxDepth # Unbounded => d <= p.maxDepth)

\* Nothing was overlooked: the entry points, what is next to a component that
\* was returned, and all that is nearer than the rest of the queue.
BfsSeen(g, p, s) ==
  /\ SearchEntries(g, p) \subseteq s.visited
  /\ \A n \in ToSet(s.order) : \A d \in Nat :
       n \in InSteps(g, p, d) /\ ~AtLimit(p, d) => Onward(Steps(g, p), {n}) \subseteq s.visited
  /\ \A q \in ToSet(s.queue) : (\A r \in ToSet(s.queue) : q[2] <= r[2]) =>
       InSteps(g, p, q[2]) \subseteq s.visited

\* The state of a bfs.
BfsOk(g, p, s) == BfsLists(s) /\ BfsQueue(g, p, s) /\ BfsOrder(g, p, s) /\ BfsSeen(g, p, s)

\* What a traversal is asked with.
IsTraversal(g, p) ==
  /\ IsGraph(g, p)
  /\ IsFiniteSet(p.entryIds) /\ p.entryIds \subseteq Int
  /\ p.maxDepth \in Nat \cup {Unbounded}

\* The entry points are finitely many, with ids.
LEMMA EntriesFinite ==
  ASSUME NEW g, NEW p, IsTraversal(g, p)
  PROVE  IsFiniteSet(SearchEntries(g, p)) /\ SearchEntries(g, p) \subseteq Int
<1>1. IsFiniteSet(Nodes(g)) /\ Nodes(g) \subseteq Int
  BY DEF IsTraversal, IsGraph
<1>2. EntryPoints(g, p) \subseteq p.entryIds \cup Nodes(g)
  BY DEF EntryPoints
<1>3. IsFiniteSet(p.entryIds \cup Nodes(g))
  BY <1>1, FS_Union DEF IsTraversal
<1>4. SearchEntries(g, p) \in SUBSET (p.entryIds \cup Nodes(g))
  BY <1>2 DEF SearchEntries
<1>5. p.entryIds \subseteq Int
  BY DEF IsTraversal
<1> QED
  BY <1>1, <1>3, <1>4, <1>5, FS_Subset

\* Nothing is held by an empty list.
LEMMA NothingHeld == ToSet(<<>>) = {} /\ \A R : Pairwise(<<>>, R)
BY DEF ToSet, Pairwise

\* A bfs begins with the entry points in its queue.
LEMMA BfsBegins ==
  ASSUME NEW g, NEW p, IsTraversal(g, p)
  PROVE  BfsOk(g, p, BfsStart(g, p))
<1> DEFINE s == BfsStart(g, p)
           E == SearchEntries(g, p)
<1>1. IsFiniteSet(E) /\ E \subseteq Int
  BY EntriesFinite
<1>2. IsEntryQueue(s.queue, E)
  <2>1. s.queue = [i \in DOMAIN Ascending(E) |-> <<Ascending(E)[i], 0>>]
    BY DEF BfsStart
  <2> HIDE DEF E, s
  <2>2. IsEntryQueue([i \in DOMAIN Ascending(E) |-> <<Ascending(E)[i], 0>>], E)
    BY <1>1, EntriesListed
  <2> QED
    BY <2>1, <2>2
<1>3. s.order = <<>> /\ s.visited = E
  BY DEF BfsStart
<1> HIDE DEF s
<1>4. s.order \in Seq(Int) /\ ToSet(s.order) = {} /\ \A R : Pairwise(s.order, R)
  BY <1>3, NothingHeld
<1>5. \A n \in E : ~Pruned(g, p, n)
  BY EntriesKept
<1>6. InSteps(g, p, 0) = E
  BY ReachedInLevels DEF InSteps
<1>7. p.maxDepth \in Nat \cup {Unbounded}
  BY DEF IsTraversal
<1> HIDE DEF E
<1>8. /\ s.queue \in Seq(Int \X Nat) /\ Pairwise(s.queue, NearerFirst)
      /\ ToSet(s.queue) = {<<n, 0>> : n \in E}
  BY <1>2 DEF IsEntryQueue
<1>9. /\ \A q \in ToSet(s.queue) : q[1] \in E /\ q[2] = 0
      /\ \A n \in E : \E q \in ToSet(s.queue) : q[1] = n
  <2>1. ASSUME NEW q \in ToSet(s.queue) PROVE q[1] \in E /\ q[2] = 0
    BY <1>8
  <2>2. ASSUME NEW n \in E PROVE \E q \in ToSet(s.queue) : q[1] = n
    <3>1. <<n, 0>> \in ToSet(s.queue) /\ <<n, 0>>[1] = n
      BY <1>8
    <3> QED
      BY <3>1
  <2> QED
    BY <2>1, <2>2
<1>10. BfsLists(s)
  BY <1>3, <1>4, <1>8, <1>9 DEF BfsLists
<1>11. BfsQueue(g, p, s)
  BY <1>3, <1>5, <1>6, <1>7, <1>9 DEF IsDistance, BfsQueue
<1>12. BfsOrder(g, p, s)
  BY <1>4 DEF BfsOrder
<1>13. BfsSeen(g, p, s)
  BY <1>3, <1>4, <1>6, <1>9 DEF BfsSeen, E
<1> QED
  BY <1>10, <1>11, <1>12, <1>13 DEF BfsOk, s

\* What an iteration puts into the queue: what is next to a component and was
\* not visited, each once, with one step more.
BfsFinds(g, p, visited, n, depth, new, after) ==
  /\ new \in Seq(Int \X Nat) /\ Pairwise(new, NearerFirst)
  /\ \A q \in ToSet(new) : /\ q[2] = depth + 1
                           /\ q[1] \in Onward(Steps(g, p), {n}) \ visited
                           /\ ~Pruned(g, p, q[1])
                           /\ ~AtLimit(p, depth)
  /\ \A t : t \in after <=> t \in visited \/ \E q \in ToSet(new) : q[1] = t
  /\ ~AtLimit(p, depth) => Onward(Steps(g, p), {n}) \subseteq after

\* The connections that are the first to lead to an unvisited component lead
\* to each of these once.
LEMMA FreshFinds ==
  ASSUME NEW g, NEW p, IsGraph(g, p), NEW n, ~Pruned(g, p, n), NEW depth \in Nat, NEW visited
  PROVE  LET fresh == IF AtLimit(p, depth) THEN {} ELSE Fresh(g, p, n, visited)
         IN  BfsFinds(g, p, visited, n, depth, Targets(g, InOrder(g, p, fresh), depth + 1),
                      visited \cup {g.links[k].target : k \in fresh})
<1> DEFINE fresh == IF AtLimit(p, depth) THEN {} ELSE Fresh(g, p, n, visited)
           new == Targets(g, InOrder(g, p, fresh), depth + 1)
           after == visited \cup {g.links[k].target : k \in fresh}
           out == {k \in LinksOut(g, p, n) : ~Pruned(g, p, g.links[k].target) /\ g.links[k].target \notin visited}
<1>1. out \subseteq DOMAIN g.links /\ fresh \subseteq out
  BY DEF LinksOut, Fresh
<1>2. ~AtLimit(p, depth) =>
        fresh = {k \in out : \A j \in out : g.links[j].target = g.links[k].target => ~GoesBefore(g, p, j, k)}
  BY DEF Fresh
<1>3. AtLimit(p, depth) => fresh = {}
  OBVIOUS
<1>4. \A t : t \in Onward(Steps(g, p), {n}) <=>
               \E k \in LinksOut(g, p, n) : t = g.links[k].target /\ ~Pruned(g, p, t)
  BY StepsOfNode
<1> HIDE DEF fresh
<1>5. fresh \in SUBSET (DOMAIN g.links) /\ depth + 1 \in Nat
  BY <1>1
<1>6. \A k \in out : k \in LinksOut(g, p, n) /\ ~Pruned(g, p, g.links[k].target) /\ g.links[k].target \notin visited
  OBVIOUS
<1>7. ASSUME NEW j \in fresh, NEW k \in fresh, g.links[j].target = g.links[k].target PROVE j = k
  <2>1. ~GoesBefore(g, p, j, k) /\ ~GoesBefore(g, p, k, j)
    BY <1>1, <1>2, <1>3, <1>7
  <2> HIDE DEF out
  <2>2. out \in SUBSET (DOMAIN g.links)
    BY <1>1
  <2>3. IsStrictOrder(Before(g, p, out), out)
    BY <2>2, GoesBeforeOrders
  <2>4. j \in out /\ k \in out
    BY <1>1
  <2> QED
    BY <2>1, <2>3, <2>4 DEF IsStrictOrder, Before
<1>8. /\ new \in Seq(Int \X Nat)
      /\ ToSet(new) = {<<g.links[k].target, depth + 1>> : k \in fresh}
      /\ Pairwise(new, NearerFirst)
  BY <1>5, <1>7, TargetsOfList DEF IsTargetList
<1> HIDE DEF new
<1>9. ASSUME NEW q \in ToSet(new)
      PROVE  /\ q[2] = depth + 1
             /\ q[1] \in Onward(Steps(g, p), {n}) \ visited
             /\ ~Pruned(g, p, q[1])
             /\ ~AtLimit(p, depth)
  <2>1. PICK k \in fresh : q = <<g.links[k].target, depth + 1>>
    BY <1>8
  <2>2. q[1] = g.links[k].target /\ q[2] = depth + 1
    BY <2>1
  <2> HIDE DEF out
  <2> QED
    BY <1>1, <1>3, <1>4, <1>6, <2>2
<1>10. ASSUME NEW t PROVE t \in after <=> t \in visited \/ \E q \in ToSet(new) : q[1] = t
  <2>1. ASSUME NEW k \in fresh, t = g.links[k].target PROVE \E q \in ToSet(new) : q[1] = t
    <3>1. <<t, depth + 1>> \in ToSet(new)
      BY <1>8, <2>1
    <3> QED
      BY <3>1
  <2>2. ASSUME NEW q \in ToSet(new), q[1] = t PROVE \E k \in fresh : t = g.links[k].target
    BY <1>8, <2>2
  <2> QED
    BY <2>1, <2>2
<1>11. ASSUME ~AtLimit(p, depth), NEW t \in Onward(Steps(g, p), {n}), t \notin visited PROVE t \in after
  <2> DEFINE to == {k \in out : g.links[k].target = t}
  <2>1. to # {}
    BY <1>4, <1>11 DEF out
  <2>2. to \in SUBSET (DOMAIN g.links)
    BY <1>1
  <2>3. PICK first \in to : \A j \in to : ~GoesBefore(g, p, j, first)
    <3> HIDE DEF to
    <3> QED
      BY <2>1, <2>2, InOrderLists
  <2>4. first \in fresh
    BY <1>2, <1>11, <2>3
  <2> QED
    BY <2>3, <2>4
<1> HIDE DEF after
<1>12. ~AtLimit(p, depth) => Onward(Steps(g, p), {n}) \subseteq after
  BY <1>10, <1>11
<1> QED
  BY <1>8, <1>9, <1>10, <1>12 DEF BfsFinds, after, new, fresh

\* What one step leads to is one step farther.
LEMMA OneStepMore ==
  ASSUME NEW g, NEW p, NEW n, NEW d \in Nat, n \in InSteps(g, p, d)
  PROVE  Onward(Steps(g, p), {n}) \subseteq InSteps(g, p, d + 1)
<1>1. \A steps, from : \A i \in Nat : ReachedIn(steps, from, i + 1) =
        ReachedIn(steps, from, i) \cup Onward(steps, ReachedIn(steps, from, i))
  BY ReachedInLevels
<1>2. InSteps(g, p, d + 1) = InSteps(g, p, d) \cup Onward(Steps(g, p), InSteps(g, p, d))
  BY <1>1 DEF InSteps
<1> QED
  BY <1>2, OnwardFromOne

\* What is reached in one step more is next to what is reached.
LEMMA NextLevel ==
  ASSUME NEW g, NEW p, NEW d \in Nat
  PROVE  \A t \in InSteps(g, p, d + 1) :
           t \in InSteps(g, p, d) \/ \E n \in InSteps(g, p, d) : t \in Onward(Steps(g, p), {n})
<1>1. \A steps, from : \A i \in Nat : ReachedIn(steps, from, i + 1) =
        ReachedIn(steps, from, i) \cup Onward(steps, ReachedIn(steps, from, i))
  BY ReachedInLevels
<1>2. InSteps(g, p, d + 1) = InSteps(g, p, d) \cup Onward(Steps(g, p), InSteps(g, p, d))
  BY <1>1 DEF InSteps
<1> QED
  BY <1>2, OnwardFromOne

\* More is reached in more steps.
LEMMA InStepsGrow ==
  ASSUME NEW g, NEW p, NEW d \in Nat, NEW e \in Nat, d <= e
  PROVE  InSteps(g, p, d) \subseteq InSteps(g, p, e)
BY ReachedGrows DEF InSteps

\* How an iteration of bfs changes the lists: the head h of the queue, what
\* else was in it, and what was found.
BfsMoved(g, p, s, h, rest, new, after) ==
  /\ h \in Int \X Nat /\ rest \in Seq(Int \X Nat)
  /\ ToSet(s.queue) = {h} \cup ToSet(rest)
  /\ \A R : Pairwise(s.queue, R) => Pairwise(rest, R) /\ \A q \in ToSet(rest) : <<h, q>> \in R
  /\ BfsFinds(g, p, s.visited, h[1], h[2], new, after.visited)
  /\ after.queue = rest \o new
  /\ after.queue \in Seq(Int \X Nat) /\ ToSet(after.queue) = ToSet(rest) \cup ToSet(new)
  /\ after.order = Append(s.order, h[1])
  /\ after.order \in Seq(Int) /\ ToSet(after.order) = ToSet(s.order) \cup {h[1]}

\* An iteration of bfs moves the lists so.
LEMMA BfsMoves ==
  ASSUME NEW g, NEW p, IsGraph(g, p), NEW s, BfsOk(g, p, s), s.queue # <<>>
  PROVE  \E h, rest, new : BfsMoved(g, p, s, h, rest, new, BfsVisit(g, p, s))
<1> DEFINE h == Head(s.queue)
           rest == Tail(s.queue)
           fresh == IF AtLimit(p, h[2]) THEN {} ELSE Fresh(g, p, h[1], s.visited)
           new == Targets(g, InOrder(g, p, fresh), h[2] + 1)
           after == BfsVisit(g, p, s)
<1>1. s.queue \in Seq(Int \X Nat) /\ s.order \in Seq(Int)
  BY DEF BfsOk, BfsLists
<1>2. /\ rest \in Seq(Int \X Nat) /\ h \in Int \X Nat
      /\ ToSet(s.queue) = {h} \cup ToSet(rest)
      /\ \A R : Pairwise(s.queue, R) => Pairwise(rest, R) /\ \A q \in ToSet(rest) : <<h, q>> \in R
  BY <1>1, TailHolds
<1>3. /\ after.order = Append(s.order, h[1])
      /\ after.visited = s.visited \cup {g.links[k].target : k \in fresh}
      /\ after.queue = rest \o new
  BY DEF BfsVisit
<1> HIDE DEF h, rest, after
<1>4. h[1] \in Int /\ h[2] \in Nat
  BY <1>2
<1>5. ~Pruned(g, p, h[1])
  BY <1>2 DEF BfsOk, BfsLists, BfsQueue
<1>6. BfsFinds(g, p, s.visited, h[1], h[2], new, s.visited \cup {g.links[k].target : k \in fresh})
  BY <1>4, <1>5, FreshFinds
<1> HIDE DEF new, fresh
<1>7. BfsFinds(g, p, s.visited, h[1], h[2], new, after.visited)
  BY <1>3, <1>6
<1>8. new \in Seq(Int \X Nat)
  BY <1>7 DEF BfsFinds
<1>9. rest \o new \in Seq(Int \X Nat) /\ ToSet(rest \o new) = ToSet(rest) \cup ToSet(new)
  BY <1>2, <1>8, ConcatHolds
<1>10. Append(s.order, h[1]) \in Seq(Int) /\ ToSet(Append(s.order, h[1])) = ToSet(s.order) \cup {h[1]}
  BY <1>1, <1>4, AppendHolds
<1>11. BfsMoved(g, p, s, h, rest, new, after)
  BY <1>2, <1>3, <1>7, <1>9, <1>10 DEF BfsMoved
<1> QED
  BY <1>11 DEF after

\* What the head of the queue has over the others, and over what was found.
LEMMA BfsHead ==
  ASSUME NEW g, NEW p, NEW s, BfsOk(g, p, s), NEW h, NEW rest, NEW new, NEW after,
         BfsMoved(g, p, s, h, rest, new, after)
  PROVE  /\ h[1] \in Int /\ h[2] \in Nat /\ h \in ToSet(s.queue)
         /\ \A q \in ToSet(rest) : q \in Int \X Nat /\ q \in ToSet(s.queue) /\ h[1] # q[1] /\ h[2] <= q[2]
                                   /\ q[1] \in Int /\ q[2] \in Nat
         /\ \A q \in ToSet(new) : q \in Int \X Nat /\ q[1] \in Int /\ q[2] \in Nat /\ q[2] = h[2] + 1
                                  /\ q[1] \notin s.visited
         /\ \A q \in ToSet(s.queue) : q[1] \in s.visited /\ q[1] \in Int /\ q[2] \in Nat /\ h[2] <= q[2]
         /\ IsDistance(g, p, h[1], h[2]) /\ h[1] \in InSteps(g, p, h[2])
         /\ InSteps(g, p, h[2]) \subseteq s.visited
<1>1. /\ h \in Int \X Nat /\ rest \in Seq(Int \X Nat) /\ ToSet(s.queue) = {h} \cup ToSet(rest)
      /\ \A q \in ToSet(rest) : <<h, q>> \in NearerFirst
  BY DEF BfsMoved, BfsOk, BfsLists
<1>2. h[1] \in Int /\ h[2] \in Nat /\ h \in ToSet(s.queue)
  BY <1>1
<1>3. ToSet(rest) \subseteq Int \X Nat
  BY <1>1, ElementsOf
<1>4. ASSUME NEW q \in ToSet(rest)
      PROVE  q \in Int \X Nat /\ q \in ToSet(s.queue) /\ h[1] # q[1] /\ h[2] <= q[2] /\ q[1] \in Int /\ q[2] \in Nat
  BY <1>1, <1>3 DEF NearerFirst
<1>5. ASSUME NEW q \in ToSet(new)
      PROVE  q \in Int \X Nat /\ q[1] \in Int /\ q[2] \in Nat /\ q[2] = h[2] + 1 /\ q[1] \notin s.visited
  <2>1. new \in Seq(Int \X Nat) /\ q[2] = h[2] + 1 /\ q[1] \notin s.visited
    BY DEF BfsMoved, BfsFinds
  <2>2. q \in Int \X Nat
    BY <2>1, ElementsOf
  <2> QED
    BY <2>1, <2>2
<1>6. \A q \in ToSet(s.queue) : q[1] \in s.visited /\ q[1] \in Int /\ q[2] \in Nat /\ h[2] <= q[2]
  BY <1>1, <1>2, <1>4 DEF BfsOk, BfsLists
<1>7. IsDistance(g, p, h[1], h[2])
  BY <1>2 DEF BfsOk, BfsQueue
<1>8. h[1] \in InSteps(g, p, h[2])
  BY <1>7 DEF IsDistance
<1>9. InSteps(g, p, h[2]) \subseteq s.visited
  BY <1>2, <1>6 DEF BfsOk, BfsSeen
<1> QED
  BY <1>2, <1>4, <1>5, <1>6, <1>7, <1>8, <1>9

\* The lists still have each component once.
LEMMA BfsListsKept ==
  ASSUME NEW g, NEW p, NEW s, BfsOk(g, p, s), NEW h, NEW rest, NEW new, NEW after,
         BfsMoved(g, p, s, h, rest, new, after)
  PROVE  BfsLists(after)
<1>1. /\ h[1] \in Int /\ h[2] \in Nat /\ h \in ToSet(s.queue)
      /\ \A q \in ToSet(rest) : q \in Int \X Nat /\ q \in ToSet(s.queue) /\ h[1] # q[1]
      /\ \A q \in ToSet(new) : q \in Int \X Nat /\ q[2] \in Nat /\ q[2] = h[2] + 1 /\ q[1] \notin s.visited
      /\ \A q \in ToSet(s.queue) : q[1] \in s.visited
  BY BfsHead
<1>2. /\ rest \in Seq(Int \X Nat) /\ new \in Seq(Int \X Nat) /\ ToSet(s.queue) = {h} \cup ToSet(rest)
      /\ Pairwise(rest, NearerFirst) /\ Pairwise(new, NearerFirst)
      /\ after.queue = rest \o new /\ after.queue \in Seq(Int \X Nat)
      /\ ToSet(after.queue) = ToSet(rest) \cup ToSet(new)
      /\ after.order \in Seq(Int) /\ ToSet(after.order) = ToSet(s.order) \cup {h[1]}
      /\ \A t : t \in after.visited <=> t \in s.visited \/ \E q \in ToSet(new) : q[1] = t
  BY DEF BfsMoved, BfsFinds, BfsOk, BfsLists
<1>3. /\ \A q \in ToSet(s.queue) : q[1] \notin ToSet(s.order)
      /\ \A n : n \in s.visited <=> n \in ToSet(s.order) \/ \E q \in ToSet(s.queue) : q[1] = n
  BY DEF BfsOk, BfsLists
<1>4. \A q \in ToSet(s.queue) : q[2] <= h[2] + 1
  BY <1>1 DEF BfsOk, BfsQueue
<1>5. Pairwise(after.queue, NearerFirst)
  <2>1. ASSUME NEW x \in ToSet(rest), NEW y \in ToSet(new) PROVE <<x, y>> \in NearerFirst
    BY <1>1, <1>4 DEF NearerFirst
  <2>2. Pairwise(rest \o new, NearerFirst)
    BY <1>2, <2>1, ConcatHolds
  <2> QED
    BY <1>2, <2>2
<1>6. ASSUME NEW q \in ToSet(after.queue) PROVE q[1] \notin ToSet(after.order)
  BY <1>1, <1>2, <1>3
<1>7. ASSUME NEW n
      PROVE  n \in after.visited <=> n \in ToSet(after.order) \/ \E q \in ToSet(after.queue) : q[1] = n
  BY <1>1, <1>2, <1>3
<1> QED
  BY <1>2, <1>5, <1>6, <1>7 DEF BfsLists

\* The queue still has exact distances.
LEMMA BfsQueueKept ==
  ASSUME NEW g, NEW p, p.maxDepth \in Nat \cup {Unbounded}, NEW s, BfsOk(g, p, s),
         NEW h, NEW rest, NEW new, NEW after, BfsMoved(g, p, s, h, rest, new, after)
  PROVE  BfsQueue(g, p, after)
<1>1. /\ h[1] \in Int /\ h[2] \in Nat /\ h \in ToSet(s.queue)
      /\ \A q \in ToSet(rest) : q \in ToSet(s.queue)
      /\ \A q \in ToSet(new) : q[2] \in Nat /\ q[2] = h[2] + 1 /\ q[1] \notin s.visited
      /\ \A q \in ToSet(s.queue) : q[2] \in Nat /\ h[2] <= q[2]
      /\ h[1] \in InSteps(g, p, h[2])
      /\ InSteps(g, p, h[2]) \subseteq s.visited
  BY BfsHead
<1>2. /\ ToSet(after.queue) = ToSet(rest) \cup ToSet(new)
      /\ \A q \in ToSet(new) : /\ q[1] \in Onward(Steps(g, p), {h[1]})
                               /\ ~Pruned(g, p, q[1])
                               /\ ~AtLimit(p, h[2])
      /\ \A t : t \in after.visited <=> t \in s.visited \/ \E q \in ToSet(new) : q[1] = t
  BY DEF BfsMoved, BfsFinds
<1>3. /\ \A m \in s.visited : ~Pruned(g, p, m)
      /\ \A q \in ToSet(s.queue) : IsDistance(g, p, q[1], q[2])
      /\ \A q \in ToSet(s.queue) : p.maxDepth # Unbounded => q[2] <= p.maxDepth
      /\ \A q \in ToSet(s.queue) : q[2] <= h[2] + 1
  BY <1>1 DEF BfsOk, BfsQueue
<1>4. \A m \in after.visited : ~Pruned(g, p, m)
  BY <1>2, <1>3
<1>5. ASSUME NEW q \in ToSet(new) PROVE IsDistance(g, p, q[1], q[2])
  <2>1. q[1] \in InSteps(g, p, h[2] + 1)
    BY <1>1, <1>2, OneStepMore
  <2>2. ASSUME NEW e \in Nat, q[1] \in InSteps(g, p, e) PROVE h[2] + 1 <= e
    <3>1. SUFFICES ASSUME e <= h[2] PROVE FALSE
      BY <1>1
    <3>2. q[1] \in InSteps(g, p, h[2])
      BY <1>1, <2>2, <3>1, InStepsGrow
    <3> QED
      BY <1>1, <3>2
  <2>3. q[2] = h[2] + 1
    BY <1>1
  <2> QED
    BY <2>1, <2>2, <2>3 DEF IsDistance
<1>6. ASSUME NEW q \in ToSet(new), p.maxDepth # Unbounded PROVE q[2] <= p.maxDepth
  BY <1>1, <1>2, <1>6 DEF AtLimit
<1>7. \A q \in ToSet(after.queue) : q[2] \in Nat /\ h[2] <= q[2] /\ q[2] <= h[2] + 1
  BY <1>1, <1>2, <1>3
<1>8. \A q, r \in ToSet(after.queue) : q[2] <= r[2] + 1
  BY <1>1, <1>7
<1> QED
  BY <1>1, <1>2, <1>3, <1>4, <1>5, <1>6, <1>8 DEF BfsQueue

\* What was returned is still no farther than what comes after it.
LEMMA BfsOrderKept ==
  ASSUME NEW g, NEW p, NEW s, BfsOk(g, p, s),
         NEW h, NEW rest, NEW new, NEW after, BfsMoved(g, p, s, h, rest, new, after)
  PROVE  BfsOrder(g, p, after)
<1>1. /\ h[1] \in Int /\ h[2] \in Nat /\ h \in ToSet(s.queue)
      /\ \A q \in ToSet(rest) : q \in ToSet(s.queue) /\ q[2] \in Nat /\ h[2] <= q[2]
      /\ \A q \in ToSet(new) : q[2] \in Nat /\ q[2] = h[2] + 1
      /\ IsDistance(g, p, h[1], h[2]) /\ h[1] \in InSteps(g, p, h[2])
  BY BfsHead
<1>2. /\ s.order \in Seq(Int) /\ ToSet(after.queue) = ToSet(rest) \cup ToSet(new)
      /\ after.order = Append(s.order, h[1]) /\ ToSet(after.order) = ToSet(s.order) \cup {h[1]}
      /\ h[1] \notin ToSet(s.order)
      /\ p.maxDepth # Unbounded => h[2] <= p.maxDepth
  BY <1>1 DEF BfsMoved, BfsOk, BfsLists, BfsQueue
<1>3. /\ Pairwise(s.order, NoFarther(g, p))
      /\ \A n \in ToSet(s.order) : n \in InSteps(g, p, h[2])
      /\ \A n \in ToSet(s.order) : \E d \in Nat :
           n \in InSteps(g, p, d) /\ (p.maxDepth # Unbounded => d <= p.maxDepth)
  BY <1>1 DEF BfsOk, BfsOrder
<1>4. ASSUME NEW n \in ToSet(after.order), NEW d \in Nat, h[2] <= d PROVE n \in InSteps(g, p, d)
  BY <1>1, <1>2, <1>3, <1>4, InStepsGrow
<1>5. Pairwise(after.order, NoFarther(g, p))
  <2>1. ASSUME NEW n \in ToSet(s.order) PROVE <<n, h[1]>> \in NoFarther(g, p)
    BY <1>1, <1>2, <1>4, ElementsOf DEF IsDistance, NoFarther
  <2> QED
    BY <1>1, <1>2, <1>3, <2>1, AppendHolds
<1>6. \A n \in ToSet(after.order) : \A q \in ToSet(after.queue) : n \in InSteps(g, p, q[2])
  BY <1>1, <1>2, <1>4
<1>7. \A n \in ToSet(after.order) : \E d \in Nat :
        n \in InSteps(g, p, d) /\ (p.maxDepth # Unbounded => d <= p.maxDepth)
  BY <1>1, <1>2, <1>3
<1> QED
  BY <1>5, <1>6, <1>7 DEF BfsOrder

\* Still nothing was overlooked.
LEMMA BfsSeenKept ==
  ASSUME NEW g, NEW p, p.maxDepth \in Nat \cup {Unbounded}, NEW s, BfsOk(g, p, s),
         NEW h, NEW rest, NEW new, NEW after, BfsMoved(g, p, s, h, rest, new, after),
         BfsLists(after), BfsQueue(g, p, after)
  PROVE  BfsSeen(g, p, after)
<1>1. /\ h[1] \in Int /\ h[2] \in Nat /\ h \in ToSet(s.queue)
      /\ \A q \in ToSet(rest) : q[2] \in Nat /\ h[2] <= q[2] /\ q \in ToSet(s.queue)
      /\ \A q \in ToSet(new) : q[2] \in Nat /\ q[2] = h[2] + 1
      /\ IsDistance(g, p, h[1], h[2]) /\ h[1] \in InSteps(g, p, h[2])
      /\ InSteps(g, p, h[2]) \subseteq s.visited
  BY BfsHead
<1>2. /\ ToSet(after.queue) = ToSet(rest) \cup ToSet(new) /\ ToSet(after.order) = ToSet(s.order) \cup {h[1]}
      /\ \A t : t \in after.visited <=> t \in s.visited \/ \E q \in ToSet(new) : q[1] = t
      /\ ~AtLimit(p, h[2]) => Onward(Steps(g, p), {h[1]}) \subseteq after.visited
  BY DEF BfsMoved, BfsFinds
<1>3. /\ SearchEntries(g, p) \subseteq s.visited
      /\ \A n \in ToSet(s.order) : \A d \in Nat :
           n \in InSteps(g, p, d) /\ ~AtLimit(p, d) => Onward(Steps(g, p), {n}) \subseteq s.visited
      /\ \A q \in ToSet(s.queue) : q[2] <= h[2] + 1
  BY <1>1 DEF BfsOk, BfsSeen, BfsQueue
<1>4. s.visited \subseteq after.visited
  BY <1>2
<1>5. \A d, e \in Nat : d <= e /\ ~AtLimit(p, e) => ~AtLimit(p, d)
  BY DEF AtLimit
<1>6. ASSUME NEW n \in ToSet(after.order), NEW d \in Nat, n \in InSteps(g, p, d), ~AtLimit(p, d)
      PROVE  Onward(Steps(g, p), {n}) \subseteq after.visited
  BY <1>1, <1>2, <1>3, <1>4, <1>5, <1>6 DEF IsDistance
<1>7. ASSUME NEW q \in ToSet(after.queue), \A r \in ToSet(after.queue) : q[2] <= r[2]
      PROVE  InSteps(g, p, q[2]) \subseteq after.visited
  <2>1. q[2] = h[2] \/ q[2] = h[2] + 1
    BY <1>1, <1>2, <1>3
  <2>2. CASE q[2] = h[2]
    BY <1>1, <1>4, <2>2
  <2>3. CASE q[2] = h[2] + 1
    <3>1. ~AtLimit(p, h[2])
      BY <1>1, <2>3 DEF BfsQueue, AtLimit
    <3>2. ASSUME NEW n \in InSteps(g, p, h[2]) PROVE n \in ToSet(after.order)
      <4>1. n \in after.visited
        BY <1>1, <1>4
      <4>2. ASSUME NEW r \in ToSet(after.queue), r[1] = n PROVE FALSE
        BY <1>1, <1>2, <1>7, <2>3, <4>2 DEF BfsQueue, IsDistance
      <4> QED
        BY <4>1, <4>2 DEF BfsLists
    <3>3. ASSUME NEW t \in InSteps(g, p, h[2] + 1) PROVE t \in after.visited
      BY <1>1, <1>4, <1>6, <3>1, <3>2, NextLevel
    <3> QED
      BY <2>3, <3>3
  <2> QED
    BY <2>1, <2>2, <2>3
<1> QED
  BY <1>3, <1>4, <1>6, <1>7 DEF BfsSeen

\* An iteration of bfs keeps its state in order.
LEMMA BfsGoesOn ==
  ASSUME NEW g, NEW p, IsTraversal(g, p), NEW s, BfsOk(g, p, s), s.queue # <<>>
  PROVE  BfsOk(g, p, BfsVisit(g, p, s))
<1> DEFINE after == BfsVisit(g, p, s)
<1>1. IsGraph(g, p) /\ p.maxDepth \in Nat \cup {Unbounded}
  BY DEF IsTraversal
<1>2. PICK h, rest, new : BfsMoved(g, p, s, h, rest, new, after)
  BY <1>1, BfsMoves
<1> HIDE DEF after
<1>3. BfsLists(after)
  BY <1>2, BfsListsKept
<1>4. BfsQueue(g, p, after)
  BY <1>1, <1>2, BfsQueueKept
<1>5. BfsOrder(g, p, after)
  BY <1>2, BfsOrderKept
<1>6. BfsSeen(g, p, after)
  BY <1>1, <1>2, <1>3, <1>4, BfsSeenKept
<1> QED
  BY <1>3, <1>4, <1>5, <1>6 DEF BfsOk, after

\* So many steps say what a search may reach: its limit, or as many as there
\* are components.
DepthLimit(g, p) == IF p.maxDepth = Unbounded THEN Cardinality(Nodes(g)) ELSE p.maxDepth

\* What is promised of the answer of bfs.
BfsAnswers(g, p, list) ==
  /\ IsInjective(list) /\ ToSet(list) = InSteps(g, p, DepthLimit(g, p))
  /\ \A i, j \in DOMAIN list : \A d \in 0 .. DepthLimit(g, p) :
       i < j /\ list[j] \in InSteps(g, p, d) => list[i] \in InSteps(g, p, d)

\* A list whose elements differ in pairs has each once.
LEMMA PairwiseInjective ==
  ASSUME NEW T, NEW list \in Seq(T), NEW R, Pairwise(list, R), \A s \in R : s[1] # s[2]
  PROVE  IsInjective(list)
<1>1. Len(list) \in Nat /\ DOMAIN list = 1 .. Len(list)
  BY ElementsOf
<1>2. ASSUME NEW i \in 1 .. Len(list), NEW j \in 1 .. Len(list), i < j PROVE list[i] # list[j]
  BY <1>2 DEF Pairwise
<1>3. ASSUME NEW i \in 1 .. Len(list), NEW j \in 1 .. Len(list), list[i] = list[j] PROVE i = j
  BY <1>1, <1>2, <1>3
<1> QED
  BY <1>1, <1>3 DEF IsInjective

\* In some steps is in as many steps as there are components.
LEMMA InAnySteps ==
  ASSUME NEW g, NEW p, IsGraph(g, p), NEW d \in Nat
  PROVE  InSteps(g, p, d) \subseteq InSteps(g, p, Cardinality(Nodes(g)))
<1>1. LET R == ReachedIn(Steps(g, p), SearchEntries(g, p), Cardinality(Nodes(g)))
      IN  SearchEntries(g, p) \subseteq R /\ Onward(Steps(g, p), R) \subseteq R
  BY AllReached
<1> QED
  BY <1>1, LeastClosed DEF InSteps

\* When the queue is empty everything was returned.
LEMMA BfsEnds ==
  ASSUME NEW g, NEW p, IsTraversal(g, p), NEW s, BfsOk(g, p, s), s.queue = <<>>
  PROVE  BfsAnswers(g, p, s.order)
<1> DEFINE all == ToSet(s.order)
           In(d) == InSteps(g, p, d)
           limit == DepthLimit(g, p)
<1>1. /\ s.order \in Seq(Int) /\ s.visited = all
      /\ Pairwise(s.order, NoFarther(g, p))
      /\ \A n \in all : \E d \in Nat : n \in In(d) /\ (p.maxDepth # Unbounded => d <= p.maxDepth)
      /\ SearchEntries(g, p) \subseteq all
      /\ \A n \in all : \A d \in Nat : n \in In(d) /\ ~AtLimit(p, d) => Onward(Steps(g, p), {n}) \subseteq all
  BY NothingHeld DEF BfsOk, BfsLists, BfsOrder, BfsSeen
<1>2. /\ limit \in Nat /\ p.maxDepth \in Nat \cup {Unbounded}
      /\ p.maxDepth # Unbounded => limit = p.maxDepth
      /\ p.maxDepth = Unbounded => limit = Cardinality(Nodes(g))
      /\ IsGraph(g, p)
  BY FS_CardinalityType DEF IsTraversal, IsGraph, DepthLimit
<1> HIDE DEF limit, all, In
<1>3. all \subseteq In(limit)
  <2> SUFFICES ASSUME NEW n \in all PROVE n \in In(limit)
    OBVIOUS
  <2>1. PICK d \in Nat : n \in In(d) /\ (p.maxDepth # Unbounded => d <= p.maxDepth)
    BY <1>1
  <2>2. CASE p.maxDepth # Unbounded
    BY <1>2, <2>1, <2>2, InStepsGrow DEF In
  <2>3. CASE p.maxDepth = Unbounded
    BY <1>2, <2>1, <2>3, InAnySteps DEF In
  <2> QED
    BY <2>2, <2>3
<1>4. In(limit) \subseteq all
  <2> DEFINE S == {d \in Nat : d <= limit => In(d) \subseteq all}
  <2>1. 0 \in S
    BY <1>1, ReachedInLevels DEF In, InSteps
  <2>2. ASSUME NEW d \in Nat, d \in S PROVE d + 1 \in S
    <3> SUFFICES ASSUME d + 1 <= limit, NEW t \in In(d + 1) PROVE t \in all
      BY <2>2
    <3>1. In(d) \subseteq all
      BY <1>2, <2>2
    <3>2. CASE t \in In(d)
      BY <3>1, <3>2
    <3>3. ASSUME NEW n \in In(d), t \in Onward(Steps(g, p), {n}) PROVE t \in all
      BY <1>1, <1>2, <3>1, <3>3 DEF AtLimit
    <3> QED
      BY <3>2, <3>3, NextLevel DEF In
  <2>3. Nat \subseteq S
    <3> HIDE DEF S
    <3> QED
      BY <2>1, <2>2, AllNumbers
  <2> QED
    BY <1>2, <2>3
<1>5. IsInjective(s.order)
  BY <1>1, PairwiseInjective DEF NoFarther
<1>6. ASSUME NEW i \in DOMAIN s.order, NEW j \in DOMAIN s.order, NEW d \in 0 .. limit,
             i < j, s.order[j] \in In(d)
      PROVE  s.order[i] \in In(d)
  <2>1. DOMAIN s.order = 1 .. Len(s.order)
    BY <1>1, ElementsOf
  <2>2. <<s.order[i], s.order[j]>> \in NoFarther(g, p)
    BY <1>1, <1>6, <2>1 DEF Pairwise
  <2>3. d \in Nat
    BY <1>2
  <2> QED
    BY <1>6, <2>2, <2>3 DEF NoFarther, In
<1> QED
  BY <1>3, <1>4, <1>5, <1>6 DEF BfsAnswers, all, In, limit

(***************************************************************************)
(* dfs: the stack holds the ways that were found and not yet followed.     *)
(***************************************************************************)
\* Pairs of different components.
Different == {s \in Int \X Int : s[1] # s[2]}

\* What is returned or will be.
DfsFound(s) == ToSet(s.order) \cup {q[1] : q \in ToSet(s.stack)}

\* The state of a dfs: what was found is reached, and within the limit; with
\* no limit nothing was overlooked.
DfsOk(g, p, s) ==
  /\ s = [order |-> s.order, stack |-> s.stack]
  /\ s.order \in Seq(Int) /\ s.stack \in Seq(Int \X Nat)
  /\ Pairwise(s.order, Different)
  /\ \A q \in ToSet(s.stack) : /\ ~Pruned(g, p, q[1]) /\ q[1] \in InSteps(g, p, q[2])
                               /\ p.maxDepth # Unbounded => q[2] <= p.maxDepth
  /\ ToSet(s.order) \subseteq InSteps(g, p, DepthLimit(g, p))
  /\ SearchEntries(g, p) \subseteq DfsFound(s)
  /\ p.maxDepth = Unbounded =>
       \A n \in ToSet(s.order) : Onward(Steps(g, p), {n}) \subseteq DfsFound(s)

\* What is promised of the answer of dfs.
DfsAnswers(g, p, list) ==
  /\ IsInjective(list) /\ ToSet(list) \subseteq InSteps(g, p, DepthLimit(g, p))
  /\ p.maxDepth = Unbounded => ToSet(list) = InSteps(g, p, DepthLimit(g, p))

\* A dfs begins with the entry points on its stack.
LEMMA DfsBegins ==
  ASSUME NEW g, NEW p, IsTraversal(g, p)
  PROVE  DfsOk(g, p, DfsStart(g, p))
<1> DEFINE s == DfsStart(g, p)
           E == SearchEntries(g, p)
<1>1. IsFiniteSet(E) /\ E \subseteq Int
  BY EntriesFinite
<1>2. IsEntryQueue(s.stack, E)
  <2>1. s.stack = [i \in DOMAIN Ascending(E) |-> <<Ascending(E)[i], 0>>]
    BY DEF DfsStart
  <2> HIDE DEF E, s
  <2>2. IsEntryQueue([i \in DOMAIN Ascending(E) |-> <<Ascending(E)[i], 0>>], E)
    BY <1>1, EntriesListed
  <2> QED
    BY <2>1, <2>2
<1>3. s.order = <<>> /\ s = [order |-> s.order, stack |-> s.stack]
  BY DEF DfsStart
<1> HIDE DEF s
<1>4. s.order \in Seq(Int) /\ ToSet(s.order) = {} /\ \A R : Pairwise(s.order, R)
  BY <1>3, NothingHeld
<1>5. \A n \in E : ~Pruned(g, p, n)
  BY EntriesKept
<1>6. InSteps(g, p, 0) = E
  BY ReachedInLevels DEF InSteps
<1>7. p.maxDepth \in Nat \cup {Unbounded}
  BY DEF IsTraversal
<1> HIDE DEF E
<1>8. s.stack \in Seq(Int \X Nat) /\ ToSet(s.stack) = {<<n, 0>> : n \in E}
  BY <1>2 DEF IsEntryQueue
<1>9. ASSUME NEW q \in ToSet(s.stack)
      PROVE  /\ ~Pruned(g, p, q[1]) /\ q[1] \in InSteps(g, p, q[2])
             /\ p.maxDepth # Unbounded => q[2] <= p.maxDepth
  BY <1>5, <1>6, <1>7, <1>8
<1>10. ASSUME NEW n \in E PROVE n \in DfsFound(s)
  <2>1. <<n, 0>> \in ToSet(s.stack) /\ <<n, 0>>[1] = n
    BY <1>8
  <2> QED
    BY <2>1 DEF DfsFound
<1> QED
  BY <1>3, <1>4, <1>8, <1>9, <1>10 DEF DfsOk, s, E

\* An iteration of dfs keeps its state in order.
LEMMA DfsGoesOn ==
  ASSUME NEW g, NEW p, IsTraversal(g, p), NEW s, DfsOk(g, p, s), s.stack # <<>>
  PROVE  DfsOk(g, p, DfsVisit(g, p, s))
<1> DEFINE h == Head(s.stack)
           rest == Tail(s.stack)
           after == DfsVisit(g, p, s)
           open == IF AtLimit(p, h[2]) THEN {}
                   ELSE {k \in LinksOut(g, p, h[1]) : /\ ~Pruned(g, p, g.links[k].target)
                                                      /\ g.links[k].target \notin ToSet(s.order) \cup {h[1]}}
           new == Targets(g, InOrder(g, p, open), h[2] + 1)
           limit == DepthLimit(g, p)
<1>1. /\ s.order \in Seq(Int) /\ s.stack \in Seq(Int \X Nat)
      /\ Pairwise(s.order, Different)
      /\ \A q \in ToSet(s.stack) : /\ ~Pruned(g, p, q[1]) /\ q[1] \in InSteps(g, p, q[2])
                                   /\ p.maxDepth # Unbounded => q[2] <= p.maxDepth
      /\ ToSet(s.order) \subseteq InSteps(g, p, limit)
      /\ SearchEntries(g, p) \subseteq DfsFound(s)
      /\ p.maxDepth = Unbounded =>
           \A n \in ToSet(s.order) : Onward(Steps(g, p), {n}) \subseteq DfsFound(s)
  BY DEF DfsOk
<1>2. rest \in Seq(Int \X Nat) /\ h \in Int \X Nat /\ ToSet(s.stack) = {h} \cup ToSet(rest)
  BY <1>1, TailHolds
<1>3. /\ IsGraph(g, p) /\ limit \in Nat /\ p.maxDepth \in Nat \cup {Unbounded}
      /\ p.maxDepth # Unbounded => limit = p.maxDepth
      /\ p.maxDepth = Unbounded => limit = Cardinality(Nodes(g))
  BY FS_CardinalityType DEF IsTraversal, IsGraph, DepthLimit
<1>4. CASE h[1] \in ToSet(s.order)
  <2>1. after = [order |-> s.order, stack |-> rest]
    BY <1>4 DEF DfsVisit, DfsOk
  <2>2. after.order = s.order /\ after.stack = rest
    BY <2>1
  <2> HIDE DEF after
  <2>3. DfsFound(after) = DfsFound(s)
    BY <1>2, <1>4, <2>2 DEF DfsFound
  <2>4. \A q \in ToSet(after.stack) : q \in ToSet(s.stack)
    BY <1>2, <2>2
  <2> QED
    BY <1>1, <1>2, <2>1, <2>2, <2>3, <2>4 DEF DfsOk, after
<1>5. CASE h[1] \notin ToSet(s.order)
  <2>1. after = [order |-> Append(s.order, h[1]), stack |-> new \o rest]
    BY <1>5 DEF DfsVisit
  <2>2. /\ after.order = Append(s.order, h[1]) /\ after.stack = new \o rest
        /\ after = [order |-> after.order, stack |-> after.stack]
    <3> DEFINE order == Append(s.order, h[1])
               stack == new \o rest
    <3>1. after = [order |-> order, stack |-> stack]
      BY <2>1
    <3> HIDE DEF order, stack, after
    <3>2. after.order = order /\ after.stack = stack
      BY <3>1
    <3> QED
      BY <3>1, <3>2 DEF order, stack
  <2> HIDE DEF after
  <2>3. h[1] \in Int /\ h[2] \in Nat /\ h[2] + 1 \in Nat
    BY <1>2
  <2>4. open \in SUBSET (DOMAIN g.links)
    BY DEF LinksOut
  <2>5. \A k \in open : ~AtLimit(p, h[2]) /\ k \in LinksOut(g, p, h[1]) /\ ~Pruned(g, p, g.links[k].target)
    OBVIOUS
  <2>6. ~AtLimit(p, h[2]) => \A k \in LinksOut(g, p, h[1]) :
          ~Pruned(g, p, g.links[k].target) => k \in open \/ g.links[k].target \in ToSet(s.order) \cup {h[1]}
    OBVIOUS
  <2> HIDE DEF open, h
  <2>7. new \in Seq(Int \X Nat) /\ ToSet(new) = {<<g.links[k].target, h[2] + 1>> : k \in open}
    <3> DEFINE depth == h[2] + 1
    <3>1. depth \in Nat
      BY <2>3
    <3> HIDE DEF depth
    <3>2. IsTargetList(g, open, depth, Targets(g, InOrder(g, p, open), depth))
      BY <1>3, <2>4, <3>1, TargetsOfList
    <3> QED
      BY <3>2 DEF IsTargetList, depth
  <2> HIDE DEF new, rest
  <2>8. /\ after.stack \in Seq(Int \X Nat) /\ ToSet(after.stack) = ToSet(new) \cup ToSet(rest)
        /\ after.order \in Seq(Int) /\ ToSet(after.order) = ToSet(s.order) \cup {h[1]}
    <3>1. after.stack \in Seq(Int \X Nat) /\ ToSet(after.stack) = ToSet(new) \cup ToSet(rest)
      BY <1>2, <2>2, <2>7, ConcatHolds
    <3>2. after.order \in Seq(Int) /\ ToSet(after.order) = ToSet(s.order) \cup {h[1]}
      BY <1>1, <2>2, <2>3, AppendHolds
    <3> QED
      BY <3>1, <3>2
  <2>9. Pairwise(after.order, Different)
    BY <1>1, <1>5, <2>2, <2>3, ElementsOf, AppendHolds DEF Different
  <2>10. h[1] \in InSteps(g, p, h[2]) /\ ~Pruned(g, p, h[1]) /\ (p.maxDepth # Unbounded => h[2] <= p.maxDepth)
    BY <1>1, <1>2
  <2>11. \A t : t \in Onward(Steps(g, p), {h[1]}) <=>
                 \E k \in LinksOut(g, p, h[1]) : t = g.links[k].target /\ ~Pruned(g, p, t)
    BY <2>10, StepsOfNode
  <2>12. ASSUME NEW q \in ToSet(new)
         PROVE  /\ ~Pruned(g, p, q[1]) /\ q[1] \in InSteps(g, p, q[2])
                /\ p.maxDepth # Unbounded => q[2] <= p.maxDepth
    <3>1. PICK k \in open : q = <<g.links[k].target, h[2] + 1>>
      BY <2>7
    <3>2. q[1] = g.links[k].target /\ q[2] = h[2] + 1
      BY <3>1
    <3>3. q[1] \in Onward(Steps(g, p), {h[1]})
      BY <2>5, <2>11, <3>2
    <3>4. q[1] \in InSteps(g, p, q[2])
      BY <2>3, <2>10, <3>2, <3>3, OneStepMore
    <3>5. p.maxDepth # Unbounded => q[2] <= p.maxDepth
      BY <1>3, <2>3, <2>5, <3>2 DEF AtLimit
    <3> QED
      BY <2>5, <3>2, <3>4, <3>5
  <2>13. \A q \in ToSet(after.stack) : /\ ~Pruned(g, p, q[1]) /\ q[1] \in InSteps(g, p, q[2])
                                       /\ p.maxDepth # Unbounded => q[2] <= p.maxDepth
    BY <1>1, <1>2, <2>8, <2>12
  <2>14. h[1] \in InSteps(g, p, limit)
    BY <1>3, <2>3, <2>10, InStepsGrow, InAnySteps
  <2>15. DfsFound(s) \subseteq DfsFound(after)
    BY <1>2, <2>8 DEF DfsFound
  <2>16. ASSUME p.maxDepth = Unbounded, NEW t \in Onward(Steps(g, p), {h[1]}) PROVE t \in DfsFound(after)
    <3>1. ~AtLimit(p, h[2])
      BY <2>16 DEF AtLimit
    <3>2. PICK k \in LinksOut(g, p, h[1]) : t = g.links[k].target /\ ~Pruned(g, p, t)
      BY <2>11, <2>16
    <3>3. CASE k \in open
      <4>1. <<t, h[2] + 1>> \in ToSet(after.stack) /\ <<t, h[2] + 1>>[1] = t
        BY <2>7, <2>8, <3>2, <3>3
      <4> QED
        BY <4>1 DEF DfsFound
    <3>4. CASE t \in ToSet(after.order)
      BY <3>4 DEF DfsFound
    <3> QED
      BY <2>6, <2>8, <3>1, <3>2, <3>3, <3>4
  <2>17. p.maxDepth = Unbounded =>
           \A n \in ToSet(after.order) : Onward(Steps(g, p), {n}) \subseteq DfsFound(after)
    BY <1>1, <2>8, <2>15, <2>16
  <2>18. ToSet(after.order) \subseteq InSteps(g, p, limit) /\ SearchEntries(g, p) \subseteq DfsFound(after)
    BY <1>1, <2>8, <2>14, <2>15
  <2> QED
    BY <2>1, <2>2, <2>8, <2>9, <2>13, <2>17, <2>18 DEF DfsOk, after, limit
<1> QED
  BY <1>4, <1>5

\* When the stack is empty everything was returned that is within the limit,
\* all of it if there is none.
LEMMA DfsEnds ==
  ASSUME NEW g, NEW p, IsTraversal(g, p), NEW s, DfsOk(g, p, s), s.stack = <<>>
  PROVE  DfsAnswers(g, p, s.order)
<1> DEFINE all == ToSet(s.order)
<1>1. /\ s.order \in Seq(Int) /\ Pairwise(s.order, Different)
      /\ all \subseteq InSteps(g, p, DepthLimit(g, p))
      /\ SearchEntries(g, p) \subseteq DfsFound(s)
      /\ p.maxDepth = Unbounded => \A n \in all : Onward(Steps(g, p), {n}) \subseteq DfsFound(s)
  BY DEF DfsOk
<1>2. DfsFound(s) = all
  BY NothingHeld DEF DfsFound
<1>3. IsInjective(s.order)
  BY <1>1, PairwiseInjective DEF Different
<1> HIDE DEF all
<1>4. ASSUME p.maxDepth = Unbounded PROVE InSteps(g, p, DepthLimit(g, p)) \subseteq all
  <2>1. DepthLimit(g, p) \in Nat
    BY <1>4, FS_CardinalityType DEF IsTraversal, IsGraph, DepthLimit
  <2>2. Onward(Steps(g, p), all) \subseteq all
    BY <1>1, <1>2, <1>4, OnwardFromOne
  <2> QED
    BY <1>1, <1>2, <2>1, <2>2, LeastClosed DEF InSteps
<1> QED
  BY <1>1, <1>3, <1>4 DEF DfsAnswers, all

\* The state of a search while it works, and its answer.
SearchesGoOn ==
  /\ Working("bfs")  => BfsOk(graph, policy, answer)
  /\ Answered("bfs") => BfsAnswers(graph, policy, answer)
  /\ Working("dfs")  => DfsOk(graph, policy, answer)
  /\ Answered("dfs") => DfsAnswers(graph, policy, answer)

\* Every reachable state has SearchesFindWhatIsReachable: bfs and dfs return
\* exactly what the entry points reach, once each, bfs by distance; with a
\* depth limit bfs returns what is within it and dfs nothing beyond it.
THEOREM SearchesFindTheReachable == Spec => []SearchesFindWhatIsReachable
<1>1. Init => SearchesGoOn
  BY DEF Init, SearchesGoOn, Working, Answered
<1>2. SearchesGoOn /\ AskedFor /\ [Next]_vars => SearchesGoOn'
  <2> SUFFICES ASSUME SearchesGoOn, AskedFor, [Next]_vars PROVE SearchesGoOn'
    OBVIOUS
  <2>1. CASE UNCHANGED vars
    BY <2>1 DEF vars, SearchesGoOn, Working, Answered, graph, policy
  <2>2. CASE AskAnything \/ Forget
    BY <2>2, AskingGives DEF Forget, SearchesGoOn, Working, Answered
  <2>3. ASSUME query.kind \in {"bfs", "dfs"}, phase # "idle" PROVE IsTraversal(graph, policy)
    BY <2>3, GraphsAreFinite DEF AskedFor, IsTraversal, graph, policy
  <2>4. CASE UNCHANGED query /\ query.kind = "bfs" /\ BfsNext
    <3>1. phase \in {"asked", "working"}
      BY <2>4 DEF BfsNext, BeginBfs, VisitBfs, EndBfs, Asked, Working
    <3>2. IsTraversal(graph, policy)
      BY <2>3, <2>4, <3>1
    <3>3. graph' = graph /\ policy' = policy
      BY <2>4 DEF graph, policy
    <3>4. CASE BeginBfs
      BY <3>2, <3>3, <3>4, <2>4, BfsBegins DEF BeginBfs, Begin, GoTo, SearchesGoOn, Working, Answered
    <3>5. CASE VisitBfs
      BY <3>2, <3>3, <3>5, <2>4, BfsGoesOn DEF VisitBfs, GoOn, GoTo, SearchesGoOn, Working, Answered
    <3>6. CASE EndBfs
      BY <3>2, <3>3, <3>6, <2>4, BfsEnds DEF EndBfs, Answer, GoTo, SearchesGoOn, Working, Answered
    <3> QED
      BY <2>4, <3>4, <3>5, <3>6 DEF BfsNext
  <2>5. CASE UNCHANGED query /\ query.kind = "dfs" /\ DfsNext
    <3>1. phase \in {"asked", "working"}
      BY <2>5 DEF DfsNext, BeginDfs, VisitDfs, EndDfs, Asked, Working
    <3>2. IsTraversal(graph, policy)
      BY <2>3, <2>5, <3>1
    <3>3. graph' = graph /\ policy' = policy
      BY <2>5 DEF graph, policy
    <3>4. CASE BeginDfs
      BY <3>2, <3>3, <3>4, <2>5, DfsBegins DEF BeginDfs, Begin, GoTo, SearchesGoOn, Working, Answered
    <3>5. CASE VisitDfs
      BY <3>2, <3>3, <3>5, <2>5, DfsGoesOn DEF VisitDfs, GoOn, GoTo, SearchesGoOn, Working, Answered
    <3>6. CASE EndDfs
      BY <3>2, <3>3, <3>6, <2>5, DfsEnds DEF EndDfs, Answer, GoTo, SearchesGoOn, Working, Answered
    <3> QED
      BY <2>5, <3>4, <3>5, <3>6 DEF DfsNext
  <2>6. CASE UNCHANGED query /\ query.kind \notin {"bfs", "dfs"}
    BY <2>6 DEF SearchesGoOn, Working, Answered
  <2> QED
    BY <2>1, <2>2, <2>4, <2>5, <2>6, StepOfKind
<1>3. SearchesGoOn => SearchesFindWhatIsReachable
  BY DEF SearchesGoOn, SearchesFindWhatIsReachable, BfsAnswers, DfsAnswers, DepthLimit, InSteps
<1> QED
  BY <1>1, <1>2, <1>3, AlwaysAskedFor, PTL DEF Spec

(***************************************************************************)
(* Lists, by how each element is related to the next one.                  *)
(***************************************************************************)
Linked(list, R) == \A i \in 1 .. Len(list) : i # 1 => <<list[i - 1], list[i]>> \in R

\* Links of a list that are links of the rest of it, and the first one.
LEMMA LinkedTail ==
  ASSUME NEW T, NEW list \in Seq(T), NEW R, Linked(list, R), list # <<>>
  PROVE  /\ Linked(Tail(list), R)
         /\ Tail(list) # <<>> => <<Head(list), Head(Tail(list))>> \in R
<1> DEFINE t == Tail(list)
           n == Len(list)
<1>1. n \in Nat /\ n # 0
  BY LenProperties, EmptySeq
<1>2. /\ t \in Seq(T) /\ Len(t) = n - 1 /\ Head(list) = list[1]
      /\ \A i \in 1 .. n - 1 : t[i] = list[i + 1]
  BY HeadTailProperties
<1>3. t # <<>> => Len(t) # 0 /\ Head(t) = t[1]
  BY <1>2, EmptySeq, HeadTailProperties
<1> HIDE DEF t
<1>4. ASSUME NEW i \in 1 .. Len(t), i # 1 PROVE <<t[i - 1], t[i]>> \in R
  <2>1. i - 1 \in 1 .. n - 1 /\ i \in 1 .. n - 1
    BY <1>1, <1>2, <1>4
  <2>2. t[i - 1] = list[(i - 1) + 1] /\ t[i] = list[i + 1]
    BY <1>2, <2>1
  <2>3. (i - 1) + 1 = (i + 1) - 1 /\ i + 1 \in 1 .. n /\ i + 1 # 1
    BY <1>1, <2>1
  <2>4. <<list[(i + 1) - 1], list[i + 1]>> \in R
    BY <2>3 DEF Linked
  <2> QED
    BY <2>2, <2>3, <2>4
<1>5. ASSUME t # <<>> PROVE <<Head(list), Head(t)>> \in R
  BY <1>1, <1>2, <1>3, <1>5 DEF Linked
<1> QED
  BY <1>4, <1>5 DEF Linked, t

\* An element before a list.
LEMMA PrependHolds ==
  ASSUME NEW T, NEW list \in Seq(T), NEW x \in T
  PROVE  LET new == <<x>> \o list
         IN  /\ new \in Seq(T) /\ new # <<>> /\ Head(new) = x /\ Tail(new) = list
             /\ ToSet(new) = {x} \cup ToSet(list)
             /\ \A R : Pairwise(list, R) /\ (\A y \in ToSet(list) : <<x, y>> \in R) => Pairwise(new, R)
             /\ \A R : Linked(list, R) /\ (list # <<>> => <<x, Head(list)>> \in R) => Linked(new, R)
<1> DEFINE new == <<x>> \o list
           one == <<x>>
           n == Len(list)
<1>1. one \in Seq(T) /\ ToSet(one) = {x} /\ (\A R : Pairwise(one, R)) /\ Len(one) = 1 /\ one[1] = x
  BY SingleHolds
<1>2. n \in Nat
  BY LenProperties
<1> HIDE DEF one
<1>3. /\ one \o list \in Seq(T) /\ ToSet(one \o list) = ToSet(one) \cup ToSet(list)
      /\ \A R : Pairwise(one, R) /\ Pairwise(list, R) /\ (\A a \in ToSet(one), b \in ToSet(list) : <<a, b>> \in R)
                  => Pairwise(one \o list, R)
  BY <1>1, ConcatHolds
<1>4. /\ Len(one \o list) = n + 1
      /\ \A i \in 1 .. 1 + n : (one \o list)[i] = IF i <= 1 THEN one[i] ELSE list[i - 1]
  <2>1. /\ Len(one \o list) = Len(one) + Len(list)
        /\ \A i \in 1 .. Len(one) + Len(list) :
             (one \o list)[i] = IF i <= Len(one) THEN one[i] ELSE list[i - Len(one)]
    BY <1>1, ConcatProperties
  <2> QED
    BY <1>1, <1>2, <2>1
<1>5. new = one \o list
  BY DEF one
<1> HIDE DEF new
<1>6. /\ new \in Seq(T) /\ Len(new) = n + 1 /\ new[1] = x
      /\ \A i \in 1 .. n + 1 : i # 1 => new[i] = list[i - 1]
  BY <1>1, <1>2, <1>3, <1>4, <1>5
<1>7. new # <<>> /\ Head(new) = x
  BY <1>2, <1>6, EmptySeq, HeadTailProperties
<1>8. Tail(new) = list
  <2>1. /\ Tail(new) \in Seq(T) /\ Len(Tail(new)) = n
        /\ \A i \in 1 .. n : Tail(new)[i] = new[i + 1]
    BY <1>2, <1>6, <1>7, HeadTailProperties
  <2>2. \A i \in 1 .. n : Tail(new)[i] = list[i]
    <3> SUFFICES ASSUME NEW i \in 1 .. n PROVE Tail(new)[i] = list[i]
      OBVIOUS
    <3>1. i + 1 \in 1 .. n + 1 /\ i + 1 # 1 /\ (i + 1) - 1 = i
      BY <1>2
    <3>2. new[i + 1] = list[(i + 1) - 1]
      BY <1>6, <3>1
    <3> QED
      BY <2>1, <3>1, <3>2
  <2> QED
    BY <2>1, <2>2, SeqEqual
<1>9. \A R : Pairwise(list, R) /\ (\A y \in ToSet(list) : <<x, y>> \in R) => Pairwise(new, R)
  BY <1>1, <1>3, <1>5
<1>10. ASSUME NEW R, Linked(list, R), list # <<>> => <<x, Head(list)>> \in R PROVE Linked(new, R)
  <2> SUFFICES ASSUME NEW i \in 1 .. Len(new), i # 1 PROVE <<new[i - 1], new[i]>> \in R
    BY DEF Linked
  <2>1. i \in 1 .. n + 1 /\ i - 1 \in 1 .. n + 1 /\ new[i] = list[i - 1] /\ i - 1 \in 1 .. n
    BY <1>2, <1>6
  <2>2. CASE i = 2
    BY <1>2, <1>6, <1>10, <2>1, <2>2, HeadTailProperties, LenProperties, EmptySeq
  <2>3. CASE i # 2
    BY <1>6, <1>10, <2>1, <2>3 DEF Linked
  <2> QED
    BY <2>2, <2>3
<1> QED
  BY <1>1, <1>3, <1>5, <1>6, <1>7, <1>8, <1>9, <1>10 DEF new

(***************************************************************************)
(* The search of validateDefinitionGraph.                                  *)
(***************************************************************************)
\* What is nested in a definition, over any number of others, is what its own
\* components bring and all that these bring.
LEMMA NestedCloses ==
  ASSUME NEW defs, IsFiniteSet(DOMAIN defs), NEW type
  PROVE  /\ Nested(defs, type) \subseteq NestedIn(defs, type) /\ NestedIn(defs, type) \subseteq DOMAIN defs
         /\ \A m \in NestedIn(defs, type) : Nested(defs, m) \subseteq NestedIn(defs, type)
         /\ \A C : /\ Nested(defs, type) \subseteq C
                   /\ \A m \in C \cap DOMAIN defs : Nested(defs, m) \subseteq C
                   => NestedIn(defs, type) \subseteq C
<1> DEFINE steps == {s \in (DOMAIN defs) \X (DOMAIN defs) : s[2] \in Nested(defs, s[1])}
           from == Nested(defs, type)
           n == Cardinality(DOMAIN defs)
           R == ReachedIn(steps, from, n)
<1>1. n \in Nat /\ n >= n
  BY FS_CardinalityType
<1>2. \A m : Nested(defs, m) \subseteq DOMAIN defs
  BY DEF Nested
<1>3. \A S : \A t : t \in Onward(steps, S) <=> \E m \in S \cap DOMAIN defs : t \in Nested(defs, m)
  <2>1. ASSUME NEW S, NEW t, t \in Onward(steps, S) PROVE \E m \in S \cap DOMAIN defs : t \in Nested(defs, m)
    BY <2>1 DEF Onward
  <2>2. ASSUME NEW S, NEW t, NEW m \in S \cap DOMAIN defs, t \in Nested(defs, m) PROVE t \in Onward(steps, S)
    <3> DEFINE s == <<m, t>>
    <3>1. s \in steps /\ s[1] = m /\ s[2] = t
      BY <1>2, <2>2
    <3> HIDE DEF s, steps
    <3> QED
      BY <3>1 DEF Onward
  <2> QED
    BY <2>1, <2>2
<1> HIDE DEF steps
<1>4. from \subseteq DOMAIN defs /\ Onward(steps, DOMAIN defs) \subseteq DOMAIN defs
  BY <1>2, <1>3
<1> HIDE DEF from, n
<1>5. R \subseteq DOMAIN defs /\ from \subseteq R /\ Onward(steps, R) \subseteq R
  BY <1>1, <1>4, ReachedClosed DEF n
<1>6. ASSUME NEW C, from \subseteq C, \A m \in C \cap DOMAIN defs : Nested(defs, m) \subseteq C
      PROVE  R \subseteq C
  BY <1>1, <1>3, <1>6, LeastClosed
<1>7. \A m \in R : Nested(defs, m) \subseteq R
  BY <1>3, <1>5
<1>8. NestedIn(defs, type) = R
  BY DEF NestedIn, R, steps, from, n
<1> HIDE DEF R
<1> QED
  BY <1>5, <1>6, <1>7, <1>8 DEF from

\* What a definition may be refused for.
Faulty(defs, type) == ~PortsKnown(defs[type]) \/ type \in NestedIn(defs, type)

\* The calls of the search, and those that are inside of another.
CallsOf(defs) == [type : DOMAIN defs, nested : SUBSET (DOMAIN defs)]

\* A call, and one that it was made from, directly or further out.
InsideOf(defs) ==
  {s \in CallsOf(defs) \X CallsOf(defs) : /\ s[1].type # s[2].type
                                          /\ s[1].type \in NestedIn(defs, s[2].type)}

\* The definitions that are done.
DoneIn(s) == {type \in DOMAIN s.state : s.state[type] = 2}

\* A call has only the one inside of it left, besides what it has still to
\* look at.
LeftTo(defs, done) ==
  {s \in CallsOf(defs) \X CallsOf(defs) :
     Nested(defs, s[2].type) \subseteq done \cup s[2].nested \cup {s[1].type}}

\* The state of the search.
SearchShape(defs, s) ==
  /\ s = [state |-> s.state, ok |-> s.ok, calls |-> s.calls]
  /\ s.ok \in BOOLEAN /\ s.calls \in Seq(CallsOf(defs))
  /\ s.state = [type \in DOMAIN s.state |-> s.state[type]]
  /\ DOMAIN s.state \subseteq DOMAIN defs
  /\ \A type \in DOMAIN s.state : s.state[type] \in {1, 2}

\* The calls go inwards, and the definitions entered are those of the calls.
SearchStack(defs, s) ==
  /\ Pairwise(s.calls, InsideOf(defs))
  /\ \A c \in ToSet(s.calls) : c.nested \subseteq Nested(defs, c.type)
  /\ \A type : (type \in DOMAIN s.state /\ s.state[type] = 1) <=> \E c \in ToSet(s.calls) : c.type = type

\* As long as nothing was refused, what is done is in order, with all that is
\* nested in it.
SearchGood(defs, s, entering) ==
  /\ \A type \in DoneIn(s) : Nested(defs, type) \subseteq DoneIn(s) /\ ~Faulty(defs, type)
  /\ \A c \in ToSet(s.calls) : PortsKnown(defs[c.type])
  /\ Linked(s.calls, LeftTo(defs, DoneIn(s)))
  /\ s.calls # <<>> => Nested(defs, Head(s.calls).type) \subseteq DoneIn(s) \cup Head(s.calls).nested \cup entering

\* The state of the search, also between looking at a definition and entering
\* it.
SearchState(defs, s, entering) ==
  /\ SearchShape(defs, s) /\ SearchStack(defs, s)
  /\ s.ok => SearchGood(defs, s, entering)
  /\ ~s.ok => \E type \in DOMAIN defs : Faulty(defs, type)

\* The state between two steps of the search.
ValidationOk(defs, s) == SearchState(defs, s, {})

\* The search begins with nothing looked at.
LEMMA ValidationBegins == ASSUME NEW defs PROVE ValidationOk(defs, ValidationStart)
<1> DEFINE s == ValidationStart
<1>1. s.state = <<>> /\ s.ok = TRUE /\ s.calls = <<>> /\ s = [state |-> <<>>, ok |-> TRUE, calls |-> <<>>]
  BY DEF ValidationStart
<1> HIDE DEF s
<1>2. DOMAIN s.state = {} /\ s.state = [type \in DOMAIN s.state |-> s.state[type]]
  BY <1>1
<1>3. ToSet(s.calls) = {} /\ \A R : Pairwise(s.calls, R)
  BY <1>1, NothingHeld
<1>4. \A R : Linked(s.calls, R)
  BY <1>1 DEF Linked
<1>5. s.calls \in Seq(CallsOf(defs))
  BY <1>1
<1>6. SearchShape(defs, s)
  BY <1>1, <1>2, <1>5 DEF SearchShape
<1>7. SearchStack(defs, s)
  BY <1>2, <1>3 DEF SearchStack
<1>8. SearchGood(defs, s, {})
  BY <1>1, <1>2, <1>3, <1>4 DEF SearchGood, DoneIn
<1> QED
  BY <1>1, <1>6, <1>7, <1>8 DEF ValidationOk, SearchState, s

\* What is linked stays linked when more is done.
LEMMA LeftToMore ==
  ASSUME NEW defs, NEW done, NEW more, done \subseteq more, NEW list, Linked(list, LeftTo(defs, done))
  PROVE  Linked(list, LeftTo(defs, more))
<1>1. LeftTo(defs, done) \subseteq LeftTo(defs, more)
  BY DEF LeftTo
<1> QED
  BY <1>1 DEF Linked

\* A definition is entered, from outside or out of the innermost call.
LEMMA EnterKeeps ==
  ASSUME NEW defs, IsFiniteSet(DOMAIN defs), NEW type \in DOMAIN defs,
         NEW s, SearchState(defs, s, {type}), type \notin DOMAIN s.state,
         s.calls # <<>> => type \in Nested(defs, Head(s.calls).type)
  PROVE  ValidationOk(defs, EnterDefinition(defs, s, type))
<1> DEFINE t == EnterDefinition(defs, s, type)
           call == [type |-> type, nested |-> Nested(defs, type)]
           new == <<call>> \o s.calls
<1>1. /\ s.ok \in BOOLEAN /\ s.calls \in Seq(CallsOf(defs))
      /\ DOMAIN s.state \subseteq DOMAIN defs
      /\ \A x \in DOMAIN s.state : s.state[x] \in {1, 2}
      /\ Pairwise(s.calls, InsideOf(defs))
      /\ \A c \in ToSet(s.calls) : c.nested \subseteq Nested(defs, c.type)
      /\ \A x : (x \in DOMAIN s.state /\ s.state[x] = 1) <=> \E c \in ToSet(s.calls) : c.type = x
  BY DEF SearchState, SearchShape, SearchStack
<1>2. /\ t.state = [x \in DOMAIN s.state \cup {type} |-> IF x = type THEN 1 ELSE s.state[x]]
      /\ t.ok = (s.ok /\ PortsKnown(defs[type])) /\ t.calls = new
      /\ t = [state |-> t.state, ok |-> t.ok, calls |-> t.calls]
  BY DEF EnterDefinition
<1>3. call \in CallsOf(defs) /\ call.type = type /\ call.nested = Nested(defs, type)
  BY DEF CallsOf, Nested
<1> HIDE DEF t, call
<1>4. /\ new \in Seq(CallsOf(defs)) /\ new # <<>> /\ Head(new) = call /\ ToSet(new) = {call} \cup ToSet(s.calls)
      /\ \A R : Pairwise(s.calls, R) /\ (\A y \in ToSet(s.calls) : <<call, y>> \in R) => Pairwise(new, R)
      /\ \A R : Linked(s.calls, R) /\ (s.calls # <<>> => <<call, Head(s.calls)>> \in R) => Linked(new, R)
  <2> DEFINE T == CallsOf(defs)
             calls == s.calls
  <2>1. calls \in Seq(T) /\ call \in T
    BY <1>1, <1>3
  <2> HIDE DEF T, calls
  <2>2. LET more == <<call>> \o calls
        IN  /\ more \in Seq(T) /\ more # <<>> /\ Head(more) = call /\ ToSet(more) = {call} \cup ToSet(calls)
            /\ \A R : Pairwise(calls, R) /\ (\A y \in ToSet(calls) : <<call, y>> \in R) => Pairwise(more, R)
            /\ \A R : Linked(calls, R) /\ (calls # <<>> => <<call, Head(calls)>> \in R) => Linked(more, R)
    BY <2>1, PrependHolds
  <2> QED
    BY <2>2 DEF T, calls
<1> HIDE DEF new
<1>5. /\ DOMAIN t.state = DOMAIN s.state \cup {type} /\ t.state[type] = 1
      /\ \A x \in DOMAIN s.state : t.state[x] = s.state[x]
      /\ t.state = [x \in DOMAIN t.state |-> t.state[x]]
  BY <1>2
<1>6. DoneIn(t) = DoneIn(s)
  BY <1>5 DEF DoneIn
<1>7. SearchShape(defs, t)
  BY <1>1, <1>2, <1>4, <1>5 DEF SearchShape
<1>8. ASSUME NEW c \in ToSet(s.calls)
      PROVE  /\ c \in CallsOf(defs) /\ c.type # type /\ type \in NestedIn(defs, c.type)
             /\ c = Head(s.calls) => c.type \in DOMAIN defs
  <2>1. s.calls # <<>> /\ ToSet(s.calls) \subseteq CallsOf(defs)
    BY <1>1, ElementsOf, NothingHeld
  <2>2. c.type # type
    BY <1>1
  <2>3. c.type \in DOMAIN defs
    BY <2>1 DEF CallsOf
  <2>4. type \in Nested(defs, Head(s.calls).type)
    BY <2>1
  <2>5. CASE c = Head(s.calls)
    BY <2>1, <2>2, <2>3, <2>4, <2>5, NestedCloses
  <2>6. CASE c # Head(s.calls)
    <3>1. c \in ToSet(Tail(s.calls)) /\ <<Head(s.calls), c>> \in InsideOf(defs)
      BY <1>1, <2>1, <2>6, TailHolds
    <3>2. Head(s.calls).type \in NestedIn(defs, c.type)
      BY <3>1 DEF InsideOf
    <3> QED
      BY <2>1, <2>2, <2>3, <2>4, <2>6, <3>2, NestedCloses
  <2> QED
    BY <2>1, <2>2, <2>3, <2>5, <2>6
<1>9. SearchStack(defs, t)
  <2>1. ASSUME NEW y \in ToSet(s.calls) PROVE <<call, y>> \in InsideOf(defs)
    BY <1>3, <1>8 DEF InsideOf
  <2>2. Pairwise(t.calls, InsideOf(defs))
    BY <1>1, <1>2, <1>4, <2>1
  <2>3. \A c \in ToSet(t.calls) : c.nested \subseteq Nested(defs, c.type)
    BY <1>1, <1>2, <1>3, <1>4
  <2>4. ASSUME NEW x
        PROVE  (x \in DOMAIN t.state /\ t.state[x] = 1) <=> \E c \in ToSet(t.calls) : c.type = x
    <3>1. CASE x = type
      BY <1>2, <1>3, <1>4, <1>5, <3>1
    <3>2. CASE x # type
      <4>1. (\E c \in ToSet(t.calls) : c.type = x) <=> \E c \in ToSet(s.calls) : c.type = x
        BY <1>2, <1>3, <1>4, <3>2
      <4>2. (x \in DOMAIN t.state /\ t.state[x] = 1) <=> (x \in DOMAIN s.state /\ s.state[x] = 1)
        BY <1>5, <3>2
      <4> QED
        BY <1>1, <4>1, <4>2
    <3> QED
      BY <3>1, <3>2
  <2> QED
    BY <2>2, <2>3, <2>4 DEF SearchStack
<1>10. ASSUME t.ok PROVE SearchGood(defs, t, {})
  <2>1. SearchGood(defs, s, {type}) /\ PortsKnown(defs[type])
    BY <1>2, <1>10 DEF SearchState
  <2>2. \A c \in ToSet(t.calls) : PortsKnown(defs[c.type])
    BY <1>2, <1>3, <1>4, <2>1 DEF SearchGood
  <2>3. Linked(t.calls, LeftTo(defs, DoneIn(t)))
    BY <1>1, <1>2, <1>3, <1>4, <1>6, <2>1, TailHolds DEF SearchGood, LeftTo
  <2>4. Nested(defs, Head(t.calls).type) \subseteq DoneIn(t) \cup Head(t.calls).nested
    BY <1>2, <1>3, <1>4
  <2>5. \A x \in DoneIn(t) : Nested(defs, x) \subseteq DoneIn(t) /\ ~Faulty(defs, x)
    BY <1>6, <2>1 DEF SearchGood
  <2> QED
    BY <2>2, <2>3, <2>4, <2>5 DEF SearchGood
<1>11. ASSUME ~t.ok PROVE \E x \in DOMAIN defs : Faulty(defs, x)
  BY <1>2, <1>11 DEF SearchState, Faulty
<1> QED
  BY <1>7, <1>9, <1>10, <1>11 DEF ValidationOk, SearchState, t

\* The innermost call has one definition less to look at.
LEMMA LookedAtKeeps ==
  ASSUME NEW defs, NEW s, ValidationOk(defs, s), s.calls # <<>>, NEW nested \in Head(s.calls).nested
  PROVE  LET l == LookedAt(s, nested)
         IN  /\ SearchState(defs, l, {nested}) /\ l.state = s.state /\ l.ok = s.ok
             /\ nested \in DOMAIN defs
             /\ nested \in Nested(defs, Head(l.calls).type)
             /\ nested \in Nested(defs, Head(s.calls).type)
<1> DEFINE l == LookedAt(s, nested)
           h == Head(s.calls)
           call == [h EXCEPT !.nested = @ \ {nested}]
           rest == Tail(s.calls)
           new == <<call>> \o rest
<1>1. /\ s.calls \in Seq(CallsOf(defs))
      /\ s = [state |-> s.state, ok |-> s.ok, calls |-> s.calls]
      /\ Pairwise(s.calls, InsideOf(defs))
      /\ \A c \in ToSet(s.calls) : c.nested \subseteq Nested(defs, c.type)
      /\ \A x : (x \in DOMAIN s.state /\ s.state[x] = 1) <=> \E c \in ToSet(s.calls) : c.type = x
  BY DEF ValidationOk, SearchState, SearchShape, SearchStack
<1>2. l = [s EXCEPT !.calls = new]
  BY <1>1 DEF LookedAt
<1>3. /\ rest \in Seq(CallsOf(defs)) /\ h \in CallsOf(defs) /\ ToSet(s.calls) = {h} \cup ToSet(rest)
      /\ \A R : Pairwise(s.calls, R) => Pairwise(rest, R) /\ \A x \in ToSet(rest) : <<h, x>> \in R
  BY <1>1, TailHolds
<1> HIDE DEF h, rest
<1>4. call \in CallsOf(defs) /\ call.type = h.type /\ call.nested = h.nested \ {nested}
  BY <1>3 DEF CallsOf
<1> HIDE DEF call
<1>5. /\ new \in Seq(CallsOf(defs)) /\ new # <<>> /\ Head(new) = call /\ ToSet(new) = {call} \cup ToSet(rest)
      /\ \A R : Pairwise(rest, R) /\ (\A y \in ToSet(rest) : <<call, y>> \in R) => Pairwise(new, R)
      /\ \A R : Linked(rest, R) /\ (rest # <<>> => <<call, Head(rest)>> \in R) => Linked(new, R)
  BY <1>3, <1>4, PrependHolds
<1> HIDE DEF new, l
<1>6. /\ l.state = s.state /\ l.ok = s.ok /\ l.calls = new
      /\ l = [state |-> l.state, ok |-> l.ok, calls |-> l.calls]
  BY <1>1, <1>2
<1>7. DoneIn(l) = DoneIn(s)
  BY <1>6 DEF DoneIn
<1>8. SearchShape(defs, l)
  BY <1>5, <1>6 DEF ValidationOk, SearchState, SearchShape
<1>9. ToSet(rest) \subseteq CallsOf(defs)
  BY <1>3, ElementsOf
<1>10. SearchStack(defs, l)
  <2>1. Pairwise(rest, InsideOf(defs)) /\ \A x \in ToSet(rest) : <<h, x>> \in InsideOf(defs)
    BY <1>1, <1>3
  <2>2. ASSUME NEW y \in ToSet(rest) PROVE <<call, y>> \in InsideOf(defs)
    BY <1>4, <1>9, <2>1 DEF InsideOf
  <2>3. Pairwise(new, InsideOf(defs))
    BY <1>5, <2>1, <2>2
  <2>4. \A c \in ToSet(new) : c.nested \subseteq Nested(defs, c.type)
    BY <1>1, <1>3, <1>4, <1>5
  <2>5. \A x : (\E c \in ToSet(new) : c.type = x) <=> \E c \in ToSet(s.calls) : c.type = x
    BY <1>3, <1>4, <1>5
  <2> QED
    BY <1>1, <1>6, <2>3, <2>4, <2>5 DEF SearchStack
<1>11. ASSUME l.ok PROVE SearchGood(defs, l, {nested})
  <2>1. SearchGood(defs, s, {})
    BY <1>6, <1>11 DEF ValidationOk, SearchState
  <2>2. \A c \in ToSet(new) : PortsKnown(defs[c.type])
    BY <1>3, <1>4, <1>5, <2>1 DEF SearchGood
  <2>3. /\ Linked(rest, LeftTo(defs, DoneIn(s)))
        /\ rest # <<>> => <<h, Head(rest)>> \in LeftTo(defs, DoneIn(s))
    BY <1>1, <2>1, LinkedTail DEF SearchGood, h, rest
  <2>4. rest # <<>> => <<call, Head(rest)>> \in LeftTo(defs, DoneIn(s))
    BY <1>4, <2>3 DEF LeftTo
  <2>5. Linked(new, LeftTo(defs, DoneIn(s)))
    BY <1>5, <2>3, <2>4
  <2>6. Nested(defs, call.type) \subseteq DoneIn(s) \cup call.nested \cup {nested}
    BY <1>4, <2>1 DEF SearchGood, h
  <2>7. \A x \in DoneIn(s) : Nested(defs, x) \subseteq DoneIn(s) /\ ~Faulty(defs, x)
    BY <2>1 DEF SearchGood
  <2> QED
    BY <1>5, <1>6, <1>7, <2>2, <2>5, <2>6, <2>7 DEF SearchGood
<1>12. ~l.ok => \E x \in DOMAIN defs : Faulty(defs, x)
  BY <1>6 DEF ValidationOk, SearchState
<1>13. SearchState(defs, l, {nested})
  BY <1>8, <1>10, <1>11, <1>12 DEF SearchState
<1>14. nested \in Nested(defs, h.type) /\ nested \in DOMAIN defs
  BY <1>1, <1>3 DEF h, Nested
<1> QED
  BY <1>4, <1>5, <1>6, <1>13, <1>14 DEF l, h

\* The innermost call looks at a definition: it goes into one that is new, has
\* nothing to do with one that is done, and is refused for one that it is in.
LEMMA LookKeeps ==
  ASSUME NEW defs, IsFiniteSet(DOMAIN defs), NEW s, ValidationOk(defs, s), s.calls # <<>>,
         NEW nested \in Head(s.calls).nested
  PROVE  ValidationOk(defs, LookAtNested(defs, s, nested))
<1> DEFINE l == LookedAt(s, nested)
           t == LookAtNested(defs, s, nested)
<1>1. /\ SearchState(defs, l, {nested}) /\ l.state = s.state /\ l.ok = s.ok
      /\ nested \in DOMAIN defs
      /\ nested \in Nested(defs, Head(l.calls).type) /\ nested \in Nested(defs, Head(s.calls).type)
  BY LookedAtKeeps
<1> HIDE DEF l
<1>2. CASE nested \notin DOMAIN s.state
  <2>1. t = EnterDefinition(defs, l, nested)
    BY <1>2 DEF LookAtNested, l
  <2> HIDE DEF t
  <2>2. ValidationOk(defs, EnterDefinition(defs, l, nested))
    BY <1>1, <1>2, EnterKeeps
  <2> QED
    BY <2>1, <2>2 DEF t
<1>3. CASE nested \in DOMAIN s.state
  <2>1. t = [l EXCEPT !.ok = @ /\ s.state[nested] = 2]
    BY <1>3 DEF LookAtNested, l
  <2> HIDE DEF t
  <2>2. l = [state |-> l.state, ok |-> l.ok, calls |-> l.calls] /\ l.ok \in BOOLEAN
    BY <1>1 DEF SearchState, SearchShape
  <2>3. /\ t.state = l.state /\ t.calls = l.calls /\ t.ok = (l.ok /\ s.state[nested] = 2)
        /\ t = [state |-> t.state, ok |-> t.ok, calls |-> t.calls]
    BY <2>1, <2>2
  <2>4. DoneIn(t) = DoneIn(l)
    BY <2>3 DEF DoneIn
  <2>5. SearchShape(defs, t) /\ SearchStack(defs, t)
    BY <1>1, <2>3 DEF SearchState, SearchShape, SearchStack
  <2>6. ASSUME t.ok PROVE SearchGood(defs, t, {})
    <3>1. SearchGood(defs, l, {nested}) /\ s.state[nested] = 2
      BY <1>1, <2>3, <2>6 DEF SearchState
    <3>2. nested \in DoneIn(l)
      BY <1>1, <1>3, <3>1 DEF DoneIn
    <3> QED
      BY <2>3, <2>4, <3>1, <3>2 DEF SearchGood
  <2>7. ASSUME ~t.ok PROVE \E x \in DOMAIN defs : Faulty(defs, x)
    <3>1. CASE ~l.ok
      BY <1>1, <3>1 DEF SearchState
    <3>2. CASE s.state[nested] # 2
      <4>1. PICK c \in ToSet(s.calls) : c.type = nested
        BY <1>3, <3>2 DEF ValidationOk, SearchState, SearchShape, SearchStack
      <4> DEFINE h == Head(s.calls)
      <4>2. nested \in Nested(defs, h.type)
        BY <1>1
      <4>3. c = h \/ <<h, c>> \in InsideOf(defs)
        BY <4>1, TailHolds DEF ValidationOk, SearchState, SearchShape, SearchStack
      <4> HIDE DEF h
      <4>4. h.type = nested \/ h.type \in NestedIn(defs, nested)
        BY <4>1, <4>3 DEF InsideOf
      <4>5. nested \in NestedIn(defs, nested)
        BY <4>2, <4>4, NestedCloses
      <4> QED
        BY <1>1, <4>5 DEF Faulty
    <3> QED
      BY <2>3, <2>7, <3>1, <3>2
  <2> QED
    BY <2>5, <2>6, <2>7 DEF ValidationOk, SearchState, t
<1> QED
  BY <1>2, <1>3

\* A definition of which all was looked at is done.
LEMMA LeaveKeeps ==
  ASSUME NEW defs, IsFiniteSet(DOMAIN defs), NEW s, ValidationOk(defs, s), s.calls # <<>>,
         Head(s.calls).nested = {}
  PROVE  ValidationOk(defs, LeaveDefinition(s))
<1> DEFINE h == Head(s.calls)
           rest == Tail(s.calls)
           t == LeaveDefinition(s)
<1>1. /\ s.calls \in Seq(CallsOf(defs))
      /\ s = [state |-> s.state, ok |-> s.ok, calls |-> s.calls] /\ s.ok \in BOOLEAN
      /\ s.state = [x \in DOMAIN s.state |-> s.state[x]]
      /\ DOMAIN s.state \subseteq DOMAIN defs /\ \A x \in DOMAIN s.state : s.state[x] \in {1, 2}
      /\ Pairwise(s.calls, InsideOf(defs))
      /\ \A c \in ToSet(s.calls) : c.nested \subseteq Nested(defs, c.type)
      /\ \A x : (x \in DOMAIN s.state /\ s.state[x] = 1) <=> \E c \in ToSet(s.calls) : c.type = x
  BY DEF ValidationOk, SearchState, SearchShape, SearchStack
<1>2. /\ rest \in Seq(CallsOf(defs)) /\ h \in CallsOf(defs) /\ ToSet(s.calls) = {h} \cup ToSet(rest)
      /\ \A R : Pairwise(s.calls, R) => Pairwise(rest, R) /\ \A x \in ToSet(rest) : <<h, x>> \in R
  BY <1>1, TailHolds
<1>3. t = [s EXCEPT !.state[h.type] = 2, !.calls = rest]
  BY DEF LeaveDefinition
<1>4. h.type \in DOMAIN s.state /\ s.state[h.type] = 1 /\ h.type \in DOMAIN defs
  BY <1>1, <1>2
<1> HIDE DEF t, h, rest
<1>5. /\ t.state = [s.state EXCEPT ![h.type] = 2] /\ t.ok = s.ok /\ t.calls = rest
      /\ t = [state |-> t.state, ok |-> t.ok, calls |-> t.calls]
  BY <1>1, <1>3
<1>6. /\ DOMAIN t.state = DOMAIN s.state /\ t.state[h.type] = 2
      /\ \A x \in DOMAIN s.state : x # h.type => t.state[x] = s.state[x]
      /\ t.state = [x \in DOMAIN t.state |-> t.state[x]]
  BY <1>1, <1>4, <1>5
<1>7. DoneIn(t) = DoneIn(s) \cup {h.type} /\ h.type \notin DoneIn(s)
  BY <1>4, <1>6 DEF DoneIn
<1>8. SearchShape(defs, t)
  BY <1>1, <1>2, <1>5, <1>6 DEF SearchShape
<1>9. \A x \in ToSet(rest) : x.type # h.type
  <2> SUFFICES ASSUME NEW x \in ToSet(rest) PROVE x.type # h.type
    OBVIOUS
  <2>1. <<h, x>> \in InsideOf(defs)
    BY <1>1, <1>2
  <2> QED
    BY <2>1 DEF InsideOf
<1>10. SearchStack(defs, t)
  BY <1>1, <1>2, <1>5, <1>6, <1>9 DEF SearchStack
<1>11. ASSUME t.ok PROVE SearchGood(defs, t, {})
  <2>1. SearchGood(defs, s, {})
    BY <1>5, <1>11 DEF ValidationOk, SearchState
  <2>2. \A x \in DoneIn(s) : Nested(defs, x) \subseteq DoneIn(s) /\ ~Faulty(defs, x)
    BY <2>1 DEF SearchGood
  <2>3. Nested(defs, h.type) \subseteq DoneIn(s) /\ PortsKnown(defs[h.type])
    BY <1>2, <2>1 DEF SearchGood, h
  <2>4. NestedIn(defs, h.type) \subseteq DoneIn(s)
    BY <2>2, <2>3, NestedCloses
  <2>5. \A x \in DoneIn(t) : Nested(defs, x) \subseteq DoneIn(t) /\ ~Faulty(defs, x)
    BY <1>7, <2>2, <2>3, <2>4 DEF Faulty
  <2>6. \A c \in ToSet(rest) : PortsKnown(defs[c.type])
    BY <1>2, <2>1 DEF SearchGood
  <2>7. /\ Linked(rest, LeftTo(defs, DoneIn(s)))
        /\ rest # <<>> => <<h, Head(rest)>> \in LeftTo(defs, DoneIn(s))
    BY <1>1, <2>1, LinkedTail DEF SearchGood, h, rest
  <2>8. Linked(rest, LeftTo(defs, DoneIn(t)))
    BY <1>7, <2>7, LeftToMore
  <2>9. rest # <<>> => Nested(defs, Head(rest).type) \subseteq DoneIn(t) \cup Head(rest).nested \cup {}
    BY <1>7, <2>7 DEF LeftTo
  <2> QED
    BY <1>5, <2>5, <2>6, <2>8, <2>9 DEF SearchGood
<1>12. ~t.ok => \E x \in DOMAIN defs : Faulty(defs, x)
  BY <1>5 DEF ValidationOk, SearchState
<1> QED
  BY <1>8, <1>10, <1>11, <1>12 DEF ValidationOk, SearchState, t

\* When all definitions are done the verdict is whether one is faulty.
LEMMA ValidationEnds ==
  ASSUME NEW defs, NEW s, ValidationOk(defs, s), s.calls = <<>>, DOMAIN defs \subseteq DOMAIN s.state
  PROVE  s.ok <=> \A type \in DOMAIN defs : PortsKnown(defs[type]) /\ type \notin NestedIn(defs, type)
<1>1. \A x \in DOMAIN defs : x \in DoneIn(s)
  BY NothingHeld DEF ValidationOk, SearchState, SearchShape, SearchStack, DoneIn
<1>2. s.ok => \A x \in DOMAIN defs : ~Faulty(defs, x)
  BY <1>1 DEF ValidationOk, SearchState, SearchGood
<1>3. ~s.ok => \E x \in DOMAIN defs : Faulty(defs, x)
  BY DEF ValidationOk, SearchState
<1> QED
  BY <1>2, <1>3 DEF Faulty

\* The state of the validation of definitions while it works, and its answer.
DefinitionsGoOn ==
  LET defs == query.about
  IN  /\ Working("definitions") => ValidationOk(defs, answer)
      /\ Answered("definitions") =>
           (answer <=> \A type \in DOMAIN defs : PortsKnown(defs[type]) /\ type \notin NestedIn(defs, type))

\* Every reachable state has RecursionIsRefused: composite definitions are
\* accepted exactly when all their ports exist and none contains itself, over
\* any number of others.
THEOREM RecursionsAreRefused == Spec => []RecursionIsRefused
<1>1. Init => DefinitionsGoOn
  BY DEF Init, DefinitionsGoOn, Working, Answered
<1>2. DefinitionsGoOn /\ AskedFor /\ [Next]_vars => DefinitionsGoOn'
  <2> SUFFICES ASSUME DefinitionsGoOn, AskedFor, [Next]_vars PROVE DefinitionsGoOn'
    OBVIOUS
  <2>1. CASE UNCHANGED vars
    BY <2>1 DEF vars, DefinitionsGoOn, Working, Answered
  <2>2. CASE AskAnything \/ Forget
    BY <2>2, AskingGives DEF Forget, DefinitionsGoOn, Working, Answered
  <2>3. CASE UNCHANGED query /\ query.kind = "definitions" /\ phase # "idle" /\ CompositesNext
    <3> DEFINE defs == query.about
    <3>1. IsFiniteSet(DOMAIN defs)
      BY <2>3, DefinitionsAreFinite DEF AskedFor
    <3>2. defs' = defs /\ composites = defs /\ query.kind # "execution"
      BY <2>3 DEF composites
    <3> HIDE DEF defs
    <3>3. /\ Working("definitions") => ValidationOk(defs, answer)
          /\ phase' = "working" /\ ValidationOk(defs, answer') => DefinitionsGoOn'
      BY <2>3, <3>2 DEF DefinitionsGoOn, Working, Answered, defs
    <3>4. CASE BeginValidation
      BY <3>3, <3>4, ValidationBegins DEF BeginValidation, Begin, GoTo
    <3>5. CASE ValidateDefinition
      BY <3>1, <3>2, <3>3, <3>5, EnterKeeps DEF ValidateDefinition, GoOn, GoTo, Validating, Working,
         ValidationOk, SearchState, SearchGood
    <3>6. CASE ValidateNested
      BY <3>1, <3>2, <3>3, <3>6, LookKeeps DEF ValidateNested, GoOn, GoTo, Validating, Working
    <3>7. CASE ReturnFromDefinition
      BY <3>1, <3>2, <3>3, <3>7, LeaveKeeps DEF ReturnFromDefinition, GoOn, GoTo, Validating, Working
    <3>8. CASE EndDefinitions
      BY <2>3, <3>2, <3>3, <3>8, ValidationEnds DEF EndDefinitions, Answer, GoTo, Validated, Working, defs,
         DefinitionsGoOn
    <3>9. ~(RunComposite \/ EnterComposite \/ ExecuteOneStep \/ LeaveComposite \/ EndExecution \/ AnswerExecution)
      BY <3>2 DEF RunComposite, EnterComposite, ExecuteOneStep, LeaveComposite, EndExecution, AnswerExecution,
                  Working, Running, Asked
    <3> QED
      BY <2>3, <3>4, <3>5, <3>6, <3>7, <3>8, <3>9 DEF CompositesNext
  <2>4. CASE UNCHANGED query /\ query.kind # "definitions"
    BY <2>4 DEF DefinitionsGoOn, Working, Answered
  <2> QED
    BY <2>1, <2>2, <2>3, <2>4, StepOfKind
<1>3. DefinitionsGoOn => RecursionIsRefused
  BY DEF DefinitionsGoOn, RecursionIsRefused
<1> QED
  BY <1>1, <1>2, <1>3, AlwaysAskedFor, PTL DEF Spec

(***************************************************************************)
(* The grid search: A*.                                                    *)
(***************************************************************************)
Cells == Int \X Int

\* The estimate is a distance that a step changes by one at the most.
LEMMA EstimateIsDistance ==
  /\ \A a, b \in Cells : Estimate(a, b) \in Nat
  /\ \A a \in Cells : Estimate(a, a) = 0
  /\ \A a, b, c \in Cells : Estimate(a, c) <= Estimate(a, b) + Estimate(b, c)
  /\ \A a, b \in Cells : \A c \in Beside(b) : Estimate(a, c) <= Estimate(a, b) + 1
<1>1. ASSUME NEW a \in Cells, NEW b \in Cells PROVE Estimate(a, b) \in Nat /\ Estimate(a, a) = 0
  BY DEF Estimate, Abs, X, Y, Cells
<1>2. ASSUME NEW a \in Cells, NEW b \in Cells, NEW c \in Cells
      PROVE  Estimate(a, c) <= Estimate(a, b) + Estimate(b, c)
  BY DEF Estimate, Abs, X, Y, Cells
<1>3. ASSUME NEW b \in Cells, NEW c \in Beside(b) PROVE c \in Cells /\ Estimate(b, c) <= 1
  BY DEF Beside, Estimate, Abs, X, Y, Cells
<1>4. ASSUME NEW a \in Cells, NEW b \in Cells, NEW c \in Beside(b)
      PROVE  Estimate(a, c) <= Estimate(a, b) + 1
  BY <1>1, <1>2, <1>3
<1> QED
  BY <1>1, <1>2, <1>4

\* The steps between free cells, and what they reach from the start.
Ways(free) == {s \in free \X free : s[2] \in Beside(s[1])}

\* The cells that so many steps reach.
CellsIn(q, k) == ReachedIn(Ways(q.grid.free), {q.start}, k)

\* A search for a way: finitely many free cells, both ends among them.
IsGridQuery(q) ==
  /\ IsFiniteSet(q.grid.free) /\ q.grid.free \subseteq Cells
  /\ q.start \in q.grid.free /\ q.goal \in q.grid.free
  /\ q.grid.maxExpandedNodes \in Nat

\* The next cells, one by one.
LEMMA CellsNext ==
  ASSUME NEW q, IsGridQuery(q)
  PROVE  /\ \A n : n \in CellsIn(q, 0) <=> n = q.start
         /\ \A k \in Nat : \A n : n \in CellsIn(q, k + 1) <=>
              \/ n \in CellsIn(q, k)
              \/ n \in q.grid.free /\ \E m \in CellsIn(q, k) \cap q.grid.free : n \in Beside(m)
         /\ \A k \in Nat : CellsIn(q, k) \subseteq q.grid.free
<1> DEFINE free == q.grid.free
           steps == Ways(free)
<1>1. \A S, n : n \in Onward(steps, S) <=> n \in free /\ \E m \in S \cap free : n \in Beside(m)
  <2>1. ASSUME NEW S, NEW n, n \in Onward(steps, S) PROVE n \in free /\ \E m \in S \cap free : n \in Beside(m)
    BY <2>1 DEF Onward, Ways
  <2>2. ASSUME NEW S, NEW n \in free, NEW m \in S \cap free, n \in Beside(m) PROVE n \in Onward(steps, S)
    <3> DEFINE s == <<m, n>>
    <3>1. s \in steps /\ s[1] = m /\ s[2] = n
      BY <2>2 DEF Ways
    <3> HIDE DEF s, steps
    <3> QED
      BY <3>1 DEF Onward
  <2> QED
    BY <2>1, <2>2
<1>2. q.start \in free
  BY DEF IsGridQuery
<1> HIDE DEF steps, free
<1>3. /\ ReachedIn(steps, {q.start}, 0) = {q.start}
      /\ \A k \in Nat : ReachedIn(steps, {q.start}, k + 1) =
           ReachedIn(steps, {q.start}, k) \cup Onward(steps, ReachedIn(steps, {q.start}, k))
  BY ReachedInLevels
<1>4. \A k : CellsIn(q, k) = ReachedIn(steps, {q.start}, k)
  BY DEF CellsIn, steps, free
<1>5. \A k \in Nat : \A n : n \in CellsIn(q, k + 1) <=>
        \/ n \in CellsIn(q, k)
        \/ n \in free /\ \E m \in CellsIn(q, k) \cap free : n \in Beside(m)
  <2> SUFFICES ASSUME NEW k \in Nat, NEW n
               PROVE  n \in CellsIn(q, k + 1) <=>
                        \/ n \in CellsIn(q, k)
                        \/ n \in free /\ \E m \in CellsIn(q, k) \cap free : n \in Beside(m)
    OBVIOUS
  <2> DEFINE now == ReachedIn(steps, {q.start}, k)
  <2>1. n \in Onward(steps, now) <=> n \in free /\ \E m \in now \cap free : n \in Beside(m)
    BY <1>1
  <2>2. CellsIn(q, k + 1) = now \cup Onward(steps, now) /\ CellsIn(q, k) = now
    BY <1>3, <1>4
  <2> HIDE DEF now
  <2> QED
    BY <2>1, <2>2
<1>6. ASSUME NEW k \in Nat PROVE CellsIn(q, k) \subseteq free
  BY <1>1, <1>2, <1>4, LeastClosed
<1> QED
  BY <1>3, <1>4, <1>5, <1>6 DEF free

\* The state of the search: the cells seen have the cost of a way to them, the
\* cells done the least cost, and so have their neighbours one more at most.
GridShape(q, s) ==
  /\ s = [g |-> s.g, parent |-> s.parent, closed |-> s.closed]
  /\ s.closed \subseteq DOMAIN s.g /\ DOMAIN s.g \subseteq q.grid.free
  /\ \A n \in DOMAIN s.g : s.g[n] \in Nat
  /\ q.start \in DOMAIN s.g /\ s.g[q.start] = 0

\* The costs: of a way, and for the cells done the least.
GridCosts(q, s) ==
  /\ \A n \in DOMAIN s.g : n \in CellsIn(q, s.g[n])
  /\ \A c \in s.closed : \A k \in Nat : c \in CellsIn(q, k) => s.g[c] <= k
  /\ \A c \in s.closed : \A n \in Beside(c) \cap q.grid.free : n \in DOMAIN s.g /\ s.g[n] <= s.g[c] + 1

\* The parents: each done before, a step away and one nearer.
GridParents(q, s) ==
  /\ DOMAIN s.parent = DOMAIN s.g \ {q.start}
  /\ \A n \in DOMAIN s.parent : /\ s.parent[n] \in s.closed
                                /\ n \in Beside(s.parent[n])
                                /\ s.g[n] = s.g[s.parent[n]] + 1

\* All of it, while the goal is not done.
GridOk(q, s) ==
  /\ GridShape(q, s) /\ GridCosts(q, s) /\ GridParents(q, s)
  /\ q.goal \notin s.closed

\* A search begins at the start.
LEMMA GridBegins ==
  ASSUME NEW q, IsGridQuery(q)
  PROVE  GridOk(q, SearchStart(q.start))
<1> DEFINE s == SearchStart(q.start)
<1>1. /\ s.g = [cell \in {q.start} |-> 0] /\ s.parent = <<>> /\ s.closed = {}
      /\ s = [g |-> s.g, parent |-> s.parent, closed |-> s.closed]
  BY DEF SearchStart
<1> HIDE DEF s
<1>2. /\ DOMAIN s.g = {q.start} /\ s.g[q.start] = 0 /\ DOMAIN s.parent = {} /\ s.closed = {}
  BY <1>1
<1>3. q.start \in q.grid.free /\ q.start \in CellsIn(q, 0)
  BY CellsNext DEF IsGridQuery
<1>4. GridShape(q, s)
  BY <1>1, <1>2, <1>3 DEF GridShape
<1> QED
  BY <1>2, <1>3, <1>4 DEF GridOk, GridCosts, GridParents, s

\* Whatever can be reached in so many steps is done at that cost, or behind an
\* open cell that is as much nearer to the start as it is apart.
LEMMA OpenCellAhead ==
  ASSUME NEW q, IsGridQuery(q), NEW s, GridOk(q, s)
  PROVE  \A k \in Nat : \A n \in CellsIn(q, k) :
           \/ n \in s.closed /\ s.g[n] <= k
           \/ \E m \in OpenCells(s) : s.g[m] + Estimate(m, n) <= k
<1> DEFINE Ahead(n, k) == \/ n \in s.closed /\ s.g[n] <= k
                          \/ \E m \in OpenCells(s) : s.g[m] + Estimate(m, n) <= k
           S == {k \in Nat : \A n \in CellsIn(q, k) : Ahead(n, k)}
<1>1. /\ s.closed \subseteq DOMAIN s.g /\ DOMAIN s.g \subseteq q.grid.free /\ q.grid.free \subseteq Cells
      /\ \A n \in DOMAIN s.g : s.g[n] \in Nat
      /\ q.start \in DOMAIN s.g /\ s.g[q.start] = 0
      /\ \A c \in s.closed : \A n \in Beside(c) \cap q.grid.free : n \in DOMAIN s.g /\ s.g[n] <= s.g[c] + 1
      /\ \A m : m \in OpenCells(s) <=> m \in DOMAIN s.g /\ m \notin s.closed
  BY DEF GridOk, GridShape, GridCosts, IsGridQuery, OpenCells
<1>2. ASSUME NEW n \in DOMAIN s.g, NEW k \in Nat, s.g[n] <= k PROVE Ahead(n, k)
  BY <1>1, <1>2, EstimateIsDistance
<1>3. 0 \in S
  BY <1>1, <1>2, CellsNext
<1>4. ASSUME NEW k \in Nat, k \in S PROVE k + 1 \in S
  <2> SUFFICES ASSUME NEW n \in CellsIn(q, k + 1) PROVE Ahead(n, k + 1)
    OBVIOUS
  <2>1. CASE n \in CellsIn(q, k)
    BY <1>1, <1>4, <2>1, CellsNext, EstimateIsDistance
  <2>2. ASSUME n \in q.grid.free, NEW m \in CellsIn(q, k) \cap q.grid.free, n \in Beside(m) PROVE Ahead(n, k + 1)
    <3>1. CASE m \in s.closed /\ s.g[m] <= k
      BY <1>1, <1>2, <2>2, <3>1
    <3>2. ASSUME NEW o \in OpenCells(s), s.g[o] + Estimate(o, m) <= k PROVE Ahead(n, k + 1)
      BY <1>1, <2>2, <3>2, EstimateIsDistance
    <3>3. Ahead(m, k)
      BY <1>4
    <3> HIDE DEF Ahead
    <3> QED
      BY <3>1, <3>2, <3>3 DEF Ahead
  <2> HIDE DEF Ahead
  <2> QED
    BY <2>1, <2>2, CellsNext
<1>5. Nat \subseteq S
  <2> HIDE DEF S
  <2> QED
    BY <1>3, <1>4, AllNumbers
<1> QED
  BY <1>5

\* The open cell with the least estimate has the least cost.
LEMMA NearestIsExact ==
  ASSUME NEW q, IsGridQuery(q), NEW s, GridOk(q, s), NEW c \in Nearest(s, q.goal), NEW k \in Nat, c \in CellsIn(q, k)
  PROVE  s.g[c] <= k
<1>1. /\ s.closed \subseteq DOMAIN s.g /\ DOMAIN s.g \subseteq Cells /\ q.goal \in Cells
      /\ \A n \in DOMAIN s.g : s.g[n] \in Nat
      /\ \A m : m \in OpenCells(s) <=> m \in DOMAIN s.g /\ m \notin s.closed
  BY DEF GridOk, GridShape, IsGridQuery, OpenCells
<1>2. /\ c \in OpenCells(s)
      /\ \A d \in OpenCells(s) : s.g[c] + Estimate(c, q.goal) <= s.g[d] + Estimate(d, q.goal)
  BY DEF Nearest
<1>3. PICK m \in OpenCells(s) : s.g[m] + Estimate(m, c) <= k
  BY <1>1, <1>2, OpenCellAhead
<1>4. s.g[c] + Estimate(c, q.goal) <= s.g[m] + Estimate(m, q.goal)
  BY <1>2
<1>5. m \in Cells /\ c \in Cells /\ s.g[m] \in Nat /\ s.g[c] \in Nat
  BY <1>1, <1>2
<1>6. /\ Estimate(m, q.goal) <= Estimate(m, c) + Estimate(c, q.goal)
      /\ Estimate(m, q.goal) \in Nat /\ Estimate(m, c) \in Nat /\ Estimate(c, q.goal) \in Nat
  BY <1>1, <1>5, EstimateIsDistance
<1> QED
  BY <1>3, <1>4, <1>5, <1>6

\* A cell is done and its neighbours seen.
LEMMA GridGoesOn ==
  ASSUME NEW q, IsGridQuery(q), NEW s, GridOk(q, s), NEW c \in Nearest(s, q.goal), c # q.goal
  PROVE  GridOk(q, ExpandCell(q.grid, s, c))
<1> DEFINE better == {n \in (Beside(c) \cap q.grid.free) \ (s.closed \cup {c}) :
                        n \in DOMAIN s.g => s.g[c] + 1 < s.g[n]}
           t == ExpandCell(q.grid, s, c)
<1>1. /\ s.closed \subseteq DOMAIN s.g /\ DOMAIN s.g \subseteq q.grid.free /\ q.grid.free \subseteq Cells
      /\ \A n \in DOMAIN s.g : s.g[n] \in Nat
      /\ q.start \in DOMAIN s.g /\ s.g[q.start] = 0
      /\ \A n \in DOMAIN s.g : n \in CellsIn(q, s.g[n])
      /\ \A d \in s.closed : \A k \in Nat : d \in CellsIn(q, k) => s.g[d] <= k
      /\ \A d \in s.closed : \A n \in Beside(d) \cap q.grid.free : n \in DOMAIN s.g /\ s.g[n] <= s.g[d] + 1
      /\ DOMAIN s.parent = DOMAIN s.g \ {q.start}
      /\ \A n \in DOMAIN s.parent : /\ s.parent[n] \in s.closed
                                    /\ n \in Beside(s.parent[n])
                                    /\ s.g[n] = s.g[s.parent[n]] + 1
      /\ q.goal \notin s.closed
  BY DEF GridOk, GridShape, GridCosts, GridParents, IsGridQuery
<1>2. c \in DOMAIN s.g /\ c \notin s.closed /\ s.g[c] \in Nat /\ s.g[c] + 1 \in Nat
  BY <1>1 DEF Nearest, OpenCells
<1>3. /\ t.g = [n \in DOMAIN s.g \cup better |-> IF n \in better THEN s.g[c] + 1 ELSE s.g[n]]
      /\ t.parent = [n \in DOMAIN s.parent \cup better |-> IF n \in better THEN c ELSE s.parent[n]]
      /\ t.closed = s.closed \cup {c}
      /\ t = [g |-> t.g, parent |-> t.parent, closed |-> t.closed]
  BY DEF ExpandCell
<1>4. \A n : n \in better <=>
        /\ n \in Beside(c) /\ n \in q.grid.free /\ n \notin s.closed /\ n # c
        /\ n \in DOMAIN s.g => s.g[c] + 1 < s.g[n]
  OBVIOUS
<1> HIDE DEF better, t
<1>5. /\ DOMAIN t.g = DOMAIN s.g \cup better
      /\ \A n \in better : t.g[n] = s.g[c] + 1
      /\ \A n \in DOMAIN s.g : n \notin better => t.g[n] = s.g[n]
      /\ DOMAIN t.parent = DOMAIN s.parent \cup better
      /\ \A n \in better : t.parent[n] = c
      /\ \A n \in DOMAIN s.parent : n \notin better => t.parent[n] = s.parent[n]
  BY <1>3
<1>6. q.start \notin better /\ c \notin better /\ (\A d \in s.closed : d \notin better)
  BY <1>1, <1>2, <1>4
<1>7. \A d \in s.closed \cup {c} : d \in DOMAIN s.g /\ t.g[d] = s.g[d]
  BY <1>1, <1>2, <1>5, <1>6
<1>8. \A n \in DOMAIN s.g : t.g[n] <= s.g[n] /\ t.g[n] \in Nat
  BY <1>1, <1>2, <1>4, <1>5
<1>9. GridShape(q, t)
  BY <1>1, <1>2, <1>3, <1>4, <1>5, <1>6, <1>8 DEF GridShape
<1>10. GridCosts(q, t)
  <2>1. ASSUME NEW n \in DOMAIN t.g PROVE n \in CellsIn(q, t.g[n])
    <3>1. CASE n \in better
      <4>1. c \in CellsIn(q, s.g[c]) \cap q.grid.free /\ n \in Beside(c) /\ n \in q.grid.free
        BY <1>1, <1>2, <1>4, <3>1
      <4>2. n \in CellsIn(q, s.g[c] + 1)
        BY <1>2, <4>1, CellsNext
      <4> QED
        BY <1>5, <3>1, <4>2
    <3>2. CASE n \notin better
      BY <1>1, <1>5, <2>1, <3>2
    <3> QED
      BY <3>1, <3>2
  <2>2. ASSUME NEW d \in t.closed, NEW k \in Nat, d \in CellsIn(q, k) PROVE t.g[d] <= k
    <3>1. s.g[d] <= k
      BY <1>1, <1>3, <2>2, NearestIsExact
    <3> QED
      BY <1>3, <1>7, <3>1
  <2>3. ASSUME NEW d \in t.closed, NEW n \in Beside(d) \cap q.grid.free
        PROVE  n \in DOMAIN t.g /\ t.g[n] <= t.g[d] + 1
    <3>1. CASE d \in s.closed
      BY <1>1, <1>5, <1>7, <1>8, <3>1
    <3>2. CASE d = c
      <4>1. t.g[d] = s.g[c]
        BY <1>7, <3>2
      <4>2. CASE n \in better
        BY <1>2, <1>5, <4>1, <4>2
      <4>3. CASE n = c
        BY <1>2, <1>5, <1>7, <4>1, <4>3
      <4>4. CASE n \in s.closed
        BY <1>1, <1>2, <1>5, <1>7, <2>3, <3>2, <4>1, <4>4, CellsNext
      <4>5. CASE n \in DOMAIN s.g /\ ~(s.g[c] + 1 < s.g[n])
        BY <1>1, <1>2, <1>5, <1>8, <4>1, <4>5
      <4> QED
        BY <1>4, <2>3, <3>2, <4>2, <4>3, <4>4, <4>5
    <3> QED
      BY <1>3, <3>1, <3>2
  <2> QED
    BY <2>1, <2>2, <2>3 DEF GridCosts
<1>11. GridParents(q, t)
  <2>1. DOMAIN t.parent = DOMAIN t.g \ {q.start}
    BY <1>1, <1>5, <1>6
  <2>2. ASSUME NEW n \in DOMAIN t.parent
        PROVE  t.parent[n] \in t.closed /\ n \in Beside(t.parent[n]) /\ t.g[n] = t.g[t.parent[n]] + 1
    <3>1. CASE n \in better
      <4>1. t.parent[n] = c /\ t.g[n] = s.g[c] + 1
        BY <1>5, <3>1
      <4>2. t.g[c] = s.g[c] /\ c \in t.closed
        BY <1>3, <1>7
      <4> QED
        BY <1>4, <3>1, <4>1, <4>2
    <3>2. CASE n \notin better
      <4>1. n \in DOMAIN s.parent /\ t.parent[n] = s.parent[n] /\ n \in DOMAIN s.g /\ t.g[n] = s.g[n]
        BY <1>1, <1>5, <2>2, <3>2
      <4>2. s.parent[n] \in s.closed /\ n \in Beside(s.parent[n]) /\ s.g[n] = s.g[s.parent[n]] + 1
        BY <1>1, <4>1
      <4>3. t.g[s.parent[n]] = s.g[s.parent[n]] /\ s.parent[n] \in t.closed
        BY <1>3, <1>7, <4>2
      <4> QED
        BY <4>1, <4>2, <4>3
    <3> QED
      BY <3>1, <3>2
  <2> QED
    BY <2>1, <2>2 DEF GridParents
<1>12. q.goal \notin t.closed
  BY <1>1, <1>3
<1> QED
  BY <1>9, <1>10, <1>11, <1>12 DEF GridOk, t

\* What is promised of the answer of the search.
GridAnswers(q, path) ==
  IF path = <<>>
  THEN \/ q.goal \notin CellsIn(q, Cardinality(q.grid.free))
       \/ q.grid.maxExpandedNodes < Cardinality(q.grid.free)
  ELSE /\ path[1] = q.start /\ Last(path) = q.goal
       /\ \A i \in 2 .. Len(path) : <<path[i - 1], path[i]>> \in Ways(q.grid.free)
       /\ Len(path) > 1 => q.goal \notin CellsIn(q, Len(path) - 2)

\* The search gives up when there is no way or its budget is used up.
LEMMA GridGivesUp ==
  ASSUME NEW q, IsGridQuery(q), NEW s, GridOk(q, s),
         OpenCells(s) = {} \/ UsedUp(q.grid, s)
  PROVE  GridAnswers(q, <<>>)
<1>1. /\ s.closed \subseteq DOMAIN s.g /\ DOMAIN s.g \subseteq q.grid.free /\ IsFiniteSet(q.grid.free)
      /\ q.goal \notin s.closed /\ q.goal \in q.grid.free
  BY DEF GridOk, GridShape, IsGridQuery
<1>2. Cardinality(q.grid.free) \in Nat
  BY <1>1, FS_CardinalityType
<1>3. CASE OpenCells(s) = {}
  BY <1>1, <1>2, <1>3, OpenCellAhead DEF GridAnswers
<1>4. CASE UsedUp(q.grid, s)
  <2>1. s.closed \subseteq q.grid.free /\ s.closed # q.grid.free
    BY <1>1
  <2> HIDE DEF GridAnswers
  <2>2. Cardinality(s.closed) < Cardinality(q.grid.free)
    BY <1>1, <1>2, <2>1, FS_Subset, FS_CardinalityType
  <2> QED
    BY <1>4, <2>2 DEF UsedUp, GridAnswers
<1> QED
  BY <1>3, <1>4

\* The way back: from the goal to a cell, over as many cells as it cost more.
GridWalk(q, s, walk) ==
  /\ GridOk(q, s) /\ q.goal \in Nearest(s, q.goal)
  /\ walk = [prev |-> s.parent, path |-> walk.path]
  /\ walk.path \in Seq(Cells) /\ walk.path # <<>> /\ Head(walk.path) \in DOMAIN s.g
  /\ walk.path[Len(walk.path)] = q.goal
  /\ Linked(walk.path, Ways(q.grid.free))
  /\ s.g[Head(walk.path)] + Len(walk.path) = s.g[q.goal] + 1

\* The way back begins at the goal.
LEMMA GridWalkBegins ==
  ASSUME NEW q, IsGridQuery(q), NEW s, GridOk(q, s), q.goal \in Nearest(s, q.goal)
  PROVE  GridWalk(q, s, Walk(s.parent, q.goal))
<1> DEFINE path == <<q.goal>>
           walk == Walk(s.parent, q.goal)
<1>1. walk.path = path /\ walk = [prev |-> s.parent, path |-> walk.path]
  BY DEF Walk
<1>2. q.goal \in Cells /\ q.goal \in DOMAIN s.g /\ s.g[q.goal] \in Nat
  BY DEF IsGridQuery, Nearest, OpenCells, GridOk, GridShape
<1>3. path \in Seq(Cells) /\ path # <<>> /\ Head(path) = q.goal /\ Len(path) = 1 /\ path[1] = q.goal
  BY <1>2
<1> HIDE DEF path, walk
<1>4. Linked(path, Ways(q.grid.free))
  BY <1>3 DEF Linked
<1> QED
  BY <1>1, <1>2, <1>3, <1>4 DEF GridWalk, walk

\* The way back goes on.
LEMMA GridWalkGoesOn ==
  ASSUME NEW q, IsGridQuery(q), NEW s, NEW walk, GridWalk(q, s, walk),
         Head(walk.path) \in DOMAIN walk.prev
  PROVE  GridWalk(q, s, WalkedBack(walk))
<1> DEFINE h == Head(walk.path)
           m == walk.prev[h]
           path == <<m>> \o walk.path
           t == WalkedBack(walk)
<1>1. /\ GridOk(q, s) /\ q.goal \in Nearest(s, q.goal)
      /\ walk = [prev |-> s.parent, path |-> walk.path] /\ walk.prev = s.parent
      /\ walk.path \in Seq(Cells) /\ walk.path # <<>> /\ h \in DOMAIN s.g
      /\ walk.path[Len(walk.path)] = q.goal
      /\ Linked(walk.path, Ways(q.grid.free))
      /\ s.g[h] + Len(walk.path) = s.g[q.goal] + 1
  BY DEF GridWalk
<1>2. t = [walk EXCEPT !.path = path]
  BY DEF WalkedBack
<1>3. /\ m \in DOMAIN s.g /\ m \in q.grid.free /\ h \in q.grid.free /\ m \in Cells /\ h \in Beside(m)
      /\ s.g[h] = s.g[m] + 1 /\ s.g[m] \in Nat /\ s.g[h] \in Nat
  <2>1. h \in DOMAIN s.parent /\ m = s.parent[h]
    BY <1>1
  <2>2. m \in s.closed /\ h \in Beside(m) /\ s.g[h] = s.g[m] + 1
    <3>1. GridParents(q, s)
      BY <1>1 DEF GridOk
    <3> HIDE DEF h, m
    <3> QED
      BY <2>1, <3>1 DEF GridParents
  <2>3. /\ s.closed \subseteq DOMAIN s.g /\ DOMAIN s.g \subseteq q.grid.free
        /\ \A c \in DOMAIN s.g : s.g[c] \in Nat
    BY <1>1 DEF GridOk, GridShape
  <2>4. q.grid.free \subseteq Cells
    BY DEF IsGridQuery
  <2> HIDE DEF h, m
  <2>5. m \in DOMAIN s.g /\ h \in DOMAIN s.g
    BY <1>1, <2>2, <2>3
  <2> QED
    BY <2>2, <2>3, <2>4, <2>5
<1> HIDE DEF h, m, t
<1>4. /\ path \in Seq(Cells) /\ path # <<>> /\ Head(path) = m /\ Tail(path) = walk.path
      /\ \A R : Linked(walk.path, R) /\ (walk.path # <<>> => <<m, Head(walk.path)>> \in R) => Linked(path, R)
  <2>1. m \in Cells /\ walk.path \in Seq(Cells)
    BY <1>1, <1>3
  <2> QED
    BY <2>1, PrependHolds
<1> HIDE DEF path
<1>5. t.path = path /\ t = [prev |-> s.parent, path |-> t.path]
  BY <1>1, <1>2
<1>6. Len(path) = Len(walk.path) + 1 /\ Len(walk.path) \in Nat /\ Len(walk.path) # 0
  BY <1>1, <1>4, HeadTailProperties, LenProperties, EmptySeq
<1>7. path[Len(path)] = q.goal
  BY <1>1, <1>4, <1>6, HeadTailProperties
<1>8. <<m, Head(walk.path)>> \in Ways(q.grid.free)
  BY <1>3 DEF Ways, h
<1>9. Linked(path, Ways(q.grid.free))
  BY <1>1, <1>4, <1>8
<1>10. s.g[m] + Len(path) = s.g[q.goal] + 1
  <2>1. s.g[h] + Len(walk.path) = s.g[q.goal] + 1
    BY <1>1
  <2>2. s.g[h] = s.g[m] + 1 /\ s.g[m] \in Nat
    BY <1>3
  <2>3. Len(path) = Len(walk.path) + 1 /\ Len(walk.path) \in Nat
    BY <1>6
  <2>4. \A a, b \in Nat : a + (b + 1) = (a + 1) + b
    OBVIOUS
  <2>5. s.g[m] + (Len(walk.path) + 1) = (s.g[m] + 1) + Len(walk.path)
    BY <2>2, <2>3, <2>4
  <2> QED
    BY <2>1, <2>2, <2>3, <2>5, Zenon
<1> QED
  BY <1>1, <1>3, <1>4, <1>5, <1>7, <1>9, <1>10 DEF GridWalk, t

\* The way back ends at the start; it is a shortest way.
LEMMA GridWalkEnds ==
  ASSUME NEW q, IsGridQuery(q), NEW s, NEW walk, GridWalk(q, s, walk),
         Head(walk.path) \notin DOMAIN walk.prev \ {q.start}
  PROVE  Head(walk.path) = q.start /\ GridAnswers(q, walk.path)
<1> DEFINE path == walk.path
           h == Head(path)
           n == Len(path)
<1>1. /\ GridOk(q, s) /\ q.goal \in Nearest(s, q.goal)
      /\ walk.prev = s.parent /\ path \in Seq(Cells) /\ path # <<>> /\ h \in DOMAIN s.g
      /\ path[n] = q.goal /\ Linked(path, Ways(q.grid.free))
      /\ s.g[h] + n = s.g[q.goal] + 1
  BY DEF GridWalk
<1>2. h = q.start
  BY <1>1 DEF GridOk, GridParents
<1> HIDE DEF path
<1>3. n \in Nat /\ n # 0 /\ path[1] = q.start
  BY <1>1, <1>2, LenProperties, EmptySeq, HeadTailProperties
<1>4. Last(path) = q.goal
  BY <1>1 DEF Last
<1>5. /\ s.g[q.start] = 0 /\ s.g[q.goal] \in Nat /\ n = s.g[q.goal] + 1
  BY <1>1, <1>2, <1>3 DEF GridOk, GridShape, Nearest, OpenCells
<1>6. ASSUME n > 1, q.goal \in CellsIn(q, n - 2) PROVE FALSE
  BY <1>1, <1>3, <1>5, <1>6, NearestIsExact
<1>7. \A i \in 2 .. n : <<path[i - 1], path[i]>> \in Ways(q.grid.free)
  BY <1>1, <1>3 DEF Linked
<1> QED
  BY <1>1, <1>2, <1>3, <1>4, <1>6, <1>7 DEF GridAnswers, path

\* The state of the grid search while it works and walks back, and its answer.
GridGoesAlong ==
  LET q == query.about
  IN  /\ Working("grid")  => GridOk(q, answer)
      /\ Walking("grid")  => \E s : GridWalk(q, s, answer)
      /\ Answered("grid") => GridAnswers(q, answer)

\* Every reachable state has ShortestWalk: the grid search returns a shortest
\* walk over free cells, and none only when there is none or its budget is
\* used up.
THEOREM WalksAreShortest == Spec => []ShortestWalk
<1>1. Init => GridGoesAlong
  BY DEF Init, GridGoesAlong, Working, Walking, Answered
<1>2. GridGoesAlong /\ AskedFor /\ [Next]_vars => GridGoesAlong'
  <2> SUFFICES ASSUME GridGoesAlong, AskedFor, [Next]_vars PROVE GridGoesAlong'
    OBVIOUS
  <2>1. CASE UNCHANGED vars
    BY <2>1 DEF vars, GridGoesAlong, Working, Walking, Answered
  <2>2. CASE AskAnything \/ Forget
    BY <2>2, AskingGives DEF Forget, GridGoesAlong, Working, Walking, Answered
  <2>3. CASE UNCHANGED query /\ query.kind = "grid" /\ phase # "idle" /\ GridNext
    <3> DEFINE q == query.about
    <3>1. IsGridQuery(q)
      BY <2>3, GridsAreFinite DEF AskedFor, IsGridQuery, Cells
    <3>2. q' = q /\ grid = q.grid /\ goal = q.goal
      BY <2>3 DEF grid, goal
    <3>3. /\ Working("grid") => GridOk(q, answer)
          /\ Walking("grid") => \E s : GridWalk(q, s, answer)
          /\ phase' = "working" /\ GridOk(q, answer') => GridGoesAlong'
          /\ phase' = "walking" /\ (\E s : GridWalk(q, s, answer')) => GridGoesAlong'
          /\ phase' = "answered" /\ GridAnswers(q, answer') => GridGoesAlong'
      BY <2>3, <3>2 DEF GridGoesAlong, Working, Walking, Answered
    <3>4. query.about.start = q.start
      OBVIOUS
    <3> HIDE DEF q
    <3>5. CASE BeginGrid
      BY <3>1, <3>3, <3>4, <3>5, GridBegins DEF BeginGrid, Begin, GoTo
    <3>6. CASE SearchCell
      BY <3>1, <3>2, <3>3, <3>6, GridGoesOn DEF SearchCell, GoOn, GoTo, Working
    <3>7. CASE ReachGoal
      BY <3>1, <3>2, <3>3, <3>7, GridWalkBegins DEF ReachGoal, GoTo
    <3>8. CASE GiveUpSearch
      BY <3>1, <3>2, <3>3, <3>8, GridGivesUp DEF GiveUpSearch, Answer, GoTo
    <3>9. CASE WalkCellsBack
      BY <3>1, <3>3, <3>9, GridWalkGoesOn DEF WalkCellsBack, GoOn, GoTo, Walking
    <3>10. CASE EndGrid
      BY <3>1, <3>3, <3>4, <3>10, GridWalkEnds DEF EndGrid, Answer, GoTo
    <3> QED
      BY <2>3, <3>5, <3>6, <3>7, <3>8, <3>9, <3>10 DEF GridNext
  <2>4. CASE UNCHANGED query /\ query.kind # "grid"
    BY <2>4 DEF GridGoesAlong, Working, Walking, Answered
  <2> QED
    BY <2>1, <2>2, <2>3, <2>4, StepOfKind
<1>3. GridGoesAlong => ShortestWalk
  BY DEF GridGoesAlong, ShortestWalk, GridAnswers, CellsIn, Ways, grid, goal
<1> QED
  BY <1>1, <1>2, <1>3, AlwaysAskedFor, PTL DEF Spec

(***************************************************************************)
(* shortestPath: Dijkstra's algorithm.                                     *)
(***************************************************************************)
\* The connections from one component to another.
Between(g, p, m, n) == {j \in LinksOut(g, p, m) : g.links[j].target = n}

\* A step costs something, and as much as the cheapest connection.
LEMMA CostOfStep ==
  ASSUME NEW g, NEW p, IsGraph(g, p), NEW m, NEW n, Between(g, p, m, n) # {}, NEW d \in Nat
  PROVE  /\ StepCost(g, p, m, n) \in Nat /\ StepCost(g, p, m, n) >= 1
         /\ Min({d + Cost(g, p, k) : k \in Between(g, p, m, n)}) = d + StepCost(g, p, m, n)
<1> DEFINE B == Between(g, p, m, n)
           C == {Cost(g, p, k) : k \in B}
           D == {d + Cost(g, p, k) : k \in B}
<1>1. ASSUME NEW k \in B PROVE Cost(g, p, k) \in Nat /\ Cost(g, p, k) >= 1
  <2>1. k \in DOMAIN g.links
    BY DEF Between, LinksOut
  <2>2. Score(g, p, k) \in Int
    BY <2>1, ScoresAreNumbers
  <2> DEFINE a == 1000 - Score(g, p, k)
  <2>3. a \in Int
    BY <2>2
  <2> HIDE DEF a
  <2>4. Max({1, a}) \in Nat /\ Max({1, a}) >= 1
    BY <2>3 DEF Max
  <2> QED
    BY <2>4 DEF Cost, a
<1>2. C \in SUBSET Nat /\ C # {} /\ D \in SUBSET Nat /\ D # {}
  BY <1>1
<1>3. Min(C) \in C /\ (\A x \in C : Min(C) <= x) /\ Min(D) \in D /\ \A x \in D : Min(D) <= x
  BY <1>2, MinOfSet
<1>4. PICK k \in B : Min(C) = Cost(g, p, k)
  BY <1>3
<1>5. PICK j \in B : Min(D) = d + Cost(g, p, j)
  BY <1>3
<1>6. Min(D) <= d + Cost(g, p, k) /\ Min(C) <= Cost(g, p, j)
  BY <1>3
<1>7. Min(D) = d + Min(C) /\ Min(C) \in Nat /\ Min(C) >= 1
  BY <1>1, <1>4, <1>5, <1>6
<1>8. StepCost(g, p, m, n) = Min(C)
  BY DEF StepCost, Between
<1> QED
  BY <1>7, <1>8

\* There is a step between components that are kept when a connection leads
\* from one to the other.
LEMMA StepIsConnection ==
  ASSUME NEW g, NEW p, NEW m, NEW n
  PROVE  <<m, n>> \in Steps(g, p) <=> m \in Kept(g, p) /\ n \in Kept(g, p) /\ Between(g, p, m, n) # {}
<1> DEFINE s == <<m, n>>
<1>1. ASSUME s \in Steps(g, p) PROVE m \in Kept(g, p) /\ n \in Kept(g, p) /\ Between(g, p, m, n) # {}
  BY <1>1 DEF Steps, Between, LinksOut
<1>2. ASSUME m \in Kept(g, p), n \in Kept(g, p), NEW k \in Between(g, p, m, n) PROVE s \in Steps(g, p)
  BY <1>2 DEF Between, LinksOut, Steps
<1> QED
  BY <1>1, <1>2

\* The cost of each part of a path, from its beginning.
IsPathCost(g, p, path, f) ==
  /\ f[1] = 0 /\ \A i \in 1 .. Len(path) : f[i] \in Nat
  /\ \A i \in 1 .. Len(path) : i # 1 => f[i] = f[i - 1] + StepCost(g, p, path[i - 1], path[i])
  /\ PathCost(g, p, path) = f[Len(path)]

\* A path has such costs.
LEMMA PathHasCost ==
  ASSUME NEW g, NEW p, IsGraph(g, p), NEW path \in Seq(Kept(g, p)), path # <<>>, Linked(path, Steps(g, p))
  PROVE  \E f : IsPathCost(g, p, path, f)
<1> DEFINE n == Len(path)
           At(i) == StepCost(g, p, path[i - 1], path[i])
<1>1. n \in Nat /\ n # 0
  BY LenProperties, EmptySeq
<1>2. ASSUME NEW i \in 1 .. n, i # 1 PROVE At(i) \in Nat
  BY <1>2, StepIsConnection, CostOfStep DEF Linked
<1> HIDE DEF At, n
<1> DEFINE step == [x \in Nat \X Nat |-> x[2] + (IF x[1] + 1 \in 2 .. n THEN At(x[1] + 1) ELSE 0)]
<1>3. step \in [Nat \X Nat -> Nat]
  BY <1>1, <1>2
<1>4. PICK h \in [Nat -> Nat] : IsRecursion(h, 0, step)
  <2> HIDE DEF step
  <2> QED
    BY <1>3, RecursionExists
<1>5. \A i \in Nat : h[i + 1] = h[i] + (IF i + 1 \in 2 .. n THEN At(i + 1) ELSE 0)
  <2> SUFFICES ASSUME NEW i \in Nat PROVE h[i + 1] = h[i] + (IF i + 1 \in 2 .. n THEN At(i + 1) ELSE 0)
    OBVIOUS
  <2>1. h[i + 1] = step[<<i, h[i]>>]
    BY <1>4 DEF IsRecursion
  <2> QED
    BY <1>4, <2>1
<1> HIDE DEF step
<1>6. h[0] = 0 /\ h[1] = 0
  BY <1>1, <1>4, <1>5 DEF IsRecursion
<1> DEFINE Is(f) == f = [i \in 1 .. n |-> IF i = 1 THEN 0 ELSE f[i - 1] + At(i)]
           f == [i \in 1 .. n |-> h[i]]
<1>7. Is(f)
  <2>1. ASSUME NEW i \in 1 .. n, i # 1 PROVE f[i] = f[i - 1] + At(i)
    BY <1>1, <1>5, <2>1
  <2>2. f[1] = 0
    BY <1>1, <1>6
  <2> QED
    BY <2>1, <2>2
<1> DEFINE cost == CHOOSE c : Is(c)
<1>8. Is(cost)
  <2> HIDE DEF Is, f
  <2> QED
    BY <1>7
<1>9. PathCost(g, p, path) = cost[n]
  BY DEF PathCost, n, At
<1> HIDE DEF cost, f
<1>10. cost[1] = 0 /\ \A i \in 1 .. n : i # 1 => cost[i] = cost[i - 1] + At(i)
  <2>1. cost = [i \in 1 .. n |-> IF i = 1 THEN 0 ELSE cost[i - 1] + At(i)]
    BY <1>8
  <2> HIDE DEF Is
  <2>2. \A i \in 1 .. n : cost[i] = IF i = 1 THEN 0 ELSE cost[i - 1] + At(i)
    BY <2>1
  <2>3. 1 \in 1 .. n
    BY <1>1
  <2> QED
    BY <2>2, <2>3
<1>11. \A i \in 1 .. n : cost[i] \in Nat
  <2> DEFINE S == {i \in 0 .. n : i # 0 => cost[i] \in Nat}
  <2>1. 0 \in S
    BY <1>1
  <2>2. ASSUME NEW i \in 1 .. n, i - 1 \in S PROVE i \in S
    <3>1. CASE i = 1
      BY <1>1, <1>10, <3>1
    <3>2. CASE i # 1
      <4>1. i - 1 # 0 /\ i \in 0 .. n
        BY <1>1, <3>2
      <4>2. cost[i - 1] \in Nat
        BY <2>2, <4>1
      <4>3. At(i) \in Nat
        BY <1>2, <3>2
      <4>4. cost[i] = cost[i - 1] + At(i)
        BY <1>10, <3>2
      <4> HIDE DEF Is, S
      <4>5. \A a, b \in Nat : a + b \in Nat
        OBVIOUS
      <4>6. cost[i] \in Nat
        BY <4>2, <4>3, <4>4, <4>5, Zenon
      <4> USE DEF S
      <4> QED
        BY <4>1, <4>6
    <3> QED
      BY <3>1, <3>2
  <2>3. 0 .. n \subseteq S
    <3> HIDE DEF S
    <3> QED
      BY <1>1, <2>1, <2>2, NumbersUpTo
  <2> QED
    BY <1>1, <2>3
<1> QED
  BY <1>9, <1>10, <1>11 DEF IsPathCost, n, At

\* The components that are visited.
Settled(q, s) == Kept(q.graph, q.policy) \ s.unvisited

\* What a step costs.
Price(q, m, n) == StepCost(q.graph, q.policy, m, n)

\* The state of the search for a path: every component reached has the cost of
\* a way to it, no visited one more than one that is not, and what comes after
\* a visited one no more than a step more.
PathShape(q, s) ==
  /\ s = [unvisited |-> s.unvisited, dist |-> s.dist, prev |-> s.prev]
  /\ s.unvisited \subseteq Kept(q.graph, q.policy)
  /\ DOMAIN s.dist \subseteq Kept(q.graph, q.policy)
  /\ \A n \in DOMAIN s.dist : s.dist[n] \in Nat
  /\ q.source \in DOMAIN s.dist /\ s.dist[q.source] = 0
  /\ q.target \in s.unvisited

\* The distances: of the visited components before those of the others.
PathCosts(q, s) ==
  /\ Settled(q, s) \subseteq DOMAIN s.dist
  /\ \A v \in Settled(q, s) : \A u \in s.unvisited \cap DOMAIN s.dist : s.dist[v] <= s.dist[u]
  /\ \A v \in Settled(q, s) : \A t : <<v, t>> \in Steps(q.graph, q.policy) =>
       t \in DOMAIN s.dist /\ s.dist[t] <= s.dist[v] + Price(q, v, t)

\* The components before: visited, and as near as the step between says.
PathParents(q, s) ==
  /\ DOMAIN s.prev = DOMAIN s.dist \ {q.source}
  /\ \A t \in DOMAIN s.prev : /\ s.prev[t] \in Settled(q, s)
                              /\ <<s.prev[t], t>> \in Steps(q.graph, q.policy)
                              /\ s.dist[t] = s.dist[s.prev[t]] + Price(q, s.prev[t], t)

\* All of it.
PathOk(q, s) == PathShape(q, s) /\ PathCosts(q, s) /\ PathParents(q, s)

\* The search begins at the source.
LEMMA PathBegins ==
  ASSUME NEW q, {q.source, q.target} \subseteq Kept(q.graph, q.policy)
  PROVE  PathOk(q, PathStart(q.graph, q.policy, q.source))
<1> DEFINE s == PathStart(q.graph, q.policy, q.source)
<1>1. /\ s.unvisited = Kept(q.graph, q.policy) /\ s.dist = [n \in {q.source} |-> 0] /\ s.prev = <<>>
      /\ s = [unvisited |-> s.unvisited, dist |-> s.dist, prev |-> s.prev]
  BY DEF PathStart
<1> HIDE DEF s
<1>2. /\ DOMAIN s.dist = {q.source} /\ s.dist[q.source] = 0 /\ DOMAIN s.prev = {}
      /\ Settled(q, s) = {}
  BY <1>1 DEF Settled
<1>3. PathShape(q, s)
  BY <1>1, <1>2 DEF PathShape
<1> QED
  BY <1>2, <1>3 DEF PathOk, PathCosts, PathParents, s

\* What a visit does: the components that it comes nearer to, each by a step
\* that is cheaper than what was known.
PathMoved(q, s, n, nearer, t) ==
  /\ t = [unvisited |-> t.unvisited, dist |-> t.dist, prev |-> t.prev]
  /\ t.unvisited = s.unvisited \ {n}
  /\ nearer \subseteq s.unvisited \ {n}
  /\ \A u \in nearer : <<n, u>> \in Steps(q.graph, q.policy)
  /\ \A u \in nearer \cap DOMAIN s.dist : s.dist[n] + Price(q, n, u) < s.dist[u]
  /\ \A u \in (s.unvisited \ {n}) \ nearer : <<n, u>> \in Steps(q.graph, q.policy) =>
       u \in DOMAIN s.dist /\ s.dist[u] <= s.dist[n] + Price(q, n, u)
  /\ DOMAIN t.dist = DOMAIN s.dist \cup nearer
  /\ \A u \in nearer : t.dist[u] = s.dist[n] + Price(q, n, u)
  /\ \A u \in DOMAIN s.dist : u \notin nearer => t.dist[u] = s.dist[u]
  /\ DOMAIN t.prev = DOMAIN s.prev \cup nearer
  /\ \A u \in nearer : t.prev[u] = n
  /\ \A u \in DOMAIN s.prev : u \notin nearer => t.prev[u] = s.prev[u]

\* Such components there are.
LEMMA PathMoves ==
  ASSUME NEW q, IsGraph(q.graph, q.policy), NEW s, PathOk(q, s), NEW n \in AtLeastDistance(s)
  PROVE  \E nearer : PathMoved(q, s, n, nearer, Visited(q.graph, q.policy, s, n))
<1> DEFINE g == q.graph
           p == q.policy
           Offers(u) == {s.dist[n] + Cost(g, p, k) : k \in {j \in LinksOut(g, p, n) : g.links[j].target = u}}
           nearer == {u \in s.unvisited \ {n} : Nearer(s, u, Offers(u))}
           t == Visited(g, p, s, n)
<1>1. /\ n \in s.unvisited /\ n \in DOMAIN s.dist /\ s.dist[n] \in Nat
      /\ s.unvisited \subseteq Kept(g, p) /\ \A u \in DOMAIN s.dist : s.dist[u] \in Nat
  BY DEF AtLeastDistance, PathOk, PathShape
<1>2. /\ t.unvisited = s.unvisited \ {n}
      /\ t.dist = [u \in DOMAIN s.dist \cup nearer |-> IF u \in nearer THEN Min(Offers(u)) ELSE s.dist[u]]
      /\ t.prev = [u \in DOMAIN s.prev \cup nearer |-> IF u \in nearer THEN n ELSE s.prev[u]]
      /\ t = [unvisited |-> t.unvisited, dist |-> t.dist, prev |-> t.prev]
  BY DEF Visited
<1>3. ASSUME NEW u \in s.unvisited \ {n}
      PROVE  /\ Offers(u) # {} <=> <<n, u>> \in Steps(g, p)
             /\ <<n, u>> \in Steps(g, p) => Min(Offers(u)) = s.dist[n] + Price(q, n, u) /\ Price(q, n, u) \in Nat
  <2>1. Offers(u) = {s.dist[n] + Cost(g, p, k) : k \in Between(g, p, n, u)}
    BY DEF Between
  <2>2. n \in Kept(g, p) /\ u \in Kept(g, p)
    BY <1>1
  <2>3. <<n, u>> \in Steps(g, p) <=> Between(g, p, n, u) # {}
    BY <2>2, StepIsConnection
  <2>4. Offers(u) # {} <=> Between(g, p, n, u) # {}
    BY <2>1
  <2>5. ASSUME Between(g, p, n, u) # {}
        PROVE  Min(Offers(u)) = s.dist[n] + Price(q, n, u) /\ Price(q, n, u) \in Nat
    <3> HIDE DEF Offers
    <3> QED
      BY <1>1, <2>1, <2>5, CostOfStep DEF Price
  <2> QED
    BY <2>3, <2>4, <2>5
<1> HIDE DEF t, Offers
<1>4. \A u : u \in nearer <=> /\ u \in s.unvisited \ {n} /\ Offers(u) # {}
                              /\ u \in DOMAIN s.dist => Min(Offers(u)) < s.dist[u]
  BY DEF Nearer
<1> HIDE DEF nearer
<1>5. /\ nearer \subseteq s.unvisited \ {n}
      /\ \A u \in nearer : <<n, u>> \in Steps(g, p) /\ Min(Offers(u)) = s.dist[n] + Price(q, n, u)
      /\ \A u \in nearer \cap DOMAIN s.dist : s.dist[n] + Price(q, n, u) < s.dist[u]
  BY <1>3, <1>4
<1>6. ASSUME NEW u \in (s.unvisited \ {n}) \ nearer, <<n, u>> \in Steps(g, p)
      PROVE  u \in DOMAIN s.dist /\ s.dist[u] <= s.dist[n] + Price(q, n, u)
  BY <1>1, <1>3, <1>4, <1>6
<1>7. /\ DOMAIN t.dist = DOMAIN s.dist \cup nearer
      /\ \A u \in nearer : t.dist[u] = Min(Offers(u))
      /\ \A u \in DOMAIN s.dist : u \notin nearer => t.dist[u] = s.dist[u]
      /\ DOMAIN t.prev = DOMAIN s.prev \cup nearer
      /\ \A u \in nearer : t.prev[u] = n
      /\ \A u \in DOMAIN s.prev : u \notin nearer => t.prev[u] = s.prev[u]
  BY <1>2
<1>8. \A u \in nearer : t.dist[u] = s.dist[n] + Price(q, n, u)
  BY <1>5, <1>7
<1>9. PathMoved(q, s, n, nearer, t)
  BY <1>2, <1>5, <1>6, <1>7, <1>8 DEF PathMoved
<1> QED
  BY <1>9 DEF t

\* A component at the least distance is visited.
LEMMA PathGoesOn ==
  ASSUME NEW q, IsGraph(q.graph, q.policy), NEW s, PathOk(q, s),
         NEW n \in AtLeastDistance(s), n # q.target
  PROVE  PathOk(q, Visited(q.graph, q.policy, s, n))
<1> DEFINE K == Kept(q.graph, q.policy)
           St == Steps(q.graph, q.policy)
           t == Visited(q.graph, q.policy, s, n)
           V == Settled(q, s)
<1>1. PICK nearer : PathMoved(q, s, n, nearer, t)
  BY PathMoves
<1> HIDE DEF t
<1>2. /\ t = [unvisited |-> t.unvisited, dist |-> t.dist, prev |-> t.prev]
      /\ t.unvisited = s.unvisited \ {n}
      /\ nearer \subseteq s.unvisited \ {n}
      /\ \A u \in nearer : <<n, u>> \in St
      /\ \A u \in nearer \cap DOMAIN s.dist : s.dist[n] + Price(q, n, u) < s.dist[u]
      /\ \A u \in (s.unvisited \ {n}) \ nearer : <<n, u>> \in St =>
           u \in DOMAIN s.dist /\ s.dist[u] <= s.dist[n] + Price(q, n, u)
      /\ DOMAIN t.dist = DOMAIN s.dist \cup nearer
      /\ \A u \in nearer : t.dist[u] = s.dist[n] + Price(q, n, u)
      /\ \A u \in DOMAIN s.dist : u \notin nearer => t.dist[u] = s.dist[u]
      /\ DOMAIN t.prev = DOMAIN s.prev \cup nearer
      /\ \A u \in nearer : t.prev[u] = n
      /\ \A u \in DOMAIN s.prev : u \notin nearer => t.prev[u] = s.prev[u]
  BY <1>1 DEF PathMoved
<1>3. /\ s.unvisited \subseteq K /\ DOMAIN s.dist \subseteq K
      /\ \A u \in DOMAIN s.dist : s.dist[u] \in Nat
      /\ q.source \in DOMAIN s.dist /\ s.dist[q.source] = 0 /\ q.target \in s.unvisited
      /\ V \subseteq DOMAIN s.dist /\ V = K \ s.unvisited
      /\ \A v \in V : \A u \in s.unvisited \cap DOMAIN s.dist : s.dist[v] <= s.dist[u]
      /\ \A v \in V : \A u : <<v, u>> \in St => u \in DOMAIN s.dist /\ s.dist[u] <= s.dist[v] + Price(q, v, u)
      /\ DOMAIN s.prev = DOMAIN s.dist \ {q.source}
      /\ \A u \in DOMAIN s.prev : /\ s.prev[u] \in V /\ <<s.prev[u], u>> \in St
                                  /\ s.dist[u] = s.dist[s.prev[u]] + Price(q, s.prev[u], u)
  BY DEF PathOk, PathShape, PathCosts, PathParents, Settled
<1>4. /\ n \in s.unvisited /\ n \in DOMAIN s.dist /\ s.dist[n] \in Nat /\ n \in K
      /\ \A m \in s.unvisited \cap DOMAIN s.dist : s.dist[n] <= s.dist[m]
  BY <1>3 DEF AtLeastDistance
<1>5. \A v, u : <<v, u>> \in St => Price(q, v, u) \in Nat /\ Price(q, v, u) >= 1 /\ u \in K
  <2> SUFFICES ASSUME NEW v, NEW u, <<v, u>> \in St PROVE Price(q, v, u) \in Nat /\ Price(q, v, u) >= 1 /\ u \in K
    OBVIOUS
  <2>1. Between(q.graph, q.policy, v, u) # {} /\ u \in K /\ 0 \in Nat
    BY StepIsConnection
  <2> QED
    BY <2>1, CostOfStep DEF Price
<1> HIDE DEF St, K, V
<1>6. Settled(q, t) = V \cup {n}
  BY <1>2, <1>3, <1>4 DEF Settled, K
<1>7. q.source \notin nearer
  <2> SUFFICES ASSUME q.source \in nearer PROVE FALSE
    OBVIOUS
  <2>1. s.dist[n] + Price(q, n, q.source) < 0
    BY <1>2, <1>3
  <2>2. <<n, q.source>> \in St
    BY <1>2
  <2>3. Price(q, n, q.source) \in Nat
    BY <1>5, <2>2
  <2> QED
    BY <1>4, <2>1, <2>3
<1>8. \A v \in V \cup {n} : v \notin nearer /\ v \in DOMAIN s.dist /\ t.dist[v] = s.dist[v] /\ s.dist[v] \in Nat
  BY <1>2, <1>3, <1>4
<1>9. \A u \in nearer : t.dist[u] \in Nat /\ s.dist[n] <= t.dist[u] /\ Price(q, n, u) \in Nat
  <2> SUFFICES ASSUME NEW u \in nearer
               PROVE  t.dist[u] \in Nat /\ s.dist[n] <= t.dist[u] /\ Price(q, n, u) \in Nat
    OBVIOUS
  <2>1. <<n, u>> \in St /\ t.dist[u] = s.dist[n] + Price(q, n, u)
    BY <1>2
  <2>2. Price(q, n, u) \in Nat
    BY <1>5, <2>1
  <2> QED
    BY <1>4, <2>1, <2>2
<1>10. \A u \in DOMAIN s.dist : t.dist[u] <= s.dist[u] /\ t.dist[u] \in Nat /\ s.dist[u] \in Nat
  <2> SUFFICES ASSUME NEW u \in DOMAIN s.dist PROVE t.dist[u] <= s.dist[u] /\ t.dist[u] \in Nat /\ s.dist[u] \in Nat
    OBVIOUS
  <2>1. CASE u \in nearer
    BY <1>2, <1>3, <1>9, <2>1
  <2>2. CASE u \notin nearer
    BY <1>2, <1>3, <2>2
  <2> QED
    BY <2>1, <2>2
<1>11. PathShape(q, t)
  BY <1>2, <1>3, <1>7, <1>9, <1>10 DEF PathShape, K
<1>12. PathCosts(q, t)
  <2>1. Settled(q, t) \subseteq DOMAIN t.dist
    BY <1>2, <1>6, <1>8
  <2>2. ASSUME NEW v \in V \cup {n}, NEW u \in t.unvisited \cap DOMAIN t.dist PROVE t.dist[v] <= t.dist[u]
    BY <1>2, <1>3, <1>4, <1>8, <1>9
  <2>3. ASSUME NEW v \in V \cup {n}, NEW u, <<v, u>> \in St
        PROVE  u \in DOMAIN t.dist /\ t.dist[u] <= t.dist[v] + Price(q, v, u)
    <3>1. Price(q, v, u) \in Nat /\ u \in K /\ t.dist[v] = s.dist[v] /\ s.dist[v] \in Nat
      BY <1>5, <1>8, <2>3
    <3>2. ASSUME u \in DOMAIN s.dist, s.dist[u] <= s.dist[v] + Price(q, v, u)
          PROVE  u \in DOMAIN t.dist /\ t.dist[u] <= t.dist[v] + Price(q, v, u)
      BY <1>2, <1>10, <3>1, <3>2
    <3>3. CASE v \in V
      BY <1>3, <2>3, <3>2, <3>3
    <3>4. CASE v = n /\ u \in nearer
      BY <1>2, <1>9, <3>1, <3>4
    <3>5. CASE v = n /\ u \in (s.unvisited \ {n}) \ nearer
      BY <1>2, <2>3, <3>2, <3>5
    <3>6. CASE v = n /\ u \in V \cup {n}
      BY <1>3, <1>4, <1>8, <3>1, <3>2, <3>6
    <3>7. u \in V \/ u \in s.unvisited
      BY <1>3, <3>1
    <3> QED
      BY <3>3, <3>4, <3>5, <3>6, <3>7
  <2> QED
    BY <1>6, <2>1, <2>2, <2>3 DEF PathCosts, St
<1>13. PathParents(q, t)
  BY <1>2, <1>3, <1>6, <1>7, <1>8 DEF PathParents, St
<1> QED
  BY <1>11, <1>12, <1>13 DEF PathOk, t

\* A component is visited at such a cost or less, or another one is reached at
\* it and not yet visited.
Foreseen(q, s, n, cost) ==
  \/ n \in Settled(q, s) /\ s.dist[n] <= cost
  \/ \E m \in s.unvisited \cap DOMAIN s.dist : s.dist[m] <= cost

\* Whatever a path comes to is visited at no more than what the path has cost so
\* far, or behind a component that is reached at no more and not yet visited.
LEMMA ReachedAhead ==
  ASSUME NEW q, IsGraph(q.graph, q.policy), NEW s, PathOk(q, s),
         NEW path \in Seq(Kept(q.graph, q.policy)), path # <<>>, path[1] = q.source,
         Linked(path, Steps(q.graph, q.policy)), NEW f, IsPathCost(q.graph, q.policy, path, f)
  PROVE  \A i \in 1 .. Len(path) : Foreseen(q, s, path[i], f[i])
<1> DEFINE n == Len(path)
           V == Settled(q, s)
           open == s.unvisited \cap DOMAIN s.dist
           S == {i \in 0 .. n : i # 0 => Foreseen(q, s, path[i], f[i])}
<1>1. /\ DOMAIN s.dist \subseteq Kept(q.graph, q.policy) /\ \A u \in DOMAIN s.dist : s.dist[u] \in Nat
      /\ q.source \in DOMAIN s.dist /\ s.dist[q.source] = 0
      /\ V \subseteq DOMAIN s.dist
      /\ \A u \in DOMAIN s.dist : u \in V \/ u \in open
      /\ \A v \in V : \A u : <<v, u>> \in Steps(q.graph, q.policy) =>
           u \in DOMAIN s.dist /\ s.dist[u] <= s.dist[v] + Price(q, v, u)
  BY DEF PathOk, PathShape, PathCosts, Settled
<1>2. /\ f[1] = 0 /\ \A i \in 1 .. n : f[i] \in Nat
      /\ \A i \in 1 .. n : i # 1 => f[i] = f[i - 1] + Price(q, path[i - 1], path[i])
  BY DEF IsPathCost, Price
<1>3. n \in Nat
  BY LenProperties
<1>4. \A i \in 1 .. n : i # 1 => <<path[i - 1], path[i]>> \in Steps(q.graph, q.policy)
  BY DEF Linked
<1> HIDE DEF n, V, open
<1>5. ASSUME NEW i \in 1 .. n, path[i] \in DOMAIN s.dist, s.dist[path[i]] <= f[i] PROVE Foreseen(q, s, path[i], f[i])
  BY <1>1, <1>5 DEF Foreseen, V, open
<1>6. 0 \in S
  BY <1>3
<1>7. ASSUME NEW i \in 1 .. n, i - 1 \in S PROVE i \in S
  <2>0. i \in 0 .. n
    BY <1>3
  <2>1. CASE i = 1
    BY <1>1, <1>2, <1>5, <2>0, <2>1
  <2>2. CASE i # 1
    <3>1. i - 1 \in 1 .. n /\ i - 1 # 0
      BY <1>3, <2>2
    <3>2. Foreseen(q, s, path[i - 1], f[i - 1]) /\ f[i - 1] \in Nat /\ f[i] \in Nat
      BY <1>2, <1>7, <3>1
    <3> DEFINE a == path[i - 1]
               b == path[i]
    <3>3. <<a, b>> \in Steps(q.graph, q.policy)
      BY <1>4, <2>2
    <3>4. f[i] = f[i - 1] + Price(q, a, b)
      BY <1>2, <2>2
    <3>5. Price(q, a, b) \in Nat
      <4>1. Between(q.graph, q.policy, a, b) # {} /\ 0 \in Nat
        BY <3>3, StepIsConnection
      <4> QED
        BY <4>1, CostOfStep DEF Price
    <3>6. ASSUME a \in V, s.dist[a] <= f[i - 1] PROVE Foreseen(q, s, path[i], f[i])
      <4>1. b \in DOMAIN s.dist /\ s.dist[b] <= s.dist[a] + Price(q, a, b)
        BY <1>1, <3>3, <3>6
      <4>2. s.dist[b] \in Nat /\ s.dist[a] \in Nat
        BY <1>1, <3>6, <4>1
      <4>3. s.dist[b] <= f[i]
        BY <3>2, <3>4, <3>5, <3>6, <4>1, <4>2
      <4> QED
        BY <1>5, <4>1, <4>3
    <3>7. ASSUME NEW m \in open, s.dist[m] <= f[i - 1] PROVE Foreseen(q, s, path[i], f[i])
      BY <1>1, <3>2, <3>4, <3>5, <3>7 DEF open, Foreseen
    <3>8. (a \in V /\ s.dist[a] <= f[i - 1]) \/ \E m \in open : s.dist[m] <= f[i - 1]
      BY <3>2 DEF Foreseen, V, open
    <3> QED
      BY <2>0, <3>6, <3>7, <3>8
  <2> QED
    BY <2>1, <2>2
<1>8. 0 .. n \subseteq S
  <2> HIDE DEF S
  <2> QED
    BY <1>3, <1>6, <1>7, NumbersUpTo
<1>9. \A i \in 1 .. n : i \in 0 .. n /\ i # 0
  BY <1>3
<1> QED
  BY <1>8, <1>9 DEF n

\* The paths of the specification are lists of components that are kept, each
\* linked to the next.
LEMMA PathIsLinked ==
  ASSUME NEW g, NEW p, NEW m \in Nat, NEW source, NEW target,
         NEW path \in SeqOf(Nodes(g), m), IsPath(g, p, path, source, target)
  PROVE  /\ path \in Seq(Kept(g, p)) /\ path # <<>> /\ path[1] = source /\ path[Len(path)] = target
         /\ Linked(path, Steps(g, p))
<1>1. PICK l \in 0 .. m : path \in [1 .. l -> Nodes(g)]
  BY DEF SeqOf
<1>2. path \in Seq(Nodes(g)) /\ Len(path) = l
  BY <1>1
<1>3. /\ path # <<>> /\ path[1] = source /\ Last(path) = target /\ ToSet(path) \subseteq Kept(g, p)
      /\ \A i \in 1 .. Len(path) - 1 : <<path[i], path[i + 1]>> \in Steps(g, p)
  BY DEF IsPath
<1>4. \A i \in 1 .. l : path[i] \in Kept(g, p)
  BY <1>1, <1>3 DEF ToSet
<1>5. path \in Seq(Kept(g, p))
  BY <1>1, <1>4
<1>6. ASSUME NEW i \in 1 .. Len(path), i # 1 PROVE <<path[i - 1], path[i]>> \in Steps(g, p)
  BY <1>2, <1>3, <1>6
<1> QED
  BY <1>3, <1>5, <1>6 DEF Linked, Last

\* No path to the target costs less than what is known of the nearest
\* component, and there is none when no component is left.
LEMMA NoPathIsCheaper ==
  ASSUME NEW q, IsGraph(q.graph, q.policy), NEW s, PathOk(q, s),
         NEW path \in Seq(Kept(q.graph, q.policy)), path # <<>>, path[1] = q.source,
         path[Len(path)] = q.target, Linked(path, Steps(q.graph, q.policy))
  PROVE  /\ AtLeastDistance(s) # {}
         /\ q.target \in AtLeastDistance(s) => s.dist[q.target] <= PathCost(q.graph, q.policy, path)
<1> DEFINE open == s.unvisited \cap DOMAIN s.dist
           D == {s.dist[m] : m \in open}
<1>1. PICK f : IsPathCost(q.graph, q.policy, path, f)
  BY PathHasCost
<1>2. Len(path) \in 1 .. Len(path)
  BY LenProperties, EmptySeq
<1>3. f[Len(path)] \in Nat /\ PathCost(q.graph, q.policy, path) = f[Len(path)]
  BY <1>1, <1>2 DEF IsPathCost
<1>4. q.target \in s.unvisited /\ \A m \in open : s.dist[m] \in Nat
  BY DEF PathOk, PathShape
<1>5. \/ q.target \in Settled(q, s)
      \/ \E m \in open : s.dist[m] <= f[Len(path)]
  BY <1>1, <1>2, ReachedAhead DEF Foreseen
<1>6. PICK m \in open : s.dist[m] <= f[Len(path)]
  BY <1>4, <1>5 DEF Settled
<1>7. D \in SUBSET Nat /\ D # {}
  BY <1>4, <1>6
<1>8. Min(D) \in D /\ \A x \in D : Min(D) <= x
  <2> HIDE DEF D
  <2> QED
    BY <1>7, MinOfSet
<1>9. PICK k \in open : s.dist[k] = Min(D)
  BY <1>8
<1>10. \A u \in open : s.dist[k] <= s.dist[u]
  BY <1>8, <1>9
<1>11. k \in AtLeastDistance(s)
  BY <1>10 DEF AtLeastDistance
<1>12. ASSUME q.target \in AtLeastDistance(s) PROVE s.dist[q.target] <= PathCost(q.graph, q.policy, path)
  BY <1>3, <1>4, <1>6, <1>12 DEF AtLeastDistance
<1> QED
  BY <1>11, <1>12

\* What is promised of the answer of the search.
PathAnswers(q, path) ==
  LET paths == {other \in SeqOf(Nodes(q.graph), Cardinality(Nodes(q.graph))) :
                  IsPath(q.graph, q.policy, other, q.source, q.target)}
  IN  IF path = <<>> THEN paths = {}
      ELSE /\ path \in paths
           /\ \A other \in paths : PathCost(q.graph, q.policy, path) <= PathCost(q.graph, q.policy, other)

\* There is no path when one of its ends is not kept, or when no component is
\* left before the target is reached.
LEMMA NoPathLeft ==
  ASSUME NEW q, IsGraph(q.graph, q.policy),
         \/ ~({q.source, q.target} \subseteq Kept(q.graph, q.policy))
         \/ \E s : PathOk(q, s) /\ AtLeastDistance(s) = {}
  PROVE  PathAnswers(q, <<>>)
<1> DEFINE m == Cardinality(Nodes(q.graph))
<1>1. m \in Nat
  BY FS_CardinalityType DEF IsGraph
<1>2. ASSUME NEW path \in SeqOf(Nodes(q.graph), m), IsPath(q.graph, q.policy, path, q.source, q.target)
      PROVE  FALSE
  <2>1. /\ path \in Seq(Kept(q.graph, q.policy)) /\ path # <<>>
        /\ path[1] = q.source /\ path[Len(path)] = q.target /\ Linked(path, Steps(q.graph, q.policy))
    BY <1>1, <1>2, PathIsLinked
  <2>2. \A s : PathOk(q, s) => AtLeastDistance(s) # {}
    BY <2>1, NoPathIsCheaper
  <2>3. {q.source, q.target} \subseteq Kept(q.graph, q.policy)
    BY <2>1, LenProperties, EmptySeq
  <2> QED
    BY <2>2, <2>3
<1> QED
  BY <1>2 DEF PathAnswers

\* The steps by which the search came nearest, and the order of the distances.
Tight(q, s) ==
  {e \in Steps(q.graph, q.policy) :
     {e[1], e[2]} \subseteq DOMAIN s.dist /\ s.dist[e[2]] = s.dist[e[1]] + Price(q, e[1], e[2])}

\* The pairs of components in the order of their distances.
Rising(q, s) ==
  {e \in Kept(q.graph, q.policy) \X Kept(q.graph, q.policy) : s.dist[e[1]] < s.dist[e[2]]}

\* The way back, from the target to a component, over steps by which the search
\* came nearest.
PathWalk(q, s, walk) ==
  /\ PathOk(q, s) /\ q.target \in AtLeastDistance(s)
  /\ walk = [prev |-> s.prev, path |-> walk.path]
  /\ walk.path \in Seq(Kept(q.graph, q.policy)) /\ walk.path # <<>>
  /\ walk.path[Len(walk.path)] = q.target
  /\ Linked(walk.path, Tight(q, s)) /\ Pairwise(walk.path, Rising(q, s))
  /\ \A n \in ToSet(walk.path) : n \in DOMAIN s.dist /\ s.dist[Head(walk.path)] <= s.dist[n]

\* The way back begins at the target.
LEMMA PathWalkBegins ==
  ASSUME NEW q, NEW s, PathOk(q, s), q.target \in AtLeastDistance(s)
  PROVE  PathWalk(q, s, Walk(s.prev, q.target))
<1> DEFINE path == <<q.target>>
           walk == Walk(s.prev, q.target)
<1>1. walk.path = path /\ walk = [prev |-> s.prev, path |-> walk.path]
  BY DEF Walk
<1>2. q.target \in Kept(q.graph, q.policy) /\ q.target \in DOMAIN s.dist /\ s.dist[q.target] \in Nat
  BY DEF AtLeastDistance, PathOk, PathShape
<1>3. /\ path \in Seq(Kept(q.graph, q.policy)) /\ path # <<>> /\ Head(path) = q.target
      /\ Len(path) = 1 /\ path[1] = q.target
  BY <1>2
<1>4. ToSet(path) = {q.target} /\ \A R : Pairwise(path, R)
  BY SingleHolds
<1> HIDE DEF path, walk
<1>5. Linked(path, Tight(q, s))
  BY <1>3 DEF Linked
<1> QED
  BY <1>1, <1>2, <1>3, <1>4, <1>5 DEF PathWalk, walk

\* The way back goes on.
LEMMA PathWalkGoesOn ==
  ASSUME NEW q, IsGraph(q.graph, q.policy), NEW s, NEW walk, PathWalk(q, s, walk),
         Head(walk.path) \in DOMAIN walk.prev
  PROVE  PathWalk(q, s, WalkedBack(walk))
<1> DEFINE K == Kept(q.graph, q.policy)
           h == Head(walk.path)
           m == walk.prev[h]
           path == <<m>> \o walk.path
           t == WalkedBack(walk)
<1>1. /\ PathOk(q, s) /\ q.target \in AtLeastDistance(s)
      /\ walk = [prev |-> s.prev, path |-> walk.path] /\ walk.prev = s.prev
      /\ walk.path \in Seq(K) /\ walk.path # <<>> /\ h \in DOMAIN s.prev
      /\ walk.path[Len(walk.path)] = q.target
      /\ Linked(walk.path, Tight(q, s)) /\ Pairwise(walk.path, Rising(q, s))
      /\ \A n \in ToSet(walk.path) : n \in DOMAIN s.dist /\ s.dist[h] <= s.dist[n]
  BY DEF PathWalk
<1>2. t = [walk EXCEPT !.path = path]
  BY DEF WalkedBack
<1>3. /\ m \in DOMAIN s.dist /\ m \in K /\ h \in DOMAIN s.dist /\ s.dist[m] \in Nat
      /\ <<m, h>> \in Steps(q.graph, q.policy) /\ s.dist[h] = s.dist[m] + Price(q, m, h)
      /\ \A n \in DOMAIN s.dist : n \in K /\ s.dist[n] \in Nat
  BY <1>1 DEF PathOk, PathShape, PathCosts, PathParents
<1>4. Price(q, m, h) \in Nat /\ Price(q, m, h) >= 1
  <2>1. Between(q.graph, q.policy, m, h) # {} /\ 0 \in Nat
    BY <1>3, StepIsConnection
  <2> QED
    BY <2>1, CostOfStep DEF Price
<1> HIDE DEF h, m, t, K
<1>5. s.dist[m] < s.dist[h] /\ s.dist[h] \in Nat
  BY <1>3, <1>4
<1>6. /\ path \in Seq(K) /\ path # <<>> /\ Head(path) = m /\ Tail(path) = walk.path
      /\ ToSet(path) = {m} \cup ToSet(walk.path)
      /\ \A R : Pairwise(walk.path, R) /\ (\A y \in ToSet(walk.path) : <<m, y>> \in R) => Pairwise(path, R)
      /\ \A R : Linked(walk.path, R) /\ (walk.path # <<>> => <<m, Head(walk.path)>> \in R) => Linked(path, R)
  BY <1>1, <1>3, PrependHolds
<1> HIDE DEF path
<1>7. t.path = path /\ t = [prev |-> s.prev, path |-> t.path]
  BY <1>1, <1>2
<1>8. path[Len(path)] = q.target
  BY <1>1, <1>6, HeadTailProperties, LenProperties, EmptySeq
<1>9. Linked(path, Tight(q, s))
  BY <1>1, <1>3, <1>6 DEF Tight, h
<1>10. \A n \in ToSet(walk.path) : n \in DOMAIN s.dist /\ s.dist[m] < s.dist[n] /\ s.dist[n] \in Nat
  BY <1>1, <1>3, <1>5
<1>11. Pairwise(path, Rising(q, s))
  BY <1>1, <1>3, <1>6, <1>10 DEF Rising, K
<1>12. \A n \in ToSet(path) : n \in DOMAIN s.dist /\ s.dist[Head(path)] <= s.dist[n]
  BY <1>3, <1>6, <1>10
<1> QED
  BY <1>1, <1>6, <1>7, <1>8, <1>9, <1>11, <1>12 DEF PathWalk, t, K

\* A path over steps by which the search came nearest costs what the search
\* knows of its end.
LEMMA TightPathCosts ==
  ASSUME NEW q, IsGraph(q.graph, q.policy), NEW s, PathOk(q, s),
         NEW path \in Seq(Kept(q.graph, q.policy)), path # <<>>, path[1] = q.source,
         Linked(path, Tight(q, s))
  PROVE  PathCost(q.graph, q.policy, path) = s.dist[path[Len(path)]]
<1> DEFINE n == Len(path)
<1>1. n \in Nat /\ n # 0
  BY LenProperties, EmptySeq
<1>2. ASSUME NEW i \in 1 .. n, i # 1
      PROVE  /\ <<path[i - 1], path[i]>> \in Steps(q.graph, q.policy)
             /\ s.dist[path[i]] = s.dist[path[i - 1]] + Price(q, path[i - 1], path[i])
  <2> DEFINE e == <<path[i - 1], path[i]>>
  <2>1. e \in Tight(q, s) /\ e[1] = path[i - 1] /\ e[2] = path[i]
    BY <1>2 DEF Linked
  <2> HIDE DEF e
  <2>2. e \in Steps(q.graph, q.policy) /\ s.dist[e[2]] = s.dist[e[1]] + Price(q, e[1], e[2])
    BY <2>1 DEF Tight
  <2> QED
    BY <2>1, <2>2 DEF e
<1>3. Linked(path, Steps(q.graph, q.policy))
  BY <1>2 DEF Linked
<1>4. PICK f : IsPathCost(q.graph, q.policy, path, f)
  BY <1>3, PathHasCost
<1>5. /\ f[1] = 0 /\ PathCost(q.graph, q.policy, path) = f[n]
      /\ \A i \in 1 .. n : i # 1 => f[i] = f[i - 1] + Price(q, path[i - 1], path[i])
  BY <1>4 DEF IsPathCost, Price
<1>6. s.dist[q.source] = 0
  BY DEF PathOk, PathShape
<1> DEFINE S == {i \in 0 .. n : i # 0 => f[i] = s.dist[path[i]]}
<1>7. 0 \in S
  BY <1>1
<1> HIDE DEF n
<1>8. ASSUME NEW i \in 1 .. n, i - 1 \in S PROVE i \in S
  <2>1. i \in 0 .. n
    BY <1>1
  <2>2. CASE i = 1
    BY <1>5, <1>6, <2>1, <2>2
  <2>3. CASE i # 1
    <3>1. i - 1 # 0
      BY <1>1, <2>3
    <3>2. f[i - 1] = s.dist[path[i - 1]]
      BY <1>8, <3>1
    <3> QED
      BY <1>2, <1>5, <2>1, <2>3, <3>2
  <2> QED
    BY <2>2, <2>3
<1>9. 0 .. n \subseteq S
  <2> HIDE DEF S
  <2> QED
    BY <1>1, <1>7, <1>8, NumbersUpTo
<1>10. n \in 0 .. n
  BY <1>1
<1> QED
  BY <1>1, <1>5, <1>9, <1>10 DEF n

\* The way back ends at the source; it is a cheapest path.
LEMMA PathWalkEnds ==
  ASSUME NEW q, IsGraph(q.graph, q.policy), NEW s, NEW walk, PathWalk(q, s, walk),
         Head(walk.path) \notin DOMAIN walk.prev \ {q.source}
  PROVE  Head(walk.path) = q.source /\ PathAnswers(q, walk.path)
<1> DEFINE K == Kept(q.graph, q.policy)
           path == walk.path
           n == Len(path)
           m == Cardinality(Nodes(q.graph))
<1>1. /\ PathOk(q, s) /\ q.target \in AtLeastDistance(s)
      /\ walk.prev = s.prev /\ path \in Seq(K) /\ path # <<>> /\ path[n] = q.target
      /\ Linked(path, Tight(q, s)) /\ Pairwise(path, Rising(q, s))
      /\ \A c \in ToSet(path) : c \in DOMAIN s.dist
  BY DEF PathWalk
<1> HIDE DEF path
<1>2. n \in Nat /\ n # 0 /\ Head(path) = path[1] /\ 1 \in 1 .. n /\ ToSet(path) = {path[i] : i \in 1 .. n}
  BY <1>1, LenProperties, EmptySeq, HeadTailProperties, ElementsOf
<1>3. Head(path) = q.source
  BY <1>1, <1>2 DEF PathOk, PathParents, path
<1>4. m \in Nat /\ IsFiniteSet(Nodes(q.graph)) /\ K \subseteq Nodes(q.graph)
  BY FS_CardinalityType DEF IsGraph, Kept
<1>5. PathCost(q.graph, q.policy, path) = s.dist[q.target]
  BY <1>1, <1>2, <1>3, TightPathCosts
<1>6. path \in SeqOf(Nodes(q.graph), m)
  <2>1. path \in [1 .. n -> Nodes(q.graph)]
    BY <1>1, <1>2, <1>4
  <2>2. \A i, j \in 1 .. n : i < j => path[i] # path[j]
    <3> SUFFICES ASSUME NEW i \in 1 .. n, NEW j \in 1 .. n, i < j PROVE path[i] # path[j]
      OBVIOUS
    <3> DEFINE e == <<path[i], path[j]>>
    <3>1. e \in Rising(q, s) /\ e[1] = path[i] /\ e[2] = path[j]
      BY <1>1 DEF Pairwise
    <3> HIDE DEF e
    <3>2. s.dist[e[1]] < s.dist[e[2]]
      BY <3>1 DEF Rising
    <3>3. \A c \in DOMAIN s.dist : s.dist[c] \in Nat
      BY <1>1 DEF PathOk, PathShape
    <3>4. path[i] \in DOMAIN s.dist
      BY <1>1, <1>2
    <3> QED
      BY <3>1, <3>2, <3>3, <3>4
  <2>3. \A i, j \in 1 .. n : path[i] = path[j] => i = j
    <3> SUFFICES ASSUME NEW i \in 1 .. n, NEW j \in 1 .. n, path[i] = path[j] PROVE i = j
      OBVIOUS
    <3>1. ~(i < j) /\ ~(j < i)
      BY <2>2
    <3> QED
      BY <3>1
  <2>4. path \in Injection(1 .. n, Nodes(q.graph))
    BY <2>1, <2>3 DEF Injection, IsInjective
  <2>5. Cardinality(1 .. n) <= m
    BY <1>4, <2>4, FS_Injection
  <2>6. Cardinality(1 .. n) = n
    BY <1>2, FS_Interval
  <2>7. n \in 0 .. m
    BY <1>2, <1>4, <2>5, <2>6
  <2> QED
    BY <2>1, <2>7 DEF SeqOf
<1>7. IsPath(q.graph, q.policy, path, q.source, q.target)
  <2>1. Last(path) = q.target /\ path[1] = q.source /\ ToSet(path) \subseteq K
    BY <1>1, <1>2, <1>3 DEF Last
  <2>2. ASSUME NEW i \in 1 .. n - 1 PROVE <<path[i], path[i + 1]>> \in Steps(q.graph, q.policy)
    <3> DEFINE j == i + 1
    <3>1. j \in 1 .. n /\ j # 1 /\ j - 1 = i
      BY <1>2
    <3>2. <<path[j - 1], path[j]>> \in Tight(q, s)
      BY <1>1, <3>1 DEF Linked
    <3> QED
      BY <3>1, <3>2 DEF Tight
  <2> QED
    BY <1>1, <2>1, <2>2 DEF IsPath
<1>8. ASSUME NEW other \in SeqOf(Nodes(q.graph), m), IsPath(q.graph, q.policy, other, q.source, q.target)
      PROVE  PathCost(q.graph, q.policy, path) <= PathCost(q.graph, q.policy, other)
  <2>1. /\ other \in Seq(K) /\ other # <<>>
        /\ other[1] = q.source /\ other[Len(other)] = q.target /\ Linked(other, Steps(q.graph, q.policy))
    <3>1. m \in Nat
      BY <1>4
    <3> HIDE DEF path, n, m
    <3> QED
      BY <1>8, <3>1, PathIsLinked
  <2>2. PathOk(q, s) /\ q.target \in AtLeastDistance(s)
    BY <1>1
  <2>3. s.dist[q.target] <= PathCost(q.graph, q.policy, other)
    <3> HIDE DEF path, K, n, m
    <3> QED
      BY <2>1, <2>2, NoPathIsCheaper DEF K
  <2> QED
    BY <1>5, <2>3
<1>9. PathAnswers(q, path)
  BY <1>1, <1>6, <1>7, <1>8 DEF PathAnswers
<1> QED
  BY <1>3, <1>9 DEF path

\* The state of the search for a path while it works and walks back, and its
\* answer.
PathGoesAlong ==
  LET q == query.about
  IN  /\ Working("path")  => PathOk(q, answer)
      /\ Walking("path")  => \/ \E s : PathWalk(q, s, answer)
                             \/ \E s : /\ PathOk(q, s) /\ AtLeastDistance(s) = {}
                                       /\ answer = Walk(s.prev, q.target)
      /\ Answered("path") => PathAnswers(q, answer)

\* Every reachable state has CheapestPath: shortestPath returns a path of the
\* least cost, and none only when there is none.
THEOREM PathsAreCheapest == Spec => []CheapestPath
<1>1. Init => PathGoesAlong
  BY DEF Init, PathGoesAlong, Working, Walking, Answered
<1>2. PathGoesAlong /\ AskedFor /\ [Next]_vars => PathGoesAlong'
  <2> SUFFICES ASSUME PathGoesAlong, AskedFor, [Next]_vars PROVE PathGoesAlong'
    OBVIOUS
  <2>1. CASE UNCHANGED vars
    BY <2>1 DEF vars, PathGoesAlong, Working, Walking, Answered
  <2>2. CASE AskAnything \/ Forget
    BY <2>2, AskingGives DEF Forget, PathGoesAlong, Working, Walking, Answered
  <2>3. CASE UNCHANGED query /\ query.kind = "path" /\ phase # "idle" /\ PathNext
    <3> DEFINE q == query.about
               Lost(w) == \E s : PathOk(q, s) /\ AtLeastDistance(s) = {} /\ w = Walk(s.prev, q.target)
               Back(w) == \E s : PathWalk(q, s, w)
    <3>1. IsGraph(q.graph, q.policy)
      BY <2>3, GraphsAreFinite DEF AskedFor
    <3>2. q' = q /\ graph = q.graph /\ policy = q.policy
      BY <2>3 DEF graph, policy
    <3>3. /\ Working("path") => PathOk(q, answer)
          /\ Walking("path") => Back(answer) \/ Lost(answer)
          /\ phase' = "working" /\ PathOk(q, answer') => PathGoesAlong'
          /\ phase' = "walking" /\ (Back(answer') \/ Lost(answer')) => PathGoesAlong'
          /\ phase' = "answered" /\ PathAnswers(q, answer') => PathGoesAlong'
      BY <2>3, <3>2 DEF PathGoesAlong, Working, Walking, Answered
    <3>4. query.about.source = q.source /\ query.about.target = q.target
      OBVIOUS
    <3> HIDE DEF q, Lost, Back
    <3>5. CASE BeginPath
      BY <3>2, <3>3, <3>4, <3>5, PathBegins DEF BeginPath, Begin, GoTo
    <3>6. CASE NoPath
      BY <3>1, <3>2, <3>3, <3>4, <3>6, NoPathLeft DEF NoPath, Answer, GoTo
    <3>7. CASE VisitNearest
      BY <3>1, <3>2, <3>3, <3>4, <3>7, PathGoesOn DEF VisitNearest, GoOn, GoTo, Working
    <3>8. CASE EndVisits
      BY <3>3, <3>4, <3>8, PathWalkBegins DEF EndVisits, GoTo, Back, Lost
    <3>9. ASSUME Walking("path"), NEW s, PathOk(q, s), AtLeastDistance(s) = {},
                 answer = Walk(s.prev, q.target)
          PROVE  /\ Head(answer.path) \notin DOMAIN answer.prev \ {q.source}
                 /\ Head(answer.path) # q.source
      <4>1. answer.prev = s.prev /\ answer.path = <<q.target>> /\ Head(answer.path) = q.target
        BY <3>9 DEF Walk
      <4>2. q.target \in s.unvisited /\ q.source \in DOMAIN s.dist /\ DOMAIN s.prev = DOMAIN s.dist \ {q.source}
        BY <3>9 DEF PathOk, PathShape, PathParents
      <4>3. s.unvisited \cap DOMAIN s.dist = {}
        <5> DEFINE open == s.unvisited \cap DOMAIN s.dist
                   D == {s.dist[m] : m \in open}
        <5> SUFFICES ASSUME open # {} PROVE FALSE
          OBVIOUS
        <5>1. D \in SUBSET Nat /\ D # {}
          BY <3>9 DEF PathOk, PathShape
        <5>2. Min(D) \in D /\ \A x \in D : Min(D) <= x
          <6> HIDE DEF D
          <6> QED
            BY <5>1, MinOfSet
        <5>3. PICK k \in open : s.dist[k] = Min(D)
          BY <5>2
        <5>4. \A u \in open : s.dist[k] <= s.dist[u]
          BY <5>2, <5>3
        <5> QED
          BY <3>9, <5>4 DEF AtLeastDistance
      <4> QED
        BY <4>1, <4>2, <4>3
    <3>10. CASE WalkPathBack
      BY <3>1, <3>3, <3>4, <3>9, <3>10, PathWalkGoesOn DEF WalkPathBack, GoOn, GoTo, Walking, Lost, Back
    <3>11. CASE EndPath
      BY <3>1, <3>3, <3>4, <3>9, <3>11, NoPathLeft, PathWalkEnds DEF EndPath, Answer, GoTo, Lost, Back
    <3> QED
      BY <2>3, <3>5, <3>6, <3>7, <3>8, <3>10, <3>11 DEF PathNext
  <2>4. CASE UNCHANGED query /\ query.kind # "path"
    BY <2>4 DEF PathGoesAlong, Working, Walking, Answered
  <2> QED
    BY <2>1, <2>2, <2>3, <2>4, StepOfKind
<1>3. PathGoesAlong => CheapestPath
  BY DEF PathGoesAlong, CheapestPath, PathAnswers
<1> QED
  BY <1>1, <1>2, <1>3, AlwaysAskedFor, PTL DEF Spec

\* Every reachable state has PathsAreShortest: both searches for a path are
\* exact, over the graph and over the grid.
THEOREM BothSearchesAreExact == Spec => []PathsAreShortest
BY PathsAreCheapest, WalksAreShortest, PTL DEF PathsAreShortest

(***************************************************************************)
(* What comes after a component.                                           *)
(***************************************************************************)
\* A step is a pair of kept components, joined by an allowed connection.
LEMMA StepIsPair ==
  ASSUME NEW g, NEW p
  PROVE  /\ \A s \in Steps(g, p) : s = <<s[1], s[2]>> /\ s[1] \in Kept(g, p) /\ s[2] \in Kept(g, p)
         /\ \A n, t : t \in Onward(Steps(g, p), {n}) <=> <<n, t>> \in Steps(g, p)
<1>1. Steps(g, p) \subseteq Kept(g, p) \X Kept(g, p)
  BY DEF Steps
<1>2. \A s \in Steps(g, p) : s = <<s[1], s[2]>> /\ s[1] \in Kept(g, p) /\ s[2] \in Kept(g, p)
  BY <1>1
<1>3. ASSUME NEW n, NEW t, <<n, t>> \in Steps(g, p) PROVE t \in Onward(Steps(g, p), {n})
  <2> DEFINE s == <<n, t>>
  <2>1. s \in Steps(g, p) /\ s[1] \in {n} /\ s[2] = t
    BY <1>3
  <2> HIDE DEF s
  <2> QED
    BY <2>1 DEF Onward
<1>4. ASSUME NEW n, NEW t, t \in Onward(Steps(g, p), {n}) PROVE <<n, t>> \in Steps(g, p)
  <2>1. PICK s \in Steps(g, p) : s[1] = n /\ s[2] = t
    BY <1>4 DEF Onward
  <2> QED
    BY <1>2, <2>1
<1> QED
  BY <1>2, <1>3, <1>4

\* A set that has every successor of its elements.
IsClosed(g, p, C) == \A n \in C : \A t : <<n, t>> \in Steps(g, p) => t \in C

\* After has the successors and theirs, and nothing else.
LEMMA AfterIsLeast ==
  ASSUME NEW g, NEW p, IsGraph(g, p), NEW n
  PROVE  /\ \A t : <<n, t>> \in Steps(g, p) => t \in After(g, p, n)
         /\ IsClosed(g, p, After(g, p, n))
         /\ After(g, p, n) \subseteq Kept(g, p)
         /\ \A C : (\A t : <<n, t>> \in Steps(g, p) => t \in C) /\ IsClosed(g, p, C)
              => After(g, p, n) \subseteq C
<1> DEFINE St == Steps(g, p)
           from == Onward(St, {n})
           c == Cardinality(Nodes(g))
           R == ReachedIn(St, from, c)
<1>1. IsFiniteSet(Nodes(g)) /\ c \in Nat
  BY FS_CardinalityType DEF IsGraph
<1>2. \A m, t : t \in Onward(St, {m}) <=> <<m, t>> \in St
  BY StepIsPair
<1>3. \A S : Onward(St, S) \subseteq Kept(g, p)
  BY DEF Onward, Steps
<1>4. Kept(g, p) \subseteq Nodes(g)
  BY DEF Kept
<1>5. After(g, p, n) = R
  BY DEF After
<1> HIDE DEF c
<1>6. R \subseteq Nodes(g) /\ from \subseteq R /\ Onward(St, R) \subseteq R
  <2>1. c >= Cardinality(Nodes(g)) /\ from \subseteq Nodes(g) /\ Onward(St, Nodes(g)) \subseteq Nodes(g)
    BY <1>1, <1>3, <1>4 DEF c
  <2> HIDE DEF St, from
  <2> QED
    BY <1>1, <2>1, ReachedClosed
<1> HIDE DEF R
<1>7. IsClosed(g, p, R)
  <2> SUFFICES ASSUME NEW m \in R, NEW t, <<m, t>> \in St PROVE t \in R
    BY DEF IsClosed
  <2>1. t \in Onward(St, R)
    <3> HIDE DEF St
    <3> QED
      BY <1>2, OnwardFromOne
  <2> QED
    BY <1>6, <2>1
<1>8. ASSUME NEW C, \A t : <<n, t>> \in St => t \in C, IsClosed(g, p, C) PROVE R \subseteq C
  <2>1. from \subseteq C
    BY <1>2, <1>8
  <2>2. Onward(St, C) \subseteq C
    <3> SUFFICES ASSUME NEW t \in Onward(St, C) PROVE t \in C
      OBVIOUS
    <3>1. PICK m \in C : t \in Onward(St, {m})
      <4> HIDE DEF St
      <4> QED
        BY OnwardFromOne
    <3> QED
      BY <1>2, <1>8, <3>1 DEF IsClosed
  <2> HIDE DEF St, from
  <2> QED
    BY <1>1, <2>1, <2>2, LeastClosed DEF R
<1>9. R \subseteq Kept(g, p)
  <2>1. IsClosed(g, p, Kept(g, p)) /\ \A t : <<n, t>> \in St => t \in Kept(g, p)
    BY <1>2, <1>3 DEF IsClosed
  <2> QED
    BY <1>8, <2>1
<1> QED
  BY <1>2, <1>5, <1>6, <1>7, <1>8, <1>9

\* What comes after what comes after a component comes after it; the first of
\* the steps to it leads to a successor.
LEMMA AfterAfter ==
  ASSUME NEW g, NEW p, IsGraph(g, p), NEW n
  PROVE  /\ \A t \in After(g, p, n) : After(g, p, t) \subseteq After(g, p, n)
         /\ \A t : <<n, t>> \in Steps(g, p) => After(g, p, t) \subseteq After(g, p, n)
         /\ \A u \in After(g, p, n) : \E t : <<n, t>> \in Steps(g, p) /\ (u = t \/ u \in After(g, p, t))
<1>1. ASSUME NEW t \in After(g, p, n) PROVE After(g, p, t) \subseteq After(g, p, n)
  <2>1. IsClosed(g, p, After(g, p, n))
    BY AfterIsLeast
  <2>2. \A u : <<t, u>> \in Steps(g, p) => u \in After(g, p, n)
    BY <2>1 DEF IsClosed
  <2> QED
    BY <2>1, <2>2, AfterIsLeast
<1>2. \A t : <<n, t>> \in Steps(g, p) => t \in After(g, p, n)
  BY AfterIsLeast
<1> DEFINE C == {u \in After(g, p, n) : \E t : <<n, t>> \in Steps(g, p) /\ (u = t \/ u \in After(g, p, t))}
<1>3. \A t : <<n, t>> \in Steps(g, p) => t \in C
  BY <1>2
<1>4. IsClosed(g, p, C)
  <2> SUFFICES ASSUME NEW u \in C, NEW v, <<u, v>> \in Steps(g, p) PROVE v \in C
    BY DEF IsClosed
  <2>1. PICK t : <<n, t>> \in Steps(g, p) /\ (u = t \/ u \in After(g, p, t))
    OBVIOUS
  <2>2. v \in After(g, p, n)
    BY AfterIsLeast DEF IsClosed
  <2>3. CASE u = t
    <3>1. v \in After(g, p, t)
      BY <2>3, AfterIsLeast
    <3> QED
      BY <2>1, <2>2, <3>1
  <2>4. CASE u \in After(g, p, t)
    <3>1. v \in After(g, p, t)
      BY <2>4, AfterIsLeast DEF IsClosed
    <3> QED
      BY <2>1, <2>2, <3>1
  <2> QED
    BY <2>1, <2>3, <2>4
<1>5. After(g, p, n) \subseteq C
  <2> HIDE DEF C
  <2> QED
    BY <1>3, <1>4, AfterIsLeast
<1> QED
  BY <1>1, <1>2, <1>5

(***************************************************************************)
(* topologicalTraversal.                                                   *)
(***************************************************************************)
\* Finitely many numbers have a least one.
LEMMA LeastOfFinite ==
  ASSUME NEW S, IsFiniteSet(S), S \subseteq Int, S # {}
  PROVE  Min(S) \in S /\ \A x \in S : Min(S) <= x
<1> DEFINE R == {s \in S \X S : s[1] < s[2]}
           list == [i \in 1 .. Cardinality(S) |-> CHOOSE x \in S : Cardinality(Lower(R, S, x)) = i - 1]
<1>1. IsStrictOrder(R, S)
  BY DEF IsStrictOrder
<1>2. IsRanking(list, R, S)
  BY DEF IsRanking
<1>3. \A x, y \in S : x < y => <<x, y>> \in R
  OBVIOUS
<1> HIDE DEF R, list
<1>4. IsListing(list, S) /\ Len(list) = Cardinality(S) /\ Lower(R, S, list[1]) = {}
  BY <1>1, <1>2, RankedIsListing
<1>5. list[1] \in S
  <2>1. Cardinality(S) \in Nat /\ Cardinality(S) # 0
    BY FS_CardinalityType, FS_EmptySet
  <2> QED
    BY <1>4, <2>1, LenProperties DEF IsListing
<1>6. \A x \in S : list[1] <= x
  <2> SUFFICES ASSUME NEW x \in S PROVE list[1] <= x
    OBVIOUS
  <2>1. <<x, list[1]>> \notin R
    BY <1>4 DEF Lower
  <2>2. ~(x < list[1])
    BY <1>3, <1>5, <2>1
  <2>3. x \in Int /\ list[1] \in Int
    BY <1>5
  <2> QED
    BY <2>2, <2>3
<1> QED
  BY <1>5, <1>6 DEF Min

\* A list that has each of its elements once has as many as it is long.
LEMMA LengthOfList ==
  ASSUME NEW T, NEW list \in Seq(T), IsInjective(list)
  PROVE  IsFiniteSet(ToSet(list)) /\ Cardinality(ToSet(list)) = Len(list)
<1> DEFINE n == Len(list)
           D == ToSet(list)
<1>1. n \in Nat /\ DOMAIN list = 1 .. n /\ D = {list[i] : i \in 1 .. n} /\ list \in [1 .. n -> T]
  BY ElementsOf, LenProperties
<1>2. list \in [1 .. n -> D] /\ \A y \in D : \E i \in 1 .. n : list[i] = y
  BY <1>1
<1>3. \A i, j \in 1 .. n : list[i] = list[j] => i = j
  BY <1>1 DEF IsInjective
<1> HIDE DEF n, D
<1>4. list \in Surjection(1 .. n, D) /\ list \in Injection(1 .. n, D)
  BY <1>2, <1>3 DEF Surjection, Injection, IsInjective
<1>5. IsFiniteSet(1 .. n) /\ Cardinality(1 .. n) = n
  <2>1. 1 \in Int /\ n \in Int /\ ~(1 > n + 1) /\ n - 1 + 1 = n
    BY <1>1
  <2> QED
    BY <1>1, <2>1, FS_Interval
<1>6. IsFiniteSet(D) /\ Cardinality(D) = n
  BY <1>4, <1>5, FS_Surjection
<1> QED
  BY <1>6 DEF n, D

\* The connections that are counted into a component, and those of them whose
\* source is not in a set.
CountedInto(g, p, t) ==
  {k \in DOMAIN g.links : /\ g.links[k].target = t
                          /\ g.links[k].source \in Kept(g, p)
                          /\ Allowed(p, g.links[k].label)}

Unmet(g, p, D, t) == {k \in CountedInto(g, p, t) : g.links[k].source \notin D}

\* They are finitely many; a step leads over one of them.
LEMMA UnmetAreSteps ==
  ASSUME NEW g, NEW p, IsGraph(g, p), NEW t \in Kept(g, p), NEW D
  PROVE  /\ Counted(g, p, t) = Cardinality(Unmet(g, p, {}, t))
         /\ IsFiniteSet(Unmet(g, p, D, t)) /\ Cardinality(Unmet(g, p, D, t)) \in Nat
         /\ Unmet(g, p, D, t) = {} <=> Cardinality(Unmet(g, p, D, t)) = 0
         /\ Unmet(g, p, D, t) = {} <=> \A m : <<m, t>> \in Steps(g, p) => m \in D
<1>1. Unmet(g, p, D, t) \subseteq DOMAIN g.links
  BY DEF Unmet, CountedInto
<1>2. IsFiniteSet(Unmet(g, p, D, t)) /\ Cardinality(Unmet(g, p, D, t)) \in Nat
  BY <1>1, FS_Subset, FS_CardinalityType DEF IsGraph
<1>3. Unmet(g, p, D, t) = {} <=> Cardinality(Unmet(g, p, D, t)) = 0
  BY <1>2, FS_EmptySet
<1>4. Counted(g, p, t) = Cardinality(Unmet(g, p, {}, t))
  <2>1. Unmet(g, p, {}, t) = CountedInto(g, p, t)
    BY DEF Unmet
  <2>2. Counted(g, p, t) = Cardinality(CountedInto(g, p, t))
    BY DEF Counted, CountedInto
  <2> QED
    BY <2>1, <2>2
<1>5. ASSUME NEW k \in CountedInto(g, p, t) PROVE <<g.links[k].source, t>> \in Steps(g, p)
  <2>1. /\ k \in DOMAIN g.links /\ g.links[k].target = t /\ g.links[k].source \in Kept(g, p)
        /\ Allowed(p, g.links[k].label)
    BY DEF CountedInto
  <2>2. Linking(g, k)
    BY <2>1 DEF Linking, Kept
  <2> QED
    BY <2>1, <2>2 DEF Steps
<1>6. ASSUME NEW m, <<m, t>> \in Steps(g, p)
      PROVE  \E k \in CountedInto(g, p, t) : g.links[k].source = m
  <2>1. PICK k \in DOMAIN g.links : /\ Linking(g, k) /\ Allowed(p, g.links[k].label)
                                    /\ <<m, t>> = <<g.links[k].source, g.links[k].target>>
    BY <1>6 DEF Steps
  <2>2. m \in Kept(g, p)
    BY <1>6 DEF Steps
  <2>3. g.links[k].source = m /\ g.links[k].target = t
    BY <2>1
  <2> QED
    BY <2>1, <2>2, <2>3 DEF CountedInto
<1>7. Unmet(g, p, D, t) = {} <=> \A m : <<m, t>> \in Steps(g, p) => m \in D
  BY <1>5, <1>6 DEF Unmet
<1> QED
  BY <1>2, <1>3, <1>4, <1>7

\* Pairs of different components with no step back.
NotBack(g, p) == {s \in Int \X Int : s[1] # s[2] /\ <<s[2], s[1]>> \notin Steps(g, p)}

\* The state of the traversal: what is in order has its predecessors there, and
\* before it; the degrees count the others, and zero has what has none left.
SortedOk(g, p, s) ==
  /\ s.order \in Seq(Int) /\ ToSet(s.order) \subseteq Kept(g, p)
  /\ Pairwise(s.order, NotBack(g, p))
  /\ \A t \in ToSet(s.order) : Unmet(g, p, ToSet(s.order), t) = {} /\ <<t, t>> \notin Steps(g, p)
  /\ DOMAIN s.inDegree = Kept(g, p)
  /\ \A t \in Kept(g, p) : s.inDegree[t] = Cardinality(Unmet(g, p, ToSet(s.order), t))
  /\ \A t : t \in s.zero <=> /\ t \in Kept(g, p) \ ToSet(s.order)
                             /\ Unmet(g, p, ToSet(s.order), t) = {}

\* It begins with nothing in order.
LEMMA SortedBegins ==
  ASSUME NEW g, NEW p, IsGraph(g, p)
  PROVE  SortedOk(g, p, TopologicalStart(g, p))
<1> DEFINE s == TopologicalStart(g, p)
           K == Kept(g, p)
<1>1. /\ s.order = <<>> /\ s.inDegree = [n \in K |-> Counted(g, p, n)]
      /\ s.zero = {n \in K : Counted(g, p, n) = 0}
  BY DEF TopologicalStart
<1> HIDE DEF s
<1>2. s.order \in Seq(Int) /\ ToSet(s.order) = {} /\ \A R : Pairwise(s.order, R)
  BY <1>1, NothingHeld
<1>3. DOMAIN s.inDegree = K /\ \A t \in K : s.inDegree[t] = Counted(g, p, t)
  BY <1>1
<1>4. \A t \in K : /\ Counted(g, p, t) = Cardinality(Unmet(g, p, {}, t))
                   /\ Unmet(g, p, {}, t) = {} <=> Cardinality(Unmet(g, p, {}, t)) = 0
  BY UnmetAreSteps
<1> HIDE DEF K
<1>5. \A t : t \in s.zero <=> t \in K \ {} /\ Unmet(g, p, {}, t) = {}
  BY <1>1, <1>4
<1> QED
  BY <1>2, <1>3, <1>4, <1>5 DEF SortedOk, s, K

\* An iteration puts the least component of zero in order.
LEMMA SortedGoesOn ==
  ASSUME NEW g, NEW p, IsGraph(g, p), NEW s, SortedOk(g, p, s), s.zero # {}
  PROVE  SortedOk(g, p, TopologicalVisit(g, p, s))
<1> DEFINE n == Min(s.zero)
           K == Kept(g, p)
           D == ToSet(s.order)
           E == D \cup {n}
           after == TopologicalVisit(g, p, s)
           Out(t) == {k \in LinksOut(g, p, n) : g.links[k].target = t}
<1>1. /\ s.order \in Seq(Int) /\ D \subseteq K
      /\ Pairwise(s.order, NotBack(g, p))
      /\ \A t \in D : Unmet(g, p, D, t) = {} /\ <<t, t>> \notin Steps(g, p)
      /\ DOMAIN s.inDegree = K
      /\ \A t \in K : s.inDegree[t] = Cardinality(Unmet(g, p, D, t))
      /\ \A t : t \in s.zero <=> t \in K \ D /\ Unmet(g, p, D, t) = {}
  BY DEF SortedOk
<1>2. K \subseteq Int /\ IsFiniteSet(K)
  BY FS_Subset DEF IsGraph, Kept
<1>3. n \in s.zero /\ n \in K \ D /\ n \in Int /\ Unmet(g, p, D, n) = {}
  <2>1. s.zero \in SUBSET K
    BY <1>1
  <2>2. IsFiniteSet(s.zero) /\ s.zero \subseteq Int
    BY <1>2, <2>1, FS_Subset
  <2>3. n \in s.zero
    BY <2>2, LeastOfFinite
  <2> HIDE DEF n
  <2> QED
    BY <1>1, <1>2, <2>3
<1> DEFINE degree == [t \in K |-> s.inDegree[t] - Cardinality(Out(t))]
<1>4. /\ after.order = Append(s.order, n) /\ after.inDegree = degree
      /\ after.zero = (s.zero \ {n}) \cup {t \in K : Out(t) # {} /\ degree[t] = 0}
  BY <1>1 DEF TopologicalVisit
<1>5. ASSUME NEW t \in K
      PROVE  /\ Out(t) = Unmet(g, p, D, t) \ Unmet(g, p, E, t) /\ Unmet(g, p, E, t) \subseteq Unmet(g, p, D, t)
             /\ Out(t) # {} => Unmet(g, p, D, t) # {}
             /\ Out(t) = {} => Unmet(g, p, D, t) = Unmet(g, p, E, t)
             /\ degree[t] = Cardinality(Unmet(g, p, E, t))
             /\ degree[t] = 0 <=> Unmet(g, p, E, t) = {}
  <2> DEFINE U == Unmet(g, p, D, t)
             V == Unmet(g, p, E, t)
             W == Out(t)
  <2>1. W = {k \in CountedInto(g, p, t) : g.links[k].source = n}
    <3> HIDE DEF n
    <3>1. ASSUME NEW k \in CountedInto(g, p, t), g.links[k].source = n PROVE k \in W
      BY <3>1 DEF CountedInto, LinksOut, Linking, Kept
    <3>2. ASSUME NEW k \in W PROVE k \in CountedInto(g, p, t) /\ g.links[k].source = n
      BY <1>3 DEF CountedInto, LinksOut
    <3> QED
      BY <3>1, <3>2
  <2>2. U = {k \in CountedInto(g, p, t) : g.links[k].source \notin D}
        /\ V = {k \in CountedInto(g, p, t) : g.links[k].source \notin D \cup {n}}
    BY DEF Unmet
  <2>3. degree[t] = Cardinality(U) - Cardinality(W)
    BY <1>1
  <2> HIDE DEF U, V, W, n, D, degree
  <2>4. W = U \ V /\ V \subseteq U /\ V = U \ W /\ U \cap W = W
    BY <1>3, <2>1, <2>2
  <2>5. /\ IsFiniteSet(U) /\ Cardinality(U) \in Nat
        /\ Cardinality(V) \in Nat /\ (V = {} <=> Cardinality(V) = 0)
    BY UnmetAreSteps DEF U, V
  <2>6. Cardinality(V) = Cardinality(U) - Cardinality(W)
    <3>1. Cardinality(U \ W) = Cardinality(U) - Cardinality(U \cap W)
      BY <2>5, FS_Difference
    <3> QED
      BY <2>4, <3>1
  <2>7. degree[t] = Cardinality(V)
    BY <2>3, <2>6
  <2> QED
    BY <2>4, <2>5, <2>7 DEF U, V, W, E
<1>6. DOMAIN after.inDegree = K /\ \A t \in K : after.inDegree[t] = degree[t]
  BY <1>4
<1> HIDE DEF after, degree, Out, D, n
<1>7. after.order \in Seq(Int) /\ ToSet(after.order) = E
  BY <1>1, <1>3, <1>4, AppendHolds DEF D
<1>8. ASSUME NEW t
      PROVE  t \in after.zero <=> t \in K \ E /\ Unmet(g, p, E, t) = {}
  <2>1. ASSUME t \in s.zero \ {n} PROVE t \in K \ E /\ Unmet(g, p, E, t) = {}
    BY <1>1, <1>5, <2>1
  <2>2. ASSUME t \in K, Out(t) # {}, degree[t] = 0 PROVE t \in K \ E /\ Unmet(g, p, E, t) = {}
    <3>1. Unmet(g, p, D, t) # {} /\ Unmet(g, p, E, t) = {}
      BY <1>5, <2>2
    <3> QED
      BY <1>1, <1>3, <2>2, <3>1
  <2>3. ASSUME t \in K \ E, Unmet(g, p, E, t) = {} PROVE t \in after.zero
    <3>1. degree[t] = 0
      BY <1>5, <2>3
    <3>2. CASE Out(t) = {}
      <4>1. t \in s.zero
        BY <1>1, <1>5, <2>3, <3>2
      <4> QED
        BY <1>4, <2>3, <4>1
    <3>3. CASE Out(t) # {}
      BY <1>4, <2>3, <3>1, <3>3
    <3> QED
      BY <3>2, <3>3
  <2> QED
    BY <1>4, <2>1, <2>2, <2>3
<1>9. \A t \in K : /\ Unmet(g, p, D, t) = {} <=> \A m : <<m, t>> \in Steps(g, p) => m \in D
                   /\ Unmet(g, p, E, t) = {} <=> \A m : <<m, t>> \in Steps(g, p) => m \in E
  BY UnmetAreSteps
<1>10. ASSUME NEW t \in E PROVE Unmet(g, p, E, t) = {} /\ <<t, t>> \notin Steps(g, p)
  <2>1. t \in K /\ Unmet(g, p, D, t) = {}
    BY <1>1, <1>3
  <2>2. <<t, t>> \notin Steps(g, p)
    BY <1>1, <1>3, <1>9, <2>1
  <2> QED
    BY <1>9, <2>1, <2>2
<1>11. Pairwise(after.order, NotBack(g, p))
  <2>1. ASSUME NEW y \in D PROVE <<y, n>> \in NotBack(g, p)
    <3>1. y # n /\ y \in Int /\ n \in Int
      BY <1>1, <1>2, <1>3
    <3>2. <<n, y>> \notin Steps(g, p)
      BY <1>1, <1>3, <1>9
    <3> QED
      BY <3>1, <3>2 DEF NotBack
  <2> QED
    BY <1>1, <1>3, <1>4, <2>1, AppendHolds DEF D
<1>12. E \subseteq K
  BY <1>1, <1>3
<1>13. \A t \in K : after.inDegree[t] = Cardinality(Unmet(g, p, E, t))
  BY <1>5, <1>6
<1> QED
  BY <1>6, <1>7, <1>8, <1>10, <1>11, <1>12, <1>13 DEF SortedOk, after, K

\* The kept components that come after themselves.
OnACycle(g, p) == {n \in Kept(g, p) : n \in After(g, p, n)}

\* What is promised of the order.
SortedAnswers(g, p, result) ==
  /\ IsInjective(result.order)
  /\ ToSet(result.order) = Kept(g, p) \ (OnACycle(g, p) \cup UNION {After(g, p, n) : n \in OnACycle(g, p)})
  /\ \A i, j \in DOMAIN result.order :
       <<result.order[i], result.order[j]>> \in Steps(g, p) => i < j
  /\ result.acyclic <=> OnACycle(g, p) = {}

\* What has a predecessor among finitely many that all have one comes after a
\* component of a cycle.
LEMMA CycleBefore ==
  ASSUME NEW g, NEW p, IsGraph(g, p), NEW U, U \subseteq Kept(g, p),
         \A x \in U : \E y \in U : <<y, x>> \in Steps(g, p), NEW x \in U
  PROVE  \E m \in OnACycle(g, p) : x \in After(g, p, m)
<1> DEFINE Ahead == [y \in U |-> {z \in U : y \in After(g, p, z)}]
           S == {y \in U : y = x \/ x \in After(g, p, y)}
           C == {Cardinality(Ahead[y]) : y \in S}
<1>1. IsFiniteSet(U)
  BY FS_Subset DEF IsGraph, Kept
<1>2. \A y \in U : Ahead[y] = {z \in U : y \in After(g, p, z)}
  OBVIOUS
<1> HIDE DEF Ahead
<1>3. \A y \in U : IsFiniteSet(Ahead[y]) /\ Cardinality(Ahead[y]) \in Nat
  <2> SUFFICES ASSUME NEW y \in U PROVE IsFiniteSet(Ahead[y]) /\ Cardinality(Ahead[y]) \in Nat
    OBVIOUS
  <2>1. Ahead[y] \in SUBSET U
    BY <1>2
  <2> QED
    BY <1>1, <2>1, FS_Subset, FS_CardinalityType
<1>4. C \in SUBSET Nat /\ C # {}
  BY <1>3
<1>5. PICK y \in S : \A z \in S : Cardinality(Ahead[y]) <= Cardinality(Ahead[z])
  <2>1. Min(C) \in C /\ \A c \in C : Min(C) <= c
    <3> HIDE DEF C
    <3> QED
      BY <1>4, MinOfSet
  <2> QED
    BY <2>1
<1>6. PICK z \in U : <<z, y>> \in Steps(g, p)
  OBVIOUS
<1>7. y \in After(g, p, z) /\ After(g, p, y) \subseteq After(g, p, z)
  BY <1>6, AfterIsLeast, AfterAfter
<1>8. x \in After(g, p, z) /\ z \in S
  BY <1>7
<1>9. Ahead[z] \subseteq Ahead[y]
  <2> SUFFICES ASSUME NEW u \in Ahead[z] PROVE u \in Ahead[y]
    OBVIOUS
  <2>1. u \in U /\ z \in After(g, p, u)
    BY <1>2
  <2>2. After(g, p, z) \subseteq After(g, p, u)
    BY <2>1, AfterAfter
  <2> QED
    BY <1>2, <1>7, <2>1, <2>2
<1>10. Ahead[z] = Ahead[y]
  <2>1. Cardinality(Ahead[y]) <= Cardinality(Ahead[z])
    BY <1>5, <1>8
  <2>2. Cardinality(Ahead[z]) <= Cardinality(Ahead[y])
    BY <1>3, <1>9, FS_Subset
  <2>3. Cardinality(Ahead[y]) = Cardinality(Ahead[z])
    BY <1>3, <2>1, <2>2
  <2> QED
    BY <1>3, <1>9, <2>3, FS_Subset
<1>11. z \in After(g, p, z)
  BY <1>2, <1>7, <1>10
<1> QED
  BY <1>8, <1>11 DEF OnACycle

\* No component that is in order is on a cycle or after one.
LEMMA NoCycleInOrder ==
  ASSUME NEW g, NEW p, IsGraph(g, p), NEW s, SortedOk(g, p, s), NEW m \in OnACycle(g, p)
  PROVE  /\ m \notin ToSet(s.order)
         /\ ToSet(s.order) \cap After(g, p, m) = {}
<1> DEFINE D == ToSet(s.order)
           list == s.order
           N == Len(list)
<1>1. /\ list \in Seq(Int) /\ D \subseteq Kept(g, p) /\ Pairwise(list, NotBack(g, p))
      /\ \A t \in D : Unmet(g, p, D, t) = {} /\ <<t, t>> \notin Steps(g, p)
  BY DEF SortedOk
<1>2. \A t \in D : \A y : <<y, t>> \in Steps(g, p) => y \in D
  BY <1>1, UnmetAreSteps
<1>3. N \in Nat /\ D = {list[i] : i \in 1 .. N}
  BY <1>1, ElementsOf
<1> HIDE DEF D, list
<1>4. m \in After(g, p, m)
  BY DEF OnACycle
<1>5. ASSUME m \in D PROVE FALSE
  <2>1. PICK i \in 1 .. N : list[i] = m
    BY <1>3, <1>5
  <2> DEFINE C == {x \in After(g, p, m) : x \notin D \/ \E j \in 1 .. N : i < j /\ list[j] = x}
  <2>2. ASSUME NEW k \in 1 .. N, i <= k, NEW t, <<list[k], t>> \in Steps(g, p), t \in D
        PROVE  \E j \in 1 .. N : i < j /\ list[j] = t
    <3>1. PICK j \in 1 .. N : list[j] = t
      BY <1>3, <2>2
    <3>2. j # k
      BY <1>1, <2>2, <3>1
    <3>3. ~(j < k)
      <4> SUFFICES ASSUME j < k PROVE FALSE
        OBVIOUS
      <4>1. <<list[j], list[k]>> \in NotBack(g, p)
        BY <1>1 DEF Pairwise
      <4> QED
        BY <2>2, <3>1, <4>1 DEF NotBack
    <3>4. i < j
      BY <1>3, <2>2, <3>2, <3>3
    <3> QED
      BY <3>1, <3>4
  <2>3. \A t : <<m, t>> \in Steps(g, p) => t \in C
    <3> SUFFICES ASSUME NEW t, <<m, t>> \in Steps(g, p) PROVE t \in C
      OBVIOUS
    <3>1. t \in After(g, p, m)
      BY AfterIsLeast
    <3>2. i <= i
      BY <1>3
    <3> QED
      BY <2>1, <2>2, <3>1, <3>2
  <2>4. IsClosed(g, p, C)
    <3> SUFFICES ASSUME NEW x \in C, NEW t, <<x, t>> \in Steps(g, p) PROVE t \in C
      BY DEF IsClosed
    <3>1. t \in After(g, p, m)
      BY AfterIsLeast DEF IsClosed
    <3>2. CASE t \notin D
      BY <3>1, <3>2
    <3>3. CASE t \in D
      <4>1. x \in D
        BY <1>2, <3>3
      <4>2. PICK k \in 1 .. N : i < k /\ list[k] = x
        BY <4>1
      <4>3. i <= k
        BY <1>3, <4>2
      <4> QED
        BY <2>2, <3>1, <3>3, <4>2, <4>3
    <3> QED
      BY <3>2, <3>3
  <2>5. m \in C
    <3> HIDE DEF C
    <3> QED
      BY <1>4, <2>3, <2>4, AfterIsLeast
  <2>6. PICK j \in 1 .. N : i < j /\ list[j] = m
    BY <1>5, <2>5
  <2>7. <<list[i], list[j]>> \in NotBack(g, p)
    BY <1>1, <2>6 DEF Pairwise
  <2> QED
    BY <2>1, <2>6, <2>7 DEF NotBack
<1>6. D \cap After(g, p, m) = {}
  <2> DEFINE C == {x \in After(g, p, m) : x \notin D}
  <2>1. \A t : <<m, t>> \in Steps(g, p) => t \in C
    BY <1>2, <1>5, AfterIsLeast
  <2>2. IsClosed(g, p, C)
    BY <1>2, AfterIsLeast DEF IsClosed
  <2>3. After(g, p, m) \subseteq C
    <3> HIDE DEF C
    <3> QED
      BY <2>1, <2>2, AfterIsLeast
  <2> QED
    BY <2>3
<1> QED
  BY <1>5, <1>6 DEF D, list

\* When zero is empty the order is what was promised.
LEMMA SortedEnds ==
  ASSUME NEW g, NEW p, IsGraph(g, p), NEW s, SortedOk(g, p, s), s.zero = {}
  PROVE  SortedAnswers(g, p, TopologicalResult(g, p, s))
<1> DEFINE list == s.order
           D == ToSet(list)
           K == Kept(g, p)
           cyclic == OnACycle(g, p)
           behind == UNION {After(g, p, n) : n \in cyclic}
           U == K \ D
           result == TopologicalResult(g, p, s)
<1>1. result.order = list /\ result.acyclic = (Len(list) = Cardinality(K))
  BY DEF TopologicalResult
<1>2. /\ list \in Seq(Int) /\ D \subseteq K /\ Pairwise(list, NotBack(g, p))
      /\ \A t \in D : <<t, t>> \notin Steps(g, p)
      /\ \A t \in U : Unmet(g, p, D, t) # {}
  BY DEF SortedOk
<1>3. cyclic \subseteq K
  BY DEF OnACycle
<1>4. \A m \in cyclic : m \notin D /\ D \cap After(g, p, m) = {}
  BY NoCycleInOrder
<1>5. ASSUME NEW x \in U PROVE x \in behind
  <2>1. \A t \in U : \E y \in U : <<y, t>> \in Steps(g, p)
    <3> SUFFICES ASSUME NEW t \in U PROVE \E y \in U : <<y, t>> \in Steps(g, p)
      OBVIOUS
    <3>1. \E y : <<y, t>> \in Steps(g, p) /\ y \notin D
      BY <1>2, UnmetAreSteps
    <3> QED
      BY <3>1 DEF Steps
  <2> HIDE DEF U
  <2>2. U \subseteq K
    BY DEF U
  <2> QED
    BY <1>5, <2>1, <2>2, CycleBefore
<1> HIDE DEF cyclic, behind, D, K, list, result
<1>6. D = K \ (cyclic \cup behind)
  <2>1. D \cap behind = {}
    BY <1>4 DEF behind
  <2> QED
    BY <1>2, <1>4, <1>5, <2>1
<1>7. IsInjective(list)
  <2>1. \A r \in NotBack(g, p) : r[1] # r[2]
    BY DEF NotBack
  <2> QED
    BY <1>2, <2>1, PairwiseInjective
<1>8. ASSUME NEW i \in DOMAIN list, NEW j \in DOMAIN list, <<list[i], list[j]>> \in Steps(g, p)
      PROVE  i < j
  <2>1. DOMAIN list = 1 .. Len(list) /\ Len(list) \in Nat /\ D = {list[k] : k \in 1 .. Len(list)}
    BY <1>2, ElementsOf DEF D
  <2>2. i # j
    BY <1>2, <1>8, <2>1
  <2>3. ~(j < i)
    <3> SUFFICES ASSUME j < i PROVE FALSE
      OBVIOUS
    <3>1. <<list[j], list[i]>> \in NotBack(g, p)
      BY <1>2, <2>1 DEF Pairwise
    <3> QED
      BY <1>8, <3>1 DEF NotBack
  <2> QED
    BY <2>1, <2>2, <2>3
<1>9. result.acyclic <=> cyclic = {}
  <2>1. IsFiniteSet(D) /\ Cardinality(D) = Len(list)
    BY <1>2, <1>7, LengthOfList DEF D
  <2>2. IsFiniteSet(K)
    BY FS_Subset DEF IsGraph, Kept, K
  <2>3. Len(list) = Cardinality(K) <=> D = K
    BY <1>2, <2>1, <2>2, FS_Subset
  <2>4. cyclic = {} => behind = {}
    BY DEF behind
  <2>5. D = K <=> cyclic = {}
    BY <1>3, <1>6, <2>4
  <2> QED
    BY <1>1, <2>3, <2>5
<1> QED
  BY <1>1, <1>6, <1>7, <1>8, <1>9 DEF SortedAnswers, list, D, K, cyclic, behind, result

(***************************************************************************)
(* stronglyConnectedComponents, over sets: index and low number the        *)
(* components met so far, open are those on the stack, calling those with  *)
(* a call that has not returned, owed the steps not yet looked at.         *)
(***************************************************************************)
\* A component, or one that comes after it.
Reaches(g, p, u, v) == u = v \/ v \in After(g, p, u)

\* The strongly connected component of a component.
MutualOf(g, p, n) == {n} \cup {m \in After(g, p, n) : n \in After(g, p, m)}

\* The numbers tell components apart.
Numbers(g, p, index, low, open, calling) ==
  /\ DOMAIN index \subseteq Kept(g, p) /\ DOMAIN low = DOMAIN index
  /\ \A v \in DOMAIN index : index[v] \in Nat /\ low[v] \in Nat
  /\ \A u, v \in DOMAIN index : index[u] = index[v] => u = v
  /\ calling \subseteq open /\ open \subseteq DOMAIN index

\* The low number of a call is that of an open component it reaches; an open
\* component reaches a call not above it, and a call the open ones above it.
Lows(g, p, index, low, open, calling) ==
  /\ \A c \in calling : /\ low[c] <= index[c]
                        /\ \E u \in open : index[u] = low[c] /\ Reaches(g, p, c, u)
  /\ \A v \in open : \E c \in calling : index[c] <= index[v] /\ Reaches(g, p, v, c)
  /\ \A c \in calling, v \in open : index[c] <= index[v] => Reaches(g, p, c, v)
  /\ IsClosed(g, p, DOMAIN index \ open)

\* No call was made between these two numbers.
NoneBetween(index, calling, c, v) == \A d \in calling : ~(index[c] < index[d] /\ index[d] <= index[v])

\* A step that was looked at leads to a numbered component, and the call it
\* was looked at in has its number if that is open.
Accounted(g, p, index, low, open, calling, owed) ==
  \A e \in Steps(g, p) \ owed : e[1] \in DOMAIN index =>
    /\ e[2] \in DOMAIN index
    /\ e[1] \in open /\ e[2] \in open =>
         \A c \in calling :
           index[c] <= index[e[1]] /\ NoneBetween(index, calling, c, e[1]) => low[c] <= index[e[2]]

\* The innermost call.
IsTop(index, calling, h) == h \in calling /\ \A c \in calling : index[c] <= index[h]

TarjanState(g, p, index, low, open, calling, owed) ==
  /\ Numbers(g, p, index, low, open, calling)
  /\ Lows(g, p, index, low, open, calling)
  /\ Accounted(g, p, index, low, open, calling, owed)

\* Reaching is transitive, and goes by steps.
LEMMA ReachingGoesOn ==
  ASSUME NEW g, NEW p, IsGraph(g, p)
  PROVE  /\ \A u : Reaches(g, p, u, u)
         /\ \A u, v, w : Reaches(g, p, u, v) /\ Reaches(g, p, v, w) => Reaches(g, p, u, w)
         /\ \A u, v : <<u, v>> \in Steps(g, p) => Reaches(g, p, u, v)
         /\ \A C : IsClosed(g, p, C) => \A u \in C : \A v : Reaches(g, p, u, v) => v \in C
         /\ \A n, m : m \in MutualOf(g, p, n) <=> Reaches(g, p, n, m) /\ Reaches(g, p, m, n)
<1>1. ASSUME NEW u, NEW v, NEW w, Reaches(g, p, u, v), Reaches(g, p, v, w) PROVE Reaches(g, p, u, w)
  <2>1. \A t \in After(g, p, u) : After(g, p, t) \subseteq After(g, p, u)
    BY AfterAfter
  <2> QED
    BY <1>1, <2>1 DEF Reaches
<1>2. ASSUME NEW u, NEW v, <<u, v>> \in Steps(g, p) PROVE Reaches(g, p, u, v)
  BY <1>2, AfterIsLeast DEF Reaches
<1>3. ASSUME NEW C, IsClosed(g, p, C), NEW u \in C, NEW v, Reaches(g, p, u, v) PROVE v \in C
  <2>1. \A t : <<u, t>> \in Steps(g, p) => t \in C
    BY <1>3 DEF IsClosed
  <2>2. After(g, p, u) \subseteq C
    BY <1>3, <2>1, AfterIsLeast
  <2> QED
    BY <1>3, <2>2 DEF Reaches
<1>4. ASSUME NEW n, NEW m PROVE m \in MutualOf(g, p, n) <=> Reaches(g, p, n, m) /\ Reaches(g, p, m, n)
  BY DEF MutualOf, Reaches
<1> QED
  BY <1>1, <1>2, <1>3, <1>4 DEF Reaches

\* A call begins: its component gets the next number.
LEMMA CallBegins ==
  ASSUME NEW g, NEW p, IsGraph(g, p), NEW index, NEW low, NEW open, NEW calling, NEW owed,
         TarjanState(g, p, index, low, open, calling, owed),
         NEW n \in Kept(g, p), n \notin DOMAIN index,
         NEW i \in Nat, \A v \in DOMAIN index : index[v] < i,
         calling = {} \/ \E h : IsTop(index, calling, h) /\ <<h, n>> \in Steps(g, p),
         NEW still, \A t : <<n, t>> \in Steps(g, p) => <<n, t>> \in still,
         \A e \in owed : e \in still \/ e[2] = n
  PROVE  TarjanState(g, p, Numbered(index, n, i), Numbered(low, n, i), open \cup {n}, calling \cup {n}, still)
<1> DEFINE N == DOMAIN index
           index2 == Numbered(index, n, i)
           low2 == Numbered(low, n, i)
           open2 == open \cup {n}
           calling2 == calling \cup {n}
<1>1. /\ N \subseteq Kept(g, p) /\ DOMAIN low = N
      /\ \A v \in N : index[v] \in Nat /\ low[v] \in Nat
      /\ \A u, v \in N : index[u] = index[v] => u = v
      /\ calling \subseteq open /\ open \subseteq N
  BY DEF TarjanState, Numbers
<1>2. /\ \A c \in calling : /\ low[c] <= index[c]
                            /\ \E u \in open : index[u] = low[c] /\ Reaches(g, p, c, u)
      /\ \A v \in open : \E c \in calling : index[c] <= index[v] /\ Reaches(g, p, v, c)
      /\ \A c \in calling, v \in open : index[c] <= index[v] => Reaches(g, p, c, v)
      /\ IsClosed(g, p, N \ open)
  BY DEF TarjanState, Lows
<1>3. /\ DOMAIN index2 = N \cup {n} /\ DOMAIN low2 = N \cup {n}
      /\ index2[n] = i /\ low2[n] = i
      /\ \A v \in N : index2[v] = index[v] /\ low2[v] = low[v]
  BY <1>1 DEF Numbered
<1>4. /\ \A u : Reaches(g, p, u, u)
      /\ \A u, v, w : Reaches(g, p, u, v) /\ Reaches(g, p, v, w) => Reaches(g, p, u, w)
      /\ \A u, v : <<u, v>> \in Steps(g, p) => Reaches(g, p, u, v)
  BY ReachingGoesOn
<1>5. n \notin N /\ \A v \in N : index[v] < i
  OBVIOUS
<1>6. calling = {} \/ \E h : IsTop(index, calling, h) /\ <<h, n>> \in Steps(g, p)
  OBVIOUS
<1>7. /\ \A t : <<n, t>> \in Steps(g, p) => <<n, t>> \in still
      /\ \A e \in owed : e \in still \/ e[2] = n
  OBVIOUS
<1> HIDE DEF N, index2, low2
<1>8. Numbers(g, p, index2, low2, open2, calling2)
  <2>1. \A v \in N \cup {n} : index2[v] \in Nat /\ low2[v] \in Nat
    BY <1>1, <1>3
  <2>2. \A u, v \in N \cup {n} : index2[u] = index2[v] => u = v
    BY <1>1, <1>3, <1>5
  <2> QED
    BY <1>1, <1>3, <2>1, <2>2 DEF Numbers
<1>9. Lows(g, p, index2, low2, open2, calling2)
  <2>1. ASSUME NEW c \in calling2
        PROVE  /\ low2[c] <= index2[c]
               /\ \E u \in open2 : index2[u] = low2[c] /\ Reaches(g, p, c, u)
    <3>1. CASE c = n
      BY <1>3, <1>4, <3>1
    <3>2. CASE c \in calling
      <4>1. PICK u \in open : index[u] = low[c] /\ Reaches(g, p, c, u)
        BY <1>2, <3>2
      <4>2. c \in N /\ u \in N
        BY <1>1, <3>2
      <4> QED
        BY <1>2, <1>3, <3>2, <4>1, <4>2
    <3> QED
      BY <3>1, <3>2
  <2>2. ASSUME NEW v \in open2 PROVE \E c \in calling2 : index2[c] <= index2[v] /\ Reaches(g, p, v, c)
    <3>1. CASE v = n
      BY <1>3, <1>4, <3>1
    <3>2. CASE v \in open
      <4>1. PICK c \in calling : index[c] <= index[v] /\ Reaches(g, p, v, c)
        BY <1>2, <3>2
      <4>2. c \in N /\ v \in N
        BY <1>1, <3>2
      <4> QED
        BY <1>3, <4>1, <4>2
    <3> QED
      BY <3>1, <3>2
  <2>3. ASSUME NEW c \in calling2, NEW v \in open2, index2[c] <= index2[v] PROVE Reaches(g, p, c, v)
    <3>1. CASE c = n
      <4>1. v = n
        BY <1>1, <1>3, <1>5, <2>3, <3>1
      <4> QED
        BY <1>4, <3>1, <4>1
    <3>2. CASE c \in calling /\ v = n
      <4>1. PICK h : IsTop(index, calling, h) /\ <<h, n>> \in Steps(g, p)
        BY <1>6, <3>2
      <4>2. h \in open /\ index[c] <= index[h]
        BY <1>1, <3>2, <4>1 DEF IsTop
      <4> QED
        BY <1>2, <1>4, <3>2, <4>1, <4>2
    <3>3. CASE c \in calling /\ v \in open
      <4>1. c \in N /\ v \in N
        BY <1>1, <3>3
      <4> QED
        BY <1>2, <1>3, <2>3, <3>3, <4>1
    <3> QED
      BY <3>1, <3>2, <3>3
  <2>4. DOMAIN index2 \ open2 = N \ open
    BY <1>1, <1>3, <1>5
  <2> QED
    BY <1>2, <2>1, <2>2, <2>3, <2>4 DEF Lows
<1>10. Accounted(g, p, index2, low2, open2, calling2, still)
  <2> SUFFICES ASSUME NEW e \in Steps(g, p) \ still, e[1] \in DOMAIN index2
               PROVE  /\ e[2] \in DOMAIN index2
                      /\ e[1] \in open2 /\ e[2] \in open2 =>
                           \A c \in calling2 :
                             index2[c] <= index2[e[1]] /\ NoneBetween(index2, calling2, c, e[1])
                               => low2[c] <= index2[e[2]]
    BY DEF Accounted
  <2>1. e = <<e[1], e[2]>>
    BY StepIsPair
  <2>2. e[1] # n /\ e[1] \in N
    BY <1>3, <1>7, <2>1
  <2>3. CASE e[2] = n
    <3> SUFFICES ASSUME NEW c \in calling2, e[1] \in open2, index2[c] <= index2[e[1]]
                 PROVE  low2[c] <= index2[n]
      BY <1>3, <2>3
    <3>1. c # n
      BY <1>3, <1>1, <1>5, <2>2
    <3>2. c \in calling /\ c \in N
      BY <1>1, <3>1
    <3> QED
      BY <1>1, <1>2, <1>3, <1>5, <3>2
  <2>4. CASE e[2] # n
    <3>1. e \in Steps(g, p) \ owed
      BY <1>7, <2>4
    <3>2. /\ e[2] \in N
          /\ e[1] \in open /\ e[2] \in open =>
               \A c \in calling :
                 index[c] <= index[e[1]] /\ NoneBetween(index, calling, c, e[1]) => low[c] <= index[e[2]]
      BY <2>2, <3>1 DEF TarjanState, Accounted, N
    <3> SUFFICES ASSUME e[1] \in open2, e[2] \in open2, NEW c \in calling2,
                        index2[c] <= index2[e[1]], NoneBetween(index2, calling2, c, e[1])
                 PROVE  low2[c] <= index2[e[2]]
      BY <1>3, <3>2
    <3>3. c # n
      BY <1>3, <1>1, <1>5, <2>2
    <3>4. c \in calling /\ c \in N
      BY <1>1, <3>3
    <3>5. NoneBetween(index, calling, c, e[1])
      <4> SUFFICES ASSUME NEW d \in calling, index[c] < index[d], index[d] <= index[e[1]] PROVE FALSE
        BY DEF NoneBetween
      <4>1. d \in N /\ d \in calling2
        BY <1>1
      <4> QED
        BY <1>3, <2>2, <3>4, <4>1 DEF NoneBetween
    <3> QED
      BY <1>3, <2>2, <2>4, <3>2, <3>4, <3>5
  <2> QED
    BY <2>3, <2>4
<1> QED
  BY <1>8, <1>9, <1>10 DEF TarjanState, index2, low2

\* The innermost call has looked at a step to an open component.
LEMMA CallLowers ==
  ASSUME NEW g, NEW p, IsGraph(g, p), NEW index, NEW low, NEW open, NEW calling, NEW owed,
         TarjanState(g, p, index, low, open, calling, owed),
         NEW h, IsTop(index, calling, h), NEW t \in open, <<h, t>> \in Steps(g, p),
         NEW still, \A e \in owed : e \in still \/ e = <<h, t>>
  PROVE  TarjanState(g, p, index, [low EXCEPT ![h] = Min({low[h], index[t]})], open, calling, still)
<1> DEFINE N == DOMAIN index
           low2 == [low EXCEPT ![h] = Min({low[h], index[t]})]
<1>1. /\ N \subseteq Kept(g, p) /\ DOMAIN low = N
      /\ \A v \in N : index[v] \in Nat /\ low[v] \in Nat
      /\ \A u, v \in N : index[u] = index[v] => u = v
      /\ calling \subseteq open /\ open \subseteq N
  BY DEF TarjanState, Numbers
<1>2. /\ \A c \in calling : /\ low[c] <= index[c]
                            /\ \E u \in open : index[u] = low[c] /\ Reaches(g, p, c, u)
      /\ \A v \in open : \E c \in calling : index[c] <= index[v] /\ Reaches(g, p, v, c)
      /\ \A c \in calling, v \in open : index[c] <= index[v] => Reaches(g, p, c, v)
      /\ IsClosed(g, p, N \ open)
  BY DEF TarjanState, Lows
<1>3. h \in calling /\ h \in N /\ t \in N /\ \A c \in calling : index[c] <= index[h]
  BY <1>1 DEF IsTop
<1>4. /\ low2[h] \in {low[h], index[t]} /\ low2[h] <= low[h] /\ low2[h] <= index[t]
      /\ DOMAIN low2 = N /\ \A v \in N : v # h => low2[v] = low[v]
  <2> DEFINE m == Min({low[h], index[t]})
  <2>1. {low[h], index[t]} \in SUBSET Nat
    BY <1>1, <1>3
  <2>2. m \in {low[h], index[t]} /\ m <= low[h] /\ m <= index[t]
    BY <2>1, MinOfSet
  <2> HIDE DEF m
  <2>3. low2 = [low EXCEPT ![h] = m]
    BY DEF m
  <2> HIDE DEF low2
  <2> QED
    BY <1>1, <1>3, <2>2, <2>3
<1> HIDE DEF N, low2
<1>5. \A v \in N : low2[v] \in Nat /\ low2[v] <= low[v]
  BY <1>1, <1>3, <1>4
<1>6. Numbers(g, p, index, low2, open, calling)
  BY <1>1, <1>4, <1>5 DEF Numbers, N
<1>7. Lows(g, p, index, low2, open, calling)
  <2>1. ASSUME NEW c \in calling
        PROVE  /\ low2[c] <= index[c]
               /\ \E u \in open : index[u] = low2[c] /\ Reaches(g, p, c, u)
    <3>1. c \in N /\ low[c] <= index[c] /\ low2[c] <= index[c]
      BY <1>1, <1>2, <1>5
    <3>2. CASE low2[c] = low[c]
      BY <1>2, <3>1, <3>2
    <3>3. CASE c = h /\ low2[h] = index[t]
      BY <3>1, <3>3, ReachingGoesOn
    <3> QED
      BY <1>4, <3>1, <3>2, <3>3
  <2> QED
    BY <1>2, <2>1 DEF Lows, N
<1>8. Accounted(g, p, index, low2, open, calling, still)
  <2> SUFFICES ASSUME NEW e \in Steps(g, p) \ still, e[1] \in DOMAIN index
               PROVE  /\ e[2] \in DOMAIN index
                      /\ e[1] \in open /\ e[2] \in open =>
                           \A c \in calling :
                             index[c] <= index[e[1]] /\ NoneBetween(index, calling, c, e[1])
                               => low2[c] <= index[e[2]]
    BY DEF Accounted
  <2>1. CASE e = <<h, t>>
    <3>1. e[1] = h /\ e[2] = t
      BY <2>1
    <3> SUFFICES ASSUME NEW c \in calling, NoneBetween(index, calling, c, h)
                 PROVE  low2[c] <= index[t]
      BY <1>3, <3>1 DEF N
    <3>2. ~(index[c] < index[h])
      BY <1>1, <1>3 DEF NoneBetween
    <3>3. c = h
      BY <1>1, <1>3, <3>2
    <3> QED
      BY <1>4, <3>3
  <2>2. CASE e # <<h, t>>
    <3>1. /\ e[2] \in N
          /\ e[1] \in open /\ e[2] \in open =>
               \A c \in calling :
                 index[c] <= index[e[1]] /\ NoneBetween(index, calling, c, e[1]) => low[c] <= index[e[2]]
      BY <2>2 DEF TarjanState, Accounted, N
    <3> SUFFICES ASSUME e[1] \in open, e[2] \in open, NEW c \in calling, low[c] <= index[e[2]]
                 PROVE  low2[c] <= index[e[2]]
      BY <3>1 DEF N
    <3>2. c \in N /\ low2[c] \in Nat /\ low[c] \in Nat /\ index[e[2]] \in Nat /\ low2[c] <= low[c]
      BY <1>1, <1>5
    <3> QED
      BY <3>2
  <2> QED
    BY <2>1, <2>2
<1> QED
  BY <1>6, <1>7, <1>8 DEF TarjanState, low2

\* The innermost call has looked at a link that asks for nothing more: it is
\* no step, or it leads to a component that is in a result already.
LEMMA CallSkips ==
  ASSUME NEW g, NEW p, NEW index, NEW low, NEW open, NEW calling, NEW owed,
         TarjanState(g, p, index, low, open, calling, owed),
         NEW h, NEW t, <<h, t>> \notin Steps(g, p) \/ t \in DOMAIN index \ open,
         NEW still, \A e \in owed : e \in still \/ e = <<h, t>>
  PROVE  TarjanState(g, p, index, low, open, calling, still)
<1> SUFFICES Accounted(g, p, index, low, open, calling, still)
  BY DEF TarjanState
<1> SUFFICES ASSUME NEW e \in Steps(g, p) \ still, e[1] \in DOMAIN index
             PROVE  /\ e[2] \in DOMAIN index
                    /\ e[1] \in open /\ e[2] \in open =>
                         \A c \in calling :
                           index[c] <= index[e[1]] /\ NoneBetween(index, calling, c, e[1])
                             => low[c] <= index[e[2]]
  BY DEF Accounted
<1>1. CASE e = <<h, t>>
  BY <1>1
<1>2. CASE e # <<h, t>>
  BY <1>2 DEF TarjanState, Accounted
<1> QED
  BY <1>1, <1>2

\* The innermost call returns into the one below, with its low number: its
\* component stays open, since it reaches one below it.
LEMMA CallReturns ==
  ASSUME NEW g, NEW p, IsGraph(g, p), NEW index, NEW low, NEW open, NEW calling, NEW owed,
         TarjanState(g, p, index, low, open, calling, owed),
         NEW n, IsTop(index, calling, n), low[n] # index[n]
  PROVE  /\ calling \ {n} # {}
         /\ \A m : IsTop(index, calling \ {n}, m) /\ <<m, n>> \in Steps(g, p) =>
              TarjanState(g, p, index, [low EXCEPT ![m] = Min({low[m], low[n]})], open, calling \ {n}, owed)
<1> DEFINE N == DOMAIN index
           calling2 == calling \ {n}
<1>1. /\ N \subseteq Kept(g, p) /\ DOMAIN low = N
      /\ \A v \in N : index[v] \in Nat /\ low[v] \in Nat
      /\ \A u, v \in N : index[u] = index[v] => u = v
      /\ calling \subseteq open /\ open \subseteq N
  BY DEF TarjanState, Numbers
<1>2. /\ \A c \in calling : /\ low[c] <= index[c]
                            /\ \E u \in open : index[u] = low[c] /\ Reaches(g, p, c, u)
      /\ \A v \in open : \E c \in calling : index[c] <= index[v] /\ Reaches(g, p, v, c)
      /\ \A c \in calling, v \in open : index[c] <= index[v] => Reaches(g, p, c, v)
      /\ IsClosed(g, p, N \ open)
  BY DEF TarjanState, Lows
<1>3. n \in calling /\ n \in N /\ n \in open /\ \A c \in calling : index[c] <= index[n]
  BY <1>1 DEF IsTop
<1>4. /\ \A u, v, w : Reaches(g, p, u, v) /\ Reaches(g, p, v, w) => Reaches(g, p, u, w)
      /\ \A u, v : <<u, v>> \in Steps(g, p) => Reaches(g, p, u, v)
  BY ReachingGoesOn
<1>5. Accounted(g, p, index, low, open, calling, owed) /\ low[n] # index[n]
  BY DEF TarjanState
<1> HIDE DEF N
<1>6. PICK u \in open : index[u] = low[n] /\ Reaches(g, p, n, u)
  BY <1>2, <1>3
<1>7. u \in N /\ index[u] < index[n]
  <2>1. low[n] \in Nat /\ index[n] \in Nat /\ low[n] <= index[n]
    BY <1>1, <1>2, <1>3
  <2>2. low[n] < index[n]
    BY <1>5, <2>1
  <2> QED
    BY <1>1, <1>6, <2>2
<1>8. PICK b \in calling : index[b] <= index[u] /\ Reaches(g, p, u, b)
  BY <1>2
<1>9. b \in N /\ index[b] < index[n] /\ b # n /\ b \in calling2
  BY <1>1, <1>3, <1>7, <1>8
<1> SUFFICES ASSUME NEW m, IsTop(index, calling2, m), <<m, n>> \in Steps(g, p)
             PROVE  TarjanState(g, p, index, [low EXCEPT ![m] = Min({low[m], low[n]})], open, calling2, owed)
  BY <1>9
<1> DEFINE low2 == [low EXCEPT ![m] = Min({low[m], low[n]})]
<1>10. m \in calling2 /\ m \in calling /\ m \in N /\ m # n /\ \A c \in calling2 : index[c] <= index[m]
  BY <1>1 DEF IsTop
<1>11. /\ low2[m] \in {low[m], low[n]} /\ low2[m] <= low[m] /\ low2[m] <= low[n]
       /\ DOMAIN low2 = N /\ \A v \in N : v # m => low2[v] = low[v]
  <2> DEFINE k == Min({low[m], low[n]})
  <2>1. {low[m], low[n]} \in SUBSET Nat
    BY <1>1, <1>3, <1>10
  <2>2. k \in {low[m], low[n]} /\ k <= low[m] /\ k <= low[n]
    BY <2>1, MinOfSet
  <2> HIDE DEF k
  <2>3. low2 = [low EXCEPT ![m] = k]
    BY DEF k
  <2> HIDE DEF low2
  <2> QED
    BY <1>1, <1>10, <2>2, <2>3
<1> HIDE DEF low2
<1>12. \A v \in N : low2[v] \in Nat /\ low2[v] <= low[v]
  BY <1>1, <1>3, <1>11
<1> HIDE DEF calling2
<1>13. calling2 \subseteq calling /\ \A c \in calling : c = n \/ c \in calling2
  BY DEF calling2
<1>14. index[m] < index[n]
  BY <1>1, <1>3, <1>10
<1>15. Numbers(g, p, index, low2, open, calling2)
  BY <1>1, <1>11, <1>12, <1>13 DEF Numbers, N
<1>16. Lows(g, p, index, low2, open, calling2)
  <2>1. ASSUME NEW c \in calling2
        PROVE  /\ low2[c] <= index[c]
               /\ \E x \in open : index[x] = low2[c] /\ Reaches(g, p, c, x)
    <3>1. c \in calling /\ c \in N /\ low[c] <= index[c] /\ low2[c] <= index[c]
      <4>1. c \in calling /\ c \in N
        BY <1>1, <1>13
      <4>2. low[c] <= index[c]
        BY <1>2, <4>1
      <4>3. low[c] \in Nat /\ low2[c] \in Nat /\ index[c] \in Nat /\ low2[c] <= low[c]
        BY <1>1, <1>12, <4>1
      <4> QED
        BY <4>1, <4>2, <4>3
    <3>2. CASE low2[c] = low[c]
      BY <1>2, <3>1, <3>2
    <3>3. CASE c = m /\ low2[m] = low[n]
      BY <1>4, <1>6, <3>1, <3>3
    <3> QED
      BY <1>11, <3>1, <3>2, <3>3
  <2>2. ASSUME NEW v \in open PROVE \E c \in calling2 : index[c] <= index[v] /\ Reaches(g, p, v, c)
    <3>1. PICK c \in calling : index[c] <= index[v] /\ Reaches(g, p, v, c)
      BY <1>2
    <3>2. CASE c = n
      <4>1. Reaches(g, p, v, b)
        BY <1>4, <1>6, <1>8, <3>1, <3>2
      <4>2. index[b] <= index[v]
        BY <1>1, <1>3, <1>9, <3>1, <3>2
      <4> QED
        BY <1>9, <4>1, <4>2
    <3> QED
      BY <1>13, <3>1, <3>2
  <2> QED
    BY <1>2, <1>13, <2>1, <2>2 DEF Lows, N
<1>17. Accounted(g, p, index, low2, open, calling2, owed)
  <2> SUFFICES ASSUME NEW e \in Steps(g, p) \ owed, e[1] \in DOMAIN index
               PROVE  /\ e[2] \in DOMAIN index
                      /\ e[1] \in open /\ e[2] \in open =>
                           \A c \in calling2 :
                             index[c] <= index[e[1]] /\ NoneBetween(index, calling2, c, e[1])
                               => low2[c] <= index[e[2]]
    BY DEF Accounted
  <2>1. /\ e[2] \in N
        /\ e[1] \in open /\ e[2] \in open =>
             \A c \in calling :
               index[c] <= index[e[1]] /\ NoneBetween(index, calling, c, e[1]) => low[c] <= index[e[2]]
    BY <1>5 DEF Accounted, N
  <2> SUFFICES ASSUME e[1] \in open, e[2] \in open, NEW c \in calling2,
                      index[c] <= index[e[1]], NoneBetween(index, calling2, c, e[1])
               PROVE  low2[c] <= index[e[2]]
    BY <2>1 DEF N
  <2>2. /\ c \in N /\ c \in calling /\ low2[c] \in Nat /\ low[c] \in Nat /\ low2[c] <= low[c]
        /\ index[e[2]] \in Nat /\ index[e[1]] \in Nat /\ index[c] \in Nat
        /\ low[n] \in Nat /\ index[n] \in Nat /\ index[m] \in Nat
    BY <1>1, <1>3, <1>10, <1>12, <1>13, <2>1
  <2>3. CASE NoneBetween(index, calling, c, e[1])
    BY <2>1, <2>2, <2>3
  <2>4. CASE ~NoneBetween(index, calling, c, e[1])
    <3>1. index[c] < index[n] /\ index[n] <= index[e[1]]
      BY <1>13, <2>4 DEF NoneBetween
    <3>2. NoneBetween(index, calling, n, e[1])
      <4> SUFFICES ASSUME NEW d \in calling, index[n] < index[d] PROVE FALSE
        BY DEF NoneBetween
      <4>1. index[d] \in Nat /\ index[d] <= index[n]
        BY <1>1, <1>3
      <4> QED
        BY <2>2, <4>1
    <3>3. low[n] <= index[e[2]]
      BY <1>3, <2>1, <3>1, <3>2
    <3>4. index[c] = index[m]
      <4>1. index[c] <= index[m]
        BY <1>10
      <4>2. ~(index[c] < index[m])
        BY <1>10, <1>14, <2>2, <3>1 DEF NoneBetween
      <4> QED
        BY <2>2, <4>1, <4>2
    <3>5. c = m
      BY <1>1, <1>10, <2>2, <3>4
    <3>6. low2[c] <= low[n]
      BY <1>11, <3>5
    <3> QED
      BY <2>2, <3>3, <3>6
  <2> QED
    BY <2>3, <2>4
<1> QED
  BY <1>15, <1>16, <1>17 DEF TarjanState, low2

\* The open components from this number up.
From(index, open, n) == {v \in open : index[n] <= index[v]}

\* Only other calls owe steps.
OwedBelow(owed, calling, n) == \A e \in owed : e[1] \in calling \ {n}

\* What is open from a component up is its strongly connected component, and
\* can be taken from the stack.
Closing(g, p, index, low, open, calling, owed, n) ==
  /\ From(index, open, n) = MutualOf(g, p, n)
  /\ TarjanState(g, p, index, low, open \ From(index, open, n), calling \ {n}, owed)
  /\ \A c \in calling \ {n} : Min({low[c], low[n]}) = low[c]

\* The innermost call returns and no component it reaches is below it: what
\* is open from it up is its strongly connected component.
LEMMA CallCloses ==
  ASSUME NEW g, NEW p, IsGraph(g, p), NEW index, NEW low, NEW open, NEW calling, NEW owed,
         TarjanState(g, p, index, low, open, calling, owed),
         NEW n, IsTop(index, calling, n), low[n] = index[n],
         OwedBelow(owed, calling, n)
  PROVE  Closing(g, p, index, low, open, calling, owed, n)
<1> DEFINE N == DOMAIN index
           calling2 == calling \ {n}
           C == From(index, open, n)
           open2 == open \ C
<1>1. /\ N \subseteq Kept(g, p) /\ DOMAIN low = N
      /\ \A v \in N : index[v] \in Nat /\ low[v] \in Nat
      /\ \A u, v \in N : index[u] = index[v] => u = v
      /\ calling \subseteq open /\ open \subseteq N
  BY DEF TarjanState, Numbers
<1>2. /\ \A c \in calling : /\ low[c] <= index[c]
                            /\ \E u \in open : index[u] = low[c] /\ Reaches(g, p, c, u)
      /\ \A v \in open : \E c \in calling : index[c] <= index[v] /\ Reaches(g, p, v, c)
      /\ \A c \in calling, v \in open : index[c] <= index[v] => Reaches(g, p, c, v)
      /\ IsClosed(g, p, N \ open)
  BY DEF TarjanState, Lows
<1>3. n \in calling /\ n \in N /\ n \in open /\ \A c \in calling : index[c] <= index[n]
  BY <1>1 DEF IsTop
<1>4. /\ \A u, v, w : Reaches(g, p, u, v) /\ Reaches(g, p, v, w) => Reaches(g, p, u, w)
      /\ \A D : IsClosed(g, p, D) => \A u \in D : \A v : Reaches(g, p, u, v) => v \in D
      /\ \A m : m \in MutualOf(g, p, n) <=> Reaches(g, p, n, m) /\ Reaches(g, p, m, n)
  BY ReachingGoesOn
<1>5. /\ Accounted(g, p, index, low, open, calling, owed) /\ low[n] = index[n]
      /\ \A e \in owed : e[1] \in calling \ {n}
  BY DEF TarjanState, OwedBelow
<1> HIDE DEF N
<1>6. \A v : v \in C <=> v \in open /\ index[n] <= index[v]
  BY DEF From
<1>7. n \in C
  BY <1>1, <1>3, <1>6
<1> HIDE DEF C
<1>8. \A c \in calling2 : c \in calling /\ c \in N /\ c \in open /\ index[c] < index[n] /\ c \notin C
  <2> SUFFICES ASSUME NEW c \in calling2
               PROVE  c \in calling /\ c \in N /\ c \in open /\ index[c] < index[n] /\ c \notin C
    OBVIOUS
  <2>1. c \in calling /\ c # n /\ c \in open /\ c \in N /\ index[c] \in Nat /\ index[n] \in Nat
    BY <1>1, <1>3
  <2>2. index[c] <= index[n] /\ index[c] # index[n]
    BY <1>1, <1>3, <2>1
  <2>3. index[c] < index[n] /\ ~(index[n] <= index[c])
    BY <2>1, <2>2
  <2> QED
    BY <1>6, <2>1, <2>3
<1>9. \A v \in open2 : v \in open /\ v \in N /\ index[v] < index[n]
  BY <1>1, <1>3, <1>6
<1>10. IsClosed(g, p, (N \ open) \cup C)
  <2> SUFFICES ASSUME NEW v \in (N \ open) \cup C, NEW t, <<v, t>> \in Steps(g, p)
               PROVE  t \in (N \ open) \cup C
    BY DEF IsClosed
  <2>1. CASE v \in N \ open
    BY <1>2, <2>1 DEF IsClosed
  <2>2. CASE v \in C
    <3> DEFINE e == <<v, t>>
    <3>1. e[1] = v /\ e[2] = t /\ e \in Steps(g, p)
      OBVIOUS
    <3> HIDE DEF e
    <3>2. e \notin owed
      BY <1>5, <1>8, <2>2, <3>1
    <3>3. v \in open /\ v \in N /\ index[n] <= index[v]
      BY <1>1, <1>6, <2>2
    <3>4. NoneBetween(index, calling, n, v)
      <4> SUFFICES ASSUME NEW d \in calling, index[n] < index[d] PROVE FALSE
        BY DEF NoneBetween
      <4>1. index[d] \in Nat /\ index[n] \in Nat /\ index[d] <= index[n]
        BY <1>1, <1>3
      <4> QED
        BY <4>1
    <3>5. t \in N /\ (t \in open => low[n] <= index[t])
      <4>1. e \in Steps(g, p) \ owed /\ e[1] \in DOMAIN index
        BY <3>1, <3>2, <3>3 DEF N
      <4>2. /\ e[2] \in DOMAIN index
            /\ e[1] \in open /\ e[2] \in open =>
                 \A c \in calling :
                   index[c] <= index[e[1]] /\ NoneBetween(index, calling, c, e[1]) => low[c] <= index[e[2]]
        BY <1>5, <4>1 DEF Accounted
      <4> QED
        BY <1>3, <3>1, <3>3, <3>4, <4>2 DEF N
    <3> QED
      BY <1>5, <1>6, <3>5
  <2> QED
    BY <2>1, <2>2
<1>11. C = MutualOf(g, p, n)
  <2>1. ASSUME NEW v \in C PROVE v \in MutualOf(g, p, n)
    <3>1. v \in open /\ index[n] <= index[v] /\ Reaches(g, p, n, v)
      BY <1>2, <1>3, <1>6
    <3>2. PICK c \in calling : index[c] <= index[v] /\ Reaches(g, p, v, c)
      BY <1>2, <3>1
    <3>3. Reaches(g, p, c, n)
      BY <1>2, <1>3
    <3> QED
      BY <1>4, <3>1, <3>2, <3>3
  <2>2. ASSUME NEW m \in MutualOf(g, p, n) PROVE m \in C
    <3>1. Reaches(g, p, n, m) /\ Reaches(g, p, m, n)
      BY <1>4
    <3>2. m \in (N \ open) \cup C
      <4> DEFINE D == (N \ open) \cup C
      <4>1. IsClosed(g, p, D) /\ n \in D
        BY <1>7, <1>10
      <4> HIDE DEF D
      <4>2. m \in D
        BY <1>4, <3>1, <4>1
      <4> QED
        BY <4>2 DEF D
    <3>3. m \notin N \ open
      <4> DEFINE D == N \ open
      <4>1. IsClosed(g, p, D) /\ n \notin D
        BY <1>2, <1>3
      <4> HIDE DEF D
      <4>2. m \notin D
        BY <1>4, <3>1, <4>1
      <4> QED
        BY <4>2 DEF D
    <3> QED
      BY <3>2, <3>3
  <2> QED
    BY <2>1, <2>2
<1>12. Numbers(g, p, index, low, open2, calling2)
  BY <1>1, <1>8 DEF Numbers, N
<1>13. Lows(g, p, index, low, open2, calling2)
  <2>1. ASSUME NEW c \in calling2
        PROVE  /\ low[c] <= index[c]
               /\ \E u \in open2 : index[u] = low[c] /\ Reaches(g, p, c, u)
    <3>1. low[c] <= index[c] /\ index[c] < index[n] /\ c \in N
      BY <1>2, <1>8
    <3>2. PICK u \in open : index[u] = low[c] /\ Reaches(g, p, c, u)
      BY <1>2, <1>8
    <3>3. u \notin C
      BY <1>1, <1>3, <1>6, <3>1, <3>2
    <3> QED
      BY <3>1, <3>2, <3>3
  <2>2. ASSUME NEW v \in open2 PROVE \E c \in calling2 : index[c] <= index[v] /\ Reaches(g, p, v, c)
    <3>1. v \in open /\ v \in N /\ index[v] < index[n]
      BY <1>9
    <3>2. PICK c \in calling : index[c] <= index[v] /\ Reaches(g, p, v, c)
      BY <1>2, <3>1
    <3>3. c # n
      BY <1>1, <1>3, <3>1, <3>2
    <3> QED
      BY <3>2, <3>3
  <2>3. N \ open2 = (N \ open) \cup C
    BY <1>1, <1>6
  <2>4. \A c \in calling2, v \in open2 : index[c] <= index[v] => Reaches(g, p, c, v)
    BY <1>2
  <2>5. IsClosed(g, p, N \ open2)
    BY <1>10, <2>3
  <2> QED
    BY <2>1, <2>2, <2>4, <2>5 DEF Lows, N
<1>14. Accounted(g, p, index, low, open2, calling2, owed)
  <2> SUFFICES ASSUME NEW e \in Steps(g, p) \ owed, e[1] \in DOMAIN index
               PROVE  /\ e[2] \in DOMAIN index
                      /\ e[1] \in open2 /\ e[2] \in open2 =>
                           \A c \in calling2 :
                             index[c] <= index[e[1]] /\ NoneBetween(index, calling2, c, e[1])
                               => low[c] <= index[e[2]]
    BY DEF Accounted
  <2>1. /\ e[2] \in N
        /\ e[1] \in open /\ e[2] \in open =>
             \A c \in calling :
               index[c] <= index[e[1]] /\ NoneBetween(index, calling, c, e[1]) => low[c] <= index[e[2]]
    BY <1>5 DEF Accounted, N
  <2> SUFFICES ASSUME e[1] \in open2, e[2] \in open2, NEW c \in calling2,
                      index[c] <= index[e[1]], NoneBetween(index, calling2, c, e[1])
               PROVE  low[c] <= index[e[2]]
    BY <2>1 DEF N
  <2>2. NoneBetween(index, calling, c, e[1])
    <3>1. index[e[1]] \in Nat /\ index[n] \in Nat /\ index[e[1]] < index[n]
      BY <1>1, <1>3, <1>9
    <3>2. ~(index[n] <= index[e[1]])
      BY <3>1
    <3> QED
      BY <3>2 DEF NoneBetween
  <2> QED
    BY <1>8, <2>1, <2>2
<1>15. ASSUME NEW c \in calling2 PROVE Min({low[c], low[n]}) = low[c]
  <2>1. low[c] \in Nat /\ low[n] \in Nat /\ index[c] \in Nat /\ low[c] <= index[c] /\ index[c] < index[n]
    BY <1>1, <1>2, <1>3, <1>8
  <2>2. {low[c], low[n]} \in SUBSET Nat /\ low[c] < low[n]
    BY <1>5, <2>1
  <2>3. Min({low[c], low[n]}) \in {low[c], low[n]} /\ Min({low[c], low[n]}) <= low[c]
    BY <2>2, MinOfSet
  <2> DEFINE k == Min({low[c], low[n]})
  <2> HIDE DEF k
  <2>4. k \in {low[c], low[n]} /\ k <= low[c]
    BY <2>3 DEF k
  <2>5. k = low[c]
    BY <2>1, <2>2, <2>4
  <2> QED
    BY <2>5 DEF k
<1> QED
  BY <1>11, <1>12, <1>13, <1>14, <1>15 DEF TarjanState, Closing, C

(***************************************************************************)
(* stronglyConnectedComponents, as it is: a stack, and a list of calls.    *)
(***************************************************************************)
\* A call, with the links that it has still to look at.
CallSet(g, p) == [node : Kept(g, p), links : Seq(DOMAIN g.links)]

\* The components with a call, and the steps that the calls have not looked at.
Calling(calls) == {c.node : c \in ToSet(calls)}
Owed(g, p, calls) ==
  {e \in Steps(g, p) : \E c \in ToSet(calls) : e[1] = c.node /\ \E k \in ToSet(c.links) : e[2] = g.links[k].target}

\* The order of the numbers on the stack and along the calls; who calls whom.
Rises(index) == {q \in (DOMAIN index) \X (DOMAIN index) : index[q[1]] < index[q[2]]}
Falls(g, p, index) ==
  {q \in CallSet(g, p) \X CallSet(g, p) : /\ {q[1].node, q[2].node} \subseteq DOMAIN index
                                          /\ index[q[2].node] < index[q[1].node]}
Callers(g, p) == {q \in CallSet(g, p) \X CallSet(g, p) : <<q[2].node, q[1].node>> \in Steps(g, p)}
Apart(g, p) == {q \in (SUBSET Kept(g, p)) \X (SUBSET Kept(g, p)) : q[1] # q[2]}

\* The parts of the state.
ConnectForm(g, p, s) ==
  /\ s = [index |-> s.index, low |-> s.low, stack |-> s.stack, components |-> s.components, calls |-> s.calls]
  /\ s.stack \in Seq(Kept(g, p)) /\ s.calls \in Seq(CallSet(g, p)) /\ s.components \in Seq(SUBSET Kept(g, p))
  /\ \A c \in ToSet(s.calls) : ToSet(c.links) \subseteq LinksOut(g, p, c.node)

ConnectOrders(g, p, s) ==
  /\ Pairwise(s.stack, Rises(s.index))
  /\ Pairwise(s.calls, Falls(g, p, s.index)) /\ Linked(s.calls, Callers(g, p))
  /\ \A v \in DOMAIN s.index : s.index[v] < Cardinality(DOMAIN s.index)

ConnectFound(g, p, s) ==
  /\ Pairwise(s.components, Apart(g, p))
  /\ ToSet(s.components) = {MutualOf(g, p, n) : n \in DOMAIN s.index \ ToSet(s.stack)}

ConnectOwes(g, p, s, owed) ==
  /\ ConnectForm(g, p, s) /\ ConnectOrders(g, p, s) /\ ConnectFound(g, p, s)
  /\ TarjanState(g, p, s.index, s.low, ToSet(s.stack), Calling(s.calls), owed)

\* The state of the search for the strongly connected components.
ConnectOk(g, p, s) == ConnectOwes(g, p, s, Owed(g, p, s.calls))

\* A list that is in one order is in a wider one.
LEMMA PairwiseWider ==
  ASSUME NEW list, NEW R, NEW S, Pairwise(list, R), R \subseteq S
  PROVE  Pairwise(list, S)
BY DEF Pairwise

\* The search begins with nothing.
LEMMA ConnectBegins ==
  ASSUME NEW g, NEW p
  PROVE  ConnectOk(g, p, ConnectStart)
<1> DEFINE s == ConnectStart
           none == <<>>
<1>1. /\ s = [index |-> none, low |-> none, stack |-> none, components |-> none, calls |-> none]
      /\ DOMAIN none = {} /\ none \in Seq(Kept(g, p)) /\ none \in Seq(CallSet(g, p))
      /\ none \in Seq(SUBSET Kept(g, p))
      /\ ToSet(none) = {} /\ \A R : Pairwise(none, R)
  BY NothingHeld DEF ConnectStart
<1>2. \A R : Linked(none, R)
  BY DEF Linked
<1>3. /\ s.index = none /\ s.low = none /\ s.stack = none /\ s.components = none /\ s.calls = none
  BY DEF ConnectStart
<1> HIDE DEF s, none
<1>4. ConnectForm(g, p, s)
  BY <1>1, <1>3 DEF ConnectForm
<1>5. ConnectOrders(g, p, s)
  BY <1>1, <1>2, <1>3 DEF ConnectOrders
<1>6. ConnectFound(g, p, s)
  BY <1>1, <1>3 DEF ConnectFound
<1>7. TarjanState(g, p, s.index, s.low, ToSet(s.stack), Calling(s.calls), Owed(g, p, s.calls))
  <2>1. Calling(s.calls) = {}
    BY <1>1, <1>3 DEF Calling
  <2> DEFINE O == Owed(g, p, s.calls)
  <2> HIDE DEF O
  <2>2. Numbers(g, p, none, none, {}, {})
    BY <1>1 DEF Numbers
  <2>3. Lows(g, p, none, none, {}, {})
    BY <1>1 DEF Lows, IsClosed
  <2>4. Accounted(g, p, none, none, {}, {}, O)
    BY <1>1 DEF Accounted
  <2> QED
    BY <1>1, <1>3, <2>1, <2>2, <2>3, <2>4 DEF TarjanState, O
<1> QED
  BY <1>4, <1>5, <1>6, <1>7 DEF ConnectOk, ConnectOwes, s

\* The innermost call, its component's number, and the calls without it.
LEMMA InnermostCall ==
  ASSUME NEW g, NEW p, NEW s, NEW owed, ConnectOwes(g, p, s, owed), s.calls # <<>>
  PROVE  LET h    == Head(s.calls)
             rest == Tail(s.calls)
         IN  /\ h \in CallSet(g, p) /\ h \in ToSet(s.calls) /\ rest \in Seq(CallSet(g, p))
             /\ ToSet(s.calls) = {h} \cup ToSet(rest)
             /\ IsTop(s.index, Calling(s.calls), h.node)
             /\ Calling(rest) = Calling(s.calls) \ {h.node}
             /\ Pairwise(rest, Falls(g, p, s.index)) /\ Linked(rest, Callers(g, p))
             /\ \A c \in ToSet(rest) : s.index[c.node] < s.index[h.node]
             /\ rest # <<>> => /\ IsTop(s.index, Calling(rest), Head(rest).node)
                               /\ <<Head(rest).node, h.node>> \in Steps(g, p)
                               /\ s.calls[2] = Head(rest)
<1> DEFINE h == Head(s.calls)
           rest == Tail(s.calls)
           T == CallSet(g, p)
           Fall == Falls(g, p, s.index)
           index == s.index
<1>1. /\ s.calls \in Seq(T) /\ Pairwise(s.calls, Fall) /\ Linked(s.calls, Callers(g, p))
      /\ Numbers(g, p, s.index, s.low, ToSet(s.stack), Calling(s.calls))
  BY DEF ConnectOwes, ConnectForm, ConnectOrders, TarjanState
<1> HIDE DEF Fall, T
<1>2. /\ rest \in Seq(T) /\ h \in T /\ ToSet(s.calls) = {h} \cup ToSet(rest)
      /\ Pairwise(rest, Fall) /\ \A x \in ToSet(rest) : <<h, x>> \in Fall
  BY <1>1, TailHolds
<1>3. Linked(rest, Callers(g, p)) /\ (rest # <<>> => <<h, Head(rest)>> \in Callers(g, p))
  BY <1>1, LinkedTail
<1>4. rest # <<>> => /\ Head(rest) \in ToSet(rest) /\ s.calls[2] = Head(rest)
                     /\ \A x \in ToSet(rest) : x = Head(rest) \/ <<Head(rest), x>> \in Fall
  <2> SUFFICES ASSUME rest # <<>>
               PROVE  /\ Head(rest) \in ToSet(rest) /\ s.calls[2] = Head(rest)
                      /\ \A x \in ToSet(rest) : x = Head(rest) \/ <<Head(rest), x>> \in Fall
    OBVIOUS
  <2>1. ToSet(rest) = {Head(rest)} \cup ToSet(Tail(rest))
        /\ \A x \in ToSet(Tail(rest)) : <<Head(rest), x>> \in Fall
    <3> HIDE DEF rest
    <3> QED
      BY <1>2, TailHolds
  <2>2. s.calls[2] = Head(rest)
    <3>1. rest # <<>> /\ rest = Tail(s.calls)
      OBVIOUS
    <3> HIDE DEF rest
    <3> QED
      BY <1>1, <1>2, <3>1
  <2> QED
    BY <2>1, <2>2
<1> HIDE DEF rest, h
<1>5. \A a, b : <<a, b>> \in Fall => a \in T /\ b \in T /\ index[b.node] < index[a.node]
  BY DEF Fall, Falls, T
<1>6. \A x \in ToSet(rest) : x \in T /\ index[x.node] < index[h.node]
  BY <1>2, <1>5
<1>7. \A x \in ToSet(s.calls) : x.node \in Calling(s.calls) /\ index[x.node] \in Nat
  BY <1>1 DEF Calling, Numbers
<1>8. Calling(s.calls) = {h.node} \cup Calling(rest)
  BY <1>2 DEF Calling
<1>9. h.node \notin Calling(rest)
  <2> SUFFICES ASSUME NEW x \in ToSet(rest), x.node = h.node PROVE FALSE
    BY DEF Calling
  <2>1. index[x.node] < index[h.node] /\ index[h.node] \in Nat
    BY <1>2, <1>6, <1>7
  <2> QED
    BY <2>1
<1>10. \A x \in ToSet(rest) : index[x.node] <= index[h.node]
  BY <1>2, <1>6, <1>7
<1>11. IsTop(index, Calling(s.calls), h.node)
  <2>1. index[h.node] <= index[h.node]
    BY <1>2, <1>7
  <2>2. \A c \in Calling(rest) : index[c] <= index[h.node]
    BY <1>10 DEF Calling
  <2> QED
    BY <1>8, <2>1, <2>2 DEF IsTop
<1>12. ASSUME rest # <<>>
       PROVE  IsTop(index, Calling(rest), Head(rest).node) /\ <<Head(rest).node, h.node>> \in Steps(g, p)
  <2>1. Head(rest).node \in Calling(rest)
    BY <1>4, <1>12 DEF Calling
  <2>2. ASSUME NEW x \in ToSet(rest) PROVE index[x.node] <= index[Head(rest).node]
    <3>1. index[x.node] \in Nat /\ index[Head(rest).node] \in Nat
      BY <1>2, <1>4, <1>7, <1>12
    <3>2. x = Head(rest) \/ index[x.node] < index[Head(rest).node]
      BY <1>4, <1>5, <1>12
    <3> QED
      BY <3>1, <3>2
  <2>3. \A c \in Calling(rest) : index[c] <= index[Head(rest).node]
    BY <2>2 DEF Calling
  <2>4. <<h, Head(rest)>> \in Callers(g, p)
    BY <1>3, <1>12
  <2> QED
    BY <2>1, <2>3, <2>4 DEF IsTop, Callers
<1> QED
  BY <1>2, <1>3, <1>4, <1>6, <1>8, <1>9, <1>11, <1>12 DEF rest, h, Fall, T

\* What a call changes in the state when it begins.
LEMMA ConnectIsRecord ==
  ASSUME NEW g, NEW p, NEW s, ConnectForm(g, p, s), NEW n
  PROVE  LET after == Connect(g, p, s, n)
             i     == Cardinality(DOMAIN s.index)
         IN  /\ after.index = Numbered(s.index, n, i) /\ after.low = Numbered(s.low, n, i)
             /\ after.stack = Append(s.stack, n) /\ after.components = s.components
             /\ after.calls = <<[node |-> n, links |-> InOrder(g, p, LinksOut(g, p, n))]>> \o s.calls
             /\ after = [index |-> after.index, low |-> after.low, stack |-> after.stack,
                         components |-> after.components, calls |-> after.calls]
<1> DEFINE after == Connect(g, p, s, n)
           i == Cardinality(DOMAIN s.index)
           A == s.index
           B == s.low
           D == s.stack
           E == s.components
           F == s.calls
           A2 == Numbered(A, n, i)
           B2 == Numbered(B, n, i)
           D2 == Append(D, n)
           F2 == <<[node |-> n, links |-> InOrder(g, p, LinksOut(g, p, n))]>> \o F
<1>1. s = [index |-> A, low |-> B, stack |-> D, components |-> E, calls |-> F]
  BY DEF ConnectForm
<1>2. after = [s EXCEPT !.index = A2, !.low = B2, !.stack = D2, !.calls = F2]
  BY DEF Connect
<1> HIDE DEF after, A, B, D, E, F, A2, B2, D2, F2
<1>3. after = [index |-> A2, low |-> B2, stack |-> D2, components |-> E, calls |-> F2]
  BY <1>1, <1>2
<1>4. after.index = A2 /\ after.low = B2 /\ after.stack = D2 /\ after.components = E /\ after.calls = F2
  BY <1>3
<1> QED
  BY <1>3, <1>4 DEF after, A, B, D, E, F, A2, B2, D2, F2

\* A new call has all the links of its component to look at.
LEMMA NewCall ==
  ASSUME NEW g, NEW p, IsGraph(g, p), NEW n \in Kept(g, p)
  PROVE  LET new == [node |-> n, links |-> InOrder(g, p, LinksOut(g, p, n))]
         IN  new \in CallSet(g, p) /\ new.node = n /\ ToSet(new.links) = LinksOut(g, p, n)
<1> DEFINE out == LinksOut(g, p, n)
           list == InOrder(g, p, out)
           new == [node |-> n, links |-> list]
<1>1. out \in SUBSET (DOMAIN g.links)
  BY DEF LinksOut
<1> HIDE DEF out
<1>2. IsListing(list, out)
  BY <1>1, InOrderLists
<1> HIDE DEF list
<1>3. list \in Seq(out) /\ \A x \in out : \E i \in 1 .. Len(list) : list[i] = x
  BY <1>2 DEF IsListing
<1>4. ToSet(list) = out
  <2>1. ToSet(list) = {list[i] : i \in 1 .. Len(list)} /\ ToSet(list) \subseteq out
    BY <1>3, ElementsOf
  <2> QED
    BY <1>3, <2>1
<1>5. list \in Seq(DOMAIN g.links)
  BY <1>1, <1>3
<1>6. new.node = n /\ new.links = list /\ new \in CallSet(g, p)
  BY <1>5 DEF CallSet
<1> QED
  BY <1>4, <1>6 DEF out, list

\* A call begins.
LEMMA ConnectKeeps ==
  ASSUME NEW g, NEW p, IsGraph(g, p), NEW s, NEW owed, ConnectOwes(g, p, s, owed),
         NEW n \in Kept(g, p), n \notin DOMAIN s.index,
         s.calls = <<>> \/ <<Head(s.calls).node, n>> \in Steps(g, p),
         \A e \in owed : e \in Owed(g, p, s.calls) \/ e[2] = n
  PROVE  ConnectOk(g, p, Connect(g, p, s, n))
<1> DEFINE after == Connect(g, p, s, n)
           N == DOMAIN s.index
           i == Cardinality(N)
           new == [node |-> n, links |-> InOrder(g, p, LinksOut(g, p, n))]
           T == CallSet(g, p)
           K == Kept(g, p)
<1>1. /\ ConnectForm(g, p, s) /\ ConnectOrders(g, p, s) /\ ConnectFound(g, p, s)
      /\ TarjanState(g, p, s.index, s.low, ToSet(s.stack), Calling(s.calls), owed)
  BY DEF ConnectOwes
<1>2. /\ s.stack \in Seq(K) /\ s.calls \in Seq(T) /\ s.components \in Seq(SUBSET K)
      /\ \A c \in ToSet(s.calls) : ToSet(c.links) \subseteq LinksOut(g, p, c.node)
  BY <1>1 DEF ConnectForm
<1>3. /\ Pairwise(s.stack, Rises(s.index))
      /\ Pairwise(s.calls, Falls(g, p, s.index)) /\ Linked(s.calls, Callers(g, p))
      /\ \A v \in N : s.index[v] < i
  BY <1>1 DEF ConnectOrders
<1>4. /\ N \subseteq K /\ DOMAIN s.low = N /\ \A v \in N : s.index[v] \in Nat
      /\ Calling(s.calls) \subseteq ToSet(s.stack) /\ ToSet(s.stack) \subseteq N
  BY <1>1 DEF TarjanState, Numbers
<1>5. i \in Nat /\ Cardinality(N \cup {n}) = i + 1
  <2>1. IsFiniteSet(Nodes(g)) /\ K \subseteq Nodes(g)
    BY DEF IsGraph, Kept
  <2>2. IsFiniteSet(N)
    <3> HIDE DEF N, K
    <3> QED
      BY <1>4, <2>1, FS_Subset
  <2> QED
    BY <2>2, FS_CardinalityType, FS_AddElement
<1>6. /\ after.index = Numbered(s.index, n, i) /\ after.low = Numbered(s.low, n, i)
      /\ after.stack = Append(s.stack, n) /\ after.components = s.components
      /\ after.calls = <<new>> \o s.calls
      /\ after = [index |-> after.index, low |-> after.low, stack |-> after.stack,
                  components |-> after.components, calls |-> after.calls]
  BY <1>1, ConnectIsRecord
<1>7. new \in T /\ new.node = n /\ ToSet(new.links) = LinksOut(g, p, n)
  BY NewCall
<1>8. n \notin N /\ n \in K
  OBVIOUS
<1>9. \A e \in owed : e \in Owed(g, p, s.calls) \/ e[2] = n
  OBVIOUS
<1>10. s.calls = <<>> \/ <<Head(s.calls).node, n>> \in Steps(g, p)
  OBVIOUS
<1> HIDE DEF after, new, i
<1>11. /\ DOMAIN after.index = N \cup {n} /\ after.index[n] = i
       /\ \A v \in N : after.index[v] = s.index[v]
  BY <1>6, <1>8 DEF Numbered
<1> HIDE DEF N, T, K
<1>12. after.stack \in Seq(K) /\ ToSet(after.stack) = ToSet(s.stack) \cup {n}
  BY <1>2, <1>6, <1>8, AppendHolds
<1>13. /\ after.calls \in Seq(T) /\ ToSet(after.calls) = {new} \cup ToSet(s.calls)
       /\ \A R : Pairwise(s.calls, R) /\ (\A y \in ToSet(s.calls) : <<new, y>> \in R) => Pairwise(after.calls, R)
       /\ \A R : Linked(s.calls, R) /\ (s.calls # <<>> => <<new, Head(s.calls)>> \in R) => Linked(after.calls, R)
  <2> DEFINE calls == s.calls
             more == <<new>> \o calls
  <2>1. calls \in Seq(T) /\ after.calls = more
    BY <1>2, <1>6
  <2> HIDE DEF calls
  <2>2. /\ more \in Seq(T) /\ ToSet(more) = {new} \cup ToSet(calls)
        /\ \A R : Pairwise(calls, R) /\ (\A y \in ToSet(calls) : <<new, y>> \in R) => Pairwise(more, R)
        /\ \A R : Linked(calls, R) /\ (calls # <<>> => <<new, Head(calls)>> \in R) => Linked(more, R)
    BY <1>7, <2>1, PrependHolds
  <2> QED
    BY <2>1, <2>2 DEF calls
<1>14. ConnectForm(g, p, after)
  <2>1. \A c \in ToSet(after.calls) : ToSet(c.links) \subseteq LinksOut(g, p, c.node)
    BY <1>2, <1>7, <1>13
  <2> QED
    BY <1>2, <1>6, <1>12, <1>13, <2>1 DEF ConnectForm, T, K
<1>15. ConnectOrders(g, p, after)
  <2>1. Rises(s.index) \subseteq Rises(after.index)
    BY <1>11 DEF Rises, N
  <2>2. \A v \in ToSet(s.stack) : <<v, n>> \in Rises(after.index)
    <3> SUFFICES ASSUME NEW v \in ToSet(s.stack) PROVE <<v, n>> \in Rises(after.index)
      OBVIOUS
    <3>1. v \in N /\ s.index[v] < i
      BY <1>3, <1>4
    <3> QED
      BY <1>11, <3>1 DEF Rises
  <2>3. Pairwise(after.stack, Rises(after.index))
    <3>1. Pairwise(s.stack, Rises(after.index))
      BY <1>3, <2>1, PairwiseWider
    <3> QED
      BY <1>2, <1>6, <1>8, <2>2, <3>1, AppendHolds
  <2>4. Falls(g, p, s.index) \subseteq Falls(g, p, after.index)
    <3> SUFFICES ASSUME NEW q \in Falls(g, p, s.index) PROVE q \in Falls(g, p, after.index)
      OBVIOUS
    <3>1. /\ q \in CallSet(g, p) \X CallSet(g, p) /\ q[1].node \in N /\ q[2].node \in N
          /\ s.index[q[2].node] < s.index[q[1].node]
      BY DEF Falls, N
    <3> QED
      BY <1>11, <3>1 DEF Falls
  <2>5. \A c \in ToSet(s.calls) : <<new, c>> \in Falls(g, p, after.index)
    <3> SUFFICES ASSUME NEW c \in ToSet(s.calls) PROVE <<new, c>> \in Falls(g, p, after.index)
      OBVIOUS
    <3>1. c \in T /\ c.node \in N /\ s.index[c.node] < i
      BY <1>2, <1>3, <1>4, ElementsOf DEF Calling
    <3> DEFINE q == <<new, c>>
    <3>2. q[1] = new /\ q[2] = c /\ q \in CallSet(g, p) \X CallSet(g, p)
      BY <1>7, <3>1 DEF T
    <3> HIDE DEF q
    <3>3. q \in Falls(g, p, after.index)
      BY <1>7, <1>11, <3>1, <3>2 DEF Falls
    <3> QED
      BY <3>3 DEF q
  <2>6. Pairwise(after.calls, Falls(g, p, after.index))
    <3>1. Pairwise(s.calls, Falls(g, p, after.index))
      BY <1>3, <2>4, PairwiseWider
    <3> QED
      BY <1>13, <2>5, <3>1
  <2>7. Linked(after.calls, Callers(g, p))
    <3>1. ASSUME s.calls # <<>> PROVE <<new, Head(s.calls)>> \in Callers(g, p)
      <4>1. Head(s.calls) \in T /\ <<Head(s.calls).node, n>> \in Steps(g, p)
        BY <1>2, <1>10, <3>1, TailHolds
      <4> DEFINE q == <<new, Head(s.calls)>>
      <4>2. q[1] = new /\ q[2] = Head(s.calls) /\ q \in CallSet(g, p) \X CallSet(g, p)
        BY <1>7, <4>1 DEF T
      <4> HIDE DEF q
      <4>3. q \in Callers(g, p)
        BY <1>7, <4>1, <4>2 DEF Callers
      <4> QED
        BY <4>3 DEF q
    <3> QED
      BY <1>3, <1>13, <3>1
  <2>8. \A v \in DOMAIN after.index : after.index[v] < Cardinality(DOMAIN after.index)
    <3>1. \A v \in N \cup {n} : after.index[v] \in Nat /\ after.index[v] <= i
      BY <1>3, <1>4, <1>5, <1>11
    <3> QED
      BY <1>5, <1>11, <3>1
  <2> QED
    BY <2>3, <2>6, <2>7, <2>8 DEF ConnectOrders
<1>16. ConnectFound(g, p, after)
  <2>1. DOMAIN after.index \ ToSet(after.stack) = N \ ToSet(s.stack)
    BY <1>8, <1>11, <1>12
  <2> QED
    BY <1>1, <1>6, <2>1 DEF ConnectFound, N
<1>17. TarjanState(g, p, after.index, after.low, ToSet(after.stack), Calling(after.calls), Owed(g, p, after.calls))
  <2> DEFINE still == Owed(g, p, after.calls)
  <2>1. Calling(after.calls) = Calling(s.calls) \cup {n}
    BY <1>7, <1>13 DEF Calling
  <2>2. \A t : <<n, t>> \in Steps(g, p) => <<n, t>> \in still
    <3> SUFFICES ASSUME NEW t, <<n, t>> \in Steps(g, p) PROVE <<n, t>> \in still
      OBVIOUS
    <3>1. t \in Onward(Steps(g, p), {n}) /\ ~Pruned(g, p, n)
      BY <1>8, StepIsPair DEF K, Kept
    <3>2. PICK k \in LinksOut(g, p, n) : t = g.links[k].target
      BY <3>1, StepsOfNode
    <3> DEFINE e == <<n, t>>
    <3>3. e[1] = n /\ e[2] = t /\ e \in Steps(g, p)
      OBVIOUS
    <3> HIDE DEF e
    <3>4. e \in still
      BY <1>7, <1>13, <3>2, <3>3 DEF Owed
    <3> QED
      BY <3>4 DEF e
  <2>3. Owed(g, p, s.calls) \subseteq still
    BY <1>13 DEF Owed
  <2>4. \A e \in owed : e \in still \/ e[2] = n
    BY <1>9, <2>3
  <2> HIDE DEF still
  <2>5. Calling(s.calls) = {} \/ \E h : IsTop(s.index, Calling(s.calls), h) /\ <<h, n>> \in Steps(g, p)
    <3>1. CASE s.calls = <<>>
      BY <3>1, NothingHeld DEF Calling
    <3>2. CASE s.calls # <<>>
      <4>1. IsTop(s.index, Calling(s.calls), Head(s.calls).node)
        BY <3>2, InnermostCall
      <4> QED
        BY <1>10, <3>2, <4>1
    <3> QED
      BY <3>1, <3>2
  <2>6. TarjanState(g, p, Numbered(s.index, n, i), Numbered(s.low, n, i), ToSet(s.stack) \cup {n},
                    Calling(s.calls) \cup {n}, still)
    <3>1. n \in Kept(g, p) /\ n \notin DOMAIN s.index /\ \A v \in DOMAIN s.index : s.index[v] < i
      BY <1>3, <1>8 DEF N, K
    <3> QED
      BY <1>1, <1>5, <2>2, <2>4, <2>5, <3>1, CallBegins
  <2> QED
    BY <1>6, <1>12, <2>1, <2>6 DEF still
<1> QED
  BY <1>14, <1>15, <1>16, <1>17 DEF ConnectOk, ConnectOwes, after

\* A lowered number changes nothing else.
LEMMA LoweredKeeps ==
  ASSUME NEW g, NEW p, NEW s, ConnectForm(g, p, s), ConnectOrders(g, p, s), ConnectFound(g, p, s),
         NEW n, NEW to
  PROVE  LET after == Lowered(s, n, to)
         IN  /\ after.low = [s.low EXCEPT ![n] = Min({s.low[n], to})]
             /\ after.index = s.index /\ after.stack = s.stack /\ after.calls = s.calls
             /\ ConnectForm(g, p, after) /\ ConnectOrders(g, p, after) /\ ConnectFound(g, p, after)
<1> DEFINE after == Lowered(s, n, to)
           A == s.index
           B == s.low
           D == s.stack
           E == s.components
           F == s.calls
           B2 == [B EXCEPT ![n] = Min({B[n], to})]
<1>1. s = [index |-> A, low |-> B, stack |-> D, components |-> E, calls |-> F]
  BY DEF ConnectForm
<1>2. after = [s EXCEPT !.low = B2]
  BY DEF Lowered
<1> HIDE DEF after, A, B, D, E, F, B2
<1>3. after = [index |-> A, low |-> B2, stack |-> D, components |-> E, calls |-> F]
  BY <1>1, <1>2
<1>4. after.index = A /\ after.low = B2 /\ after.stack = D /\ after.components = E /\ after.calls = F
  BY <1>3
<1>5. A = s.index /\ B = s.low /\ D = s.stack /\ E = s.components /\ F = s.calls
  BY DEF A, B, D, E, F
<1>6. after = [index |-> after.index, low |-> after.low, stack |-> after.stack,
               components |-> after.components, calls |-> after.calls]
  BY <1>3, <1>4
<1>7. ConnectForm(g, p, after)
  BY <1>4, <1>5, <1>6 DEF ConnectForm
<1>8. ConnectOrders(g, p, after) /\ ConnectFound(g, p, after)
  BY <1>4, <1>5 DEF ConnectOrders, ConnectFound
<1> QED
  BY <1>4, <1>5, <1>7, <1>8 DEF after, B2

\* The state when the innermost call has taken its next link.
LinkTaken(s) == [s EXCEPT !.calls = <<[Head(s.calls) EXCEPT !.links = Tail(@)]>> \o Tail(@)]

\* What taking a link changes: one step is owed no more.
LEMMA TakingALink ==
  ASSUME NEW g, NEW p, IsGraph(g, p), NEW s, ConnectOk(g, p, s), s.calls # <<>>, Head(s.calls).links # <<>>
  PROVE  LET taken == LinkTaken(s)
             h     == Head(s.calls).node
             k     == Head(Head(s.calls).links)
         IN  /\ ConnectOwes(g, p, taken, Owed(g, p, s.calls))
             /\ taken.index = s.index /\ taken.low = s.low /\ taken.stack = s.stack
             /\ Calling(taken.calls) = Calling(s.calls)
             /\ taken.calls # <<>> /\ Head(taken.calls).node = h
             /\ \A e \in Owed(g, p, s.calls) : e \in Owed(g, p, taken.calls) \/ e = <<h, g.links[k].target>>
             /\ k \in LinksOut(g, p, h) /\ h \in Kept(g, p)
<1> DEFINE taken == LinkTaken(s)
           call == Head(s.calls)
           left == [node |-> call.node, links |-> Tail(call.links)]
           rest == Tail(s.calls)
           calls2 == <<left>> \o rest
           T == CallSet(g, p)
           k == Head(call.links)
           A == s.index
           B == s.low
           D == s.stack
           E == s.components
           F == s.calls
<1>1. /\ ConnectForm(g, p, s) /\ ConnectOrders(g, p, s) /\ ConnectFound(g, p, s)
      /\ TarjanState(g, p, s.index, s.low, ToSet(s.stack), Calling(s.calls), Owed(g, p, s.calls))
      /\ ConnectOwes(g, p, s, Owed(g, p, s.calls))
  BY DEF ConnectOk, ConnectOwes
<1>2. /\ s.stack \in Seq(Kept(g, p)) /\ s.calls \in Seq(T) /\ s.components \in Seq(SUBSET Kept(g, p))
      /\ \A c \in ToSet(s.calls) : ToSet(c.links) \subseteq LinksOut(g, p, c.node)
      /\ s = [index |-> A, low |-> B, stack |-> D, components |-> E, calls |-> F]
  BY <1>1 DEF ConnectForm
<1>3. /\ Pairwise(s.calls, Falls(g, p, s.index)) /\ Linked(s.calls, Callers(g, p))
  BY <1>1 DEF ConnectOrders
<1>4. /\ call \in T /\ call \in ToSet(s.calls) /\ rest \in Seq(T)
      /\ ToSet(s.calls) = {call} \cup ToSet(rest)
      /\ Pairwise(rest, Falls(g, p, s.index)) /\ Linked(rest, Callers(g, p))
      /\ rest # <<>> => <<Head(rest).node, call.node>> \in Steps(g, p)
  BY <1>1, InnermostCall
<1>5. /\ call.node \in Kept(g, p) /\ call.links \in Seq(DOMAIN g.links)
      /\ call = [node |-> call.node, links |-> call.links]
  BY <1>4 DEF CallSet, T
<1>6. /\ Tail(call.links) \in Seq(DOMAIN g.links)
      /\ ToSet(call.links) = {k} \cup ToSet(Tail(call.links))
  <2> DEFINE links == call.links
  <2>1. links \in Seq(DOMAIN g.links) /\ links # <<>>
    BY <1>5
  <2> HIDE DEF links
  <2>2. Tail(links) \in Seq(DOMAIN g.links) /\ ToSet(links) = {Head(links)} \cup ToSet(Tail(links))
    BY <2>1, TailHolds
  <2> QED
    BY <2>2 DEF links
<1>7. left \in T /\ left.node = call.node /\ left.links = Tail(call.links)
  BY <1>5, <1>6 DEF CallSet
<1>8. [call EXCEPT !.links = Tail(@)] = left
  <2> DEFINE a == call.node
             b == call.links
             b2 == Tail(b)
  <2>1. call = [node |-> a, links |-> b]
    BY <1>5
  <2>2. [call EXCEPT !.links = Tail(@)] = [call EXCEPT !.links = b2] /\ left = [node |-> a, links |-> b2]
    OBVIOUS
  <2> HIDE DEF call, left, a, b, b2
  <2>3. [call EXCEPT !.links = b2] = [node |-> a, links |-> b2]
    BY <2>1
  <2> QED
    BY <2>2, <2>3
<1>9. taken = [s EXCEPT !.calls = calls2]
  <2>1. taken = [s EXCEPT !.calls = <<[call EXCEPT !.links = Tail(@)]>> \o Tail(s.calls)]
    BY DEF LinkTaken
  <2> QED
    BY <1>8, <2>1
<1> HIDE DEF taken, call, left, rest, T, k
<1>10. /\ calls2 \in Seq(T) /\ calls2 # <<>> /\ Head(calls2) = left /\ ToSet(calls2) = {left} \cup ToSet(rest)
       /\ \A R : Pairwise(rest, R) /\ (\A y \in ToSet(rest) : <<left, y>> \in R) => Pairwise(calls2, R)
       /\ \A R : Linked(rest, R) /\ (rest # <<>> => <<left, Head(rest)>> \in R) => Linked(calls2, R)
  BY <1>4, <1>7, PrependHolds
<1> HIDE DEF calls2, A, B, D, E, F
<1>11. taken = [index |-> A, low |-> B, stack |-> D, components |-> E, calls |-> calls2]
  BY <1>2, <1>9
<1>12. taken.index = A /\ taken.low = B /\ taken.stack = D /\ taken.components = E /\ taken.calls = calls2
  BY <1>11
<1>13. A = s.index /\ B = s.low /\ D = s.stack /\ E = s.components
  BY DEF A, B, D, E
<1>14. Calling(calls2) = Calling(s.calls)
  BY <1>4, <1>7, <1>10 DEF Calling
<1>15. k \in LinksOut(g, p, call.node) /\ ToSet(left.links) \subseteq LinksOut(g, p, left.node)
  BY <1>2, <1>4, <1>6, <1>7
<1>16. ConnectForm(g, p, taken)
  <2>1. \A c \in ToSet(calls2) : ToSet(c.links) \subseteq LinksOut(g, p, c.node)
    BY <1>2, <1>4, <1>10, <1>15
  <2>2. taken = [index |-> taken.index, low |-> taken.low, stack |-> taken.stack,
                 components |-> taken.components, calls |-> taken.calls]
    BY <1>11, <1>12
  <2> QED
    BY <1>2, <1>10, <1>12, <1>13, <2>1, <2>2 DEF ConnectForm, T
<1>17. ConnectOrders(g, p, taken)
  <2>1. \A c \in ToSet(rest) : <<left, c>> \in Falls(g, p, s.index)
    <3> SUFFICES ASSUME NEW c \in ToSet(rest) PROVE <<left, c>> \in Falls(g, p, s.index)
      OBVIOUS
    <3>1. /\ {call.node, c.node} \subseteq Calling(s.calls) /\ s.index[c.node] < s.index[call.node]
          /\ c \in T
      BY <1>1, <1>4, InnermostCall, ElementsOf DEF Calling, call, rest
    <3>2. Calling(s.calls) \subseteq DOMAIN s.index
      BY <1>1 DEF TarjanState, Numbers
    <3> DEFINE q == <<left, c>>
    <3>3. q[1] = left /\ q[2] = c /\ q \in CallSet(g, p) \X CallSet(g, p)
      BY <1>7, <3>1 DEF T
    <3> HIDE DEF q
    <3>4. q \in Falls(g, p, s.index)
      BY <1>7, <3>1, <3>2, <3>3 DEF Falls
    <3> QED
      BY <3>4 DEF q
  <2>2. Pairwise(calls2, Falls(g, p, s.index))
    BY <1>4, <1>10, <2>1
  <2>3. rest # <<>> => <<left, Head(rest)>> \in Callers(g, p)
    <3> SUFFICES ASSUME rest # <<>> PROVE <<left, Head(rest)>> \in Callers(g, p)
      OBVIOUS
    <3>1. Head(rest) \in T
      BY <1>4, TailHolds
    <3> DEFINE q == <<left, Head(rest)>>
    <3>2. q[1] = left /\ q[2] = Head(rest) /\ q \in CallSet(g, p) \X CallSet(g, p)
      BY <1>7, <3>1 DEF T
    <3> HIDE DEF q
    <3>3. q \in Callers(g, p)
      BY <1>4, <1>7, <3>2 DEF Callers
    <3> QED
      BY <3>3 DEF q
  <2>4. Linked(calls2, Callers(g, p))
    BY <1>4, <1>10, <2>3
  <2> QED
    BY <1>1, <1>12, <1>13, <2>2, <2>4 DEF ConnectOrders
<1>18. ConnectFound(g, p, taken)
  BY <1>1, <1>12, <1>13 DEF ConnectFound
<1>19. ConnectOwes(g, p, taken, Owed(g, p, s.calls))
  BY <1>1, <1>12, <1>13, <1>14, <1>16, <1>17, <1>18 DEF ConnectOwes
<1>20. ASSUME NEW e \in Owed(g, p, s.calls), e \notin Owed(g, p, calls2)
       PROVE  e = <<call.node, g.links[k].target>>
  <2>1. e = <<e[1], e[2]>> /\ e \in Steps(g, p)
    BY StepIsPair DEF Owed
  <2>2. PICK c \in ToSet(s.calls) : e[1] = c.node /\ \E j \in ToSet(c.links) : e[2] = g.links[j].target
    BY DEF Owed
  <2>3. c = call
    BY <1>4, <1>10, <1>20, <2>1, <2>2 DEF Owed
  <2>4. PICK j \in ToSet(call.links) : e[2] = g.links[j].target
    BY <2>2, <2>3
  <2>5. j \notin ToSet(left.links)
    BY <1>7, <1>10, <1>20, <2>1, <2>2, <2>3, <2>4 DEF Owed
  <2>6. j = k
    BY <1>6, <1>7, <2>5
  <2> QED
    BY <2>1, <2>2, <2>3, <2>4, <2>6
<1> QED
  BY <1>5, <1>7, <1>10, <1>12, <1>13, <1>14, <1>15, <1>19, <1>20 DEF taken, call, k

\* The innermost call looks at its next link.
LEMMA ConnectFollows ==
  ASSUME NEW g, NEW p, IsGraph(g, p), NEW s, ConnectOk(g, p, s), s.calls # <<>>, Head(s.calls).links # <<>>
  PROVE  ConnectOk(g, p, ConnectLink(g, p, s))
<1> DEFINE taken == LinkTaken(s)
           h == Head(s.calls).node
           k == Head(Head(s.calls).links)
           t == g.links[k].target
           owed == Owed(g, p, s.calls)
           still == Owed(g, p, taken.calls)
<1>1. /\ ConnectOwes(g, p, taken, owed)
      /\ taken.index = s.index /\ taken.low = s.low /\ taken.stack = s.stack
      /\ Calling(taken.calls) = Calling(s.calls)
      /\ taken.calls # <<>> /\ Head(taken.calls).node = h
      /\ \A e \in owed : e \in still \/ e = <<h, t>>
      /\ k \in LinksOut(g, p, h) /\ h \in Kept(g, p)
  BY TakingALink
<1>2. ConnectLink(g, p, s) =
        IF Pruned(g, p, t) THEN taken
        ELSE IF t \notin DOMAIN s.index THEN Connect(g, p, taken, t)
        ELSE IF t \in ToSet(s.stack) THEN Lowered(taken, h, s.index[t])
        ELSE taken
  BY DEF ConnectLink, LinkTaken
<1>3. IsTop(s.index, Calling(s.calls), h)
  BY InnermostCall DEF ConnectOk
<1>4. t \in Nodes(g)
  BY <1>1 DEF LinksOut, Linking
<1>5. ~Pruned(g, p, t) => t \in Kept(g, p) /\ <<h, t>> \in Steps(g, p)
  <2> SUFFICES ASSUME ~Pruned(g, p, t) PROVE t \in Kept(g, p) /\ <<h, t>> \in Steps(g, p)
    OBVIOUS
  <2>1. ~Pruned(g, p, h)
    BY <1>1 DEF Kept
  <2> HIDE DEF h, k
  <2>2. t \in Onward(Steps(g, p), {h})
    BY <1>1, <2>1, StepsOfNode
  <2> QED
    BY <1>4, <2>2, StepIsPair DEF Kept
<1>6. Pruned(g, p, t) => <<h, t>> \notin Steps(g, p)
  BY StepIsPair DEF Kept
<1> HIDE DEF taken, h, k, t, owed, still
<1>7. /\ ConnectForm(g, p, taken) /\ ConnectOrders(g, p, taken) /\ ConnectFound(g, p, taken)
      /\ TarjanState(g, p, s.index, s.low, ToSet(s.stack), Calling(s.calls), owed)
  BY <1>1 DEF ConnectOwes
<1>8. CASE Pruned(g, p, t) \/ (t \in DOMAIN s.index /\ t \notin ToSet(s.stack))
  <2>1. TarjanState(g, p, s.index, s.low, ToSet(s.stack), Calling(s.calls), still)
    BY <1>1, <1>6, <1>7, <1>8, CallSkips
  <2> QED
    BY <1>1, <1>2, <1>7, <1>8, <2>1 DEF ConnectOk, ConnectOwes, still
<1>9. CASE ~Pruned(g, p, t) /\ t \notin DOMAIN s.index
  <2>1. \A e \in owed : e \in Owed(g, p, taken.calls) \/ e[2] = t
    BY <1>1 DEF still
  <2>2. ConnectOk(g, p, Connect(g, p, taken, t))
    BY <1>1, <1>5, <1>9, <2>1, ConnectKeeps
  <2> QED
    BY <1>2, <1>9, <2>2
<1>10. CASE ~Pruned(g, p, t) /\ t \in ToSet(s.stack)
  <2> DEFINE after == Lowered(taken, h, s.index[t])
  <2>1. /\ after.low = [taken.low EXCEPT ![h] = Min({taken.low[h], s.index[t]})]
        /\ after.index = taken.index /\ after.stack = taken.stack /\ after.calls = taken.calls
        /\ ConnectForm(g, p, after) /\ ConnectOrders(g, p, after) /\ ConnectFound(g, p, after)
    BY <1>7, LoweredKeeps
  <2> HIDE DEF after
  <2>2. TarjanState(g, p, s.index, [s.low EXCEPT ![h] = Min({s.low[h], s.index[t]})], ToSet(s.stack),
                    Calling(s.calls), still)
    BY <1>1, <1>3, <1>5, <1>7, <1>10, CallLowers
  <2>3. ConnectOk(g, p, after)
    BY <1>1, <2>1, <2>2 DEF ConnectOk, ConnectOwes, still
  <2>4. t \in DOMAIN s.index
    BY <1>7, <1>10 DEF TarjanState, Numbers
  <2> QED
    BY <1>2, <1>10, <2>3, <2>4 DEF after
<1> QED
  BY <1>8, <1>9, <1>10

\* Components that reach one another have the same strongly connected one.
LEMMA MutualSame ==
  ASSUME NEW g, NEW p, IsGraph(g, p), NEW n, NEW m \in MutualOf(g, p, n)
  PROVE  MutualOf(g, p, m) = MutualOf(g, p, n)
<1>1. /\ \A u, v, w : Reaches(g, p, u, v) /\ Reaches(g, p, v, w) => Reaches(g, p, u, w)
      /\ \A a, b : b \in MutualOf(g, p, a) <=> Reaches(g, p, a, b) /\ Reaches(g, p, b, a)
  BY ReachingGoesOn
<1>2. Reaches(g, p, n, m) /\ Reaches(g, p, m, n)
  BY <1>1
<1>3. ASSUME NEW x PROVE x \in MutualOf(g, p, m) <=> x \in MutualOf(g, p, n)
  BY <1>1, <1>2
<1> QED
  BY <1>3

\* What is said of a search depends on what its low numbers are.
LEMMA LowNumbersAlike ==
  ASSUME NEW g, NEW p, NEW index, NEW low, NEW same, NEW open, NEW calling, NEW owed,
         TarjanState(g, p, index, low, open, calling, owed),
         DOMAIN same = DOMAIN low, \A v \in DOMAIN low : same[v] = low[v]
  PROVE  TarjanState(g, p, index, same, open, calling, owed)
<1>1. /\ Numbers(g, p, index, low, open, calling) /\ Lows(g, p, index, low, open, calling)
      /\ Accounted(g, p, index, low, open, calling, owed)
  BY DEF TarjanState
<1>2. DOMAIN low = DOMAIN index /\ calling \subseteq DOMAIN low
  BY <1>1 DEF Numbers
<1>3. Numbers(g, p, index, same, open, calling)
  BY <1>1, <1>2 DEF Numbers
<1>4. Lows(g, p, index, same, open, calling)
  <2>1. \A c \in calling : same[c] = low[c]
    BY <1>2
  <2> QED
    BY <1>1, <2>1 DEF Lows
<1>5. Accounted(g, p, index, same, open, calling, owed)
  <2>1. \A c \in calling : same[c] = low[c]
    BY <1>2
  <2> QED
    BY <1>1, <2>1 DEF Accounted
<1> QED
  BY <1>3, <1>4, <1>5 DEF TarjanState

\* Where a component is on the stack.
HeightOn(stack, n) == CHOOSE i \in DOMAIN stack : stack[i] = n

\* A stack is cut at one of its components: the part above it has the higher
\* numbers.
LEMMA CutAt ==
  ASSUME NEW K, NEW stack \in Seq(K), NEW index, Pairwise(stack, Rises(index)),
         ToSet(stack) \subseteq DOMAIN index, \A v \in DOMAIN index : index[v] \in Nat,
         NEW n \in ToSet(stack)
  PROVE  LET from  == HeightOn(stack, n)
             above == SubSeq(stack, from, Len(stack))
             below == SubSeq(stack, 1, from - 1)
         IN  /\ ToSet(above) = From(index, ToSet(stack), n)
             /\ below \in Seq(K) /\ Pairwise(below, Rises(index))
             /\ ToSet(below) = ToSet(stack) \ From(index, ToSet(stack), n)
<1> DEFINE from == HeightOn(stack, n)
           len == Len(stack)
           above == SubSeq(stack, from, len)
           below == SubSeq(stack, 1, from - 1)
           upper == From(index, ToSet(stack), n)
<1>1. /\ ToSet(stack) = {stack[i] : i \in 1 .. len} /\ len \in Nat /\ DOMAIN stack = 1 .. len
      /\ ToSet(stack) \subseteq K
  BY ElementsOf
<1>2. from \in 1 .. len /\ stack[from] = n
  BY <1>1 DEF HeightOn
<1> HIDE DEF from, len
<1>3. \A i, j \in 1 .. len : i < j => index[stack[i]] < index[stack[j]]
  BY DEF Pairwise, Rises, len
<1>4. \A i \in 1 .. len : index[stack[i]] \in Nat /\ stack[i] \in ToSet(stack) /\ stack[i] \in K
  BY <1>1
<1>5. \A i \in 1 .. len : stack[i] \in upper <=> from <= i
  <2> SUFFICES ASSUME NEW i \in 1 .. len PROVE index[n] <= index[stack[i]] <=> from <= i
    BY <1>4 DEF From
  <2>1. index[stack[i]] \in Nat /\ index[n] \in Nat /\ i \in Nat /\ from \in Nat
    <3>1. index[stack[i]] \in Nat /\ index[stack[from]] \in Nat
      BY <1>2, <1>4
    <3>2. i \in Nat /\ from \in Nat
      BY <1>1, <1>2
    <3> QED
      BY <1>2, <3>1, <3>2
  <2>2. CASE i < from
    <3>1. index[stack[i]] < index[n]
      BY <1>2, <1>3, <2>2
    <3> QED
      BY <2>1, <2>2, <3>1
  <2>3. CASE from < i
    <3>1. index[n] < index[stack[i]]
      BY <1>2, <1>3, <2>3
    <3> QED
      BY <2>1, <2>3, <3>1
  <2>4. CASE i = from
    BY <1>2, <2>1, <2>4
  <2> QED
    BY <2>1, <2>2, <2>3, <2>4
<1>6. /\ above \in Seq(K) /\ Len(above) = len - from + 1
      /\ \A i \in 1 .. len - from + 1 : above[i] = stack[from + i - 1]
  BY <1>1, <1>2, SubSeqProperties DEF len
<1>7. /\ below \in Seq(K) /\ Len(below) = from - 1
      /\ \A i \in 1 .. from - 1 : below[i] = stack[i]
  <2>1. from - 1 <= len /\ from - 1 \in Nat /\ from - 1 + 1 = from
    BY <1>1, <1>2
  <2> DEFINE last == from - 1
  <2> HIDE DEF last
  <2>2. /\ SubSeq(stack, 1, last) \in Seq(K)
        /\ Len(SubSeq(stack, 1, last)) = (IF 1 <= last THEN last - 1 + 1 ELSE 0)
        /\ \A i \in 1 .. last - 1 + 1 : SubSeq(stack, 1, last)[i] = stack[1 + i - 1]
    <3>1. \A i \in 1 .. last : i \in 1 .. len
      BY <1>1, <1>2, <2>1 DEF last
    <3>2. last \in Nat /\ last <= len
      BY <2>1 DEF last
    <3> QED
      BY <1>1, <3>1, <3>2, SubSeqProperties DEF len
  <2>3. last \in Nat
    BY <2>1 DEF last
  <2>4. Len(SubSeq(stack, 1, last)) = last /\ \A i \in 1 .. last : SubSeq(stack, 1, last)[i] = stack[i]
    BY <2>2, <2>3
  <2> QED
    BY <2>2, <2>4 DEF last
<1> HIDE DEF above, below, upper
<1>8. ToSet(above) = upper
  <2>1. ToSet(above) = {above[i] : i \in 1 .. Len(above)}
    BY <1>6, ElementsOf
  <2>2. ASSUME NEW x \in ToSet(above) PROVE x \in upper
    <3>1. PICK i \in 1 .. len - from + 1 : x = above[i]
      BY <1>6, <2>1
    <3>2. from + i - 1 \in 1 .. len /\ from <= from + i - 1 /\ x = stack[from + i - 1]
      BY <1>1, <1>2, <1>6, <3>1
    <3> QED
      BY <1>5, <3>2
  <2>3. ASSUME NEW x \in upper PROVE x \in ToSet(above)
    <3>1. PICK i \in 1 .. len : x = stack[i]
      BY <1>1 DEF upper, From
    <3>2. from <= i
      BY <1>5, <3>1
    <3> DEFINE j == i - from + 1
    <3>3. j \in 1 .. len - from + 1 /\ from + j - 1 = i
      BY <1>1, <1>2, <3>2
    <3>4. above[j] = x
      BY <1>6, <3>1, <3>3
    <3> QED
      BY <1>6, <2>1, <3>3, <3>4
  <2> QED
    BY <2>2, <2>3
<1>9. ToSet(below) = ToSet(stack) \ upper
  <2>1. ToSet(below) = {below[i] : i \in 1 .. Len(below)}
    BY <1>7, ElementsOf
  <2>2. ASSUME NEW x \in ToSet(below) PROVE x \in ToSet(stack) \ upper
    <3>1. PICK i \in 1 .. from - 1 : x = below[i]
      BY <1>7, <2>1
    <3>2. i \in 1 .. len /\ ~(from <= i) /\ x = stack[i]
      BY <1>1, <1>2, <1>7, <3>1
    <3> QED
      BY <1>4, <1>5, <3>2
  <2>3. ASSUME NEW x \in ToSet(stack) \ upper PROVE x \in ToSet(below)
    <3>1. PICK i \in 1 .. len : x = stack[i]
      BY <1>1
    <3>2. ~(from <= i)
      BY <1>5, <3>1
    <3>3. i \in 1 .. from - 1
      BY <1>1, <1>2, <3>2
    <3> QED
      BY <1>7, <2>1, <3>1, <3>3
  <2> QED
    BY <2>2, <2>3
<1>10. Pairwise(below, Rises(index))
  <2> SUFFICES ASSUME NEW i \in 1 .. from - 1, NEW j \in 1 .. from - 1, i < j
               PROVE  <<below[i], below[j]>> \in Rises(index)
    BY <1>7 DEF Pairwise
  <2>1. i \in 1 .. len /\ j \in 1 .. len
    BY <1>1, <1>2
  <2>2. <<stack[i], stack[j]>> \in Rises(index)
    BY <2>1 DEF Pairwise, len
  <2> QED
    BY <1>7, <2>2
<1> QED
  BY <1>7, <1>8, <1>9, <1>10 DEF above, below, upper, from, len

\* A call is taken from the list of calls.
LEMMA Popped ==
  ASSUME NEW g, NEW p, NEW s, ConnectForm(g, p, s), ConnectOrders(g, p, s), ConnectFound(g, p, s),
         s.calls # <<>>
  PROVE  LET after == [s EXCEPT !.calls = Tail(@)]
         IN  /\ after.index = s.index /\ after.low = s.low /\ after.stack = s.stack
             /\ after.calls = Tail(s.calls)
             /\ ConnectForm(g, p, after) /\ ConnectOrders(g, p, after) /\ ConnectFound(g, p, after)
<1> DEFINE after == [s EXCEPT !.calls = Tail(@)]
           A == s.index
           B == s.low
           D == s.stack
           E == s.components
           F == s.calls
           F2 == Tail(F)
           T == CallSet(g, p)
<1>1. /\ s = [index |-> A, low |-> B, stack |-> D, components |-> E, calls |-> F]
      /\ s.stack \in Seq(Kept(g, p)) /\ s.calls \in Seq(T) /\ s.components \in Seq(SUBSET Kept(g, p))
      /\ \A c \in ToSet(s.calls) : ToSet(c.links) \subseteq LinksOut(g, p, c.node)
  BY DEF ConnectForm
<1>2. Pairwise(s.calls, Falls(g, p, s.index)) /\ Linked(s.calls, Callers(g, p)) /\ s.calls # <<>>
  BY DEF ConnectOrders
<1>3. after = [s EXCEPT !.calls = F2]
  OBVIOUS
<1>4. A = s.index /\ B = s.low /\ D = s.stack /\ E = s.components /\ F = s.calls /\ F2 = Tail(F)
  OBVIOUS
<1> HIDE DEF after, A, B, D, E, F, F2, T
<1>5. after = [index |-> A, low |-> B, stack |-> D, components |-> E, calls |-> F2]
  BY <1>1, <1>3
<1>6. after.index = A /\ after.low = B /\ after.stack = D /\ after.components = E /\ after.calls = F2
  BY <1>5
<1>7. F \in Seq(T) /\ F # <<>> /\ Pairwise(F, Falls(g, p, A)) /\ Linked(F, Callers(g, p))
  BY <1>1, <1>2, <1>4
<1>8. /\ F2 \in Seq(T) /\ ToSet(F) = {Head(F)} \cup ToSet(F2)
      /\ Pairwise(F2, Falls(g, p, A))
  BY <1>4, <1>7, TailHolds
<1>9. Linked(F2, Callers(g, p))
  BY <1>4, <1>7, LinkedTail
<1>10. ConnectForm(g, p, after)
  <2>1. after = [index |-> after.index, low |-> after.low, stack |-> after.stack,
                 components |-> after.components, calls |-> after.calls]
    BY <1>5, <1>6
  <2>2. \A c \in ToSet(F2) : ToSet(c.links) \subseteq LinksOut(g, p, c.node)
    BY <1>1, <1>4, <1>8
  <2> QED
    BY <1>1, <1>4, <1>6, <1>8, <2>1, <2>2 DEF ConnectForm, T
<1>11. ConnectOrders(g, p, after)
  BY <1>4, <1>6, <1>8, <1>9 DEF ConnectOrders
<1>12. ConnectFound(g, p, after)
  BY <1>4, <1>6 DEF ConnectFound
<1> QED
  BY <1>4, <1>6, <1>10, <1>11, <1>12 DEF after

\* What closing the innermost component changes in the state.
LEMMA ClosedIsRecord ==
  ASSUME NEW g, NEW p, NEW s, ConnectForm(g, p, s), NEW n
  PROVE  LET after == Closed(s, n)
             from  == HeightOn(s.stack, n)
         IN  /\ after.index = s.index /\ after.low = s.low /\ after.calls = s.calls
             /\ after.stack = SubSeq(s.stack, 1, from - 1)
             /\ after.components = Append(s.components, ToSet(SubSeq(s.stack, from, Len(s.stack))))
             /\ after = [index |-> after.index, low |-> after.low, stack |-> after.stack,
                         components |-> after.components, calls |-> after.calls]
<1> DEFINE after == Closed(s, n)
           A == s.index
           B == s.low
           D == s.stack
           E == s.components
           F == s.calls
           from == HeightOn(D, n)
           D2 == SubSeq(D, 1, from - 1)
           E2 == Append(E, ToSet(SubSeq(D, from, Len(D))))
<1>1. s = [index |-> A, low |-> B, stack |-> D, components |-> E, calls |-> F]
  BY DEF ConnectForm
<1>2. after = [s EXCEPT !.components = E2, !.stack = D2]
  BY DEF Closed, HeightOn
<1> HIDE DEF after, A, B, D, E, F, D2, E2
<1>3. after = [index |-> A, low |-> B, stack |-> D2, components |-> E2, calls |-> F]
  BY <1>1, <1>2
<1>4. after.index = A /\ after.low = B /\ after.stack = D2 /\ after.components = E2 /\ after.calls = F
  BY <1>3
<1>5. after = [index |-> after.index, low |-> after.low, stack |-> after.stack,
               components |-> after.components, calls |-> after.calls]
  BY <1>3, <1>4
<1> QED
  BY <1>4, <1>5 DEF after, A, B, D, E, F, D2, E2

\* When the innermost call returns from the lowest of what it reaches, the
\* component found is a new one.
LEMMA ConnectCloses ==
  ASSUME NEW g, NEW p, IsGraph(g, p), NEW s, NEW owed, ConnectOwes(g, p, s, owed),
         NEW n \in ToSet(s.stack), From(s.index, ToSet(s.stack), n) = MutualOf(g, p, n)
  PROVE  LET after == Closed(s, n)
         IN  /\ after.index = s.index /\ after.low = s.low /\ after.calls = s.calls
             /\ ToSet(after.stack) = ToSet(s.stack) \ From(s.index, ToSet(s.stack), n)
             /\ ConnectForm(g, p, after) /\ ConnectOrders(g, p, after) /\ ConnectFound(g, p, after)
<1> DEFINE after == Closed(s, n)
           from == HeightOn(s.stack, n)
           above == SubSeq(s.stack, from, Len(s.stack))
           below == SubSeq(s.stack, 1, from - 1)
           upper == From(s.index, ToSet(s.stack), n)
           K == Kept(g, p)
           N == DOMAIN s.index
           open == ToSet(s.stack)
<1>1. /\ ConnectForm(g, p, s) /\ ConnectOrders(g, p, s) /\ ConnectFound(g, p, s)
      /\ Numbers(g, p, s.index, s.low, ToSet(s.stack), Calling(s.calls))
      /\ Lows(g, p, s.index, s.low, ToSet(s.stack), Calling(s.calls))
  BY DEF ConnectOwes, TarjanState
<1>2. /\ s.stack \in Seq(K) /\ s.calls \in Seq(CallSet(g, p)) /\ s.components \in Seq(SUBSET K)
      /\ \A c \in ToSet(s.calls) : ToSet(c.links) \subseteq LinksOut(g, p, c.node)
  BY <1>1 DEF ConnectForm
<1>3. /\ Pairwise(s.stack, Rises(s.index))
      /\ Pairwise(s.calls, Falls(g, p, s.index)) /\ Linked(s.calls, Callers(g, p))
      /\ \A v \in DOMAIN s.index : s.index[v] < Cardinality(DOMAIN s.index)
  BY <1>1 DEF ConnectOrders
<1>4. /\ N \subseteq K /\ open \subseteq N /\ \A v \in DOMAIN s.index : s.index[v] \in Nat
      /\ IsClosed(g, p, N \ open)
  BY <1>1 DEF Numbers, Lows
<1>5. /\ Pairwise(s.components, Apart(g, p))
      /\ ToSet(s.components) = {MutualOf(g, p, x) : x \in N \ open}
  BY <1>1 DEF ConnectFound
<1>6. /\ ToSet(above) = upper
      /\ below \in Seq(K) /\ Pairwise(below, Rises(s.index))
      /\ ToSet(below) = open \ upper
  <2> DEFINE stack == s.stack
             index == s.index
  <2>1. /\ stack \in Seq(K) /\ Pairwise(stack, Rises(index)) /\ ToSet(stack) \subseteq DOMAIN index
        /\ \A v \in DOMAIN index : index[v] \in Nat
        /\ n \in ToSet(stack)
    BY <1>2, <1>3, <1>4
  <2> HIDE DEF stack, index, K
  <2>2. LET height == HeightOn(stack, n)
            upward == SubSeq(stack, height, Len(stack))
            under  == SubSeq(stack, 1, height - 1)
        IN  /\ ToSet(upward) = From(index, ToSet(stack), n)
            /\ under \in Seq(K) /\ Pairwise(under, Rises(index))
            /\ ToSet(under) = ToSet(stack) \ From(index, ToSet(stack), n)
    BY <2>1, CutAt
  <2> QED
    BY <2>2 DEF stack, index
<1>7. /\ after.index = s.index /\ after.low = s.low /\ after.calls = s.calls
      /\ after.stack = below
      /\ after.components = Append(s.components, ToSet(above))
      /\ after = [index |-> after.index, low |-> after.low, stack |-> after.stack,
                  components |-> after.components, calls |-> after.calls]
  BY <1>1, ClosedIsRecord
<1>8. upper = MutualOf(g, p, n) /\ n \in open /\ upper \subseteq open
  BY DEF From
<1> HIDE DEF after, from, above, below, upper, K, N, open
<1>9. upper \in SUBSET K
  BY <1>4, <1>8
<1>10. ASSUME NEW x \in N \ open PROVE MutualOf(g, p, x) # upper /\ MutualOf(g, p, x) \in SUBSET K
  <2>1. /\ \A C : IsClosed(g, p, C) => \A u \in C : \A v : Reaches(g, p, u, v) => v \in C
        /\ \A a, b : b \in MutualOf(g, p, a) <=> Reaches(g, p, a, b) /\ Reaches(g, p, b, a)
        /\ \A u : Reaches(g, p, u, u)
    BY ReachingGoesOn
  <2>2. MutualOf(g, p, x) \subseteq N \ open
    BY <1>4, <2>1
  <2>3. n \in MutualOf(g, p, n)
    BY <2>1
  <2> QED
    BY <1>4, <1>8, <2>2, <2>3
<1>11. /\ after.components \in Seq(SUBSET K) /\ ToSet(after.components) = ToSet(s.components) \cup {upper}
       /\ Pairwise(after.components, Apart(g, p))
  <2>1. \A P \in ToSet(s.components) : <<P, upper>> \in Apart(g, p)
    BY <1>5, <1>9, <1>10 DEF Apart, K
  <2> QED
    BY <1>2, <1>5, <1>6, <1>7, <1>9, <2>1, AppendHolds
<1>12. ConnectForm(g, p, after)
  BY <1>2, <1>6, <1>7, <1>11 DEF ConnectForm, K
<1>13. ConnectOrders(g, p, after)
  BY <1>3, <1>6, <1>7 DEF ConnectOrders
<1>14. ConnectFound(g, p, after)
  <2>1. N \ ToSet(after.stack) = (N \ open) \cup upper
    BY <1>4, <1>6, <1>7, <1>8
  <2>2. \A x \in upper : MutualOf(g, p, x) = upper
    BY <1>8, MutualSame
  <2>3. n \in upper
    BY <1>8 DEF MutualOf
  <2>4. ToSet(after.components) = {MutualOf(g, p, x) : x \in (N \ open) \cup upper}
    BY <1>5, <1>11, <2>2, <2>3
  <2> QED
    BY <1>7, <1>11, <2>1, <2>4 DEF ConnectFound, N
<1> QED
  BY <1>6, <1>7, <1>12, <1>13, <1>14 DEF after, upper, open

\* The innermost call returns.
LEMMA ConnectReturns ==
  ASSUME NEW g, NEW p, IsGraph(g, p), NEW s, ConnectOk(g, p, s), s.calls # <<>>, Head(s.calls).links = <<>>
  PROVE  ConnectOk(g, p, ConnectReturn(s))
<1> DEFINE h == Head(s.calls)
           n == h.node
           rest == Tail(s.calls)
           m == Head(rest).node
           owed == Owed(g, p, s.calls)
           open == ToSet(s.stack)
           base == IF s.low[n] = s.index[n] THEN Closed(s, n) ELSE s
           popped == [base EXCEPT !.calls = Tail(@)]
           after == ConnectReturn(s)
<1>1. /\ ConnectOwes(g, p, s, owed)
      /\ ConnectForm(g, p, s) /\ ConnectOrders(g, p, s) /\ ConnectFound(g, p, s)
      /\ TarjanState(g, p, s.index, s.low, open, Calling(s.calls), owed)
  BY DEF ConnectOk, ConnectOwes
<1>2. /\ h \in ToSet(s.calls) /\ rest \in Seq(CallSet(g, p)) /\ ToSet(s.calls) = {h} \cup ToSet(rest)
      /\ IsTop(s.index, Calling(s.calls), n) /\ Calling(rest) = Calling(s.calls) \ {n}
      /\ rest # <<>> => /\ IsTop(s.index, Calling(rest), m) /\ <<m, n>> \in Steps(g, p)
                        /\ s.calls[2] = Head(rest)
  BY <1>1, InnermostCall
<1>3. owed = Owed(g, p, rest) /\ OwedBelow(owed, Calling(s.calls), n)
  <2>1. ToSet(h.links) = {}
    BY NothingHeld
  <2>2. \A e \in owed : \E c \in ToSet(rest) : e[1] = c.node /\ \E k \in ToSet(c.links) : e[2] = g.links[k].target
    BY <1>2, <2>1 DEF Owed
  <2>3. \A e \in owed : e[1] \in Calling(rest)
    BY <2>2 DEF Calling
  <2>4. owed = Owed(g, p, rest)
    BY <1>2, <2>2 DEF Owed
  <2> QED
    BY <1>2, <2>3, <2>4 DEF OwedBelow
<1>4. after = IF rest = <<>> THEN popped ELSE Lowered(popped, s.calls[2].node, s.low[n])
  BY DEF ConnectReturn
<1>5. n \in open
  BY <1>1, <1>2 DEF TarjanState, Numbers, IsTop
<1>6. s.calls # <<>>
  OBVIOUS
<1>7. base = IF s.low[n] = s.index[n] THEN Closed(s, n) ELSE s
  OBVIOUS
<1>8. rest = Tail(s.calls)
  OBVIOUS
<1> HIDE DEF h, n, rest, m, owed, open, base, popped, after
<1>9. CASE s.low[n] # s.index[n]
  <2>1. base = s
    BY <1>7, <1>9
  <2>2. /\ popped.index = s.index /\ popped.low = s.low /\ popped.stack = s.stack
        /\ popped.calls = rest
        /\ ConnectForm(g, p, popped) /\ ConnectOrders(g, p, popped) /\ ConnectFound(g, p, popped)
    BY <1>1, <1>6, <1>8, <2>1, Popped DEF popped
  <2>3. /\ Calling(s.calls) \ {n} # {}
        /\ \A b : IsTop(s.index, Calling(s.calls) \ {n}, b) /\ <<b, n>> \in Steps(g, p) =>
             TarjanState(g, p, s.index, [s.low EXCEPT ![b] = Min({s.low[b], s.low[n]})], open,
                         Calling(s.calls) \ {n}, owed)
    BY <1>1, <1>2, <1>9, CallReturns
  <2>4. rest # <<>>
    BY <1>2, <2>3, NothingHeld DEF Calling
  <2>5. TarjanState(g, p, s.index, [s.low EXCEPT ![m] = Min({s.low[m], s.low[n]})], open, Calling(rest), owed)
    BY <1>2, <2>3, <2>4
  <2>6. after = Lowered(popped, m, s.low[n])
    BY <1>2, <1>4, <2>4 DEF m
  <2>7. /\ after.low = [popped.low EXCEPT ![m] = Min({popped.low[m], s.low[n]})]
        /\ after.index = popped.index /\ after.stack = popped.stack /\ after.calls = popped.calls
        /\ ConnectForm(g, p, after) /\ ConnectOrders(g, p, after) /\ ConnectFound(g, p, after)
    <3> DEFINE x == Lowered(popped, m, s.low[n])
    <3>1. /\ x.low = [popped.low EXCEPT ![m] = Min({popped.low[m], s.low[n]})]
          /\ x.index = popped.index /\ x.stack = popped.stack /\ x.calls = popped.calls
          /\ ConnectForm(g, p, x) /\ ConnectOrders(g, p, x) /\ ConnectFound(g, p, x)
      BY <2>2, LoweredKeeps
    <3>2. after = x
      BY <2>6
    <3> HIDE DEF x
    <3> QED
      BY <3>1, <3>2
  <2>8. TarjanState(g, p, after.index, after.low, ToSet(after.stack), Calling(after.calls), Owed(g, p, after.calls))
    BY <1>3, <2>2, <2>5, <2>7 DEF open
  <2> QED
    BY <2>7, <2>8 DEF ConnectOk, ConnectOwes, after
<1>10. CASE s.low[n] = s.index[n]
  <2>1. base = Closed(s, n)
    BY <1>7, <1>10
  <2>2. /\ From(s.index, open, n) = MutualOf(g, p, n)
        /\ TarjanState(g, p, s.index, s.low, open \ From(s.index, open, n), Calling(s.calls) \ {n}, owed)
        /\ \A c \in Calling(s.calls) \ {n} : Min({s.low[c], s.low[n]}) = s.low[c]
    <3> DEFINE index == s.index
               low == s.low
               calling == Calling(s.calls)
    <3>1. /\ TarjanState(g, p, index, low, open, calling, owed) /\ IsTop(index, calling, n)
          /\ low[n] = index[n] /\ OwedBelow(owed, calling, n)
      BY <1>1, <1>2, <1>3, <1>10
    <3> HIDE DEF index, low, calling
    <3>2. Closing(g, p, index, low, open, calling, owed, n)
      BY <3>1, CallCloses
    <3> QED
      BY <3>2 DEF Closing, index, low, calling
  <2>3. /\ base.index = s.index /\ base.low = s.low /\ base.calls = s.calls
        /\ ToSet(base.stack) = open \ From(s.index, open, n)
        /\ ConnectForm(g, p, base) /\ ConnectOrders(g, p, base) /\ ConnectFound(g, p, base)
    <3> DEFINE x == Closed(s, n)
    <3>1. n \in ToSet(s.stack) /\ From(s.index, ToSet(s.stack), n) = MutualOf(g, p, n)
      BY <1>5, <2>2 DEF open
    <3>2. /\ x.index = s.index /\ x.low = s.low /\ x.calls = s.calls
          /\ ToSet(x.stack) = ToSet(s.stack) \ From(s.index, ToSet(s.stack), n)
          /\ ConnectForm(g, p, x) /\ ConnectOrders(g, p, x) /\ ConnectFound(g, p, x)
      BY <1>1, <3>1, ConnectCloses
    <3> HIDE DEF x
    <3> QED
      BY <2>1, <3>2 DEF x, open
  <2>4. /\ popped.index = s.index /\ popped.low = s.low /\ popped.stack = base.stack
        /\ popped.calls = rest
        /\ ConnectForm(g, p, popped) /\ ConnectOrders(g, p, popped) /\ ConnectFound(g, p, popped)
    BY <1>6, <1>8, <2>3, Popped DEF popped
  <2>5. TarjanState(g, p, popped.index, popped.low, ToSet(popped.stack), Calling(popped.calls), Owed(g, p, popped.calls))
    BY <1>2, <1>3, <2>2, <2>3, <2>4
  <2>6. CASE rest = <<>>
    <3>1. after = popped
      BY <1>4, <2>6
    <3> QED
      BY <2>4, <2>5, <3>1 DEF ConnectOk, ConnectOwes, after
  <2>7. CASE rest # <<>>
    <3>1. after = Lowered(popped, m, s.low[n])
      BY <1>2, <1>4, <2>7 DEF m
    <3>2. /\ after.low = [popped.low EXCEPT ![m] = Min({popped.low[m], s.low[n]})]
          /\ after.index = popped.index /\ after.stack = popped.stack /\ after.calls = popped.calls
          /\ ConnectForm(g, p, after) /\ ConnectOrders(g, p, after) /\ ConnectFound(g, p, after)
      <4> DEFINE x == Lowered(popped, m, s.low[n])
      <4>1. /\ x.low = [popped.low EXCEPT ![m] = Min({popped.low[m], s.low[n]})]
            /\ x.index = popped.index /\ x.stack = popped.stack /\ x.calls = popped.calls
            /\ ConnectForm(g, p, x) /\ ConnectOrders(g, p, x) /\ ConnectFound(g, p, x)
        BY <2>4, LoweredKeeps
      <4>2. after = x
        BY <3>1
      <4> HIDE DEF x
      <4> QED
        BY <4>1, <4>2
    <3>3. Min({popped.low[m], s.low[n]}) = popped.low[m]
      BY <1>2, <2>2, <2>4, <2>7 DEF IsTop
    <3>4. DOMAIN after.low = DOMAIN popped.low /\ \A v \in DOMAIN popped.low : after.low[v] = popped.low[v]
      <4> DEFINE a == popped.low
                 b == after.low
      <4>1. b = [a EXCEPT ![m] = a[m]]
        BY <3>2, <3>3
      <4> HIDE DEF a, b
      <4>2. DOMAIN b = DOMAIN a /\ \A v \in DOMAIN a : b[v] = a[v]
        BY <4>1
      <4> QED
        BY <4>2 DEF a, b
    <3>5. TarjanState(g, p, popped.index, after.low, ToSet(popped.stack), Calling(popped.calls), Owed(g, p, popped.calls))
      BY <2>5, <3>4, LowNumbersAlike
    <3> QED
      BY <3>2, <3>5 DEF ConnectOk, ConnectOwes, after
  <2> QED
    BY <2>6, <2>7
<1> QED
  BY <1>9, <1>10

\* What is promised of the strongly connected components.
ComponentsAnswers(g, p, list) ==
  IsInjective(list) /\ ToSet(list) = {MutualOf(g, p, n) : n \in Kept(g, p)}

\* When no call is left and every component has a number, all are found.
LEMMA ConnectEnds ==
  ASSUME NEW g, NEW p, IsGraph(g, p), NEW s, ConnectOk(g, p, s), s.calls = <<>>, Unnumbered(g, p, s) = {}
  PROVE  ComponentsAnswers(g, p, s.components)
<1>1. /\ s.components \in Seq(SUBSET Kept(g, p)) /\ ConnectFound(g, p, s)
      /\ Numbers(g, p, s.index, s.low, ToSet(s.stack), Calling(s.calls))
      /\ Lows(g, p, s.index, s.low, ToSet(s.stack), Calling(s.calls))
  BY DEF ConnectOk, ConnectOwes, ConnectForm, TarjanState
<1>2. Calling(s.calls) = {}
  BY NothingHeld DEF Calling
<1>3. ToSet(s.stack) = {}
  BY <1>1, <1>2 DEF Lows
<1>4. DOMAIN s.index = Kept(g, p)
  BY <1>1 DEF Numbers, Unnumbered
<1>5. ToSet(s.components) = {MutualOf(g, p, n) : n \in Kept(g, p)}
  BY <1>1, <1>3, <1>4 DEF ConnectFound
<1>6. IsInjective(s.components)
  <2>1. Pairwise(s.components, Apart(g, p)) /\ \A q \in Apart(g, p) : q[1] # q[2]
    BY <1>1 DEF ConnectFound, Apart
  <2> QED
    BY <1>1, <2>1, PairwiseInjective
<1> QED
  BY <1>5, <1>6 DEF ComponentsAnswers

\* The invariant of the two searches over the whole graph.
OrdersGoOn ==
  /\ Working("sorted")      => SortedOk(graph, policy, answer)
  /\ Answered("sorted")     => SortedAnswers(graph, policy, answer)
  /\ Working("components")  => ConnectOk(graph, policy, answer)
  /\ Answered("components") => ComponentsAnswers(graph, policy, answer)

\* Every reachable state has OrderAndComponentsAgree: topologicalTraversal
\* returns what no cycle leads to, in an order of the steps, and says whether
\* there is a cycle; stronglyConnectedComponents returns the classes of mutual
\* reachability, once each.
THEOREM OrderAndComponentsAreRight == Spec => []OrderAndComponentsAgree
<1>1. Init => OrdersGoOn
  BY DEF Init, OrdersGoOn, Working, Answered
<1>2. OrdersGoOn /\ AskedFor /\ [Next]_vars => OrdersGoOn'
  <2> SUFFICES ASSUME OrdersGoOn, AskedFor, [Next]_vars PROVE OrdersGoOn'
    OBVIOUS
  <2>1. CASE UNCHANGED vars
    BY <2>1 DEF vars, OrdersGoOn, Working, Answered, graph, policy
  <2>2. CASE AskAnything \/ Forget
    BY <2>2, AskingGives DEF Forget, OrdersGoOn, Working, Answered
  <2>3. ASSUME query.kind \in {"sorted", "components"}, phase # "idle" PROVE IsGraph(graph, policy)
    <3>1. query.about \in Traversals
      BY <2>3 DEF AskedFor
    <3> QED
      BY <3>1, GraphsAreFinite DEF graph, policy
  <2>4. CASE UNCHANGED query /\ query.kind = "sorted" /\ SortedNext
    <3>1. phase \in {"asked", "working"}
      BY <2>4 DEF SortedNext, BeginSorted, VisitSorted, EndSorted, Asked, Working
    <3>2. IsGraph(graph, policy)
      BY <2>3, <2>4, <3>1
    <3>3. graph' = graph /\ policy' = policy
      BY <2>4 DEF graph, policy
    <3>4. CASE BeginSorted
      BY <3>2, <3>3, <3>4, <2>4, SortedBegins DEF BeginSorted, Begin, GoTo, OrdersGoOn, Working, Answered
    <3>5. CASE VisitSorted
      BY <3>2, <3>3, <3>5, <2>4, SortedGoesOn DEF VisitSorted, GoOn, GoTo, OrdersGoOn, Working, Answered
    <3>6. CASE EndSorted
      BY <3>2, <3>3, <3>6, <2>4, SortedEnds DEF EndSorted, Answer, GoTo, OrdersGoOn, Working, Answered
    <3> QED
      BY <2>4, <3>4, <3>5, <3>6 DEF SortedNext
  <2>5. CASE UNCHANGED query /\ query.kind = "components" /\ ComponentsNext
    <3>1. phase \in {"asked", "working"}
      BY <2>5 DEF ComponentsNext, BeginComponents, ConnectNext, FollowLink, ReturnFromConnect, EndComponents,
                  Asked, Working
    <3>2. IsGraph(graph, policy)
      BY <2>3, <2>5, <3>1
    <3>3. graph' = graph /\ policy' = policy
      BY <2>5 DEF graph, policy
    <3>4. CASE BeginComponents
      BY <3>2, <3>3, <3>4, <2>5, ConnectBegins DEF BeginComponents, Begin, GoTo, OrdersGoOn, Working, Answered
    <3>5. CASE ConnectNext
      <4> DEFINE n == Min(Unnumbered(graph, policy, answer))
      <4>1. n \in Unnumbered(graph, policy, answer)
        <5>1. IsFiniteSet(Nodes(graph)) /\ Nodes(graph) \subseteq Int
          BY <3>2 DEF IsGraph
        <5>2. Unnumbered(graph, policy, answer) \subseteq Nodes(graph) /\ Unnumbered(graph, policy, answer) # {}
          BY <3>5 DEF ConnectNext, Unnumbered, Kept
        <5>3. IsFiniteSet(Unnumbered(graph, policy, answer))
          BY <5>1, <5>2, FS_Subset
        <5> QED
          BY <5>1, <5>2, <5>3, LeastOfFinite
      <4>2. n \in Kept(graph, policy) /\ n \notin DOMAIN answer.index
        BY <4>1 DEF Unnumbered
      <4>3. /\ phase = "working" /\ answer.calls = <<>>
            /\ phase' = phase /\ answer' = Connect(graph, policy, answer, n)
        BY <3>5 DEF ConnectNext, GoOn, GoTo, Working
      <4>4. ConnectOk(graph, policy, answer)
        BY <2>5, <4>3 DEF OrdersGoOn, Working
      <4> HIDE DEF n
      <4>5. ConnectOk(graph, policy, Connect(graph, policy, answer, n))
        BY <3>2, <4>2, <4>3, <4>4, ConnectKeeps DEF ConnectOk
      <4> QED
        BY <2>5, <3>3, <4>3, <4>5 DEF OrdersGoOn, Working, Answered
    <3>6. CASE FollowLink
      BY <3>2, <3>3, <3>6, <2>5, ConnectFollows DEF FollowLink, GoOn, GoTo, OrdersGoOn, Working, Answered
    <3>7. CASE ReturnFromConnect
      BY <3>2, <3>3, <3>7, <2>5, ConnectReturns DEF ReturnFromConnect, GoOn, GoTo, OrdersGoOn, Working, Answered
    <3>8. CASE EndComponents
      BY <3>2, <3>3, <3>8, <2>5, ConnectEnds DEF EndComponents, Answer, GoTo, OrdersGoOn, Working, Answered
    <3> QED
      BY <2>5, <3>4, <3>5, <3>6, <3>7, <3>8 DEF ComponentsNext
  <2>6. CASE UNCHANGED query /\ query.kind \notin {"sorted", "components"}
    BY <2>6 DEF OrdersGoOn, Working, Answered
  <2> QED
    BY <2>1, <2>2, <2>4, <2>5, <2>6, StepOfKind
<1>3. OrdersGoOn => OrderAndComponentsAgree
  <2> SUFFICES ASSUME OrdersGoOn PROVE OrderAndComponentsAgree
    OBVIOUS
  <2>1. Answered("sorted") => SortedAnswers(graph, policy, answer)
    BY DEF OrdersGoOn
  <2>2. Answered("components") => ComponentsAnswers(graph, policy, answer)
    BY DEF OrdersGoOn
  <2> QED
    BY <2>1, <2>2 DEF OrderAndComponentsAgree, SortedAnswers, ComponentsAnswers, OnACycle, MutualOf
<1> QED
  BY <1>1, <1>2, <1>3, AlwaysAskedFor, PTL DEF Spec
=============================================================================
