------------------------ MODULE TraversalCacheProofs -----------------------
(***************************************************************************)
(* Proofs about the traversal engine's cache.                              *)
(*                                                                         *)
(* A sound cache has the adjacency of the connections it holds, which end  *)
(* at nodes it holds.  Linking, unlinking and taking a component out keep  *)
(* it sound.  A rebuild and an update are folds of these over sets and     *)
(* lists of any size; what they compute follows by induction over the      *)
(* sets they have dealt with.  The invariant is that whatever no mark      *)
(* names is in the cache as it is in the graph.                            *)
(***************************************************************************)
EXTENDS TraversalCache, FiniteSetTheorems, WellFoundedInduction, TLAPS

-----------------------------------------------------------------------------
(* Induction, and folding a set. *)

\* What remains of a set.
Rest(s, x) == s \ {x}

\* Induction over the subsets of a finite set, for a set of them.
LEMMA SubsetInduction ==
  ASSUME NEW S, IsFiniteSet(S), NEW G, {} \in G,
         \A s \in SUBSET S : s # {} => \E x \in s : Rest(s, x) \in G => s \in G
  PROVE  SUBSET S \subseteq G
<1> DEFINE Less == StrictSubsetOrdering(S)
           Fails == (SUBSET S) \ G
<1> SUFFICES ASSUME Fails # {} PROVE FALSE
  OBVIOUS
<1>1. IsWellFoundedOn(Less, FiniteSubsetsOf(S))
  BY FS_StrictSubsetOrderingWellFounded
<1>2. Fails \subseteq FiniteSubsetsOf(S)
  <2> SUFFICES ASSUME NEW s \in SUBSET S PROVE IsFiniteSet(s)
    BY DEF FiniteSubsetsOf
  <2> QED
    BY FS_Subset
<1>3. PICK T \in Fails : \A U \in Fails : <<U, T>> \notin Less
  <2> HIDE DEF Less, Fails
  <2> QED
    BY <1>1, <1>2, WFMin
<1>4. T \in SUBSET S /\ T # {} /\ T \notin G
  OBVIOUS
<1>5. PICK x \in T : T \ {x} \in G => T \in G
  BY <1>4 DEF Rest
<1>6. T \ {x} \in Fails
  BY <1>4, <1>5
<1>7. <<T \ {x}, T>> \in Less
  BY <1>4, <1>5 DEF StrictSubsetOrdering
<1> QED
  BY <1>3, <1>6, <1>7

\* Induction over the numbers up to n, for a set of them.
LEMMA NumbersUpTo ==
  ASSUME NEW n \in Nat, NEW S, 0 \in S, \A i \in 1 .. n : i - 1 \in S => i \in S
  PROVE  0 .. n \subseteq S
<1> DEFINE Less == OpToRel(<, Nat)
           Fails == (0 .. n) \ S
<1>1. IsWellFoundedOn(Less, Nat)
  BY NatLessThanWellFounded
<1>2. Fails \subseteq Nat
  OBVIOUS
<1> SUFFICES ASSUME Fails # {} PROVE FALSE
  OBVIOUS
<1>3. PICK k \in Fails : \A j \in Fails : <<j, k>> \notin Less
  <2> HIDE DEF Less, Fails
  <2> QED
    BY <1>1, <1>2, WFMin
<1>4. \A x, y \in Nat : x < y => <<x, y>> \in Less
  BY DEF OpToRel
<1> HIDE DEF Less
<1>5. k \in 1 .. n /\ k - 1 \in 0 .. n /\ k - 1 < k
  BY <1>3
<1>6. k - 1 \notin Fails
  <2>1. k - 1 \in Nat /\ k \in Nat
    BY <1>5
  <2>2. <<k - 1, k>> \in Less
    BY <1>4, <1>5, <2>1
  <2> HIDE DEF Fails
  <2> QED
    BY <1>3, <2>2
<1>7. k - 1 \in S /\ k \notin S
  BY <1>3, <1>5, <1>6
<1> QED
  BY <1>5, <1>7

\* A set loses one element after another, those that pick names.
Picks(pick, S) == \A s \in SUBSET S : s # {} => pick[s] \in s

(***************************************************************************)
(* The function with which the community modules fold a set, for a step    *)
(* that is itself a function, of what was picked and of what was folded so *)
(* far.                                                                    *)
(***************************************************************************)
FoldStep(it, s, base, pick, step) ==
  IF s = {} THEN base ELSE step[<<pick[s], it[s \ {pick[s]}]>>]

\* and it is a fold when that is every value of it.
IsFold(it, S, base, pick, step) ==
  \A s \in SUBSET S : it[s] = FoldStep(it, s, base, pick, step)

\* Such a function exists, by induction over the size of the sets.
LEMMA FoldExists ==
  ASSUME NEW S, IsFiniteSet(S), NEW T, NEW base \in T, NEW pick, Picks(pick, S),
         NEW step \in [S \X T -> T]
  PROVE  \E it \in [SUBSET S -> T] : IsFold(it, S, base, pick, step)
<1> DEFINE n == Cardinality(S)
           Upto(it, m) == \A s \in SUBSET S :
                            Cardinality(s) <= m => it[s] = FoldStep(it, s, base, pick, step)
           L == {m \in 0 .. n : \E it \in [SUBSET S -> T] : Upto(it, m)}
<1>1. n \in Nat
  BY FS_CardinalityType
<1>2. \A s \in SUBSET S : IsFiniteSet(s) /\ Cardinality(s) \in Nat /\ Cardinality(s) <= n
  BY <1>1, FS_Subset, FS_CardinalityType
<1>3. \A s \in SUBSET S : Cardinality(s) = 0 <=> s = {}
  BY <1>2, FS_EmptySet
<1>4. \A s \in SUBSET S : \A x \in s :
        s \ {x} \in SUBSET S /\ Cardinality(s \ {x}) = Cardinality(s) - 1
  BY <1>2, FS_RemoveElement
<1>5. 0 \in L
  <2> DEFINE it == [s \in SUBSET S |-> base]
  <2>1. it \in [SUBSET S -> T]
    OBVIOUS
  <2>2. ASSUME NEW s \in SUBSET S, Cardinality(s) <= 0
        PROVE  it[s] = FoldStep(it, s, base, pick, step)
    <3>1. s = {}
      BY <1>2, <1>3, <2>2
    <3> QED
      BY <3>1 DEF FoldStep
  <2>3. 0 \in 0 .. n
    BY <1>1
  <2> HIDE DEF it
  <2> QED
    BY <2>1, <2>2, <2>3
<1>6. ASSUME NEW m \in 1 .. n, m - 1 \in L PROVE m \in L
  <2>1. PICK it \in [SUBSET S -> T] : Upto(it, m - 1)
    BY <1>6
  <2> DEFINE jt == [s \in SUBSET S |->
                      IF Cardinality(s) = m THEN FoldStep(it, s, base, pick, step)
                      ELSE it[s]]
  <2>2. ASSUME NEW s \in SUBSET S PROVE FoldStep(it, s, base, pick, step) \in T
    <3>1. CASE s = {}
      BY <3>1 DEF FoldStep
    <3>2. CASE s # {}
      <4>1. pick[s] \in s /\ pick[s] \in S
        BY <3>2 DEF Picks
      <4>2. s \ {pick[s]} \in SUBSET S
        BY <4>1
      <4> QED
        BY <3>2, <4>1, <4>2 DEF FoldStep
    <3> QED
      BY <3>1, <3>2
  <2>3. jt \in [SUBSET S -> T]
    BY <2>2
  <2>4. ASSUME NEW s \in SUBSET S, Cardinality(s) <= m
        PROVE  jt[s] = FoldStep(jt, s, base, pick, step)
    <3>1. m \in Nat
      BY <1>1
    <3>2. FoldStep(it, s, base, pick, step) = FoldStep(jt, s, base, pick, step)
      <4>1. CASE s = {}
        BY <4>1 DEF FoldStep
      <4>2. CASE s # {}
        <5>1. pick[s] \in s
          BY <4>2 DEF Picks
        <5>2. s \ {pick[s]} \in SUBSET S /\ Cardinality(s \ {pick[s]}) # m
          BY <1>2, <1>4, <2>4, <3>1, <5>1
        <5>3. jt[s \ {pick[s]}] = it[s \ {pick[s]}]
          BY <5>2
        <5> QED
          BY <4>2, <5>3 DEF FoldStep
      <4> QED
        BY <4>1, <4>2
    <3>3. CASE Cardinality(s) = m
      <4>1. jt[s] = FoldStep(it, s, base, pick, step)
        BY <3>3
      <4> QED
        BY <3>2, <4>1
    <3>4. CASE Cardinality(s) # m
      <4>1. Cardinality(s) <= m - 1
        BY <1>2, <2>4, <3>1, <3>4
      <4>2. jt[s] = it[s]
        BY <3>4
      <4> QED
        BY <2>1, <3>2, <4>1, <4>2
    <3> QED
      BY <3>3, <3>4
  <2>5. m \in 0 .. n
    BY <1>1
  <2> HIDE DEF jt
  <2> QED
    BY <2>3, <2>4, <2>5
<1>7. n \in L
  <2>1. n \in 0 .. n
    BY <1>1
  <2> HIDE DEF n, L
  <2> QED
    BY <1>1, <1>5, <1>6, <2>1, NumbersUpTo
<1>8. PICK it \in [SUBSET S -> T] : Upto(it, n)
  BY <1>7
<1>9. IsFold(it, S, base, pick, step)
  BY <1>2, <1>8 DEF IsFold
<1> QED
  BY <1>9

-----------------------------------------------------------------------------
(* One connection more or less. *)

\* The two ends of a connection.
EndPairs == [source : Id, target : Id]

(***************************************************************************)
(* A cache of the right type that holds finitely many connections.         *)
(***************************************************************************)
Cached ==
  {ca \in [nodes : SUBSET Id,
           links : UNION {[D -> EndPairs] : D \in SUBSET ConnectionId},
           outgoing : [Id -> SUBSET ConnectionId],
           inDegree : [Id -> Nat]] : IsFiniteSet(DOMAIN ca.links)}

\* Its parts,
LEMMA CachedParts ==
  ASSUME NEW ca \in Cached
  PROVE  /\ ca = [nodes |-> ca.nodes, links |-> ca.links,
                  outgoing |-> ca.outgoing, inDegree |-> ca.inDegree]
         /\ ca.nodes \in SUBSET Id
         /\ DOMAIN ca.links \in SUBSET ConnectionId /\ IsFiniteSet(DOMAIN ca.links)
         /\ ca.links \in [DOMAIN ca.links -> EndPairs]
         /\ ca.outgoing \in [Id -> SUBSET ConnectionId]
         /\ ca.inDegree \in [Id -> Nat]
<1>1. PICK D \in SUBSET ConnectionId : ca.links \in [D -> EndPairs]
  BY DEF Cached
<1>2. D = DOMAIN ca.links
  BY <1>1
<1> QED
  BY <1>1, <1>2 DEF Cached

\* and how it is put together.
LEMMA CachedWhole ==
  ASSUME NEW n \in SUBSET Id, NEW D \in SUBSET ConnectionId, IsFiniteSet(D),
         NEW l \in [D -> EndPairs], NEW o \in [Id -> SUBSET ConnectionId],
         NEW g \in [Id -> Nat]
  PROVE  [nodes |-> n, links |-> l, outgoing |-> o, inDegree |-> g] \in Cached
<1>1. l \in UNION {[E -> EndPairs] : E \in SUBSET ConnectionId}
  OBVIOUS
<1>2. DOMAIN l = D
  OBVIOUS
<1> QED
  BY <1>1, <1>2 DEF Cached

\* Both ends are known.
Inside(ca, e) == {e.source, e.target} \subseteq ca.nodes

\* What linking a connection does to a cache.
LEMMA LinkedParts ==
  ASSUME NEW ca \in Cached, NEW k \in ConnectionId, NEW e \in EndPairs
  PROVE  /\ Linked(ca, k, e) \in Cached
         /\ Linked(ca, k, e).nodes = ca.nodes
         /\ DOMAIN Linked(ca, k, e).links = DOMAIN ca.links \cup {k}
         /\ Linked(ca, k, e).links[k] = e
         /\ \A j \in DOMAIN ca.links : j # k =>
              Linked(ca, k, e).links[j] = ca.links[j]
         /\ \A i \in Id : Linked(ca, k, e).outgoing[i] =
              IF i = e.source /\ Inside(ca, e)
              THEN ca.outgoing[i] \cup {k} ELSE ca.outgoing[i]
         /\ \A i \in Id : Linked(ca, k, e).inDegree[i] =
              IF i = e.target /\ Inside(ca, e)
              THEN ca.inDegree[i] + 1 ELSE ca.inDegree[i]
<1> DEFINE inside == Inside(ca, e)
           D == DOMAIN ca.links \cup {k}
           l == [j \in D |-> IF j = k THEN e ELSE ca.links[j]]
           o == [ca.outgoing EXCEPT ![e.source] =
                   IF inside THEN ca.outgoing[e.source] \cup {k} ELSE ca.outgoing[e.source]]
           g == [ca.inDegree EXCEPT ![e.target] =
                   IF inside THEN ca.inDegree[e.target] + 1 ELSE ca.inDegree[e.target]]
<1>1. /\ ca = [nodes |-> ca.nodes, links |-> ca.links,
               outgoing |-> ca.outgoing, inDegree |-> ca.inDegree]
      /\ ca.nodes \in SUBSET Id
      /\ DOMAIN ca.links \in SUBSET ConnectionId /\ IsFiniteSet(DOMAIN ca.links)
      /\ ca.links \in [DOMAIN ca.links -> EndPairs]
      /\ ca.outgoing \in [Id -> SUBSET ConnectionId]
      /\ ca.inDegree \in [Id -> Nat]
  BY CachedParts
<1>2. e.source \in Id /\ e.target \in Id
  BY DEF EndPairs
<1>3. Linked(ca, k, e) = [nodes |-> ca.nodes, links |-> l, outgoing |-> o, inDegree |-> g]
  <2>1. Linked(ca, k, e) =
          [ca EXCEPT
             !.links = [j \in DOMAIN @ \cup {k} |-> IF j = k THEN e ELSE @[j]],
             !.outgoing[e.source] = IF inside THEN @ \cup {k} ELSE @,
             !.inDegree[e.target] = IF inside THEN @ + 1 ELSE @]
    BY DEF Linked, Inside
  <2> QED
    BY <1>1, <2>1
<1>4. D \in SUBSET ConnectionId /\ IsFiniteSet(D)
  BY <1>1, FS_AddElement
<1>5. l \in [D -> EndPairs]
  BY <1>1
<1>6. o \in [Id -> SUBSET ConnectionId]
  BY <1>1, <1>2
<1>7. g \in [Id -> Nat]
  BY <1>1, <1>2
<1>8. Linked(ca, k, e) \in Cached
  <2> HIDE DEF D, l, o, g
  <2> QED
    BY <1>1, <1>3, <1>4, <1>5, <1>6, <1>7, CachedWhole
<1>9. \A i \in Id : o[i] =
        IF i = e.source /\ inside THEN ca.outgoing[i] \cup {k} ELSE ca.outgoing[i]
  BY <1>1, <1>2
<1>10. \A i \in Id : g[i] =
         IF i = e.target /\ inside THEN ca.inDegree[i] + 1 ELSE ca.inDegree[i]
  BY <1>1, <1>2
<1>11. DOMAIN l = D /\ l[k] = e /\ \A j \in DOMAIN ca.links : j # k => l[j] = ca.links[j]
  OBVIOUS
<1> HIDE DEF l, o, g
<1> QED
  BY <1>3, <1>8, <1>9, <1>10, <1>11

\* What unlinking one does.
LEMMA UnlinkedParts ==
  ASSUME NEW ca \in Cached, NEW k \in DOMAIN ca.links
  PROVE  /\ Unlinked(ca, k) \in Cached
         /\ Unlinked(ca, k).nodes = ca.nodes
         /\ DOMAIN Unlinked(ca, k).links = DOMAIN ca.links \ {k}
         /\ \A j \in DOMAIN ca.links : j # k =>
              Unlinked(ca, k).links[j] = ca.links[j]
         /\ \A i \in Id : Unlinked(ca, k).outgoing[i] =
              IF i = ca.links[k].source THEN ca.outgoing[i] \ {k} ELSE ca.outgoing[i]
         /\ \A i \in Id : Unlinked(ca, k).inDegree[i] =
              IF i = ca.links[k].target /\ i \in ca.nodes /\ ca.inDegree[i] > 0
              THEN ca.inDegree[i] - 1 ELSE ca.inDegree[i]
<1> DEFINE e == ca.links[k]
           D == DOMAIN ca.links \ {k}
           l == [j \in D |-> ca.links[j]]
           o == [ca.outgoing EXCEPT ![e.source] = ca.outgoing[e.source] \ {k}]
           g == [ca.inDegree EXCEPT ![e.target] =
                   IF e.target \in ca.nodes /\ ca.inDegree[e.target] > 0
                   THEN ca.inDegree[e.target] - 1 ELSE ca.inDegree[e.target]]
<1>1. /\ ca = [nodes |-> ca.nodes, links |-> ca.links,
               outgoing |-> ca.outgoing, inDegree |-> ca.inDegree]
      /\ ca.nodes \in SUBSET Id
      /\ DOMAIN ca.links \in SUBSET ConnectionId /\ IsFiniteSet(DOMAIN ca.links)
      /\ ca.links \in [DOMAIN ca.links -> EndPairs]
      /\ ca.outgoing \in [Id -> SUBSET ConnectionId]
      /\ ca.inDegree \in [Id -> Nat]
  BY CachedParts
<1>2. e \in EndPairs /\ e.source \in Id /\ e.target \in Id
  BY <1>1 DEF EndPairs
<1>3. Unlinked(ca, k) = [nodes |-> ca.nodes, links |-> l, outgoing |-> o, inDegree |-> g]
  <2>1. Unlinked(ca, k) =
          [ca EXCEPT
             !.links = Restrict(@, DOMAIN @ \ {k}),
             !.outgoing[e.source] = @ \ {k},
             !.inDegree[e.target] = IF e.target \in ca.nodes /\ @ > 0 THEN @ - 1 ELSE @]
    BY DEF Unlinked
  <2> QED
    BY <1>1, <2>1 DEF Restrict
<1>4. D \in SUBSET ConnectionId /\ IsFiniteSet(D)
  BY <1>1, FS_RemoveElement
<1>5. l \in [D -> EndPairs]
  BY <1>1
<1>6. o \in [Id -> SUBSET ConnectionId]
  <2>1. ca.outgoing[e.source] \ {k} \in SUBSET ConnectionId
    BY <1>1, <1>2
  <2> QED
    BY <1>1, <1>2, <2>1
<1>7. g \in [Id -> Nat]
  BY <1>1, <1>2
<1>8. Unlinked(ca, k) \in Cached
  <2> HIDE DEF D, l, o, g
  <2> QED
    BY <1>1, <1>3, <1>4, <1>5, <1>6, <1>7, CachedWhole
<1>9. \A i \in Id : o[i] =
        IF i = e.source THEN ca.outgoing[i] \ {k} ELSE ca.outgoing[i]
  BY <1>1, <1>2
<1>10. \A i \in Id : g[i] =
        IF i = e.target /\ i \in ca.nodes /\ ca.inDegree[i] > 0
        THEN ca.inDegree[i] - 1 ELSE ca.inDegree[i]
  BY <1>1, <1>2
<1>11. DOMAIN l = D /\ \A j \in DOMAIN ca.links : j # k => l[j] = ca.links[j]
  OBVIOUS
<1> HIDE DEF l, o, g
<1> QED
  BY <1>3, <1>8, <1>9, <1>10, <1>11

(***************************************************************************)
(* A sound cache: connections end at nodes, and the adjacency is that of   *)
(* the connections.                                                        *)
(***************************************************************************)
Into(ca, i) == {k \in DOMAIN ca.links : ca.links[k].target = i}
From(ca, i) == {k \in DOMAIN ca.links : ca.links[k].source = i}

Sound(ca) ==
  /\ ca \in Cached
  /\ \A k \in DOMAIN ca.links :
       ca.links[k].source \in ca.nodes /\ ca.links[k].target \in ca.nodes
  /\ \A i \in Id : ca.outgoing[i] = From(ca, i)
  /\ \A i \in Id : ca.inDegree[i] = Cardinality(Into(ca, i))

\* The connections into a component are finitely many.
LEMMA IntoIsFinite ==
  ASSUME NEW ca \in Cached, NEW i
  PROVE  IsFiniteSet(Into(ca, i)) /\ Cardinality(Into(ca, i)) \in Nat
<1>1. IsFiniteSet(DOMAIN ca.links)
  BY CachedParts
<1>2. Into(ca, i) \in SUBSET DOMAIN ca.links
  BY DEF Into
<1>3. IsFiniteSet(Into(ca, i))
  BY <1>1, <1>2, FS_Subset
<1> QED
  BY <1>3, FS_CardinalityType

\* Linking a new connection between nodes leaves a sound cache.
LEMMA LinkedIsSound ==
  ASSUME NEW ca, Sound(ca), NEW k \in ConnectionId, k \notin DOMAIN ca.links,
         NEW e \in EndPairs, e.source \in ca.nodes, e.target \in ca.nodes
  PROVE  Sound(Linked(ca, k, e))
<1> DEFINE r == Linked(ca, k, e)
<1>1. ca \in Cached
  BY DEF Sound
<1>2. /\ r \in Cached /\ r.nodes = ca.nodes
      /\ DOMAIN r.links = DOMAIN ca.links \cup {k}
      /\ r.links[k] = e
      /\ \A j \in DOMAIN ca.links : j # k => r.links[j] = ca.links[j]
      /\ \A i \in Id : r.outgoing[i] =
           IF i = e.source THEN ca.outgoing[i] \cup {k} ELSE ca.outgoing[i]
      /\ \A i \in Id : r.inDegree[i] =
           IF i = e.target THEN ca.inDegree[i] + 1 ELSE ca.inDegree[i]
  <2>1. Inside(ca, e)
    BY DEF Inside
  <2>2. /\ r \in Cached /\ r.nodes = ca.nodes
        /\ DOMAIN r.links = DOMAIN ca.links \cup {k}
        /\ r.links[k] = e
    BY <1>1, LinkedParts
  <2>3. \A j \in DOMAIN ca.links : j # k => r.links[j] = ca.links[j]
    BY <1>1, LinkedParts
  <2>4. \A i \in Id : r.outgoing[i] =
          IF i = e.source THEN ca.outgoing[i] \cup {k} ELSE ca.outgoing[i]
    <3>1. \A i \in Id : r.outgoing[i] =
            IF i = e.source /\ Inside(ca, e)
            THEN ca.outgoing[i] \cup {k} ELSE ca.outgoing[i]
      BY <1>1, LinkedParts
    <3> HIDE DEF r
    <3> QED
      BY <2>1, <3>1
  <2>5. \A i \in Id : r.inDegree[i] =
          IF i = e.target THEN ca.inDegree[i] + 1 ELSE ca.inDegree[i]
    BY <1>1, <2>1, LinkedParts
  <2> HIDE DEF r
  <2> QED
    BY <2>2, <2>3, <2>4, <2>5
<1> HIDE DEF r
<1>3. \A j \in DOMAIN r.links :
        r.links[j].source \in r.nodes /\ r.links[j].target \in r.nodes
  BY <1>2 DEF Sound
<1>4. ASSUME NEW i \in Id PROVE r.outgoing[i] = From(r, i)
  <2>1. From(r, i) = IF i = e.source THEN From(ca, i) \cup {k} ELSE From(ca, i)
    BY <1>2 DEF From
  <2> QED
    BY <1>2, <2>1 DEF Sound
<1>5. ASSUME NEW i \in Id PROVE r.inDegree[i] = Cardinality(Into(r, i))
  <2>1. Into(r, i) = IF i = e.target THEN Into(ca, i) \cup {k} ELSE Into(ca, i)
    BY <1>2 DEF Into
  <2>2. k \notin Into(ca, i)
    BY DEF Into
  <2>3. Cardinality(Into(ca, i) \cup {k}) = Cardinality(Into(ca, i)) + 1
    BY <1>1, <2>2, IntoIsFinite, FS_AddElement
  <2> QED
    BY <1>2, <2>1, <2>3 DEF Sound
<1> QED
  BY <1>2, <1>3, <1>4, <1>5 DEF Sound, r

\* Unlinking one does too.
LEMMA UnlinkedIsSound ==
  ASSUME NEW ca, Sound(ca), NEW k \in DOMAIN ca.links
  PROVE  Sound(Unlinked(ca, k))
<1> DEFINE r == Unlinked(ca, k)
           e == ca.links[k]
<1>1. ca \in Cached
  BY DEF Sound
<1>2. /\ r \in Cached /\ r.nodes = ca.nodes
      /\ DOMAIN r.links = DOMAIN ca.links \ {k}
      /\ \A j \in DOMAIN ca.links : j # k => r.links[j] = ca.links[j]
      /\ \A i \in Id : r.outgoing[i] =
           IF i = e.source THEN ca.outgoing[i] \ {k} ELSE ca.outgoing[i]
      /\ \A i \in Id : r.inDegree[i] =
              IF i = e.target /\ i \in ca.nodes /\ ca.inDegree[i] > 0
              THEN ca.inDegree[i] - 1 ELSE ca.inDegree[i]
  BY <1>1, UnlinkedParts
<1> HIDE DEF r
<1>3. \A j \in DOMAIN r.links :
        r.links[j].source \in r.nodes /\ r.links[j].target \in r.nodes
  BY <1>2 DEF Sound
<1>4. ASSUME NEW i \in Id PROVE r.outgoing[i] = From(r, i)
  <2>1. From(r, i) = IF i = e.source THEN From(ca, i) \ {k} ELSE From(ca, i)
    BY <1>2 DEF From
  <2> QED
    BY <1>2, <2>1 DEF Sound
<1>5. ASSUME NEW i \in Id PROVE r.inDegree[i] = Cardinality(Into(r, i))
  <2>1. CASE i = e.target
    <3>1. Into(r, i) = Into(ca, i) \ {k} /\ k \in Into(ca, i)
      BY <1>2, <2>1 DEF Into
    <3>2. IsFiniteSet(Into(ca, i)) /\ Cardinality(Into(ca, i)) \in Nat
      BY <1>1, IntoIsFinite
    <3>3. Cardinality(Into(r, i)) = Cardinality(Into(ca, i)) - 1
      BY <3>1, <3>2, FS_RemoveElement
    <3>4. Cardinality(Into(ca, i)) > 0
      BY <3>1, <3>2, FS_EmptySet
    <3>5. i \in ca.nodes
      BY <2>1 DEF Sound
    <3> QED
      BY <1>2, <2>1, <3>3, <3>4, <3>5 DEF Sound
  <2>2. CASE i # e.target
    <3>1. Into(r, i) = Into(ca, i)
      BY <1>2, <2>2 DEF Into
    <3> QED
      BY <1>2, <2>2, <3>1 DEF Sound
  <2> QED
    BY <2>1, <2>2
<1> QED
  BY <1>2, <1>3, <1>4, <1>5 DEF Sound, r

-----------------------------------------------------------------------------
(* Rebuilding the cache. *)

\* The graph is one of finitely many objects.
GraphOK ==
  /\ components \subseteq Id /\ connections \subseteq Connection
  /\ IsFiniteSet(components) /\ IsFiniteSet(connections)
  /\ link \in [Connection -> Links]

\* A connection has an id and two ends.
LEMMA LinkParts ==
  ASSUME GraphOK, NEW c \in connections
  PROVE  /\ link[c].id \in ConnectionId /\ Ends(c) \in EndPairs
         /\ Ends(c).source = link[c].source /\ Ends(c).target = link[c].target
         /\ link[c].source \in Id /\ link[c].target \in Id
BY DEF GraphOK, Links, Ends, EndPairs

\* The components, and no connection.
Blank == [EmptyCache EXCEPT !.nodes = components]

\* What a rebuild starts from.
LEMMA BlankIsSound ==
  ASSUME components \subseteq Id
  PROVE  Sound(Blank) /\ Blank.nodes = components /\ DOMAIN Blank.links = {}
<1>1. Blank = [nodes |-> components, links |-> NoLinks,
               outgoing |-> [i \in Id |-> {}], inDegree |-> [i \in Id |-> 0]]
  BY DEF Blank, EmptyCache
<1>2. NoLinks \in [{} -> EndPairs] /\ DOMAIN NoLinks = {}
  BY DEF NoLinks
<1>3. Blank \in Cached
  <2>1. [i \in Id |-> {}] \in [Id -> SUBSET ConnectionId]
    OBVIOUS
  <2>2. [i \in Id |-> 0] \in [Id -> Nat]
    OBVIOUS
  <2>3. {} \in SUBSET ConnectionId /\ IsFiniteSet({})
    BY FS_EmptySet
  <2> QED
    BY <1>1, <1>2, <2>1, <2>2, <2>3, CachedWhole
<1>4. \A i \in Id : Blank.outgoing[i] = From(Blank, i)
  BY <1>1, <1>2 DEF From
<1>5. \A i \in Id : Blank.inDegree[i] = Cardinality(Into(Blank, i))
  <2>1. \A i \in Id : Into(Blank, i) = {}
    BY <1>1, <1>2 DEF Into
  <2>2. \A i \in Id : Blank.inDegree[i] = 0
    BY <1>1
  <2> QED
    BY <2>1, <2>2, FS_EmptySet
<1> QED
  BY <1>1, <1>2, <1>3, <1>4, <1>5 DEF Sound

\* The rebuild links the connections in some order.
LEMMA RebuiltFold ==
  ASSUME GraphOK
  PROVE  \E it \in [SUBSET connections -> Cached] :
           /\ it[{}] = Blank
           /\ \A s \in SUBSET connections : s # {} =>
                \E c \in s : it[s] = Linked(it[s \ {c}], link[c].id, Ends(c))
           /\ it[connections] = Rebuilt
<1> DEFINE S == connections
           pick == [s \in SUBSET S |-> CHOOSE c \in s : TRUE]
           step == [x \in S \X Cached |-> Linked(x[2], link[x[1]].id, Ends(x[1]))]
           Folds(g) == g = [s \in SUBSET S |->
                              IF s = {} THEN Blank
                              ELSE Linked(g[s \ {CHOOSE c \in s : TRUE}],
                                          link[CHOOSE c \in s : TRUE].id,
                                          Ends(CHOOSE c \in s : TRUE))]
<1>1. IsFiniteSet(S) /\ Blank \in Cached
  BY BlankIsSound DEF GraphOK, Sound
<1>2. step \in [S \X Cached -> Cached]
  <2>1. \A x \in S \X Cached : Linked(x[2], link[x[1]].id, Ends(x[1])) \in Cached
    BY LinkParts, LinkedParts
  <2> QED
    BY <2>1
<1>3. Picks(pick, S)
  BY DEF Picks
<1>4. PICK it \in [SUBSET S -> Cached] : IsFold(it, S, Blank, pick, step)
  <2> HIDE DEF S, pick, step
  <2> QED
    BY <1>1, <1>2, <1>3, FoldExists
<1>5. Folds(it)
  <2>1. ASSUME NEW s \in SUBSET S, s # {}
        PROVE  it[s] = Linked(it[s \ {CHOOSE c \in s : TRUE}],
                              link[CHOOSE c \in s : TRUE].id,
                              Ends(CHOOSE c \in s : TRUE))
    <3> DEFINE x == CHOOSE c \in s : TRUE
    <3>1. pick[s] = x /\ x \in s
      BY <2>1
    <3>2. x \in S /\ s \ {x} \in SUBSET S
      BY <3>1
    <3>3. it[s \ {x}] \in Cached
      BY <1>4, <3>2
    <3>4. it[s] = step[<<x, it[s \ {x}]>>]
      <4> HIDE DEF pick, step, x
      <4> QED
        BY <1>4, <2>1, <3>1 DEF IsFold, FoldStep
    <3> HIDE DEF x
    <3>5. it[s] = Linked(it[s \ {x}], link[x].id, Ends(x))
      BY <3>2, <3>3, <3>4
    <3> QED
      BY <3>5 DEF x
  <2>2. it[{}] = Blank
    BY <1>4 DEF IsFold, FoldStep
  <2> HIDE DEF S
  <2> QED
    BY <1>4, <2>1, <2>2
<1> DEFINE g == CHOOSE g : Folds(g)
<1>6. Folds(g)
  <2> HIDE DEF Folds
  <2> QED
    BY <1>5
<1>7. Rebuilt = g[S]
  BY DEF Rebuilt, FoldSet, MapThenFoldSet, Blank
<1> HIDE DEF g
<1>8. g[{}] = Blank
  BY <1>6
<1>9. ASSUME NEW s \in SUBSET S, s # {}
      PROVE  \E c \in s : g[s] = Linked(g[s \ {c}], link[c].id, Ends(c))
  <2> DEFINE x == CHOOSE c \in s : TRUE
  <2>1. x \in s
    BY <1>9
  <2>2. g[s] = Linked(g[s \ {x}], link[x].id, Ends(x))
    BY <1>6, <1>9
  <2> HIDE DEF x
  <2> QED
    BY <2>1, <2>2
<1>10. g \in [SUBSET S -> Cached]
  <2> DEFINE G == {s \in SUBSET S : g[s] \in Cached}
  <2>1. {} \in G
    BY <1>1, <1>8
  <2>2. ASSUME NEW s \in SUBSET S, s # {}
        PROVE  \E c \in s : Rest(s, c) \in G => s \in G
    <3>1. PICK c \in s : g[s] = Linked(g[s \ {c}], link[c].id, Ends(c))
      BY <1>9, <2>2
    <3>2. ASSUME g[s \ {c}] \in Cached PROVE g[s] \in Cached
      BY <3>1, <3>2, LinkParts, LinkedParts
    <3> QED
      BY <3>2 DEF Rest
  <2>3. SUBSET S \subseteq G
    <3> HIDE DEF G, S
    <3> QED
      BY <1>1, <2>1, <2>2, SubsetInduction
  <2>4. \A s \in SUBSET S : g[s] \in Cached
    BY <2>3
  <2>5. g = [s \in SUBSET S |-> g[s]]
    BY <1>6
  <2> QED
    BY <2>4, <2>5
<1> HIDE DEF Folds
<1> QED
  BY <1>7, <1>8, <1>9, <1>10

\* So it gives a cache.
LEMMA RebuiltIsCache ==
  ASSUME GraphOK
  PROVE  Rebuilt \in Cached
BY RebuiltFold

(***************************************************************************)
(* The graph is tidy: connections have an id each, and components at their *)
(* ends.                                                                   *)
(***************************************************************************)
Tidy ==
  /\ \A c, d \in connections : link[c].id = link[d].id => c = d
  /\ \A c \in connections :
       link[c].source \in components /\ link[c].target \in components

\* The cache holds a connection as the graph has it.
Holds(ca, k) ==
  /\ k \in DOMAIN ca.links <=> \E c \in connections : link[c].id = k
  /\ \A c \in connections : link[c].id = k => ca.links[k] = Ends(c)

\* A rebuilt cache holds a tidy graph, all of it and nothing else.
LEMMA RebuiltIsExact ==
  ASSUME GraphOK, Tidy
  PROVE  /\ Sound(Rebuilt) /\ Rebuilt.nodes = components
         /\ \A k \in ConnectionId : Holds(Rebuilt, k)
<1>1. PICK it \in [SUBSET connections -> Cached] :
           /\ it[{}] = Blank
           /\ \A s \in SUBSET connections : s # {} =>
                \E c \in s : it[s] = Linked(it[s \ {c}], link[c].id, Ends(c))
           /\ it[connections] = Rebuilt
  BY RebuiltFold
<1> DEFINE Good(s) == /\ Sound(it[s]) /\ it[s].nodes = components
                      /\ DOMAIN it[s].links = {link[c].id : c \in s}
                      /\ \A c \in s : it[s].links[link[c].id] = Ends(c)
           G == {s \in SUBSET connections : Good(s)}
<1>2. {} \in G
  <2>1. Good({})
    BY <1>1, BlankIsSound DEF GraphOK
  <2> QED
    BY <2>1
<1>3. ASSUME NEW s \in SUBSET connections, s # {}
      PROVE  \E c \in s : Rest(s, c) \in G => s \in G
  <2>1. PICK c \in s : it[s] = Linked(it[s \ {c}], link[c].id, Ends(c))
    BY <1>1, <1>3
  <2> SUFFICES ASSUME s \ {c} \in G PROVE Good(s)
    BY DEF Rest
  <2> DEFINE ca == it[s \ {c}]
             k == link[c].id
             e == Ends(c)
  <2>2. /\ Sound(ca) /\ ca.nodes = components
        /\ DOMAIN ca.links = {link[d].id : d \in s \ {c}}
        /\ \A d \in s \ {c} : ca.links[link[d].id] = Ends(d)
    OBVIOUS
  <2>3. /\ k \in ConnectionId /\ e \in EndPairs
        /\ e.source \in components /\ e.target \in components
    BY LinkParts DEF Tidy
  <2>4. \A d \in s \ {c} : link[d].id # k
    BY DEF Tidy
  <2>5. k \notin DOMAIN ca.links
    BY <2>2, <2>4
  <2>6. it[s] = Linked(ca, k, e)
    BY <2>1
  <2>7. \A d \in s \ {c} : link[d].id \in DOMAIN ca.links /\ link[d].id # k
    BY <2>2, <2>4
  <2>8. DOMAIN ca.links \cup {k} = {link[d].id : d \in s}
    BY <2>2
  <2>9. ca \in Cached
    BY <2>2 DEF Sound
  <2>10. \A d \in s \ {c} : ca.links[link[d].id] = Ends(d)
    BY <2>2
  <2> HIDE DEF ca, k, e, Good
  <2>11. Sound(it[s])
    BY <2>2, <2>3, <2>5, <2>6, LinkedIsSound
  <2>12. it[s].nodes = components
    BY <2>2, <2>3, <2>6, <2>9, LinkedParts
  <2>13. DOMAIN it[s].links = {link[d].id : d \in s}
    BY <2>3, <2>6, <2>8, <2>9, LinkedParts
  <2>14. it[s].links[k] = e
    BY <2>3, <2>6, <2>9, LinkedParts
  <2>15. \A d \in s \ {c} : it[s].links[link[d].id] = Ends(d)
    BY <2>3, <2>6, <2>7, <2>9, <2>10, LinkedParts
  <2>16. \A d \in s : it[s].links[link[d].id] = Ends(d)
    BY <2>14, <2>15 DEF k, e
  <2> QED
    BY <2>11, <2>12, <2>13, <2>16 DEF Good
<1>4. SUBSET connections \subseteq G
  <2> HIDE DEF G
  <2> QED
    BY <1>2, <1>3, SubsetInduction DEF GraphOK
<1>5. Good(connections)
  BY <1>4
<1>6. /\ Sound(Rebuilt) /\ Rebuilt.nodes = components
      /\ DOMAIN Rebuilt.links = {link[c].id : c \in connections}
      /\ \A c \in connections : Rebuilt.links[link[c].id] = Ends(c)
  BY <1>1, <1>5
<1> QED
  BY <1>6 DEF Holds

-----------------------------------------------------------------------------
(* Taking a component out of the cache. *)

\* The connections that go with a component.
Gone(ca, i) == Into(ca, i) \cup From(ca, i)

\* The cache without it, but still with them.
Dropped(ca, i) ==
  [ca EXCEPT
     !.nodes = @ \ {i},
     !.inDegree[i] = 0,
     !.outgoing = [j \in Id |-> IF j = i THEN {} ELSE @[j] \ Into(ca, i)]]

\* The connections that go are finitely many connections of the cache.
LEMMA GoneIsFinite ==
  ASSUME NEW ca \in Cached, NEW i
  PROVE  IsFiniteSet(Gone(ca, i)) /\ Gone(ca, i) \in SUBSET DOMAIN ca.links
<1>1. IsFiniteSet(DOMAIN ca.links)
  BY CachedParts
<1>2. Gone(ca, i) \in SUBSET DOMAIN ca.links
  BY DEF Gone, Into, From
<1> QED
  BY <1>1, <1>2, FS_Subset

\* The component itself goes first.
LEMMA DroppedParts ==
  ASSUME NEW ca \in Cached, NEW i \in Id
  PROVE  /\ Dropped(ca, i) \in Cached
         /\ Dropped(ca, i).nodes = ca.nodes \ {i}
         /\ Dropped(ca, i).links = ca.links
         /\ \A j \in Id : Dropped(ca, i).outgoing[j] =
              IF j = i THEN {} ELSE ca.outgoing[j] \ Into(ca, i)
         /\ \A j \in Id : Dropped(ca, i).inDegree[j] =
              IF j = i THEN 0 ELSE ca.inDegree[j]
<1> DEFINE o == [j \in Id |-> IF j = i THEN {} ELSE ca.outgoing[j] \ Into(ca, i)]
           g == [ca.inDegree EXCEPT ![i] = 0]
           n == ca.nodes \ {i}
<1>1. /\ ca = [nodes |-> ca.nodes, links |-> ca.links,
               outgoing |-> ca.outgoing, inDegree |-> ca.inDegree]
      /\ ca.nodes \in SUBSET Id
      /\ DOMAIN ca.links \in SUBSET ConnectionId /\ IsFiniteSet(DOMAIN ca.links)
      /\ ca.links \in [DOMAIN ca.links -> EndPairs]
      /\ ca.outgoing \in [Id -> SUBSET ConnectionId]
      /\ ca.inDegree \in [Id -> Nat]
  BY CachedParts
<1>2. Dropped(ca, i) = [nodes |-> n, links |-> ca.links, outgoing |-> o, inDegree |-> g]
  <2>1. Dropped(ca, i) =
          [ca EXCEPT
             !.nodes = @ \ {i},
             !.inDegree[i] = 0,
             !.outgoing = [j \in Id |-> IF j = i THEN {} ELSE @[j] \ Into(ca, i)]]
    BY DEF Dropped
  <2> QED
    BY <1>1, <2>1
<1>3. o \in [Id -> SUBSET ConnectionId]
  <2>1. \A j \in Id : ca.outgoing[j] \ Into(ca, i) \in SUBSET ConnectionId
    BY <1>1
  <2> QED
    BY <2>1
<1>4. g \in [Id -> Nat]
  BY <1>1
<1>5. n \in SUBSET Id
  BY <1>1
<1>6. Dropped(ca, i) \in Cached
  <2> HIDE DEF n, o, g
  <2> QED
    BY <1>1, <1>2, <1>3, <1>4, <1>5, CachedWhole
<1>7. \A j \in Id : o[j] = IF j = i THEN {} ELSE ca.outgoing[j] \ Into(ca, i)
  OBVIOUS
<1>8. \A j \in Id : g[j] = IF j = i THEN 0 ELSE ca.inDegree[j]
  BY <1>1
<1> HIDE DEF o, g
<1> QED
  BY <1>2, <1>6, <1>7, <1>8

\* Then its connections, in some order.
LEMMA WithoutFold ==
  ASSUME NEW ca \in Cached, NEW i \in Id
  PROVE  \E it \in [SUBSET Gone(ca, i) -> Cached] :
           /\ it[{}] = Dropped(ca, i)
           /\ \A s \in SUBSET Gone(ca, i) : s # {} =>
                \E k \in s : it[s] = Unlinked(it[s \ {k}], k)
           /\ \A s \in SUBSET Gone(ca, i) :
                DOMAIN it[s].links = DOMAIN ca.links \ s
           /\ it[Gone(ca, i)] = WithoutComponent(ca, i)
<1> DEFINE S == Gone(ca, i)
           base == Dropped(ca, i)
           pick == [s \in SUBSET S |-> CHOOSE k \in s : TRUE]
           take(x) == IF x[1] \in DOMAIN x[2].links THEN Unlinked(x[2], x[1]) ELSE x[2]
           step == [x \in S \X Cached |-> take(x)]
           Folds(g) == g = [s \in SUBSET S |->
                              IF s = {} THEN base
                              ELSE Unlinked(g[s \ {CHOOSE k \in s : TRUE}],
                                            CHOOSE k \in s : TRUE)]
           Shrinks(g, s) == g[s] \in Cached /\ DOMAIN g[s].links = DOMAIN ca.links \ s
<1>1. /\ IsFiniteSet(S) /\ S \in SUBSET DOMAIN ca.links
      /\ base \in Cached /\ base.links = ca.links
  BY GoneIsFinite, DroppedParts
<1>2. step \in [S \X Cached -> Cached]
  <2>1. \A x \in S \X Cached : take(x) \in Cached
    BY UnlinkedParts
  <2> HIDE DEF take
  <2> QED
    BY <2>1
<1>3. Picks(pick, S)
  BY DEF Picks
<1>4. PICK it \in [SUBSET S -> Cached] : IsFold(it, S, base, pick, step)
  <2> HIDE DEF S, base, pick, step
  <2> QED
    BY <1>1, <1>2, <1>3, FoldExists
<1>5. it[{}] = base
  <2>1. {} \in SUBSET S
    OBVIOUS
  <2> HIDE DEF S, base, pick, step
  <2> QED
    BY <1>4, <2>1 DEF IsFold, FoldStep
<1>6. ASSUME NEW s \in SUBSET S, s # {}
      PROVE  /\ (CHOOSE k \in s : TRUE) \in s
             /\ Shrinks(it, s \ {CHOOSE k \in s : TRUE}) =>
                  /\ it[s] = Unlinked(it[s \ {CHOOSE k \in s : TRUE}],
                                      CHOOSE k \in s : TRUE)
                  /\ Shrinks(it, s)
  <2> DEFINE x == CHOOSE k \in s : TRUE
             r == s \ {x}
  <2>1. pick[s] = x /\ x \in s
    BY <1>6
  <2>2. x \in S /\ x \in DOMAIN ca.links /\ r \in SUBSET S /\ x \notin r
    BY <1>1, <2>1
  <2> SUFFICES ASSUME it[r] \in Cached, DOMAIN it[r].links = DOMAIN ca.links \ r
               PROVE  it[s] = Unlinked(it[r], x) /\ Shrinks(it, s)
    BY <2>1
  <2>3. it[s] = step[<<x, it[r]>>]
    <3> HIDE DEF pick, step, x, base, S
    <3> QED
      BY <1>4, <1>6, <2>1 DEF IsFold, FoldStep
  <2>4. x \in DOMAIN it[r].links
    BY <2>2
  <2>5. step[<<x, it[r]>>] = Unlinked(it[r], x)
    <3> HIDE DEF S, x, r
    <3> QED
      BY <2>2, <2>4
  <2>6. DOMAIN ca.links \ s = (DOMAIN ca.links \ r) \ {x}
    BY <2>1
  <2> HIDE DEF x, r, step
  <2>7. it[s] = Unlinked(it[r], x)
    BY <2>3, <2>5
  <2>8. it[s] \in Cached /\ DOMAIN it[s].links = DOMAIN it[r].links \ {x}
    BY <2>4, <2>7, UnlinkedParts
  <2> QED
    BY <2>6, <2>7, <2>8
<1>7. \A s \in SUBSET S : Shrinks(it, s)
  <2> DEFINE G == {s \in SUBSET S : Shrinks(it, s)}
  <2>1. {} \in G
    BY <1>1, <1>5
  <2>2. ASSUME NEW s \in SUBSET S, s # {}
        PROVE  \E k \in s : Rest(s, k) \in G => s \in G
    <3> HIDE DEF Shrinks
    <3> QED
      BY <1>6, <2>2 DEF Rest
  <2>3. SUBSET S \subseteq G
    <3> HIDE DEF G, S
    <3> QED
      BY <1>1, <2>1, <2>2, SubsetInduction
  <2> HIDE DEF Shrinks
  <2> QED
    BY <2>3
<1>8. Folds(it)
  <2>1. ASSUME NEW s \in SUBSET S, s # {}
        PROVE  it[s] = Unlinked(it[s \ {CHOOSE k \in s : TRUE}], CHOOSE k \in s : TRUE)
    <3>1. s \ {CHOOSE k \in s : TRUE} \in SUBSET S
      BY <1>6
    <3> HIDE DEF Shrinks
    <3> QED
      BY <1>6, <1>7, <2>1, <3>1
  <2> HIDE DEF S, base
  <2> QED
    BY <1>4, <1>5, <2>1
<1> DEFINE g == CHOOSE g : Folds(g)
<1>9. Folds(g)
  <2> HIDE DEF Folds
  <2> QED
    BY <1>8
<1>10. WithoutComponent(ca, i) = g[S]
  BY DEF WithoutComponent, FoldSet, MapThenFoldSet, Gone, Into, From, Dropped
<1> HIDE DEF g
<1>11. g[{}] = base
  BY <1>9
<1>12. ASSUME NEW s \in SUBSET S, s # {}
       PROVE  \E k \in s : g[s] = Unlinked(g[s \ {k}], k)
  <2> DEFINE x == CHOOSE k \in s : TRUE
  <2>1. x \in s
    BY <1>12
  <2>2. g[s] = Unlinked(g[s \ {x}], x)
    BY <1>9, <1>12
  <2> HIDE DEF x
  <2> QED
    BY <2>1, <2>2
<1>13. \A s \in SUBSET S : Shrinks(g, s)
  <2> DEFINE G == {s \in SUBSET S : Shrinks(g, s)}
  <2>1. {} \in G
    BY <1>1, <1>11
  <2>2. ASSUME NEW s \in SUBSET S, s # {}
        PROVE  \E k \in s : Rest(s, k) \in G => s \in G
    <3>1. PICK k \in s : g[s] = Unlinked(g[s \ {k}], k)
      BY <1>12, <2>2
    <3> SUFFICES ASSUME s \ {k} \in G PROVE Shrinks(g, s)
      BY DEF Rest
    <3>2. g[s \ {k}] \in Cached /\ DOMAIN g[s \ {k}].links = DOMAIN ca.links \ (s \ {k})
      OBVIOUS
    <3>3. k \in DOMAIN g[s \ {k}].links
      BY <1>1, <3>2
    <3>4. g[s] \in Cached /\ DOMAIN g[s].links = DOMAIN g[s \ {k}].links \ {k}
      <4> DEFINE a == g[s \ {k}]
      <4>1. a \in Cached /\ k \in DOMAIN a.links /\ g[s] = Unlinked(a, k)
        BY <3>1, <3>2, <3>3
      <4> HIDE DEF a
      <4>2. g[s] \in Cached /\ DOMAIN g[s].links = DOMAIN a.links \ {k}
        BY <4>1, UnlinkedParts
      <4> QED
        BY <4>2 DEF a
    <3> QED
      BY <3>2, <3>4
  <2>3. SUBSET S \subseteq G
    <3> HIDE DEF G, S
    <3> QED
      BY <1>1, <2>1, <2>2, SubsetInduction
  <2> HIDE DEF Shrinks
  <2> QED
    BY <2>3
<1>14. g \in [SUBSET S -> Cached]
  <2>1. g = [s \in SUBSET S |-> g[s]]
    BY <1>9
  <2> HIDE DEF Folds
  <2> QED
    BY <1>13, <2>1
<1> HIDE DEF Folds
<1> QED
  BY <1>10, <1>11, <1>12, <1>13, <1>14

\* What is left of a sound cache is sound.
LEMMA WithoutIsSound ==
  ASSUME NEW ca, Sound(ca), NEW i \in Id
  PROVE  LET r == WithoutComponent(ca, i)
         IN  /\ Sound(r) /\ r.nodes = ca.nodes \ {i}
             /\ DOMAIN r.links = DOMAIN ca.links \ Gone(ca, i)
             /\ \A k \in DOMAIN r.links : r.links[k] = ca.links[k]
<1> DEFINE S == Gone(ca, i)
           r == WithoutComponent(ca, i)
<1>1. ca \in Cached
  BY DEF Sound
<1>2. PICK it \in [SUBSET S -> Cached] :
           /\ it[{}] = Dropped(ca, i)
           /\ \A s \in SUBSET S : s # {} => \E k \in s : it[s] = Unlinked(it[s \ {k}], k)
           /\ \A s \in SUBSET S : DOMAIN it[s].links = DOMAIN ca.links \ s
           /\ it[S] = r
  BY <1>1, WithoutFold
<1>3. /\ IsFiniteSet(S) /\ S \in SUBSET DOMAIN ca.links
      /\ IsFiniteSet(DOMAIN ca.links)
  BY <1>1, GoneIsFinite, CachedParts
<1> DEFINE Left(s, j) == {k \in DOMAIN ca.links \ s : ca.links[k].target = j}
           Good(s) == /\ it[s].nodes = ca.nodes \ {i}
                      /\ \A k \in DOMAIN ca.links \ s : it[s].links[k] = ca.links[k]
                      /\ \A j \in Id : it[s].outgoing[j] =
                           IF j = i THEN {} ELSE From(ca, j) \ Into(ca, i)
                      /\ \A j \in Id : it[s].inDegree[j] =
                           IF j = i THEN 0 ELSE Cardinality(Left(s, j))
           G == {s \in SUBSET S : Good(s)}
<1>4. {} \in G
  <2>1. \A j \in Id : Left({}, j) = Into(ca, j)
    BY DEF Into
  <2>2. /\ Dropped(ca, i).nodes = ca.nodes \ {i}
        /\ Dropped(ca, i).links = ca.links
    BY <1>1, DroppedParts
  <2>3. \A j \in Id : Dropped(ca, i).outgoing[j] =
          IF j = i THEN {} ELSE ca.outgoing[j] \ Into(ca, i)
    BY <1>1, DroppedParts
  <2>4. \A j \in Id : Dropped(ca, i).inDegree[j] =
          IF j = i THEN 0 ELSE ca.inDegree[j]
    BY <1>1, DroppedParts
  <2>5. \A j \in Id : ca.outgoing[j] = From(ca, j)
    BY DEF Sound
  <2>6. \A j \in Id : ca.inDegree[j] = Cardinality(Left({}, j))
    BY <2>1 DEF Sound
  <2> HIDE DEF Left
  <2>7. Good({})
    BY <1>2, <2>2, <2>3, <2>4, <2>5, <2>6
  <2> QED
    BY <2>7
<1>5. ASSUME NEW s \in SUBSET S, s # {}
      PROVE  \E k \in s : Rest(s, k) \in G => s \in G
  <2>1. PICK k \in s : it[s] = Unlinked(it[s \ {k}], k)
    BY <1>2, <1>5
  <2> SUFFICES ASSUME s \ {k} \in G PROVE Good(s)
    BY DEF Rest
  <2> DEFINE t == s \ {k}
             a == it[t]
             e == ca.links[k]
  <2>2. /\ a.nodes = ca.nodes \ {i}
        /\ \A m \in DOMAIN ca.links \ t : a.links[m] = ca.links[m]
        /\ \A j \in Id : a.outgoing[j] =
             IF j = i THEN {} ELSE From(ca, j) \ Into(ca, i)
        /\ \A j \in Id : a.inDegree[j] =
             IF j = i THEN 0 ELSE Cardinality(Left(t, j))
    OBVIOUS
  <2>3. /\ a \in Cached /\ DOMAIN a.links = DOMAIN ca.links \ t
        /\ k \in DOMAIN ca.links /\ k \notin t /\ k \in S
    BY <1>2, <1>3
  <2>4. k \in DOMAIN a.links /\ a.links[k] = e
    BY <2>2, <2>3
  <2>5. it[s] = Unlinked(a, k)
    BY <2>1
  <2>6. e.source = i \/ e.target = i
    BY <2>3 DEF Gone, Into, From
  <2>7. e.source \in Id /\ e.target \in Id /\ e.target \in ca.nodes
    BY <1>1, <2>3, CachedParts DEF EndPairs, Sound
  <2>8. \A j \in Id : Left(s, j) = IF j = e.target THEN Left(t, j) \ {k} ELSE Left(t, j)
    BY <2>3
  <2>9. \A j \in Id : j = e.target => k \in Left(t, j)
    BY <2>3
  <2>10. \A j \in Id : IsFiniteSet(Left(t, j)) /\ Cardinality(Left(t, j)) \in Nat
    <3>1. \A j \in Id : Left(t, j) \in SUBSET DOMAIN ca.links
      OBVIOUS
    <3> HIDE DEF Left
    <3> QED
      BY <1>3, <3>1, FS_Subset, FS_CardinalityType
  <2>11. \A m \in DOMAIN ca.links \ s : m \in DOMAIN ca.links \ t /\ m # k
    BY <2>3
  <2> HIDE DEF a, e, Left, t
  <2>12. it[s].nodes = ca.nodes \ {i}
    <3>1. it[s].nodes = a.nodes
      BY <2>3, <2>4, <2>5, UnlinkedParts
    <3> QED
      BY <2>2, <3>1
  <2>13. \A m \in DOMAIN ca.links \ s : it[s].links[m] = ca.links[m]
    <3>1. \A m \in DOMAIN a.links : m # k => it[s].links[m] = a.links[m]
      BY <2>3, <2>4, <2>5, UnlinkedParts
    <3> QED
      BY <2>2, <2>3, <2>11, <3>1
  <2>14. ASSUME NEW j \in Id
         PROVE it[s].outgoing[j] = IF j = i THEN {} ELSE From(ca, j) \ Into(ca, i)
    <3>1. it[s].outgoing[j] = IF j = e.source THEN a.outgoing[j] \ {k} ELSE a.outgoing[j]
      <4>1. \A x \in Id : Unlinked(a, k).outgoing[x] =
              IF x = a.links[k].source THEN a.outgoing[x] \ {k} ELSE a.outgoing[x]
        <5>1. a \in Cached /\ k \in DOMAIN a.links
          BY <2>3, <2>4
        <5>2. /\ Unlinked(a, k) \in Cached
              /\ Unlinked(a, k).nodes = a.nodes
              /\ DOMAIN Unlinked(a, k).links = DOMAIN a.links \ {k}
              /\ \A m \in DOMAIN a.links : m # k =>
                   Unlinked(a, k).links[m] = a.links[m]
              /\ \A x \in Id : Unlinked(a, k).outgoing[x] =
                   IF x = a.links[k].source THEN a.outgoing[x] \ {k} ELSE a.outgoing[x]
              /\ \A x \in Id : Unlinked(a, k).inDegree[x] =
                   IF x = a.links[k].target /\ x \in a.nodes /\ a.inDegree[x] > 0
                   THEN a.inDegree[x] - 1 ELSE a.inDegree[x]
          BY <5>1, UnlinkedParts, Zenon
        <5> QED
          BY <5>2
      <4> QED
        BY <2>4, <2>5, <4>1
    <3>2. CASE j = i
      BY <2>2, <3>1, <3>2
    <3>3. CASE j # i
      <4>1. j = e.source => k \in Into(ca, i)
        BY <2>3, <2>6, <3>3 DEF Into, e
      <4>2. a.outgoing[j] = From(ca, j) \ Into(ca, i)
        BY <2>2, <3>3
      <4>3. it[s].outgoing[j] = a.outgoing[j]
        BY <3>1, <4>1, <4>2
      <4> QED
        BY <3>3, <4>2, <4>3
    <3> QED
      BY <3>2, <3>3
  <2>15. ASSUME NEW j \in Id
         PROVE it[s].inDegree[j] = IF j = i THEN 0 ELSE Cardinality(Left(s, j))
    <3>1. it[s].inDegree[j] =
            IF j = e.target /\ j \in a.nodes /\ a.inDegree[j] > 0
            THEN a.inDegree[j] - 1 ELSE a.inDegree[j]
      BY <2>3, <2>4, <2>5, UnlinkedParts
    <3>2. CASE j = i
      BY <2>2, <3>1, <3>2
    <3>3. CASE j # i /\ j # e.target
      BY <2>2, <2>8, <3>1, <3>3
    <3>4. CASE j # i /\ j = e.target
      <4>1. a.inDegree[j] = Cardinality(Left(t, j))
        BY <2>2, <3>4
      <4>2. k \in Left(t, j) /\ Left(s, j) = Left(t, j) \ {k}
        BY <2>8, <2>9, <3>4
      <4>3. Cardinality(Left(s, j)) = Cardinality(Left(t, j)) - 1
        <5>1. IsFiniteSet(Left(t, j))
          BY <2>10
        <5>2. Cardinality(Left(t, j) \ {k}) =
                IF k \in Left(t, j) THEN Cardinality(Left(t, j)) - 1
                ELSE Cardinality(Left(t, j))
          BY <5>1, FS_RemoveElement
        <5> QED
          BY <4>2, <5>2
      <4>4. Cardinality(Left(t, j)) > 0
        BY <2>10, <4>2, FS_EmptySet
      <4>5. j \in a.nodes
        BY <2>2, <2>7, <3>4
      <4> QED
        BY <3>1, <3>4, <4>1, <4>3, <4>4, <4>5
    <3> QED
      BY <3>2, <3>3, <3>4
  <2> QED
    BY <2>12, <2>13, <2>14, <2>15
<1>6. SUBSET S \subseteq G
  <2> HIDE DEF G, S
  <2> QED
    BY <1>3, <1>4, <1>5, SubsetInduction
<1>7. Good(S)
  BY <1>6
<1>8. /\ r \in Cached /\ r.nodes = ca.nodes \ {i}
      /\ DOMAIN r.links = DOMAIN ca.links \ S
      /\ \A k \in DOMAIN ca.links \ S : r.links[k] = ca.links[k]
      /\ \A j \in Id : r.outgoing[j] =
           IF j = i THEN {} ELSE From(ca, j) \ Into(ca, i)
      /\ \A j \in Id : r.inDegree[j] =
           IF j = i THEN 0 ELSE Cardinality(Left(S, j))
  <2>1. it[S] \in Cached /\ DOMAIN it[S].links = DOMAIN ca.links \ S /\ it[S] = r
    BY <1>2
  <2> HIDE DEF r, S, Left
  <2> QED
    BY <1>7, <2>1
<1>9. \A k \in DOMAIN ca.links : k \in S <=> ca.links[k].source = i \/ ca.links[k].target = i
  BY DEF Gone, Into, From
<1> HIDE DEF r, S
<1>10. \A k \in DOMAIN r.links : r.links[k] = ca.links[k]
  BY <1>8
<1>11. \A k \in DOMAIN r.links :
         r.links[k].source \in r.nodes /\ r.links[k].target \in r.nodes
  BY <1>8, <1>9, <1>10 DEF Sound
<1>12. ASSUME NEW j \in Id PROVE r.outgoing[j] = From(r, j)
  <2>1. From(r, j) = IF j = i THEN {} ELSE From(ca, j) \ Into(ca, i)
    BY <1>8, <1>9, <1>10 DEF From, Into
  <2> QED
    BY <1>8, <2>1
<1>13. ASSUME NEW j \in Id PROVE r.inDegree[j] = Cardinality(Into(r, j))
  <2>1. CASE j = i
    <3>1. Into(r, j) = {}
      BY <1>8, <1>9, <1>10, <2>1 DEF Into
    <3> QED
      BY <1>8, <2>1, <3>1, FS_EmptySet
  <2>2. CASE j # i
    <3>1. Into(r, j) = Left(S, j)
      BY <1>8, <1>10 DEF Into
    <3> QED
      BY <1>8, <2>2, <3>1
  <2> QED
    BY <2>1, <2>2
<1>14. Sound(r)
  BY <1>8, <1>11, <1>12, <1>13 DEF Sound
<1> QED
  BY <1>8, <1>10, <1>14 DEF r, S

-----------------------------------------------------------------------------
(* Bringing the cache up to date. *)

\* Refreshing a connection leaves a cache,
LEMMA RefreshConnectionIsCache ==
  ASSUME GraphOK, NEW k \in ConnectionId, NEW ca \in Cached
  PROVE  RefreshConnection(k, ca) \in Cached
<1> DEFINE old == IF k \in DOMAIN ca.links THEN Unlinked(ca, k) ELSE ca
           c == CHOOSE c \in Carrying(k) : TRUE
<1>1. old \in Cached
  BY UnlinkedParts
<1>2. RefreshConnection(k, ca) =
        IF Carrying(k) = {} THEN old ELSE Linked(old, k, Ends(c))
  BY DEF RefreshConnection
<1>3. Carrying(k) # {} => c \in connections
  BY DEF Carrying
<1> HIDE DEF old, c
<1>4. CASE Carrying(k) = {}
  BY <1>1, <1>2, <1>4
<1>5. CASE Carrying(k) # {}
  BY <1>1, <1>2, <1>3, <1>5, LinkParts, LinkedParts
<1> QED
  BY <1>4, <1>5

\* and a component too.
LEMMA RefreshComponentIsCache ==
  ASSUME NEW i \in Id, NEW ca \in Cached
  PROVE  RefreshComponent(i, ca) \in Cached
<1>1. CASE i \in components
  <2>1. /\ ca = [nodes |-> ca.nodes, links |-> ca.links,
                 outgoing |-> ca.outgoing, inDegree |-> ca.inDegree]
        /\ ca.nodes \in SUBSET Id
        /\ DOMAIN ca.links \in SUBSET ConnectionId /\ IsFiniteSet(DOMAIN ca.links)
        /\ ca.links \in [DOMAIN ca.links -> EndPairs]
        /\ ca.outgoing \in [Id -> SUBSET ConnectionId]
        /\ ca.inDegree \in [Id -> Nat]
    BY CachedParts
  <2>2. [ca EXCEPT !.nodes = @ \cup {i}] =
          [nodes |-> ca.nodes \cup {i}, links |-> ca.links,
           outgoing |-> ca.outgoing, inDegree |-> ca.inDegree]
    <3> DEFINE n == ca.nodes \cup {i}
               r == [ca EXCEPT !.nodes = n]
    <3>1. r = [nodes |-> n, links |-> ca.links,
               outgoing |-> ca.outgoing, inDegree |-> ca.inDegree]
      <4> HIDE DEF n
      <4> QED
        BY <2>1
    <3> QED
      BY <3>1
  <2>3. ca.nodes \cup {i} \in SUBSET Id
    BY <2>1
  <2> QED
    BY <1>1, <2>1, <2>2, <2>3, CachedWhole DEF RefreshComponent
<1>2. CASE i \notin components
  <2>1. WithoutComponent(ca, i) \in Cached
    <3>1. PICK it \in [SUBSET Gone(ca, i) -> Cached] :
               it[Gone(ca, i)] = WithoutComponent(ca, i)
      BY WithoutFold
    <3>2. Gone(ca, i) \in SUBSET Gone(ca, i)
      OBVIOUS
    <3> QED
      BY <3>1, <3>2
  <2> QED
    BY <1>2, <2>1 DEF RefreshComponent
<1> QED
  BY <1>1, <1>2

\* Refreshing a connection puts it right and leaves the others as they are.
LEMMA RefreshConnectionIsExact ==
  ASSUME GraphOK, Tidy, NEW ca, Sound(ca), ca.nodes = components,
         NEW k \in ConnectionId
  PROVE  LET r == RefreshConnection(k, ca)
         IN  /\ Sound(r) /\ r.nodes = components
             /\ Holds(r, k)
             /\ \A j \in ConnectionId : j # k /\ Holds(ca, j) => Holds(r, j)
<1> DEFINE old == IF k \in DOMAIN ca.links THEN Unlinked(ca, k) ELSE ca
           c == CHOOSE c \in Carrying(k) : TRUE
           r == RefreshConnection(k, ca)
<1>1. ca \in Cached
  BY DEF Sound
<1>2. r = IF Carrying(k) = {} THEN old ELSE Linked(old, k, Ends(c))
  BY DEF RefreshConnection
<1>3. Carrying(k) # {} => c \in connections /\ link[c].id = k
  BY DEF Carrying
<1>4. /\ Sound(old) /\ old.nodes = components
      /\ DOMAIN old.links = DOMAIN ca.links \ {k}
      /\ \A j \in DOMAIN old.links : old.links[j] = ca.links[j]
  <2>1. CASE k \in DOMAIN ca.links
    <3>1. Sound(Unlinked(ca, k))
      BY <2>1, UnlinkedIsSound
    <3>2. /\ Unlinked(ca, k).nodes = ca.nodes
          /\ DOMAIN Unlinked(ca, k).links = DOMAIN ca.links \ {k}
          /\ \A j \in DOMAIN ca.links : j # k =>
               Unlinked(ca, k).links[j] = ca.links[j]
      BY <1>1, <2>1, UnlinkedParts
    <3> QED
      BY <2>1, <3>1, <3>2
  <2>2. CASE k \notin DOMAIN ca.links
    BY <2>2
  <2> QED
    BY <2>1, <2>2
<1> HIDE DEF old, c, r
<1>5. CASE Carrying(k) = {}
  <2>1. r = old
    BY <1>2, <1>5
  <2>2. \A d \in connections : link[d].id # k
    BY <1>5 DEF Carrying
  <2>3. Holds(r, k)
    BY <1>4, <2>1, <2>2 DEF Holds
  <2>4. ASSUME NEW j \in ConnectionId, j # k, Holds(ca, j) PROVE Holds(r, j)
    BY <1>4, <2>1, <2>4 DEF Holds
  <2> QED
    BY <1>4, <2>1, <2>3, <2>4 DEF r
<1>6. CASE Carrying(k) # {}
  <2> DEFINE e == Ends(c)
  <2>1. c \in connections /\ link[c].id = k
    BY <1>3, <1>6
  <2>2. /\ e \in EndPairs /\ e.source \in components /\ e.target \in components
    BY <2>1, LinkParts DEF Tidy
  <2>3. \A d \in connections : link[d].id = k => d = c
    BY <2>1 DEF Tidy
  <2>4. r = Linked(old, k, e)
    BY <1>2, <1>6
  <2>5. old \in Cached /\ k \notin DOMAIN old.links
    BY <1>4 DEF Sound
  <2> HIDE DEF e
  <2>6. Sound(r)
    BY <1>4, <2>2, <2>4, <2>5, LinkedIsSound
  <2>7. /\ r.nodes = old.nodes
        /\ DOMAIN r.links = DOMAIN old.links \cup {k}
        /\ r.links[k] = e
        /\ \A j \in DOMAIN old.links : j # k => r.links[j] = old.links[j]
    BY <2>2, <2>4, <2>5, LinkedParts
  <2>8. Holds(r, k)
    BY <2>1, <2>3, <2>7 DEF Holds, e
  <2>9. ASSUME NEW j \in ConnectionId, j # k, Holds(ca, j) PROVE Holds(r, j)
    <3>1. j \in DOMAIN r.links <=> j \in DOMAIN ca.links
      BY <1>4, <2>7, <2>9
    <3>2. j \in DOMAIN ca.links => r.links[j] = ca.links[j]
      BY <1>4, <2>7, <2>9
    <3> QED
      BY <2>9, <3>1, <3>2 DEF Holds
  <2> QED
    BY <1>4, <2>6, <2>7, <2>8, <2>9 DEF r
<1> QED
  BY <1>5, <1>6

\* Refreshing a component does, too; in a tidy graph no connection that the
\* cache holds as it is goes with it.
LEMMA RefreshComponentIsExact ==
  ASSUME GraphOK, Tidy, NEW ca, Sound(ca), NEW i \in Id
  PROVE  LET r == RefreshComponent(i, ca)
         IN  /\ Sound(r)
             /\ i \in r.nodes <=> i \in components
             /\ \A j \in Id : j # i => (j \in r.nodes <=> j \in ca.nodes)
             /\ \A k \in ConnectionId : Holds(ca, k) => Holds(r, k)
<1> DEFINE r == RefreshComponent(i, ca)
<1>1. ca \in Cached /\ r \in Cached
  BY RefreshComponentIsCache DEF Sound
<1>2. CASE i \in components
  <2>1. r = [ca EXCEPT !.nodes = @ \cup {i}]
    BY <1>2 DEF RefreshComponent
  <2>2. ca = [nodes |-> ca.nodes, links |-> ca.links,
                 outgoing |-> ca.outgoing, inDegree |-> ca.inDegree]
    BY <1>1, CachedParts
  <2>3. /\ r.nodes = ca.nodes \cup {i} /\ r.links = ca.links
        /\ r.outgoing = ca.outgoing /\ r.inDegree = ca.inDegree
    BY <2>1, <2>2
  <2> HIDE DEF r
  <2>4. \A j \in Id : From(r, j) = From(ca, j) /\ Into(r, j) = Into(ca, j)
    BY <2>3 DEF From, Into
  <2>5. Sound(r)
    BY <1>1, <2>3, <2>4 DEF Sound
  <2>6. \A k \in ConnectionId : Holds(ca, k) => Holds(r, k)
    BY <2>3 DEF Holds
  <2> QED
    BY <1>2, <2>3, <2>5, <2>6 DEF r
<1>3. CASE i \notin components
  <2>1. r = WithoutComponent(ca, i)
    BY <1>3 DEF RefreshComponent
  <2>2. /\ Sound(r) /\ r.nodes = ca.nodes \ {i}
        /\ DOMAIN r.links = DOMAIN ca.links \ Gone(ca, i)
        /\ \A k \in DOMAIN r.links : r.links[k] = ca.links[k]
    BY <2>1, WithoutIsSound
  <2> HIDE DEF r
  <2>3. ASSUME NEW k \in ConnectionId, Holds(ca, k) PROVE Holds(r, k)
    <3>1. k \notin Gone(ca, i)
      <4> SUFFICES ASSUME k \in DOMAIN ca.links
                   PROVE  ca.links[k].source # i /\ ca.links[k].target # i
        BY DEF Gone, Into, From
      <4>1. PICK c \in connections : link[c].id = k
        BY <2>3 DEF Holds
      <4>2. ca.links[k] = Ends(c)
        BY <2>3, <4>1 DEF Holds
      <4> QED
        BY <1>3, <4>1, <4>2, LinkParts DEF Tidy
    <3>2. k \in DOMAIN r.links <=> k \in DOMAIN ca.links
      BY <2>2, <3>1
    <3>3. k \in DOMAIN ca.links => r.links[k] = ca.links[k]
      BY <2>2, <3>2
    <3> QED
      BY <2>3, <3>2, <3>3 DEF Holds
  <2> QED
    BY <1>3, <2>2, <2>3 DEF r
<1> QED
  BY <1>2, <1>3

\* A set of numbers has a least one.
LEMMA LeastExists ==
  ASSUME NEW S \in SUBSET Nat, S # {}
  PROVE  \E m \in S : \A k \in S : m <= k
<1> DEFINE Less == OpToRel(<, Nat)
<1>1. IsWellFoundedOn(Less, Nat)
  BY NatLessThanWellFounded
<1>2. PICK m \in S : \A k \in S : <<k, m>> \notin Less
  <2> HIDE DEF Less
  <2> QED
    BY <1>1, WFMin
<1>3. \A x, y \in Nat : x < y => <<x, y>> \in Less
  BY DEF OpToRel
<1> HIDE DEF Less
<1>4. \A k \in S : ~(k < m)
  BY <1>2, <1>3
<1> QED
  BY <1>2, <1>4

\* A list of components is refreshed
RefreshedComponents(list, base) == FoldRight(RefreshComponent, list, base)

\* step by step,
ComponentsFoldWith(it, n, list, base) ==
  /\ it[{}] = base
  /\ \A s \in SUBSET (1 .. n) : s # {} =>
       \E i \in s : it[s] = RefreshComponent(list[i], it[s \ {i}])
  /\ it[1 .. n] = RefreshedComponents(list, base)

\* one component after another.
LEMMA ComponentsFold ==
  ASSUME NEW n \in Nat, NEW list \in [1 .. n -> Id], NEW base \in Cached
  PROVE  /\ \E it : ComponentsFoldWith(it, n, list, base)
         /\ RefreshedComponents(list, base) \in Cached
<1> DEFINE S == 1 .. n
           pick == [s \in SUBSET S |-> Min(s)]
           step == [x \in S \X Cached |-> RefreshComponent(list[x[1]], x[2])]
           Folds(g) == g = [s \in SUBSET S |->
                              IF s = {} THEN base
                              ELSE RefreshComponent(list[Min(s)], g[s \ {Min(s)}])]
<1>1. IsFiniteSet(S) /\ S \in SUBSET Nat
  BY FS_Interval
<1>2. step \in [S \X Cached -> Cached]
  <2>1. \A x \in S \X Cached : RefreshComponent(list[x[1]], x[2]) \in Cached
    BY RefreshComponentIsCache
  <2> QED
    BY <2>1
<1>3. ASSUME NEW s \in SUBSET S, s # {} PROVE Min(s) \in s
  <2>1. s \in SUBSET Nat
    BY <1>1
  <2> HIDE DEF S
  <2>2. \E m \in s : \A k \in s : m <= k
    BY <1>3, <2>1, LeastExists
  <2> QED
    BY <2>2 DEF Min
<1>4. Picks(pick, S)
  BY <1>3 DEF Picks
<1>5. PICK it \in [SUBSET S -> Cached] : IsFold(it, S, base, pick, step)
  <2> HIDE DEF S, pick, step
  <2> QED
    BY <1>1, <1>2, <1>4, FoldExists
<1>6. Folds(it)
  <2>1. ASSUME NEW s \in SUBSET S, s # {}
        PROVE  it[s] = RefreshComponent(list[Min(s)], it[s \ {Min(s)}])
    <3> DEFINE x == Min(s)
    <3>1. pick[s] = x /\ x \in s
      BY <1>3, <2>1
    <3>2. x \in S /\ s \ {x} \in SUBSET S
      BY <3>1
    <3>3. it[s \ {x}] \in Cached
      BY <1>5, <3>2
    <3>4. it[s] = step[<<x, it[s \ {x}]>>]
      <4> HIDE DEF pick, step, x, S
      <4> QED
        BY <1>5, <2>1, <3>1 DEF IsFold, FoldStep
    <3> HIDE DEF x, S
    <3>5. it[s] = RefreshComponent(list[x], it[s \ {x}])
      BY <3>2, <3>3, <3>4
    <3> QED
      BY <3>5 DEF x
  <2>2. it[{}] = base
    BY <1>5 DEF IsFold, FoldStep
  <2> HIDE DEF S
  <2> QED
    BY <1>5, <2>1, <2>2
<1> DEFINE g == CHOOSE g : Folds(g)
<1>7. Folds(g)
  <2> HIDE DEF Folds
  <2> QED
    BY <1>6
<1>8. RefreshedComponents(list, base) = g[S]
  <2>1. DOMAIN list = S
    OBVIOUS
  <2> QED
    BY <2>1 DEF RefreshedComponents, FoldRight, MapThenFoldSet
<1> HIDE DEF g
<1>9. g[{}] = base
  BY <1>7
<1>10. ASSUME NEW s \in SUBSET S, s # {}
       PROVE  \E i \in s : g[s] = RefreshComponent(list[i], g[s \ {i}])
  <2>1. g[s] = RefreshComponent(list[Min(s)], g[s \ {Min(s)}])
    BY <1>7, <1>10
  <2> QED
    BY <1>3, <1>10, <2>1
<1>11. g \in [SUBSET S -> Cached]
  <2> DEFINE G == {s \in SUBSET S : g[s] \in Cached}
  <2>1. {} \in G
    BY <1>9
  <2>2. ASSUME NEW s \in SUBSET S, s # {}
        PROVE  \E i \in s : Rest(s, i) \in G => s \in G
    <3>1. PICK i \in s : g[s] = RefreshComponent(list[i], g[s \ {i}])
      BY <1>10, <2>2
    <3>2. list[i] \in Id
      BY <2>2
    <3>3. ASSUME g[s \ {i}] \in Cached PROVE g[s] \in Cached
      BY <3>1, <3>2, <3>3, RefreshComponentIsCache
    <3> QED
      BY <3>3 DEF Rest
  <2>3. SUBSET S \subseteq G
    <3>1. IsFiniteSet(S)
      BY <1>1
    <3> HIDE DEF G, S
    <3> QED
      BY <3>1, <2>1, <2>2, SubsetInduction
  <2>4. \A s \in SUBSET S : g[s] \in Cached
    BY <2>3
  <2>5. g = [s \in SUBSET S |-> g[s]]
    BY <1>7
  <2> QED
    BY <2>4, <2>5
<1>12. g[S] \in Cached
  <2>1. S \in SUBSET S
    OBVIOUS
  <2> HIDE DEF S, Folds
  <2> QED
    BY <1>11, <2>1
<1>13. ComponentsFoldWith(g, n, list, base)
  <2> HIDE DEF Folds
  <2> QED
    BY <1>8, <1>9, <1>10 DEF ComponentsFoldWith
<1> HIDE DEF Folds, S
<1> QED
  BY <1>8, <1>12, <1>13

\* A list of connections is refreshed
RefreshedConnections(list, base) == FoldRight(RefreshConnection, list, base)

\* step by step,
ConnectionsFoldWith(it, n, list, base) ==
  /\ it[{}] = base
  /\ \A s \in SUBSET (1 .. n) : s # {} =>
       \E i \in s : it[s] = RefreshConnection(list[i], it[s \ {i}])
  /\ it[1 .. n] = RefreshedConnections(list, base)

\* one connection after another.
LEMMA ConnectionsFold ==
  ASSUME GraphOK, NEW n \in Nat, NEW list \in [1 .. n -> ConnectionId], NEW base \in Cached
  PROVE  /\ \E it : ConnectionsFoldWith(it, n, list, base)
         /\ RefreshedConnections(list, base) \in Cached
<1> DEFINE S == 1 .. n
           pick == [s \in SUBSET S |-> Min(s)]
           step == [x \in S \X Cached |-> RefreshConnection(list[x[1]], x[2])]
           Folds(g) == g = [s \in SUBSET S |->
                              IF s = {} THEN base
                              ELSE RefreshConnection(list[Min(s)], g[s \ {Min(s)}])]
<1>1. IsFiniteSet(S) /\ S \in SUBSET Nat
  BY FS_Interval
<1>2. step \in [S \X Cached -> Cached]
  <2>1. \A x \in S \X Cached : RefreshConnection(list[x[1]], x[2]) \in Cached
    BY RefreshConnectionIsCache
  <2> QED
    BY <2>1
<1>3. ASSUME NEW s \in SUBSET S, s # {} PROVE Min(s) \in s
  <2>1. s \in SUBSET Nat
    BY <1>1
  <2> HIDE DEF S
  <2>2. \E m \in s : \A k \in s : m <= k
    BY <1>3, <2>1, LeastExists
  <2> QED
    BY <2>2 DEF Min
<1>4. Picks(pick, S)
  BY <1>3 DEF Picks
<1>5. PICK it \in [SUBSET S -> Cached] : IsFold(it, S, base, pick, step)
  <2> HIDE DEF S, pick, step
  <2> QED
    BY <1>1, <1>2, <1>4, FoldExists
<1>6. Folds(it)
  <2>1. ASSUME NEW s \in SUBSET S, s # {}
        PROVE  it[s] = RefreshConnection(list[Min(s)], it[s \ {Min(s)}])
    <3> DEFINE x == Min(s)
    <3>1. pick[s] = x /\ x \in s
      BY <1>3, <2>1
    <3>2. x \in S /\ s \ {x} \in SUBSET S
      BY <3>1
    <3>3. it[s \ {x}] \in Cached
      BY <1>5, <3>2
    <3>4. it[s] = step[<<x, it[s \ {x}]>>]
      <4> HIDE DEF pick, step, x, S
      <4> QED
        BY <1>5, <2>1, <3>1 DEF IsFold, FoldStep
    <3> HIDE DEF x, S
    <3>5. it[s] = RefreshConnection(list[x], it[s \ {x}])
      BY <3>2, <3>3, <3>4
    <3> QED
      BY <3>5 DEF x
  <2>2. it[{}] = base
    BY <1>5 DEF IsFold, FoldStep
  <2> HIDE DEF S
  <2> QED
    BY <1>5, <2>1, <2>2
<1> DEFINE g == CHOOSE g : Folds(g)
<1>7. Folds(g)
  <2> HIDE DEF Folds
  <2> QED
    BY <1>6
<1>8. RefreshedConnections(list, base) = g[S]
  <2>1. DOMAIN list = S
    OBVIOUS
  <2> QED
    BY <2>1 DEF RefreshedConnections, FoldRight, MapThenFoldSet
<1> HIDE DEF g
<1>9. g[{}] = base
  BY <1>7
<1>10. ASSUME NEW s \in SUBSET S, s # {}
       PROVE  \E i \in s : g[s] = RefreshConnection(list[i], g[s \ {i}])
  <2>1. g[s] = RefreshConnection(list[Min(s)], g[s \ {Min(s)}])
    BY <1>7, <1>10
  <2> QED
    BY <1>3, <1>10, <2>1
<1>11. g \in [SUBSET S -> Cached]
  <2> DEFINE G == {s \in SUBSET S : g[s] \in Cached}
  <2>1. {} \in G
    BY <1>9
  <2>2. ASSUME NEW s \in SUBSET S, s # {}
        PROVE  \E i \in s : Rest(s, i) \in G => s \in G
    <3>1. PICK i \in s : g[s] = RefreshConnection(list[i], g[s \ {i}])
      BY <1>10, <2>2
    <3>2. list[i] \in ConnectionId
      BY <2>2
    <3>3. ASSUME g[s \ {i}] \in Cached PROVE g[s] \in Cached
      BY <3>1, <3>2, <3>3, RefreshConnectionIsCache
    <3> QED
      BY <3>3 DEF Rest
  <2>3. SUBSET S \subseteq G
    <3>1. IsFiniteSet(S)
      BY <1>1
    <3> HIDE DEF G, S
    <3> QED
      BY <3>1, <2>1, <2>2, SubsetInduction
  <2>4. \A s \in SUBSET S : g[s] \in Cached
    BY <2>3
  <2>5. g = [s \in SUBSET S |-> g[s]]
    BY <1>7
  <2> QED
    BY <2>4, <2>5
<1>12. g[S] \in Cached
  <2>1. S \in SUBSET S
    OBVIOUS
  <2> HIDE DEF S, Folds
  <2> QED
    BY <1>11, <2>1
<1>13. ConnectionsFoldWith(g, n, list, base)
  <2> HIDE DEF Folds
  <2> QED
    BY <1>8, <1>9, <1>10 DEF ConnectionsFoldWith
<1> HIDE DEF Folds, S
<1> QED
  BY <1>8, <1>12, <1>13

\* The update does one and then the other.
LEMMA UpdatedIsBoth ==
  ASSUME NEW ks, NEW ls
  PROVE  Updated(ks, ls) = RefreshedConnections(ls, RefreshedComponents(ks, cache))
BY DEF Updated, RefreshedConnections, RefreshedComponents

-----------------------------------------------------------------------------
(* The types. *)

(***************************************************************************)
(* The type invariant, and that everything is finite.                      *)
(***************************************************************************)
TInv ==
  /\ TypeOK /\ cache \in Cached
  /\ IsFiniteSet(components) /\ IsFiniteSet(connections)
  /\ IsFiniteSet(dirtyComponents) /\ IsFiniteSet(dirtyConnections)

\* An order of a finite set names every element.
LEMMA OrderNamesAll ==
  ASSUME NEW S, IsFiniteSet(S), NEW f \in SetToSeqs(S)
  PROVE  /\ Cardinality(S) \in Nat /\ f \in [1 .. Cardinality(S) -> S]
         /\ \A x \in S : \E i \in 1 .. Cardinality(S) : f[i] = x
<1> DEFINE n == Cardinality(S)
           D == 1 .. n
<1>1. n \in Nat
  BY FS_CardinalityType
<1>2. f \in [D -> S] /\ \A i, j \in D : i # j => f[i] # f[j]
  BY DEF SetToSeqs
<1>3. IsFiniteSet(D) /\ Cardinality(D) = n
  <2> HIDE DEF n
  <2>1. Cardinality(1 .. n) = IF 1 > n THEN 0 ELSE n - 1 + 1
    BY <1>1, FS_Interval
  <2> QED
    BY <1>1, <2>1, FS_Interval
<1> HIDE DEF D
<1>4. f \in Injection(D, S)
  BY <1>2 DEF Injection, IsInjective
<1>5. f \in Surjection(D, S)
  BY <1>3, <1>4, FS_Injection
<1>6. \A x \in S : \E i \in D : f[i] = x
  BY <1>5 DEF Surjection
<1> QED
  BY <1>1, <1>2, <1>6 DEF D

\* Either way a query leaves a cache.
LEMMA QueryIsCache ==
  ASSUME TInv, Query
  PROVE  cache' \in Cached
<1>1. GraphOK
  BY DEF TInv, TypeOK, GraphOK
<1>2. CASE cache' = Rebuilt
  BY <1>1, <1>2, RebuiltIsCache
<1>3. ASSUME NEW ks \in SetToSeqs(dirtyComponents), NEW ls \in SetToSeqs(dirtyConnections),
             cache' = Updated(ks, ls)
      PROVE  cache' \in Cached
  <2> DEFINE n == Cardinality(dirtyComponents)
             m == Cardinality(dirtyConnections)
             first == RefreshedComponents(ks, cache)
  <2>1. n \in Nat /\ ks \in [1 .. n -> Id]
    <3>1. ks \in [1 .. n -> dirtyComponents] /\ n \in Nat
      BY OrderNamesAll DEF TInv
    <3>2. dirtyComponents \subseteq Id
      BY DEF TInv, TypeOK
    <3> HIDE DEF n
    <3> QED
      BY <3>1, <3>2
  <2>2. m \in Nat /\ ls \in [1 .. m -> ConnectionId]
    <3>1. ls \in [1 .. m -> dirtyConnections] /\ m \in Nat
      BY OrderNamesAll DEF TInv
    <3>2. dirtyConnections \subseteq ConnectionId
      BY DEF TInv, TypeOK
    <3> HIDE DEF m
    <3> QED
      BY <3>1, <3>2
  <2>3. first \in Cached
    <3>1. cache \in Cached
      BY DEF TInv
    <3> HIDE DEF n
    <3> QED
      BY <2>1, <3>1, ComponentsFold
  <2> HIDE DEF first, m
  <2>4. RefreshedConnections(ls, first) \in Cached
    BY <1>1, <2>2, <2>3, ConnectionsFold
  <2>6. cache' = RefreshedConnections(ls, first)
    BY <1>3, UpdatedIsBoth DEF first
  <2> QED
    BY <2>4, <2>6
<1> QED
  BY <1>2, <1>3 DEF Query

\* What the invariant says of an object of the right type.
LEMMA CachedIsTyped ==
  ASSUME NEW ca \in Cached
  PROVE  /\ ca.nodes \subseteq Id /\ DOMAIN ca.links \subseteq ConnectionId
         /\ \A k \in DOMAIN ca.links : ca.links[k] \in [source : Id, target : Id]
         /\ ca.outgoing \in [Id -> SUBSET ConnectionId]
         /\ ca.inDegree \in [Id -> Nat]
<1>1. ca.nodes \in SUBSET Id
  BY CachedParts
<1>2. DOMAIN ca.links \in SUBSET ConnectionId
  BY CachedParts
<1>3. ca.links \in [DOMAIN ca.links -> EndPairs]
  BY CachedParts
<1>4. ca.outgoing \in [Id -> SUBSET ConnectionId]
  BY CachedParts
<1>5. ca.inDegree \in [Id -> Nat]
  BY CachedParts
<1> QED
  BY <1>1, <1>2, <1>3, <1>4, <1>5 DEF EndPairs

\* An empty cache.
LEMMA EmptyIsSound ==
  Sound(EmptyCache) /\ EmptyCache.nodes = {} /\ DOMAIN EmptyCache.links = {}
<1>1. EmptyCache.nodes = {} /\ EmptyCache.links = NoLinks
  BY DEF EmptyCache
<1>2. NoLinks \in [{} -> EndPairs] /\ DOMAIN NoLinks = {}
  BY DEF NoLinks
<1>3. EmptyCache \in Cached
  <2>1. [i \in Id |-> {}] \in [Id -> SUBSET ConnectionId]
    OBVIOUS
  <2>2. [i \in Id |-> 0] \in [Id -> Nat]
    OBVIOUS
  <2>3. {} \in SUBSET ConnectionId /\ {} \in SUBSET Id /\ IsFiniteSet({})
    BY FS_EmptySet
  <2> QED
    BY <1>2, <2>1, <2>2, <2>3, CachedWhole DEF EmptyCache
<1>4. \A i \in Id : EmptyCache.outgoing[i] = From(EmptyCache, i)
  BY <1>1, <1>2 DEF From, EmptyCache
<1>5. \A i \in Id : EmptyCache.inDegree[i] = Cardinality(Into(EmptyCache, i))
  <2>1. \A i \in Id : Into(EmptyCache, i) = {}
    BY <1>1, <1>2 DEF Into
  <2>2. \A i \in Id : EmptyCache.inDegree[i] = 0
    BY DEF EmptyCache
  <2> QED
    BY <2>1, <2>2, FS_EmptySet
<1> QED
  BY <1>1, <1>2, <1>3, <1>4, <1>5 DEF Sound

\* Initially everything is typed and finite,
LEMMA InitTyped == Init => TInv
<1> SUFFICES ASSUME Init PROVE TInv
  OBVIOUS
<1>1. cache \in Cached
  BY EmptyIsSound DEF Init, Sound
<1>2. /\ cache.nodes \subseteq Id /\ DOMAIN cache.links \subseteq ConnectionId
      /\ \A k \in DOMAIN cache.links : cache.links[k] \in [source : Id, target : Id]
      /\ cache.outgoing \in [Id -> SUBSET ConnectionId]
      /\ cache.inDegree \in [Id -> Nat]
  BY <1>1, CachedIsTyped
<1>3. link \in [Connection -> Links]
  BY DEF Init
<1>4. known \in [Id -> Id \cup {Untracked}]
  BY DEF Init
<1>5. tracked \in [Connection -> ConnectionId \cup {Untracked}]
  BY DEF Init
<1>6. TypeOK
  BY <1>2, <1>3, <1>4, <1>5 DEF Init, TypeOK
<1> QED
  BY <1>1, <1>6, FS_EmptySet DEF Init, TInv

\* and every step keeps it so: a step adds at most one object or one mark.
LEMMA StepTyped == TInv /\ [Next]_vars => TInv'
<1> SUFFICES ASSUME TInv, [Next]_vars PROVE TInv'
  OBVIOUS
<1>1. /\ components \subseteq Id /\ connections \subseteq Connection
      /\ link \in [Connection -> Links]
      /\ known \in [Id -> Id \cup {Untracked}]
      /\ tracked \in [Connection -> ConnectionId \cup {Untracked}]
      /\ dirtyComponents \subseteq Id /\ dirtyConnections \subseteq ConnectionId
      /\ fullDirty \in BOOLEAN /\ asked \in BOOLEAN
  BY DEF TInv, TypeOK
<1>2. cache \in Cached
  BY DEF TInv
<1>3. /\ IsFiniteSet(components) /\ IsFiniteSet(connections)
      /\ IsFiniteSet(dirtyComponents) /\ IsFiniteSet(dirtyConnections)
  BY DEF TInv
<1>4. \A S, x : IsFiniteSet(S) => IsFiniteSet(S \cup {x}) /\ IsFiniteSet(S \ {x})
  BY FS_AddElement, FS_RemoveElement
<1> DEFINE Types ==
             /\ components \subseteq Id /\ connections \subseteq Connection
             /\ link \in [Connection -> Links]
             /\ known \in [Id -> Id \cup {Untracked}]
             /\ tracked \in [Connection -> ConnectionId \cup {Untracked}]
             /\ dirtyComponents \subseteq Id /\ dirtyConnections \subseteq ConnectionId
             /\ fullDirty \in BOOLEAN /\ asked \in BOOLEAN
           Sizes ==
             /\ IsFiniteSet(components) /\ IsFiniteSet(connections)
             /\ IsFiniteSet(dirtyComponents) /\ IsFiniteSet(dirtyConnections)
<1>5. ASSUME Types', Sizes', cache' \in Cached PROVE TInv'
  <2>1. /\ cache'.nodes \subseteq Id /\ DOMAIN cache'.links \subseteq ConnectionId
        /\ \A k \in DOMAIN cache'.links : cache'.links[k] \in [source : Id, target : Id]
        /\ cache'.outgoing \in [Id -> SUBSET ConnectionId]
        /\ cache'.inDegree \in [Id -> Nat]
    BY <1>5, CachedIsTyped
  <2> QED
    BY <1>5, <2>1 DEF TInv, TypeOK
<1>6. CASE Query
  BY <1>1, <1>3, <1>5, <1>6, QueryIsCache, FS_EmptySet
  DEF Query, graph, memory, TInv
<1>7. ASSUME NEW i \in Id, AddComponent(i) PROVE TInv'
  BY <1>1, <1>2, <1>3, <1>4, <1>5, <1>7 DEF AddComponent, Quiet
<1>8. ASSUME NEW i \in Id, RemoveComponent(i) PROVE TInv'
  <2>1. known' \in [Id -> Id \cup {Untracked}]
    BY <1>1, <1>8 DEF RemoveComponent
  <2> QED
    BY <1>1, <1>2, <1>3, <1>4, <1>5, <1>8, <2>1 DEF RemoveComponent, Quiet
<1>9. ASSUME NEW i \in Id, NEW j \in Id, RenameComponent(i, j) PROVE TInv'
  <2>1. known' \in [Id -> Id \cup {Untracked}]
    BY <1>1, <1>9 DEF RenameComponent
  <2>2. components' \subseteq Id /\ IsFiniteSet(components')
    BY <1>1, <1>3, <1>4, <1>9 DEF RenameComponent
  <2>3. fullDirty' \in BOOLEAN
    BY <1>9 DEF RenameComponent
  <2> QED
    BY <1>1, <1>2, <1>3, <1>4, <1>5, <1>9, <2>1, <2>2, <2>3 DEF RenameComponent, Quiet
<1>10. ASSUME NEW c \in Connection, NEW e \in Links, AddConnection(c, e) PROVE TInv'
  <2>1. e.id \in ConnectionId
    BY DEF Links
  <2> QED
    BY <1>1, <1>2, <1>3, <1>4, <1>5, <1>10, <2>1 DEF AddConnection, Quiet
<1>11. ASSUME NEW c \in Connection, RemoveConnection(c) PROVE TInv'
  <2>1. link[c].id \in ConnectionId
    BY <1>1 DEF Links
  <2>2. tracked' \in [Connection -> ConnectionId \cup {Untracked}]
    BY <1>1, <1>11 DEF RemoveConnection
  <2> QED
    BY <1>1, <1>2, <1>3, <1>4, <1>5, <1>11, <2>1, <2>2 DEF RemoveConnection, Quiet
<1>12. ASSUME NEW c \in Connection, NEW k \in ConnectionId, RenameConnection(c, k)
       PROVE  TInv'
  <2>1. link' \in [Connection -> Links]
    <3>1. [link[c] EXCEPT !.id = k] \in Links
      BY <1>1 DEF Links
    <3> QED
      BY <1>1, <1>12, <3>1 DEF RenameConnection
  <2>2. fullDirty' \in BOOLEAN
    BY <1>12 DEF RenameConnection
  <2> QED
    BY <1>1, <1>2, <1>3, <1>5, <1>12, <2>1, <2>2 DEF RenameConnection, Quiet, memory
<1>13. ASSUME NEW c \in Connection, NEW s \in Id, NEW t \in Id, Retarget(c, s, t)
       PROVE  TInv'
  <2>1. link' \in [Connection -> Links]
    <3>1. [link[c] EXCEPT !.source = s, !.target = t] \in Links
      BY <1>1 DEF Links
    <3> QED
      BY <1>1, <1>13, <3>1 DEF Retarget
  <2>2. /\ dirtyConnections' \subseteq ConnectionId
        /\ IsFiniteSet(dirtyConnections')
    <3>1. tracked[c] \in ConnectionId \cup {Untracked}
      BY <1>1
    <3>2. dirtyConnections' = dirtyConnections \cup ({tracked[c]} \ {Untracked})
      BY <1>13 DEF Retarget
    <3>3. CASE tracked[c] = Untracked
      BY <1>1, <1>3, <3>2, <3>3
    <3>4. CASE tracked[c] # Untracked
      <4>1. dirtyConnections' = dirtyConnections \cup {tracked[c]}
        BY <3>2, <3>4
      <4> QED
        BY <1>1, <1>3, <1>4, <3>1, <3>4, <4>1
    <3> QED
      BY <3>3, <3>4
  <2> QED
    BY <1>1, <1>2, <1>3, <1>5, <1>13, <2>1, <2>2 DEF Retarget, Quiet, memory
<1>14. CASE Clear
  BY <1>1, <1>2, <1>3, <1>5, <1>14, FS_EmptySet DEF Clear, Quiet, memory, marks
<1>15. CASE SetGraph
  <2>1. cache' \in Cached
    BY <1>15, EmptyIsSound DEF SetGraph, Sound
  <2> QED
    BY <1>1, <1>5, <1>15, <2>1, FS_EmptySet DEF SetGraph
<1>16. CASE UNCHANGED vars
  BY <1>1, <1>2, <1>3, <1>5, <1>16 DEF vars, graph, memory, marks
<1> QED
  BY <1>6, <1>7, <1>8, <1>9, <1>10, <1>11, <1>12, <1>13, <1>14, <1>15, <1>16 DEF Next

(***************************************************************************)
(* The engine's variables have their types, in particular no count goes    *)
(* below zero, whatever the callers do: also after a clear or with edits   *)
(* of renamed objects, where the cache is not the graph.                   *)
(***************************************************************************)
THEOREM TraversalTypeCorrect == Spec => []TypeOK
<1>1. TInv => TypeOK
  BY DEF TInv
<1> QED
  BY <1>1, InitTyped, StepTyped, PTL DEF Spec

-----------------------------------------------------------------------------
(* The cache is current. *)

\* The cache has a component as the graph has it.
Agrees(ca, i) == i \in ca.nodes <=> i \in components

\* Refreshing a list of components puts right those it names.
LEMMA ComponentsRefreshed ==
  ASSUME GraphOK, Tidy, NEW n \in Nat, NEW list \in [1 .. n -> Id],
         NEW base, Sound(base)
  PROVE  LET r == RefreshedComponents(list, base)
         IN  /\ Sound(r)
             /\ \A i \in Id : (\E p \in 1 .. n : list[p] = i) \/ Agrees(base, i)
                              => Agrees(r, i)
             /\ \A k \in ConnectionId : Holds(base, k) => Holds(r, k)
<1>1. base \in Cached
  BY DEF Sound
<1>2. PICK it : ComponentsFoldWith(it, n, list, base)
  BY <1>1, ComponentsFold
<1> DEFINE S == 1 .. n
           Good(s) ==
             /\ Sound(it[s])
             /\ \A i \in Id : (\E p \in s : list[p] = i) \/ Agrees(base, i)
                              => Agrees(it[s], i)
             /\ \A k \in ConnectionId : Holds(base, k) => Holds(it[s], k)
           G == {s \in SUBSET S : Good(s)}
<1>3. {} \in G
  <2>1. it[{}] = base
    BY <1>2 DEF ComponentsFoldWith
  <2>2. Good({})
    BY <2>1
  <2> QED
    BY <2>2
<1>4. ASSUME NEW s \in SUBSET S, s # {}
      PROVE  \E q \in s : Rest(s, q) \in G => s \in G
  <2>1. PICK q \in s : it[s] = RefreshComponent(list[q], it[s \ {q}])
    BY <1>2, <1>4 DEF ComponentsFoldWith
  <2> SUFFICES ASSUME Good(s \ {q}) PROVE Good(s)
    BY DEF Rest
  <2> DEFINE a == it[s \ {q}]
             x == list[q]
             r == it[s]
  <2>2. /\ Sound(a)
        /\ \A i \in Id : (\E p \in s \ {q} : list[p] = i) \/ Agrees(base, i)
                         => Agrees(a, i)
        /\ \A k \in ConnectionId : Holds(base, k) => Holds(a, k)
    OBVIOUS
  <2>3. x \in Id /\ r = RefreshComponent(x, a)
    BY <2>1
  <2> HIDE DEF a, r
  <2>4. /\ Sound(r)
        /\ x \in r.nodes <=> x \in components
        /\ \A j \in Id : j # x => (j \in r.nodes <=> j \in a.nodes)
        /\ \A k \in ConnectionId : Holds(a, k) => Holds(r, k)
    BY <2>2, <2>3, RefreshComponentIsExact
  <2>5. ASSUME NEW i \in Id, (\E p \in s : list[p] = i) \/ Agrees(base, i)
        PROVE  Agrees(r, i)
    <3>1. CASE i = x
      BY <2>4, <3>1 DEF Agrees
    <3>2. CASE i # x
      <4>1. (\E p \in s \ {q} : list[p] = i) \/ Agrees(base, i)
        BY <2>5, <3>2
      <4>2. Agrees(a, i)
        BY <2>2, <4>1
      <4> QED
        BY <2>4, <3>2, <4>2 DEF Agrees
    <3> QED
      BY <3>1, <3>2
  <2>6. \A k \in ConnectionId : Holds(base, k) => Holds(r, k)
    BY <2>2, <2>4
  <2> QED
    BY <2>4, <2>5, <2>6 DEF r
<1>5. IsFiniteSet(S)
  BY FS_Interval
<1>6. SUBSET S \subseteq G
  <2> HIDE DEF G, S
  <2> QED
    BY <1>3, <1>4, <1>5, SubsetInduction
<1>7. Good(S)
  BY <1>6
<1>8. it[S] = RefreshedComponents(list, base)
  BY <1>2 DEF ComponentsFoldWith
<1> QED
  BY <1>7, <1>8

\* Refreshing a list of connections puts right those it names.
LEMMA ConnectionsRefreshed ==
  ASSUME GraphOK, Tidy, NEW n \in Nat, NEW list \in [1 .. n -> ConnectionId],
         NEW base, Sound(base), base.nodes = components
  PROVE  LET r == RefreshedConnections(list, base)
         IN  /\ Sound(r) /\ r.nodes = components
             /\ \A k \in ConnectionId : (\E p \in 1 .. n : list[p] = k) \/ Holds(base, k)
                                        => Holds(r, k)
<1>1. base \in Cached
  BY DEF Sound
<1>2. PICK it : ConnectionsFoldWith(it, n, list, base)
  BY <1>1, ConnectionsFold
<1> DEFINE S == 1 .. n
           Good(s) ==
             /\ Sound(it[s]) /\ it[s].nodes = components
             /\ \A k \in ConnectionId : (\E p \in s : list[p] = k) \/ Holds(base, k)
                                        => Holds(it[s], k)
           G == {s \in SUBSET S : Good(s)}
<1>3. {} \in G
  <2>1. it[{}] = base
    BY <1>2 DEF ConnectionsFoldWith
  <2>2. Good({})
    BY <2>1
  <2> QED
    BY <2>2
<1>4. ASSUME NEW s \in SUBSET S, s # {}
      PROVE  \E q \in s : Rest(s, q) \in G => s \in G
  <2>1. PICK q \in s : it[s] = RefreshConnection(list[q], it[s \ {q}])
    BY <1>2, <1>4 DEF ConnectionsFoldWith
  <2> SUFFICES ASSUME Good(s \ {q}) PROVE Good(s)
    BY DEF Rest
  <2> DEFINE a == it[s \ {q}]
             x == list[q]
             r == it[s]
  <2>2. /\ Sound(a) /\ a.nodes = components
        /\ \A k \in ConnectionId : (\E p \in s \ {q} : list[p] = k) \/ Holds(base, k)
                                   => Holds(a, k)
    OBVIOUS
  <2>3. x \in ConnectionId /\ r = RefreshConnection(x, a)
    BY <2>1
  <2> HIDE DEF a, r
  <2>4. /\ Sound(r) /\ r.nodes = components
        /\ Holds(r, x)
        /\ \A j \in ConnectionId : j # x /\ Holds(a, j) => Holds(r, j)
    BY <2>2, <2>3, RefreshConnectionIsExact
  <2>5. ASSUME NEW k \in ConnectionId, (\E p \in s : list[p] = k) \/ Holds(base, k)
        PROVE  Holds(r, k)
    <3>1. CASE k = x
      BY <2>4, <3>1
    <3>2. CASE k # x
      <4>1. (\E p \in s \ {q} : list[p] = k) \/ Holds(base, k)
        BY <2>5, <3>2
      <4>2. Holds(a, k)
        BY <2>2, <4>1
      <4> QED
        BY <2>4, <3>2, <4>2
    <3> QED
      BY <3>1, <3>2
  <2> QED
    BY <2>4, <2>5 DEF r
<1>5. IsFiniteSet(S)
  BY FS_Interval
<1>6. SUBSET S \subseteq G
  <2> HIDE DEF G, S
  <2> QED
    BY <1>3, <1>4, <1>5, SubsetInduction
<1>7. Good(S)
  BY <1>6
<1>8. it[S] = RefreshedConnections(list, base)
  BY <1>2 DEF ConnectionsFoldWith
<1> QED
  BY <1>7, <1>8

(***************************************************************************)
(* What no mark names is in the cache as it is in the graph, unless all    *)
(* of the cache is marked; and after a query nothing is marked.            *)
(***************************************************************************)
MarksSuffice ==
  ~fullDirty =>
    /\ \A i \in Id \ dirtyComponents : Agrees(cache, i)
    /\ \A k \in ConnectionId \ dirtyConnections : Holds(cache, k)

\* The inductive invariant, under tidy edits.
CInv ==
  /\ Tidy /\ Sound(cache) /\ MarksSuffice
  /\ asked => ~fullDirty /\ dirtyComponents = {} /\ dirtyConnections = {}

\* A query puts everything right that a mark names, or everything.
LEMMA QueryIsExact ==
  ASSUME TInv, CInv, Query
  PROVE  /\ Sound(cache') /\ cache'.nodes = components
         /\ \A k \in ConnectionId : Holds(cache', k)
<1>1. GraphOK /\ Tidy /\ Sound(cache)
  BY DEF TInv, TypeOK, GraphOK, CInv
<1>2. CASE cache' = Rebuilt
  BY <1>1, <1>2, RebuiltIsExact
<1>3. ASSUME ~fullDirty,
             NEW ks \in SetToSeqs(dirtyComponents), NEW ls \in SetToSeqs(dirtyConnections),
             cache' = Updated(ks, ls)
      PROVE  /\ Sound(cache') /\ cache'.nodes = components
             /\ \A k \in ConnectionId : Holds(cache', k)
  <2> DEFINE n == Cardinality(dirtyComponents)
             m == Cardinality(dirtyConnections)
             first == RefreshedComponents(ks, cache)
             last == RefreshedConnections(ls, first)
  <2>1. /\ n \in Nat /\ ks \in [1 .. n -> dirtyComponents]
        /\ \A i \in dirtyComponents : \E p \in 1 .. n : ks[p] = i
    BY OrderNamesAll DEF TInv
  <2>2. /\ m \in Nat /\ ls \in [1 .. m -> dirtyConnections]
        /\ \A k \in dirtyConnections : \E p \in 1 .. m : ls[p] = k
    BY OrderNamesAll DEF TInv
  <2>3. dirtyComponents \subseteq Id /\ dirtyConnections \subseteq ConnectionId
    BY DEF TInv, TypeOK
  <2>4. /\ \A i \in Id \ dirtyComponents : Agrees(cache, i)
        /\ \A k \in ConnectionId \ dirtyConnections : Holds(cache, k)
    BY <1>3 DEF CInv, MarksSuffice
  <2> HIDE DEF n, m
  <2>5. ks \in [1 .. n -> Id] /\ ls \in [1 .. m -> ConnectionId]
    BY <2>1, <2>2, <2>3
  <2>6. /\ Sound(first)
        /\ \A i \in Id : (\E p \in 1 .. n : ks[p] = i) \/ Agrees(cache, i)
                         => Agrees(first, i)
        /\ \A k \in ConnectionId : Holds(cache, k) => Holds(first, k)
    BY <1>1, <2>1, <2>5, ComponentsRefreshed
  <2> HIDE DEF first
  <2>7. \A i \in Id : Agrees(first, i)
    BY <2>1, <2>4, <2>6
  <2>8. first.nodes = components
    <3>1. first.nodes \subseteq Id
      BY <2>6, CachedParts DEF Sound
    <3>2. components \subseteq Id
      BY <1>1 DEF GraphOK
    <3> QED
      BY <2>7, <3>1, <3>2 DEF Agrees
  <2>9. /\ Sound(last) /\ last.nodes = components
        /\ \A k \in ConnectionId : (\E p \in 1 .. m : ls[p] = k) \/ Holds(first, k)
                                   => Holds(last, k)
    BY <1>1, <2>2, <2>5, <2>6, <2>8, ConnectionsRefreshed
  <2> HIDE DEF last
  <2>10. \A k \in ConnectionId : Holds(last, k)
    BY <2>2, <2>4, <2>6, <2>9
  <2>11. cache' = last
    BY <1>3, UpdatedIsBoth DEF first, last
  <2> QED
    BY <2>9, <2>10, <2>11
<1> QED
  BY <1>2, <1>3 DEF Query

\* Before the first query all is marked.
LEMMA InitCurrent == Init => CInv
<1> SUFFICES ASSUME Init PROVE CInv
  OBVIOUS
<1>1. Sound(cache)
  BY EmptyIsSound DEF Init
<1> QED
  BY <1>1 DEF Init, CInv, Tidy, MarksSuffice

\* What the cache holds of a connection depends on the connections alone.
LEMMA SameGraph ==
  ASSUME UNCHANGED connections, UNCHANGED link, UNCHANGED cache, NEW k
  PROVE  Holds(cache, k)' <=> Holds(cache, k)
BY DEF Holds, Ends

\* Every tidy edit leaves the marks that its change calls for.
LEMMA StepCurrent ==
  ASSUME Callers = {}, TInv, CInv, [Next]_vars
  PROVE  CInv'
<1>1. /\ components \subseteq Id /\ connections \subseteq Connection
      /\ link \in [Connection -> Links]
      /\ known \in [Id -> Id \cup {Untracked}]
      /\ tracked \in [Connection -> ConnectionId \cup {Untracked}]
      /\ dirtyComponents \subseteq Id /\ dirtyConnections \subseteq ConnectionId
      /\ fullDirty \in BOOLEAN /\ asked \in BOOLEAN
  BY DEF TInv, TypeOK
<1>2. Tidy /\ Sound(cache) /\ MarksSuffice
  BY DEF CInv
<1>3. \A c \in connections : link[c].id \in ConnectionId
  BY <1>1 DEF Links
<1>4. ASSUME UNCHANGED cache PROVE Sound(cache)'
  BY <1>2, <1>4 DEF Sound, From, Into
<1>5. ASSUME Tidy', MarksSuffice', UNCHANGED cache, asked' = FALSE PROVE CInv'
  BY <1>4, <1>5 DEF CInv
<1>6. CASE Query
  <2>1. /\ Sound(cache') /\ cache'.nodes = components
        /\ \A k \in ConnectionId : Holds(cache', k)
    BY <1>6, QueryIsExact
  <2>2. UNCHANGED <<components, connections, link>>
    BY <1>6 DEF Query, graph
  <2>3. Sound(cache)'
    BY <2>1 DEF Sound, From, Into
  <2>4. Tidy'
    BY <1>2, <2>2 DEF Tidy
  <2>5. MarksSuffice'
    <3>1. \A i \in Id : Agrees(cache, i)'
      BY <2>1, <2>2 DEF Agrees
    <3>2. \A k \in ConnectionId : Holds(cache, k)'
      BY <2>1, <2>2 DEF Holds, Ends
    <3> QED
      BY <3>1, <3>2 DEF MarksSuffice
  <2> QED
    BY <1>6, <2>3, <2>4, <2>5 DEF CInv, Query
<1>7. ASSUME NEW i \in Id, AddComponent(i) PROVE CInv'
  <2>1. /\ UNCHANGED <<connections, link, cache, fullDirty, dirtyConnections>>
        /\ components' = components \cup {i} /\ asked' = FALSE
        /\ dirtyComponents' = dirtyComponents \cup {i}
    BY <1>7 DEF AddComponent, Quiet
  <2>2. Tidy'
    BY <1>2, <2>1 DEF Tidy
  <2>3. MarksSuffice'
    <3> SUFFICES ASSUME ~fullDirty
                 PROVE  /\ \A j \in Id \ dirtyComponents' : Agrees(cache, j)'
                        /\ \A k \in ConnectionId \ dirtyConnections' : Holds(cache, k)'
      BY <2>1 DEF MarksSuffice
    <3>1. \A j \in Id \ dirtyComponents' : Agrees(cache, j)'
      BY <1>2, <2>1 DEF MarksSuffice, Agrees
    <3>2. \A k \in ConnectionId \ dirtyConnections' : Holds(cache, k)'
      BY <1>2, <2>1, SameGraph DEF MarksSuffice
    <3> QED
      BY <3>1, <3>2
  <2> QED
    BY <1>5, <2>1, <2>2, <2>3
<1>8. ASSUME NEW i \in Id, RemoveComponent(i) PROVE CInv'
  <2>1. /\ UNCHANGED <<connections, link, cache, fullDirty, dirtyConnections>>
        /\ components' = components \ {i} /\ asked' = FALSE
        /\ dirtyComponents' = dirtyComponents \cup {i}
        /\ \A c \in connections : i # link[c].source /\ i # link[c].target
    BY <1>8 DEF RemoveComponent, Quiet, Free, Touches
  <2>2. Tidy'
    BY <1>2, <2>1 DEF Tidy
  <2>3. MarksSuffice'
    <3> SUFFICES ASSUME ~fullDirty
                 PROVE  /\ \A j \in Id \ dirtyComponents' : Agrees(cache, j)'
                        /\ \A k \in ConnectionId \ dirtyConnections' : Holds(cache, k)'
      BY <2>1 DEF MarksSuffice
    <3>1. \A j \in Id \ dirtyComponents' : Agrees(cache, j)'
      BY <1>2, <2>1 DEF MarksSuffice, Agrees
    <3>2. \A k \in ConnectionId \ dirtyConnections' : Holds(cache, k)'
      BY <1>2, <2>1, SameGraph DEF MarksSuffice
    <3> QED
      BY <3>1, <3>2
  <2> QED
    BY <1>5, <2>1, <2>2, <2>3
<1>9. ASSUME NEW i \in Id, NEW j \in Id, RenameComponent(i, j) PROVE CInv'
  <2>1. /\ UNCHANGED <<connections, link, cache>>
        /\ components' = (components \ {i}) \cup {j} /\ asked' = FALSE
        /\ fullDirty' = (fullDirty \/ known[i] # Untracked)
        /\ \A c \in connections : i # link[c].source /\ i # link[c].target
    BY <1>9 DEF RenameComponent, Quiet, Free, Touches
  <2>2. known[i] = i
    BY <1>9 DEF RenameComponent
  <2>3. fullDirty'
    BY <2>1, <2>2, UntrackedIsNoId
  <2>4. Tidy'
    BY <1>2, <2>1 DEF Tidy
  <2>5. MarksSuffice'
    BY <2>3 DEF MarksSuffice
  <2> QED
    BY <1>5, <2>1, <2>4, <2>5
<1>10. ASSUME NEW c \in Connection, NEW e \in Links, AddConnection(c, e) PROVE CInv'
  <2>1. /\ UNCHANGED <<components, cache, fullDirty, dirtyComponents>>
        /\ c \notin connections /\ e.source \in components /\ e.target \in components
        /\ connections' = connections \cup {c} /\ asked' = FALSE
        /\ link' = [link EXCEPT ![c] = e]
        /\ dirtyConnections' = dirtyConnections \cup {e.id}
    BY <1>10 DEF AddConnection, EndsAllowed, Quiet
  <2>2. \A d \in connections : link[d].id # e.id
    BY <1>10 DEF AddConnection, Carrying
  <2>3. link'[c] = e /\ \A d \in connections : link'[d] = link[d]
    BY <1>1, <2>1
  <2>4. Tidy'
    BY <1>2, <2>1, <2>2, <2>3 DEF Tidy
  <2>5. MarksSuffice'
    <3> SUFFICES ASSUME ~fullDirty
                 PROVE  /\ \A j \in Id \ dirtyComponents' : Agrees(cache, j)'
                        /\ \A k \in ConnectionId \ dirtyConnections' : Holds(cache, k)'
      BY <2>1 DEF MarksSuffice
    <3>1. \A j \in Id \ dirtyComponents' : Agrees(cache, j)'
      BY <1>2, <2>1 DEF MarksSuffice, Agrees
    <3>2. ASSUME NEW k \in ConnectionId \ dirtyConnections' PROVE Holds(cache, k)'
      <4>1. k # e.id /\ Holds(cache, k)
        BY <1>2, <2>1 DEF MarksSuffice
      <4> QED
        BY <2>1, <2>3, <4>1 DEF Holds, Ends
    <3> QED
      BY <3>1, <3>2
  <2> QED
    BY <1>5, <2>1, <2>4, <2>5
<1>11. ASSUME NEW c \in Connection, RemoveConnection(c) PROVE CInv'
  <2>1. /\ UNCHANGED <<components, cache, link, fullDirty, dirtyComponents>>
        /\ c \in connections
        /\ connections' = connections \ {c} /\ asked' = FALSE
        /\ dirtyConnections' = dirtyConnections \cup {link[c].id}
    BY <1>11 DEF RemoveConnection, Quiet
  <2>2. Tidy'
    BY <1>2, <2>1 DEF Tidy
  <2>3. MarksSuffice'
    <3> SUFFICES ASSUME ~fullDirty
                 PROVE  /\ \A j \in Id \ dirtyComponents' : Agrees(cache, j)'
                        /\ \A k \in ConnectionId \ dirtyConnections' : Holds(cache, k)'
      BY <2>1 DEF MarksSuffice
    <3>1. \A j \in Id \ dirtyComponents' : Agrees(cache, j)'
      BY <1>2, <2>1 DEF MarksSuffice, Agrees
    <3>2. ASSUME NEW k \in ConnectionId \ dirtyConnections' PROVE Holds(cache, k)'
      <4>1. k # link[c].id /\ Holds(cache, k)
        BY <1>2, <2>1 DEF MarksSuffice
      <4> QED
        BY <2>1, <4>1 DEF Holds, Ends
    <3> QED
      BY <3>1, <3>2
  <2> QED
    BY <1>5, <2>1, <2>2, <2>3
<1>12. ASSUME NEW c \in Connection, NEW k \in ConnectionId, RenameConnection(c, k)
       PROVE  CInv'
  <2>1. /\ UNCHANGED <<components, connections, cache>>
        /\ c \in connections /\ asked' = FALSE
        /\ link' = [link EXCEPT ![c].id = k]
        /\ fullDirty' = (fullDirty \/ tracked[c] # Untracked)
    BY <1>12 DEF RenameConnection, Quiet
  <2>2. tracked[c] = link[c].id
    BY <1>12 DEF RenameConnection
  <2>3. fullDirty'
    BY <1>3, <2>1, <2>2, UntrackedIsNoId
  <2>4. \A d \in connections : link[d].id # k
    BY <1>12 DEF RenameConnection, Carrying
  <2>5. /\ link'[c].id = k /\ link'[c].source = link[c].source
        /\ link'[c].target = link[c].target
        /\ \A d \in connections : d # c => link'[d] = link[d]
    BY <1>1, <2>1 DEF Links
  <2>6. Tidy'
    BY <1>2, <2>1, <2>4, <2>5 DEF Tidy
  <2>7. MarksSuffice'
    BY <2>3 DEF MarksSuffice
  <2> QED
    BY <1>5, <2>1, <2>6, <2>7
<1>13. ASSUME NEW c \in Connection, NEW s \in Id, NEW t \in Id, Retarget(c, s, t)
       PROVE  CInv'
  <2>1. /\ UNCHANGED <<components, connections, cache, fullDirty, dirtyComponents>>
        /\ c \in connections /\ s \in components /\ t \in components /\ asked' = FALSE
        /\ link' = [link EXCEPT ![c].source = s, ![c].target = t]
        /\ dirtyConnections' = dirtyConnections \cup ({tracked[c]} \ {Untracked})
    BY <1>13 DEF Retarget, EndsAllowed, Quiet
  <2>2. tracked[c] = link[c].id
    BY <1>13 DEF Retarget
  <2>3. link[c].id \in dirtyConnections' /\ dirtyConnections \subseteq dirtyConnections'
    BY <1>3, <2>1, <2>2, UntrackedIsNoId
  <2>4. /\ link'[c].id = link[c].id /\ link'[c].source = s /\ link'[c].target = t
        /\ \A d \in connections : d # c => link'[d] = link[d]
    BY <1>1, <2>1 DEF Links
  <2>5. Tidy'
    <3>1. \A d \in connections : link'[d].id = link[d].id
      BY <2>4
    <3>2. \A b, d \in connections' : link'[b].id = link'[d].id => b = d
      BY <1>2, <2>1, <3>1 DEF Tidy
    <3>3. \A d \in connections' :
            link'[d].source \in components' /\ link'[d].target \in components'
      <4>1. \A d \in connections : d # c =>
              link'[d].source \in components /\ link'[d].target \in components
        BY <1>2, <2>4 DEF Tidy
      <4>2. link'[c].source \in components /\ link'[c].target \in components
        BY <2>1, <2>4
      <4>3. ASSUME NEW d \in connections
            PROVE  link'[d].source \in components /\ link'[d].target \in components
        <5>1. CASE d = c
          BY <4>2, <5>1
        <5>2. CASE d # c
          BY <4>1, <5>2
        <5> QED
          BY <5>1, <5>2
      <4>4. connections' = connections /\ components' = components
        BY <2>1
      <4> QED
        BY <4>3, <4>4
    <3> QED
      BY <3>2, <3>3 DEF Tidy
  <2>6. MarksSuffice'
    <3> SUFFICES ASSUME ~fullDirty
                 PROVE  /\ \A j \in Id \ dirtyComponents' : Agrees(cache, j)'
                        /\ \A k \in ConnectionId \ dirtyConnections' : Holds(cache, k)'
      BY <2>1 DEF MarksSuffice
    <3>1. \A j \in Id \ dirtyComponents' : Agrees(cache, j)'
      BY <1>2, <2>1 DEF MarksSuffice, Agrees
    <3>2. ASSUME NEW k \in ConnectionId \ dirtyConnections' PROVE Holds(cache, k)'
      <4>1. k # link[c].id /\ Holds(cache, k)
        BY <1>2, <2>3 DEF MarksSuffice
      <4>2. \A d \in connections : link'[d].id = link[d].id
        BY <2>4
      <4>3. \A d \in connections : link[d].id = k => Ends(d)' = Ends(d)
        BY <2>4, <4>1 DEF Ends
      <4>4. /\ k \in DOMAIN cache.links <=> \E d \in connections : link[d].id = k
            /\ \A d \in connections : link[d].id = k => cache.links[k] = Ends(d)
        BY <4>1 DEF Holds
      <4>5. UNCHANGED <<connections, cache>>
        BY <2>1
      <4>6. k \in DOMAIN cache'.links <=> \E d \in connections' : link'[d].id = k
        BY <4>2, <4>4, <4>5
      <4>7. \A d \in connections' : link'[d].id = k => cache'.links[k] = Ends(d)'
        BY <4>2, <4>3, <4>4, <4>5
      <4> QED
        BY <4>6, <4>7 DEF Holds
    <3> QED
      BY <3>1, <3>2
  <2> QED
    BY <1>5, <2>1, <2>5, <2>6
<1>14. CASE Clear
  <2>1. /\ connections' = {} /\ UNCHANGED cache /\ asked' = FALSE
        /\ fullDirty' = fullDirty /\ fullDirty
    BY <1>14 DEF Clear, Quiet, marks
  <2> QED
    BY <1>5, <2>1 DEF Tidy, MarksSuffice
<1>15. CASE SetGraph
  <2>1. /\ connections' = {} /\ cache' = EmptyCache /\ asked' = FALSE /\ fullDirty'
    BY <1>15 DEF SetGraph
  <2>2. Sound(cache)'
    BY <2>1, EmptyIsSound DEF Sound, From, Into
  <2> QED
    BY <2>1, <2>2 DEF CInv, Tidy, MarksSuffice
<1>16. CASE UNCHANGED vars
  <2>1. UNCHANGED <<components, connections, link, cache, dirtyComponents,
                    dirtyConnections, fullDirty, asked>>
    BY <1>16 DEF vars, graph, marks
  <2>2. Tidy' /\ Sound(cache)'
    BY <1>2, <1>4, <2>1 DEF Tidy
  <2>3. MarksSuffice'
    BY <1>2, <2>1, SameGraph DEF MarksSuffice, Agrees
  <2> QED
    BY <2>1, <2>2, <2>3 DEF CInv
<1> QED
  BY <1>6, <1>7, <1>8, <1>9, <1>10, <1>11, <1>12, <1>13, <1>14, <1>15, <1>16 DEF Next

\* What the invariant means for a query that was just made.
LEMMA CurrentByInv == TInv /\ CInv => CacheIsCurrent
<1> SUFFICES ASSUME TInv, CInv, asked PROVE CacheIsCurrent
  BY DEF CacheIsCurrent
<1>1. GraphOK /\ Tidy /\ Sound(cache) /\ cache \in Cached
  BY DEF TInv, TypeOK, GraphOK, CInv
<1>2. /\ \A i \in Id : Agrees(cache, i)
      /\ \A k \in ConnectionId : Holds(cache, k)
  BY DEF CInv, MarksSuffice
<1>3. cache.nodes = components
  BY <1>1, <1>2, CachedParts DEF GraphOK, Agrees
<1>4. \A c \in connections : Inner(c)
  BY <1>1 DEF Inner, Tidy
<1>5. \A c \in connections :
        /\ link[c].id \in ConnectionId /\ link[c].id \in DOMAIN cache.links
        /\ cache.links[link[c].id] = Ends(c)
        /\ Ends(c).source = link[c].source /\ Ends(c).target = link[c].target
  BY <1>1, <1>2, LinkParts DEF Holds
<1>6. \A k \in DOMAIN cache.links : \E c \in connections : link[c].id = k
  <2>1. DOMAIN cache.links \subseteq ConnectionId
    BY <1>1, CachedIsTyped
  <2> QED
    BY <1>2, <2>1 DEF Holds
<1>7. ASSUME NEW i \in Id
      PROVE  cache.outgoing[i] =
               {link[c].id : c \in {d \in connections : Inner(d) /\ link[d].source = i}}
  <2>1. cache.outgoing[i] = From(cache, i)
    BY <1>1 DEF Sound
  <2>2. From(cache, i) =
          {link[c].id : c \in {d \in connections : Inner(d) /\ link[d].source = i}}
    BY <1>4, <1>5, <1>6 DEF From
  <2> QED
    BY <2>1, <2>2
<1>8. ASSUME NEW i \in components
      PROVE  cache.inDegree[i] =
               Cardinality({c \in connections : Inner(c) /\ link[c].target = i})
  <2> DEFINE C == {c \in connections : Inner(c) /\ link[c].target = i}
             K == Into(cache, i)
             f == [c \in C |-> link[c].id]
  <2>1. i \in Id
    BY <1>1 DEF GraphOK
  <2>2. cache.inDegree[i] = Cardinality(K)
    BY <1>1, <2>1 DEF Sound
  <2>3. IsFiniteSet(C)
    <3>1. C \in SUBSET connections
      OBVIOUS
    <3> QED
      BY <3>1, FS_Subset DEF TInv
  <2>4. f \in [C -> K]
    BY <1>5 DEF Into
  <2>5. \A c, d \in C : f[c] = f[d] => c = d
    BY <1>1 DEF Tidy
  <2>6. \A k \in K : \E c \in C : f[c] = k
    BY <1>4, <1>5, <1>6 DEF Into
  <2>7. f \in Bijection(C, K)
    <3> HIDE DEF f, C, K
    <3> QED
      BY <2>4, <2>5, <2>6 DEF Bijection, Injection, Surjection, IsInjective
  <2> HIDE DEF f, C, K
  <2>8. ExistsBijection(C, K)
    BY <2>7 DEF ExistsBijection
  <2>9. Cardinality(K) = Cardinality(C)
    BY <2>3, <2>8, FS_Bijection
  <2> QED
    BY <2>2, <2>9 DEF C
<1> QED
  BY <1>3, <1>5, <1>7, <1>8 DEF CacheIsCurrent

(***************************************************************************)
(* Under tidy edits, in any number and order, every traversal reads the    *)
(* graph as it is, whether the cache was rebuilt for it or brought up to   *)
(* date, and in whichever order the dirty sets were walked.  Tidy are      *)
(* edits that keep both ends of every connection in the graph, do not      *)
(* touch what was renamed, and do not clear the graph under a cache:       *)
(* nothing in GraphModel and ConnectionModel enforces that.                *)
(***************************************************************************)
THEOREM TraversalsReadTheGraph ==
  ASSUME Callers = {}
  PROVE  Spec => []CacheIsCurrent
<1>1. Init => TInv /\ CInv
  BY InitTyped, InitCurrent
<1>2. TInv /\ CInv /\ [Next]_vars => (TInv /\ CInv)'
  BY StepTyped, StepCurrent
<1>3. TInv /\ CInv => CacheIsCurrent
  BY CurrentByInv
<1> QED
  BY <1>1, <1>2, <1>3, PTL DEF Spec
=============================================================================
