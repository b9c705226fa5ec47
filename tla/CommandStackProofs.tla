------------------------ MODULE CommandStackProofs -------------------------
(***************************************************************************)
(* Proofs about the undo stack and the checked edits of CommandStack.      *)
(*                                                                         *)
(* A document shows a state: its lists as sets.  A command leads from one  *)
(* state to another, whatever it has noted in itself; executing it there   *)
(* and undoing it here does what it says.  A tale is a sequence of sound   *)
(* states that the commands of the stack lead through, one by one, of      *)
(* which the graph shows the one at the index.  Every operation keeps some *)
(* tale, and the history of contents that the model records is its         *)
(* pictures.  Everything else follows from that.                           *)
(***************************************************************************)
EXTENDS CommandStack, FiniteSetTheorems, SequenceTheorems,
        WellFoundedInduction, TLAPS

-----------------------------------------------------------------------------
(* Folding a list from the left. *)

\* Induction over the numbers up to n, for a set of them.
LEMMA NumbersUpTo ==
  ASSUME NEW n \in Nat, NEW S, 0 \in S, \A i \in 1 .. n : i - 1 \in S => i \in S
  PROVE  0 .. n \subseteq S
<1> DEFINE Less == OpToRel(<, Nat)
           Fails == (0 .. n) \ S
<1>1. IsWellFoundedOn(Less, Nat)
  BY NatLessThanWellFounded
<1>2. Fails \subseteq Nat
  OBVIOUS
<1> SUFFICES ASSUME Fails # {} PROVE FALSE
  OBVIOUS
<1>3. PICK k \in Fails : \A j \in Fails : <<j, k>> \notin Less
  <2> HIDE DEF Less, Fails
  <2> QED
    BY <1>1, <1>2, WFMin
<1>4. \A x, y \in Nat : x < y => <<x, y>> \in Less
  BY DEF OpToRel
<1> HIDE DEF Less
<1>5. k \in 1 .. n /\ k - 1 \in 0 .. n /\ k - 1 < k
  BY <1>3
<1>6. k - 1 \notin Fails
  <2>1. k - 1 \in Nat /\ k \in Nat
    BY <1>5
  <2>2. <<k - 1, k>> \in Less
    BY <1>4, <1>5, <2>1
  <2> HIDE DEF Fails
  <2> QED
    BY <1>3, <2>2
<1>7. k - 1 \in S /\ k \notin S
  BY <1>3, <1>5, <1>6
<1> QED
  BY <1>5, <1>7

\* The last of a non-empty set of numbers up to n.
LEMMA MaxOfSet ==
  ASSUME NEW n \in Nat, NEW s \in SUBSET (1 .. n), s # {}
  PROVE  Max(s) \in s /\ \A i \in s : i <= Max(s)
<1> DEFINE S == {m \in 0 .. n : \A r \in SUBSET (1 .. m) :
                   r # {} => \E x \in r : \A y \in r : x >= y}
<1>1. 0 \in S
  <2>1. \A r \in SUBSET (1 .. 0) : r = {}
    OBVIOUS
  <2>2. \A r \in SUBSET (1 .. 0) : r # {} => \E x \in r : \A y \in r : x >= y
    BY <2>1
  <2> QED
    BY <2>2
<1>2. ASSUME NEW m \in 1 .. n, m - 1 \in S PROVE m \in S
  <2> SUFFICES ASSUME NEW r \in SUBSET (1 .. m), r # {}
               PROVE  \E x \in r : \A y \in r : x >= y
    OBVIOUS
  <2>1. CASE m \in r
    BY <2>1
  <2>2. CASE m \notin r
    <3>1. r \in SUBSET (1 .. m - 1)
      BY <2>2
    <3> QED
      BY <1>2, <3>1
  <2> QED
    BY <2>1, <2>2
<1>3. n \in S
  <2> HIDE DEF S
  <2> QED
    BY <1>1, <1>2, NumbersUpTo
<1>4. \E x \in s : \A y \in s : x >= y
  BY <1>3
<1> QED
  BY <1>4 DEF Max

\* The first i of the numbers up to n, of which i is the last.
LEMMA MaxOfPrefix ==
  ASSUME NEW n \in Nat, NEW i \in 1 .. n
  PROVE  /\ 1 .. i \in SUBSET (1 .. n) /\ 1 .. i # {}
         /\ i - 1 \in 0 .. n /\ i \in 0 .. n
         /\ Max(1 .. i) = i /\ (1 .. i) \ {i} = 1 .. i - 1
<1>1. i \in Nat /\ 1 <= i /\ i <= n
  OBVIOUS
<1>2. 1 .. i \in SUBSET (1 .. n)
  BY <1>1
<1>3. 1 \in 1 .. i
  BY <1>1
<1>4. i - 1 \in 0 .. n /\ i \in 0 .. n
  BY <1>1
<1>5. Max(1 .. i) = i
  <2>1. i \in 1 .. i /\ \A y \in 1 .. i : i >= y
    BY <1>1
  <2> QED
    BY <1>1, <2>1 DEF Max
<1>6. (1 .. i) \ {i} = 1 .. i - 1
  BY <1>1
<1> QED
  BY <1>2, <1>3, <1>4, <1>5, <1>6

(***************************************************************************)
(* The function with which the community modules fold a list from the      *)
(* left: it takes what comes last off a set of positions, for a step that  *)
(* is itself a function, of the position and of what was folded so far.    *)
(***************************************************************************)
IsLeftFold(it, n, base, step) ==
  \A s \in SUBSET (1 .. n) :
    it[s] = IF s = {} THEN base ELSE step[<<Max(s), it[s \ {Max(s)}]>>]

\* Such a function exists, by induction over the length of the list.
LEMMA LeftFoldExists ==
  ASSUME NEW n \in Nat, NEW T, NEW base \in T, NEW step \in [(1 .. n) \X T -> T]
  PROVE  \E it \in [SUBSET (1 .. n) -> T] : IsLeftFold(it, n, base, step)
<1> DEFINE S == {m \in 0 .. n :
                   \E it \in [SUBSET (1 .. m) -> T] : IsLeftFold(it, m, base, step)}
<1>1. 0 \in S
  <2> DEFINE it == [s \in SUBSET (1 .. 0) |-> base]
  <2>1. it \in [SUBSET (1 .. 0) -> T]
    OBVIOUS
  <2>2. IsLeftFold(it, 0, base, step)
    BY DEF IsLeftFold
  <2> HIDE DEF it
  <2>3. \E jt \in [SUBSET (1 .. 0) -> T] : IsLeftFold(jt, 0, base, step)
    BY <2>1, <2>2, Zenon
  <2>4. 0 \in 0 .. n
    OBVIOUS
  <2> QED
    BY <2>3, <2>4, Zenon
<1>2. ASSUME NEW m \in 1 .. n, m - 1 \in S PROVE m \in S
  <2>1. PICK it \in [SUBSET (1 .. m - 1) -> T] : IsLeftFold(it, m - 1, base, step)
    BY <1>2
  <2> DEFINE more == [s \in SUBSET (1 .. m) |->
                        IF m \in s THEN step[<<m, it[s \ {m}]>>] ELSE it[s]]
  <2>2. \A s \in SUBSET (1 .. m) : s \ {m} \in SUBSET (1 .. m - 1)
    OBVIOUS
  <2>3. \A s \in SUBSET (1 .. m) : m \notin s => s \in SUBSET (1 .. m - 1)
    OBVIOUS
  <2>4. more \in [SUBSET (1 .. m) -> T]
    BY <2>2, <2>3
  <2>5. m \in Nat /\ m - 1 \in Nat
    OBVIOUS
  <2>6. \A s \in SUBSET (1 .. m) : s # {} => Max(s) \in s /\ \A i \in s : i <= Max(s)
    <3> HIDE DEF more, S
    <3> QED
      BY <2>5, MaxOfSet
  <2>7. ASSUME NEW s \in SUBSET (1 .. m)
        PROVE  more[s] = IF s = {} THEN base
                         ELSE step[<<Max(s), more[s \ {Max(s)}]>>]
    <3>1. CASE m \in s
      <4>1. Max(s) = m
        <5>1. Max(s) \in s /\ m <= Max(s)
          BY <3>1, <2>6
        <5>2. Max(s) \in 1 .. m
          BY <5>1
        <5> HIDE DEF more
        <5> QED
          BY <5>1, <5>2
      <4>2. more[s \ {m}] = it[s \ {m}]
        BY <2>2
      <4> QED
        BY <3>1, <4>1, <4>2
    <3>2. CASE m \notin s
      <4>1. s \in SUBSET (1 .. m - 1)
        BY <2>3, <3>2
      <4>2. s # {} => Max(s) \in s
        BY <2>6
      <4>3. more[s] = it[s] /\ more[s \ {Max(s)}] = it[s \ {Max(s)}]
        BY <3>2, <4>1
      <4>4. it[s] = IF s = {} THEN base ELSE step[<<Max(s), it[s \ {Max(s)}]>>]
        BY <2>1, <4>1 DEF IsLeftFold
      <4> QED
        BY <4>3, <4>4
    <3> QED
      BY <3>1, <3>2
  <2>8. IsLeftFold(more, m, base, step)
    <3> HIDE DEF more
    <3> QED
      BY <2>7 DEF IsLeftFold
  <2> HIDE DEF more
  <2> QED
    BY <2>4, <2>8
<1>3. n \in S
  <2> HIDE DEF S
  <2> QED
    BY <1>1, <1>2, NumbersUpTo
<1> QED
  BY <1>3

-----------------------------------------------------------------------------
(* Lists without repetitions. *)

\* The two lists of a document, as fields.
Lists == {"components", "connections"}

\* No object stands twice in the list l.
NoRepeats(l) == \A p, q \in DOMAIN l : l[p] = l[q] => p = q

\* An object is found by an id that no other object of the list has,
LEMMA FoundById ==
  ASSUME NEW S, NEW l \in Seq(S), NoRepeats(l), NEW n, NEW o \in ToSet(l),
         \A q \in ToSet(l) : n[q] = n[o] => q = o
  PROVE  Collection!FirstById(l, n, n[o]) = o
<1>1. PICK p \in DOMAIN l : l[p] = o
  BY DEF ToSet
<1>2. \A q \in DOMAIN l : n[l[q]] = n[o] => q = p
  BY <1>1 DEF ToSet, NoRepeats
<1> DEFINE Least(q) == /\ n[l[q]] = n[o]
                       /\ \A r \in DOMAIN l : n[l[r]] = n[o] => q <= r
<1>3. \E q \in DOMAIN l : n[l[q]] = n[o]
  BY <1>1
<1>5. p \in Nat
  OBVIOUS
<1>4. \A q \in DOMAIN l : Least(q) <=> q = p
  <2>1. Least(p)
    <3>1. \A r \in DOMAIN l : n[l[r]] = n[o] => p <= r
      BY <1>2 , <1>5
    <3> QED
      BY <1>1, <3>1
  <2> QED
    BY <1>2, <2>1
<1> DEFINE c == CHOOSE q \in DOMAIN l : Least(q)
<1>6. c = p
  <2> HIDE DEF Least
  <2> QED
    BY <1>1, <1>4
<1>7. Collection!FirstById(l, n, n[o]) = l[c]
  BY <1>3 DEF Collection!FirstById
<1> QED
  BY <1>1, <1>6, <1>7

\* and none by an id that no object has.
LEMMA NotFoundById ==
  ASSUME NEW l, NEW n, NEW i, \A q \in ToSet(l) : n[q] # i
  PROVE  Collection!FirstById(l, n, i) = None
BY DEF Collection!FirstById, ToSet

\* A list grows at its end,
LEMMA AppendedList ==
  ASSUME NEW S, NEW l \in Seq(S), NEW o \in S
  PROVE  /\ Append(l, o) \in Seq(S)
         /\ ToSet(Append(l, o)) = ToSet(l) \cup {o}
         /\ NoRepeats(l) /\ o \notin ToSet(l) => NoRepeats(Append(l, o))
<1>1. /\ Append(l, o) \in Seq(S)
      /\ DOMAIN l = 1 .. Len(l) /\ Len(l) \in Nat
      /\ DOMAIN Append(l, o) = 1 .. Len(l) + 1
      /\ Append(l, o)[Len(l) + 1] = o
      /\ \A i \in 1 .. Len(l) : Append(l, o)[i] = l[i]
  OBVIOUS
<1>2. 1 .. Len(l) + 1 = (1 .. Len(l)) \cup {Len(l) + 1}
  BY <1>1
<1> QED
  BY <1>1, <1>2 DEF ToSet, NoRepeats

\* and loses one object when that is removed.
LEMMA RemovedFromList ==
  ASSUME NEW S, NEW l \in Seq(S), NoRepeats(l), NEW o \in ToSet(l)
  PROVE  /\ Collection!Without(l, o) \in Seq(S)
         /\ ToSet(Collection!Without(l, o)) = ToSet(l) \ {o}
         /\ NoRepeats(Collection!Without(l, o))
<1> DEFINE i == Collection!Position(l, o)
           n == Len(l)
           w == Collection!Without(l, o)
<1>1. i \in DOMAIN l /\ l[i] = o
  <2>1. \E p \in DOMAIN l : l[p] = o
    BY DEF ToSet
  <2> QED
    BY <2>1 DEF Collection!Position
<1>2. DOMAIN l = 1 .. n /\ n \in Nat /\ \A j \in 1 .. n : l[j] \in S
  OBVIOUS
<1>3. w = SubSeq(l, 1, i - 1) \o SubSeq(l, i + 1, n)
  BY DEF Collection!Without, Collection!RemoveAt
<1> HIDE DEF i, w
<1>4. /\ SubSeq(l, 1, i - 1) \in Seq(S) /\ Len(SubSeq(l, 1, i - 1)) = i - 1
      /\ \A j \in 1 .. i - 1 : SubSeq(l, 1, i - 1)[j] = l[j]
  BY <1>1, <1>2
<1>5. /\ SubSeq(l, i + 1, n) \in Seq(S) /\ Len(SubSeq(l, i + 1, n)) = n - i
      /\ \A j \in 1 .. n - i : SubSeq(l, i + 1, n)[j] = l[j + i]
  <2>1. /\ i + 1 \in Int /\ n \in Int /\ n - (i + 1) + 1 = n - i
        /\ (IF i + 1 <= n THEN n - (i + 1) + 1 ELSE 0) = n - i
        /\ \A j \in i + 1 .. n : l[j] \in S
        /\ \A j \in 1 .. n - i : (i + 1) + j - 1 = j + i
    BY <1>1, <1>2
  <2> HIDE DEF n
  <2>2. /\ SubSeq(l, i + 1, n) \in Seq(S)
        /\ Len(SubSeq(l, i + 1, n)) = IF i + 1 <= n THEN n - (i + 1) + 1 ELSE 0
        /\ \A j \in 1 .. n - (i + 1) + 1 : SubSeq(l, i + 1, n)[j] = l[(i + 1) + j - 1]
    BY <2>1, SubSeqProperties
  <2> QED
    BY <2>1, <2>2
<1>6. /\ w \in Seq(S) /\ Len(w) = n - 1 /\ DOMAIN w = 1 .. n - 1
      /\ \A j \in 1 .. n - 1 : w[j] = IF j < i THEN l[j] ELSE l[j + 1]
  <2> DEFINE a == SubSeq(l, 1, i - 1)
             b == SubSeq(l, i + 1, n)
  <2>1. a \in Seq(S) /\ b \in Seq(S) /\ Len(a) = i - 1 /\ Len(b) = n - i
    BY <1>4, <1>5
  <2>2. i \in 1 .. n
    BY <1>1, <1>2
  <2>3. /\ a \o b \in Seq(S) /\ Len(a \o b) = Len(a) + Len(b)
        /\ \A j \in 1 .. Len(a) + Len(b) :
             (a \o b)[j] = IF j <= Len(a) THEN a[j] ELSE b[j - Len(a)]
    <3> HIDE DEF a, b
    <3>1. a \in Seq(S) /\ b \in Seq(S)
      BY <2>1
    <3> QED
      BY <3>1, ConcatProperties
  <2>4. w = a \o b
    BY <1>3
  <2> HIDE DEF a, b
  <2>5. Len(w) = n - 1 /\ w \in Seq(S) /\ DOMAIN w = 1 .. n - 1
    <3>1. Len(a) + Len(b) = n - 1
      BY <1>2, <2>1, <2>2
    <3> QED
      BY <2>3, <2>4, <3>1
  <2>6. ASSUME NEW j \in 1 .. n - 1 PROVE w[j] = IF j < i THEN l[j] ELSE l[j + 1]
    <3>1. CASE j < i
      <4>1. j \in 1 .. i - 1 /\ j <= Len(a) /\ j \in 1 .. Len(a) + Len(b)
        BY <1>2, <2>1, <2>2, <3>1
      <4> QED
        BY <1>4, <2>3, <2>4, <3>1, <4>1 DEF a
    <3>2. CASE ~(j < i)
      <4>1. /\ j - (i - 1) \in 1 .. n - i /\ ~(j <= Len(a))
            /\ j \in 1 .. Len(a) + Len(b) /\ j - Len(a) = j - (i - 1)
            /\ j - (i - 1) + i = j + 1
        BY <1>2, <2>1, <2>2, <3>2
      <4>2. w[j] = b[j - (i - 1)]
        BY <2>3, <2>4, <4>1
      <4> QED
        BY <1>5, <3>2, <4>1, <4>2 DEF b
    <3> QED
      BY <3>1, <3>2
  <2> QED
    BY <2>5, <2>6
<1>7. ASSUME NEW j \in 1 .. n - 1
      PROVE  \E p \in 1 .. n : p # i /\ w[j] = l[p] /\ p = IF j < i THEN j ELSE j + 1
  BY <1>1, <1>2, <1>6
<1>8. ToSet(w) \subseteq ToSet(l) \ {o}
  <2> SUFFICES ASSUME NEW j \in 1 .. n - 1 PROVE w[j] \in ToSet(l) /\ w[j] # o
    BY <1>6 DEF ToSet
  <2>1. PICK p \in 1 .. n : p # i /\ w[j] = l[p]
    BY <1>7
  <2>2. l[p] # l[i]
    BY <1>1, <1>2, <2>1 DEF NoRepeats
  <2> QED
    BY <1>1, <1>2, <2>1, <2>2 DEF ToSet
<1>9. ASSUME NEW x \in ToSet(l), x # o PROVE x \in ToSet(w)
  <2>1. PICK p \in 1 .. n : l[p] = x
    BY <1>2 DEF ToSet
  <2>2. p # i
    BY <1>1, <1>9, <2>1
  <2>3. \E j \in 1 .. n - 1 : w[j] = x
    <3>1. CASE p < i
      <4>1. p \in 1 .. n - 1
        BY <1>1, <1>2, <3>1
      <4> QED
        BY <1>6, <2>1, <3>1, <4>1
    <3>2. CASE ~(p < i)
      <4>1. p - 1 \in 1 .. n - 1 /\ ~(p - 1 < i) /\ p - 1 + 1 = p
        BY <1>1, <1>2, <2>2, <3>2
      <4> QED
        BY <1>6, <2>1, <4>1
    <3> QED
      BY <3>1, <3>2
  <2> QED
    BY <1>6, <2>3 DEF ToSet
<1>10. NoRepeats(w)
  <2> SUFFICES ASSUME NEW j \in 1 .. n - 1, NEW k \in 1 .. n - 1, w[j] = w[k]
               PROVE  j = k
    BY <1>6 DEF NoRepeats
  <2>1. PICK p \in 1 .. n : w[j] = l[p] /\ p = IF j < i THEN j ELSE j + 1
    BY <1>7
  <2>2. PICK q \in 1 .. n : w[k] = l[q] /\ q = IF k < i THEN k ELSE k + 1
    BY <1>7
  <2>3. p = q
    BY <1>2, <2>1, <2>2 DEF NoRepeats
  <2> QED
    BY <1>1, <1>2, <2>1, <2>2, <2>3
<1> QED
  BY <1>6, <1>8, <1>9, <1>10 DEF w

-----------------------------------------------------------------------------
(* Documents, and the states they show. *)

\* The objects that the list f can hold,
Things(f) == IF f = "components" THEN Component ELSE Connection

\* and the attributes that they have there.
AttributesIn(f) ==
  IF f = "components" THEN [id : Id, at : Place]
  ELSE [id : ConnectionId, source : Id, target : Id]

\* The documents, as TypeOK has them.
Document ==
  [components : Seq(Component), connections : Seq(Connection),
   attr : [Object -> Attributes]]

\* The same without the order of the lists: what the commands are about.
State ==
  [components : SUBSET Component, connections : SUBSET Connection,
   attr : [Object -> Attributes]]

\* The objects of the list f have attributes of their kind and ids of their own.
Proper(s, f) ==
  \A o \in s[f] :
    /\ s.attr[o] \in AttributesIn(f)
    /\ \A q \in s[f] : s.attr[q].id = s.attr[o].id => q = o

\* The states that checked requests and undone commands can lead to.
Sound(s) ==
  /\ s \in State
  /\ Proper(s, "components")
  /\ Proper(s, "connections")

\* The document d shows the state s, its lists without a repetition.
Shows(d, s) ==
  /\ d \in Document
  /\ NoRepeats(d.components) /\ NoRepeats(d.connections)
  /\ s = [components |-> ToSet(d.components),
          connections |-> ToSet(d.connections), attr |-> d.attr]

\* The objects that a state shows.
ShownIn(s) == s.components \cup s.connections

\* The state s with the objects of one list replaced.
Relisted(s, f, objects) ==
  [components  |-> IF f = "components" THEN objects ELSE s.components,
   connections |-> IF f = "connections" THEN objects ELSE s.connections,
   attr        |-> s.attr]

\* What a document says of each of its lists,
LEMMA ShowsLists ==
  ASSUME NEW d, NEW s, Shows(d, s), NEW f \in Lists
  PROVE  /\ d[f] \in Seq(Things(f)) /\ NoRepeats(d[f]) /\ ToSet(d[f]) = s[f]
         /\ d.attr = s.attr /\ s.attr \in [Object -> Attributes]
         /\ s[f] \subseteq Things(f) /\ Things(f) \subseteq Object
         /\ Shown(d) = ShownIn(s)
         /\ s \in State
<1>1. CASE f = "components"
  BY <1>1 DEF Shows, Document, Things, Object, Shown, ShownIn, ToSet, State
<1>2. CASE f = "connections"
  BY <1>2 DEF Shows, Document, Things, Object, Shown, ShownIn, ToSet, State
<1> QED
  BY <1>1, <1>2 DEF Lists

\* and what a sound state says of it.
LEMMA SoundLists ==
  ASSUME NEW s, Sound(s), NEW f \in Lists
  PROVE  /\ s \in State /\ Proper(s, f)
         /\ s[f] \subseteq Things(f) /\ Things(f) \subseteq Object
         /\ s.attr \in [Object -> Attributes]
BY DEF Sound, Lists, State, Things, Object

\* In a sound state an object is found by its id,
LEMMA NamedIs ==
  ASSUME NEW d, NEW s, Shows(d, s), Sound(s), NEW f \in Lists, NEW o \in s[f]
  PROVE  Named(d, f, s.attr[o].id) = o
<1> DEFINE n == IdsOf(d)
<1>1. o \in ToSet(d[f]) /\ d[f] \in Seq(Things(f)) /\ NoRepeats(d[f]) /\ d.attr = s.attr
      /\ ToSet(d[f]) = s[f] /\ s[f] \subseteq Object
  BY ShowsLists
<1>2. \A q \in s[f] : n[q] = s.attr[q].id
  BY <1>1 DEF IdsOf
<1>3. \A q \in s[f] : s.attr[q].id = s.attr[o].id => q = o
  BY SoundLists DEF Proper
<1>4. Collection!FirstById(d[f], n, n[o]) = o
  <2> HIDE DEF n
  <2> QED
    BY <1>1, <1>2, <1>3, FoundById
<1> QED
  BY <1>2, <1>4 DEF Named

\* and nothing is found by an id that no object of the list has.
LEMMA NamedNone ==
  ASSUME NEW d, NEW s, Shows(d, s), NEW f \in Lists, NEW i,
         \A o \in s[f] : s.attr[o].id # i
  PROVE  Named(d, f, i) = None
<1> DEFINE n == IdsOf(d)
<1>1. d.attr = s.attr /\ ToSet(d[f]) = s[f] /\ s[f] \subseteq Object
  BY ShowsLists
<1>2. \A q \in ToSet(d[f]) : n[q] # i
  BY <1>1 DEF IdsOf
<1>3. Collection!FirstById(d[f], n, i) = None
  <2> HIDE DEF n
  <2> QED
    BY <1>2, NotFoundById
<1> QED
  BY <1>3 DEF Named

\* Whether an id is taken.
LEMMA NamedIsSomeone ==
  ASSUME NEW d, NEW s, Shows(d, s), Sound(s), NEW f \in Lists, NEW i, Named(d, f, i) # None
  PROVE  Named(d, f, i) \in s[f] /\ s.attr[Named(d, f, i)].id = i
<1>1. PICK o \in s[f] : s.attr[o].id = i
  BY NamedNone
<1> QED
  BY <1>1, NamedIs

\* A document with one list replaced, field by field,
LEMMA FieldReplaced ==
  ASSUME NEW d,
         d = [components |-> d.components, connections |-> d.connections, attr |-> d.attr],
         NEW f \in Lists, NEW l
  PROVE  [d EXCEPT ![f] = l] =
           [components |-> IF f = "components" THEN l ELSE d.components,
            connections |-> IF f = "connections" THEN l ELSE d.connections,
            attr |-> d.attr]
<1> DEFINE a == d.components
           b == d.connections
           c == d.attr
<1>1. d = [components |-> a, connections |-> b, attr |-> c]
  OBVIOUS
<1> HIDE DEF a, b, c
<1>2. [d EXCEPT ![f] = l] =
        [components |-> IF f = "components" THEN l ELSE a,
         connections |-> IF f = "connections" THEN l ELSE b, attr |-> c]
  <2>1. CASE f = "components"
    BY <1>1, <2>1
  <2>2. CASE f = "connections"
    BY <1>1, <2>2
  <2> QED
    BY <2>1, <2>2 DEF Lists
<1> QED
  BY <1>2 DEF a, b, c

\* shows the state with the objects of that list replaced.
LEMMA ListReplaced ==
  ASSUME NEW d, NEW s, Shows(d, s), NEW f \in Lists,
         NEW l \in Seq(Things(f)), NoRepeats(l)
  PROVE  Shows([d EXCEPT ![f] = l], Relisted(s, f, ToSet(l)))
<1> DEFINE e == [d EXCEPT ![f] = l]
           r == Relisted(s, f, ToSet(l))
<1>1. /\ d \in Document /\ NoRepeats(d.components) /\ NoRepeats(d.connections)
      /\ s.components = ToSet(d.components) /\ s.connections = ToSet(d.connections)
      /\ s.attr = d.attr
  BY DEF Shows
<1>2. d = [components |-> d.components, connections |-> d.connections, attr |-> d.attr]
  BY <1>1 DEF Document
<1>3. e = [components |-> IF f = "components" THEN l ELSE d.components,
           connections |-> IF f = "connections" THEN l ELSE d.connections,
           attr |-> d.attr]
  BY <1>2, FieldReplaced
<1> HIDE DEF e
<1>5. /\ e.components = IF f = "components" THEN l ELSE d.components
      /\ e.connections = IF f = "connections" THEN l ELSE d.connections
      /\ e.attr = d.attr
  BY <1>3
<1>6. e \in Document
  BY <1>1, <1>3 DEF Document, Things, Lists
<1>7. NoRepeats(e.components) /\ NoRepeats(e.connections)
  BY <1>1, <1>5
<1>8. r = [components |-> ToSet(e.components), connections |-> ToSet(e.connections),
           attr |-> e.attr]
  BY <1>1, <1>5 DEF Relisted
<1> HIDE DEF r
<1>9. Shows(e, r)
  BY <1>6, <1>7, <1>8 DEF Shows
<1> QED
  BY <1>9 DEF e, r

\* Inserting an object whose id is free shows it besides the others.
LEMMA InsertShows ==
  ASSUME NEW d, NEW s, Shows(d, s), NEW f \in Lists, NEW o \in Things(f), o \notin s[f],
         \A q \in s[f] : s.attr[q].id # s.attr[o].id
  PROVE  Shows(Insert(d, f, o), Relisted(s, f, s[f] \cup {o}))
<1>1. /\ d[f] \in Seq(Things(f)) /\ NoRepeats(d[f]) /\ ToSet(d[f]) = s[f]
      /\ d.attr = s.attr /\ s \in State
  BY ShowsLists
<1>2. Named(d, f, d.attr[o].id) = None
  BY <1>1, NamedNone
<1>3. Insert(d, f, o) = [d EXCEPT ![f] = Append(d[f], o)]
  BY <1>1, <1>2 DEF Insert, Shows, Document, Lists
<1>4. /\ Append(d[f], o) \in Seq(Things(f)) /\ NoRepeats(Append(d[f], o))
      /\ ToSet(Append(d[f], o)) = s[f] \cup {o}
  BY <1>1, AppendedList
<1> DEFINE l == Append(d[f], o)
<1>5. Insert(d, f, o) = [d EXCEPT ![f] = l]
  BY <1>3
<1>6. l \in Seq(Things(f)) /\ NoRepeats(l) /\ ToSet(l) = s[f] \cup {o}
  BY <1>4
<1> HIDE DEF l
<1>7. Shows([d EXCEPT ![f] = l], Relisted(s, f, ToSet(l)))
  BY <1>6, ListReplaced
<1> QED
  BY <1>5, <1>6, <1>7

\* Deleting by the id of an object takes that object away, and no other,
LEMMA DeleteShows ==
  ASSUME NEW d, NEW s, Shows(d, s), Sound(s), NEW f \in Lists, NEW o \in s[f]
  PROVE  Shows(Delete(d, f, s.attr[o].id), Relisted(s, f, s[f] \ {o}))
<1>1. /\ d[f] \in Seq(Things(f)) /\ NoRepeats(d[f]) /\ ToSet(d[f]) = s[f]
      /\ d.attr = s.attr /\ s \in State /\ o \in Object
  BY ShowsLists
<1>2. Named(d, f, s.attr[o].id) = o
  BY NamedIs
<1>3. o # None
  BY <1>1, NoneIsNoObject
<1>4. Delete(d, f, s.attr[o].id) = [d EXCEPT ![f] = Collection!Without(d[f], o)]
  BY <1>1, <1>2, <1>3 DEF Delete, Shows, Document, Lists
<1>5. /\ Collection!Without(d[f], o) \in Seq(Things(f))
      /\ NoRepeats(Collection!Without(d[f], o))
      /\ ToSet(Collection!Without(d[f], o)) = s[f] \ {o}
  BY <1>1, RemovedFromList
<1> DEFINE l == Collection!Without(d[f], o)
<1>6. l \in Seq(Things(f)) /\ NoRepeats(l) /\ ToSet(l) = s[f] \ {o}
  BY <1>5
<1>7. Delete(d, f, s.attr[o].id) = [d EXCEPT ![f] = l]
  BY <1>4
<1> HIDE DEF l
<1>8. Shows([d EXCEPT ![f] = l], Relisted(s, f, ToSet(l)))
  BY <1>6, ListReplaced
<1> QED
  BY <1>6, <1>7, <1>8

\* and deleting by an id that nothing has changes nothing.
LEMMA DeleteNothing ==
  ASSUME NEW d, NEW s, Shows(d, s), NEW f \in Lists, NEW i,
         \A o \in s[f] : s.attr[o].id # i
  PROVE  Delete(d, f, i) = d
BY NamedNone DEF Delete

\* Fewer objects are as sound as more.
LEMMA SoundWithout ==
  ASSUME NEW s, Sound(s), NEW t \in State, t.attr = s.attr,
         t.components \subseteq s.components, t.connections \subseteq s.connections
  PROVE  Sound(t)
BY DEF Sound, Proper

-----------------------------------------------------------------------------
(* The folds of the commands, step by step. *)

\* A set of numbers has a least one.
LEMMA LeastExists ==
  ASSUME NEW S \in SUBSET Nat, S # {}
  PROVE  \E m \in S : \A k \in S : m <= k
<1> DEFINE Less == OpToRel(<, Nat)
<1>1. IsWellFoundedOn(Less, Nat)
  BY NatLessThanWellFounded
<1>2. PICK m \in S : \A k \in S : <<k, m>> \notin Less
  <2> HIDE DEF Less
  <2> QED
    BY <1>1, WFMin
<1>3. \A x, y \in Nat : x < y => <<x, y>> \in Less
  BY DEF OpToRel
<1> HIDE DEF Less
<1>4. \A k \in S : ~(k < m)
  BY <1>2, <1>3
<1> QED
  BY <1>2, <1>4

\* What a lookup finds stands in the list.
LEMMA FoundIsListed ==
  ASSUME NEW S, NEW l \in Seq(S), NEW n, NEW i
  PROVE  Collection!FirstById(l, n, i) \in ToSet(l) \cup {None}
<1> DEFINE Bears(q) == n[l[q]] = i
           Least(q) == Bears(q) /\ \A r \in DOMAIN l : Bears(r) => q <= r
           P == {q \in DOMAIN l : Bears(q)}
<1>1. CASE P # {}
  <2>1. P \in SUBSET Nat
    OBVIOUS
  <2>2. \E q \in DOMAIN l : Least(q)
    <3>1. PICK q \in P : \A k \in P : q <= k
      <4> HIDE DEF P
      <4> QED
        BY <1>1, <2>1, LeastExists
    <3> QED
      BY <3>1
  <2> DEFINE c == CHOOSE q \in DOMAIN l : Least(q)
  <2>3. c \in DOMAIN l
    <3> HIDE DEF Least
    <3> QED
      BY <2>2
  <2>4. Collection!FirstById(l, n, i) = l[c]
    BY <1>1 DEF Collection!FirstById
  <2> QED
    BY <2>3, <2>4 DEF ToSet
<1>2. CASE P = {}
  BY <1>2 DEF Collection!FirstById
<1> QED
  BY <1>1, <1>2

\* One step of the fold that collects the connections of a component:
TouchingOne(d, k, found, c) ==
  IF k \in {d.attr[c].source, d.attr[c].target} THEN Append(found, c) ELSE found

\* it gives a list of connections.
LEMMA TouchingIsList ==
  ASSUME NEW d, NEW k, NEW found \in Seq(Connection), NEW c \in Connection
  PROVE  TouchingOne(d, k, found, c) \in Seq(Connection)
BY DEF TouchingOne

\* A document with a connection inserted, and one with a connection deleted,
\* is a document again.
LEMMA InsertIsDocument ==
  ASSUME NEW d \in Document, NEW c \in Connection
  PROVE  Insert(d, "connections", c) \in Document
<1> DEFINE l == Append(d.connections, c)
<1>1. l \in Seq(Connection)
  BY DEF Document
<1>2. Insert(d, "connections", c) \in {d, [d EXCEPT !.connections = l]}
  BY DEF Insert
<1> HIDE DEF l
<1>3. [d EXCEPT !.connections = l] \in Document
  BY <1>1 DEF Document
<1> QED
  BY <1>2, <1>3

\* Deleting a connection by any id leaves a document.
LEMMA DeleteIsDocument ==
  ASSUME NEW d \in Document, NEW i
  PROVE  Delete(d, "connections", i) \in Document
<1> DEFINE o == Named(d, "connections", i)
           l == d.connections
           j == Collection!Position(l, o)
<1>1. l \in Seq(Connection)
  BY DEF Document
<1>2. o \in ToSet(l) \cup {None}
  BY <1>1, FoundIsListed DEF Named
<1>3. CASE o = None
  BY <1>3 DEF Delete
<1>4. CASE o \in ToSet(l)
  <2>1. j \in DOMAIN l
    <3>1. \E p \in DOMAIN l : l[p] = o
      BY <1>4 DEF ToSet
    <3> QED
      BY <3>1 DEF Collection!Position
  <2>2. Collection!Without(l, o) \in Seq(Connection)
    <3> HIDE DEF l, o
    <3>1. Collection!Without(l, o) = SubSeq(l, 1, j - 1) \o SubSeq(l, j + 1, Len(l))
      BY DEF Collection!Without, Collection!RemoveAt
    <3> HIDE DEF j
    <3>2. SubSeq(l, 1, j - 1) \in Seq(Connection) /\ SubSeq(l, j + 1, Len(l)) \in Seq(Connection)
      BY <1>1, <2>1
    <3> QED
      BY <3>1, <3>2
  <2>3. Delete(d, "connections", i) \in {d, [d EXCEPT !.connections = Collection!Without(l, o)]}
    BY DEF Delete
  <2> HIDE DEF o, l
  <2> QED
    BY <2>2, <2>3 DEF Document
<1> QED
  BY <1>2, <1>3, <1>4

\* What a move says of one component.
OneMove == [id : Id, old : Place, new : Place]

\* One step of the fold that moves components: it does nothing without the component.
MoveOne(d, m, which) ==
  LET o == Named(d, "components", m.id)
  IN  IF o = None THEN d ELSE Assign(d, o, "at", m[which])

\* Moving one component leaves a document.
LEMMA MoveIsDocument ==
  ASSUME NEW d \in Document, NEW m \in OneMove,
         NEW which \in {"old", "new"}
  PROVE  MoveOne(d, m, which) \in Document
<1> DEFINE o == Named(d, "components", m.id)
<1>1. o \in ToSet(d.components) \cup {None} /\ d.components \in Seq(Component)
  BY FoundIsListed DEF Named, Document
<1>2. o \in Component \/ o = None
  BY <1>1 DEF ToSet
<1>3. CASE o = None
  BY <1>3 DEF MoveOne
<1>4. CASE o # None
  <2>1. o \in Object /\ m[which] \in Place /\ d.attr \in [Object -> Attributes]
    BY <1>2, <1>4 DEF Object, Document, OneMove
  <2>2. \A a \in Attributes, x \in Place : [a EXCEPT !["at"] = x] \in Attributes
    BY DEF Attributes, Blank
  <2>3. MoveOne(d, m, which) = [d EXCEPT !.attr = [d.attr EXCEPT ![o] = [d.attr[o] EXCEPT !["at"] = m[which]]]]
    BY <1>4 DEF MoveOne, Assign, Document
  <2>4. [d.attr EXCEPT ![o] = [d.attr[o] EXCEPT !["at"] = m[which]]] \in [Object -> Attributes]
    BY <2>1, <2>2
  <2> HIDE DEF o
  <2> QED
    BY <2>3, <2>4 DEF Document
<1> QED
  BY <1>3, <1>4


\* Inserting the connections of a list, one after another.
LEMMA InsertChain ==
  ASSUME NEW d \in Document, NEW links \in Seq(Connection)
  PROVE  \E chain \in [0 .. Len(links) -> Document] :
           /\ chain[0] = d
           /\ \A i \in 1 .. Len(links) : chain[i] = Insert(chain[i - 1], "connections", links[i])
           /\ chain[Len(links)] = FoldLeft(LAMBDA acc, c : Insert(acc, "connections", c), d, links)
<1> DEFINE n == Len(links)
           step == [x \in (1 .. n) \X Document |-> Insert(x[2], "connections", links[x[1]])]
           Folds(g) == g = [s \in SUBSET (1 .. n) |->
                              IF s = {} THEN d
                              ELSE Insert(g[s \ {Max(s)}], "connections", links[Max(s)])]
<1>1. n \in Nat /\ DOMAIN links = 1 .. n
  OBVIOUS
<1>11. d \in Document
  OBVIOUS
<1>2. step \in [(1 .. n) \X Document -> Document]
  <2>1. \A x \in (1 .. n) \X Document : Insert(x[2], "connections", links[x[1]]) \in Document
    BY <1>1, InsertIsDocument
  <2> QED
    BY <2>1
<1>3. PICK it \in [SUBSET (1 .. n) -> Document] : IsLeftFold(it, n, d, step)
  <2> HIDE DEF n, step
  <2> QED
    BY <1>1, <1>2, <1>11, LeftFoldExists
<1>4. Folds(it)
  <2>1. ASSUME NEW s \in SUBSET (1 .. n), s # {}
        PROVE  step[<<Max(s), it[s \ {Max(s)}]>>] = Insert(it[s \ {Max(s)}], "connections", links[Max(s)])
    <3>1. Max(s) \in 1 .. n /\ it[s \ {Max(s)}] \in Document
      <4> HIDE DEF n
      <4>1. Max(s) \in s
        BY <1>1, <2>1, MaxOfSet
      <4> QED
        BY <1>3, <4>1
    <3> HIDE DEF n
    <3> QED
      BY <3>1
  <2> HIDE DEF n, step
  <2> QED
    BY <1>3, <2>1 DEF IsLeftFold
<1> DEFINE g == CHOOSE g : Folds(g)
<1>5. Folds(g)
  <2> HIDE DEF Folds
  <2> QED
    BY <1>4
<1>6. FoldLeft(LAMBDA acc, c : Insert(acc, "connections", c), d, links) = g[1 .. n]
  BY <1>1 DEF FoldLeft, MapThenFoldSet
<1> DEFINE chain == [i \in 0 .. n |-> g[1 .. i]]
<1>7. chain[0] = d
  <2>1. chain[0] = g[{}] /\ {} \in SUBSET (1 .. n)
    BY <1>1
  <2> HIDE DEF g
  <2> QED
    BY <1>5, <2>1
<1>8. ASSUME NEW i \in 1 .. n PROVE chain[i] = Insert(chain[i - 1], "connections", links[i])
  <2>1. n \in Nat /\ i \in 1 .. n
    BY <1>1
  <2>2. /\ 1 .. i \in SUBSET (1 .. n) /\ 1 .. i # {}
        /\ i - 1 \in 0 .. n /\ i \in 0 .. n
        /\ Max(1 .. i) = i /\ (1 .. i) \ {i} = 1 .. i - 1
    <3> HIDE DEF n, g
    <3> QED
      BY <2>1, MaxOfPrefix
  <2> HIDE DEF g
  <2>3. g[1 .. i] = Insert(g[1 .. i - 1], "connections", links[i])
    BY <1>5, <2>2
  <2> QED
    BY <2>2, <2>3
<1>9. chain \in [0 .. n -> Document]
  <2> DEFINE S == {i \in 0 .. n : chain[i] \in Document}
  <2> HIDE DEF chain
  <2>1. 0 \in S
    <3>1. 0 \in 0 .. n /\ chain[0] \in Document
      BY <1>1, <1>7, <1>11
    <3> HIDE DEF n
    <3> QED
      BY <3>1
  <2>2. ASSUME NEW i \in 1 .. n, i - 1 \in S PROVE i \in S
    <3>1. chain[i - 1] \in Document
      BY <2>2
    <3>2. Insert(chain[i - 1], "connections", links[i]) \in Document
      BY <1>1, <3>1, InsertIsDocument
    <3> QED
      BY <1>8, <3>2
  <2>3. 0 .. n \subseteq S
    <3> HIDE DEF S, n
    <3> QED
      BY <1>1, <2>1, <2>2, NumbersUpTo
  <2>4. \A i \in 0 .. n : chain[i] \in Document
    BY <2>3
  <2> QED
    BY <2>4 DEF chain
<1>10. chain[n] = g[1 .. n]
  BY <1>1
<1> HIDE DEF g, chain
<1> QED
  BY <1>1, <1>6, <1>7, <1>8, <1>9, <1>10


\* Deleting the connections with the ids of a list.
LEMMA DeleteChain ==
  ASSUME NEW d \in Document, NEW ids \in Seq(ConnectionId)
  PROVE  \E chain \in [0 .. Len(ids) -> Document] :
           /\ chain[0] = d
           /\ \A i \in 1 .. Len(ids) : chain[i] = Delete(chain[i - 1], "connections", ids[i])
           /\ chain[Len(ids)] = FoldLeft(LAMBDA acc, i : Delete(acc, "connections", i), d, ids)
<1> DEFINE n == Len(ids)
           step == [x \in (1 .. n) \X Document |-> Delete(x[2], "connections", ids[x[1]])]
           Folds(g) == g = [s \in SUBSET (1 .. n) |->
                              IF s = {} THEN d
                              ELSE Delete(g[s \ {Max(s)}], "connections", ids[Max(s)])]
<1>1. n \in Nat /\ DOMAIN ids = 1 .. n
  OBVIOUS
<1>11. d \in Document
  OBVIOUS
<1>2. step \in [(1 .. n) \X Document -> Document]
  <2>1. \A x \in (1 .. n) \X Document : Delete(x[2], "connections", ids[x[1]]) \in Document
    BY <1>1, DeleteIsDocument
  <2> QED
    BY <2>1
<1>3. PICK it \in [SUBSET (1 .. n) -> Document] : IsLeftFold(it, n, d, step)
  <2> HIDE DEF n, step
  <2> QED
    BY <1>1, <1>2, <1>11, LeftFoldExists
<1>4. Folds(it)
  <2>1. ASSUME NEW s \in SUBSET (1 .. n), s # {}
        PROVE  step[<<Max(s), it[s \ {Max(s)}]>>] = Delete(it[s \ {Max(s)}], "connections", ids[Max(s)])
    <3>1. Max(s) \in 1 .. n /\ it[s \ {Max(s)}] \in Document
      <4> HIDE DEF n
      <4>1. Max(s) \in s
        BY <1>1, <2>1, MaxOfSet
      <4> QED
        BY <1>3, <4>1
    <3> HIDE DEF n
    <3> QED
      BY <3>1
  <2> HIDE DEF n, step
  <2> QED
    BY <1>3, <2>1 DEF IsLeftFold
<1> DEFINE g == CHOOSE g : Folds(g)
<1>5. Folds(g)
  <2> HIDE DEF Folds
  <2> QED
    BY <1>4
<1>6. FoldLeft(LAMBDA acc, i : Delete(acc, "connections", i), d, ids) = g[1 .. n]
  BY <1>1 DEF FoldLeft, MapThenFoldSet
<1> DEFINE chain == [i \in 0 .. n |-> g[1 .. i]]
<1>7. chain[0] = d
  <2>1. chain[0] = g[{}] /\ {} \in SUBSET (1 .. n)
    BY <1>1
  <2> HIDE DEF g
  <2> QED
    BY <1>5, <2>1
<1>8. ASSUME NEW i \in 1 .. n PROVE chain[i] = Delete(chain[i - 1], "connections", ids[i])
  <2>1. n \in Nat /\ i \in 1 .. n
    BY <1>1
  <2>2. /\ 1 .. i \in SUBSET (1 .. n) /\ 1 .. i # {}
        /\ i - 1 \in 0 .. n /\ i \in 0 .. n
        /\ Max(1 .. i) = i /\ (1 .. i) \ {i} = 1 .. i - 1
    <3> HIDE DEF n, g
    <3> QED
      BY <2>1, MaxOfPrefix
  <2> HIDE DEF g
  <2>3. g[1 .. i] = Delete(g[1 .. i - 1], "connections", ids[i])
    BY <1>5, <2>2
  <2> QED
    BY <2>2, <2>3
<1>9. chain \in [0 .. n -> Document]
  <2> DEFINE S == {i \in 0 .. n : chain[i] \in Document}
  <2> HIDE DEF chain
  <2>1. 0 \in S
    <3>1. 0 \in 0 .. n /\ chain[0] \in Document
      BY <1>1, <1>7, <1>11
    <3> HIDE DEF n
    <3> QED
      BY <3>1
  <2>2. ASSUME NEW i \in 1 .. n, i - 1 \in S PROVE i \in S
    <3>1. chain[i - 1] \in Document
      BY <2>2
    <3>2. Delete(chain[i - 1], "connections", ids[i]) \in Document
      BY <1>1, <3>1, DeleteIsDocument
    <3> QED
      BY <1>8, <3>2
  <2>3. 0 .. n \subseteq S
    <3> HIDE DEF S, n
    <3> QED
      BY <1>1, <2>1, <2>2, NumbersUpTo
  <2>4. \A i \in 0 .. n : chain[i] \in Document
    BY <2>3
  <2> QED
    BY <2>4 DEF chain
<1>10. chain[n] = g[1 .. n]
  BY <1>1
<1> HIDE DEF g, chain
<1> QED
  BY <1>1, <1>6, <1>7, <1>8, <1>9, <1>10


\* Moving the components of a list of moves.
LEMMA MoveChain ==
  ASSUME NEW d \in Document, NEW moves \in Seq(OneMove), NEW which \in {"old", "new"}
  PROVE  \E chain \in [0 .. Len(moves) -> Document] :
           /\ chain[0] = d
           /\ \A i \in 1 .. Len(moves) : chain[i] = MoveOne(chain[i - 1], moves[i], which)
           /\ chain[Len(moves)] = MoveAll(d, moves, which)
<1> DEFINE n == Len(moves)
           step == [x \in (1 .. n) \X Document |-> MoveOne(x[2], moves[x[1]], which)]
           Folds(g) == g = [s \in SUBSET (1 .. n) |->
                              IF s = {} THEN d
                              ELSE MoveOne(g[s \ {Max(s)}], moves[Max(s)], which)]
<1>1. n \in Nat /\ DOMAIN moves = 1 .. n
  OBVIOUS
<1>11. d \in Document
  OBVIOUS
<1>2. step \in [(1 .. n) \X Document -> Document]
  <2>1. \A x \in (1 .. n) \X Document : MoveOne(x[2], moves[x[1]], which) \in Document
    BY <1>1, MoveIsDocument
  <2> QED
    BY <2>1
<1>3. PICK it \in [SUBSET (1 .. n) -> Document] : IsLeftFold(it, n, d, step)
  <2> HIDE DEF n, step
  <2> QED
    BY <1>1, <1>2, <1>11, LeftFoldExists
<1>4. Folds(it)
  <2>1. ASSUME NEW s \in SUBSET (1 .. n), s # {}
        PROVE  step[<<Max(s), it[s \ {Max(s)}]>>] = MoveOne(it[s \ {Max(s)}], moves[Max(s)], which)
    <3>1. Max(s) \in 1 .. n /\ it[s \ {Max(s)}] \in Document
      <4> HIDE DEF n
      <4>1. Max(s) \in s
        BY <1>1, <2>1, MaxOfSet
      <4> QED
        BY <1>3, <4>1
    <3> HIDE DEF n
    <3> QED
      BY <3>1
  <2> HIDE DEF n, step
  <2> QED
    BY <1>3, <2>1 DEF IsLeftFold
<1> DEFINE g == CHOOSE g : Folds(g)
<1>5. Folds(g)
  <2> HIDE DEF Folds
  <2> QED
    BY <1>4
<1>6. MoveAll(d, moves, which) = g[1 .. n]
  BY <1>1 DEF MoveAll, MoveOne, FoldLeft, MapThenFoldSet
<1> DEFINE chain == [i \in 0 .. n |-> g[1 .. i]]
<1>7. chain[0] = d
  <2>1. chain[0] = g[{}] /\ {} \in SUBSET (1 .. n)
    BY <1>1
  <2> HIDE DEF g
  <2> QED
    BY <1>5, <2>1
<1>8. ASSUME NEW i \in 1 .. n PROVE chain[i] = MoveOne(chain[i - 1], moves[i], which)
  <2>1. n \in Nat /\ i \in 1 .. n
    BY <1>1
  <2>2. /\ 1 .. i \in SUBSET (1 .. n) /\ 1 .. i # {}
        /\ i - 1 \in 0 .. n /\ i \in 0 .. n
        /\ Max(1 .. i) = i /\ (1 .. i) \ {i} = 1 .. i - 1
    <3> HIDE DEF n, g
    <3> QED
      BY <2>1, MaxOfPrefix
  <2> HIDE DEF g
  <2>3. g[1 .. i] = MoveOne(g[1 .. i - 1], moves[i], which)
    BY <1>5, <2>2
  <2> QED
    BY <2>2, <2>3
<1>9. chain \in [0 .. n -> Document]
  <2> DEFINE S == {i \in 0 .. n : chain[i] \in Document}
  <2> HIDE DEF chain
  <2>1. 0 \in S
    <3>1. 0 \in 0 .. n /\ chain[0] \in Document
      BY <1>1, <1>7, <1>11
    <3> HIDE DEF n
    <3> QED
      BY <3>1
  <2>2. ASSUME NEW i \in 1 .. n, i - 1 \in S PROVE i \in S
    <3>1. chain[i - 1] \in Document
      BY <2>2
    <3>2. MoveOne(chain[i - 1], moves[i], which) \in Document
      BY <1>1, <3>1, MoveIsDocument
    <3> QED
      BY <1>8, <3>2
  <2>3. 0 .. n \subseteq S
    <3> HIDE DEF S, n
    <3> QED
      BY <1>1, <2>1, <2>2, NumbersUpTo
  <2>4. \A i \in 0 .. n : chain[i] \in Document
    BY <2>3
  <2> QED
    BY <2>4 DEF chain
<1>10. chain[n] = g[1 .. n]
  BY <1>1
<1> HIDE DEF g, chain
<1> QED
  BY <1>1, <1>6, <1>7, <1>8, <1>9, <1>10


\* Collecting the connections of a component.
LEMMA TouchingChain ==
  ASSUME NEW d, NEW k, NEW l \in Seq(Connection), l = d.connections
  PROVE  \E chain \in [0 .. Len(l) -> Seq(Connection)] :
           /\ chain[0] = <<>>
           /\ \A i \in 1 .. Len(l) : chain[i] = TouchingOne(d, k, chain[i - 1], l[i])
           /\ chain[Len(l)] = Touching(d, k)
<1> DEFINE n == Len(l)
           step == [x \in (1 .. n) \X Seq(Connection) |-> TouchingOne(d, k, x[2], l[x[1]])]
           Folds(g) == g = [s \in SUBSET (1 .. n) |->
                              IF s = {} THEN <<>>
                              ELSE TouchingOne(d, k, g[s \ {Max(s)}], l[Max(s)])]
<1>1. n \in Nat /\ DOMAIN l = 1 .. n
  OBVIOUS
<1>11. <<>> \in Seq(Connection)
  OBVIOUS
<1>2. step \in [(1 .. n) \X Seq(Connection) -> Seq(Connection)]
  <2>1. \A x \in (1 .. n) \X Seq(Connection) : TouchingOne(d, k, x[2], l[x[1]]) \in Seq(Connection)
    BY <1>1, TouchingIsList
  <2> QED
    BY <2>1
<1>3. PICK it \in [SUBSET (1 .. n) -> Seq(Connection)] : IsLeftFold(it, n, <<>>, step)
  <2> HIDE DEF n, step
  <2> QED
    BY <1>1, <1>2, <1>11, LeftFoldExists
<1>4. Folds(it)
  <2>1. ASSUME NEW s \in SUBSET (1 .. n), s # {}
        PROVE  step[<<Max(s), it[s \ {Max(s)}]>>] = TouchingOne(d, k, it[s \ {Max(s)}], l[Max(s)])
    <3>1. Max(s) \in 1 .. n /\ it[s \ {Max(s)}] \in Seq(Connection)
      <4> HIDE DEF n
      <4>1. Max(s) \in s
        BY <1>1, <2>1, MaxOfSet
      <4> QED
        BY <1>3, <4>1
    <3> HIDE DEF n
    <3> QED
      BY <3>1
  <2> HIDE DEF n, step
  <2> QED
    BY <1>3, <2>1 DEF IsLeftFold
<1> DEFINE g == CHOOSE g : Folds(g)
<1>5. Folds(g)
  <2> HIDE DEF Folds
  <2> QED
    BY <1>4
<1>6. Touching(d, k) = g[1 .. n]
  BY <1>1 DEF Touching, TouchingOne, FoldLeft, MapThenFoldSet
<1> DEFINE chain == [i \in 0 .. n |-> g[1 .. i]]
<1>7. chain[0] = <<>>
  <2>1. chain[0] = g[{}] /\ {} \in SUBSET (1 .. n)
    BY <1>1
  <2> HIDE DEF g
  <2> QED
    BY <1>5, <2>1
<1>8. ASSUME NEW i \in 1 .. n PROVE chain[i] = TouchingOne(d, k, chain[i - 1], l[i])
  <2>1. n \in Nat /\ i \in 1 .. n
    BY <1>1
  <2>2. /\ 1 .. i \in SUBSET (1 .. n) /\ 1 .. i # {}
        /\ i - 1 \in 0 .. n /\ i \in 0 .. n
        /\ Max(1 .. i) = i /\ (1 .. i) \ {i} = 1 .. i - 1
    <3> HIDE DEF n, g
    <3> QED
      BY <2>1, MaxOfPrefix
  <2> HIDE DEF g
  <2>3. g[1 .. i] = TouchingOne(d, k, g[1 .. i - 1], l[i])
    BY <1>5, <2>2
  <2> QED
    BY <2>2, <2>3
<1>9. chain \in [0 .. n -> Seq(Connection)]
  <2> DEFINE S == {i \in 0 .. n : chain[i] \in Seq(Connection)}
  <2> HIDE DEF chain
  <2>1. 0 \in S
    <3>1. 0 \in 0 .. n /\ chain[0] \in Seq(Connection)
      BY <1>1, <1>7, <1>11
    <3> HIDE DEF n
    <3> QED
      BY <3>1
  <2>2. ASSUME NEW i \in 1 .. n, i - 1 \in S PROVE i \in S
    <3>1. chain[i - 1] \in Seq(Connection)
      BY <2>2
    <3>2. TouchingOne(d, k, chain[i - 1], l[i]) \in Seq(Connection)
      BY <1>1, <3>1, TouchingIsList
    <3> QED
      BY <1>8, <3>2
  <2>3. 0 .. n \subseteq S
    <3> HIDE DEF S, n
    <3> QED
      BY <1>1, <2>1, <2>2, NumbersUpTo
  <2>4. \A i \in 0 .. n : chain[i] \in Seq(Connection)
    BY <2>3
  <2> QED
    BY <2>4 DEF chain
<1>10. chain[n] = g[1 .. n]
  BY <1>1
<1> HIDE DEF g, chain
<1> QED
  BY <1>1, <1>6, <1>7, <1>8, <1>9, <1>10

-----------------------------------------------------------------------------
(* Inserting, deleting and collecting many connections. *)

\* The objects of the first i positions of a list.
First(l, i) == {l[j] : j \in 1 .. i}

\* They grow by one object with each position, up to all the objects of the list.
LEMMA FirstOfList ==
  ASSUME NEW l, NEW S, l \in Seq(S)
  PROVE  /\ Len(l) \in Nat /\ DOMAIN l = 1 .. Len(l)
         /\ First(l, 0) = {} /\ First(l, Len(l)) = ToSet(l)
         /\ \A i \in 1 .. Len(l) : First(l, i) = First(l, i - 1) \cup {l[i]} /\ l[i] \in S
         /\ NoRepeats(l) => \A i \in 1 .. Len(l) : l[i] \notin First(l, i - 1)
<1>1. Len(l) \in Nat /\ DOMAIN l = 1 .. Len(l)
  OBVIOUS
<1>2. First(l, 0) = {} /\ First(l, Len(l)) = ToSet(l)
  BY <1>1 DEF First, ToSet
<1>3. ASSUME NEW i \in 1 .. Len(l)
      PROVE  First(l, i) = First(l, i - 1) \cup {l[i]} /\ l[i] \in S
  <2>1. 1 .. i = (1 .. i - 1) \cup {i}
    BY <1>1
  <2> QED
    BY <1>1, <2>1 DEF First
<1>4. ASSUME NoRepeats(l), NEW i \in 1 .. Len(l)
      PROVE  l[i] \notin First(l, i - 1)
  BY <1>1, <1>4 DEF First, NoRepeats
<1> QED
  BY <1>1, <1>2, <1>3, <1>4

\* What replacing the objects of a list leaves, and that the last replacement counts.
LEMMA RelistedIs ==
  ASSUME NEW s, NEW f \in Lists, NEW objects
  PROVE  /\ Relisted(s, f, objects)[f] = objects
         /\ Relisted(s, f, objects).attr = s.attr
         /\ \A more : Relisted(Relisted(s, f, objects), f, more) = Relisted(s, f, more)
         /\ s \in State => Relisted(s, f, s[f]) = s
         /\ s \in State /\ objects \subseteq Things(f) => Relisted(s, f, objects) \in State
<1>1. CASE f = "components"
  BY <1>1 DEF Relisted, State, Things
<1>2. CASE f = "connections"
  BY <1>2 DEF Relisted, State, Things
<1> QED
  BY <1>1, <1>2 DEF Lists

\* Inserting the connections of a list, one after another, shows them all besides
\* the others, when the state that has them all is sound.
LEMMA InsertAllShows ==
  ASSUME NEW d, NEW s, Shows(d, s), NEW links \in Seq(Connection), NoRepeats(links),
         ToSet(links) \cap s.connections = {},
         Sound(Relisted(s, "connections", s.connections \cup ToSet(links)))
  PROVE  Shows(FoldLeft(LAMBDA acc, c : Insert(acc, "connections", c), d, links),
               Relisted(s, "connections", s.connections \cup ToSet(links)))
<1> DEFINE n == Len(links)
           f == "connections"
           At(i) == Relisted(s, f, s[f] \cup First(links, i))
<1>1. d \in Document /\ s \in State /\ f \in Lists /\ Things(f) = Connection
  BY ShowsLists DEF Shows, Lists, Things
<1>2. /\ n \in Nat
      /\ First(links, 0) = {} /\ First(links, n) = ToSet(links)
      /\ \A i \in 1 .. n : /\ First(links, i) = First(links, i - 1) \cup {links[i]}
                           /\ links[i] \in Connection /\ links[i] \notin First(links, i - 1)
  BY FirstOfList
<1>3. PICK chain \in [0 .. n -> Document] :
        /\ chain[0] = d
        /\ \A i \in 1 .. n : chain[i] = Insert(chain[i - 1], "connections", links[i])
        /\ chain[n] = FoldLeft(LAMBDA acc, c : Insert(acc, "connections", c), d, links)
  BY <1>1, InsertChain
<1>4. ASSUME NEW i \in 1 .. n, Shows(chain[i - 1], At(i - 1)) PROVE Shows(chain[i], At(i))
  <2> DEFINE o == links[i]
             q == At(i - 1)
  <2>1. q[f] = s[f] \cup First(links, i - 1) /\ q.attr = s.attr
    BY <1>1, RelistedIs
  <2>2. /\ o \in Things(f) /\ o \notin First(links, i - 1)
        /\ First(links, i) = First(links, i - 1) \cup {o}
    BY <1>1, <1>2
  <2>3. o \in ToSet(links) /\ First(links, i - 1) \subseteq ToSet(links)
    <3>1. 1 .. i - 1 \subseteq 1 .. n /\ i \in 1 .. n
      BY <1>2
    <3> QED
      BY <1>2, <3>1 DEF First
  <2>4. o \notin q[f]
    BY <2>1, <2>2, <2>3
  <2>5. \A x \in q[f] : q.attr[x].id # q.attr[o].id
    <3> DEFINE all == Relisted(s, f, s[f] \cup ToSet(links))
    <3>1. all[f] = s[f] \cup ToSet(links) /\ all.attr = s.attr
      BY <1>1, RelistedIs
    <3>2. Proper(all, f)
      BY DEF Sound
    <3> HIDE DEF all
    <3>3. \A x \in all[f] : all.attr[x].id = all.attr[o].id => x = o
      BY <2>3, <3>1, <3>2 DEF Proper
    <3> QED
      BY <2>1, <2>3, <2>4, <3>1, <3>3
  <2>6. Relisted(q, f, q[f] \cup {o}) = At(i)
    <3>1. Relisted(q, f, q[f] \cup {o}) = Relisted(s, f, q[f] \cup {o})
      BY <1>1, RelistedIs
    <3>2. q[f] \cup {o} = s[f] \cup First(links, i)
      BY <2>1, <2>2
    <3> QED
      BY <3>1, <3>2
  <2>7. Shows(chain[i - 1], q)
    BY <1>4
  <2> HIDE DEF q, o, f
  <2>8. Shows(Insert(chain[i - 1], f, o), Relisted(q, f, q[f] \cup {o}))
    BY <1>1, <2>2, <2>4, <2>5, <2>7, InsertShows
  <2> QED
    BY <1>3, <2>6, <2>8 DEF o, f
<1> DEFINE T == {i \in 0 .. n : Shows(chain[i], At(i))}
<1>5. 0 \in T
  <2>1. At(0) = Relisted(s, f, s[f])
    <3>1. s[f] \cup First(links, 0) = s[f]
      BY <1>2
    <3> QED
      BY <3>1
  <2>2. Relisted(s, f, s[f]) = s
    <3> HIDE DEF f
    <3> QED
      BY <1>1, RelistedIs
  <2>5. 0 \in 0 .. n
    <3>1. n \in Nat
      BY <1>2
    <3> HIDE DEF n
    <3> QED
      BY <3>1
  <2>6. chain[0] = d
    BY <1>3
  <2>3. chain[0] = d /\ 0 \in 0 .. n
    BY <2>5, <2>6
  <2>4. Shows(chain[0], At(0))
    BY <2>1, <2>2, <2>3
  <2> HIDE DEF At, n
  <2> QED
    BY <2>3, <2>4
<1>6. 0 .. n \subseteq T
  <2>1. ASSUME NEW i \in 1 .. n, i - 1 \in T PROVE i \in T
    <3>1. i - 1 \in 0 .. n /\ i \in 0 .. n
      <4>1. n \in Nat
        BY <1>2
      <4> HIDE DEF n
      <4> QED
        BY <4>1
    <3> HIDE DEF At
    <3> QED
      BY <1>4, <2>1, <3>1
  <2> HIDE DEF T, n
  <2> QED
    BY <1>2, <1>5, <2>1, NumbersUpTo
<1>7. n \in 0 .. n /\ First(links, n) = ToSet(links)
  BY <1>2
<1>8. Shows(chain[n], At(n))
  <2> HIDE DEF At
  <2> QED
    BY <1>6, <1>7
<1>9. At(n) = Relisted(s, "connections", s.connections \cup ToSet(links))
  BY <1>7
<1> HIDE DEF At, n
<1> QED
  BY <1>3, <1>8, <1>9

\* Deleting by the ids of the connections of a list takes exactly these away.
LEMMA DeleteAllShows ==
  ASSUME NEW d, NEW s, Shows(d, s), Sound(s), NEW links \in Seq(Connection), NoRepeats(links),
         ToSet(links) \subseteq s.connections,
         NEW ids, ids = [p \in DOMAIN links |-> s.attr[links[p]].id]
  PROVE  Shows(FoldLeft(LAMBDA acc, i : Delete(acc, "connections", i), d, ids),
               Relisted(s, "connections", s.connections \ ToSet(links)))
<1> DEFINE n == Len(links)
           f == "connections"
           At(i) == Relisted(s, f, s[f] \ First(links, i))
<1>1. d \in Document /\ s \in State /\ f \in Lists /\ Things(f) = Connection
      /\ s[f] \subseteq Connection
  BY ShowsLists DEF Shows, Lists, Things
<1>2. /\ n \in Nat /\ DOMAIN links = 1 .. n
      /\ First(links, 0) = {} /\ First(links, n) = ToSet(links)
      /\ \A i \in 1 .. n : /\ First(links, i) = First(links, i - 1) \cup {links[i]}
                           /\ links[i] \in Connection /\ links[i] \notin First(links, i - 1)
  BY FirstOfList
<1>7. /\ ids \in Seq(ConnectionId) /\ Len(ids) = n
      /\ \A i \in 1 .. n : ids[i] = s.attr[links[i]].id
  <2>1. \A i \in 1 .. n : links[i] \in s.connections
    BY <1>2 DEF ToSet
  <2>2. \A o \in s.connections : s.attr[o].id \in ConnectionId
    BY DEF Sound, Proper, AttributesIn
  <2>3. ids \in [1 .. n -> ConnectionId] /\ \A i \in 1 .. n : ids[i] = s.attr[links[i]].id
    <3> HIDE DEF n
    <3> QED
      BY <1>2, <2>1, <2>2
  <2> HIDE DEF n
  <2> QED
    BY <1>2, <2>3
<1>3. PICK chain \in [0 .. Len(ids) -> Document] :
        /\ chain[0] = d
        /\ \A i \in 1 .. Len(ids) : chain[i] = Delete(chain[i - 1], "connections", ids[i])
        /\ chain[Len(ids)] = FoldLeft(LAMBDA acc, i : Delete(acc, "connections", i), d, ids)
  <2> HIDE DEF n
  <2> QED
    BY <1>1, <1>7, DeleteChain
<1>4. ASSUME NEW i \in 1 .. n, Shows(chain[i - 1], At(i - 1)) PROVE Shows(chain[i], At(i))
  <2> DEFINE o == links[i]
             q == At(i - 1)
  <2>1. q[f] = s[f] \ First(links, i - 1) /\ q.attr = s.attr
    BY DEF Relisted
  <2>2. /\ o \in s[f] /\ o \notin First(links, i - 1)
        /\ First(links, i) = First(links, i - 1) \cup {o}
    BY <1>1, <1>2 DEF ToSet
  <2>4. o \in q[f]
    BY <2>1, <2>2
  <2>5. Sound(q)
    <3>1. q \in State
      <4>1. s[f] \ First(links, i - 1) \subseteq Things(f)
        BY <1>1
      <4> HIDE DEF f
      <4> QED
        BY <1>1, <4>1, RelistedIs
    <3>2. q.components = s.components /\ q.connections \subseteq s.connections
      BY <2>1 DEF Relisted
    <3> HIDE DEF q
    <3> QED
      BY <2>1, <3>1, <3>2, SoundWithout
  <2>6. Relisted(q, f, q[f] \ {o}) = At(i)
    <3>1. Relisted(q, f, q[f] \ {o}) = Relisted(s, f, q[f] \ {o})
      BY <1>1, RelistedIs
    <3>2. q[f] \ {o} = s[f] \ First(links, i)
      BY <2>1, <2>2
    <3> QED
      BY <3>1, <3>2
  <2>7. Shows(chain[i - 1], q)
    BY <1>4
  <2>9. ids[i] = q.attr[o].id
    BY <1>7, <2>1
  <2> HIDE DEF q, o, f
  <2>8. Shows(Delete(chain[i - 1], f, q.attr[o].id), Relisted(q, f, q[f] \ {o}))
    BY <1>1, <2>4, <2>5, <2>7, DeleteShows
  <2>10. chain[i] = Delete(chain[i - 1], f, ids[i])
    <3>1. i \in 1 .. Len(ids)
      BY <1>7
    <3> QED
      BY <1>3, <3>1 DEF f
  <2> QED
    BY <2>6, <2>8, <2>9, <2>10
<1> DEFINE T == {i \in 0 .. n : Shows(chain[i], At(i))}
<1>5. 0 \in T
  <2>1. At(0) = Relisted(s, f, s[f])
    <3>1. s[f] \ First(links, 0) = s[f]
      BY <1>2
    <3> QED
      BY <3>1
  <2>2. Relisted(s, f, s[f]) = s
    <3> HIDE DEF f
    <3> QED
      BY <1>1, RelistedIs
  <2>5. 0 \in 0 .. n
    <3>1. n \in Nat
      BY <1>2
    <3> HIDE DEF n
    <3> QED
      BY <3>1
  <2>6. chain[0] = d
    BY <1>3
  <2>3. chain[0] = d /\ 0 \in 0 .. n
    BY <2>5, <2>6
  <2>4. Shows(chain[0], At(0))
    BY <2>1, <2>2, <2>3
  <2> HIDE DEF At, n
  <2> QED
    BY <2>3, <2>4
<1>6. 0 .. n \subseteq T
  <2>1. ASSUME NEW i \in 1 .. n, i - 1 \in T PROVE i \in T
    <3>1. i - 1 \in 0 .. n /\ i \in 0 .. n
      <4>1. n \in Nat
        BY <1>2
      <4> HIDE DEF n
      <4> QED
        BY <4>1
    <3> HIDE DEF At
    <3> QED
      BY <1>4, <2>1, <3>1
  <2> HIDE DEF T, n
  <2> QED
    BY <1>2, <1>5, <2>1, NumbersUpTo
<1>8. n \in 0 .. n /\ First(links, n) = ToSet(links)
  BY <1>2
<1>9. Shows(chain[n], At(n))
  <2> HIDE DEF At
  <2> QED
    BY <1>6, <1>8
<1>10. At(n) = Relisted(s, "connections", s.connections \ ToSet(links))
  BY <1>8
<1>11. chain[n] = FoldLeft(LAMBDA acc, i : Delete(acc, "connections", i), d, ids)
  <2> HIDE DEF n
  <2> QED
    BY <1>3, <1>7
<1> HIDE DEF At, n
<1> QED
  BY <1>9, <1>10, <1>11

\* The connections of the component with id k.
LinksOf(s, k) == {c \in s.connections : k \in {s.attr[c].source, s.attr[c].target}}

\* A removal collects every connection of its component, and each of them once.
LEMMA TouchingFinds ==
  ASSUME NEW d, NEW s, Shows(d, s), NEW k
  PROVE  /\ Touching(d, k) \in Seq(Connection) /\ NoRepeats(Touching(d, k))
         /\ ToSet(Touching(d, k)) = LinksOf(s, k)
<1> DEFINE l == d.connections
           n == Len(l)
           Links(i) == {c \in First(l, i) : k \in {d.attr[c].source, d.attr[c].target}}
<1>1. l \in Seq(Connection) /\ NoRepeats(l) /\ ToSet(l) = s.connections /\ d.attr = s.attr
  BY DEF Shows, Document
<1>2. /\ n \in Nat
      /\ First(l, 0) = {} /\ First(l, n) = ToSet(l)
      /\ \A i \in 1 .. n : /\ First(l, i) = First(l, i - 1) \cup {l[i]}
                           /\ l[i] \in Connection /\ l[i] \notin First(l, i - 1)
  <2> HIDE DEF l
  <2> QED
    BY <1>1, FirstOfList
<1>3. PICK chain \in [0 .. n -> Seq(Connection)] :
        /\ chain[0] = <<>>
        /\ \A i \in 1 .. n : chain[i] = TouchingOne(d, k, chain[i - 1], l[i])
        /\ chain[n] = Touching(d, k)
  BY <1>1, TouchingChain
<1> HIDE DEF l
<1> DEFINE Good(i) == NoRepeats(chain[i]) /\ ToSet(chain[i]) = Links(i)
<1>4. ASSUME NEW i \in 1 .. n, Good(i - 1) PROVE Good(i)
  <2> DEFINE a == chain[i - 1]
  <2>1. a \in Seq(Connection) /\ l[i] \in Connection /\ l[i] \notin First(l, i - 1)
        /\ First(l, i) = First(l, i - 1) \cup {l[i]}
    <3>1. i - 1 \in 0 .. n
      <4>1. n \in Nat
        BY <1>2
      <4> HIDE DEF n
      <4> QED
        BY <4>1
    <3> HIDE DEF n
    <3>2. a \in Seq(Connection)
      BY <1>3, <3>1
    <3> QED
      BY <1>2, <3>2
  <2>2. NoRepeats(a) /\ ToSet(a) = Links(i - 1) /\ l[i] \notin ToSet(a)
    BY <1>4, <2>1
  <2>3. chain[i] = TouchingOne(d, k, a, l[i])
    BY <1>3
  <2> HIDE DEF a
  <2>4. ToSet(Append(a, l[i])) = ToSet(a) \cup {l[i]} /\ NoRepeats(Append(a, l[i]))
    BY <2>1, <2>2, AppendedList
  <2>5. CASE k \in {d.attr[l[i]].source, d.attr[l[i]].target}
    BY <2>1, <2>2, <2>3, <2>4, <2>5 DEF TouchingOne
  <2>6. CASE k \notin {d.attr[l[i]].source, d.attr[l[i]].target}
    BY <2>1, <2>2, <2>3, <2>6 DEF TouchingOne
  <2> QED
    BY <2>5, <2>6
<1> DEFINE T == {i \in 0 .. n : Good(i)}
<1>5. 0 \in T
  BY <1>2, <1>3 DEF NoRepeats, ToSet
<1>6. 0 .. n \subseteq T
  <2>1. ASSUME NEW i \in 1 .. n, i - 1 \in T PROVE i \in T
    <3>1. i - 1 \in 0 .. n /\ i \in 0 .. n
      <4>1. n \in Nat
        BY <1>2
      <4> HIDE DEF n
      <4> QED
        BY <4>1
    <3> HIDE DEF Good
    <3> QED
      BY <1>4, <2>1, <3>1
  <2> HIDE DEF T, n
  <2> QED
    BY <1>2, <1>5, <2>1, NumbersUpTo
<1>7. n \in 0 .. n
  BY <1>2
<1>8. NoRepeats(chain[n]) /\ ToSet(chain[n]) = Links(n) /\ chain[n] \in Seq(Connection)
  BY <1>3, <1>6, <1>7
<1>9. Links(n) = LinksOf(s, k)
  BY <1>1, <1>2 DEF LinksOf, l
<1> QED
  BY <1>3, <1>8, <1>9

-----------------------------------------------------------------------------
(* Assigning and moving. *)

\* Assigning a property, in a state or a document, field by field.
LEMMA AssignIs ==
  ASSUME NEW s, s = [components |-> s.components, connections |-> s.connections,
                     attr |-> s.attr],
         NEW o, NEW property, NEW x
  PROVE  Assign(s, o, property, x) =
           [components |-> s.components, connections |-> s.connections,
            attr |-> [s.attr EXCEPT ![o] = [s.attr[o] EXCEPT ![property] = x]]]
<1> DEFINE a == s.components
           b == s.connections
           c == s.attr
<1>1. s = [components |-> a, connections |-> b, attr |-> c]
  OBVIOUS
<1> HIDE DEF a, b, c
<1>2. Assign(s, o, property, x) =
        [components |-> a, connections |-> b,
         attr |-> [c EXCEPT ![o] = [c[o] EXCEPT ![property] = x]]]
  BY <1>1 DEF Assign
<1> QED
  BY <1>2 DEF a, b, c

\* A state is its three fields,
LEMMA StateIs ==
  ASSUME NEW s \in State
  PROVE  s = [components |-> s.components, connections |-> s.connections, attr |-> s.attr]
BY DEF State

\* and so is a document.
LEMMA DocumentIs ==
  ASSUME NEW d \in Document
  PROVE  d = [components |-> d.components, connections |-> d.connections, attr |-> d.attr]
BY DEF Document

\* Assigning in a document is assigning in the state it shows.
LEMMA AssignShows ==
  ASSUME NEW d, NEW s, Shows(d, s), NEW o \in Object, NEW property, NEW x,
         [s.attr[o] EXCEPT ![property] = x] \in Attributes
  PROVE  Shows(Assign(d, o, property, x), Assign(s, o, property, x))
<1> DEFINE v == [s.attr[o] EXCEPT ![property] = x]
           e == Assign(d, o, property, x)
           t == Assign(s, o, property, x)
<1>1. /\ d \in Document /\ NoRepeats(d.components) /\ NoRepeats(d.connections)
      /\ s.components = ToSet(d.components) /\ s.connections = ToSet(d.connections)
      /\ s.attr = d.attr /\ s \in State
  BY ShowsLists DEF Shows, Lists
<1>2. e = [components |-> d.components, connections |-> d.connections,
           attr |-> [d.attr EXCEPT ![o] = v]]
  BY <1>1, DocumentIs, AssignIs
<1>3. t = [components |-> s.components, connections |-> s.connections,
           attr |-> [s.attr EXCEPT ![o] = v]]
  BY <1>1, StateIs, AssignIs
<1>4. v \in Attributes
  OBVIOUS
<1> HIDE DEF e, t, v
<1>5. e \in Document
  BY <1>1, <1>2, <1>4 DEF Document
<1>6. Shows(e, t)
  BY <1>1, <1>2, <1>3, <1>5 DEF Shows
<1> QED
  BY <1>6 DEF e, t

\* The components a set of moves names are put in place.
Places(s, m, o) == o \in s.components /\ s.attr[o].id = m.id

\* The state s, with the components that the moves M name where M puts them.
Placed(s, M, which) ==
  [components  |-> s.components,
   connections |-> s.connections,
   attr        |-> [o \in Object |->
                      IF \E m \in M : Places(s, m, o)
                      THEN [id |-> s.attr[o].id,
                            at |-> (CHOOSE m \in M : Places(s, m, o))[which]]
                      ELSE s.attr[o]]]

\* No two moves name the same component.
DistinctIds(M) == \A m, n \in M : m.id = n.id => m = n

\* The two places that a move knows.
Which == {"old", "new"}

\* Moving components changes no list, no id and no other object, and stays sound.
LEMMA PlacedIs ==
  ASSUME NEW s, Sound(s), NEW M \in SUBSET OneMove, DistinctIds(M), NEW which \in Which
  PROVE  /\ Sound(Placed(s, M, which))
         /\ Placed(s, M, which).components = s.components
         /\ Placed(s, M, which).connections = s.connections
         /\ \A o \in Object :
              (\A m \in M : ~Places(s, m, o)) => Placed(s, M, which).attr[o] = s.attr[o]
         /\ \A o \in Object, m \in M :
              Places(s, m, o) =>
                Placed(s, M, which).attr[o] = [id |-> s.attr[o].id, at |-> m[which]]
<1> DEFINE t == Placed(s, M, which)
<1>1. /\ s \in State /\ s.components \subseteq Component /\ s.connections \subseteq Connection
      /\ Component \subseteq Object /\ Connection \subseteq Object
      /\ s.attr \in [Object -> Attributes]
  BY DEF Sound, State, Object
<1>2. \A o \in Object :
        (\A m \in M : ~Places(s, m, o)) => t.attr[o] = s.attr[o]
  BY DEF Placed
<1>3. ASSUME NEW o \in Object, NEW m \in M, Places(s, m, o)
      PROVE  t.attr[o] = [id |-> s.attr[o].id, at |-> m[which]]
  <2> DEFINE c == CHOOSE n \in M : Places(s, n, o)
  <2>1. c \in M /\ Places(s, c, o)
    BY <1>3
  <2>2. c = m
    BY <1>3, <2>1 DEF DistinctIds, Places
  <2>3. t.attr[o] = [id |-> s.attr[o].id, at |-> c[which]]
    BY <1>3 DEF Placed
  <2> QED
    BY <2>2, <2>3
<1>4. t.components = s.components /\ t.connections = s.connections
  BY DEF Placed
<1>5. t = [components |-> t.components, connections |-> t.connections, attr |-> t.attr]
      /\ t.attr = [o \in Object |-> t.attr[o]]
  BY DEF Placed
<1>6. ASSUME NEW o \in s.components
      PROVE  t.attr[o] \in AttributesIn("components") /\ t.attr[o].id = s.attr[o].id
  <2>1. s.attr[o] \in AttributesIn("components") /\ o \in Object
    BY <1>1 DEF Sound, Proper
  <2>2. CASE \A m \in M : ~Places(s, m, o)
    BY <1>2, <2>1, <2>2
  <2>3. CASE \E m \in M : Places(s, m, o)
    <3>1. PICK m \in M : Places(s, m, o)
      BY <2>3
    <3>2. m[which] \in Place
      BY DEF OneMove, Which
    <3>3. t.attr[o] = [id |-> s.attr[o].id, at |-> m[which]]
      BY <1>3, <2>1, <3>1
    <3>4. s.attr[o].id \in Id
      BY <2>1 DEF AttributesIn
    <3> HIDE DEF t
    <3> QED
      BY <3>2, <3>3, <3>4 DEF AttributesIn
  <2> QED
    BY <2>2, <2>3
<1>7. \A o \in Object : o \notin s.components => t.attr[o] = s.attr[o]
  BY <1>2 DEF Places
<1>8. t \in State
  <2>1. \A o \in Object : t.attr[o] \in Attributes
    BY <1>1, <1>6, <1>7 DEF AttributesIn, Attributes
  <2> HIDE DEF t
  <2>2. t.attr \in [Object -> Attributes]
    BY <1>5, <2>1
  <2> QED
    BY <1>1, <1>4, <1>5, <2>2 DEF State
<1>9. Proper(t, "components")
  BY <1>4, <1>6 DEF Sound, Proper
<1>10. Proper(t, "connections")
  <2>1. \A o \in s.connections : t.attr[o] = s.attr[o]
    BY <1>1, <1>7, KindsAreDisjoint
  <2> QED
    BY <1>4, <2>1 DEF Sound, Proper
<1> HIDE DEF t
<1>11. Sound(t)
  BY <1>8, <1>9, <1>10 DEF Sound
<1> QED
  BY <1>2, <1>3, <1>4, <1>11 DEF t

\* States with the same objects and the same attributes are the same.
LEMMA StatesEqual ==
  ASSUME NEW s \in State, NEW t \in State,
         s.components = t.components, s.connections = t.connections,
         \A o \in Object : s.attr[o] = t.attr[o]
  PROVE  s = t
<1>1. s.attr = t.attr
  BY DEF State
<1> QED
  BY <1>1, StateIs

\* One more move,
LEMMA PlacedMore ==
  ASSUME NEW s, Sound(s), NEW M \in SUBSET OneMove, NEW m \in OneMove, DistinctIds(M \cup {m}),
         m \notin M, NEW which \in Which, NEW d, Shows(d, Placed(s, M, which))
  PROVE  Shows(MoveOne(d, m, which), Placed(s, M \cup {m}, which))
<1> DEFINE t == Placed(s, M, which)
           u == Placed(s, M \cup {m}, which)
           x == m[which]
<1>1. DistinctIds(M) /\ M \cup {m} \in SUBSET OneMove
  BY DEF DistinctIds
<1>2. /\ Sound(t) /\ t.components = s.components /\ t.connections = s.connections
      /\ \A o \in Object : (\A n \in M : ~Places(s, n, o)) => t.attr[o] = s.attr[o]
      /\ \A o \in Object, n \in M :
           Places(s, n, o) => t.attr[o] = [id |-> s.attr[o].id, at |-> n[which]]
  <2>1. Sound(t) /\ t.components = s.components /\ t.connections = s.connections
    BY <1>1, PlacedIs
  <2>2. \A o \in Object : (\A n \in M : ~Places(s, n, o)) => t.attr[o] = s.attr[o]
    BY <1>1, PlacedIs
  <2>3. \A o \in Object, n \in M :
          Places(s, n, o) => t.attr[o] = [id |-> s.attr[o].id, at |-> n[which]]
    BY <1>1, PlacedIs
  <2> QED
    BY <2>1, <2>2, <2>3
<1>3. /\ Sound(u) /\ u.components = s.components /\ u.connections = s.connections
      /\ \A o \in Object : (\A n \in M \cup {m} : ~Places(s, n, o)) => u.attr[o] = s.attr[o]
      /\ \A o \in Object, n \in M \cup {m} :
           Places(s, n, o) => u.attr[o] = [id |-> s.attr[o].id, at |-> n[which]]
  <2>1. Sound(u) /\ u.components = s.components /\ u.connections = s.connections
    BY <1>1, PlacedIs
  <2>2. \A o \in Object : (\A n \in M \cup {m} : ~Places(s, n, o)) => u.attr[o] = s.attr[o]
    BY <1>1, PlacedIs
  <2>3. \A o \in Object, n \in M \cup {m} :
          Places(s, n, o) => u.attr[o] = [id |-> s.attr[o].id, at |-> n[which]]
    BY <1>1, PlacedIs
  <2> QED
    BY <2>1, <2>2, <2>3
<1>10. Shows(d, t)
  OBVIOUS
<1>4. t \in State /\ u \in State /\ s.components \subseteq Object
  BY <1>2, <1>3, SoundLists DEF Lists, Sound, State, Object
<1> HIDE DEF t, u
<1>11. \A o \in Object : ~Places(s, m, o) => u.attr[o] = t.attr[o]
  <2> SUFFICES ASSUME NEW o \in Object, ~Places(s, m, o) PROVE u.attr[o] = t.attr[o]
    OBVIOUS
  <2>1. CASE \A n \in M : ~Places(s, n, o)
    BY <1>2, <1>3, <2>1
  <2>2. CASE \E n \in M : Places(s, n, o)
    <3>1. PICK n \in M : Places(s, n, o)
      BY <2>2
    <3> DEFINE put == [id |-> s.attr[o].id, at |-> n[which]]
    <3>2. t.attr[o] = put
      BY <1>2, <3>1
    <3>3. u.attr[o] = put
      BY <1>3, <3>1
    <3> QED
      BY <3>2, <3>3
  <2> QED
    BY <2>1, <2>2
<1>12. ASSUME NEW o \in s.components PROVE t.attr[o].id = s.attr[o].id
  <2>1. o \in Object
    BY <1>4
  <2>2. CASE \A n \in M : ~Places(s, n, o)
    BY <1>2, <2>1, <2>2
  <2>3. CASE \E n \in M : Places(s, n, o)
    <3>1. PICK n \in M : Places(s, n, o)
      BY <2>3
    <3>2. t.attr[o] = [id |-> s.attr[o].id, at |-> n[which]]
      BY <1>2, <2>1, <3>1
    <3> QED
      BY <3>2
  <2> QED
    BY <2>2, <2>3
<1>5. CASE \E o \in s.components : s.attr[o].id = m.id
  <2>1. PICK o \in s.components : s.attr[o].id = m.id
    BY <1>5
  <2>2. Places(s, m, o) /\ o \in Object
    BY <1>4, <2>1 DEF Places
  <2>3. \A n \in M : ~Places(s, n, o)
    BY <2>1 DEF Places, DistinctIds
  <2>4. t.attr[o] = s.attr[o] /\ u.attr[o] = [id |-> s.attr[o].id, at |-> x]
    BY <1>2, <1>3, <2>2, <2>3
  <2>5. o \in t.components /\ t.attr[o].id = m.id
    BY <1>2, <1>12, <2>1
  <2>6. Named(d, "components", m.id) = o
    BY <1>2, <1>10, <2>5, NamedIs DEF Lists
  <2>7. MoveOne(d, m, which) = Assign(d, o, "at", x)
    BY <2>2, <2>6, NoneIsNoObject DEF MoveOne
  <2>8. [t.attr[o] EXCEPT !["at"] = x] = u.attr[o]
    <3>1. t.attr[o] \in AttributesIn("components")
      BY <1>2, <2>5 DEF Sound, Proper
    <3> QED
      BY <2>4, <3>1 DEF AttributesIn
  <2>9. u.attr[o] \in Attributes
    BY <1>4, <2>2 DEF State
  <2>10. Shows(Assign(d, o, "at", x), Assign(t, o, "at", x))
    <3> HIDE DEF x
    <3> QED
      BY <1>10, <2>2, <2>8, <2>9, AssignShows
  <2>11. Assign(t, o, "at", x) = u
    <3>1. Assign(t, o, "at", x) = [components |-> t.components, connections |-> t.connections,
                                   attr |-> [t.attr EXCEPT ![o] = u.attr[o]]]
      BY <1>4, <2>8, StateIs, AssignIs
    <3>2. \A q \in Object : q # o => ~Places(s, m, q)
      BY <2>1 DEF Places, Sound, Proper
    <3>3. u.attr = [t.attr EXCEPT ![o] = u.attr[o]]
      <4>1. \A q \in Object : u.attr[q] = [t.attr EXCEPT ![o] = u.attr[o]][q]
        BY <1>4, <1>11, <2>2, <3>2 DEF State
      <4> QED
        BY <1>4, <4>1 DEF State
    <3>4. u = [components |-> u.components, connections |-> u.connections, attr |-> u.attr]
      BY <1>4, StateIs
    <3> QED
      BY <1>2, <1>3, <3>1, <3>3, <3>4
  <2> QED
    BY <2>7, <2>10, <2>11 DEF u
<1>6. CASE ~\E o \in s.components : s.attr[o].id = m.id
  <2>1. \A o \in t.components : t.attr[o].id # m.id
    BY <1>2, <1>6, <1>12
  <2>2. Named(d, "components", m.id) = None
    BY <1>10, <2>1, NamedNone DEF Lists
  <2>3. MoveOne(d, m, which) = d
    BY <2>2 DEF MoveOne
  <2>4. \A o \in Object : u.attr[o] = t.attr[o]
    BY <1>6, <1>11 DEF Places
  <2>5. u = t
    BY <1>2, <1>3, <1>4, <2>4, StatesEqual
  <2> QED
    BY <1>10, <2>3, <2>5 DEF u
<1> QED
  BY <1>5, <1>6

\* and all the moves of a list.
LEMMA MoveAllShows ==
  ASSUME NEW d, NEW s, Shows(d, s), Sound(s), NEW moves \in Seq(OneMove),
         \A p, q \in DOMAIN moves : moves[p].id = moves[q].id => p = q,
         NEW which \in Which
  PROVE  Shows(MoveAll(d, moves, which), Placed(s, ToSet(moves), which))
<1> DEFINE n == Len(moves)
           At(i) == Placed(s, First(moves, i), which)
<1>1. d \in Document /\ which \in {"old", "new"} /\ s \in State
  BY DEF Shows, Which, Sound
<1>2. /\ n \in Nat /\ DOMAIN moves = 1 .. n
      /\ First(moves, 0) = {} /\ First(moves, n) = ToSet(moves)
      /\ \A i \in 1 .. n : First(moves, i) = First(moves, i - 1) \cup {moves[i]}
                           /\ moves[i] \in OneMove
  BY FirstOfList
<1>3. PICK chain \in [0 .. n -> Document] :
        /\ chain[0] = d
        /\ \A i \in 1 .. n : chain[i] = MoveOne(chain[i - 1], moves[i], which)
        /\ chain[n] = MoveAll(d, moves, which)
  BY <1>1, MoveChain
<1>4. ASSUME NEW i \in 1 .. n, Shows(chain[i - 1], At(i - 1)) PROVE Shows(chain[i], At(i))
  <2> DEFINE M == First(moves, i - 1)
             m == moves[i]
  <2>1. M \in SUBSET OneMove /\ m \in OneMove /\ First(moves, i) = M \cup {m}
    <3>1. \A j \in 1 .. i - 1 : j \in 1 .. n
      BY <1>2
    <3> QED
      BY <1>2, <3>1 DEF First
  <2>2. m \notin M
    <3>1. \A j \in 1 .. i - 1 : j \in 1 .. n /\ j # i
      BY <1>2
    <3> QED
      BY <1>2, <3>1 DEF First
  <2>3. DistinctIds(M \cup {m})
    <3>1. \A j \in 1 .. i : j \in 1 .. n
      BY <1>2
    <3>2. \A a, b \in First(moves, i) : a.id = b.id => a = b
      BY <1>2, <3>1 DEF First
    <3> QED
      BY <2>1, <3>2 DEF DistinctIds
  <2>4. Shows(chain[i - 1], Placed(s, M, which))
    BY <1>4
  <2>5. chain[i] = MoveOne(chain[i - 1], m, which)
    BY <1>3
  <2> HIDE DEF M, m
  <2>6. Shows(MoveOne(chain[i - 1], m, which), Placed(s, M \cup {m}, which))
    BY <2>1, <2>2, <2>3, <2>4, PlacedMore
  <2> QED
    BY <2>1, <2>5, <2>6
<1> DEFINE T == {i \in 0 .. n : Shows(chain[i], At(i))}
<1>5. 0 \in T
  <2>1. At(0) = Placed(s, {}, which)
    BY <1>2
  <2>2. Placed(s, {}, which) = s
    <3>1. DistinctIds({}) /\ {} \in SUBSET OneMove
      BY DEF DistinctIds
    <3> DEFINE t == Placed(s, {}, which)
               none == {}
    <3>2. /\ Sound(t) /\ t.components = s.components /\ t.connections = s.connections
          /\ \A o \in Object : t.attr[o] = s.attr[o]
      <4>1. none \in SUBSET OneMove /\ DistinctIds(none)
        BY <3>1
      <4> HIDE DEF none
      <4>2. /\ Sound(Placed(s, none, which))
            /\ Placed(s, none, which).components = s.components
            /\ Placed(s, none, which).connections = s.connections
            /\ \A o \in Object :
                 (\A m \in none : ~Places(s, m, o)) => Placed(s, none, which).attr[o] = s.attr[o]
        BY <4>1, PlacedIs
      <4> QED
        BY <4>2 DEF none
    <3> HIDE DEF t
    <3>3. t = s
      BY <1>1, <3>2, StatesEqual DEF Sound
    <3> QED
      BY <3>3 DEF t
  <2>5. 0 \in 0 .. n
    <3>1. n \in Nat
      BY <1>2
    <3> HIDE DEF n
    <3> QED
      BY <3>1
  <2>6. chain[0] = d
    BY <1>3
  <2>4. Shows(chain[0], At(0))
    BY <2>1, <2>2, <2>6
  <2> HIDE DEF At, n
  <2> QED
    BY <2>4, <2>5
<1>6. 0 .. n \subseteq T
  <2>1. ASSUME NEW i \in 1 .. n, i - 1 \in T PROVE i \in T
    <3>1. i - 1 \in 0 .. n /\ i \in 0 .. n
      <4>1. n \in Nat
        BY <1>2
      <4> HIDE DEF n
      <4> QED
        BY <4>1
    <3> HIDE DEF At
    <3> QED
      BY <1>4, <2>1, <3>1
  <2> HIDE DEF T, n
  <2> QED
    BY <1>2, <1>5, <2>1, NumbersUpTo
<1>7. n \in 0 .. n /\ First(moves, n) = ToSet(moves)
  BY <1>2
<1>8. Shows(chain[n], At(n))
  <2> HIDE DEF At
  <2> QED
    BY <1>6, <1>7
<1>9. At(n) = Placed(s, ToSet(moves), which)
  BY <1>7
<1> HIDE DEF At, n
<1> QED
  BY <1>3, <1>8, <1>9

-----------------------------------------------------------------------------
(* What commands lead to, and running them. *)

\* The commands of AddComponent and AddConnection,
AddCommand == [kind : {"Add"}, list : Lists, object : Object, owned : BOOLEAN]

\* of RemoveConnection,
RemoveLinkCommand ==
  [kind : {"RemoveLink"}, id : ConnectionId, object : Connection \cup {None},
   owned : BOOLEAN]

\* of RemoveComponent, with the connections it has taken along,
RemoveComponentCommand ==
  [kind : {"RemoveComponent"}, id : Id, object : Component, owned : BOOLEAN,
   links : Seq(Connection), linkIds : Seq(ConnectionId)]

\* of MoveComponents,
MoveCommand == [kind : {"Move"}, moves : Seq(OneMove)]

\* and of the two that set a property.
SetCommand ==
  [kind : {"Set"}, object : Object, property : {"id", "at", "source", "target"},
   old : Id \cup ConnectionId \cup Place, new : Id \cup ConnectionId \cup Place]

\* An addition leads from s to t when its object is new in the list.
LeadsAdd(k, s, t) ==
  /\ k \in AddCommand
  /\ k.object \in Things(k.list) \ s[k.list]
  /\ t = Relisted(s, k.list, s[k.list] \cup {k.object})

\* A removed connection leads to the state without it; one that was not there
\* changes nothing.
LeadsRemoveLink(k, s, t) ==
  /\ k \in RemoveLinkCommand
  /\ \/ /\ k.object = None /\ t = s
        /\ \A c \in s.connections : s.attr[c].id # k.id
     \/ /\ k.object \in s.connections /\ s.attr[k.object].id = k.id
        /\ t = Relisted(s, "connections", s.connections \ {k.object})

\* The state s without the component o and the connections links.
Bared(s, o, links) ==
  [components |-> s.components \ {o}, connections |-> s.connections \ links,
   attr |-> s.attr]

\* A removed component takes along exactly the connections that touch it.
LeadsRemoveComponent(k, s, t) ==
  /\ k \in RemoveComponentCommand
  /\ k.object \in s.components /\ s.attr[k.object].id = k.id
  /\ NoRepeats(k.links) /\ ToSet(k.links) = LinksOf(s, k.id)
  /\ k.linkIds = [p \in DOMAIN k.links |-> s.attr[k.links[p]].id]
  /\ t = Bared(s, k.object, ToSet(k.links))

\* A move leads from s to t and its old places lead back.
LeadsMove(k, s, t) ==
  /\ k \in MoveCommand
  /\ \A p, q \in DOMAIN k.moves : k.moves[p].id = k.moves[q].id => p = q
  /\ t = Placed(s, ToSet(k.moves), "new")
  /\ s = Placed(t, ToSet(k.moves), "old")

\* A set property leads from s to t and its old value leads back.
LeadsSet(k, s, t) ==
  /\ k \in SetCommand
  /\ k.object \in ShownIn(s)
  /\ t = Assign(s, k.object, k.property, k.new)
  /\ s = Assign(t, k.object, k.property, k.old)

\* The command k leads from the state s to the state t.
Leads(k, s, t) ==
  \/ LeadsAdd(k, s, t)
  \/ LeadsRemoveLink(k, s, t)
  \/ LeadsRemoveComponent(k, s, t)
  \/ LeadsMove(k, s, t)
  \/ LeadsSet(k, s, t)

\* Who owns what once a command is executed, and once it is undone.
Done(k) ==
  /\ k.kind = "Add" => k.owned = FALSE
  /\ k.kind \in {"RemoveLink", "RemoveComponent"} /\ k.object # None => k.owned = TRUE

\* Once it is undone: an addition owns its object, a removal owns nothing.
Undone(k) ==
  /\ k.kind = "Add" => k.owned = TRUE
  /\ k.kind \in {"RemoveLink", "RemoveComponent"} /\ k.object # None => k.owned = FALSE

\* What running a command that leads from s to t has to give, either way.
Does(r, s, t) == Shows(r.doc, t) /\ Leads(r.command, s, t) /\ Done(r.command)

\* What undoing it has to give.
Undoes(r, s, t) == Shows(r.doc, s) /\ Leads(r.command, s, t) /\ Undone(r.command)

\* A run that leaves the command as it was.
LEMMA RunsOf ==
  ASSUME NEW e, NEW c, NEW r, r = [doc |-> e, command |-> c], NEW s, NEW t, Leads(c, s, t)
  PROVE  /\ Shows(e, t) /\ Done(c) => Does(r, s, t)
         /\ Shows(e, s) /\ Undone(c) => Undoes(r, s, t)
<1>1. r.doc = e /\ r.command = c
  OBVIOUS
<1> QED
  BY <1>1 DEF Does, Undoes

\* Executing and undoing an addition does what it says.
LEMMA RunAdd ==
  ASSUME NEW d, NEW s, Sound(s), NEW t, Sound(t), NEW k, LeadsAdd(k, s, t)
  PROVE  /\ Shows(d, s) => Does(Redo(k, d), s, t)
         /\ Shows(d, t) => Undoes(Undo(k, d), s, t)
<1> DEFINE f == k.list
           o == k.object
           kept == [k EXCEPT !.owned = FALSE]
           owning == [k EXCEPT !.owned = TRUE]
<1>1. /\ k \in AddCommand /\ f \in Lists /\ o \in Things(f) /\ o \notin s[f]
      /\ t = Relisted(s, f, s[f] \cup {o})
      /\ k.kind = "Add"
  BY DEF LeadsAdd, AddCommand
<1>2. /\ t[f] = s[f] \cup {o} /\ t.attr = s.attr /\ s \in State
      /\ Relisted(t, f, s[f]) = s
  <2>1. s \in State
    BY DEF Sound
  <2> HIDE DEF f, o
  <2>2. Relisted(s, f, s[f]) = s
    BY <1>1, <2>1, RelistedIs
  <2>3. t[f] = s[f] \cup {o} /\ t.attr = s.attr
    BY <1>1, RelistedIs
  <2>4. Relisted(t, f, s[f]) = Relisted(s, f, s[f])
    BY <1>1, RelistedIs
  <2> QED
    BY <2>1, <2>2, <2>3, <2>4
<1>3. Leads(kept, s, t) /\ Done(kept) /\ Leads(owning, s, t) /\ Undone(owning)
  <2>1. kept \in AddCommand /\ kept.list = f /\ kept.object = o /\ kept.owned = FALSE
        /\ owning \in AddCommand /\ owning.list = f /\ owning.object = o /\ owning.owned = TRUE
        /\ kept.kind = "Add" /\ owning.kind = "Add"
    BY <1>1 DEF AddCommand
  <2> HIDE DEF kept, owning
  <2>2. LeadsAdd(kept, s, t) /\ LeadsAdd(owning, s, t)
    BY <1>1, <2>1 DEF LeadsAdd
  <2> QED
    BY <2>1, <2>2 DEF Leads, Done, Undone
<1>5. ASSUME Shows(d, s) PROVE Does(Redo(k, d), s, t)
  <2>1. Redo(k, d) = [doc |-> Insert(d, f, o), command |-> kept]
    BY <1>1 DEF Redo
  <2>2. \A q \in s[f] : s.attr[q].id # s.attr[o].id
    <3>1. Proper(t, f)
      BY <1>1, SoundLists
    <3> QED
      BY <1>1, <1>2, <3>1 DEF Proper
  <2> HIDE DEF f, o, kept
  <2>3. Shows(Insert(d, f, o), t)
    BY <1>1, <1>5, <2>2, InsertShows
  <2> QED
    BY <1>3, <2>1, <2>3, RunsOf
<1>6. ASSUME Shows(d, t) PROVE Undoes(Undo(k, d), s, t)
  <2>1. Undo(k, d) = [doc |-> Delete(d, f, d.attr[o].id), command |-> owning]
    BY <1>1 DEF Undo
  <2>2. d.attr = t.attr
    BY <1>6 DEF Shows
  <2> HIDE DEF f, o, owning
  <2>3. Shows(Delete(d, f, t.attr[o].id), Relisted(t, f, t[f] \ {o}))
    BY <1>1, <1>2, <1>6, DeleteShows
  <2>4. t[f] \ {o} = s[f]
    BY <1>1, <1>2
  <2>5. Shows(Delete(d, f, d.attr[o].id), s)
    BY <1>2, <2>2, <2>3, <2>4
  <2> QED
    BY <1>3, <2>1, <2>5, RunsOf
<1> QED
  BY <1>5, <1>6

\* Executing and undoing the removal of a connection does what it says.
LEMMA RunRemoveLink ==
  ASSUME NEW d, NEW s, Sound(s), NEW t, Sound(t), NEW k, LeadsRemoveLink(k, s, t)
  PROVE  /\ Shows(d, s) => Does(Redo(k, d), s, t)
         /\ Shows(d, t) /\ Done(k) => Undoes(Undo(k, d), s, t)
<1> DEFINE f == "connections"
           o == k.object
           kept == [k EXCEPT !.owned = FALSE]
           owning == [k EXCEPT !.object = o, !.owned = TRUE]
<1>1. /\ k \in RemoveLinkCommand /\ f \in Lists /\ k.kind = "RemoveLink"
      /\ s \in State /\ s.connections \subseteq Connection
      /\ o \in Connection => o # None
  BY NoneIsNoObject DEF LeadsRemoveLink, RemoveLinkCommand, Lists, Sound, State, Object
<1>2. ASSUME Shows(d, s) PROVE Named(d, f, k.id) = o
  <2>1. CASE o = None /\ \A c \in s.connections : s.attr[c].id # k.id
    BY <1>1, <1>2, <2>1, NamedNone
  <2>2. CASE o \in s.connections /\ s.attr[o].id = k.id
    BY <1>1, <1>2, <2>2, NamedIs
  <2> QED
    BY <2>1, <2>2 DEF LeadsRemoveLink
<1>3. Leads(kept, s, t) /\ Undone(kept) /\ Leads(owning, s, t) /\ Done(owning)
  <2>2. /\ kept \in RemoveLinkCommand /\ kept.object = o /\ kept.id = k.id
        /\ kept.owned = FALSE /\ kept.kind = "RemoveLink"
        /\ owning \in RemoveLinkCommand /\ owning.object = o /\ owning.id = k.id
        /\ owning.owned = TRUE /\ owning.kind = "RemoveLink"
    BY <1>1 DEF RemoveLinkCommand
  <2> HIDE DEF kept, owning
  <2>3. LeadsRemoveLink(kept, s, t) /\ LeadsRemoveLink(owning, s, t)
    BY <2>2 DEF LeadsRemoveLink
  <2> QED
    BY <2>2, <2>3 DEF Leads, Done, Undone
<1>4. ASSUME Shows(d, s) PROVE Shows(Delete(d, f, k.id), t)
  <2>1. CASE o = None /\ t = s /\ \A c \in s.connections : s.attr[c].id # k.id
    BY <1>1, <1>4, <2>1, DeleteNothing
  <2>2. CASE /\ o \in s.connections /\ s.attr[o].id = k.id
             /\ t = Relisted(s, f, s.connections \ {o})
    BY <1>1, <1>4, <2>2, DeleteShows
  <2> QED
    BY <2>1, <2>2 DEF LeadsRemoveLink
<1>5. ASSUME Shows(d, s) PROVE Does(Redo(k, d), s, t)
  <2>1. Redo(k, d) = [doc |-> Delete(d, f, k.id),
                      command |-> [k EXCEPT !.object = Named(d, f, k.id), !.owned = TRUE]]
    BY <1>1 DEF Redo
  <2>2. Redo(k, d) = [doc |-> Delete(d, f, k.id), command |-> owning]
    BY <1>2, <1>5, <2>1
  <2> HIDE DEF owning, f
  <2> QED
    BY <1>3, <1>4, <1>5, <2>2, RunsOf
<1>6. ASSUME Shows(d, t), Done(k) PROVE Undoes(Undo(k, d), s, t)
  <2>1. CASE o = None /\ t = s
    <3>1. Undo(k, d) = [doc |-> d, command |-> k]
      BY <1>1, <2>1 DEF Undo
    <3>2. Undone(k) /\ Leads(k, s, t)
      BY <1>1, <2>1 DEF Undone, Leads
    <3> QED
      BY <1>6, <2>1, <3>1, <3>2, RunsOf
  <2>2. CASE /\ o \in s.connections /\ s.attr[o].id = k.id
             /\ t = Relisted(s, f, s.connections \ {o})
    <3>1. o # None /\ o \in Connection /\ o \in Things(f)
      BY <1>1, <2>2 DEF Things
    <3>2. Undo(k, d) = [doc |-> Insert(d, f, o), command |-> kept]
      BY <1>1, <3>1 DEF Undo
    <3>3. /\ t[f] = s[f] \ {o} /\ t.attr = s.attr
          /\ Relisted(t, f, s[f]) = Relisted(s, f, s[f]) /\ Relisted(s, f, s[f]) = s
      BY <1>1, <2>2, RelistedIs
    <3>4. \A q \in t[f] : t.attr[q].id # t.attr[o].id
      <4>1. Proper(s, f)
        BY DEF Sound
      <4> QED
        BY <2>2, <3>3, <4>1 DEF Proper
    <3>5. t[f] \cup {o} = s[f]
      BY <2>2, <3>3
    <3>6. o \notin t[f]
      BY <3>3
    <3> HIDE DEF f, o, kept
    <3>9. Shows(Insert(d, f, o), Relisted(t, f, t[f] \cup {o}))
      BY <1>1, <1>6, <3>1, <3>4, <3>6, InsertShows
    <3>10. Shows(Insert(d, f, o), s)
      BY <3>3, <3>5, <3>9
    <3> QED
      BY <1>3, <3>2, <3>10, RunsOf
  <2> QED
    BY <2>1, <2>2 DEF LeadsRemoveLink
<1> QED
  BY <1>5, <1>6

\* Executing and undoing a move does what it says.
LEMMA RunMove ==
  ASSUME NEW d, NEW s, Sound(s), NEW t, Sound(t), NEW k, LeadsMove(k, s, t)
  PROVE  /\ Shows(d, s) => Does(Redo(k, d), s, t)
         /\ Shows(d, t) => Undoes(Undo(k, d), s, t)
<1> DEFINE m == k.moves
<1>1. /\ k.kind = "Move" /\ m \in Seq(OneMove)
      /\ \A p, q \in DOMAIN m : m[p].id = m[q].id => p = q
      /\ t = Placed(s, ToSet(m), "new") /\ s = Placed(t, ToSet(m), "old")
  BY DEF LeadsMove, MoveCommand
<1>2. Redo(k, d) = [doc |-> MoveAll(d, m, "new"), command |-> k]
      /\ Undo(k, d) = [doc |-> MoveAll(d, m, "old"), command |-> k]
  BY <1>1 DEF Redo, Undo
<1>3. Done(k) /\ Undone(k) /\ Leads(k, s, t)
  BY <1>1 DEF Done, Undone, Leads
<1>4. "new" \in Which /\ "old" \in Which
  BY DEF Which
<1> HIDE DEF m
<1>5. Shows(d, s) => Shows(MoveAll(d, m, "new"), t)
  BY <1>1, <1>4, MoveAllShows
<1>6. Shows(d, t) => Shows(MoveAll(d, m, "old"), s)
  BY <1>1, <1>4, MoveAllShows
<1>7. Shows(d, s) => Does(Redo(k, d), s, t)
  BY <1>2, <1>3, <1>5, RunsOf
<1>8. Shows(d, t) => Undoes(Undo(k, d), s, t)
  BY <1>2, <1>3, <1>6, RunsOf
<1> QED
  BY <1>7, <1>8

\* An attribute that was assigned.
LEMMA AssignedAttribute ==
  ASSUME NEW s \in State, NEW o \in Object, NEW y, NEW x, NEW t, t = Assign(s, o, y, x)
  PROVE  /\ t = [components |-> s.components, connections |-> s.connections,
                 attr |-> [s.attr EXCEPT ![o] = [s.attr[o] EXCEPT ![y] = x]]]
         /\ t.components = s.components /\ t.connections = s.connections
         /\ t.attr[o] = [s.attr[o] EXCEPT ![y] = x]
         /\ \A q \in Object : q # o => t.attr[q] = s.attr[q]
<1> DEFINE v == [s.attr[o] EXCEPT ![y] = x]
<1>1. t = [components |-> s.components, connections |-> s.connections,
           attr |-> [s.attr EXCEPT ![o] = v]]
  BY StateIs, AssignIs
<1> HIDE DEF v
<1>2. /\ t.components = s.components /\ t.connections = s.connections
      /\ t.attr[o] = v /\ \A q \in Object : q # o => t.attr[q] = s.attr[q]
  BY <1>1 DEF State
<1> QED
  BY <1>1, <1>2 DEF v

\* What it was assigned is one, when the states have attributes.
LEMMA AssignedIsAttribute ==
  ASSUME NEW s \in State, NEW o \in Object, NEW y, NEW x, NEW t \in State,
         t = Assign(s, o, y, x)
  PROVE  [s.attr[o] EXCEPT ![y] = x] \in Attributes
<1> DEFINE v == [s.attr[o] EXCEPT ![y] = x]
<1>1. t = [components |-> s.components, connections |-> s.connections,
           attr |-> [s.attr EXCEPT ![o] = v]]
  BY StateIs, AssignIs
<1> HIDE DEF v
<1>2. t.attr[o] = v
  BY <1>1 DEF State
<1>3. t.attr[o] \in Attributes
  BY DEF State
<1> QED
  BY <1>2, <1>3 DEF v

\* Executing and undoing a set property does what it says.
LEMMA RunSet ==
  ASSUME NEW d, NEW s, Sound(s), NEW t, Sound(t), NEW k, LeadsSet(k, s, t)
  PROVE  /\ Shows(d, s) => Does(Redo(k, d), s, t)
         /\ Shows(d, t) => Undoes(Undo(k, d), s, t)
<1> DEFINE o == k.object
           y == k.property
           new == k.new
           old == k.old
<1>1. /\ k.kind = "Set" /\ o \in Object /\ o # None
      /\ t = Assign(s, o, y, new) /\ s = Assign(t, o, y, old)
      /\ s \in State /\ t \in State
  BY NoneIsNoObject DEF LeadsSet, SetCommand, Sound
<1>2. Redo(k, d) = [doc |-> Assign(d, o, y, new), command |-> k]
      /\ Undo(k, d) = [doc |-> Assign(d, o, y, old), command |-> k]
  BY <1>1 DEF Redo, Undo
<1>3. Done(k) /\ Undone(k) /\ Leads(k, s, t)
  BY <1>1 DEF Done, Undone, Leads
<1> HIDE DEF o, y, new, old
<1>4. [s.attr[o] EXCEPT ![y] = new] \in Attributes
  BY <1>1, AssignedIsAttribute
<1>5. [t.attr[o] EXCEPT ![y] = old] \in Attributes
  BY <1>1, AssignedIsAttribute
<1>6. Shows(d, s) => Shows(Assign(d, o, y, new), t)
  BY <1>1, <1>4, AssignShows
<1>7. Shows(d, t) => Shows(Assign(d, o, y, old), s)
  BY <1>1, <1>5, AssignShows
<1>8. Shows(d, s) => Does(Redo(k, d), s, t)
  BY <1>2, <1>3, <1>6, RunsOf
<1>9. Shows(d, t) => Undoes(Undo(k, d), s, t)
  BY <1>2, <1>3, <1>7, RunsOf
<1> QED
  BY <1>8, <1>9

\* Taking away connections and a component, and putting them back, in two steps.
LEMMA BaredSteps ==
  ASSUME NEW s \in State, NEW o, NEW links, NEW l, l = s.connections \ links
  PROVE  /\ Relisted(Relisted(s, "connections", l), "components", s.components \ {o})
              = Bared(s, o, links)
         /\ Relisted(Relisted(Bared(s, o, links), "components", s.components),
                     "connections", s.connections) = s
BY DEF Relisted, Bared, State

\* A sound state without some of its objects is sound.
LEMMA BaredIsSound ==
  ASSUME NEW s, Sound(s), NEW o, NEW links
  PROVE  Sound(Bared(s, o, links))
<1> DEFINE t == Bared(s, o, links)
<1>1. t \in State
  BY DEF Bared, Sound, State
<1>2. t.attr = s.attr /\ t.components \subseteq s.components
      /\ t.connections \subseteq s.connections
  BY DEF Bared
<1> HIDE DEF t
<1>3. Sound(t)
  BY <1>1, <1>2, SoundWithout
<1> QED
  BY <1>3 DEF t

\* What the first half of a removal does: the connections and then the component go.
LEMMA BaresDocument ==
  ASSUME NEW d, NEW s, Shows(d, s), Sound(s), NEW o \in s.components,
         NEW links \in Seq(Connection), NoRepeats(links), ToSet(links) \subseteq s.connections,
         NEW ids, ids = [p \in DOMAIN links |-> s.attr[links[p]].id]
  PROVE  Shows(Delete(FoldLeft(LAMBDA acc, i : Delete(acc, "connections", i), d, ids),
                      "components", s.attr[o].id),
               Bared(s, o, ToSet(links)))
<1> DEFINE l == s.connections \ ToSet(links)
           t == Relisted(s, "connections", l)
           f == "components"
           e == FoldLeft(LAMBDA acc, i : Delete(acc, "connections", i), d, ids)
<1>1. Shows(e, t)
  BY DeleteAllShows
<1>2. s \in State /\ f \in Lists
  BY DEF Sound, Lists
<1>3. t \in State /\ t.attr = s.attr /\ t.components = s.components /\ t.connections = l
  BY <1>2 DEF Relisted, State
<1>4. Relisted(t, f, s.components \ {o}) = Bared(s, o, ToSet(links))
  BY <1>2, BaredSteps
<1> HIDE DEF e, t
<1>5. Sound(t)
  BY <1>3, SoundWithout
<1>6. Shows(Delete(e, f, t.attr[o].id), Relisted(t, f, t[f] \ {o}))
  <2>1. o \in t[f]
    BY <1>3
  <2> HIDE DEF f
  <2> QED
    BY <1>1, <1>2, <1>5, <2>1, DeleteShows
<1> QED
  BY <1>3, <1>4, <1>6 DEF e

\* Executing and undoing the removal of a component does what it says: the
\* connections come back with it.
LEMMA RunRemoveComponent ==
  ASSUME NEW d, NEW s, Sound(s), NEW t, Sound(t), NEW k, LeadsRemoveComponent(k, s, t)
  PROVE  /\ Shows(d, s) => Does(Redo(k, d), s, t)
         /\ Shows(d, t) => Undoes(Undo(k, d), s, t)
<1> DEFINE o == k.object
           links == k.links
           ids == k.linkIds
           kept == [k EXCEPT !.owned = FALSE]
           owning == [k EXCEPT !.object = o, !.owned = TRUE, !.links = links, !.linkIds = ids]
<1>1. /\ k \in RemoveComponentCommand /\ k.kind = "RemoveComponent"
      /\ o \in s.components /\ s.attr[o].id = k.id
      /\ links \in Seq(Connection) /\ NoRepeats(links) /\ ToSet(links) = LinksOf(s, k.id)
      /\ ids = [p \in DOMAIN links |-> s.attr[links[p]].id]
      /\ t = Bared(s, o, ToSet(links))
      /\ s \in State /\ s.components \subseteq Component /\ o \in Component
      /\ LinksOf(s, k.id) \subseteq s.connections
      /\ s.connections \subseteq Connection
  BY DEF LeadsRemoveComponent, RemoveComponentCommand, Sound, State, LinksOf
<1>2. o # None
  BY <1>1, NoneIsNoObject DEF Object
<1>3. Leads(kept, s, t) /\ Undone(kept) /\ Leads(owning, s, t) /\ Done(owning)
  <2>2. /\ kept \in RemoveComponentCommand /\ kept.object = o /\ kept.id = k.id
        /\ kept.links = links /\ kept.linkIds = ids
        /\ kept.owned = FALSE /\ kept.kind = "RemoveComponent"
        /\ owning \in RemoveComponentCommand /\ owning.object = o /\ owning.id = k.id
        /\ owning.links = links /\ owning.linkIds = ids
        /\ owning.owned = TRUE /\ owning.kind = "RemoveComponent"
    BY <1>1 DEF RemoveComponentCommand
  <2> HIDE DEF kept, owning, links, ids, o
  <2>3. LeadsRemoveComponent(kept, s, t) /\ LeadsRemoveComponent(owning, s, t)
    BY <1>1, <2>2 DEF LeadsRemoveComponent
  <2> QED
    BY <2>2, <2>3 DEF Leads, Done, Undone
<1>4. ASSUME Shows(d, s) PROVE Does(Redo(k, d), s, t)
  <2> DEFINE found == IF links = <<>> THEN Touching(d, k.id) ELSE links
             its == IF links = <<>> THEN [p \in DOMAIN found |-> d.attr[found[p]].id] ELSE ids
             e == Delete(FoldLeft(LAMBDA acc, i : Delete(acc, "connections", i), d, its),
                         "components", k.id)
             c == [k EXCEPT !.object = o, !.owned = TRUE, !.links = found, !.linkIds = its]
  <2>1. Redo(k, d) = [doc |-> e, command |-> c]
    BY <1>1, <1>2 DEF Redo, RedoRemoveComponent
  <2>2. found = links
    <3>1. CASE links = <<>>
      <4>1. Touching(d, k.id) \in Seq(Connection) /\ ToSet(Touching(d, k.id)) = LinksOf(s, k.id)
        BY <1>4, TouchingFinds
      <4>2. LinksOf(s, k.id) = {}
        <5>1. ToSet(<<>>) = {}
          BY DEF ToSet
        <5> HIDE DEF links
        <5> QED
          BY <1>1, <3>1, <5>1
      <4> DEFINE l == Touching(d, k.id)
      <4>3. l \in Seq(Connection) /\ ToSet(l) = {}
        BY <4>1, <4>2
      <4> HIDE DEF l
      <4>4. l = <<>>
        <5>1. Len(l) = 0
          <6>1. Len(l) \in Nat /\ DOMAIN l = 1 .. Len(l)
            BY <4>3
          <6>2. Len(l) # 0 => l[1] \in ToSet(l)
            BY <6>1 DEF ToSet
          <6> QED
            BY <4>3, <6>2
        <5> QED
          BY <4>3, <5>1
      <4> QED
        BY <3>1, <4>4 DEF l
    <3>2. CASE links # <<>>
      BY <3>2
    <3> QED
      BY <3>1, <3>2
  <2>3. its = ids
    <3>1. CASE links = <<>>
      <4>1. its = [p \in DOMAIN found |-> d.attr[found[p]].id] /\ d.attr = s.attr
        BY <1>4, <3>1 DEF Shows
      <4> HIDE DEF its, found, links, ids
      <4>2. its = [p \in DOMAIN links |-> s.attr[links[p]].id]
        BY <2>2, <4>1
      <4> QED
        BY <1>1, <4>2
    <3>2. CASE links # <<>>
      BY <3>2
    <3> QED
      BY <3>1, <3>2
  <2>4. c = owning
    <3> HIDE DEF found, its, links, ids, o
    <3> QED
      BY <2>2, <2>3
  <2>5. Shows(e, t)
    <3>1. Shows(Delete(FoldLeft(LAMBDA acc, i : Delete(acc, "connections", i), d, ids),
                       "components", s.attr[o].id), Bared(s, o, ToSet(links)))
      <4> HIDE DEF links, ids, o
      <4>1. ToSet(links) \subseteq s.connections
        BY <1>1
      <4>2. links \in Seq(Connection) /\ NoRepeats(links) /\ o \in s.components
            /\ ids = [p \in DOMAIN links |-> s.attr[links[p]].id]
        BY <1>1
      <4> QED
        BY <1>4, <4>1, <4>2, BaresDocument
    <3>2. e = Delete(FoldLeft(LAMBDA acc, i : Delete(acc, "connections", i), d, ids),
                     "components", s.attr[o].id)
      <4>1. s.attr[o].id = k.id
        BY <1>1
      <4> HIDE DEF its, ids, o
      <4> QED
        BY <2>3, <4>1
    <3> QED
      BY <1>1, <3>1, <3>2
  <2> HIDE DEF e, c, owning
  <2> QED
    BY <1>3, <2>1, <2>4, <2>5, RunsOf
<1>5. ASSUME Shows(d, t) PROVE Undoes(Undo(k, d), s, t)
  <2> DEFINE f == "components"
             e == FoldLeft(LAMBDA acc, c : Insert(acc, "connections", c), Insert(d, f, o), links)
             u == Relisted(t, f, s.components)
  <2>1. Undo(k, d) = [doc |-> e, command |-> kept]
    BY <1>1, <1>2 DEF Undo, UndoRemoveComponent
  <2>2. t.components = s.components \ {o} /\ t.connections = s.connections \ ToSet(links)
        /\ t.attr = s.attr
    BY <1>1 DEF Bared
  <2>3. Shows(Insert(d, f, o), u)
    <3>1. o \in Things(f) /\ f \in Lists /\ o \notin t[f]
      BY <1>1, <2>2 DEF Things, Lists
    <3>2. \A q \in t[f] : t.attr[q].id # t.attr[o].id
      BY <1>1, <2>2 DEF Sound, Proper
    <3>3. t[f] \cup {o} = s.components
      BY <1>1, <2>2
    <3> HIDE DEF f, o
    <3>4. Shows(Insert(d, f, o), Relisted(t, f, t[f] \cup {o}))
      BY <1>5, <3>1, <3>2, InsertShows
    <3> QED
      BY <3>3, <3>4
  <2>4. u.connections = s.connections \ ToSet(links) /\ u.components = s.components
        /\ u.attr = s.attr
    BY <2>2 DEF Relisted
  <2>5. Relisted(u, "connections", u.connections \cup ToSet(links)) = s
    <3>1. u.connections \cup ToSet(links) = s.connections
      BY <1>1, <2>4
    <3>2. Relisted(u, "connections", s.connections) = s
      <4> DEFINE all == ToSet(links)
      <4>1. t = Bared(s, o, all)
        BY <1>1
      <4> HIDE DEF all
      <4>2. u = Relisted(Bared(s, o, all), "components", s.components)
        BY <4>1
      <4> HIDE DEF u, o
      <4> QED
        BY <1>1, <4>2, BaredSteps
    <3> QED
      BY <3>1, <3>2
  <2>6. ToSet(links) \cap u.connections = {}
    BY <2>4
  <2>7. links \in Seq(Connection) /\ NoRepeats(links)
    BY <1>1
  <2> DEFINE b == Insert(d, f, o)
  <2>8. Shows(FoldLeft(LAMBDA acc, c : Insert(acc, "connections", c), b, links),
              Relisted(u, "connections", u.connections \cup ToSet(links)))
    <3>1. Sound(Relisted(u, "connections", u.connections \cup ToSet(links)))
      BY <2>5
    <3>2. Shows(b, u)
      BY <2>3
    <3> HIDE DEF b, u, links
    <3> QED
      BY <2>6, <2>7, <3>1, <3>2, InsertAllShows
  <2>9. Shows(e, s)
    <3>1. e = FoldLeft(LAMBDA acc, c : Insert(acc, "connections", c), b, links)
      OBVIOUS
    <3> HIDE DEF e, b, u
    <3> QED
      BY <2>5, <2>8, <3>1
  <2> HIDE DEF e, kept
  <2> QED
    BY <1>3, <2>1, <2>9, RunsOf
<1> QED
  BY <1>4, <1>5

\* A command that leads from s to t takes a graph that shows s to t,
LEMMA RedoLeads ==
  ASSUME NEW d, NEW s, Sound(s), NEW t, Sound(t), NEW k, Leads(k, s, t), Shows(d, s)
  PROVE  Does(Redo(k, d), s, t)
BY RunAdd, RunRemoveLink, RunRemoveComponent, RunMove, RunSet DEF Leads

\* and once it is done takes it back to s.
LEMMA UndoLeads ==
  ASSUME NEW d, NEW s, Sound(s), NEW t, Sound(t), NEW k, Leads(k, s, t), Done(k), Shows(d, t)
  PROVE  Undoes(Undo(k, d), s, t)
BY RunAdd, RunRemoveLink, RunRemoveComponent, RunMove, RunSet DEF Leads

-----------------------------------------------------------------------------
(* Executing a command for the first time. *)

\* An addition of an object with a free id leads to the state with that object.
LEMMA FirstAdd ==
  ASSUME NEW s, Sound(s), NEW f \in Lists, NEW o \in Things(f), o \notin s[f],
         s.attr[o] \in AttributesIn(f), \A q \in s[f] : s.attr[q].id # s.attr[o].id
  PROVE  /\ LeadsAdd(Add(f, o), s, Relisted(s, f, s[f] \cup {o}))
         /\ Sound(Relisted(s, f, s[f] \cup {o}))
<1> DEFINE t == Relisted(s, f, s[f] \cup {o})
           k == Add(f, o)
<1>1. /\ k \in AddCommand /\ k.list = f /\ k.object = o
  <2>1. o \in Object
    BY DEF Things, Object
  <2> QED
    BY <2>1 DEF Add, AddCommand
<1>2. s \in State /\ s[f] \subseteq Things(f)
  BY SoundLists
<1>3. t[f] = s[f] \cup {o} /\ t.attr = s.attr /\ t \in State
  <2>1. s[f] \cup {o} \subseteq Things(f)
    BY <1>2
  <2> QED
    BY <1>2, <2>1, RelistedIs
<1>4. \A g \in Lists : g # f => t[g] = s[g]
  BY DEF Lists, Relisted
<1> HIDE DEF t, k
<1>5. \A g \in Lists : Proper(t, g)
  <2> SUFFICES ASSUME NEW g \in Lists PROVE Proper(t, g)
    OBVIOUS
  <2>1. Proper(s, g)
    BY SoundLists
  <2>2. CASE g = f
    BY <1>3, <2>1, <2>2 DEF Proper
  <2>3. CASE g # f
    BY <1>3, <1>4, <2>1, <2>3 DEF Proper
  <2> QED
    BY <2>2, <2>3
<1>6. Sound(t)
  BY <1>3, <1>5 DEF Sound, Lists
<1>7. LeadsAdd(k, s, t)
  BY <1>1 DEF LeadsAdd, t
<1> QED
  BY <1>6, <1>7 DEF t, k

\* A removal of a connection, executed for the first time, takes what it finds
\* and leads from where it was executed.
LEMMA FirstRemoveLink ==
  ASSUME NEW d, NEW s, Shows(d, s), Sound(s), NEW i \in ConnectionId
  PROVE  \E t : Sound(t) /\ ShownIn(t) \subseteq ShownIn(s) /\ Does(Redo(RemoveLink(i), d), s, t)
<1> DEFINE f == "connections"
           c == Named(d, f, i)
           q == [RemoveLink(i) EXCEPT !.object = c, !.owned = TRUE]
<1>1. s \in State /\ s.connections \subseteq Connection /\ f \in Lists
  BY DEF Sound, State, Lists
<1>2. Redo(RemoveLink(i), d) = [doc |-> Delete(d, f, i), command |-> q]
  BY DEF Redo, RemoveLink
<1>3. /\ q.kind = "RemoveLink" /\ q.id = i /\ q.object = c /\ q.owned = TRUE
      /\ c \in Connection \cup {None} => q \in RemoveLinkCommand
  BY DEF RemoveLink, RemoveLinkCommand
<1>4. Done(q)
  BY <1>3 DEF Done
<1>5. CASE \A o \in s.connections : s.attr[o].id # i
  <2>1. c = None /\ Delete(d, f, i) = d
    BY <1>1, <1>5, NamedNone, DeleteNothing
  <2> HIDE DEF q, c
  <2>2. LeadsRemoveLink(q, s, s)
    BY <1>3, <1>5, <2>1 DEF LeadsRemoveLink
  <2>3. Leads(q, s, s)
    BY <2>2 DEF Leads
  <2>4. Shows(Delete(d, f, i), s)
    BY <2>1
  <2>5. Does(Redo(RemoveLink(i), d), s, s)
    BY <1>2, <1>4, <2>3, <2>4, RunsOf
  <2> QED
    BY <2>5
<1>6. CASE \E o \in s.connections : s.attr[o].id = i
  <2>1. PICK o \in s.connections : s.attr[o].id = i
    BY <1>6
  <2>2. c = o
    BY <1>1, <2>1, NamedIs
  <2> DEFINE t == Relisted(s, f, s.connections \ {o})
  <2> HIDE DEF q, c
  <2>3. LeadsRemoveLink(q, s, t)
    BY <1>1, <1>3, <2>1, <2>2 DEF LeadsRemoveLink
  <2>4. Shows(Delete(d, f, i), t)
    BY <1>1, <2>1, DeleteShows
  <2>5. t \in State /\ t.attr = s.attr /\ t.components = s.components
        /\ t.connections \subseteq s.connections
    BY <1>1 DEF Relisted, State
  <2> HIDE DEF t
  <2>6. Leads(q, s, t)
    BY <2>3 DEF Leads
  <2>7. Does(Redo(RemoveLink(i), d), s, t)
    BY <1>2, <1>4, <2>4, <2>6, RunsOf
  <2>8. Sound(t)
    BY <2>5, SoundWithout
  <2>9. ShownIn(t) \subseteq ShownIn(s)
    BY <2>5 DEF ShownIn
  <2> QED
    BY <2>7, <2>8, <2>9
<1> QED
  BY <1>5, <1>6

\* A removal of a component, executed for the first time, notes the connections
\* that go with it and leads from where it was executed.
LEMMA FirstRemoveComponent ==
  ASSUME NEW d, NEW s, Shows(d, s), Sound(s), NEW i \in Id, Named(d, "components", i) # None
  PROVE  \E t : Sound(t) /\ ShownIn(t) \subseteq ShownIn(s)
                /\ Does(Redo(RemoveComponent(i), d), s, t)
<1> DEFINE f == "components"
           o == Named(d, f, i)
           links == Touching(d, i)
           ids == [p \in DOMAIN links |-> d.attr[links[p]].id]
           e == FoldLeft(LAMBDA acc, j : Delete(acc, "connections", j), d, ids)
           q == [RemoveComponent(i) EXCEPT !.object = o, !.owned = TRUE,
                                           !.links = links, !.linkIds = ids]
           t == Bared(s, o, ToSet(links))
<1>1. s \in State /\ s.components \subseteq Component /\ f \in Lists
      /\ s.connections \subseteq Connection /\ d.attr = s.attr
  BY DEF Sound, State, Lists, Shows
<1>2. o \in s.components /\ s.attr[o].id = i
  <2>1. Named(d, f, i) \in s[f] /\ s.attr[Named(d, f, i)].id = i
    BY <1>1, NamedIsSomeone
  <2> QED
    BY <2>1
<1>3. Redo(RemoveComponent(i), d) = [doc |-> Delete(e, f, i), command |-> q]
  BY DEF Redo, RemoveComponent, RedoRemoveComponent
<1>4. links \in Seq(Connection) /\ NoRepeats(links) /\ ToSet(links) = LinksOf(s, i)
  BY TouchingFinds
<1>5. ids = [p \in DOMAIN links |-> s.attr[links[p]].id]
  BY <1>1
<1>6. ToSet(links) \subseteq s.connections
  BY <1>4 DEF LinksOf
<1> HIDE DEF links, o
<1>7. ids \in Seq(ConnectionId)
  <2>1. \A p \in DOMAIN links : links[p] \in s.connections
    BY <1>6 DEF ToSet
  <2>2. \A c \in s.connections : s.attr[c].id \in ConnectionId
    BY DEF Sound, Proper, AttributesIn
  <2>3. DOMAIN links = 1 .. Len(links) /\ Len(links) \in Nat
    BY <1>4
  <2>4. ids \in [1 .. Len(links) -> ConnectionId]
    BY <1>5, <2>1, <2>2, <2>3
  <2> HIDE DEF ids
  <2> QED
    BY <2>3, <2>4
<1> HIDE DEF ids
<1>8. Shows(Delete(e, f, i), t)
  <2>1. Shows(Delete(FoldLeft(LAMBDA acc, j : Delete(acc, "connections", j), d, ids),
                     "components", s.attr[o].id), Bared(s, o, ToSet(links)))
    BY <1>2, <1>4, <1>5, <1>6, BaresDocument
  <2> QED
    BY <1>2, <2>1
<1> HIDE DEF e
<1>9. q \in RemoveComponentCommand /\ q.kind = "RemoveComponent" /\ q.id = i
      /\ q.object = o /\ q.owned = TRUE /\ q.links = links /\ q.linkIds = ids
  <2>1. o \in Component
    BY <1>1, <1>2
  <2> QED
    BY <1>4, <1>7, <2>1 DEF RemoveComponent, RemoveComponentCommand
<1> HIDE DEF q
<1>10. LeadsRemoveComponent(q, s, t)
  BY <1>2, <1>4, <1>5, <1>9 DEF LeadsRemoveComponent
<1>11. Leads(q, s, t) /\ Done(q)
  BY <1>9, <1>10 DEF Leads, Done
<1>12. Sound(t)
  BY BaredIsSound
<1>13. ShownIn(t) \subseteq ShownIn(s)
  BY DEF ShownIn, Bared
<1> HIDE DEF t
<1>14. Does(Redo(RemoveComponent(i), d), s, t)
  BY <1>3, <1>8, <1>11, RunsOf
<1> QED
  BY <1>12, <1>13, <1>14

\* Moves made after other moves of the same components leave no trace of those.
LEMMA PlacedAgain ==
  ASSUME NEW s, Sound(s), NEW M \in SUBSET OneMove, DistinctIds(M), NEW w \in Which,
         NEW N \in SUBSET OneMove, DistinctIds(N), NEW v \in Which,
         \A m \in M : \E n \in N : n.id = m.id
  PROVE  Placed(Placed(s, M, w), N, v) = Placed(s, N, v)
<1> DEFINE t == Placed(s, M, w)
           u == Placed(t, N, v)
           z == Placed(s, N, v)
<1>1. /\ Sound(t) /\ t.components = s.components /\ t.connections = s.connections
      /\ \A o \in Object : (\A m \in M : ~Places(s, m, o)) => t.attr[o] = s.attr[o]
      /\ \A o \in Object, m \in M :
           Places(s, m, o) => t.attr[o] = [id |-> s.attr[o].id, at |-> m[w]]
  BY PlacedIs
<1> HIDE DEF t
<1>2. /\ Sound(u) /\ u.components = t.components /\ u.connections = t.connections
      /\ \A o \in Object : (\A m \in N : ~Places(t, m, o)) => u.attr[o] = t.attr[o]
      /\ \A o \in Object, m \in N :
           Places(t, m, o) => u.attr[o] = [id |-> t.attr[o].id, at |-> m[v]]
  BY <1>1, PlacedIs
<1>3. /\ Sound(z) /\ z.components = s.components /\ z.connections = s.connections
      /\ \A o \in Object : (\A m \in N : ~Places(s, m, o)) => z.attr[o] = s.attr[o]
      /\ \A o \in Object, m \in N :
           Places(s, m, o) => z.attr[o] = [id |-> s.attr[o].id, at |-> m[v]]
  BY PlacedIs
<1> HIDE DEF u, z
<1>4. ASSUME NEW o \in Object PROVE u.attr[o] = z.attr[o]
  <2>1. o \in s.components => t.attr[o].id = s.attr[o].id
    <3>1. CASE \A m \in M : ~Places(s, m, o)
      BY <1>1, <3>1
    <3>2. CASE \E m \in M : Places(s, m, o)
      <4>1. PICK m \in M : Places(s, m, o)
        BY <3>2
      <4>2. t.attr[o] = [id |-> s.attr[o].id, at |-> m[w]]
        BY <1>1, <4>1
      <4> QED
        BY <4>2
    <3> QED
      BY <3>1, <3>2
  <2>2. \A n \in N : Places(t, n, o) <=> Places(s, n, o)
    BY <1>1, <2>1 DEF Places
  <2>3. CASE \A n \in N : ~Places(s, n, o)
    <3>1. \A m \in M : ~Places(s, m, o)
      BY <2>3 DEF Places
    <3> QED
      BY <1>1, <1>2, <1>3, <2>2, <2>3, <3>1
  <2>4. CASE \E n \in N : Places(s, n, o)
    <3>1. PICK n \in N : Places(s, n, o)
      BY <2>4
    <3>2. u.attr[o] = [id |-> t.attr[o].id, at |-> n[v]]
      BY <1>2, <2>2, <3>1
    <3>3. z.attr[o] = [id |-> s.attr[o].id, at |-> n[v]]
      BY <1>3, <3>1
    <3> QED
      BY <2>1, <3>1, <3>2, <3>3 DEF Places
  <2> QED
    BY <2>3, <2>4
<1>5. u = z
  BY <1>1, <1>2, <1>3, <1>4, StatesEqual DEF Sound
<1> QED
  BY <1>5 DEF t, u, z

\* Moves of the same components to the same places do the same.
LEMMA PlacedAlike ==
  ASSUME NEW s, Sound(s), NEW M \in SUBSET OneMove, DistinctIds(M), NEW w \in Which,
         NEW N \in SUBSET OneMove, DistinctIds(N), NEW v \in Which,
         \A m \in M : \E n \in N : n.id = m.id /\ n[v] = m[w],
         \A n \in N : \E m \in M : n.id = m.id
  PROVE  Placed(s, M, w) = Placed(s, N, v)
<1> DEFINE t == Placed(s, M, w)
           z == Placed(s, N, v)
<1>1. /\ Sound(t) /\ t.components = s.components /\ t.connections = s.connections
      /\ \A o \in Object : (\A m \in M : ~Places(s, m, o)) => t.attr[o] = s.attr[o]
      /\ \A o \in Object, m \in M :
           Places(s, m, o) => t.attr[o] = [id |-> s.attr[o].id, at |-> m[w]]
  BY PlacedIs
<1>3. /\ Sound(z) /\ z.components = s.components /\ z.connections = s.connections
      /\ \A o \in Object : (\A m \in N : ~Places(s, m, o)) => z.attr[o] = s.attr[o]
      /\ \A o \in Object, m \in N :
           Places(s, m, o) => z.attr[o] = [id |-> s.attr[o].id, at |-> m[v]]
  BY PlacedIs
<1> HIDE DEF t, z
<1>4. ASSUME NEW o \in Object PROVE t.attr[o] = z.attr[o]
  <2>3. CASE \A m \in M : ~Places(s, m, o)
    <3>1. \A n \in N : ~Places(s, n, o)
      BY <2>3 DEF Places
    <3> QED
      BY <1>1, <1>3, <2>3, <3>1
  <2>4. CASE \E m \in M : Places(s, m, o)
    <3>1. PICK m \in M : Places(s, m, o)
      BY <2>4
    <3>2. PICK n \in N : n.id = m.id /\ n[v] = m[w]
      OBVIOUS
    <3>3. Places(s, n, o)
      BY <3>1, <3>2 DEF Places
    <3>4. t.attr[o] = [id |-> s.attr[o].id, at |-> m[w]]
      BY <1>1, <3>1
    <3>5. z.attr[o] = [id |-> s.attr[o].id, at |-> n[v]]
      BY <1>3, <3>3
    <3> QED
      BY <3>2, <3>4, <3>5
  <2> QED
    BY <2>3, <2>4
<1>5. t = z
  BY <1>1, <1>3, <1>4, StatesEqual DEF Sound
<1> QED
  BY <1>5 DEF t, z

\* Moves to where the components are do nothing.
LEMMA PlacedHome ==
  ASSUME NEW s, Sound(s), NEW M \in SUBSET OneMove, DistinctIds(M), NEW w \in Which,
         \A o \in Object, m \in M : Places(s, m, o) => s.attr[o].at = m[w]
  PROVE  Placed(s, M, w) = s
<1> DEFINE t == Placed(s, M, w)
<1>1. /\ Sound(t) /\ t.components = s.components /\ t.connections = s.connections
      /\ \A o \in Object : (\A m \in M : ~Places(s, m, o)) => t.attr[o] = s.attr[o]
      /\ \A o \in Object, m \in M :
           Places(s, m, o) => t.attr[o] = [id |-> s.attr[o].id, at |-> m[w]]
  BY PlacedIs
<1> HIDE DEF t
<1>4. ASSUME NEW o \in Object PROVE t.attr[o] = s.attr[o]
  <2>3. CASE \A m \in M : ~Places(s, m, o)
    BY <1>1, <2>3
  <2>4. CASE \E m \in M : Places(s, m, o)
    <3>1. PICK m \in M : Places(s, m, o)
      BY <2>4
    <3>2. t.attr[o] = [id |-> s.attr[o].id, at |-> m[w]] /\ s.attr[o].at = m[w]
      BY <1>1, <3>1
    <3>3. s.attr[o] \in AttributesIn("components")
      BY <3>1 DEF Places, Sound, Proper
    <3> QED
      BY <3>2, <3>3 DEF AttributesIn
  <2> QED
    BY <2>3, <2>4
<1>5. t = s
  BY <1>1, <1>4, StatesEqual DEF Sound
<1> QED
  BY <1>5 DEF t

\* The moves of a list, as a set.
LEMMA MovesAsSet ==
  ASSUME NEW m \in Seq(OneMove), \A p, q \in DOMAIN m : m[p].id = m[q].id => p = q
  PROVE  ToSet(m) \in SUBSET OneMove /\ DistinctIds(ToSet(m))
<1>1. \A p \in DOMAIN m : m[p] \in OneMove
  OBVIOUS
<1> QED
  BY <1>1 DEF ToSet, DistinctIds

\* A move that starts where the components are leads to where it puts them.
LEMMA FirstMove ==
  ASSUME NEW s, Sound(s), NEW m \in Seq(OneMove),
         \A p, q \in DOMAIN m : m[p].id = m[q].id => p = q,
         \A p \in DOMAIN m : \A o \in s.components :
           s.attr[o].id = m[p].id => s.attr[o].at = m[p].old
  PROVE  /\ LeadsMove(Move(m), s, Placed(s, ToSet(m), "new"))
         /\ Sound(Placed(s, ToSet(m), "new"))
<1> DEFINE M == ToSet(m)
           t == Placed(s, M, "new")
<1>1. M \in SUBSET OneMove /\ DistinctIds(M) /\ "new" \in Which /\ "old" \in Which
  BY MovesAsSet DEF Which
<1>2. \A o \in Object, n \in M : Places(s, n, o) => s.attr[o].at = n["old"]
  BY DEF Places, ToSet
<1> HIDE DEF M
<1>3. Sound(t)
  BY <1>1, PlacedIs
<1>4. Placed(t, M, "old") = Placed(s, M, "old")
  BY <1>1, PlacedAgain
<1>5. Placed(s, M, "old") = s
  BY <1>1, <1>2, PlacedHome
<1> HIDE DEF t
<1>6. LeadsMove(Move(m), s, t)
  BY <1>4, <1>5 DEF LeadsMove, Move, MoveCommand, M, t
<1> QED
  BY <1>3, <1>6 DEF t, M

-----------------------------------------------------------------------------
(* Setting a property, and merging. *)

\* Of two values assigned to a property the later one stays.
LEMMA AssignTwice ==
  ASSUME NEW s \in State, NEW o \in Object, NEW y, NEW x, NEW z,
         Assign(s, o, y, x) \in State
  PROVE  Assign(Assign(s, o, y, x), o, y, z) = Assign(s, o, y, z)
<1> DEFINE t == Assign(s, o, y, x)
           u == Assign(t, o, y, z)
           v == Assign(s, o, y, z)
           a == s.attr
<1>1. /\ t.components = s.components /\ t.connections = s.connections
      /\ t.attr = [a EXCEPT ![o] = [a[o] EXCEPT ![y] = x]]
  <2>1. t = [components |-> s.components, connections |-> s.connections,
             attr |-> [a EXCEPT ![o] = [a[o] EXCEPT ![y] = x]]]
    BY StateIs, AssignIs
  <2> HIDE DEF t, a
  <2> QED
    BY <2>1
<1>4. t \in State
  OBVIOUS
<1> HIDE DEF t
<1>2. u = [components |-> t.components, connections |-> t.connections,
           attr |-> [t.attr EXCEPT ![o] = [t.attr[o] EXCEPT ![y] = z]]]
  BY <1>4, StateIs, AssignIs
<1>3. v = [components |-> s.components, connections |-> s.connections,
           attr |-> [a EXCEPT ![o] = [a[o] EXCEPT ![y] = z]]]
  BY StateIs, AssignIs
<1>5. a \in [Object -> Attributes]
  BY DEF State
<1>6. [t.attr EXCEPT ![o] = [t.attr[o] EXCEPT ![y] = z]] = [a EXCEPT ![o] = [a[o] EXCEPT ![y] = z]]
  <2>1. t.attr[o] = [a[o] EXCEPT ![y] = x]
    BY <1>1, <1>5
  <2>2. [t.attr[o] EXCEPT ![y] = z] = [a[o] EXCEPT ![y] = z]
    <3> DEFINE b == a[o]
    <3>1. [[b EXCEPT ![y] = x] EXCEPT ![y] = z] = [b EXCEPT ![y] = z]
      <4> HIDE DEF b
      <4> QED
        OBVIOUS
    <3> QED
      BY <2>1, <3>1
  <2> DEFINE b == [a[o] EXCEPT ![y] = z]
             c == [a[o] EXCEPT ![y] = x]
  <2>3. [[a EXCEPT ![o] = c] EXCEPT ![o] = b] = [a EXCEPT ![o] = b]
    <3> HIDE DEF a, b, c
    <3> QED
      BY <1>5
  <2> QED
    BY <1>1, <2>2, <2>3
<1> HIDE DEF u, v
<1>7. u = v
  BY <1>1, <1>2, <1>3, <1>6
<1> QED
  BY <1>7 DEF u, v, t

\* A set property that knows the old value leads to the state with the new one.
LEMMA FirstSet ==
  ASSUME NEW s, Sound(s), NEW f \in Lists, NEW o \in s[f],
         NEW y \in DOMAIN s.attr[o], NEW x,
         [s.attr[o] EXCEPT ![y] = x] \in AttributesIn(f),
         y = "id" => \A q \in s[f] : s.attr[q].id # x,
         x \in Id \cup ConnectionId \cup Place
  PROVE  /\ LeadsSet(Set(o, y, s.attr[o][y], x), s, Assign(s, o, y, x))
         /\ Sound(Assign(s, o, y, x))
         /\ ShownIn(Assign(s, o, y, x)) = ShownIn(s)
<1> DEFINE t == Assign(s, o, y, x)
           k == Set(o, y, s.attr[o][y], x)
           v == [s.attr[o] EXCEPT ![y] = x]
<1>1. /\ s \in State /\ Proper(s, f) /\ s[f] \subseteq Things(f) /\ Things(f) \subseteq Object
      /\ s.attr \in [Object -> Attributes] /\ o \in Object /\ s.attr[o] \in AttributesIn(f)
  <2>1. /\ s \in State /\ Proper(s, f) /\ s[f] \subseteq Things(f) /\ Things(f) \subseteq Object
        /\ s.attr \in [Object -> Attributes]
    BY SoundLists
  <2> QED
    BY <2>1 DEF Proper
<1>2. /\ t = [components |-> s.components, connections |-> s.connections,
              attr |-> [s.attr EXCEPT ![o] = v]]
      /\ t.components = s.components /\ t.connections = s.connections
      /\ t.attr[o] = v /\ \A q \in Object : q # o => t.attr[q] = s.attr[q]
  BY <1>1, AssignedAttribute
<1>3. v \in Attributes /\ v \in AttributesIn(f)
  BY DEF AttributesIn, Attributes
<1>4. y \in {"id", "at", "source", "target"} /\ s.attr[o][y] \in Id \cup ConnectionId \cup Place
      /\ v.id = IF y = "id" THEN x ELSE s.attr[o].id
  <2>1. CASE f = "components"
    <3>1. s.attr[o] \in [id : Id, at : Place]
      BY <1>1, <2>1 DEF AttributesIn
    <3> QED
      BY <3>1
  <2>2. CASE f = "connections"
    <3>1. s.attr[o] \in [id : ConnectionId, source : Id, target : Id]
      BY <1>1, <2>2 DEF AttributesIn
    <3> QED
      BY <3>1
  <2> QED
    BY <2>1, <2>2 DEF Lists
<1>10. o \in ShownIn(s)
  BY DEF Lists, ShownIn
<1> HIDE DEF v
<1>5. t \in State
  BY <1>1, <1>2, <1>3 DEF State
<1>11. Assign(t, o, y, s.attr[o][y]) = s
  <2>1. Assign(t, o, y, s.attr[o][y]) = Assign(s, o, y, s.attr[o][y])
    BY <1>1, <1>5, AssignTwice
  <2> DEFINE u == Assign(s, o, y, s.attr[o][y])
  <2>2. u = [components |-> s.components, connections |-> s.connections,
             attr |-> [s.attr EXCEPT ![o] = [s.attr[o] EXCEPT ![y] = s.attr[o][y]]]]
    BY <1>1, AssignedAttribute
  <2>3. [s.attr[o] EXCEPT ![y] = s.attr[o][y]] = s.attr[o]
    <3>1. CASE f = "components"
      <4>1. s.attr[o] \in [id : Id, at : Place]
        BY <1>1, <3>1 DEF AttributesIn
      <4> QED
        BY <4>1
    <3>2. CASE f = "connections"
      <4>1. s.attr[o] \in [id : ConnectionId, source : Id, target : Id]
        BY <1>1, <3>2 DEF AttributesIn
      <4> QED
        BY <4>1
    <3> QED
      BY <3>1, <3>2 DEF Lists
  <2>4. [s.attr EXCEPT ![o] = s.attr[o]] = s.attr
    BY <1>1
  <2> HIDE DEF u
  <2>5. u = s
    BY <1>1, <2>2, <2>3, <2>4, StateIs
  <2> QED
    BY <2>1, <2>5 DEF u
<1>12. t[f] = s[f] /\ \A g \in Lists : t[g] = s[g]
  BY <1>2 DEF Lists
<1> HIDE DEF t
<1>6. Proper(t, f)
  <2> SUFFICES ASSUME NEW q \in s[f]
               PROVE  /\ t.attr[q] \in AttributesIn(f)
                      /\ \A r \in s[f] : t.attr[r].id = t.attr[q].id => r = q
    BY <1>12 DEF Proper
  <2>1. \A r \in s[f] : /\ r \in Object /\ s.attr[r] \in AttributesIn(f)
                        /\ \A z \in s[f] : s.attr[z].id = s.attr[r].id => z = r
    BY <1>1 DEF Proper
  <2>2. \A r \in s[f] : t.attr[r].id = IF r = o /\ y = "id" THEN x ELSE s.attr[r].id
    BY <1>2, <1>4, <2>1
  <2> QED
    BY <1>2, <1>3, <2>1, <2>2
<1>7. ASSUME NEW g \in Lists, g # f PROVE Proper(t, g)
  <2>1. o \notin s[g]
    <3>1. s[g] \subseteq Things(g) /\ o \in Things(f)
      BY <1>1, SoundLists
    <3> QED
      BY <1>7, <3>1, KindsAreDisjoint DEF Things, Lists
  <2>2. Proper(s, g) /\ s[g] \subseteq Object
    <3>1. Proper(s, g) /\ s[g] \subseteq Things(g) /\ Things(g) \subseteq Object
      BY SoundLists
    <3> QED
      BY <3>1
  <2>3. \A q \in s[g] : t.attr[q] = s.attr[q]
    BY <1>2, <2>1, <2>2
  <2> QED
    BY <1>12, <2>2, <2>3 DEF Proper
<1>8. Sound(t)
  BY <1>5, <1>6, <1>7 DEF Sound, Lists
<1>9. /\ k \in SetCommand /\ k.object = o /\ k.property = y /\ k.new = x
      /\ k.old = s.attr[o][y]
  BY <1>1, <1>4 DEF Set, SetCommand
<1> HIDE DEF k
<1>13. LeadsSet(k, s, t)
  BY <1>9, <1>10, <1>11 DEF LeadsSet, t
<1>14. ShownIn(t) = ShownIn(s)
  BY <1>2 DEF ShownIn
<1> QED
  BY <1>8, <1>13, <1>14 DEF t, k

\* A merged command leads from where the older began to where the newer ends.
LEMMA MergedSet ==
  ASSUME NEW r, Sound(r), NEW s, Sound(s), NEW t, Sound(t), NEW a, NEW b,
         LeadsSet(a, r, s), LeadsSet(b, s, t), Merges(a, b), NEW d, Shows(d, s)
  PROVE  Does(Redo(Merged(a, b), d), r, t)
<1> DEFINE m == Merged(a, b)
           o == a.object
           y == a.property
<1>1. /\ a \in SetCommand /\ b \in SetCommand /\ o \in ShownIn(r) /\ o \in Object
      /\ s = Assign(r, o, y, a.new) /\ r = Assign(s, o, y, a.old)
      /\ t = Assign(s, b.object, b.property, b.new)
      /\ a.kind = "Set" /\ b.kind = "Set"
      /\ r \in State /\ s \in State /\ t \in State
  BY DEF LeadsSet, SetCommand, Sound
<1>2. b.object = o /\ b.property = y
  BY <1>1 DEF Merges
<1>3. m = [a EXCEPT !.new = b.new]
  BY <1>1 DEF Merged
<1>4. /\ m \in SetCommand /\ m.kind = "Set" /\ m.object = o /\ m.property = y
      /\ m.new = b.new /\ m.old = a.old
  BY <1>1, <1>3 DEF SetCommand
<1>11. o # None
  BY <1>1, NoneIsNoObject
<1> DEFINE old == a.old
           new == b.new
           mid == a.new
<1> HIDE DEF m, o, y, old, new, mid
<1>5. Assign(r, o, y, new) = t
  <2>1. Assign(Assign(r, o, y, mid), o, y, new) = Assign(r, o, y, new)
    <3>1. Assign(r, o, y, mid) \in State
      BY <1>1 DEF mid
    <3> QED
      BY <1>1, <3>1, AssignTwice
  <2>2. Assign(r, o, y, mid) = s /\ Assign(s, o, y, new) = t
    BY <1>1, <1>2 DEF mid, new
  <2> QED
    BY <2>1, <2>2
<1>6. Assign(t, o, y, old) = r
  <2>1. Assign(s, o, y, new) = t /\ Assign(s, o, y, old) = r
    BY <1>1, <1>2 DEF new, old
  <2>2. Assign(Assign(s, o, y, new), o, y, old) = Assign(s, o, y, old)
    <3>1. Assign(s, o, y, new) \in State
      BY <1>1, <2>1
    <3> QED
      BY <1>1, <3>1, AssignTwice
  <2> QED
    BY <2>1, <2>2
<1>7. LeadsSet(m, r, t)
  BY <1>1, <1>4, <1>5, <1>6 DEF LeadsSet, old, new
<1>8. Redo(m, d) = [doc |-> Assign(d, o, y, new), command |-> m]
  BY <1>4, <1>11 DEF Redo, new
<1>9. Shows(Assign(d, o, y, new), t)
  <2>1. t = Assign(s, o, y, new)
    BY <1>1, <1>2 DEF new
  <2>5. s \in State /\ o \in Object
    BY <1>1
  <2>2. t.attr[o] = [s.attr[o] EXCEPT ![y] = new]
    BY <2>1, <2>5, AssignedAttribute
  <2>3. t.attr[o] \in Attributes
    BY <1>1 DEF State
  <2>4. Shows(Assign(d, o, y, new), Assign(s, o, y, new))
    BY <1>1, <2>2, <2>3, AssignShows
  <2> QED
    BY <2>1, <2>4
<1>10. Leads(m, r, t) /\ Done(m)
  BY <1>4, <1>7 DEF Leads, Done
<1>12. Does(Redo(m, d), r, t)
  BY <1>8, <1>9, <1>10, RunsOf
<1> QED
  BY <1>12 DEF m

\* For moves the same holds: the older places are kept, the newer ones reached.
LEMMA MergedMove ==
  ASSUME NEW r, Sound(r), NEW s, Sound(s), NEW t, Sound(t), NEW a, NEW b,
         LeadsMove(a, r, s), LeadsMove(b, s, t), Merges(a, b), NEW d, Shows(d, s)
  PROVE  Does(Redo(Merged(a, b), d), r, t)
<1> DEFINE k == Merged(a, b)
           x == a.moves
           y == b.moves
           m == [p \in DOMAIN x |-> [x[p] EXCEPT !.new = y[p].new]]
           X == ToSet(x)
           Y == ToSet(y)
           M == ToSet(m)
<1>1. /\ a \in MoveCommand /\ b \in MoveCommand /\ a.kind = "Move" /\ b.kind = "Move"
      /\ x \in Seq(OneMove) /\ y \in Seq(OneMove)
      /\ \A p, q \in DOMAIN x : x[p].id = x[q].id => p = q
      /\ \A p, q \in DOMAIN y : y[p].id = y[q].id => p = q
      /\ s = Placed(r, X, "new") /\ r = Placed(s, X, "old")
      /\ t = Placed(s, Y, "new") /\ s = Placed(t, Y, "old")
  BY DEF LeadsMove, MoveCommand
<1>2. Len(x) = Len(y) /\ \A p \in DOMAIN x : x[p].id = y[p].id
  BY <1>1 DEF Merges
<1>3. k = [a EXCEPT !.moves = m]
  BY <1>1 DEF Merged
<1>4. /\ DOMAIN x = 1 .. Len(x) /\ DOMAIN y = DOMAIN x /\ Len(x) \in Nat
      /\ \A p \in DOMAIN x : x[p] \in OneMove /\ y[p] \in OneMove
  BY <1>1, <1>2
<1> HIDE DEF x, y
<1>5. /\ m \in Seq(OneMove) /\ DOMAIN m = DOMAIN x
      /\ \A p \in DOMAIN x : m[p].id = x[p].id /\ m[p].old = x[p].old /\ m[p].new = y[p].new
  <2>1. \A p \in DOMAIN x : [x[p] EXCEPT !.new = y[p].new] \in OneMove
    BY <1>4 DEF OneMove
  <2>2. m \in [1 .. Len(x) -> OneMove]
    BY <1>4, <2>1
  <2>3. \A p \in DOMAIN x : m[p].id = x[p].id /\ m[p].old = x[p].old /\ m[p].new = y[p].new
    BY <1>4 DEF OneMove
  <2> HIDE DEF m
  <2>4. DOMAIN m = DOMAIN x
    BY <1>4, <2>2
  <2> QED
    BY <1>4, <2>2, <2>3, <2>4
<1> HIDE DEF m
<1>6. k \in MoveCommand /\ k.kind = "Move" /\ k.moves = m
  BY <1>1, <1>3, <1>5 DEF MoveCommand
<1>7. \A p, q \in DOMAIN m : m[p].id = m[q].id => p = q
  BY <1>1, <1>5
<1>8. /\ X \in SUBSET OneMove /\ DistinctIds(X) /\ Y \in SUBSET OneMove /\ DistinctIds(Y)
      /\ M \in SUBSET OneMove /\ DistinctIds(M) /\ "new" \in Which /\ "old" \in Which
  BY <1>1, <1>5, <1>7, MovesAsSet DEF Which
<1>9. /\ \A n \in M : \E z \in X : z.id = n.id /\ z["old"] = n["old"]
      /\ \A n \in X : \E z \in M : z.id = n.id
      /\ \A n \in M : \E z \in Y : z.id = n.id /\ z["new"] = n["new"]
      /\ \A n \in Y : \E z \in M : z.id = n.id
  BY <1>2, <1>4, <1>5 DEF ToSet
<1> HIDE DEF X, Y, M, k
<1>20. \A n \in X : \E z \in M : n.id = z.id
  BY <1>9
<1>21. \A n \in Y : \E z \in M : n.id = z.id
  BY <1>9
<1>22. \A n \in M : \E z \in M : z.id = n.id
  OBVIOUS
<1>23. \A n \in M : \E z \in X : z.id = n.id /\ z["old"] = n["old"]
  BY <1>9
<1>24. \A n \in M : \E z \in Y : z.id = n.id /\ z["new"] = n["new"]
  BY <1>9
<1>25. \A n \in X : \E z \in M : z.id = n.id
  BY <1>9
<1>10. Placed(s, M, "new") = t
  <2>1. Placed(s, M, "new") = Placed(s, Y, "new")
    BY <1>8, <1>21, <1>24, PlacedAlike
  <2> QED
    BY <1>1, <2>1
<1>11. Placed(r, M, "new") = t
  <2>1. Placed(Placed(r, X, "new"), M, "new") = Placed(r, M, "new")
    BY <1>8, <1>25, PlacedAgain
  <2> QED
    BY <1>1, <1>10, <2>1
<1>12. Placed(t, M, "old") = r
  <2>1. Placed(Placed(s, M, "new"), M, "old") = Placed(s, M, "old")
    BY <1>8, <1>22, PlacedAgain
  <2>2. Placed(s, M, "old") = Placed(s, X, "old")
    BY <1>8, <1>20, <1>23, PlacedAlike
  <2> QED
    BY <1>1, <1>10, <2>1, <2>2
<1>13. LeadsMove(k, r, t)
  BY <1>6, <1>7, <1>11, <1>12 DEF LeadsMove, M
<1>14. Redo(k, d) = [doc |-> MoveAll(d, m, "new"), command |-> k]
  BY <1>6 DEF Redo
<1>15. Shows(MoveAll(d, m, "new"), t)
  <2>1. Shows(MoveAll(d, m, "new"), Placed(s, ToSet(m), "new"))
    BY <1>5, <1>7, <1>8, MoveAllShows
  <2> QED
    BY <1>10, <2>1 DEF M
<1>16. Leads(k, r, t) /\ Done(k)
  BY <1>6, <1>13 DEF Leads, Done
<1>17. Does(Redo(k, d), r, t)
  BY <1>14, <1>15, <1>16, RunsOf
<1> QED
  BY <1>17 DEF k

-----------------------------------------------------------------------------
(* What a command explains. *)

\* The two kinds of commands that take objects away.
Removal == {"RemoveLink", "RemoveComponent"}

\* Components and connections are different objects.
LEMMA ShownApart ==
  ASSUME NEW s \in State
  PROVE  /\ ShownIn(s) \subseteq Object /\ None \notin ShownIn(s)
         /\ s.components \subseteq Component /\ s.connections \subseteq Connection
         /\ s.components \cap s.connections = {}
BY KindsAreDisjoint, NoneIsNoObject DEF State, ShownIn, Object

\* What a command says of the objects it shows, hides and points to.
Explains(k, s, t) ==
  /\ \A o \in ShownIn(t) \ ShownIn(s) : k.kind = "Add" /\ k.object = o
  /\ \A o \in ShownIn(s) \ ShownIn(t) : k.kind \in Removal /\ o \in PointsTo(k)
  /\ PointsTo(k) \subseteq ShownIn(s) \cup ShownIn(t)
  /\ k.kind = "Add" => k.object \in ShownIn(t) \ ShownIn(s) /\ PointsTo(k) = {k.object}
  /\ k.kind \in Removal => /\ PointsTo(k) \subseteq ShownIn(s) \ ShownIn(t)
                           /\ PointsTo(k) # {} => k.object # None
  /\ k.kind = "Set" => k.object \in ShownIn(s)
  /\ k.kind \in {"Add", "RemoveLink", "RemoveComponent", "Move", "Set"}

\* A command that leads from s to t explains what appears, disappears and stays.
LEMMA LeadsExplains ==
  ASSUME NEW s, Sound(s), NEW t, Sound(t), NEW k, Leads(k, s, t)
  PROVE  Explains(k, s, t)
<1>1. /\ s \in State /\ t \in State
      /\ ShownIn(s) \subseteq Object /\ None \notin ShownIn(s)
      /\ s.components \cap s.connections = {}
      /\ ShownIn(t) \subseteq Object /\ None \notin ShownIn(t)
      /\ t.components \cap t.connections = {}
      /\ s.components \cap t.connections = {} /\ t.components \cap s.connections = {}
  <2>1. s \in State /\ t \in State
    BY DEF Sound
  <2>2. /\ s.components \subseteq Component /\ s.connections \subseteq Connection
        /\ t.components \subseteq Component /\ t.connections \subseteq Connection
    BY <2>1, ShownApart
  <2>3. s.components \cap t.connections = {} /\ t.components \cap s.connections = {}
    BY <2>2, KindsAreDisjoint
  <2> QED
    BY <2>1, <2>3, ShownApart
<1>2. CASE LeadsAdd(k, s, t)
  <2>1. /\ k.kind = "Add" /\ k.list \in Lists /\ k.object \in Object
        /\ t = Relisted(s, k.list, s[k.list] \cup {k.object})
        /\ k.object \in Things(k.list) \ s[k.list]
    BY <1>2 DEF LeadsAdd, AddCommand
  <2>5. k.object \notin ShownIn(s)
    <3>1. s.components \subseteq Component /\ s.connections \subseteq Connection
      BY <1>1, ShownApart
    <3> QED
      BY <2>1, <3>1, KindsAreDisjoint DEF ShownIn, Things, Lists
  <2>2. k.object # None
    BY <2>1, NoneIsNoObject
  <2>3. PointsTo(k) = {k.object}
    BY <2>1, <2>2 DEF PointsTo
  <2>4. ShownIn(t) = ShownIn(s) \cup {k.object}
    BY <2>1 DEF Relisted, ShownIn, Lists
  <2> QED
    BY <2>1, <2>2, <2>3, <2>4, <2>5 DEF Explains, Removal
<1>3. CASE LeadsRemoveLink(k, s, t)
  <2>1. k.kind = "RemoveLink" /\ PointsTo(k) = {k.object} \ {None}
    BY <1>3 DEF LeadsRemoveLink, RemoveLinkCommand, PointsTo
  <2>2. CASE k.object = None /\ t = s
    BY <2>1, <2>2 DEF Explains, Removal
  <2>3. CASE k.object \in s.connections /\ t = Relisted(s, "connections", s.connections \ {k.object})
    <3>1. t.components = s.components /\ t.connections = s.connections \ {k.object}
      BY <2>3 DEF Relisted
    <3>2. k.object \in ShownIn(s) /\ k.object # None /\ k.object \notin ShownIn(t)
      BY <1>1, <2>3, <3>1 DEF ShownIn
    <3>3. ShownIn(t) = ShownIn(s) \ {k.object}
      BY <3>1, <3>2 DEF ShownIn
    <3> QED
      BY <2>1, <3>2, <3>3 DEF Explains, Removal
  <2> QED
    BY <1>3, <2>2, <2>3 DEF LeadsRemoveLink
<1>4. CASE LeadsRemoveComponent(k, s, t)
  <2> DEFINE links == ToSet(k.links)
  <2>1. /\ k.kind = "RemoveComponent" /\ k.object \in s.components /\ links \subseteq s.connections
        /\ t = Bared(s, k.object, links)
    BY <1>4 DEF LeadsRemoveComponent, RemoveComponentCommand, LinksOf
  <2>2. PointsTo(k) = links \cup ({k.object} \ {None})
    BY <2>1 DEF PointsTo
  <2> HIDE DEF links
  <2>3. t.components = s.components \ {k.object} /\ t.connections = s.connections \ links
    BY <2>1 DEF Bared
  <2>4. k.object # None
    BY <1>1, <2>1 DEF ShownIn
  <2>5. PointsTo(k) = links \cup {k.object}
    BY <2>2, <2>4
  <2>6. ShownIn(t) = ShownIn(s) \ PointsTo(k) /\ PointsTo(k) \subseteq ShownIn(s)
    BY <1>1, <2>1, <2>3, <2>5 DEF ShownIn
  <2> QED
    BY <2>1, <2>4, <2>6 DEF Explains, Removal
<1>5. CASE LeadsMove(k, s, t)
  <2>1. k.kind = "Move" /\ t.components = s.components /\ t.connections = s.connections
    BY <1>5 DEF LeadsMove, MoveCommand, Placed
  <2>2. PointsTo(k) = {} /\ ShownIn(t) = ShownIn(s)
    BY <2>1 DEF PointsTo, ShownIn
  <2> QED
    BY <2>1, <2>2 DEF Explains, Removal
<1>6. CASE LeadsSet(k, s, t)
  <2>1. k.kind = "Set" /\ k.object \in ShownIn(s) /\ k.object \in Object
        /\ t = Assign(s, k.object, k.property, k.new)
    BY <1>6 DEF LeadsSet, SetCommand
  <2>3. t.components = s.components /\ t.connections = s.connections
    <3> DEFINE o == k.object
    <3>1. t = [components |-> s.components, connections |-> s.connections,
               attr |-> [s.attr EXCEPT ![o] = [s.attr[o] EXCEPT ![k.property] = k.new]]]
      BY <1>1, <2>1, StateIs, AssignIs
    <3> QED
      BY <3>1
  <2>2. PointsTo(k) = {} /\ ShownIn(t) = ShownIn(s)
    BY <2>1, <2>3 DEF PointsTo, ShownIn
  <2> QED
    BY <2>1, <2>2 DEF Explains, Removal
<1> QED
  BY <1>2, <1>3, <1>4, <1>5, <1>6 DEF Leads

\* The state s, with other attributes for objects that it does not show.
Reset(s, gone, a) ==
  [components |-> s.components, connections |-> s.connections,
   attr |-> [o \in Object |-> IF o \in gone THEN a ELSE s.attr[o]]]

\* What is read of a state: the objects shown, and their attributes.
Picture(s) == {<<o, s.attr[o]>> : o \in ShownIn(s)}

\* Such attributes change nothing that is read of the state.
LEMMA ResetIs ==
  ASSUME NEW s, Sound(s), NEW gone, gone \cap ShownIn(s) = {}, NEW a \in Attributes
  PROVE  /\ Sound(Reset(s, gone, a))
         /\ Reset(s, gone, a).components = s.components
         /\ Reset(s, gone, a).connections = s.connections
         /\ ShownIn(Reset(s, gone, a)) = ShownIn(s)
         /\ \A o \in Object :
              Reset(s, gone, a).attr[o] = IF o \in gone THEN a ELSE s.attr[o]
         /\ \A o \in ShownIn(s) : Reset(s, gone, a).attr[o] = s.attr[o]
         /\ Picture(Reset(s, gone, a)) = Picture(s)
<1> DEFINE t == Reset(s, gone, a)
<1>1. s \in State /\ s.attr \in [Object -> Attributes]
      /\ ShownIn(s) \subseteq Object
  BY ShownApart DEF Sound, State
<1>2. t.components = s.components /\ t.connections = s.connections
  BY DEF Reset
<1>3. \A o \in Object : t.attr[o] = IF o \in gone THEN a ELSE s.attr[o]
  BY DEF Reset
<1>4. \A o \in ShownIn(s) : t.attr[o] = s.attr[o]
  BY <1>1, <1>3
<1>5. t.attr \in [Object -> Attributes]
  BY <1>1 DEF Reset
<1>6. t \in State
  BY <1>1, <1>5 DEF Reset, State
<1> HIDE DEF t
<1>7. Sound(t)
  BY <1>2, <1>4, <1>6 DEF Sound, Proper, ShownIn
<1>8. ShownIn(t) = ShownIn(s)
  BY <1>2 DEF ShownIn
<1>9. Picture(t) = Picture(s)
  BY <1>4, <1>8 DEF Picture
<1> QED
  BY <1>2, <1>3, <1>4, <1>7, <1>8, <1>9 DEF t

\* In a document, likewise.
LEMMA ResetShows ==
  ASSUME NEW d, NEW s, Shows(d, s), NEW gone, NEW a \in Attributes, NEW e,
         e = [components |-> d.components, connections |-> d.connections,
              attr |-> [o \in Object |-> IF o \in gone THEN a ELSE d.attr[o]]]
  PROVE  Shows(e, Reset(s, gone, a))
<1>1. d.attr = s.attr /\ d.attr \in [Object -> Attributes]
      /\ d.components \in Seq(Component) /\ d.connections \in Seq(Connection)
      /\ NoRepeats(d.components) /\ NoRepeats(d.connections)
      /\ s.components = ToSet(d.components) /\ s.connections = ToSet(d.connections)
  BY DEF Shows, Document
<1>2. [o \in Object |-> IF o \in gone THEN a ELSE d.attr[o]] \in [Object -> Attributes]
  BY <1>1
<1>3. e.components = d.components /\ e.connections = d.connections /\ e \in Document
  BY <1>1, <1>2 DEF Document
<1>4. Reset(s, gone, a) = [components |-> ToSet(e.components),
                           connections |-> ToSet(e.connections), attr |-> e.attr]
  BY <1>1, <1>3 DEF Reset
<1> QED
  BY <1>1, <1>3, <1>4 DEF Shows

\* Commands do not depend on the attributes of objects they do not show.
LEMMA LeadsElsewhere ==
  ASSUME NEW s, Sound(s), NEW t, Sound(t), NEW k, Leads(k, s, t), NEW a \in Attributes,
         NEW gone, gone \cap ShownIn(s) = {}, gone \cap ShownIn(t) = {}
  PROVE  Leads(k, Reset(s, gone, a), Reset(t, gone, a))
<1> DEFINE S == Reset(s, gone, a)
           T == Reset(t, gone, a)
<1>1. /\ Sound(S) /\ S.components = s.components /\ S.connections = s.connections
      /\ ShownIn(S) = ShownIn(s)
      /\ \A o \in Object : S.attr[o] = IF o \in gone THEN a ELSE s.attr[o]
      /\ \A o \in ShownIn(s) : S.attr[o] = s.attr[o]
  BY ResetIs
<1>2. /\ Sound(T) /\ T.components = t.components /\ T.connections = t.connections
      /\ ShownIn(T) = ShownIn(t)
      /\ \A o \in Object : T.attr[o] = IF o \in gone THEN a ELSE t.attr[o]
      /\ \A o \in ShownIn(t) : T.attr[o] = t.attr[o]
  BY ResetIs
<1>3. s \in State /\ t \in State /\ S \in State /\ T \in State
      /\ ShownIn(s) \subseteq Object /\ s.components \subseteq ShownIn(s)
      /\ s.connections \subseteq ShownIn(s)
      /\ t.components \subseteq ShownIn(t)
      /\ t.connections \subseteq ShownIn(t)
  BY <1>1, <1>2, ShownApart DEF Sound, ShownIn
<1> HIDE DEF S, T
<1>4. ASSUME LeadsAdd(k, s, t) PROVE Leads(k, S, T)
  <2>1. /\ k \in AddCommand /\ k.list \in Lists /\ k.object \in Things(k.list) \ s[k.list]
        /\ t = Relisted(s, k.list, s[k.list] \cup {k.object})
    BY <1>4 DEF LeadsAdd, AddCommand
  <2>2. S[k.list] = s[k.list]
    BY <1>1, <2>1 DEF Lists
  <2>3. T.components = Relisted(S, k.list, S[k.list] \cup {k.object}).components
        /\ T.connections = Relisted(S, k.list, S[k.list] \cup {k.object}).connections
    BY <1>1, <1>2, <2>1, <2>2 DEF Relisted, Lists
  <2>4. \A o \in Object : T.attr[o] = S.attr[o]
    BY <1>1, <1>2, <2>1 DEF Relisted
  <2>5. Relisted(S, k.list, S[k.list] \cup {k.object}) \in State
    <3>1. S[k.list] \cup {k.object} \subseteq Things(k.list)
      <4>1. S[k.list] \subseteq Things(k.list)
        BY <1>1, <2>1, SoundLists
      <4> QED
        BY <2>1, <4>1
    <3> QED
      BY <1>3, <2>1, <3>1, RelistedIs
  <2> DEFINE R == Relisted(S, k.list, S[k.list] \cup {k.object})
  <2>6. R.attr = S.attr
    BY DEF Relisted
  <2> HIDE DEF R
  <2>7. T = R
    BY <1>3, <2>3, <2>4, <2>5, <2>6, StatesEqual DEF R
  <2>8. LeadsAdd(k, S, T)
    BY <2>1, <2>2, <2>7 DEF LeadsAdd, R
  <2> QED
    BY <2>8 DEF Leads
<1>5. ASSUME LeadsRemoveLink(k, s, t) PROVE Leads(k, S, T)
  <2>1. k \in RemoveLinkCommand
    BY <1>5 DEF LeadsRemoveLink
  <2>9. \A c \in s.connections : S.attr[c] = s.attr[c]
    BY <1>1, <1>3
  <2>2. CASE k.object = None /\ t = s /\ \A c \in s.connections : s.attr[c].id # k.id
    <3>1. T = S
      BY <2>2 DEF S, T
    <3>2. LeadsRemoveLink(k, S, T)
      BY <1>1, <2>1, <2>2, <2>9, <3>1 DEF LeadsRemoveLink
    <3> QED
      BY <3>2 DEF Leads
  <2>3. CASE /\ k.object \in s.connections /\ s.attr[k.object].id = k.id
             /\ t = Relisted(s, "connections", s.connections \ {k.object})
    <3>1. t.components = s.components /\ t.connections = s.connections \ {k.object}
          /\ t.attr = s.attr
      BY <2>3 DEF Relisted
    <3>2. T = Relisted(S, "connections", S.connections \ {k.object})
      BY <3>1 DEF S, T, Reset, Relisted
    <3>3. LeadsRemoveLink(k, S, T)
      BY <1>1, <2>1, <2>3, <2>9, <3>2 DEF LeadsRemoveLink
    <3> QED
      BY <3>3 DEF Leads
  <2> QED
    BY <1>5, <2>2, <2>3 DEF LeadsRemoveLink
<1>6. ASSUME LeadsRemoveComponent(k, s, t) PROVE Leads(k, S, T)
  <2>1. /\ k \in RemoveComponentCommand
        /\ k.object \in s.components /\ s.attr[k.object].id = k.id
        /\ NoRepeats(k.links) /\ ToSet(k.links) = LinksOf(s, k.id)
        /\ k.linkIds = [p \in DOMAIN k.links |-> s.attr[k.links[p]].id]
        /\ t = Bared(s, k.object, ToSet(k.links))
    BY <1>6 DEF LeadsRemoveComponent
  <2>2. /\ \A c \in s.connections : S.attr[c] = s.attr[c]
        /\ \A c \in s.components : S.attr[c] = s.attr[c]
    BY <1>1, <1>3
  <2>3. LinksOf(S, k.id) = LinksOf(s, k.id)
    BY <1>1, <2>2 DEF LinksOf
  <2>4. k.linkIds = [p \in DOMAIN k.links |-> S.attr[k.links[p]].id]
    <3>1. \A p \in DOMAIN k.links : k.links[p] \in s.connections
      BY <2>1 DEF ToSet, LinksOf
    <3>2. \A p \in DOMAIN k.links : S.attr[k.links[p]].id = s.attr[k.links[p]].id
      BY <2>2, <3>1
    <3> QED
      BY <2>1, <3>2
  <2>5. T = Bared(S, k.object, ToSet(k.links))
    <3>1. t.components = s.components \ {k.object} /\ t.connections = s.connections \ ToSet(k.links)
          /\ t.attr = s.attr
      BY <2>1 DEF Bared
    <3> QED
      BY <3>1 DEF S, T, Reset, Bared
  <2>6. LeadsRemoveComponent(k, S, T)
    BY <1>1, <2>1, <2>2, <2>3, <2>4, <2>5 DEF LeadsRemoveComponent
  <2> QED
    BY <2>6 DEF Leads
<1>7. ASSUME LeadsMove(k, s, t) PROVE Leads(k, S, T)
  <2> DEFINE M == ToSet(k.moves)
  <2>1. /\ k \in MoveCommand /\ k.moves \in Seq(OneMove)
        /\ \A p, q \in DOMAIN k.moves : k.moves[p].id = k.moves[q].id => p = q
        /\ t = Placed(s, M, "new") /\ s = Placed(t, M, "old")
    BY <1>7 DEF LeadsMove, MoveCommand
  <2>2. M \in SUBSET OneMove /\ DistinctIds(M) /\ "new" \in Which /\ "old" \in Which
    BY <2>1, MovesAsSet DEF Which
  <2> HIDE DEF M
  <2>3. ASSUME NEW x, Sound(x), NEW y, Sound(y), gone \cap ShownIn(x) = {}, gone \cap ShownIn(y) = {},
               NEW w \in Which, y = Placed(x, M, w)
        PROVE  Placed(Reset(x, gone, a), M, w) = Reset(y, gone, a)
    <3> DEFINE X == Reset(x, gone, a)
               Y == Reset(y, gone, a)
               Z == Placed(X, M, w)
    <3>0. /\ Sound(x) /\ gone \cap ShownIn(x) = {} /\ a \in Attributes
          /\ Sound(y) /\ gone \cap ShownIn(y) = {}
      BY <2>3
    <3>1. /\ Sound(X) /\ X.components = x.components /\ X.connections = x.connections
          /\ \A o \in Object : X.attr[o] = IF o \in gone THEN a ELSE x.attr[o]
      BY <3>0, ResetIs
    <3>2. /\ Sound(Y) /\ Y.components = y.components /\ Y.connections = y.connections
          /\ \A o \in Object : Y.attr[o] = IF o \in gone THEN a ELSE y.attr[o]
      BY <3>0, ResetIs
    <3> HIDE DEF X, Y
    <3>3. /\ Sound(Z) /\ Z.components = X.components /\ Z.connections = X.connections
          /\ \A o \in Object : (\A m \in M : ~Places(X, m, o)) => Z.attr[o] = X.attr[o]
          /\ \A o \in Object, m \in M :
               Places(X, m, o) => Z.attr[o] = [id |-> X.attr[o].id, at |-> m[w]]
      BY <2>2, <3>1, PlacedIs
    <3>4. /\ y.components = x.components /\ y.connections = x.connections
          /\ \A o \in Object : (\A m \in M : ~Places(x, m, o)) => y.attr[o] = x.attr[o]
          /\ \A o \in Object, m \in M :
               Places(x, m, o) => y.attr[o] = [id |-> x.attr[o].id, at |-> m[w]]
      BY <2>2, <2>3, PlacedIs
    <3> HIDE DEF Z
    <3>5. ASSUME NEW o \in Object PROVE Z.attr[o] = Y.attr[o]
      <4>1. o \in x.components => o \notin gone
        BY <2>3 DEF ShownIn
      <4>2. o \in x.components => X.attr[o] = x.attr[o]
        BY <3>1, <4>1
      <4>3. \A m \in M : Places(X, m, o) <=> Places(x, m, o)
        BY <3>1, <4>2 DEF Places
      <4>4. CASE \A m \in M : ~Places(x, m, o)
        BY <3>1, <3>2, <3>3, <3>4, <4>3, <4>4
      <4>5. CASE \E m \in M : Places(x, m, o)
        <5>1. PICK m \in M : Places(x, m, o)
          BY <4>5
        <5>2. o \in x.components
          BY <5>1 DEF Places
        <5>3. Z.attr[o] = [id |-> X.attr[o].id, at |-> m[w]]
          BY <3>3, <4>3, <5>1
        <5>4. y.attr[o] = [id |-> x.attr[o].id, at |-> m[w]]
          BY <3>4, <5>1
        <5>5. Y.attr[o] = y.attr[o]
          BY <3>2, <4>1, <5>2
        <5> QED
          BY <4>2, <5>2, <5>3, <5>4, <5>5
      <4> QED
        BY <4>4, <4>5
    <3>6. Z = Y
      BY <3>1, <3>2, <3>3, <3>4, <3>5, StatesEqual DEF Sound
    <3> QED
      BY <3>6 DEF X, Y, Z
  <2>4. Placed(S, M, "new") = T
    BY <2>1, <2>2, <2>3 DEF S, T
  <2>5. Placed(T, M, "old") = S
    BY <2>1, <2>2, <2>3 DEF S, T
  <2>6. LeadsMove(k, S, T)
    BY <2>1, <2>4, <2>5 DEF LeadsMove, M
  <2> QED
    BY <2>6 DEF Leads
<1>8. ASSUME LeadsSet(k, s, t) PROVE Leads(k, S, T)
  <2> DEFINE o == k.object
             y == k.property
  <2>1. /\ k \in SetCommand /\ o \in ShownIn(s) /\ o \in Object
        /\ t = Assign(s, o, y, k.new) /\ s = Assign(t, o, y, k.old)
    BY <1>8 DEF LeadsSet, SetCommand
  <2> HIDE DEF o, y
  <2>3. ASSUME NEW p \in State, NEW q \in State, NEW x, q = Assign(p, o, y, x), o \notin gone,
               Reset(p, gone, a) \in State
        PROVE  Reset(q, gone, a) = Assign(Reset(p, gone, a), o, y, x)
    <3> DEFINE P == Reset(p, gone, a)
               Q == Reset(q, gone, a)
               v == [p.attr[o] EXCEPT ![y] = x]
    <3>1. q = [components |-> p.components, connections |-> p.connections,
               attr |-> [p.attr EXCEPT ![o] = v]]
      BY <2>3, StateIs, AssignIs
    <3>2. P.attr[o] = p.attr[o] /\ P.components = p.components /\ P.connections = p.connections
      BY <2>1, <2>3 DEF Reset
    <3>3. P = [components |-> P.components, connections |-> P.connections, attr |-> P.attr]
      BY DEF Reset
    <3>4. Assign(P, o, y, x) = [components |-> P.components, connections |-> P.connections,
                                attr |-> [P.attr EXCEPT ![o] = [P.attr[o] EXCEPT ![y] = x]]]
      <4> HIDE DEF P
      <4> QED
        BY <3>3, AssignIs
    <3>5. [P.attr[o] EXCEPT ![y] = x] = v
      BY <3>2
    <3> HIDE DEF v
    <3>6. Q = [components |-> p.components, connections |-> p.connections,
               attr |-> [r \in Object |-> IF r \in gone THEN a ELSE [p.attr EXCEPT ![o] = v][r]]]
      BY <3>1 DEF Reset
    <3>7. [r \in Object |-> IF r \in gone THEN a ELSE [p.attr EXCEPT ![o] = v][r]]
            = [P.attr EXCEPT ![o] = v]
      BY <2>1, <2>3 DEF Reset, State
    <3> HIDE DEF P, Q
    <3>8. Q = Assign(P, o, y, x)
      BY <3>2, <3>4, <3>5, <3>6, <3>7
    <3> QED
      BY <3>8 DEF P, Q
  <2>2. o \notin gone
    BY <2>1
  <2>4. T = Assign(S, o, y, k.new)
    BY <1>3, <2>1, <2>2, <2>3 DEF S, T
  <2>5. S = Assign(T, o, y, k.old)
    BY <1>3, <2>1, <2>2, <2>3 DEF S, T
  <2>6. LeadsSet(k, S, T)
    BY <1>1, <2>1, <2>4, <2>5 DEF LeadsSet, o, y
  <2> QED
    BY <2>6 DEF Leads
<1>9. Leads(k, S, T)
  BY <1>4, <1>5, <1>6, <1>7, <1>8 DEF Leads
<1> QED
  BY <1>9 DEF S, T

-----------------------------------------------------------------------------
(* Tales: how the commands of a stack made its graph. *)

\* The commands that the stack can hold,
Command ==
  AddCommand \cup RemoveLinkCommand \cup RemoveComponentCommand \cup MoveCommand \cup SetCommand

\* and the graph with its stack and the objects that exist.
Editor ==
  [doc : Document, commands : Seq(Command), index : Nat, alive : SUBSET Object]

\* The index is within the stack, and new objects that no list shows yet exist.
Shape(e, new) ==
  /\ e \in Editor
  /\ e.index <= Len(e.commands)
  /\ new \subseteq e.alive

\* The commands of the stack lead through the states of h, and the graph shows
\* the one at the index: done below it, undone above it.
Path(e, h) ==
  /\ h \in [0 .. Len(e.commands) -> State]
  /\ \A n \in 0 .. Len(e.commands) : Sound(h[n])
  /\ Shows(e.doc, h[e.index])
  /\ \A p \in 1 .. Len(e.commands) : Leads(e.commands[p], h[p - 1], h[p])
  /\ \A p \in 1 .. Len(e.commands) :
       IF p <= e.index THEN Done(e.commands[p]) ELSE Undone(e.commands[p])

\* Every object that exists is shown at some point of h, none that was deleted
\* is, and one that is added was never shown before.
Lives(alive, len, h, new) ==
  /\ \A n \in 0 .. len : ShownIn(h[n]) \subseteq alive \ new
  /\ \A p \in 1 .. len : \A o \in ShownIn(h[p]) \ ShownIn(h[p - 1]) :
       \A n \in 0 .. p - 1 : o \notin ShownIn(h[n])
  /\ \A o \in alive \ new : \E n \in 0 .. len : o \in ShownIn(h[n])

\* The tale h tells how the commands of the stack made the graph, or will.
Told(e, h, new) ==
  Shape(e, new) /\ Path(e, h) /\ Lives(e.alive, Len(e.commands), h, new)

\* In a tale every command explains its own step.
LEMMA CommandsExplain ==
  ASSUME NEW e, NEW h, NEW new, Told(e, h, new), NEW p \in 1 .. Len(e.commands)
  PROVE  Explains(e.commands[p], h[p - 1], h[p])
<1>1. Len(e.commands) \in Nat
  BY DEF Told, Shape, Editor
<1>2. p \in 0 .. Len(e.commands) /\ p - 1 \in 0 .. Len(e.commands)
  BY <1>1
<1>3. Sound(h[p - 1]) /\ Sound(h[p]) /\ Leads(e.commands[p], h[p - 1], h[p])
  BY <1>2 DEF Told, Path
<1> QED
  BY <1>3, LeadsExplains

\* What holds at one end and not at the other changes somewhere in between.
LEMMA ChangesBetween ==
  ASSUME NEW a \in Nat, NEW b \in Nat, a <= b, NEW T, a \in T, b \notin T
  PROVE  \E p \in a + 1 .. b : p - 1 \in T /\ p \notin T
<1> SUFFICES ASSUME \A p \in a + 1 .. b : p - 1 \in T => p \in T
             PROVE  FALSE
  OBVIOUS
<1> DEFINE n == b - a
           U == {i \in 0 .. n : a + i \in T}
<1>1. n \in Nat
  BY DEF n
<1>2. 0 \in U
  BY <1>1
<1>3. ASSUME NEW i \in 1 .. n, i - 1 \in U PROVE i \in U
  <2>1. a + i \in a + 1 .. b /\ (a + i) - 1 = a + (i - 1)
    BY <1>1
  <2> QED
    BY <1>3, <2>1
<1>4. n \in U
  <2> HIDE DEF U, n
  <2> QED
    BY <1>1, <1>2, <1>3, NumbersUpTo
<1> QED
  BY <1>4

\* The p-th command adds the object o.
Adds(e, h, p, o) ==
  /\ p \in 1 .. Len(e.commands)
  /\ e.commands[p].kind = "Add" /\ e.commands[p].object = o
  /\ o \in ShownIn(h[p]) \ ShownIn(h[p - 1])

\* The p-th command takes the object o away.
Removes(e, p, o) ==
  /\ p \in 1 .. Len(e.commands)
  /\ e.commands[p].kind \in Removal /\ o \in PointsTo(e.commands[p])

\* An object that comes to be shown was added,
LEMMA Appears ==
  ASSUME NEW e, NEW h, NEW new, Told(e, h, new), NEW a \in 0 .. Len(e.commands),
         NEW b \in 0 .. Len(e.commands), a <= b, NEW o, o \notin ShownIn(h[a]), o \in ShownIn(h[b])
  PROVE  \E p \in a + 1 .. b : Adds(e, h, p, o)
<1> DEFINE T == {n \in 0 .. Len(e.commands) : o \notin ShownIn(h[n])}
<1>1. Len(e.commands) \in Nat
  BY DEF Told, Shape, Editor
<1>2. a \in Nat /\ b \in Nat /\ a \in T /\ b \notin T
  BY <1>1
<1>3. PICK p \in a + 1 .. b : p - 1 \in T /\ p \notin T
  <2> HIDE DEF T
  <2> QED
    BY <1>2, ChangesBetween
<1>4. p \in 1 .. Len(e.commands) /\ p \in 0 .. Len(e.commands)
  BY <1>1, <1>2
<1>5. o \in ShownIn(h[p]) \ ShownIn(h[p - 1])
  BY <1>3, <1>4
<1>6. Explains(e.commands[p], h[p - 1], h[p])
  BY <1>4, CommandsExplain
<1> QED
  BY <1>4, <1>5, <1>6 DEF Explains, Adds

\* and one that is no longer shown was removed.
LEMMA Disappears ==
  ASSUME NEW e, NEW h, NEW new, Told(e, h, new), NEW a \in 0 .. Len(e.commands),
         NEW b \in 0 .. Len(e.commands), a <= b, NEW o, o \in ShownIn(h[a]), o \notin ShownIn(h[b])
  PROVE  \E p \in a + 1 .. b : Removes(e, p, o)
<1> DEFINE T == {n \in 0 .. Len(e.commands) : o \in ShownIn(h[n])}
<1>1. Len(e.commands) \in Nat
  BY DEF Told, Shape, Editor
<1>2. a \in Nat /\ b \in Nat /\ a \in T /\ b \notin T
  BY <1>1
<1>3. PICK p \in a + 1 .. b : p - 1 \in T /\ p \notin T
  <2> HIDE DEF T
  <2> QED
    BY <1>2, ChangesBetween
<1>4. p \in 1 .. Len(e.commands) /\ p \in 0 .. Len(e.commands)
  BY <1>1, <1>2
<1>5. o \in ShownIn(h[p - 1]) \ ShownIn(h[p])
  BY <1>3, <1>4
<1>6. Explains(e.commands[p], h[p - 1], h[p])
  BY <1>4, CommandsExplain
<1> QED
  BY <1>4, <1>5, <1>6 DEF Explains, Removes

\* A command owns what it has added and undone, or removed.
LEMMA OwnsWhat ==
  ASSUME NEW e, NEW h, NEW new, Told(e, h, new), NEW p \in 1 .. Len(e.commands),
         NEW o \in Owned(e.commands[p])
  PROVE  \/ /\ p > e.index /\ e.commands[p].kind = "Add" /\ o = e.commands[p].object
            /\ o \in ShownIn(h[p]) \ ShownIn(h[p - 1])
         \/ /\ p <= e.index /\ o \in ShownIn(h[p - 1]) \ ShownIn(h[p])
<1> DEFINE k == e.commands[p]
<1>1. Explains(k, h[p - 1], h[p])
  BY CommandsExplain
<1>2. IF p <= e.index THEN Done(k) ELSE Undone(k)
  BY DEF Told, Path
<1>3. e.index \in Nat /\ p \in Nat
  BY DEF Told, Shape, Editor
<1> HIDE DEF k
<1>4. k.kind \in {"Add", "RemoveLink", "RemoveComponent"} /\ k.owned /\ o \in PointsTo(k)
  BY DEF Owned, k
<1>5. CASE k.kind = "Add"
  <2>1. ~(p <= e.index)
    BY <1>2, <1>4, <1>5 DEF Done
  <2>2. p > e.index
    BY <1>3, <2>1
  <2> QED
    BY <1>1, <1>4, <1>5, <2>2 DEF Explains, k
<1>6. CASE k.kind \in Removal
  <2>1. k.object # None /\ o \in ShownIn(h[p - 1]) \ ShownIn(h[p])
    BY <1>1, <1>4, <1>6 DEF Explains
  <2>2. p <= e.index
    BY <1>2, <1>4, <1>6, <2>1 DEF Undone, Removal
  <2> QED
    BY <2>1, <2>2
<1> QED
  BY <1>4, <1>5, <1>6 DEF Removal

\* An undone addition owns its object,
LEMMA OwnsAdded ==
  ASSUME NEW e, NEW h, NEW new, Told(e, h, new), NEW p \in 1 .. Len(e.commands),
         e.commands[p].kind = "Add", p > e.index
  PROVE  e.commands[p].object \in Owned(e.commands[p])
<1> DEFINE k == e.commands[p]
<1>1. Explains(k, h[p - 1], h[p])
  BY CommandsExplain
<1>3. e.index \in Nat /\ p \in Nat
  BY DEF Told, Shape, Editor
<1>2. Undone(k)
  <2>1. ~(p <= e.index)
    BY <1>3
  <2> QED
    BY <2>1 DEF Told, Path
<1> HIDE DEF k
<1>4. k.kind = "Add"
  BY DEF k
<1>5. k.object \in Owned(k)
  BY <1>1, <1>2, <1>4 DEF Owned, Undone, Explains
<1> QED
  BY <1>5 DEF k

\* and a removal that is done owns what it has taken.
LEMMA OwnsRemoved ==
  ASSUME NEW e, NEW h, NEW new, Told(e, h, new), NEW p \in 1 .. Len(e.commands),
         e.commands[p].kind \in Removal, p <= e.index, NEW o \in PointsTo(e.commands[p])
  PROVE  o \in Owned(e.commands[p])
<1> DEFINE k == e.commands[p]
<1>1. Explains(k, h[p - 1], h[p])
  BY CommandsExplain
<1>2. Done(k)
  BY DEF Told, Path
<1> HIDE DEF k
<1>4. k.kind \in Removal /\ o \in PointsTo(k)
  BY DEF k
<1>5. k.object # None
  BY <1>1, <1>4 DEF Explains
<1>6. o \in Owned(k)
  BY <1>2, <1>4, <1>5 DEF Owned, Done, Removal
<1> QED
  BY <1>6 DEF k

\* What was not shown at some point before is never shown again.
LEMMA NoReturn ==
  ASSUME NEW e, NEW h, NEW new, Told(e, h, new), NEW o,
         NEW a \in 0 .. Len(e.commands), NEW b \in 0 .. Len(e.commands),
         NEW c \in 0 .. Len(e.commands), a < b, b < c, o \in ShownIn(h[a]), o \notin ShownIn(h[b])
  PROVE  o \notin ShownIn(h[c])
<1> SUFFICES ASSUME o \in ShownIn(h[c]) PROVE FALSE
  OBVIOUS
<1>1. Len(e.commands) \in Nat
  BY DEF Told, Shape, Editor
<1>2. b <= c
  BY <1>1
<1>6. PICK p \in b + 1 .. c : Adds(e, h, p, o)
  BY <1>2, Appears
<1>3. p \in b + 1 .. c /\ p \in 1 .. Len(e.commands) /\ o \in ShownIn(h[p]) \ ShownIn(h[p - 1])
  BY <1>6 DEF Adds
<1>4. a \in 0 .. p - 1
  BY <1>1, <1>3
<1>5. o \notin ShownIn(h[a])
  BY <1>3, <1>4 DEF Told, Lives
<1> QED
  BY <1>5

\* Whatever is alive and not shown has exactly one owner, and what is shown has none.
LEMMA OwnersAre ==
  ASSUME NEW e, NEW h, Told(e, h, {}), NEW o \in e.alive
  PROVE  LET owners == {p \in DOMAIN e.commands : o \in Owned(e.commands[p])}
         IN  IF o \in Shown(e.doc) THEN owners = {} ELSE \E p : owners = {p}
<1> DEFINE owners == {p \in DOMAIN e.commands : o \in Owned(e.commands[p])}
           N == Len(e.commands)
           i == e.index
<1>1. /\ N \in Nat /\ i \in Nat /\ i <= N /\ DOMAIN e.commands = 1 .. N
  BY DEF Told, Shape, Editor
<1>2. Shown(e.doc) = ShownIn(h[i])
  BY ShowsLists DEF Told, Path, Lists
<1>3. PICK n \in 0 .. N : o \in ShownIn(h[n])
  BY DEF Told, Lives
<1>4. ASSUME NEW p \in owners
      PROVE  /\ p \in 1 .. N /\ o \notin ShownIn(h[i])
             /\ p > i => o \in ShownIn(h[p]) \ ShownIn(h[p - 1])
             /\ p <= i => o \in ShownIn(h[p - 1]) \ ShownIn(h[p])
  <2>1. p \in 1 .. N /\ o \in Owned(e.commands[p])
    BY <1>1
  <2>2. CASE p > i /\ o \in ShownIn(h[p]) \ ShownIn(h[p - 1])
    <3>1. i \in 0 .. p - 1 /\ ~(p <= i)
      BY <1>1, <2>1, <2>2
    <3>2. o \notin ShownIn(h[i])
      BY <2>1, <2>2, <3>1 DEF Told, Lives
    <3> QED
      BY <2>1, <2>2, <3>1, <3>2
  <2>3. CASE p <= i /\ o \in ShownIn(h[p - 1]) \ ShownIn(h[p])
    <3>1. /\ p - 1 \in 0 .. N /\ p \in 0 .. N /\ i \in 0 .. N
          /\ p - 1 < p /\ (p < i \/ p = i) /\ ~(p > i)
      BY <1>1, <2>1, <2>3
    <3>2. o \notin ShownIn(h[i])
      BY <2>3, <3>1, NoReturn
    <3> QED
      BY <2>1, <2>3, <3>1, <3>2
  <2> QED
    BY <2>1, <2>2, <2>3, OwnsWhat
<1>5. CASE o \in ShownIn(h[i])
  <2>1. owners = {}
    BY <1>4, <1>5
  <2> QED
    BY <1>2, <1>5, <2>1
<1>6. CASE o \notin ShownIn(h[i])
  <2>1. \E p : p \in owners
    <3>0. i \in 0 .. N /\ (n <= i \/ i <= n)
      BY <1>1
    <3>1. CASE n <= i
      <4>1. PICK p \in n + 1 .. i : Removes(e, p, o)
        BY <1>3, <1>6, <3>0, <3>1, Disappears
      <4>2. p <= i /\ p \in 1 .. N
        BY <1>1, <4>1 DEF Removes
      <4>3. o \in Owned(e.commands[p])
        BY <4>1, <4>2, OwnsRemoved DEF Removes
      <4> QED
        BY <1>1, <4>2, <4>3
    <3>2. CASE i <= n
      <4>1. PICK p \in i + 1 .. n : Adds(e, h, p, o)
        BY <1>3, <1>6, <3>0, <3>2, Appears
      <4>2. p > i /\ p \in 1 .. N
        BY <1>1, <1>3, <4>1 DEF Adds
      <4>3. o \in Owned(e.commands[p])
        BY <4>1, <4>2, OwnsAdded DEF Adds
      <4> QED
        BY <1>1, <4>2, <4>3
    <3> QED
      BY <3>0, <3>1, <3>2
  <2>2. ASSUME NEW p \in owners, NEW q \in owners, p < q PROVE FALSE
    <3>1. p \in 1 .. N /\ q \in 1 .. N /\ p \in 0 .. q - 1 /\ (p > i \/ p <= i) /\ (q > i \/ q <= i)
      BY <1>1, <1>4, <2>2
    <3>2. CASE q > i
      <4>1. o \in ShownIn(h[q]) \ ShownIn(h[q - 1])
        BY <1>4, <3>2
      <4>2. p - 1 \in 0 .. q - 1 /\ p \in 0 .. q - 1
        BY <1>1, <3>1
      <4>3. o \notin ShownIn(h[p]) /\ o \notin ShownIn(h[p - 1])
        BY <3>1, <4>1, <4>2 DEF Told, Lives
      <4> QED
        BY <1>4, <3>1, <4>3
    <3>3. CASE q <= i
      <4>1. p <= i
        BY <1>1, <2>2, <3>1, <3>3
      <4>2. o \in ShownIn(h[p - 1]) /\ o \notin ShownIn(h[p]) /\ o \in ShownIn(h[q - 1])
        BY <1>4, <3>3, <4>1
      <4>3. /\ p - 1 \in 0 .. N /\ p \in 0 .. N /\ q - 1 \in 0 .. N /\ p - 1 < p
            /\ (p < q - 1 \/ p = q - 1)
        BY <1>1, <2>2, <3>1
      <4> QED
        BY <4>2, <4>3, NoReturn
    <3> QED
      BY <3>1, <3>2, <3>3
  <2>3. \A p, q \in owners : p = q
    <3>1. \A p \in owners : p \in Nat
      BY <1>1, <1>4
    <3> HIDE DEF owners
    <3> QED
      BY <2>2, <3>1
  <2>4. \E p : owners = {p}
    <3> HIDE DEF owners
    <3>1. PICK p : p \in owners
      BY <2>1
    <3>2. owners = {p}
      BY <2>3, <3>1
    <3> QED
      BY <3>2
  <2> QED
    BY <1>2, <1>6, <2>4
<1> QED
  BY <1>5, <1>6

-----------------------------------------------------------------------------
(* Discarding what can be redone. *)

\* An editor, by its fields.
Edited(d, c, i, a) == [doc |-> d, commands |-> c, index |-> i, alive |-> a]

\* A document, by its fields.
Doc(x, y, z) == [components |-> x, connections |-> y, attr |-> z]

\* The attributes z, with those of deleted objects gone.
Blanked(z, gone) == [o \in Object |-> IF o \in gone THEN Blank ELSE z[o]]

\* An editor is its fields, and what they are.
LEMMA EditorIs ==
  ASSUME NEW e \in Editor
  PROVE  /\ e = Edited(Doc(e.doc.components, e.doc.connections, e.doc.attr),
                       e.commands, e.index, e.alive)
         /\ e = Edited(e.doc, e.commands, e.index, e.alive)
         /\ e.doc \in Document /\ e.commands \in Seq(Command)
         /\ Len(e.commands) \in Nat /\ DOMAIN e.commands = 1 .. Len(e.commands)
         /\ e.index \in Nat
BY DEF Editor, Edited, Doc, Document

\* The commands c, once they have lost their pointers to deleted objects.
Forgotten(c, gone) == [p \in DOMAIN c |-> Forgetting(c[p], gone)]

\* Deleting objects, field by field.
LEMMA DestroyIs ==
  ASSUME NEW x, NEW y, NEW z, NEW c, NEW i, NEW a, NEW gone, NEW e,
         e = Edited(Doc(x, y, z), c, i, a)
  PROVE  Destroy(e, gone) =
           Edited(Doc(x, y, Blanked(z, gone)), Forgotten(c, gone), i, a \ gone)
<1> DEFINE b == Blanked(z, gone)
           f == Forgotten(c, gone)
           r == a \ gone
           e1 == [e EXCEPT !.alive = r]
           e2 == [e1 EXCEPT !.doc.attr = b]
           e3 == [e2 EXCEPT !.commands = f]
<1>1. Destroy(e, gone) = e3
  <2>1. e.alive = a /\ e.commands = c /\ e.doc.attr = z
    BY DEF Edited, Doc
  <2> QED
    BY <2>1 DEF Destroy, Blanked, Forgotten
<1> HIDE DEF b, f, r
<1>2. e1 = Edited(Doc(x, y, z), c, i, r)
  BY DEF Edited
<1> HIDE DEF e1
<1>3. [Doc(x, y, z) EXCEPT !.attr = b] = Doc(x, y, b)
  BY DEF Doc
<1>4. e2 = Edited([Doc(x, y, z) EXCEPT !.attr = b], c, i, r)
  BY <1>2 DEF Edited
<1> HIDE DEF e2
<1>5. e2 = Edited(Doc(x, y, b), c, i, r)
  BY <1>3, <1>4
<1>6. e3 = Edited(Doc(x, y, b), f, i, r)
  BY <1>5 DEF Edited
<1> QED
  BY <1>1, <1>6 DEF b, f, r

\* The objects that are deleted with the commands after the n-th.
Gone(c, n) == UNION {Owned(c[p]) : p \in n + 1 .. Len(c)}

\* Cutting the stack after the n-th command, field by field.
LEMMA TruncateIs ==
  ASSUME NEW x, NEW y, NEW z, NEW c, NEW i, NEW a, NEW n, NEW e,
         e = Edited(Doc(x, y, z), c, i, a)
  PROVE  Truncate(e, n) =
           Edited(Doc(x, y, Blanked(z, Gone(c, n))), Forgotten(SubSeq(c, 1, n), Gone(c, n)),
                  i, a \ Gone(c, n))
<1> DEFINE s == SubSeq(c, 1, n)
           f == [e EXCEPT !.commands = s]
           gone == UNION {Owned(e.commands[p]) : p \in n + 1 .. Len(e.commands)}
<1>2. e.commands = c
  BY DEF Edited
<1>1. Truncate(e, n) = Destroy(f, gone)
  BY <1>2 DEF Truncate
<1>3. gone = Gone(c, n)
  BY <1>2 DEF Gone
<1> HIDE DEF gone, s
<1>4. f = Edited(Doc(x, y, z), s, i, a)
  BY DEF Edited
<1> HIDE DEF f
<1>5. Destroy(f, gone) = Edited(Doc(x, y, Blanked(z, gone)), Forgotten(s, gone), i, a \ gone)
  BY <1>4, DestroyIs
<1> QED
  BY <1>1, <1>3, <1>5 DEF s

\* The tale of the first n commands, once other objects are deleted.
Tale(h, n, gone, a) == [j \in 0 .. n |-> Reset(h[j], gone, a)]

\* Such a tale tells of the same graphs.
LEMMA TaleIs ==
  ASSUME NEW h, NEW n \in Nat, NEW gone, NEW a \in Attributes,
         \A j \in 0 .. n : Sound(h[j]) /\ gone \cap ShownIn(h[j]) = {}
  PROVE  /\ Tale(h, n, gone, a) \in [0 .. n -> State]
         /\ \A j \in 0 .. n : /\ Tale(h, n, gone, a)[j] = Reset(h[j], gone, a)
                              /\ Sound(Tale(h, n, gone, a)[j])
                              /\ ShownIn(Tale(h, n, gone, a)[j]) = ShownIn(h[j])
                              /\ Picture(Tale(h, n, gone, a)[j]) = Picture(h[j])
<1>1. \A j \in 0 .. n : /\ Sound(Reset(h[j], gone, a))
                        /\ ShownIn(Reset(h[j], gone, a)) = ShownIn(h[j])
                        /\ Picture(Reset(h[j], gone, a)) = Picture(h[j])
  BY ResetIs
<1>2. \A j \in 0 .. n : Tale(h, n, gone, a)[j] = Reset(h[j], gone, a)
  BY DEF Tale
<1>3. \A j \in 0 .. n : Reset(h[j], gone, a) \in State
  BY <1>1 DEF Sound
<1>4. Tale(h, n, gone, a) \in [0 .. n -> State]
  BY <1>3 DEF Tale
<1> QED
  BY <1>1, <1>2, <1>4

\* The attributes of a deleted object are attributes.
LEMMA BlankIsAttributes == Blank \in Attributes
BY DEF Attributes

\* What is deleted with the commands that can be redone is shown nowhere before them.
LEMMA GoneIsUnseen ==
  ASSUME NEW e, NEW h, NEW new, Told(e, h, new)
  PROVE  /\ Gone(e.commands, e.index) \cap new = {}
         /\ \A n \in 0 .. e.index : Gone(e.commands, e.index) \cap ShownIn(h[n]) = {}
         /\ \A o \in e.alive \ new :
              o \notin Gone(e.commands, e.index) => \E n \in 0 .. e.index : o \in ShownIn(h[n])
<1> DEFINE N == Len(e.commands)
           i == e.index
           gone == Gone(e.commands, i)
<1>1. N \in Nat /\ i \in Nat /\ i <= N
  BY DEF Told, Shape, Editor
<1>2. ASSUME NEW o \in gone
      PROVE  \E p \in i + 1 .. N : o \in ShownIn(h[p]) \ ShownIn(h[p - 1])
  <2>1. PICK p \in i + 1 .. N : o \in Owned(e.commands[p])
    BY DEF Gone
  <2>2. p \in 1 .. N /\ ~(p <= i)
    BY <1>1, <2>1
  <2> QED
    BY <2>1, <2>2, OwnsWhat
<1>3. ASSUME NEW o \in gone PROVE o \notin new /\ \A n \in 0 .. i : o \notin ShownIn(h[n])
  <2>1. PICK p \in i + 1 .. N : o \in ShownIn(h[p]) \ ShownIn(h[p - 1])
    BY <1>2
  <2>2. p \in 1 .. N /\ p \in 0 .. N /\ 0 .. i \subseteq 0 .. p - 1
    BY <1>1, <2>1
  <2> QED
    BY <2>1, <2>2 DEF Told, Lives
<1>4. ASSUME NEW o \in e.alive \ new, o \notin gone PROVE \E n \in 0 .. i : o \in ShownIn(h[n])
  <2> SUFFICES ASSUME \A n \in 0 .. i : o \notin ShownIn(h[n]) PROVE FALSE
    OBVIOUS
  <2>1. PICK n \in 0 .. N : o \in ShownIn(h[n])
    BY DEF Told, Lives
  <2>2. i \in 0 .. N /\ i <= n /\ i \in 0 .. i
    BY <1>1, <2>1
  <2>3. o \notin ShownIn(h[i])
    BY <2>2
  <2>4. PICK p \in i + 1 .. n : Adds(e, h, p, o)
    BY <2>1, <2>2, <2>3, Appears
  <2>5. p \in 1 .. N /\ p > i /\ p \in i + 1 .. N
    BY <1>1, <2>1, <2>4 DEF Adds
  <2>6. o \in Owned(e.commands[p])
    BY <2>4, <2>5, OwnsAdded DEF Adds
  <2>7. o \in gone
    BY <2>5, <2>6 DEF Gone
  <2> QED
    BY <1>4, <2>7
<1> QED
  BY <1>3, <1>4

\* Discarding the history that can be redone.
LEMMA DiscardTold ==
  ASSUME NEW e, NEW h, NEW new, Told(e, h, new)
  PROVE  /\ Told(DiscardRedoHistory(e),
                 Tale(h, e.index, Gone(e.commands, e.index), Blank), new)
         /\ DiscardRedoHistory(e).index = e.index
         /\ Len(DiscardRedoHistory(e).commands) = e.index
<1> DEFINE N == Len(e.commands)
           i == e.index
           gone == Gone(e.commands, i)
           cut == DiscardRedoHistory(e)
           g == Tale(h, i, gone, Blank)
           s == SubSeq(e.commands, 1, i)
<1>1. /\ N \in Nat /\ i \in Nat /\ i <= N /\ e \in Editor /\ e.commands \in Seq(Command)
      /\ DOMAIN e.commands = 1 .. N /\ e.doc \in Document
      /\ e.alive \subseteq Object /\ new \subseteq e.alive
  BY DEF Told, Shape, Editor
<1>2. /\ gone \cap new = {}
      /\ \A n \in 0 .. i : gone \cap ShownIn(h[n]) = {}
      /\ \A o \in e.alive \ new : o \notin gone => \E n \in 0 .. i : o \in ShownIn(h[n])
  BY GoneIsUnseen
<1>3. cut = Edited(Doc(e.doc.components, e.doc.connections, Blanked(e.doc.attr, gone)),
                   Forgotten(s, gone), i, e.alive \ gone)
  <2>1. e = Edited(Doc(e.doc.components, e.doc.connections, e.doc.attr), e.commands, i, e.alive)
    BY <1>1, EditorIs
  <2>2. cut = Truncate(e, i)
    BY DEF DiscardRedoHistory
  <2> HIDE DEF cut
  <2> QED
    BY <2>1, <2>2, TruncateIs
<1>4. /\ s \in Seq(Command) /\ Len(s) = i /\ DOMAIN s = 1 .. i
      /\ \A p \in 1 .. i : s[p] = e.commands[p] /\ p \in 1 .. N /\ p - 1 \in 0 .. i /\ p \in 0 .. i
  BY <1>1
<1>5. ASSUME NEW p \in 1 .. i PROVE Forgetting(s[p], gone) = s[p]
  <2>1. Explains(e.commands[p], h[p - 1], h[p])
    BY <1>4, CommandsExplain
  <2>2. s[p].kind = "Set" => s[p].object \in ShownIn(h[p - 1])
    BY <1>4, <2>1 DEF Explains
  <2> QED
    BY <1>2, <1>4, <2>2 DEF Forgetting
<1>6. Forgotten(s, gone) = s
  <2> HIDE DEF s, gone
  <2>1. [p \in DOMAIN s |-> Forgetting(s[p], gone)] = [p \in DOMAIN s |-> s[p]]
    BY <1>4, <1>5
  <2>2. s = [p \in DOMAIN s |-> s[p]]
    BY <1>4
  <2> QED
    BY <2>1, <2>2 DEF Forgotten
<1> HIDE DEF s, gone, cut, g
<1>7. /\ cut.doc = Doc(e.doc.components, e.doc.connections, Blanked(e.doc.attr, gone))
      /\ cut.commands = s /\ cut.index = i /\ cut.alive = e.alive \ gone
  BY <1>3, <1>6 DEF Edited
<1>8. /\ g \in [0 .. i -> State]
      /\ \A j \in 0 .. i : /\ g[j] = Reset(h[j], gone, Blank) /\ Sound(g[j])
                           /\ ShownIn(g[j]) = ShownIn(h[j]) /\ Sound(h[j])
  <2>1. 0 .. i \subseteq 0 .. N
    BY <1>1
  <2>2. \A j \in 0 .. i : Sound(h[j])
    BY <2>1 DEF Told, Path
  <2> QED
    BY <1>1, <1>2, <2>2, BlankIsAttributes, TaleIs DEF g
<1>9. Shows(cut.doc, g[i])
  <2>1. i \in 0 .. i
    BY <1>1
  <2>2. Shows(e.doc, h[i])
    BY DEF Told, Path
  <2> DEFINE d == e.doc
             r == cut.doc
  <2>3. r = [components |-> d.components, connections |-> d.connections,
             attr |-> [o \in Object |-> IF o \in gone THEN Blank ELSE d.attr[o]]]
    BY <1>7 DEF Doc, Blanked
  <2> HIDE DEF d, r
  <2>4. Shows(d, h[i])
    BY <2>2 DEF d
  <2>5. Shows(r, Reset(h[i], gone, Blank))
    BY <2>3, <2>4, BlankIsAttributes, ResetShows
  <2> QED
    BY <1>8, <2>1, <2>5 DEF r
<1>10. Shape(cut, new)
  <2>1. cut.doc \in Document
    BY <1>9 DEF Shows
  <2>2. cut \in Editor
    BY <1>1, <1>3, <1>4, <1>6, <1>7, <2>1 DEF Editor, Edited
  <2> QED
    BY <1>1, <1>2, <1>4, <1>7, <2>2 DEF Shape
<1>11. Path(cut, g)
  <2>1. ASSUME NEW p \in 1 .. i
        PROVE  Leads(s[p], g[p - 1], g[p]) /\ Done(s[p])
    <3>1. Leads(e.commands[p], h[p - 1], h[p]) /\ Done(e.commands[p])
      BY <1>1, <1>4 DEF Told, Path
    <3>2. /\ Sound(h[p - 1]) /\ Sound(h[p])
          /\ gone \cap ShownIn(h[p - 1]) = {} /\ gone \cap ShownIn(h[p]) = {}
      BY <1>2, <1>4, <1>8
    <3>3. Leads(e.commands[p], Reset(h[p - 1], gone, Blank), Reset(h[p], gone, Blank))
      BY <3>1, <3>2, BlankIsAttributes, LeadsElsewhere
    <3> QED
      BY <1>4, <1>8, <3>1, <3>3
  <2> QED
    BY <1>1, <1>4, <1>7, <1>8, <1>9, <2>1 DEF Path
<1>12. Lives(cut.alive, Len(cut.commands), g, new)
  <2>1. ASSUME NEW n \in 0 .. i PROVE ShownIn(g[n]) \subseteq cut.alive \ new
    <3>1. n \in 0 .. N
      BY <1>1
    <3>2. ShownIn(h[n]) \subseteq e.alive \ new
      BY <3>1 DEF Told, Lives
    <3> QED
      BY <1>2, <1>7, <1>8, <3>2
  <2>2. ASSUME NEW p \in 1 .. i, NEW o \in ShownIn(g[p]) \ ShownIn(g[p - 1]), NEW n \in 0 .. p - 1
        PROVE  o \notin ShownIn(g[n])
    <3>1. n \in 0 .. i
      BY <1>1
    <3>2. o \notin ShownIn(h[n])
      BY <1>4, <1>8 DEF Told, Lives
    <3> QED
      BY <1>8, <3>1, <3>2
  <2>3. ASSUME NEW o \in cut.alive \ new PROVE \E n \in 0 .. i : o \in ShownIn(g[n])
    BY <1>2, <1>7, <1>8
  <2> QED
    BY <1>4, <1>7, <2>1, <2>2, <2>3 DEF Lives
<1>13. Told(cut, g, new)
  BY <1>10, <1>11, <1>12 DEF Told
<1> QED
  BY <1>4, <1>7, <1>13 DEF cut, g, gone

-----------------------------------------------------------------------------
(* Undoing and redoing. *)

\* A command is one of the five kinds, and its length counts.
LEMMA LeadsCommand ==
  ASSUME NEW k, NEW s, NEW t, Leads(k, s, t)
  PROVE  k \in Command
BY DEF Leads, LeadsAdd, LeadsRemoveLink, LeadsRemoveComponent, LeadsMove, LeadsSet, Command

\* Running a command of the stack, either way, keeps the tale.
LEMMA Rerun ==
  ASSUME NEW e, NEW h, NEW new, Told(e, h, new), NEW q \in 1 .. Len(e.commands),
         NEW k, Leads(k, h[q - 1], h[q]), NEW d, NEW j,
         \/ j = q /\ e.index = q - 1 /\ Done(k)
         \/ j = q - 1 /\ e.index = q /\ Undone(k),
         Shows(d, h[j]), NEW c, c = [e.commands EXCEPT ![q] = k]
  PROVE  Told(Edited(d, c, j, e.alive), h, new)
<1> DEFINE N == Len(e.commands)
           r == Edited(d, c, j, e.alive)
<1>1. /\ N \in Nat /\ e.index \in Nat /\ e.index <= N /\ e \in Editor
      /\ e.commands \in Seq(Command) /\ DOMAIN e.commands = 1 .. N
      /\ e.alive \subseteq Object /\ new \subseteq e.alive
  BY DEF Told, Shape, Editor
<1>2. k \in Command
  BY LeadsCommand
<1>3. /\ c \in Seq(Command) /\ Len(c) = N /\ c[q] = k
      /\ \A p \in 1 .. N : p # q => c[p] = e.commands[p]
  BY <1>1, <1>2
<1>4. r.doc = d /\ r.commands = c /\ r.index = j /\ r.alive = e.alive
  BY DEF Edited
<1>5. d \in Document
  BY DEF Shows
<1>6. j \in Nat /\ j <= N
  BY <1>1
<1>7. r \in Editor
  BY <1>1, <1>3, <1>5, <1>6 DEF Editor, Edited
<1> HIDE DEF r
<1>8. Shape(r, new)
  BY <1>1, <1>3, <1>4, <1>6, <1>7 DEF Shape
<1>9. \A p \in 1 .. N : Leads(c[p], h[p - 1], h[p])
  BY <1>3 DEF Told, Path
<1>10. ASSUME NEW p \in 1 .. N PROVE IF p <= j THEN Done(c[p]) ELSE Undone(c[p])
  <2>1. CASE p = q
    <3>1. CASE j = q /\ Done(k)
      BY <1>3, <2>1, <3>1
    <3>2. CASE j = q - 1 /\ Undone(k)
      <4>1. ~(p <= j)
        BY <2>1, <3>2
      <4> QED
        BY <1>3, <2>1, <3>2, <4>1
    <3> QED
      BY <3>1, <3>2
  <2>2. CASE p # q
    <3>1. p <= j <=> p <= e.index
      BY <1>1, <2>2
    <3>2. IF p <= e.index THEN Done(e.commands[p]) ELSE Undone(e.commands[p])
      BY DEF Told, Path
    <3> QED
      BY <1>3, <2>2, <3>1, <3>2
  <2> QED
    BY <2>1, <2>2
<1>11. Path(r, h)
  BY <1>3, <1>4, <1>9, <1>10 DEF Told, Path
<1>12. Lives(r.alive, Len(r.commands), h, new)
  BY <1>3, <1>4 DEF Told
<1> QED
  BY <1>8, <1>11, <1>12 DEF Told, r

\* Undoing goes one state back in the tale,
LEMMA UndoTold ==
  ASSUME NEW e, NEW h, NEW new, Told(e, h, new), e.index > 0
  PROVE  /\ Told(UndoTop(e), h, new)
         /\ UndoTop(e).index = e.index - 1
         /\ Len(UndoTop(e).commands) = Len(e.commands)
<1> DEFINE q == e.index
           k == e.commands[q]
           run == Undo(k, e.doc)
           c == [e.commands EXCEPT ![q] = run.command]
           r == Edited(run.doc, c, q - 1, e.alive)
<1>1. /\ q \in 1 .. Len(e.commands) /\ q - 1 \in 0 .. Len(e.commands) /\ q \in 0 .. Len(e.commands)
      /\ Len(c) = Len(e.commands) /\ e \in Editor
  BY DEF Told, Shape, Editor
<1>2. Sound(h[q - 1]) /\ Sound(h[q]) /\ Leads(k, h[q - 1], h[q]) /\ Done(k) /\ Shows(e.doc, h[q])
  BY <1>1 DEF Told, Path
<1>3. Undoes(run, h[q - 1], h[q])
  <2> HIDE DEF k
  <2> QED
    BY <1>2, UndoLeads
<1>4. UndoTop(e) = r
  <2> DEFINE e1 == [e EXCEPT !.doc = run.doc]
             e2 == [e1 EXCEPT !.index = q - 1]
             e3 == [e2 EXCEPT !.commands = c]
  <2>1. q # 0
    BY <1>1
  <2>2. UndoTop(e) = e3
    BY <2>1 DEF UndoTop
  <2>3. e = Edited(e.doc, e.commands, e.index, e.alive)
    BY <1>1, EditorIs
  <2> HIDE DEF c, run, q
  <2>4. e1 = Edited(run.doc, e.commands, e.index, e.alive)
    BY <2>3 DEF Edited
  <2> HIDE DEF e1
  <2>5. e2 = Edited(run.doc, e.commands, q - 1, e.alive)
    BY <2>4 DEF Edited
  <2> HIDE DEF e2
  <2>6. e3 = Edited(run.doc, c, q - 1, e.alive)
    BY <2>5 DEF Edited
  <2> QED
    BY <2>2, <2>6
<1> HIDE DEF run, k, q
<1>5. /\ Leads(run.command, h[q - 1], h[q]) /\ Undone(run.command) /\ Shows(run.doc, h[q - 1])
      /\ e.index = q
  BY <1>3 DEF Undoes, q
<1>6. Told(r, h, new)
  <2> HIDE DEF c
  <2>1. c = [e.commands EXCEPT ![q] = run.command]
    BY DEF c
  <2> QED
    BY <1>1, <1>5, <2>1, Rerun
<1>7. r.index = q - 1 /\ r.commands = c
  BY DEF Edited
<1> QED
  BY <1>1, <1>4, <1>5, <1>6, <1>7

\* and redoing one state forward.
LEMMA RedoTold ==
  ASSUME NEW e, NEW h, NEW new, Told(e, h, new), e.index < Len(e.commands)
  PROVE  /\ Told(RedoNext(e), h, new)
         /\ RedoNext(e).index = e.index + 1
         /\ Len(RedoNext(e).commands) = Len(e.commands)
<1> DEFINE q == e.index + 1
           k == e.commands[q]
           run == Redo(k, e.doc)
           c == [e.commands EXCEPT ![q] = run.command]
           r == Edited(run.doc, c, q, e.alive)
<1>1. /\ q \in 1 .. Len(e.commands) /\ q - 1 \in 0 .. Len(e.commands) /\ q \in 0 .. Len(e.commands)
      /\ Len(c) = Len(e.commands) /\ e \in Editor /\ e.index = q - 1
  BY DEF Told, Shape, Editor
<1>2. Sound(h[q - 1]) /\ Sound(h[q]) /\ Leads(k, h[q - 1], h[q]) /\ Shows(e.doc, h[q - 1])
  BY <1>1 DEF Told, Path
<1>3. Does(run, h[q - 1], h[q])
  <2> HIDE DEF k
  <2> QED
    BY <1>2, RedoLeads
<1>4. RedoNext(e) = r
  <2> DEFINE e1 == [e EXCEPT !.doc = run.doc]
             e2 == [e1 EXCEPT !.index = q]
             e3 == [e2 EXCEPT !.commands = c]
  <2>1. e.index # Len(e.commands)
    BY <1>1
  <2>2. RedoNext(e) = e3
    BY <2>1 DEF RedoNext
  <2>3. e = Edited(e.doc, e.commands, e.index, e.alive)
    BY <1>1, EditorIs
  <2> HIDE DEF c, run, q
  <2>4. e1 = Edited(run.doc, e.commands, e.index, e.alive)
    BY <2>3 DEF Edited
  <2> HIDE DEF e1
  <2>5. e2 = Edited(run.doc, e.commands, q, e.alive)
    BY <2>4 DEF Edited
  <2> HIDE DEF e2
  <2>6. e3 = Edited(run.doc, c, q, e.alive)
    BY <2>5 DEF Edited
  <2> QED
    BY <2>2, <2>6
<1> HIDE DEF run, k, q
<1>5. /\ Leads(run.command, h[q - 1], h[q]) /\ Done(run.command) /\ Shows(run.doc, h[q])
  BY <1>3 DEF Does
<1>6. Told(r, h, new)
  <2> HIDE DEF c
  <2>1. c = [e.commands EXCEPT ![q] = run.command]
    BY DEF c
  <2> QED
    BY <1>1, <1>5, <2>1, Rerun
<1>7. r.index = q /\ r.commands = c
  BY DEF Edited
<1> QED
  BY <1>1, <1>4, <1>6, <1>7 DEF q

-----------------------------------------------------------------------------
(* One more command, or another on top. *)

\* The tale g up to top, and then the state t.
Longer(g, top, t) == [n \in 0 .. top + 1 |-> IF n <= top THEN g[n] ELSE t]

\* What h and g tell alike.
Keeps(g, h, n) == \A j \in 0 .. n : h[j] = g[j]

\* One more command on top of the stack.
LEMMA Extended ==
  ASSUME NEW e, NEW g, NEW new, Told(e, g, new), e.index = Len(e.commands),
         NEW d, NEW k, NEW t, Sound(t), Shows(d, t), Leads(k, g[e.index], t), Done(k),
         new \subseteq ShownIn(t), ShownIn(t) \subseteq ShownIn(g[e.index]) \cup new,
         NEW c, c = Append(e.commands, k)
  PROVE  /\ Told(Edited(d, c, e.index + 1, e.alive), Longer(g, e.index, t), {})
         /\ Len(c) = e.index + 1
         /\ Keeps(g, Longer(g, e.index, t), e.index)
<1> DEFINE N == e.index
           r == Edited(d, c, N + 1, e.alive)
           h == Longer(g, N, t)
<1>1. /\ N \in Nat /\ e \in Editor /\ e.commands \in Seq(Command) /\ Len(e.commands) = N
      /\ e.alive \subseteq Object /\ new \subseteq e.alive
  BY DEF Told, Shape, Editor
<1>2. k \in Command
  BY LeadsCommand
<1>3. /\ c \in Seq(Command) /\ Len(c) = N + 1 /\ c[N + 1] = k
      /\ \A p \in 1 .. N : c[p] = e.commands[p]
  BY <1>1, <1>2
<1>4. r.doc = d /\ r.commands = c /\ r.index = N + 1 /\ r.alive = e.alive
  BY DEF Edited
<1>5. r \in Editor
  BY <1>1, <1>3, <1>4 DEF Editor, Edited, Shows
<1>6. /\ g \in [0 .. N -> State]
      /\ \A n \in 0 .. N : Sound(g[n]) /\ ShownIn(g[n]) \subseteq e.alive \ new
  BY <1>1 DEF Told, Path, Lives
<1>7. /\ \A n \in 0 .. N : h[n] = g[n] /\ n \in 0 .. N + 1 /\ n <= N
      /\ h[N + 1] = t /\ N \in 0 .. N /\ N + 1 \in 0 .. N + 1
      /\ \A n \in 0 .. N + 1 : n \in 0 .. N \/ n = N + 1
  <2>1. /\ \A n \in 0 .. N : n \in 0 .. N + 1 /\ n <= N
        /\ N \in 0 .. N /\ N + 1 \in 0 .. N + 1 /\ ~(N + 1 <= N)
        /\ \A n \in 0 .. N + 1 : n \in 0 .. N \/ n = N + 1
    BY <1>1
  <2> HIDE DEF N
  <2> QED
    BY <2>1 DEF Longer
<1>8. h \in [0 .. N + 1 -> State]
  <2>1. t \in State
    BY DEF Sound
  <2> HIDE DEF N
  <2> QED
    BY <1>6, <1>7, <2>1 DEF Longer
<1> HIDE DEF r, h
<1>9. Shape(r, {})
  BY <1>1, <1>3, <1>4, <1>5 DEF Shape
<1>10. ASSUME NEW p \in 1 .. N + 1
       PROVE  Leads(c[p], h[p - 1], h[p]) /\ Done(c[p])
  <2>1. p \in 1 .. N \/ p = N + 1
    BY <1>1
  <2>2. CASE p \in 1 .. N
    <3>1. p \in 0 .. N /\ p - 1 \in 0 .. N /\ p <= N
      BY <1>1, <2>2
    <3>2. Leads(e.commands[p], g[p - 1], g[p]) /\ Done(e.commands[p])
      BY <1>1, <2>2, <3>1 DEF Told, Path
    <3> QED
      BY <1>3, <1>7, <2>2, <3>1, <3>2
  <2>3. CASE p = N + 1
    <3>1. p - 1 = N
      BY <1>1, <2>3
    <3>2. h[p - 1] = g[N] /\ h[p] = t /\ c[p] = k
      BY <1>3, <1>7, <2>3, <3>1
    <3> QED
      BY <3>2
  <2> QED
    BY <2>1, <2>2, <2>3
<1>11. \A n \in 0 .. N + 1 : Sound(h[n])
  BY <1>6, <1>7
<1>12. Path(r, h)
  <2>1. \A p \in 1 .. N + 1 : p <= N + 1
    BY <1>1
  <2> QED
    BY <1>3, <1>4, <1>7, <1>8, <1>10, <1>11, <2>1 DEF Path
<1>13. Lives(r.alive, Len(r.commands), h, {})
  <2>1. ASSUME NEW n \in 0 .. N + 1 PROVE ShownIn(h[n]) \subseteq e.alive
    BY <1>1, <1>6, <1>7
  <2>2. ASSUME NEW p \in 1 .. N + 1, NEW o \in ShownIn(h[p]) \ ShownIn(h[p - 1]),
               NEW n \in 0 .. p - 1
        PROVE  o \notin ShownIn(h[n])
    <3>1. p \in 1 .. N \/ p = N + 1
      BY <1>1
    <3>2. CASE p \in 1 .. N
      <4>1. p \in 0 .. N /\ p - 1 \in 0 .. N /\ n \in 0 .. N
        BY <1>1, <3>2
      <4>2. h[p] = g[p] /\ h[p - 1] = g[p - 1] /\ h[n] = g[n]
        BY <1>7, <4>1
      <4> QED
        BY <1>1, <3>2, <4>2 DEF Told, Lives
    <3>3. CASE p = N + 1
      <4>1. p - 1 = N /\ n \in 0 .. N
        BY <1>1, <3>3
      <4>2. h[p] = t /\ h[p - 1] = g[N] /\ h[n] = g[n]
        BY <1>7, <3>3, <4>1
      <4>3. o \in new
        BY <4>2
      <4> QED
        BY <1>6, <4>1, <4>2, <4>3
    <3> QED
      BY <3>1, <3>2, <3>3
  <2>3. ASSUME NEW o \in e.alive PROVE \E n \in 0 .. N + 1 : o \in ShownIn(h[n])
    <3>1. CASE o \in new
      BY <1>7, <3>1
    <3>2. CASE o \notin new
      <4>1. PICK n \in 0 .. N : o \in ShownIn(g[n])
        BY <1>1, <3>2 DEF Told, Lives
      <4> QED
        BY <1>7, <4>1
    <3> QED
      BY <3>1, <3>2
  <2> QED
    BY <1>3, <1>4, <2>1, <2>2, <2>3 DEF Lives
<1>14. Told(r, h, {})
  BY <1>9, <1>12, <1>13 DEF Told
<1> QED
  BY <1>3, <1>7, <1>14 DEF r, h, Keeps

\* The tale g up to top, where it ends in the state t instead.
Ending(g, top, t) == [n \in 0 .. top |-> IF n = top THEN t ELSE g[n]]

\* The command on top of the stack replaced by one that leads elsewhere, but shows the same objects.
LEMMA Replaced ==
  ASSUME NEW e, NEW g, Told(e, g, {}), e.index = Len(e.commands), e.index > 0,
         NEW d, NEW k, NEW t, Sound(t), Shows(d, t), Leads(k, g[e.index - 1], t), Done(k),
         ShownIn(t) = ShownIn(g[e.index]),
         NEW c, c = [e.commands EXCEPT ![e.index] = k]
  PROVE  /\ Told(Edited(d, c, e.index, e.alive), Ending(g, e.index, t), {})
         /\ Len(c) = e.index
         /\ Keeps(g, Ending(g, e.index, t), e.index - 1)
<1> DEFINE N == e.index
           r == Edited(d, c, N, e.alive)
           h == Ending(g, N, t)
<1>1. /\ N \in Nat /\ N > 0 /\ e \in Editor /\ e.commands \in Seq(Command) /\ Len(e.commands) = N
      /\ e.alive \subseteq Object
  BY DEF Told, Shape, Editor
<1>2. k \in Command
  BY LeadsCommand
<1>3. /\ c \in Seq(Command) /\ Len(c) = N /\ c[N] = k
      /\ \A p \in 1 .. N : p # N => c[p] = e.commands[p]
  BY <1>1, <1>2
<1>4. r.doc = d /\ r.commands = c /\ r.index = N /\ r.alive = e.alive
  BY DEF Edited
<1>5. r \in Editor
  BY <1>1, <1>3, <1>4 DEF Editor, Edited, Shows
<1>6. /\ g \in [0 .. N -> State]
      /\ \A n \in 0 .. N : Sound(g[n]) /\ ShownIn(g[n]) \subseteq e.alive
  BY <1>1 DEF Told, Path, Lives
<1>7. /\ \A n \in 0 .. N - 1 : h[n] = g[n] /\ n \in 0 .. N /\ n # N
      /\ h[N] = t /\ N \in 0 .. N
      /\ \A n \in 0 .. N : n \in 0 .. N - 1 \/ n = N
  <2>1. /\ \A n \in 0 .. N - 1 : n \in 0 .. N /\ n # N
        /\ N \in 0 .. N
        /\ \A n \in 0 .. N : n \in 0 .. N - 1 \/ n = N
    BY <1>1
  <2> HIDE DEF N
  <2> QED
    BY <2>1 DEF Ending
<1>8. h \in [0 .. N -> State]
  <2>1. t \in State
    BY DEF Sound
  <2> HIDE DEF N
  <2> QED
    BY <1>6, <1>7, <2>1 DEF Ending
<1>81. \A n \in 0 .. N : ShownIn(h[n]) = ShownIn(g[n])
  BY <1>7
<1> HIDE DEF r, h
<1>9. Shape(r, {})
  BY <1>1, <1>3, <1>4, <1>5 DEF Shape
<1>10. ASSUME NEW p \in 1 .. N
       PROVE  Leads(c[p], h[p - 1], h[p]) /\ Done(c[p])
  <2>1. p - 1 \in 0 .. N - 1 /\ p <= N
    BY <1>1
  <2>2. CASE p # N
    <3>1. p \in 0 .. N - 1
      BY <1>1, <2>2
    <3>2. Leads(e.commands[p], g[p - 1], g[p]) /\ Done(e.commands[p])
      BY <1>1, <2>1 DEF Told, Path
    <3> QED
      BY <1>3, <1>7, <2>1, <2>2, <3>1, <3>2
  <2>3. CASE p = N
    <3>2. h[p - 1] = g[N - 1] /\ h[p] = t /\ c[p] = k
      BY <1>3, <1>7, <2>1, <2>3
    <3> QED
      BY <3>2
  <2> QED
    BY <2>2, <2>3
<1>11. \A n \in 0 .. N : Sound(h[n])
  BY <1>6, <1>7
<1>12. Path(r, h)
  <2>1. \A p \in 1 .. N : p <= N
    BY <1>1
  <2> QED
    BY <1>3, <1>4, <1>7, <1>8, <1>10, <1>11, <2>1 DEF Path
<1>13. Lives(r.alive, Len(r.commands), h, {})
  <2>1. ASSUME NEW n \in 0 .. N PROVE ShownIn(h[n]) \subseteq e.alive
    BY <1>6, <1>81
  <2>2. ASSUME NEW p \in 1 .. N, NEW o \in ShownIn(h[p]) \ ShownIn(h[p - 1]),
               NEW n \in 0 .. p - 1
        PROVE  o \notin ShownIn(h[n])
    <3>1. p \in 0 .. N /\ p - 1 \in 0 .. N /\ n \in 0 .. N
      BY <1>1
    <3>2. o \in ShownIn(g[p]) \ ShownIn(g[p - 1])
      BY <1>81, <3>1
    <3>3. o \notin ShownIn(g[n])
      BY <1>1, <3>2 DEF Told, Lives
    <3> QED
      BY <1>81, <3>1, <3>3
  <2>3. ASSUME NEW o \in e.alive PROVE \E n \in 0 .. N : o \in ShownIn(h[n])
    <3>1. PICK n \in 0 .. N : o \in ShownIn(g[n])
      BY <1>1 DEF Told, Lives
    <3> QED
      BY <1>81, <3>1
  <2> QED
    BY <1>3, <1>4, <2>1, <2>2, <2>3 DEF Lives
<1>14. Told(r, h, {})
  BY <1>9, <1>12, <1>13 DEF Told
<1> QED
  BY <1>3, <1>7, <1>14 DEF r, h, Keeps

-----------------------------------------------------------------------------
(* Commands that are ready to be pushed. *)

\* An addition of the new object o, whose id is free.
ReadyAdd(k, s, new) ==
  \E f \in Lists : \E o \in Things(f) :
    /\ k = Add(f, o) /\ new = {o} /\ o \notin s[f]
    /\ s.attr[o] \in AttributesIn(f)
    /\ \A q \in s[f] : s.attr[q].id # s.attr[o].id

\* A removal of whatever connection has the id i.
ReadyRemoveLink(k) == \E i \in ConnectionId : k = RemoveLink(i)

\* A removal of a component that is there.
ReadyRemoveComponent(k, s) ==
  \E o \in s.components : k = RemoveComponent(s.attr[o].id)

\* A move of components from where they are.
ReadyMove(k, s) ==
  \E m \in Seq(OneMove) :
    /\ k = Move(m)
    /\ \A p, q \in DOMAIN m : m[p].id = m[q].id => p = q
    /\ \A p \in DOMAIN m : \A o \in s.components :
         s.attr[o].id = m[p].id => s.attr[o].at = m[p].old

\* A property set from the value it has to another that its object may have.
ReadySet(k, s) ==
  \E f \in Lists : \E o \in s[f] :
  \E y \in DOMAIN s.attr[o] : \E x \in Id \cup ConnectionId \cup Place :
    /\ k = Set(o, y, s.attr[o][y], x)
    /\ [s.attr[o] EXCEPT ![y] = x] \in AttributesIn(f)
    /\ y = "id" => \A q \in s[f] : s.attr[q].id # x

\* A command that a caller makes for the state s, with a new object or none.
Ready(k, s, new) ==
  \/ ReadyAdd(k, s, new)
  \/ new = {} /\ ReadyRemoveLink(k)
  \/ new = {} /\ ReadyRemoveComponent(k, s)
  \/ new = {} /\ ReadyMove(k, s)
  \/ new = {} /\ ReadySet(k, s)

\* Whether it is ready depends on nothing but what it can see.
LEMMA ReadyAlike ==
  ASSUME NEW s, Sound(s), NEW t, t.components = s.components, t.connections = s.connections,
         NEW new, \A o \in ShownIn(s) \cup new : t.attr[o] = s.attr[o],
         NEW k, Ready(k, s, new)
  PROVE  Ready(k, t, new)
<1>1. \A f \in Lists : t[f] = s[f] /\ \A o \in s[f] : t.attr[o] = s.attr[o]
  BY DEF Lists, ShownIn
<1>2. \A o \in s.components : t.attr[o] = s.attr[o]
  BY DEF ShownIn
<1>3. CASE ReadyAdd(k, s, new)
  <2>9. PICK f \in Lists : \E o \in Things(f) :
          /\ k = Add(f, o) /\ new = {o} /\ o \notin s[f]
          /\ s.attr[o] \in AttributesIn(f)
          /\ \A q \in s[f] : s.attr[q].id # s.attr[o].id
    BY <1>3 DEF ReadyAdd
  <2>1. PICK o \in Things(f) :
          /\ k = Add(f, o) /\ new = {o} /\ o \notin s[f]
          /\ s.attr[o] \in AttributesIn(f)
          /\ \A q \in s[f] : s.attr[q].id # s.attr[o].id
    BY <2>9
  <2>2. t.attr[o] = s.attr[o]
    BY <2>1
  <2>3. ReadyAdd(k, t, new)
    BY <1>1, <2>1, <2>2 DEF ReadyAdd
  <2> QED
    BY <2>3 DEF Ready
<1>4. CASE new = {} /\ ReadyRemoveLink(k)
  BY <1>4 DEF Ready
<1>5. CASE new = {} /\ ReadyRemoveComponent(k, s)
  <2>1. ReadyRemoveComponent(k, t)
    BY <1>2, <1>5 DEF ReadyRemoveComponent
  <2> QED
    BY <1>5, <2>1 DEF Ready
<1>6. CASE new = {} /\ ReadyMove(k, s)
  <2>1. ReadyMove(k, t)
    BY <1>2, <1>6 DEF ReadyMove
  <2> QED
    BY <1>6, <2>1 DEF Ready
<1>7. CASE new = {} /\ ReadySet(k, s)
  <2>9. PICK f \in Lists : \E o \in s[f] :
          \E y \in DOMAIN s.attr[o] : \E x \in Id \cup ConnectionId \cup Place :
            /\ k = Set(o, y, s.attr[o][y], x)
            /\ [s.attr[o] EXCEPT ![y] = x] \in AttributesIn(f)
            /\ y = "id" => \A q \in s[f] : s.attr[q].id # x
    BY <1>7 DEF ReadySet
  <2>1. PICK o \in s[f] :
          \E y \in DOMAIN s.attr[o] : \E x \in Id \cup ConnectionId \cup Place :
            /\ k = Set(o, y, s.attr[o][y], x)
            /\ [s.attr[o] EXCEPT ![y] = x] \in AttributesIn(f)
            /\ y = "id" => \A q \in s[f] : s.attr[q].id # x
    BY <2>9
  <2>2. o \in t[f] /\ t.attr[o] = s.attr[o]
    BY <1>1
  <2>3. ReadySet(k, t)
    BY <1>1, <2>1, <2>2 DEF ReadySet
  <2> QED
    BY <1>7, <2>3 DEF Ready
<1> QED
  BY <1>3, <1>4, <1>5, <1>6, <1>7 DEF Ready

\* A move or a setting that is ready leads to a state that shows the same objects.
LEMMA ReadyChanges ==
  ASSUME NEW s, Sound(s), NEW new, NEW k, Ready(k, s, new), k.kind \in {"Move", "Set"}
  PROVE  \E t : /\ Sound(t) /\ ShownIn(t) = ShownIn(s) /\ new = {}
                /\ k.kind = "Move" => LeadsMove(k, s, t)
                /\ k.kind = "Set" => LeadsSet(k, s, t)
<1>1. ~ReadyAdd(k, s, new) /\ ~ReadyRemoveLink(k) /\ ~ReadyRemoveComponent(k, s)
  BY DEF ReadyAdd, ReadyRemoveLink, ReadyRemoveComponent, Add, RemoveLink, RemoveComponent
<1>2. CASE new = {} /\ ReadyMove(k, s)
  <2>1. PICK m \in Seq(OneMove) :
          /\ k = Move(m)
          /\ \A p, q \in DOMAIN m : m[p].id = m[q].id => p = q
          /\ \A p \in DOMAIN m : \A o \in s.components :
               s.attr[o].id = m[p].id => s.attr[o].at = m[p].old
    BY <1>2 DEF ReadyMove
  <2> DEFINE M == ToSet(m)
             t == Placed(s, M, "new")
  <2>2. LeadsMove(k, s, t) /\ Sound(t)
    <3>1. LeadsMove(Move(m), s, Placed(s, ToSet(m), "new")) /\ Sound(Placed(s, ToSet(m), "new"))
      BY <2>1, FirstMove
    <3> QED
      BY <2>1, <3>1
  <2>3. M \in SUBSET OneMove /\ DistinctIds(M)
    BY <2>1, MovesAsSet
  <2>4. "new" \in Which
    BY DEF Which
  <2> HIDE DEF M
  <2>5. t.components = s.components /\ t.connections = s.connections
    BY <2>3, <2>4, PlacedIs
  <2>6. ShownIn(t) = ShownIn(s)
    BY <2>5 DEF ShownIn
  <2>7. k.kind = "Move"
    BY <2>1 DEF Move
  <2> HIDE DEF t
  <2> QED
    BY <1>2, <2>2, <2>6, <2>7
<1>3. CASE new = {} /\ ReadySet(k, s)
  <2>9. PICK f \in Lists : \E o \in s[f] :
          \E y \in DOMAIN s.attr[o] : \E x \in Id \cup ConnectionId \cup Place :
            /\ k = Set(o, y, s.attr[o][y], x)
            /\ [s.attr[o] EXCEPT ![y] = x] \in AttributesIn(f)
            /\ y = "id" => \A q \in s[f] : s.attr[q].id # x
    BY <1>3 DEF ReadySet
  <2>1. PICK o \in s[f] :
          \E y \in DOMAIN s.attr[o] : \E x \in Id \cup ConnectionId \cup Place :
            /\ k = Set(o, y, s.attr[o][y], x)
            /\ [s.attr[o] EXCEPT ![y] = x] \in AttributesIn(f)
            /\ y = "id" => \A q \in s[f] : s.attr[q].id # x
    BY <2>9
  <2>8. PICK y \in DOMAIN s.attr[o] : \E x \in Id \cup ConnectionId \cup Place :
            /\ k = Set(o, y, s.attr[o][y], x)
            /\ [s.attr[o] EXCEPT ![y] = x] \in AttributesIn(f)
            /\ y = "id" => \A q \in s[f] : s.attr[q].id # x
    BY <2>1
  <2>2. PICK x \in Id \cup ConnectionId \cup Place :
            /\ k = Set(o, y, s.attr[o][y], x)
            /\ [s.attr[o] EXCEPT ![y] = x] \in AttributesIn(f)
            /\ y = "id" => \A q \in s[f] : s.attr[q].id # x
    BY <2>8
  <2> DEFINE t == Assign(s, o, y, x)
  <2>3. LeadsSet(k, s, t) /\ Sound(t) /\ ShownIn(t) = ShownIn(s)
    BY <2>2, FirstSet
  <2>4. k.kind = "Set"
    BY <2>2 DEF Set
  <2> HIDE DEF t
  <2> QED
    BY <1>3, <2>3, <2>4
<1> QED
  BY <1>1, <1>2, <1>3 DEF Ready

\* A command that is ready does what it says when it is executed.
LEMMA ReadyRuns ==
  ASSUME NEW d, NEW s, Shows(d, s), Sound(s), NEW new, new \cap ShownIn(s) = {},
         NEW k, Ready(k, s, new)
  PROVE  \E t : /\ Sound(t) /\ Does(Redo(k, d), s, t)
                /\ new \subseteq ShownIn(t) /\ ShownIn(t) \subseteq ShownIn(s) \cup new
<1>1. CASE ReadyAdd(k, s, new)
  <2>9. PICK f \in Lists : \E o \in Things(f) :
          /\ k = Add(f, o) /\ new = {o} /\ o \notin s[f]
          /\ s.attr[o] \in AttributesIn(f)
          /\ \A q \in s[f] : s.attr[q].id # s.attr[o].id
    BY <1>1 DEF ReadyAdd
  <2>1. PICK o \in Things(f) :
          /\ k = Add(f, o) /\ new = {o} /\ o \notin s[f]
          /\ s.attr[o] \in AttributesIn(f)
          /\ \A q \in s[f] : s.attr[q].id # s.attr[o].id
    BY <2>9
  <2> DEFINE t == Relisted(s, f, s[f] \cup {o})
  <2>2. LeadsAdd(k, s, t) /\ Sound(t)
    BY <2>1, FirstAdd
  <2>3. Leads(k, s, t)
    BY <2>2 DEF Leads
  <2>4. ShownIn(t) = ShownIn(s) \cup {o}
    BY DEF ShownIn, Relisted, Lists
  <2> HIDE DEF t
  <2>5. Does(Redo(k, d), s, t)
    BY <2>2, <2>3, RedoLeads
  <2> QED
    BY <2>1, <2>2, <2>4, <2>5
<1>2. CASE new = {} /\ ReadyRemoveLink(k)
  BY <1>2, FirstRemoveLink DEF ReadyRemoveLink
<1>3. CASE new = {} /\ ReadyRemoveComponent(k, s)
  <2>1. PICK o \in s.components : k = RemoveComponent(s.attr[o].id)
    BY <1>3 DEF ReadyRemoveComponent
  <2>2. s.attr[o] \in AttributesIn("components") /\ "components" \in Lists
    BY DEF Sound, Proper, Lists
  <2>3. s.attr[o].id \in Id
    BY <2>2 DEF AttributesIn
  <2>4. Named(d, "components", s.attr[o].id) = o
    BY <2>2, NamedIs
  <2>5. o # None
    BY NoneIsNoObject DEF Sound, State, Object
  <2> QED
    BY <1>3, <2>1, <2>3, <2>4, <2>5, FirstRemoveComponent
<1>4. CASE new = {} /\ (ReadyMove(k, s) \/ ReadySet(k, s))
  <2>1. k.kind \in {"Move", "Set"}
    <3>1. ReadyMove(k, s) => k.kind = "Move"
      BY DEF ReadyMove, Move
    <3>2. ReadySet(k, s) => k.kind = "Set"
      BY DEF ReadySet, Set
    <3> QED
      BY <1>4, <3>1, <3>2
  <2>2. PICK t : /\ Sound(t) /\ ShownIn(t) = ShownIn(s) /\ new = {}
                 /\ k.kind = "Move" => LeadsMove(k, s, t)
                 /\ k.kind = "Set" => LeadsSet(k, s, t)
    BY <2>1, ReadyChanges
  <2>3. Leads(k, s, t)
    BY <2>1, <2>2 DEF Leads
  <2>4. Does(Redo(k, d), s, t)
    BY <2>2, <2>3, RedoLeads
  <2> QED
    BY <2>2, <2>4
<1> QED
  BY <1>1, <1>2, <1>3, <1>4 DEF Ready

\* A command's kind tells how it leads.
LEMMA KindOfLeads ==
  ASSUME NEW k, NEW s, NEW t, Leads(k, s, t)
  PROVE  /\ k.kind = "Move" => LeadsMove(k, s, t)
         /\ k.kind = "Set" => LeadsSet(k, s, t)
<1>1. /\ LeadsAdd(k, s, t) => k.kind = "Add"
      /\ LeadsRemoveLink(k, s, t) => k.kind = "RemoveLink"
      /\ LeadsRemoveComponent(k, s, t) => k.kind = "RemoveComponent"
      /\ LeadsMove(k, s, t) => k.kind = "Move"
      /\ LeadsSet(k, s, t) => k.kind = "Set"
  BY DEF LeadsAdd, LeadsRemoveLink, LeadsRemoveComponent, LeadsMove, LeadsSet,
         AddCommand, RemoveLinkCommand, RemoveComponentCommand, MoveCommand, SetCommand
<1> QED
  BY <1>1 DEF Leads

-----------------------------------------------------------------------------
(* Pushing. *)

\* The tale h, told again up to the end of g.
Retells(g, h, n) == \A j \in 0 .. n - 1 : Picture(g[j]) = Picture(h[j])

\* The command k merges with the one on top of the stack.
MergesOnto(e, k) == e.index > 0 /\ Merges(e.commands[e.index], k)

\* A command that merges with the one on top of the stack,
LEMMA PushMerging ==
  ASSUME NEW e, NEW k, NEW cut, cut = DiscardRedoHistory(e), cut \in Editor, MergesOnto(cut, k),
         NEW run, run = Redo(Merged(cut.commands[cut.index], k), cut.doc)
  PROVE  Push(e, k) =
           Edited(run.doc, [cut.commands EXCEPT ![cut.index] = run.command], cut.index, cut.alive)
<1> DEFINE c == [cut.commands EXCEPT ![cut.index] = run.command]
           e1 == [cut EXCEPT !.doc = run.doc]
           e2 == [e1 EXCEPT !.commands = c]
<1>0. e1.commands = cut.commands
  OBVIOUS
<1>1. Push(e, k) = e2
  BY <1>0 DEF Push, MergesOnto
<1>2. cut = Edited(cut.doc, cut.commands, cut.index, cut.alive)
  BY EditorIs
<1> HIDE DEF c
<1>3. e1 = Edited(run.doc, cut.commands, cut.index, cut.alive)
  BY <1>2 DEF Edited
<1> HIDE DEF e1
<1>4. e2 = Edited(run.doc, c, cut.index, cut.alive)
  BY <1>3 DEF Edited
<1> QED
  BY <1>1, <1>4 DEF c

\* and one that does not.
LEMMA PushOnTop ==
  ASSUME NEW e, NEW k, NEW cut, cut = DiscardRedoHistory(e), cut \in Editor, ~MergesOnto(cut, k),
         NEW run, run = Redo(k, cut.doc)
  PROVE  Push(e, k) =
           Edited(run.doc, Append(cut.commands, run.command), cut.index + 1, cut.alive)
<1> DEFINE c == Append(cut.commands, run.command)
           e1 == [cut EXCEPT !.doc = run.doc]
           e2 == [e1 EXCEPT !.index = cut.index + 1]
           e3 == [e2 EXCEPT !.commands = c]
<1>1. Push(e, k) = e3
  BY DEF Push, MergesOnto
<1>2. cut = Edited(cut.doc, cut.commands, cut.index, cut.alive)
  BY EditorIs
<1> HIDE DEF c
<1>3. e1 = Edited(run.doc, cut.commands, cut.index, cut.alive)
  BY <1>2 DEF Edited
<1> HIDE DEF e1
<1>4. e2 = Edited(run.doc, cut.commands, cut.index + 1, cut.alive)
  BY <1>3 DEF Edited
<1> HIDE DEF e2
<1>5. e3 = Edited(run.doc, c, cut.index + 1, cut.alive)
  BY <1>4 DEF Edited
<1> QED
  BY <1>1, <1>5 DEF c

\* Pushing a command that is ready, whether it merges or not, gives a tale that
\* goes on where it was executed and starts as before.
LEMMA PushTold ==
  ASSUME NEW e, NEW h, NEW new, Told(e, h, new), NEW k, Ready(k, h[e.index], new)
  PROVE  \E g : /\ Told(Push(e, k), g, {})
                /\ Push(e, k).index = Len(Push(e, k).commands)
                /\ Push(e, k).index \in 1 .. e.index + 1
                /\ Retells(g, h, Push(e, k).index)
<1> DEFINE cut == DiscardRedoHistory(e)
           i == e.index
           gone == Gone(e.commands, i)
           g == Tale(h, i, gone, Blank)
<1>1. Told(cut, g, new) /\ cut.index = i /\ Len(cut.commands) = i
  BY DiscardTold
<1>2. i \in Nat /\ i <= Len(e.commands) /\ i \in 0 .. i /\ 0 .. i \subseteq 0 .. Len(e.commands)
  BY DEF Told, Shape, Editor
<1>3. /\ gone \cap new = {} /\ \A n \in 0 .. i : gone \cap ShownIn(h[n]) = {}
  BY GoneIsUnseen
<1>4. \A n \in 0 .. i : Sound(h[n])
  BY <1>2 DEF Told, Path
<1>5. /\ \A j \in 0 .. i : /\ g[j] = Reset(h[j], gone, Blank)
                           /\ Picture(g[j]) = Picture(h[j])
  <2> HIDE DEF gone
  <2> QED
    BY <1>2, <1>3, <1>4, BlankIsAttributes, TaleIs
<1>6. Ready(k, g[i], new)
  <2> DEFINE s == h[i]
             t == g[i]
  <2>1. Sound(s) /\ t = Reset(s, gone, Blank) /\ gone \cap ShownIn(s) = {}
    BY <1>2, <1>3, <1>4, <1>5
  <2>2. /\ t.components = s.components /\ t.connections = s.connections
        /\ \A o \in Object : t.attr[o] = IF o \in gone THEN Blank ELSE s.attr[o]
    <3> HIDE DEF s, t, gone
    <3>1. /\ Reset(s, gone, Blank).components = s.components
          /\ Reset(s, gone, Blank).connections = s.connections
          /\ \A o \in Object :
               Reset(s, gone, Blank).attr[o] = IF o \in gone THEN Blank ELSE s.attr[o]
      BY <2>1, BlankIsAttributes, ResetIs
    <3> QED
      BY <2>1, <3>1
  <2>3. \A o \in ShownIn(s) \cup new : t.attr[o] = s.attr[o]
    <3>1. ShownIn(s) \subseteq Object /\ new \subseteq Object
      <4>1. s \in State
        BY <2>1 DEF Sound
      <4>2. new \subseteq Object
        BY DEF Told, Shape, Editor
      <4> QED
        BY <4>1, <4>2, ShownApart
    <3>2. \A o \in ShownIn(s) \cup new : o \notin gone
      BY <1>3, <2>1
    <3> QED
      BY <2>2, <3>1, <3>2
  <2>4. Ready(k, s, new)
    OBVIOUS
  <2> HIDE DEF s, t
  <2>5. Ready(k, t, new)
    BY <2>1, <2>2, <2>3, <2>4, ReadyAlike
  <2> QED
    BY <2>5 DEF t
<1> HIDE DEF gone, g
<1>7. /\ Sound(g[i]) /\ Shows(cut.doc, g[i]) /\ new \cap ShownIn(g[i]) = {} /\ cut \in Editor
      /\ \A p \in 1 .. i : Leads(cut.commands[p], g[p - 1], g[p]) /\ Sound(g[p - 1])
  <2>1. \A p \in 1 .. i : p - 1 \in 0 .. i
    BY <1>2
  <2> HIDE DEF cut
  <2> QED
    BY <1>1, <1>2, <2>1 DEF Told, Path, Shape, Lives
<1> HIDE DEF cut
<1>8. ASSUME MergesOnto(cut, k)
      PROVE  \E f : /\ Told(Push(e, k), f, {})
                    /\ Push(e, k).index = Len(Push(e, k).commands)
                    /\ Push(e, k).index \in 1 .. i + 1
                    /\ Retells(f, h, Push(e, k).index)
  <2> DEFINE a == cut.commands[i]
             b == Merged(a, k)
             run == Redo(b, cut.doc)
             c == [cut.commands EXCEPT ![i] = run.command]
  <2>1. i > 0 /\ Merges(a, k) /\ i \in 1 .. i
    BY <1>1, <1>2, <1>8 DEF MergesOnto
  <2>2. k.kind \in {"Move", "Set"} /\ a.kind = k.kind
    BY <2>1 DEF Merges
  <2>3. PICK t : /\ Sound(t) /\ ShownIn(t) = ShownIn(g[i]) /\ new = {}
                 /\ k.kind = "Move" => LeadsMove(k, g[i], t)
                 /\ k.kind = "Set" => LeadsSet(k, g[i], t)
    BY <1>6, <1>7, <2>2, ReadyChanges
  <2>4. Leads(a, g[i - 1], g[i]) /\ Sound(g[i - 1])
    BY <1>7, <2>1
  <2> HIDE DEF a
  <2>5. /\ k.kind = "Move" => LeadsMove(a, g[i - 1], g[i])
        /\ k.kind = "Set" => LeadsSet(a, g[i - 1], g[i])
    BY <2>2, <2>4, KindOfLeads
  <2>6. Does(run, g[i - 1], t)
    <3>1. CASE k.kind = "Move"
      BY <1>7, <2>1, <2>3, <2>4, <2>5, <3>1, MergedMove
    <3>2. CASE k.kind = "Set"
      BY <1>7, <2>1, <2>3, <2>4, <2>5, <3>2, MergedSet
    <3> QED
      BY <2>2, <3>1, <3>2
  <2>7. Push(e, k) = Edited(run.doc, c, i, cut.alive)
    BY <1>1, <1>7, <1>8, PushMerging DEF cut, a
  <2> HIDE DEF run, b
  <2>8. Shows(run.doc, t) /\ Leads(run.command, g[i - 1], t) /\ Done(run.command)
    BY <2>6 DEF Does
  <2>9. c = [cut.commands EXCEPT ![cut.index] = run.command] /\ cut.index = i
        /\ cut.index = Len(cut.commands) /\ cut.index > 0
    BY <1>1, <2>1
  <2> HIDE DEF c
  <2> DEFINE f == Ending(g, i, t)
             r == Edited(run.doc, c, i, cut.alive)
  <2>10. /\ Told(r, f, {})
         /\ Len(c) = i /\ Keeps(g, f, i - 1)
    BY <1>1, <2>3, <2>8, <2>9, Replaced
  <2>11. r.index = i /\ r.commands = c
    BY DEF Edited
  <2> HIDE DEF r, f
  <2>12. Retells(f, h, i)
    <3>1. \A n \in 0 .. i - 1 : n \in 0 .. i
      BY <1>2
    <3> QED
      BY <1>5, <2>10, <3>1 DEF Retells, Keeps
  <2>13. i \in 1 .. i + 1
    BY <1>2, <2>1
  <2>14. Push(e, k) = r
    BY <2>7 DEF r
  <2> QED
    BY <2>10, <2>11, <2>12, <2>13, <2>14
<1>9. ASSUME ~MergesOnto(cut, k)
      PROVE  \E f : /\ Told(Push(e, k), f, {})
                    /\ Push(e, k).index = Len(Push(e, k).commands)
                    /\ Push(e, k).index \in 1 .. i + 1
                    /\ Retells(f, h, Push(e, k).index)
  <2> DEFINE run == Redo(k, cut.doc)
             c == Append(cut.commands, run.command)
  <2>1. PICK t : /\ Sound(t) /\ Does(run, g[i], t)
                 /\ new \subseteq ShownIn(t) /\ ShownIn(t) \subseteq ShownIn(g[i]) \cup new
    BY <1>6, <1>7, ReadyRuns
  <2>2. Push(e, k) = Edited(run.doc, c, i + 1, cut.alive)
    BY <1>1, <1>7, <1>9, PushOnTop DEF cut
  <2> HIDE DEF run
  <2>3. Shows(run.doc, t) /\ Leads(run.command, g[i], t) /\ Done(run.command)
    BY <2>1 DEF Does
  <2>4. c = Append(cut.commands, run.command)
    OBVIOUS
  <2> HIDE DEF c
  <2> DEFINE f == Longer(g, i, t)
             r == Edited(run.doc, c, i + 1, cut.alive)
  <2>5. /\ Told(r, f, {})
        /\ Len(c) = i + 1 /\ Keeps(g, f, i)
    <3>1. /\ cut.index = Len(cut.commands) /\ Leads(run.command, g[cut.index], t)
          /\ new \subseteq ShownIn(t) /\ ShownIn(t) \subseteq ShownIn(g[cut.index]) \cup new
          /\ Sound(t)
      BY <1>1, <2>1, <2>3
    <3>2. /\ Told(Edited(run.doc, c, cut.index + 1, cut.alive), Longer(g, cut.index, t), {})
          /\ Len(c) = cut.index + 1
          /\ Keeps(g, Longer(g, cut.index, t), cut.index)
      <4> DEFINE x == run.command
                 d == run.doc
      <4>1. /\ Told(cut, g, new) /\ Shows(d, t) /\ Leads(x, g[cut.index], t) /\ Done(x)
            /\ c = Append(cut.commands, x)
        BY <1>1, <2>3, <2>4, <3>1
      <4> HIDE DEF x, d
      <4>2. /\ Told(Edited(d, c, cut.index + 1, cut.alive), Longer(g, cut.index, t), {})
            /\ Len(c) = cut.index + 1
            /\ Keeps(g, Longer(g, cut.index, t), cut.index)
        BY <3>1, <4>1, Extended
      <4> QED
        BY <4>2 DEF d
    <3> QED
      BY <1>1, <3>2
  <2>6. r.index = i + 1 /\ r.commands = c
    BY DEF Edited
  <2> HIDE DEF r, f
  <2>7. Retells(f, h, i + 1)
    <3>1. \A n \in 0 .. (i + 1) - 1 : n \in 0 .. i
      BY <1>2
    <3> QED
      BY <1>5, <2>5, <3>1 DEF Retells, Keeps
  <2>8. i + 1 \in 1 .. i + 1
    BY <1>2
  <2>9. Push(e, k) = r
    BY <2>2 DEF r
  <2> QED
    BY <2>5, <2>6, <2>7, <2>8, <2>9
<1> QED
  BY <1>8, <1>9

-----------------------------------------------------------------------------
(* New objects, clearing and importing. *)

\* A new object is alive, and shown nowhere yet.
LEMMA WithTold ==
  ASSUME NEW h, Told(editor, h, {}), NEW o \in Object \ editor.alive, NEW a \in Attributes
  PROVE  /\ Told(With(o, a), Tale(h, Len(editor.commands), {o}, a), {o})
         /\ With(o, a) = Edited(Doc(editor.doc.components, editor.doc.connections,
                                    [editor.doc.attr EXCEPT ![o] = a]),
                                editor.commands, editor.index, editor.alive \cup {o})
         /\ \A n \in 0 .. Len(editor.commands) :
              o \notin ShownIn(h[n])
<1> DEFINE e == editor
           N == Len(e.commands)
           z == [e.doc.attr EXCEPT ![o] = a]
           r == With(o, a)
           g == Tale(h, N, {o}, a)
<1>1. /\ N \in Nat /\ e.index \in 0 .. N /\ e \in Editor /\ e.commands \in Seq(Command)
      /\ e.doc \in Document /\ e.alive \subseteq Object
  BY DEF Told, Shape, Editor
<1>2. /\ \A n \in 0 .. N : Sound(h[n]) /\ ShownIn(h[n]) \subseteq e.alive
      /\ \A n \in 0 .. N : {o} \cap ShownIn(h[n]) = {}
      /\ \A n \in 0 .. N : o \notin ShownIn(h[n])
  BY DEF Told, Path, Lives
<1>3. r = Edited(Doc(e.doc.components, e.doc.connections, z),
                 e.commands, e.index, e.alive \cup {o})
  <2> DEFINE x == e.alive \cup {o}
             e1 == [e EXCEPT !.alive = x]
             e2 == [e1 EXCEPT !.doc.attr[o] = a]
             e3 == [e1 EXCEPT !.doc.attr = [e1.doc.attr EXCEPT ![o] = a]]
  <2>1. r = e2
    BY DEF With
  <2>2. e2 = e3
    OBVIOUS
  <2>3. e = Edited(e.doc, e.commands, e.index, e.alive)
    BY <1>1, EditorIs
  <2>9. e.doc = Doc(e.doc.components, e.doc.connections, e.doc.attr)
    BY <1>1 DEF Document, Doc
  <2> HIDE DEF x, e2
  <2>4. e1 = Edited(e.doc, e.commands, e.index, x) /\ e1.doc = e.doc
    BY <2>3 DEF Edited
  <2>5. e3 = [e1 EXCEPT !.doc.attr = z]
    BY <2>4
  <2> HIDE DEF e1, e3, z
  <2>6. [Doc(e.doc.components, e.doc.connections, e.doc.attr) EXCEPT !.attr = z]
          = Doc(e.doc.components, e.doc.connections, z)
    BY DEF Doc
  <2>7. e3 = Edited([e.doc EXCEPT !.attr = z], e.commands, e.index, x)
    BY <2>4, <2>5 DEF Edited
  <2>8. e3 = Edited(Doc(e.doc.components, e.doc.connections, z), e.commands, e.index, x)
    BY <2>6, <2>7, <2>9
  <2> QED
    BY <2>1, <2>2, <2>8 DEF x
<1>4. /\ r.doc = Doc(e.doc.components, e.doc.connections, z)
      /\ r.commands = e.commands /\ r.index = e.index /\ r.alive = e.alive \cup {o}
  BY <1>3 DEF Edited
<1>5. /\ g \in [0 .. N -> State]
      /\ \A j \in 0 .. N : /\ g[j] = Reset(h[j], {o}, a) /\ Sound(g[j])
                           /\ ShownIn(g[j]) = ShownIn(h[j])
  BY <1>1, <1>2, TaleIs
<1> HIDE DEF r, g
<1>6. Shows(r.doc, g[e.index])
  <2>1. z = [q \in Object |-> IF q \in {o} THEN a ELSE e.doc.attr[q]]
    BY <1>1 DEF Document
  <2> DEFINE d == e.doc
             x == r.doc
  <2>2. x = [components |-> d.components, connections |-> d.connections,
             attr |-> [q \in Object |-> IF q \in {o} THEN a ELSE d.attr[q]]]
    BY <1>4, <2>1 DEF Doc
  <2>3. Shows(d, h[e.index])
    BY DEF Told, Path
  <2> HIDE DEF d, x
  <2>4. Shows(x, Reset(h[e.index], {o}, a))
    BY <2>2, <2>3, ResetShows
  <2> QED
    BY <1>1, <1>5, <2>4 DEF x
<1>7. Shape(r, {o})
  <2>1. r.doc \in Document
    BY <1>6 DEF Shows
  <2>2. r \in Editor
    BY <1>1, <1>3, <1>4, <2>1 DEF Editor, Edited
  <2> QED
    BY <1>1, <1>4, <2>2 DEF Shape
<1>8. Path(r, g)
  <2>1. ASSUME NEW p \in 1 .. N PROVE Leads(e.commands[p], g[p - 1], g[p])
    <3>1. p \in 0 .. N /\ p - 1 \in 0 .. N
      BY <1>1
    <3>2. Leads(e.commands[p], h[p - 1], h[p]) /\ Sound(h[p - 1]) /\ Sound(h[p])
          /\ {o} \cap ShownIn(h[p - 1]) = {} /\ {o} \cap ShownIn(h[p]) = {}
      BY <1>2, <3>1 DEF Told, Path
    <3>3. Leads(e.commands[p], Reset(h[p - 1], {o}, a), Reset(h[p], {o}, a))
      BY <3>2, LeadsElsewhere
    <3> QED
      BY <1>5, <3>1, <3>3
  <2>2. \A p \in 1 .. N : IF p <= e.index THEN Done(e.commands[p]) ELSE Undone(e.commands[p])
    BY DEF Told, Path
  <2> QED
    BY <1>4, <1>5, <1>6, <2>1, <2>2 DEF Path
<1>9. Lives(r.alive, Len(r.commands), g, {o})
  <2>1. ASSUME NEW n \in 0 .. N PROVE ShownIn(g[n]) \subseteq r.alive \ {o}
    BY <1>2, <1>4, <1>5
  <2>2. ASSUME NEW p \in 1 .. N, NEW q \in ShownIn(g[p]) \ ShownIn(g[p - 1]), NEW n \in 0 .. p - 1
        PROVE  q \notin ShownIn(g[n])
    <3>1. n \in 0 .. N /\ p \in 0 .. N /\ p - 1 \in 0 .. N
      BY <1>1
    <3>2. q \in ShownIn(h[p]) \ ShownIn(h[p - 1])
      BY <1>5, <3>1
    <3>3. q \notin ShownIn(h[n])
      BY <3>2 DEF Told, Lives
    <3> QED
      BY <1>5, <3>1, <3>3
  <2>3. ASSUME NEW q \in r.alive \ {o} PROVE \E n \in 0 .. N : q \in ShownIn(g[n])
    <3>1. q \in e.alive \ {}
      BY <1>4
    <3>2. PICK n \in 0 .. N : q \in ShownIn(h[n])
      BY <3>1 DEF Told, Lives
    <3> QED
      BY <1>5, <3>2
  <2> QED
    BY <1>4, <2>1, <2>2, <2>3 DEF Lives
<1>10. Told(r, g, {o})
  BY <1>7, <1>8, <1>9 DEF Told
<1> QED
  BY <1>2, <1>3, <1>10 DEF r, g

\* The tale of no commands.
Start(s) == [n \in 0 .. 0 |-> s]

\* Without commands, what is alive is what is shown.
LEMMA StartTold ==
  ASSUME NEW d, NEW s, Shows(d, s), Sound(s), NEW e, e = Edited(d, <<>>, 0, ShownIn(s))
  PROVE  Told(e, Start(s), {}) /\ Start(s)[0] = s
<1>1. e.doc = d /\ e.commands = <<>> /\ e.index = 0 /\ e.alive = ShownIn(s)
  BY DEF Edited
<1>2. s \in State /\ ShownIn(s) \subseteq Object
  BY ShownApart DEF Sound
<1>3. Len(<<>>) = 0 /\ <<>> \in Seq(Command) /\ 1 .. 0 = {} /\ 0 .. 0 = {0}
  OBVIOUS
<1>4. e \in Editor
  BY <1>1, <1>2, <1>3 DEF Editor, Edited, Shows
<1>5. Start(s) \in [0 .. 0 -> State] /\ Start(s)[0] = s
  BY <1>2, <1>3 DEF Start
<1>6. Shape(e, {})
  BY <1>1, <1>3, <1>4 DEF Shape
<1>7. Path(e, Start(s))
  BY <1>1, <1>3, <1>5 DEF Path
<1>8. Lives(e.alive, Len(e.commands), Start(s), {})
  BY <1>1, <1>3, <1>5 DEF Lives
<1> QED
  BY <1>5, <1>6, <1>7, <1>8 DEF Told

\* An editor whose lists are empty, its objects in gone deleted.
Bare(z, c, i, a, gone) ==
  Edited(Doc(<<>>, <<>>, Blanked(z, gone)), Forgotten(c, gone), i, a \ gone)

\* Emptying the lists deletes what they showed.
LEMMA EmptiedIs ==
  ASSUME NEW x, NEW y, NEW z, NEW c, NEW i, NEW a, NEW e, e = Edited(Doc(x, y, z), c, i, a)
  PROVE  Emptied(e) = Bare(z, c, i, a, Shown(e.doc))
<1> DEFINE e1 == [e EXCEPT !.doc.components = <<>>]
           e2 == [e1 EXCEPT !.doc.connections = <<>>]
           gone == Shown(e.doc)
<1>1. Emptied(e) = Destroy(e2, gone)
  BY DEF Emptied
<1> HIDE DEF gone
<1>2. [Doc(x, y, z) EXCEPT !.components = <<>>] = Doc(<<>>, y, z)
      /\ [Doc(<<>>, y, z) EXCEPT !.connections = <<>>] = Doc(<<>>, <<>>, z)
  BY DEF Doc
<1>3. e1 = Edited([Doc(x, y, z) EXCEPT !.components = <<>>], c, i, a)
  BY DEF Edited
<1> HIDE DEF e1
<1>4. e1 = Edited(Doc(<<>>, y, z), c, i, a)
  BY <1>2, <1>3
<1>5. e2 = Edited([Doc(<<>>, y, z) EXCEPT !.connections = <<>>], c, i, a)
  BY <1>4 DEF Edited
<1> HIDE DEF e2
<1>6. e2 = Edited(Doc(<<>>, <<>>, z), c, i, a)
  BY <1>2, <1>5
<1>7. Destroy(e2, gone) =
        Edited(Doc(<<>>, <<>>, Blanked(z, gone)), Forgotten(c, gone), i, a \ gone)
  BY <1>6, DestroyIs
<1> QED
  BY <1>1, <1>7 DEF gone, Bare

\* Commands own what they owned after they have lost pointers.
LEMMA ForgottenIs ==
  ASSUME NEW c \in Seq(Command), NEW gone
  PROVE  /\ Len(Forgotten(c, gone)) = Len(c) /\ DOMAIN Forgotten(c, gone) = 1 .. Len(c)
         /\ Len(c) \in Nat
         /\ \A p \in 1 .. Len(c) : Owned(Forgotten(c, gone)[p]) = Owned(c[p])
<1> DEFINE f == Forgotten(c, gone)
<1>1. DOMAIN c = 1 .. Len(c) /\ Len(c) \in Nat
  OBVIOUS
<1>2. f = [p \in 1 .. Len(c) |-> Forgetting(c[p], gone)]
  BY <1>1 DEF Forgotten
<1>3. Len(f) = Len(c) /\ DOMAIN f = 1 .. Len(c)
  BY <1>1, <1>2
<1>4. ASSUME NEW p \in 1 .. Len(c) PROVE Owned(f[p]) = Owned(c[p])
  <2> DEFINE k == c[p]
  <2>1. k \in Command
    BY <1>1
  <2>2. f[p] = Forgetting(k, gone)
    BY <1>2
  <2> HIDE DEF f, k
  <2>3. CASE k.kind = "Set" /\ k.object \in gone
    <3>1. k \in SetCommand
      BY <2>1, <2>3 DEF Command, AddCommand, RemoveLinkCommand, RemoveComponentCommand, MoveCommand
    <3>2. Forgetting(k, gone) = [k EXCEPT !.object = None]
      BY <2>3 DEF Forgetting
    <3>3. [k EXCEPT !.object = None].kind = "Set"
      BY <3>1, <2>3 DEF SetCommand
    <3> HIDE DEF k
    <3>4. f[p].kind = "Set"
      BY <2>2, <3>2, <3>3
    <3>5. Owned(f[p]) = {} /\ Owned(k) = {}
      BY <2>3, <3>4 DEF Owned
    <3> QED
      BY <3>5 DEF k
  <2>4. CASE ~(k.kind = "Set" /\ k.object \in gone)
    <3>1. f[p] = k
      BY <2>2, <2>4 DEF Forgetting
    <3> QED
      BY <3>1 DEF k
  <2> QED
    BY <2>3, <2>4
<1> QED
  BY <1>1, <1>3, <1>4 DEF f

\* Nothing is left of a stack that is cut before its first command.
LEMMA NothingLeft ==
  /\ \A c : SubSeq(c, 1, 0) = <<>>
  /\ \A gone : Forgotten(<<>>, gone) = <<>>
<1>1. \A c : SubSeq(c, 1, 0) = <<>>
  OBVIOUS
<1>2. \A gone : Forgotten(<<>>, gone) = <<>>
  BY DEF Forgotten
<1> QED
  BY <1>1, <1>2

\* Clearing deletes what is shown, and then what the commands own: everything.
LEMMA ClearTold ==
  ASSUME NEW e, NEW h, Told(e, h, {})
  PROVE  \E s : /\ Told(ClearStack(Emptied(e)), Start(s), {})
                /\ Start(s)[0] = s /\ Picture(s) = {}
                /\ ClearStack(Emptied(e)).commands = <<>>
<1> DEFINE c == e.commands
           shown == Shown(e.doc)
           z == Blanked(e.doc.attr, shown)
           f == Forgotten(c, shown)
           E == Emptied(e)
           gone == Gone(f, 0)
           w == Blanked(z, gone)
           r == ClearStack(E)
<1>1. e \in Editor /\ c \in Seq(Command) /\ e.doc.attr \in [Object -> Attributes]
  BY DEF Told, Shape, Editor, Document
<1>2. E = Edited(Doc(<<>>, <<>>, z), f, e.index, e.alive \ shown)
  <2>1. e = Edited(Doc(e.doc.components, e.doc.connections, e.doc.attr), c, e.index, e.alive)
    BY <1>1, EditorIs
  <2> DEFINE x == e.doc.components
             y == e.doc.connections
             v == e.doc.attr
             j == e.index
             a == e.alive
  <2>2. e = Edited(Doc(x, y, v), c, j, a)
    BY <2>1
  <2> HIDE DEF c, x, y, v, j, a
  <2>3. Emptied(e) = Bare(v, c, j, a, Shown(e.doc))
    BY <2>2, EmptiedIs
  <2> QED
    BY <2>3 DEF v, j, a, Bare
<1>3. e.alive \ shown \subseteq gone
  <2> SUFFICES ASSUME NEW o \in e.alive, o \notin shown PROVE o \in gone
    OBVIOUS
  <2>1. \E p : {q \in DOMAIN e.commands : o \in Owned(e.commands[q])} = {p}
    BY OwnersAre
  <2>2. PICK p \in DOMAIN c : o \in Owned(c[p])
    BY <2>1
  <2>3. DOMAIN c = 1 .. Len(c) /\ Len(c) \in Nat
    BY <1>1
  <2> HIDE DEF shown, c
  <2>4. p \in 0 + 1 .. Len(f) /\ o \in Owned(f[p])
    BY <1>1, <2>2, <2>3, ForgottenIs
  <2> HIDE DEF f
  <2> QED
    BY <2>4 DEF Gone
<1>4. w \in [Object -> Attributes]
  <2>1. z \in [Object -> Attributes]
    BY <1>1, BlankIsAttributes DEF Blanked
  <2> HIDE DEF z, gone
  <2> QED
    BY <2>1, BlankIsAttributes DEF Blanked
<1> HIDE DEF z, shown, f, E, c
<1>5. Truncate(E, 0) = Edited(Doc(<<>>, <<>>, w), Forgotten(SubSeq(f, 1, 0), gone),
                              e.index, (e.alive \ shown) \ gone)
  BY <1>2, TruncateIs
<1>6. Truncate(E, 0) = Edited(Doc(<<>>, <<>>, w), <<>>, e.index, {})
  <2> HIDE DEF gone, w
  <2>1. (e.alive \ shown) \ gone = {}
    BY <1>3
  <2> QED
    BY <1>5, <2>1, NothingLeft
<1> HIDE DEF w, gone
<1>7. r = Edited(Doc(<<>>, <<>>, w), <<>>, 0, {})
  <2> DEFINE t == Truncate(E, 0)
  <2>1. r = [t EXCEPT !.index = 0]
    BY DEF ClearStack
  <2>2. t = Edited(Doc(<<>>, <<>>, w), <<>>, e.index, {})
    BY <1>6
  <2> HIDE DEF t, r
  <2> QED
    BY <2>1, <2>2 DEF Edited
<1> DEFINE s == [components |-> {}, connections |-> {}, attr |-> w]
<1>8. ShownIn(s) = {} /\ Picture(s) = {}
  BY DEF ShownIn, Picture
<1>9. Sound(s)
  BY <1>4 DEF Sound, State, Proper
<1>10. Shows(Doc(<<>>, <<>>, w), s)
  <2>1. ToSet(<<>>) = {} /\ NoRepeats(<<>>)
    BY DEF ToSet, NoRepeats
  <2>2. Doc(<<>>, <<>>, w) \in Document
    BY <1>4 DEF Doc, Document
  <2> QED
    BY <2>1, <2>2 DEF Shows, Doc
<1> HIDE DEF s, r
<1>11. Told(r, Start(s), {}) /\ Start(s)[0] = s
  BY <1>7, <1>8, <1>9, <1>10, StartTold
<1>12. r.commands = <<>>
  BY <1>7 DEF Edited
<1> QED
  BY <1>8, <1>11, <1>12 DEF r, E

\* The editor e with the components l.
Listing(e, l) == [e EXCEPT !.doc.components = l]

\* The list of components replaced, field by field.
LEMMA ListIs ==
  ASSUME NEW x, NEW y, NEW z, NEW c, NEW i, NEW a, NEW e, e = Edited(Doc(x, y, z), c, i, a), NEW l
  PROVE  Listing(e, l) = Edited(Doc(l, y, z), c, i, a)
<1>1. [Doc(x, y, z) EXCEPT !.components = l] = Doc(l, y, z)
  BY DEF Doc
<1>2. Listing(e, l) = Edited([Doc(x, y, z) EXCEPT !.components = l], c, i, a)
  BY DEF Edited, Listing
<1> QED
  BY <1>1, <1>2

\* A graph with one component, imported when there are no commands.
LEMMA ImportTold ==
  ASSUME NEW h, Told(editor, h, {}), editor.commands = <<>>,
         NEW o \in Component \ editor.alive, NEW a \in [id : Id, at : Place],
         NEW e, e = Emptied(With(o, a))
  PROVE  \E s : /\ Told(Listing(e, <<o>>), Start(s), {})
                /\ Start(s)[0] = s
                /\ Listing(e, <<o>>).commands = <<>>
<1> DEFINE W == With(o, a)
           z == [editor.doc.attr EXCEPT ![o] = a]
           shown == Shown(W.doc)
           w == Blanked(z, shown)
           r == Listing(e, <<o>>)
<1>1. o \in Object \ editor.alive /\ a \in Attributes /\ o \in Object
  BY DEF Object, Attributes
<1>2. W = Edited(Doc(editor.doc.components, editor.doc.connections, z),
                 <<>>, editor.index, editor.alive \cup {o})
  BY <1>1, WithTold
<1>3. /\ Len(editor.commands) = 0 /\ editor.index = 0
      /\ editor.alive = ShownIn(h[0]) /\ Shows(editor.doc, h[0])
      /\ editor.doc.attr \in [Object -> Attributes]
  <2>1. Len(editor.commands) = 0
    OBVIOUS
  <2>2. editor.index = 0
    BY <2>1 DEF Told, Shape, Editor
  <2>3. ShownIn(h[0]) \subseteq editor.alive /\ \A q \in editor.alive : q \in ShownIn(h[0])
    BY <2>1 DEF Told, Lives
  <2>4. Shows(editor.doc, h[0])
    BY <2>2 DEF Told, Path
  <2>5. editor.doc.attr \in [Object -> Attributes]
    BY DEF Told, Shape, Editor, Document
  <2> QED
    BY <2>1, <2>2, <2>3, <2>4, <2>5
<1>4. shown = editor.alive
  <2>1. W.doc.components = editor.doc.components /\ W.doc.connections = editor.doc.connections
    BY <1>2 DEF Edited, Doc
  <2>2. Shown(editor.doc) = ShownIn(h[0])
    BY <1>3, ShowsLists DEF Lists
  <2> QED
    BY <1>3, <2>1, <2>2 DEF Shown
<1>5. e = Edited(Doc(<<>>, <<>>, w), <<>>, 0, {o})
  <2> HIDE DEF W, z
  <2>1. Emptied(W) = Edited(Doc(<<>>, <<>>, Blanked(z, Shown(W.doc))), Forgotten(<<>>, Shown(W.doc)),
                            editor.index, (editor.alive \cup {o}) \ Shown(W.doc))
    <3> DEFINE x == editor.doc.components
               y == editor.doc.connections
               j == editor.index
               b == editor.alive \cup {o}
    <3>1. W = Edited(Doc(x, y, z), <<>>, j, b)
      BY <1>2
    <3> HIDE DEF x, y, j, b
    <3>2. Emptied(W) = Bare(z, <<>>, j, b, Shown(W.doc))
      BY <3>1, EmptiedIs
    <3> QED
      BY <3>2 DEF j, b, Bare
  <2>2. (editor.alive \cup {o}) \ Shown(W.doc) = {o}
    BY <1>1, <1>4
  <2> QED
    BY <1>3, <2>1, <2>2, NothingLeft DEF W
<1>6. w \in [Object -> Attributes] /\ w[o] = a
  <2>1. z \in [Object -> Attributes] /\ z[o] = a
    BY <1>1, <1>3
  <2> HIDE DEF z
  <2>2. o \notin shown
    BY <1>1, <1>4
  <2> HIDE DEF shown
  <2> QED
    BY <1>1, <2>1, <2>2, BlankIsAttributes DEF Blanked
<1> HIDE DEF w
<1>7. r = Edited(Doc(<<o>>, <<>>, w), <<>>, 0, {o})
  BY <1>5, ListIs
<1> HIDE DEF r
<1> DEFINE s == [components |-> {o}, connections |-> {}, attr |-> w]
<1>8. ShownIn(s) = {o}
  BY DEF ShownIn
<1>9. Sound(s)
  BY <1>6 DEF Sound, State, Proper, AttributesIn
<1>10. Shows(Doc(<<o>>, <<>>, w), s)
  <2>1. ToSet(<<>>) = {} /\ NoRepeats(<<>>) /\ ToSet(<<o>>) = {o} /\ NoRepeats(<<o>>)
    BY DEF ToSet, NoRepeats
  <2>2. Doc(<<o>>, <<>>, w) \in Document
    BY <1>6 DEF Doc, Document
  <2> QED
    BY <2>1, <2>2 DEF Shows, Doc
<1> HIDE DEF s
<1>11. Told(r, Start(s), {}) /\ Start(s)[0] = s
  BY <1>7, <1>8, <1>9, <1>10, StartTold
<1>12. r.commands = <<>>
  BY <1>7 DEF Edited
<1> QED
  BY <1>11, <1>12 DEF r

-----------------------------------------------------------------------------
(* The recorded history. *)

\* The contents that a graph can have.
Contents == SUBSET (Object \X Attributes)

\* What a document contains is the picture of the state it shows.
LEMMA ContentShown ==
  ASSUME NEW d, NEW s, Shows(d, s)
  PROVE  Content(d) = Picture(s) /\ Content(d) \in Contents
<1>1. Shown(d) = ShownIn(s) /\ d.attr = s.attr /\ d.attr \in [Object -> Attributes] /\ s \in State
  BY ShowsLists DEF Lists
<1>2. ShownIn(s) \subseteq Object
  BY <1>1, ShownApart
<1> QED
  BY <1>1, <1>2 DEF Content, Picture, Contents

\* The history q has the contents of the states of h, up to the n-th.
Recorded(q, n, h) ==
  /\ q \in Seq(Contents)
  /\ Len(q) = n + 1
  /\ \A j \in 0 .. n : q[j + 1] = Picture(h[j])

\* The history of the first commands,
LEMMA ShortHistory ==
  ASSUME NEW q, NEW n \in Nat, NEW h, Recorded(q, n, h), NEW m \in 0 .. n, NEW g,
         Retells(g, h, m + 1)
  PROVE  Recorded(SubSeq(q, 1, m + 1), m, g)
<1>1. q \in Seq(Contents) /\ Len(q) = n + 1 /\ m + 1 \in 1 .. n + 1 /\ m \in Nat
  BY DEF Recorded
<1>2. /\ SubSeq(q, 1, m + 1) \in Seq(Contents) /\ Len(SubSeq(q, 1, m + 1)) = m + 1
      /\ \A p \in 1 .. m + 1 : SubSeq(q, 1, m + 1)[p] = q[p]
  BY <1>1
<1>3. \A j \in 0 .. m : j + 1 \in 1 .. m + 1 /\ j \in 0 .. n /\ j \in 0 .. (m + 1) - 1
  BY <1>1
<1> QED
  BY <1>2, <1>3 DEF Recorded, Retells

\* and with one more.
LEMMA LongHistory ==
  ASSUME NEW q, NEW n \in Nat, NEW h, Recorded(q, n, h), NEW m \in 1 .. n + 1, NEW g,
         Retells(g, h, m), NEW x \in Contents, x = Picture(g[m])
  PROVE  Recorded(Append(SubSeq(q, 1, m), x), m, g)
<1> DEFINE s == SubSeq(q, 1, m)
           r == Append(s, x)
<1>1. q \in Seq(Contents) /\ Len(q) = n + 1 /\ m \in Nat
  BY DEF Recorded
<1>2. s \in Seq(Contents) /\ Len(s) = m /\ \A p \in 1 .. m : s[p] = q[p]
  BY <1>1
<1> HIDE DEF s
<1>3. r \in Seq(Contents) /\ Len(r) = m + 1 /\ r[m + 1] = x /\ \A p \in 1 .. m : r[p] = s[p]
  BY <1>1, <1>2
<1> HIDE DEF r
<1>4. ASSUME NEW j \in 0 .. m PROVE r[j + 1] = Picture(g[j])
  <2>1. CASE j = m
    BY <1>3, <2>1
  <2>2. CASE j # m
    <3>1. j + 1 \in 1 .. m /\ j \in 0 .. n /\ j \in 0 .. m - 1
      BY <1>1, <2>2
    <3>2. r[j + 1] = q[j + 1]
      BY <1>2, <1>3, <3>1
    <3>3. q[j + 1] = Picture(h[j]) /\ Picture(g[j]) = Picture(h[j])
      BY <3>1 DEF Recorded, Retells
    <3> QED
      BY <3>2, <3>3
  <2> QED
    BY <2>1, <2>2
<1>5. Recorded(r, m, g)
  BY <1>3, <1>4 DEF Recorded
<1> QED
  BY <1>5 DEF r, s

\* A tale, and the history that goes with it.
Chronicle(e, q) == \E h : Told(e, h, {}) /\ Recorded(q, Len(e.commands), h)

\* Discarding the commands that can be redone changes nothing of the past,
LEMMA DiscardRetells ==
  ASSUME NEW e, NEW h, NEW new, Told(e, h, new)
  PROVE  Retells(Tale(h, e.index, Gone(e.commands, e.index), Blank), h, e.index + 1)
<1> DEFINE gone == Gone(e.commands, e.index)
           i == e.index
<1>1. i \in Nat /\ 0 .. i \subseteq 0 .. Len(e.commands) /\ (i + 1) - 1 = i
  BY DEF Told, Shape, Editor
<1>2. \A j \in 0 .. i : Sound(h[j]) /\ gone \cap ShownIn(h[j]) = {}
  BY <1>1, GoneIsUnseen DEF Told, Path
<1> HIDE DEF gone
<1>3. \A j \in 0 .. i : Picture(Tale(h, i, gone, Blank)[j]) = Picture(h[j])
  BY <1>1, <1>2, BlankIsAttributes, TaleIs
<1>4. Retells(Tale(h, i, gone, Blank), h, i + 1)
  BY <1>1, <1>3 DEF Retells
<1> QED
  BY <1>4 DEF gone

\* and neither does a new object.
LEMMA WithRetells ==
  ASSUME NEW h, Told(editor, h, {}), NEW o \in Object \ editor.alive, NEW a \in Attributes
  PROVE  Retells(Tale(h, Len(editor.commands), {o}, a), h, Len(editor.commands) + 1)
<1> DEFINE N == Len(editor.commands)
<1>1. N \in Nat /\ (N + 1) - 1 = N
  BY DEF Told, Shape, Editor
<1>2. \A j \in 0 .. N : Sound(h[j]) /\ {o} \cap ShownIn(h[j]) = {}
  BY WithTold DEF Told, Path
<1> HIDE DEF N
<1>3. \A j \in 0 .. N : Picture(Tale(h, N, {o}, a)[j]) = Picture(h[j])
  BY <1>1, <1>2, TaleIs
<1>4. Retells(Tale(h, N, {o}, a), h, N + 1)
  BY <1>1, <1>3 DEF Retells
<1> QED
  BY <1>4 DEF N

\* What the pushed command leaves, and what is left of it when it is rolled back.
LEMMA PushChronicle ==
  ASSUME NEW e, NEW h, NEW new, Told(e, h, new), Recorded(past, Len(e.commands), h),
         NEW k, Ready(k, h[e.index], new)
  PROVE  /\ Chronicle(Push(e, k), After(Push(e, k)))
         /\ Chronicle(DiscardRedoHistory(UndoTop(Push(e, k))),
                      SubSeq(past, 1, DiscardRedoHistory(UndoTop(Push(e, k))).index + 1))
         /\ Len(Push(e, k).commands) \in 0 .. Len(past)
         /\ DiscardRedoHistory(UndoTop(Push(e, k))).index + 1 \in 0 .. Len(past)
<1> DEFINE r == Push(e, k)
           N == Len(e.commands)
           m == r.index
<1>1. PICK g : Told(r, g, {}) /\ m = Len(r.commands) /\ m \in 1 .. e.index + 1
               /\ Retells(g, h, m)
  BY PushTold
<1>2. N \in Nat /\ e.index \in Nat /\ e.index <= N
  BY DEF Told, Shape, Editor
<1> HIDE DEF r, N, m
<1>3. m \in 1 .. N + 1 /\ m \in 0 .. m /\ m = r.index
  BY <1>1, <1>2 DEF m
<1>0. Recorded(past, N, h)
  BY DEF N
<1>4. Shows(r.doc, g[m])
  BY <1>1, <1>3 DEF Told, Path
<1>5. Chronicle(r, After(r))
  <2> DEFINE x == Content(r.doc)
  <2>1. x = Picture(g[m]) /\ x \in Contents
    BY <1>4, ContentShown
  <2>2. After(r) = Append(SubSeq(past, 1, m), x)
    BY <1>1 DEF After
  <2> HIDE DEF x
  <2>3. Recorded(After(r), m, g)
    BY <1>0, <1>1, <1>2, <1>3, <2>1, <2>2, LongHistory
  <2> QED
    BY <1>1, <2>3 DEF Chronicle
<1>6. Chronicle(DiscardRedoHistory(UndoTop(r)),
                SubSeq(past, 1, DiscardRedoHistory(UndoTop(r)).index + 1))
      /\ DiscardRedoHistory(UndoTop(r)).index + 1 \in 0 .. Len(past)
  <2> DEFINE u == UndoTop(r)
             n == m - 1
             w == DiscardRedoHistory(u)
             f == Tale(g, n, Gone(u.commands, n), Blank)
  <2>0. m > 0 /\ r.index > 0
    BY <1>3
  <2>1. Told(u, g, {}) /\ u.index = n
    BY <1>1, <1>3, <2>0, UndoTold
  <2> HIDE DEF u
  <2>2. Told(w, f, {}) /\ w.index = n /\ Len(w.commands) = n
    BY <2>1, DiscardTold
  <2>3. Retells(f, g, n + 1)
    BY <2>1, DiscardRetells
  <2> HIDE DEF f
  <2>4. Retells(f, h, n + 1)
    <3>1. (n + 1) - 1 = n /\ n = m - 1
      BY <1>3
    <3> QED
      BY <1>1, <2>3, <3>1 DEF Retells
  <2>5. n \in 0 .. N /\ n + 1 \in 0 .. N + 1 /\ Len(past) = N + 1
    BY <1>0, <1>2, <1>3 DEF Recorded
  <2> HIDE DEF w, n
  <2>6. Recorded(SubSeq(past, 1, n + 1), n, f)
    BY <1>0, <1>2, <2>4, <2>5, ShortHistory
  <2>7. Chronicle(w, SubSeq(past, 1, w.index + 1))
    BY <2>2, <2>6 DEF Chronicle
  <2>8. w.index + 1 \in 0 .. Len(past)
    BY <2>2, <2>5
  <2> QED
    BY <2>7, <2>8 DEF w, u
<1>7. Len(r.commands) \in 0 .. Len(past)
  BY <1>0, <1>1, <1>2, <1>3 DEF Recorded
<1> QED
  BY <1>5, <1>6, <1>7 DEF r

\* Discarding the commands that can be redone cuts the history at the index.
LEMMA ForgetChronicle ==
  ASSUME NEW h, Told(editor, h, {}), Recorded(past, Len(editor.commands), h)
  PROVE  Chronicle(DiscardRedoHistory(editor), SubSeq(past, 1, editor.index + 1))
         /\ Len(DiscardRedoHistory(editor).commands) <= Len(editor.commands)
<1> DEFINE N == Len(editor.commands)
           i == editor.index
           f == Tale(h, i, Gone(editor.commands, i), Blank)
           w == DiscardRedoHistory(editor)
<1>1. N \in Nat /\ i \in 0 .. N
  BY DEF Told, Shape, Editor
<1>2. Told(w, f, {}) /\ w.index = i /\ Len(w.commands) = i
  BY DiscardTold
<1>3. Retells(f, h, i + 1)
  BY DiscardRetells
<1> HIDE DEF f, w
<1>0. Recorded(past, N, h)
  OBVIOUS
<1> HIDE DEF N, i
<1>4. Recorded(SubSeq(past, 1, i + 1), i, f)
  BY <1>0, <1>1, <1>3, ShortHistory
<1>5. Chronicle(w, SubSeq(past, 1, i + 1))
  BY <1>2, <1>4 DEF Chronicle
<1> QED
  BY <1>1, <1>2, <1>5 DEF w, i, N

\* A graph without commands has a history of one content.
LEMMA StartChronicle ==
  ASSUME NEW e, NEW s, Told(e, Start(s), {}), Start(s)[0] = s, e.commands = <<>>,
         NEW q, q = <<Content(e.doc)>>
  PROVE  Chronicle(e, q)
<1>1. Len(e.commands) = 0 /\ e.index = 0
  BY DEF Told, Shape, Editor
<1>2. Shows(e.doc, s)
  BY <1>1 DEF Told, Path
<1>3. Content(e.doc) = Picture(s) /\ Content(e.doc) \in Contents
  BY <1>2, ContentShown
<1> DEFINE x == Content(e.doc)
<1> HIDE DEF x
<1>4. x = Picture(s) /\ x \in Contents /\ q = <<x>>
  BY <1>3 DEF x
<1>5. q \in Seq(Contents) /\ Len(q) = 0 + 1 /\ q[1] = Picture(s)
  BY <1>4
<1>6. \A j \in 0 .. 0 : j = 0
  OBVIOUS
<1>7. Recorded(q, 0, Start(s))
  BY <1>5, <1>6 DEF Recorded
<1> QED
  BY <1>1, <1>7 DEF Chronicle

-----------------------------------------------------------------------------
(* Requests. *)

\* A request of a command that is ready.
Requested ==
  \E e, h, new, k :
    /\ Told(e, h, new) /\ Recorded(past, Len(e.commands), h)
    /\ Ready(k, h[e.index], new)
    /\ Request(e, k)

\* A request without a new object,
LEMMA PlainRequest ==
  ASSUME NEW h, Told(editor, h, {}), Recorded(past, Len(editor.commands), h),
         NEW k, Ready(k, h[editor.index], {}), Request(editor, k)
  PROVE  Requested
BY DEF Requested

\* and one with a new object, whose id is free.
LEMMA AdditionRequest ==
  ASSUME NEW h, Told(editor, h, {}), Recorded(past, Len(editor.commands), h),
         NEW f \in Lists, NEW o \in Things(f), o \notin editor.alive,
         NEW a \in AttributesIn(f), ~Taken(f, a.id), Request(With(o, a), Add(f, o))
  PROVE  Requested
<1> DEFINE N == Len(editor.commands)
           i == editor.index
           e == With(o, a)
           g == Tale(h, N, {o}, a)
           s == h[i]
           t == g[i]
           k == Add(f, o)
<1>1. o \in Object \ editor.alive /\ a \in Attributes
  BY DEF Things, Lists, Object, AttributesIn, Attributes
<1>2. N \in Nat /\ i \in 0 .. N /\ Shows(editor.doc, s) /\ Sound(s)
      /\ \A n \in 0 .. N : Sound(h[n])
  BY DEF Told, Shape, Editor, Path
<1>3. Told(e, g, {o}) /\ e.commands = editor.commands /\ e.index = i
      /\ \A n \in 0 .. N : o \notin ShownIn(h[n])
  <2>1. /\ Told(e, g, {o})
        /\ e = Edited(Doc(editor.doc.components, editor.doc.connections,
                          [editor.doc.attr EXCEPT ![o] = a]),
                      editor.commands, editor.index, editor.alive \cup {o})
        /\ \A n \in 0 .. N : o \notin ShownIn(h[n])
    BY <1>1, WithTold
  <2> QED
    BY <2>1 DEF Edited
<1>4. Recorded(past, N, g)
  <2>1. Retells(g, h, N + 1)
    BY <1>1, WithRetells
  <2>2. (N + 1) - 1 = N
    BY <1>2
  <2> HIDE DEF g
  <2> QED
    BY <2>1, <2>2 DEF Recorded, Retells
<1>5. t = Reset(s, {o}, a) /\ {o} \cap ShownIn(s) = {}
  <2>1. \A n \in 0 .. N : Sound(h[n]) /\ {o} \cap ShownIn(h[n]) = {}
    BY <1>2, <1>3
  <2> HIDE DEF N, s
  <2>2. g[i] = Reset(h[i], {o}, a)
    BY <1>1, <1>2, <2>1, TaleIs
  <2> QED
    BY <1>2, <2>1, <2>2 DEF s
<1> HIDE DEF s, t, e
<1>6. /\ t.components = s.components /\ t.connections = s.connections
      /\ t.attr[o] = a /\ \A q \in ShownIn(s) : t.attr[q] = s.attr[q]
  <2>1. /\ Reset(s, {o}, a).components = s.components
        /\ Reset(s, {o}, a).connections = s.connections
        /\ \A q \in Object : Reset(s, {o}, a).attr[q] = IF q \in {o} THEN a ELSE s.attr[q]
        /\ \A q \in ShownIn(s) : Reset(s, {o}, a).attr[q] = s.attr[q]
    <3> DEFINE gone == {o}
    <3>1. gone \cap ShownIn(s) = {}
      BY <1>5
    <3> HIDE DEF gone, g, k
    <3>2. /\ Reset(s, gone, a).components = s.components
          /\ Reset(s, gone, a).connections = s.connections
          /\ \A q \in Object : Reset(s, gone, a).attr[q] = IF q \in gone THEN a ELSE s.attr[q]
      BY DEF Reset
    <3>3. \A q \in ShownIn(s) : q \in Object /\ q \notin gone
      BY <1>2, <3>1, ShownApart DEF Sound
    <3>4. \A q \in ShownIn(s) : Reset(s, gone, a).attr[q] = s.attr[q]
      BY <3>2, <3>3
    <3> QED
      BY <3>2, <3>4 DEF gone
  <2> QED
    BY <1>1, <1>5, <2>1
<1>7. t[f] = s[f] /\ o \notin s[f] /\ \A q \in s[f] : q \in ShownIn(s)
  BY <1>5, <1>6 DEF Lists, ShownIn
<1>8. ASSUME NEW q \in s[f], s.attr[q].id = a.id PROVE FALSE
  <2>1. Named(editor.doc, f, a.id) = q
    BY <1>2, <1>8, NamedIs
  <2>2. q # None
    <3>1. s[f] \subseteq Things(f) /\ Things(f) \subseteq Object
      BY <1>2, SoundLists
    <3> QED
      BY <3>1, NoneIsNoObject
  <2> QED
    BY <2>1, <2>2 DEF Taken
<1>9. \A q \in t[f] : t.attr[q].id # t.attr[o].id
  BY <1>6, <1>7, <1>8
<1>10. Ready(k, t, {o})
  <2>1. ReadyAdd(k, t, {o})
    BY <1>6, <1>7, <1>9 DEF ReadyAdd
  <2> QED
    BY <2>1 DEF Ready
<1>11. Request(e, k)
  BY DEF e
<1> HIDE DEF g, k
<1>12. Ready(k, g[e.index], {o}) /\ Recorded(past, Len(e.commands), g) /\ Told(e, g, {o})
  BY <1>3, <1>4, <1>10 DEF t
<1> QED
  BY <1>11, <1>12 DEF Requested

\* Callers make requests that are checked, or not, but none of the calls by which
\* they are known to break the stack: no component or connection is created with
\* an id that is taken (GraphEditorController::createComponentWithId and the
\* gateway's addConnection do not ask), or renamed to one, and nothing is imported
\* over a stack that still holds commands.
OnlyDirect == Callers \subseteq {"direct"}

\* Adding a component is a request of a command that is ready,
LEMMA AddComponentRequests ==
  ASSUME OnlyDirect, Chronicle(editor, past), AddComponent
  PROVE  Requested
<1>1. PICK h : Told(editor, h, {}) /\ Recorded(past, Len(editor.commands), h)
  BY DEF Chronicle
<1>2. PICK o \in Free(Component), i \in Id, x \in Place :
        /\ Taken("components", i) => "reuse" \in Callers
        /\ Request(With(o, [id |-> i, at |-> x]), Add("components", o))
  BY DEF AddComponent
<1> DEFINE a == [id |-> i, at |-> x]
<1>3. /\ a \in AttributesIn("components") /\ a.id = i
      /\ o \in Things("components") /\ o \notin editor.alive /\ "components" \in Lists
  BY DEF AttributesIn, Things, Free, Lists
<1>4. "reuse" \notin Callers
  BY DEF OnlyDirect
<1>5. ~Taken("components", a.id) /\ Request(With(o, a), Add("components", o))
  BY <1>2, <1>3, <1>4
<1> HIDE DEF a
<1> QED
  BY <1>1, <1>3, <1>5, AdditionRequest

\* so is adding a connection, with an id of its own,
LEMMA AddConnectionRequests ==
  ASSUME OnlyDirect, Chronicle(editor, past), AddConnection
  PROVE  Requested
<1>1. PICK h : Told(editor, h, {}) /\ Recorded(past, Len(editor.commands), h)
  BY DEF Chronicle
<1>2. PICK o \in Free(Connection), i \in ConnectionId, s \in Id, t \in Id :
        /\ Taken("connections", i) => "reuse" \in Callers
        /\ Request(With(o, [id |-> i, source |-> s, target |-> t]), Add("connections", o))
  BY DEF AddConnection, Request
<1> DEFINE a == [id |-> i, source |-> s, target |-> t]
<1>3. /\ a \in AttributesIn("connections") /\ a.id = i
      /\ o \in Things("connections") /\ o \notin editor.alive /\ "connections" \in Lists
  BY DEF AttributesIn, Things, Free, Lists
<1>5. "reuse" \notin Callers
  BY DEF OnlyDirect
<1>4. ~Taken("connections", a.id) /\ Request(With(o, a), Add("connections", o))
  BY <1>2, <1>3, <1>5
<1> HIDE DEF a
<1> QED
  BY <1>1, <1>3, <1>4, AdditionRequest

\* and removing either.
LEMMA RemoveByRequestRequests ==
  ASSUME Chronicle(editor, past), RemoveByRequest
  PROVE  Requested
<1>1. PICK h : Told(editor, h, {}) /\ Recorded(past, Len(editor.commands), h)
  BY DEF Chronicle
<1> DEFINE s == h[editor.index]
<1>2. Shows(editor.doc, s) /\ Sound(s)
  BY <1>1 DEF Told, Shape, Editor, Path
<1> HIDE DEF s
<1>3. CASE \E i \in Id : Taken("components", i) /\ Request(editor, RemoveComponent(i))
  <2>1. PICK i \in Id : Taken("components", i) /\ Request(editor, RemoveComponent(i))
    BY <1>3
  <2> DEFINE o == Named(editor.doc, "components", i)
  <2>2. o # None /\ "components" \in Lists
    BY <2>1 DEF Taken, Lists
  <2>3. o \in s["components"] /\ s.attr[o].id = i
    BY <1>2, <2>2, NamedIsSomeone
  <2> HIDE DEF o
  <2>4. ReadyRemoveComponent(RemoveComponent(i), s)
    BY <2>3 DEF ReadyRemoveComponent
  <2>5. Ready(RemoveComponent(i), h[editor.index], {})
    BY <2>4 DEF Ready, s
  <2> QED
    BY <1>1, <2>1, <2>5, PlainRequest
<1>4. CASE \E i \in ConnectionId : Request(editor, RemoveLink(i))
  <2>1. PICK i \in ConnectionId : Request(editor, RemoveLink(i))
    BY <1>4
  <2>2. ReadyRemoveLink(RemoveLink(i))
    BY DEF ReadyRemoveLink
  <2>3. Ready(RemoveLink(i), h[editor.index], {})
    BY <2>2 DEF Ready
  <2> QED
    BY <1>1, <2>1, <2>3, PlainRequest
<1> QED
  BY <1>3, <1>4 DEF RemoveByRequest

\* Moving components is a request of a command that is ready,
LEMMA MoveComponentsRequests ==
  ASSUME Chronicle(editor, past), MoveComponents
  PROVE  Requested
<1>1. PICK h : Told(editor, h, {}) /\ Recorded(past, Len(editor.commands), h)
  BY DEF Chronicle
<1> DEFINE s == h[editor.index]
<1>2. Shows(editor.doc, s) /\ Sound(s) /\ editor.doc.attr = s.attr
  BY <1>1 DEF Told, Shape, Editor, Path, Shows
<1> HIDE DEF s
<1>3. PICK ids \in FewIds :
        \E to \in [DOMAIN ids -> Place] :
          /\ IsInjective(ids)
          /\ \A p \in DOMAIN ids : Taken("components", ids[p])
          /\ Request(editor, Move(MovesTo(ids, to)))
  BY DEF MoveComponents
<1>4. PICK to \in [DOMAIN ids -> Place] :
          /\ IsInjective(ids)
          /\ \A p \in DOMAIN ids : Taken("components", ids[p])
          /\ Request(editor, Move(MovesTo(ids, to)))
  BY <1>3
<1> DEFINE m == MovesTo(ids, to)
           at(p) == PlaceOf(ids[p])
<1>5. ids \in Seq(Id)
  <2>1. CASE \E i \in Id : ids = <<i>>
    BY <2>1
  <2>2. CASE \E i, j \in Id : ids = <<i, j>>
    BY <2>2
  <2> QED
    BY <2>1, <2>2 DEF FewIds
<1>6. ASSUME NEW p \in DOMAIN ids
      PROVE  /\ at(p) \in Place
             /\ \A o \in s.components : s.attr[o].id = ids[p] => s.attr[o].at = at(p)
  <2> DEFINE q == Named(editor.doc, "components", ids[p])
  <2>1. q # None /\ "components" \in Lists
    BY <1>4 DEF Taken, Lists
  <2>2. q \in s.components /\ s.attr[q].id = ids[p]
    <3>1. q \in s["components"] /\ s.attr[q].id = ids[p]
      BY <1>2, <2>1, NamedIsSomeone
    <3> QED
      BY <3>1
  <2>3. at(p) = s.attr[q].at
    BY <1>2 DEF PlaceOf
  <2> HIDE DEF q
  <2>4. s.attr[q] \in [id : Id, at : Place]
    BY <1>2, <2>2 DEF Sound, Proper, AttributesIn
  <2>5. \A o \in s.components : s.attr[o].id = ids[p] => o = q
    BY <1>2, <2>2 DEF Sound, Proper
  <2> QED
    BY <2>3, <2>4, <2>5
<1>7. DOMAIN ids = 1 .. Len(ids) /\ Len(ids) \in Nat /\ \A p \in DOMAIN ids : ids[p] \in Id
  BY <1>5
<1>8. /\ DOMAIN m = DOMAIN ids
      /\ \A p \in DOMAIN ids : /\ m[p] \in OneMove
                               /\ m[p].id = ids[p] /\ m[p].old = at(p)
  BY <1>4, <1>6, <1>7 DEF OneMove, MovesTo
<1>9. m \in Seq(OneMove)
  <2>1. m \in [1 .. Len(ids) -> OneMove]
    <3>1. m = [p \in DOMAIN ids |-> m[p]]
      BY DEF MovesTo
    <3> HIDE DEF m
    <3> QED
      BY <1>7, <1>8, <3>1
  <2> HIDE DEF m
  <2> QED
    BY <1>7, <2>1
<1> HIDE DEF m
<1>10. /\ \A p, q \in DOMAIN m : m[p].id = m[q].id => p = q
       /\ \A p \in DOMAIN m : \A o \in s.components :
            s.attr[o].id = m[p].id => s.attr[o].at = m[p].old
  <2>1. \A p, q \in DOMAIN ids : ids[p] = ids[q] => p = q
    BY <1>4 DEF IsInjective
  <2> QED
    BY <1>6, <1>8, <2>1
<1>11. ReadyMove(Move(m), s)
  BY <1>9, <1>10 DEF ReadyMove
<1>12. Ready(Move(m), h[editor.index], {})
  BY <1>11 DEF Ready, s
<1>13. Request(editor, Move(m))
  BY <1>4 DEF m
<1> QED
  BY <1>1, <1>12, <1>13, PlainRequest

\* and so is setting a property.
LEMMA SetPropertyRequests ==
  ASSUME OnlyDirect, Chronicle(editor, past), SetProperty
  PROVE  Requested
<1>1. PICK h : Told(editor, h, {}) /\ Recorded(past, Len(editor.commands), h)
  BY DEF Chronicle
<1> DEFINE s == h[editor.index]
<1>2. Shows(editor.doc, s) /\ Sound(s) /\ editor.doc.attr = s.attr /\ Shown(editor.doc) = ShownIn(s)
      /\ s.components \subseteq Component /\ s.connections \subseteq Connection
  <2>1. Shows(editor.doc, s) /\ Sound(s)
    BY <1>1 DEF Told, Shape, Editor, Path
  <2> HIDE DEF s
  <2>2. editor.doc.attr = s.attr /\ Shown(editor.doc) = ShownIn(s) /\ s \in State
    BY <2>1, ShowsLists DEF Lists
  <2> QED
    BY <2>1, <2>2, ShownApart
<1> HIDE DEF s
<1>3. PICK o \in ShownIn(s) : \E y \in DOMAIN s.attr[o] :
        \E x \in IF y = "at" THEN Place
                 ELSE IF y = "id" /\ o \in Connection THEN ConnectionId ELSE Id :
          /\ y = "id" =>
               \/ ~Taken(IF o \in Component THEN "components" ELSE "connections", x)
               \/ "rename" \in Callers
          /\ Request(editor, Set(o, y, s.attr[o][y], x))
  BY <1>2 DEF SetProperty
<1>4. PICK y \in DOMAIN s.attr[o] :
        \E x \in IF y = "at" THEN Place
                 ELSE IF y = "id" /\ o \in Connection THEN ConnectionId ELSE Id :
          /\ y = "id" =>
               \/ ~Taken(IF o \in Component THEN "components" ELSE "connections", x)
               \/ "rename" \in Callers
          /\ Request(editor, Set(o, y, s.attr[o][y], x))
  BY <1>3
<1>5. PICK x \in IF y = "at" THEN Place
                 ELSE IF y = "id" /\ o \in Connection THEN ConnectionId ELSE Id :
          /\ y = "id" =>
               \/ ~Taken(IF o \in Component THEN "components" ELSE "connections", x)
               \/ "rename" \in Callers
          /\ Request(editor, Set(o, y, s.attr[o][y], x))
  BY <1>4
<1> DEFINE f == IF o \in Component THEN "components" ELSE "connections"
<1>6. f \in Lists /\ o \in s[f] /\ (f = "components" <=> o \in Component)
      /\ (f = "components" => o \notin Connection) /\ (f # "components" => o \in Connection)
  BY <1>2, KindsAreDisjoint DEF Lists, ShownIn
<1>7. s.attr[o] \in AttributesIn(f)
  <2> HIDE DEF f
  <2>1. Proper(s, f)
    BY <1>2, <1>6, SoundLists
  <2> QED
    BY <1>6, <2>1 DEF Proper
<1>8. [s.attr[o] EXCEPT ![y] = x] \in AttributesIn(f) /\ x \in Id \cup ConnectionId \cup Place
  <2> DEFINE v == s.attr[o]
  <2>0. v \in AttributesIn(f) /\ y \in DOMAIN v
    BY <1>7
  <2>1. CASE f = "components"
    <3>1. v \in [id : Id, at : Place]
      BY <2>0, <2>1 DEF AttributesIn
    <3>2. y \in {"id", "at"}
      BY <2>0, <3>1
    <3>3. (y = "id" => x \in Id) /\ (y = "at" => x \in Place)
      BY <1>5, <1>6, <2>1, <3>2
    <3> HIDE DEF v, f
    <3>4. [v EXCEPT ![y] = x] \in [id : Id, at : Place]
      <4>1. CASE y = "id"
        BY <3>1, <3>3, <4>1
      <4>2. CASE y = "at"
        BY <3>1, <3>3, <4>2
      <4> QED
        BY <3>2, <4>1, <4>2
    <3> QED
      BY <2>1, <3>2, <3>3, <3>4 DEF AttributesIn, v
  <2>2. CASE f # "components"
    <3>1. v \in [id : ConnectionId, source : Id, target : Id]
      BY <2>0, <2>2 DEF AttributesIn
    <3>2. y \in {"id", "source", "target"}
      BY <2>0, <3>1
    <3>3. (y = "id" => x \in ConnectionId) /\ (y # "id" => x \in Id)
      BY <1>5, <1>6, <2>2, <3>2
    <3> HIDE DEF v, f
    <3>4. [v EXCEPT ![y] = x] \in [id : ConnectionId, source : Id, target : Id]
      <4>1. CASE y = "id"
        BY <3>1, <3>3, <4>1
      <4>2. CASE y = "source"
        BY <3>1, <3>3, <4>2
      <4>3. CASE y = "target"
        BY <3>1, <3>3, <4>3
      <4> QED
        BY <3>2, <4>1, <4>2, <4>3
    <3> QED
      BY <2>2, <3>2, <3>3, <3>4 DEF AttributesIn, v
  <2> QED
    BY <2>1, <2>2
<1>9. y = "id" => \A q \in s[f] : s.attr[q].id # x
  <2> SUFFICES ASSUME y = "id", NEW q \in s[f], s.attr[q].id = x PROVE FALSE
    OBVIOUS
  <2>1. ~Taken(f, x)
    <3>1. "rename" \notin Callers
      BY DEF OnlyDirect
    <3> QED
      BY <1>5, <3>1
  <2> HIDE DEF f
  <2>2. Named(editor.doc, f, x) = q
    BY <1>2, <1>6, NamedIs
  <2>3. q # None
    <3>1. s[f] \subseteq Things(f) /\ Things(f) \subseteq Object
      BY <1>2, <1>6, SoundLists
    <3> QED
      BY <3>1, NoneIsNoObject
  <2> QED
    BY <2>1, <2>2, <2>3 DEF Taken
<1> HIDE DEF f
<1>10. ReadySet(Set(o, y, s.attr[o][y], x), s)
  BY <1>6, <1>8, <1>9 DEF ReadySet
<1>11. Ready(Set(o, y, s.attr[o][y], x), h[editor.index], {})
  BY <1>10 DEF Ready, s
<1> QED
  BY <1>1, <1>5, <1>11, PlainRequest

-----------------------------------------------------------------------------
(* The inductive invariant. *)

\* The ends of a request, as TypeOK has them.
Verdicts == {"none", "blocked", "accepted", "rolledBack"}

\* The inductive invariant: some tale tells how the commands of the stack made the
\* graph, and the history has its pictures.
Inv ==
  /\ Chronicle(editor, past)
  /\ Len(editor.commands) <= MaxCommands
  /\ verdict \in Verdicts

\* The tale of the initial state is that of an empty graph and an empty stack.
LEMMA InitInv ==
  ASSUME Init
  PROVE  Inv
<1> DEFINE z == [o \in Object |-> Blank]
           d == [components |-> <<>>, connections |-> <<>>, attr |-> z]
           s == [components |-> {}, connections |-> {}, attr |-> z]
<1>1. /\ editor = [doc |-> d, commands |-> <<>>, index |-> 0, alive |-> {}]
      /\ verdict = "none" /\ past = <<{}>>
  BY DEF Init
<1>2. z \in [Object -> Attributes]
  BY BlankIsAttributes
<1> HIDE DEF z
<1>3. ShownIn(s) = {} /\ Picture(s) = {}
  BY DEF ShownIn, Picture
<1>4. Sound(s)
  BY <1>2 DEF Sound, State, Proper
<1>5. Shows(d, s)
  <2>1. ToSet(<<>>) = {} /\ NoRepeats(<<>>)
    BY DEF ToSet, NoRepeats
  <2>2. d \in Document
    BY <1>2 DEF Document
  <2> QED
    BY <2>1, <2>2 DEF Shows
<1> HIDE DEF d, s
<1>6. editor = Edited(d, <<>>, 0, ShownIn(s))
  BY <1>1, <1>3 DEF Edited
<1>7. Told(editor, Start(s), {}) /\ Start(s)[0] = s
  BY <1>4, <1>5, <1>6, StartTold
<1>8. Content(d) = {}
  BY <1>3, <1>5, ContentShown
<1>9. past = <<Content(editor.doc)>> /\ editor.commands = <<>>
  BY <1>1, <1>8
<1>10. Chronicle(editor, past)
  BY <1>7, <1>9, StartChronicle
<1>11. Len(editor.commands) = 0
  BY <1>9
<1> QED
  BY <1>1, <1>10, <1>11, BoundIsNatural DEF Inv, Verdicts

\* A request keeps the invariant, however it ends.
LEMMA RequestKeeps ==
  ASSUME Inv, Requested
  PROVE  Inv'
<1>1. PICK e, h, new, k :
        /\ Told(e, h, new) /\ Recorded(past, Len(e.commands), h)
        /\ Ready(k, h[e.index], new)
        /\ Request(e, k)
  BY DEF Requested
<1> DEFINE p == Push(e, k)
           u == DiscardRedoHistory(UndoTop(p))
<1>2. Chronicle(p, After(p)) /\ Chronicle(u, SubSeq(past, 1, u.index + 1))
  BY <1>1, PushChronicle
<1>3. PushUnchecked(p) \/ BlockedBefore \/ Accept(p) \/ RollBack(p)
  BY <1>1 DEF Request
<1> HIDE DEF p
<1>4. CASE PushUnchecked(p)
  BY <1>2, <1>4 DEF PushUnchecked, Becomes, Inv, Verdicts
<1>5. CASE BlockedBefore
  BY <1>5 DEF BlockedBefore, Inv, Verdicts
<1>6. CASE Accept(p)
  BY <1>2, <1>6 DEF Accept, Becomes, Inv, Verdicts
<1>7. CASE RollBack(p)
  <2>1. /\ Len(u.commands) <= MaxCommands /\ editor' = u
        /\ past' = SubSeq(past, 1, u.index + 1) /\ verdict' = "rolledBack"
    BY <1>7 DEF RollBack, Becomes
  <2> HIDE DEF u
  <2> QED
    BY <1>2, <2>1 DEF Inv, Verdicts
<1> QED
  BY <1>3, <1>4, <1>5, <1>6, <1>7

\* Undoing and redoing keep the invariant: the tale stays, the index moves.
LEMMA UndoRedoKeeps ==
  ASSUME Inv, UndoLast \/ RedoLast
  PROVE  Inv'
<1>1. PICK h : Told(editor, h, {}) /\ Recorded(past, Len(editor.commands), h)
  BY DEF Inv, Chronicle
<1>2. CASE UndoLast
  <2>1. editor.index > 0 /\ editor' = UndoTop(editor) /\ past' = past /\ verdict' = "none"
    BY <1>2 DEF UndoLast
  <2>2. Told(editor', h, {}) /\ Len(editor'.commands) = Len(editor.commands)
    BY <1>1, <2>1, UndoTold
  <2>3. Chronicle(editor', past')
    BY <1>1, <2>1, <2>2 DEF Chronicle
  <2> QED
    BY <2>1, <2>2, <2>3 DEF Inv, Verdicts
<1>3. CASE RedoLast
  <2>1. editor.index < Len(editor.commands) /\ editor' = RedoNext(editor) /\ past' = past
        /\ verdict' = "none"
    BY <1>3 DEF RedoLast
  <2>2. Told(editor', h, {}) /\ Len(editor'.commands) = Len(editor.commands)
    BY <1>1, <2>1, RedoTold
  <2>3. Chronicle(editor', past')
    BY <1>1, <2>1, <2>2 DEF Chronicle
  <2> QED
    BY <2>1, <2>2, <2>3 DEF Inv, Verdicts
<1> QED
  BY <1>2, <1>3

\* Forgetting what can be redone keeps the invariant.
LEMMA ForgetKeeps ==
  ASSUME Inv, ForgetRedo
  PROVE  Inv'
<1>1. PICK h : Told(editor, h, {}) /\ Recorded(past, Len(editor.commands), h)
  BY DEF Inv, Chronicle
<1>2. /\ editor' = DiscardRedoHistory(editor) /\ past' = SubSeq(past, 1, editor.index + 1)
      /\ verdict' = "none"
  BY DEF ForgetRedo
<1>3. Chronicle(editor', past') /\ Len(editor'.commands) <= Len(editor.commands)
  BY <1>1, <1>2, ForgetChronicle
<1>4. editor' \in Editor
  BY <1>3 DEF Chronicle, Told, Shape
<1>5. Len(editor'.commands) \in Nat /\ Len(editor.commands) \in Nat
  BY <1>1, <1>4 DEF Told, Shape, Editor
<1>6. Len(editor'.commands) <= MaxCommands
  BY <1>3, <1>5, BoundIsNatural DEF Inv
<1> QED
  BY <1>2, <1>3, <1>6 DEF Inv, Verdicts

\* Clearing starts a new tale.
LEMMA ClearKeeps ==
  ASSUME Inv, ClearAll
  PROVE  Inv' /\ editor'.doc \in Document /\ past' = <<Content(editor'.doc)>>
<1>1. PICK h : Told(editor, h, {})
  BY DEF Inv, Chronicle
<1>2. /\ editor' = ClearStack(Emptied(editor)) /\ past' = <<Content(editor'.doc)>>
      /\ verdict' = "none"
  BY DEF ClearAll
<1>3. PICK s : /\ Told(ClearStack(Emptied(editor)), Start(s), {}) /\ Start(s)[0] = s
               /\ ClearStack(Emptied(editor)).commands = <<>>
  BY <1>1, ClearTold
<1>4. Chronicle(editor', past')
  BY <1>2, <1>3, StartChronicle
<1>5. Len(editor'.commands) = 0
  BY <1>2, <1>3
<1>6. editor'.doc \in Document
  BY <1>2, <1>3 DEF Told, Shape, Editor
<1> QED
  BY <1>2, <1>4, <1>5, <1>6, BoundIsNatural DEF Inv, Verdicts

\* Importing onto an empty stack starts a new tale.
LEMMA ImportKeeps ==
  ASSUME Inv, OnlyDirect, Import
  PROVE  Inv' /\ editor'.doc \in Document /\ past' = <<Content(editor'.doc)>>
<1>1. PICK h : Told(editor, h, {}) /\ Recorded(past, Len(editor.commands), h)
  BY DEF Inv, Chronicle
<1>2. PICK o \in Free(Component), i \in Id, x \in Place :
        /\ editor.commands # <<>> => "import" \in Callers
        /\ editor' = Listing(Emptied(With(o, [id |-> i, at |-> x])), <<o>>)
        /\ past' = [past EXCEPT ![editor.index + 1] = Content(editor'.doc)]
        /\ verdict' = "none"
  BY DEF Import, Listing
<1> DEFINE a == [id |-> i, at |-> x]
           e == Emptied(With(o, a))
<1>3. editor.commands = <<>>
  BY <1>2 DEF OnlyDirect
<1>4. a \in [id : Id, at : Place] /\ o \in Component \ editor.alive
  BY DEF Free
<1> HIDE DEF a
<1>5. PICK s : /\ Told(Listing(e, <<o>>), Start(s), {}) /\ Start(s)[0] = s
               /\ Listing(e, <<o>>).commands = <<>>
  BY <1>1, <1>3, <1>4, ImportTold
<1>6. editor' = Listing(e, <<o>>)
  BY <1>2 DEF a
<1>7. Len(past) = 1 /\ editor.index = 0 /\ past \in Seq(Contents)
  <2>1. Len(editor.commands) = 0
    BY <1>3
  <2> QED
    BY <1>1, <2>1 DEF Told, Shape, Editor, Recorded
<1> HIDE DEF e
<1>8. past' = <<Content(editor'.doc)>>
  <2> DEFINE c == Content(editor'.doc)
             q == [past EXCEPT ![1] = c]
  <2>1. past' = q
    BY <1>2, <1>7
  <2> HIDE DEF c
  <2>2. q = <<c>>
    BY <1>7
  <2> QED
    BY <2>1, <2>2 DEF c
<1>9. Chronicle(editor', past')
  BY <1>5, <1>6, <1>8, StartChronicle
<1>10. Len(editor'.commands) = 0
  BY <1>5, <1>6
<1>11. editor'.doc \in Document
  BY <1>5, <1>6 DEF Told, Shape, Editor
<1> QED
  BY <1>2, <1>8, <1>9, <1>10, <1>11, BoundIsNatural DEF Inv, Verdicts

\* Every step is one of these.
LEMMA NextRequests ==
  ASSUME Chronicle(editor, past), OnlyDirect, Next
  PROVE  Requested \/ UndoLast \/ RedoLast \/ ForgetRedo \/ ClearAll \/ Import
BY AddComponentRequests, AddConnectionRequests, RemoveByRequestRequests, MoveComponentsRequests,
   SetPropertyRequests DEF Next

\* Whatever is requested, undone, redone, forgotten, cleared and imported, in
\* whatever order, some tale tells how the commands of the stack made the graph:
\* undoing them leads back through its states, redoing them forward.
THEOREM Invariance ==
  ASSUME OnlyDirect
  PROVE  Spec => []Inv
<1>1. Init => Inv
  BY InitInv
<1>2. Inv /\ [Next]_vars => Inv'
  <2> SUFFICES ASSUME Inv, [Next]_vars PROVE Inv'
    OBVIOUS
  <2>1. CASE Next
    BY <2>1, NextRequests, RequestKeeps, UndoRedoKeeps, ForgetKeeps, ClearKeeps, ImportKeeps DEF Inv
  <2>2. CASE UNCHANGED vars
    BY <2>2 DEF Inv, vars
  <2> QED
    BY <2>1, <2>2
<1> QED
  BY <1>1, <1>2, PTL DEF Spec

-----------------------------------------------------------------------------
(* The theorems. *)

\* The registered invariants hold of a graph or do not.
LegalIsBoolean == \A d \in Document : Legal(d) \in BOOLEAN

\* After any undos and redos the graph is again the one that was there at that
\* position of the stack (UndoStack::undo, redo and GraphCommands), as long as no
\* caller gives a component or a connection an id that is taken: the graph would
\* refuse the newcomer and the undo remove the other.
THEOREM HistoryIsAlwaysExact ==
  ASSUME OnlyDirect
  PROVE  Spec => []HistoryIsExact
<1>1. Inv => HistoryIsExact
  <2> SUFFICES ASSUME Inv PROVE HistoryIsExact
    OBVIOUS
  <2>1. PICK h : Told(editor, h, {}) /\ Recorded(past, Len(editor.commands), h)
    BY DEF Inv, Chronicle
  <2>2. editor.index \in 0 .. Len(editor.commands) /\ Shows(editor.doc, h[editor.index])
    BY <2>1 DEF Told, Shape, Editor, Path
  <2>3. Content(editor.doc) = Picture(h[editor.index])
    BY <2>2, ContentShown
  <2> QED
    BY <2>1, <2>2, <2>3 DEF Recorded, HistoryIsExact
<1> QED
  BY <1>1, Invariance, PTL

\* An object that exists is shown by the graph or owned by exactly one command,
\* never both and never two, and no command points to one that was deleted: no
\* removal and no discarded redo deletes an object twice, or one that the canvas
\* still shows (m_owned and the QPointers of GraphCommands); as long as no caller
\* gives an id that is taken, which would leave the refused object to nobody.
THEOREM EverythingHasOneOwner ==
  ASSUME OnlyDirect
  PROVE  Spec => []OneOwner
<1>1. Inv => OneOwner
  <2> SUFFICES ASSUME Inv PROVE OneOwner
    OBVIOUS
  <2>1. PICK h : Told(editor, h, {})
    BY DEF Inv, Chronicle
  <2>2. ASSUME NEW o \in editor.alive
        PROVE  Cardinality(OwnersOf(o)) = IF o \in Shown(editor.doc) THEN 0 ELSE 1
    <3>1. IF o \in Shown(editor.doc) THEN OwnersOf(o) = {} ELSE \E p : OwnersOf(o) = {p}
      BY <2>1, OwnersAre DEF OwnersOf
    <3>2. CASE o \in Shown(editor.doc)
      BY <3>1, <3>2, FS_EmptySet
    <3>3. CASE o \notin Shown(editor.doc)
      <4>1. PICK p : OwnersOf(o) = {p}
        BY <3>1, <3>3
      <4>2. Cardinality({p}) = 1
        BY FS_Singleton
      <4> QED
        BY <3>3, <4>1, <4>2
    <3> QED
      BY <3>2, <3>3
  <2>3. /\ Len(editor.commands) \in Nat /\ editor.index \in 0 .. Len(editor.commands)
        /\ DOMAIN editor.commands = 1 .. Len(editor.commands)
        /\ Shows(editor.doc, h[editor.index])
    BY <2>1 DEF Told, Shape, Editor, Path
  <2>4. \A n \in 0 .. Len(editor.commands) : ShownIn(h[n]) \subseteq editor.alive
    BY <2>1 DEF Told, Lives
  <2>5. Shown(editor.doc) \subseteq editor.alive
    <3>1. Shown(editor.doc) = ShownIn(h[editor.index])
      BY <2>3, ShowsLists DEF Lists
    <3> QED
      BY <2>3, <2>4, <3>1
  <2>6. ASSUME NEW p \in DOMAIN editor.commands
        PROVE  PointsTo(editor.commands[p]) \subseteq editor.alive
    <3>1. p \in 1 .. Len(editor.commands) /\ p \in 0 .. Len(editor.commands)
          /\ p - 1 \in 0 .. Len(editor.commands)
      BY <2>3
    <3>2. Explains(editor.commands[p], h[p - 1], h[p])
      BY <2>1, <3>1, CommandsExplain
    <3> QED
      BY <2>4, <3>1, <3>2 DEF Explains
  <2> QED
    BY <2>2, <2>5, <2>6 DEF OneOwner
<1> QED
  BY <1>1, Invariance, PTL

\* Whether the graph has been legal all along is known.
CheckedIsBoolean == checked \in BOOLEAN

\* Every variable keeps its type, and the stack its bound and a valid index
\* (UndoStack.h: m_commands and m_index), as long as no id is given twice.
THEOREM TypeCorrectness ==
  ASSUME OnlyDirect, LegalIsBoolean
  PROVE  Spec => []TypeOK
<1>1. Init => CheckedIsBoolean
  <2> SUFFICES ASSUME Init PROVE CheckedIsBoolean
    OBVIOUS
  <2>1. Inv
    BY InitInv
  <2>2. editor.doc \in Document
    BY <2>1 DEF Inv, Chronicle, Told, Shape, Editor
  <2> QED
    BY <2>2 DEF Init, CheckedIsBoolean, LegalIsBoolean
<1>2. Inv /\ CheckedIsBoolean /\ [Next]_vars => CheckedIsBoolean'
  <2> SUFFICES ASSUME Inv, CheckedIsBoolean, [Next]_vars PROVE CheckedIsBoolean'
    OBVIOUS
  <2>1. CASE Requested
    BY <2>1 DEF Requested, Request, PushUnchecked, BlockedBefore, Accept, RollBack, CheckedIsBoolean
  <2>2. CASE UndoLast \/ RedoLast \/ ForgetRedo \/ UNCHANGED vars
    BY <2>2 DEF UndoLast, RedoLast, ForgetRedo, vars, CheckedIsBoolean
  <2>3. CASE ClearAll
    <3>1. editor'.doc \in Document
      BY <2>3, ClearKeeps
    <3>2. checked' = Legal(editor'.doc)
      BY <2>3 DEF ClearAll
    <3> QED
      BY <3>1, <3>2 DEF CheckedIsBoolean, LegalIsBoolean
  <2>4. CASE Import
    <3>1. checked' = (Legal(editor'.doc) /\ editor.commands = <<>>)
      BY <2>4 DEF Import
    <3> QED
      BY <3>1 DEF CheckedIsBoolean
  <2> QED
    BY <2>1, <2>2, <2>3, <2>4, NextRequests DEF Inv
<1>3. Inv /\ CheckedIsBoolean => TypeOK
  <2> SUFFICES ASSUME Inv, CheckedIsBoolean PROVE TypeOK
    OBVIOUS
  <2>1. PICK h : Told(editor, h, {}) /\ Recorded(past, Len(editor.commands), h)
    BY DEF Inv, Chronicle
  <2>2. editor \in Editor /\ editor.index <= Len(editor.commands)
    BY <2>1 DEF Told, Shape
  <2>3. Len(past) = Len(editor.commands) + 1
    BY <2>1 DEF Recorded
  <2>4. /\ editor.doc.components \in Seq(Component)
        /\ editor.doc.connections \in Seq(Connection)
        /\ editor.doc.attr \in [Object -> Attributes]
    BY <2>2 DEF Editor, Document
  <2>5. editor.index \in 0 .. Len(editor.commands) /\ editor.alive \subseteq Object
    BY <2>2 DEF Editor
  <2> QED
    BY <2>3, <2>4, <2>5 DEF TypeOK, Inv, Verdicts, CheckedIsBoolean
<1> QED
  BY <1>1, <1>2, <1>3, Invariance, PTL DEF Spec

\* The registered invariants depend on what is shown, not on the order of the lists.
LegalByContent == \A d, e \in Document : Content(d) = Content(e) /\ Legal(d) => Legal(e)

\* Every graph with a content of the history q is legal.
SafeHistory(q) == \A n \in DOMAIN q : \A d \in Document : Content(d) = q[n] => Legal(d)

\* While the graph has been checked all along, every graph of the history is legal.
PastIsSafe == checked => SafeHistory(past)

\* Part of a legal history is legal,
LEMMA SafePart ==
  ASSUME NEW q \in Seq(Contents), SafeHistory(q), NEW m \in 0 .. Len(q)
  PROVE  SafeHistory(SubSeq(q, 1, m))
<1>1. Len(q) \in Nat /\ DOMAIN q = 1 .. Len(q) /\ m \in Nat
  OBVIOUS
<1>2. DOMAIN SubSeq(q, 1, m) = 1 .. m /\ \A n \in 1 .. m : SubSeq(q, 1, m)[n] = q[n] /\ n \in 1 .. Len(q)
  BY <1>1
<1> QED
  BY <1>1, <1>2 DEF SafeHistory

\* so is one with a legal graph more,
LEMMA SafeMore ==
  ASSUME NEW q \in Seq(Contents), SafeHistory(q), LegalByContent, NEW d \in Document, Legal(d),
         NEW x \in Contents, x = Content(d)
  PROVE  SafeHistory(Append(q, x))
<1> DEFINE r == Append(q, x)
<1>1. /\ DOMAIN q = 1 .. Len(q) /\ Len(q) \in Nat /\ DOMAIN r = 1 .. Len(q) + 1
      /\ r[Len(q) + 1] = x /\ \A n \in 1 .. Len(q) : r[n] = q[n]
  OBVIOUS
<1> HIDE DEF r
<1>2. ASSUME NEW n \in DOMAIN r, NEW e \in Document, Content(e) = r[n] PROVE Legal(e)
  <2>1. n \in 1 .. Len(q) \/ n = Len(q) + 1
    BY <1>1
  <2>2. CASE n \in 1 .. Len(q)
    BY <1>1, <1>2, <2>2 DEF SafeHistory
  <2>3. CASE n = Len(q) + 1
    BY <1>1, <1>2, <2>3 DEF LegalByContent
  <2> QED
    BY <2>1, <2>2, <2>3
<1>3. SafeHistory(r)
  BY <1>2 DEF SafeHistory
<1> QED
  BY <1>3 DEF r

\* and one of a single legal graph.
LEMMA SafeStart ==
  ASSUME LegalByContent, NEW d \in Document, Legal(d), NEW q, q = <<Content(d)>>
  PROVE  SafeHistory(q)
<1> DEFINE x == Content(d)
<1> HIDE DEF x
<1>1. q = <<x>>
  BY DEF x
<1>2. DOMAIN q = {1} /\ q[1] = x
  BY <1>1
<1> QED
  BY <1>2 DEF SafeHistory, LegalByContent, x

\* A request keeps the history legal: what is not is rolled back.
LEMMA RequestIsSafe ==
  ASSUME Inv, LegalByContent, PastIsSafe, Requested
  PROVE  PastIsSafe'
<1>1. PICK e, h, new, k :
        /\ Told(e, h, new) /\ Recorded(past, Len(e.commands), h)
        /\ Ready(k, h[e.index], new)
        /\ Request(e, k)
  BY DEF Requested
<1> DEFINE p == Push(e, k)
           u == DiscardRedoHistory(UndoTop(p))
<1>2. /\ Chronicle(p, After(p))
      /\ Len(p.commands) \in 0 .. Len(past) /\ u.index + 1 \in 0 .. Len(past)
  BY <1>1, PushChronicle
<1>3. PushUnchecked(p) \/ BlockedBefore \/ Accept(p) \/ RollBack(p)
  BY <1>1 DEF Request
<1>4. past \in Seq(Contents)
  BY <1>1 DEF Recorded
<1> HIDE DEF p
<1>5. CASE PushUnchecked(p)
  BY <1>5 DEF PushUnchecked, PastIsSafe
<1>6. CASE BlockedBefore
  BY <1>6 DEF BlockedBefore, PastIsSafe
<1>7. CASE Accept(p)
  <2>1. PICK g : Told(p, g, {})
    BY <1>2 DEF Chronicle
  <2>2. p.doc \in Document /\ Shows(p.doc, g[p.index])
    BY <2>1 DEF Told, Shape, Editor, Path
  <2>3. Content(p.doc) \in Contents
    BY <2>2, ContentShown
  <2>4. Legal(p.doc) /\ past' = After(p) /\ checked' = checked
    BY <1>7 DEF Accept
  <2> SUFFICES ASSUME checked PROVE SafeHistory(past')
    BY <2>4 DEF PastIsSafe
  <2> DEFINE q == SubSeq(past, 1, Len(p.commands))
             x == Content(p.doc)
  <2>5. SafeHistory(q)
    BY <1>2, <1>4, SafePart DEF PastIsSafe
  <2>6. q \in Seq(Contents)
    BY <1>2, <1>4
  <2>7. past' = Append(q, x) /\ x \in Contents
    BY <2>3, <2>4 DEF After
  <2>8. x = Content(p.doc)
    OBVIOUS
  <2> HIDE DEF q, x
  <2>9. SafeHistory(Append(q, x))
    BY <2>2, <2>4, <2>5, <2>6, <2>7, <2>8, SafeMore
  <2> QED
    BY <2>7, <2>9
<1>8. CASE RollBack(p)
  <2>1. past' = SubSeq(past, 1, u.index + 1) /\ checked' = checked
    BY <1>8 DEF RollBack
  <2> HIDE DEF u
  <2> SUFFICES ASSUME checked PROVE SafeHistory(past')
    BY <2>1 DEF PastIsSafe
  <2> DEFINE m == u.index + 1
  <2>2. m \in 0 .. Len(past) /\ past' = SubSeq(past, 1, m)
    BY <1>2, <2>1
  <2> HIDE DEF m
  <2> QED
    BY <1>4, <2>2, SafePart DEF PastIsSafe
<1> QED
  BY <1>3, <1>5, <1>6, <1>7, <1>8

\* A shorter history stays legal.
LEMMA ForgetIsSafe ==
  ASSUME Inv, PastIsSafe, ForgetRedo
  PROVE  PastIsSafe'
<1>1. PICK h : Told(editor, h, {}) /\ Recorded(past, Len(editor.commands), h)
  BY DEF Inv, Chronicle
<1>2. past \in Seq(Contents) /\ editor.index + 1 \in 0 .. Len(past)
  BY <1>1 DEF Told, Shape, Editor, Recorded
<1>3. past' = SubSeq(past, 1, editor.index + 1) /\ checked' = checked
  BY DEF ForgetRedo
<1> SUFFICES ASSUME checked PROVE SafeHistory(past')
  BY <1>3 DEF PastIsSafe
<1> DEFINE m == editor.index + 1
<1>4. m \in 0 .. Len(past) /\ past' = SubSeq(past, 1, m)
  BY <1>2, <1>3
<1> HIDE DEF m
<1> QED
  BY <1>2, <1>4, SafePart DEF PastIsSafe

\* As long as nobody went around the checks, no undo, redo or roll-back reaches a
\* graph that the registered invariants reject (CommandGateway::execute), when
\* these do not depend on the order of the lists, and no id is given twice: the
\* undo of a refused creation removes another component, and nobody checks.
THEOREM CheckedRequestsStayLegal ==
  ASSUME OnlyDirect, LegalByContent
  PROVE  Spec => []CheckedStaysLegal
<1>1. Init => PastIsSafe
  <2> SUFFICES ASSUME Init PROVE PastIsSafe
    OBVIOUS
  <2>1. Inv
    BY InitInv
  <2>2. PICK h : Told(editor, h, {}) /\ Recorded(past, Len(editor.commands), h)
    BY <2>1 DEF Inv, Chronicle
  <2>3. editor.doc \in Document /\ editor.index = 0 /\ editor.commands = <<>>
    BY <2>2 DEF Init, Told, Shape, Editor
  <2>4. Shows(editor.doc, h[0]) /\ past[1] = Picture(h[0]) /\ Len(past) = 1
    BY <2>2, <2>3 DEF Told, Path, Recorded
  <2>5. past = <<Content(editor.doc)>>
    <3>1. Content(editor.doc) = past[1]
      BY <2>4, ContentShown
    <3>2. past = <<{}>>
      BY DEF Init
    <3> QED
      BY <3>1, <3>2
  <2>6. checked = Legal(editor.doc)
    BY DEF Init
  <2> QED
    BY <2>3, <2>5, <2>6, SafeStart DEF PastIsSafe
<1>2. Inv /\ PastIsSafe /\ [Next]_vars => PastIsSafe'
  <2> SUFFICES ASSUME Inv, PastIsSafe, [Next]_vars PROVE PastIsSafe'
    OBVIOUS
  <2>1. CASE Requested
    BY <2>1, RequestIsSafe
  <2>2. CASE UndoLast \/ RedoLast \/ UNCHANGED vars
    BY <2>2 DEF UndoLast, RedoLast, vars, PastIsSafe
  <2>3. CASE ForgetRedo
    BY <2>3, ForgetIsSafe
  <2>4. CASE ClearAll \/ Import
    <3>1. editor'.doc \in Document /\ past' = <<Content(editor'.doc)>>
      BY <2>4, ClearKeeps, ImportKeeps
    <3>2. checked' => Legal(editor'.doc)
      BY <2>4 DEF ClearAll, Import
    <3> QED
      BY <3>1, <3>2, SafeStart DEF PastIsSafe
  <2> QED
    BY <2>1, <2>2, <2>3, <2>4, NextRequests DEF Inv
<1>3. Inv /\ PastIsSafe => CheckedStaysLegal
  <2> SUFFICES ASSUME Inv, PastIsSafe, checked PROVE Legal(editor.doc)
    BY DEF CheckedStaysLegal
  <2>1. PICK h : Told(editor, h, {}) /\ Recorded(past, Len(editor.commands), h)
    BY DEF Inv, Chronicle
  <2>2. /\ editor.index \in 0 .. Len(editor.commands) /\ Shows(editor.doc, h[editor.index])
        /\ editor.doc \in Document
    BY <2>1 DEF Told, Shape, Editor, Path
  <2>3. Content(editor.doc) = past[editor.index + 1]
    BY <2>1, <2>2, ContentShown DEF Recorded
  <2>4. editor.index + 1 \in DOMAIN past
    <3>1. Len(editor.commands) \in Nat /\ past \in Seq(Contents) /\ Len(past) = Len(editor.commands) + 1
      BY <2>1 DEF Told, Shape, Editor, Recorded
    <3> QED
      BY <2>2, <3>1
  <2> QED
    BY <2>2, <2>3, <2>4 DEF PastIsSafe, SafeHistory
<1> QED
  BY <1>1, <1>2, <1>3, Invariance, PTL DEF Spec

\* A roll-back that takes back one command, and not what that was merged with.
UnmergedRollBackRestores ==
  [][/\ verdict' = "rolledBack" /\ editor'.index = editor.index
     => Content(editor'.doc) = Content(editor.doc)]_vars

\* A rolled-back request that did not merge leaves the graph as it found it
\* (CommandGateway::execute): only merging breaks the header's promise.
THEOREM RollBackRestoresUnlessMerged ==
  ASSUME OnlyDirect
  PROVE  Spec => UnmergedRollBackRestores
<1> DEFINE Restored == verdict' = "rolledBack" /\ editor'.index = editor.index
                         => Content(editor'.doc) = Content(editor.doc)
<1>1. HistoryIsExact /\ HistoryIsExact' /\ Inv /\ [Next]_vars => [Restored]_vars
  <2> SUFFICES ASSUME HistoryIsExact, HistoryIsExact', Inv, Next,
                      verdict' = "rolledBack", editor'.index = editor.index
               PROVE  Content(editor'.doc) = Content(editor.doc)
    OBVIOUS
  <2>1. PICK h : Told(editor, h, {}) /\ Recorded(past, Len(editor.commands), h)
    BY DEF Inv, Chronicle
  <2>2. editor.index + 1 \in 1 .. Len(past) /\ past \in Seq(Contents)
    BY <2>1 DEF Told, Shape, Editor, Recorded
  <2>3. past' = SubSeq(past, 1, editor.index + 1)
    <3>1. ~UndoLast /\ ~RedoLast /\ ~ForgetRedo /\ ~ClearAll /\ ~Import
      BY DEF UndoLast, RedoLast, ForgetRedo, ClearAll, Import
    <3>2. PICK e, k : Request(e, k)
      BY <3>1, NextRequests DEF Requested, Inv
    <3> DEFINE p == Push(e, k)
    <3>3. ~PushUnchecked(p) /\ ~BlockedBefore /\ ~Accept(p)
      BY DEF PushUnchecked, BlockedBefore, Accept
    <3>4. RollBack(p)
      BY <3>2, <3>3 DEF Request
    <3> DEFINE u == DiscardRedoHistory(UndoTop(p))
    <3> HIDE DEF p
    <3>5. editor' = u /\ past' = SubSeq(past, 1, u.index + 1)
      BY <3>4 DEF RollBack, Becomes
    <3>6. u.index = editor.index
      BY <3>5
    <3> HIDE DEF u
    <3> QED
      BY <3>5, <3>6
  <2>4. past'[editor.index + 1] = past[editor.index + 1]
    BY <2>2, <2>3
  <2> QED
    BY <2>4 DEF HistoryIsExact
<1>2. Spec => []HistoryIsExact
  BY HistoryIsAlwaysExact
<1>3. Spec => []Inv
  BY Invariance
<1> QED
  BY <1>1, <1>2, <1>3, PTL DEF Spec, UnmergedRollBackRestores
=============================================================================
