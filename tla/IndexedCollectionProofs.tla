----------------------- MODULE IndexedCollectionProofs ----------------------
(***************************************************************************)
(* The index of a collection never diverges from its list, and the indexed *)
(* collection implements IdCollection, for any sets of objects and ids in  *)
(* which no object carries the null id.                                    *)
(***************************************************************************)
EXTENDS IndexedCollection, SequenceTheorems, WellFoundedInduction, TLAPS

-----------------------------------------------------------------------------
(* What FirstById returns. *)

(***************************************************************************)
(* A scan that stops at the first hit is well defined: every nonempty set  *)
(* of positions has a least one.                                           *)
(***************************************************************************)
LEMMA LeastPosition ==
  ASSUME NEW T \in SUBSET Nat, T # {}
  PROVE  \E m \in T : \A k \in T : m <= k
<1> DEFINE R == {ss \in Nat \X Nat : ss[1] < ss[2]}
<1>1. IsWellFoundedOn(R, Nat)
  BY NatLessThanWellFounded DEF OpToRel
<1>2. \A x, y \in Nat : x < y => <<x, y>> \in R
  OBVIOUS
<1> HIDE DEF R
<1>3. PICK m \in T : \A k \in T : <<k, m>> \notin R
  BY <1>1, WFMin
<1>4. ASSUME NEW k \in T
      PROVE  m <= k
  <2>1. ~ (k < m)
    BY <1>2, <1>3
  <2>2. QED
    BY <2>1
<1>5. QED
  BY <1>4

(***************************************************************************)
(* firstComponentByIdLinear returns nullptr when no object of the list has *)
(* the id, and otherwise the object at the least position that has it.     *)
(***************************************************************************)
LEMMA FirstByIdIsFirst ==
  ASSUME NEW l \in Seq(Object), NEW n, NEW i
  PROVE  \/ /\ FirstById(l, n, i) = NoObject
            /\ \A p \in DOMAIN l : n[l[p]] # i
         \/ \E p \in DOMAIN l :
              /\ FirstById(l, n, i) = l[p]
              /\ n[l[p]] = i
              /\ \A q \in DOMAIN l : n[l[q]] = i => p <= q
<1> DEFINE Hits == {p \in DOMAIN l : n[l[p]] = i}
<1>1. CASE Hits = {}
  BY <1>1 DEF FirstById
<1>2. CASE Hits # {}
  <2>1. Hits \in SUBSET Nat
    OBVIOUS
  <2>2. \E m \in Hits : \A k \in Hits : m <= k
    BY <1>2, <2>1, LeastPosition
  <2>3. \E p \in DOMAIN l : /\ n[l[p]] = i
                            /\ \A q \in DOMAIN l : n[l[q]] = i => p <= q
    BY <2>2
  <2>4. QED
    BY <2>3, <1>2 DEF FirstById
<1>3. QED
  BY <1>1, <1>2

(***************************************************************************)
(* An object at the least position that has the id is the one returned.    *)
(***************************************************************************)
LEMMA FirstByIdAt ==
  ASSUME NEW l \in Seq(Object), NEW n, NEW i,
         NEW p \in DOMAIN l,
         n[l[p]] = i,
         \A q \in DOMAIN l : n[l[q]] = i => p <= q
  PROVE  FirstById(l, n, i) = l[p]
<1>1. PICK q \in DOMAIN l : /\ FirstById(l, n, i) = l[q]
                            /\ n[l[q]] = i
                            /\ \A r \in DOMAIN l : n[l[r]] = i => q <= r
  BY FirstByIdIsFirst
<1>2. p = q
  <2>1. p <= q /\ q <= p
    BY <1>1
  <2>2. QED
    BY <2>1
<1>3. QED
  BY <1>1, <1>2

(***************************************************************************)
(* What is returned is an object of the list that has the id, or nullptr.  *)
(***************************************************************************)
LEMMA FirstByIdType ==
  ASSUME NEW l \in Seq(Object), NEW n, NEW i
  PROVE  /\ FirstById(l, n, i) \in Object \cup {NoObject}
         /\ FirstById(l, n, i) # NoObject =>
              /\ FirstById(l, n, i) \in ToSet(l)
              /\ n[FirstById(l, n, i)] = i
<1>1. CASE \E p \in DOMAIN l : FirstById(l, n, i) = l[p] /\ n[l[p]] = i
  BY <1>1 DEF ToSet
<1>2. QED
  BY <1>1, FirstByIdIsFirst

(***************************************************************************)
(* Only the ids of the objects in the list matter.                         *)
(***************************************************************************)
LEMMA FirstByIdAgrees ==
  ASSUME NEW l \in Seq(Object), NEW n, NEW m, NEW i,
         \A q \in DOMAIN l : n[l[q]] = m[l[q]]
  PROVE  FirstById(l, n, i) = FirstById(l, m, i)
<1>1. CASE \A p \in DOMAIN l : n[l[p]] # i
  BY <1>1 DEF FirstById
<1>2. ASSUME NEW p \in DOMAIN l,
             FirstById(l, n, i) = l[p],
             n[l[p]] = i,
             \A q \in DOMAIN l : n[l[q]] = i => p <= q
      PROVE  FirstById(l, m, i) = l[p]
  <2>1. m[l[p]] = i
    BY <1>2
  <2>2. \A q \in DOMAIN l : m[l[q]] = i => p <= q
    BY <1>2
  <2>3. QED
    BY <2>1, <2>2, FirstByIdAt
<1>3. QED
  BY <1>1, <1>2, FirstByIdIsFirst

-----------------------------------------------------------------------------
(* What appending, removing and renaming do to FirstById. *)

Injective(l) == \A p, q \in DOMAIN l : l[p] = l[q] => p = q

(***************************************************************************)
(* Taking an object out of a list without repeats closes the gap it leaves *)
(* and keeps the order of the others.                                      *)
(***************************************************************************)
LEMMA WithoutShifts ==
  ASSUME NEW l \in Seq(Object), Injective(l), NEW p \in DOMAIN l
  PROVE  /\ Without(l, l[p]) \in Seq(Object)
         /\ Len(Without(l, l[p])) = Len(l) - 1
         /\ \A q \in 1 .. Len(l) - 1 :
              Without(l, l[p])[q] = IF q < p THEN l[q] ELSE l[q + 1]
<1>1. Position(l, l[p]) = p
  BY DEF Position, Injective
<1>2. Without(l, l[p]) = SubSeq(l, 1, p - 1) \o SubSeq(l, p + 1, Len(l))
  BY <1>1 DEF Without, RemoveAt
<1> DEFINE s == SubSeq(l, 1, p - 1)
           t == SubSeq(l, p + 1, Len(l))
<1>3. /\ s \in Seq(Object) /\ Len(s) = p - 1
      /\ \A q \in 1 .. p - 1 : s[q] = l[q]
  OBVIOUS
<1>4. /\ t \in Seq(Object) /\ Len(t) = Len(l) - p
      /\ \A q \in 1 .. Len(l) - p : t[q] = l[q + p]
  OBVIOUS
<1>5. /\ s \o t \in Seq(Object)
      /\ Len(s \o t) = Len(s) + Len(t)
      /\ \A q \in 1 .. Len(s) + Len(t) :
           (s \o t)[q] = IF q <= Len(s) THEN s[q] ELSE t[q - Len(s)]
  <2> HIDE DEF s, t
  <2> QED
    BY <1>3, <1>4
<1> HIDE DEF s, t
<1>6. ASSUME NEW q \in 1 .. Len(l) - 1
      PROVE  (s \o t)[q] = IF q < p THEN l[q] ELSE l[q + 1]
  <2>1. CASE q < p
    BY <1>3, <1>4, <1>5, <2>1
  <2>2. CASE q >= p
    <3>1. (s \o t)[q] = t[q - (p - 1)]
      BY <1>3, <1>4, <1>5, <2>2
    <3>2. t[q - (p - 1)] = l[q - (p - 1) + p]
      BY <1>4, <2>2
    <3>3. QED
      BY <2>2, <3>1, <3>2
  <2>3. q < p \/ q >= p
    OBVIOUS
  <2>4. QED
    BY <2>1, <2>2, <2>3
<1>7. Without(l, l[p]) = s \o t
  BY <1>2 DEF s, t
<1>8. QED
  BY <1>3, <1>4, <1>5, <1>6, <1>7

LEMMA WithoutObjects ==
  ASSUME NEW l \in Seq(Object), Injective(l), NEW p \in DOMAIN l
  PROVE  /\ Injective(Without(l, l[p]))
         /\ ToSet(Without(l, l[p])) = ToSet(l) \ {l[p]}
<1> DEFINE r == Without(l, l[p])
<1>1. /\ r \in Seq(Object)
      /\ Len(r) = Len(l) - 1
      /\ \A q \in 1 .. Len(l) - 1 : r[q] = IF q < p THEN l[q] ELSE l[q + 1]
  BY WithoutShifts
<1> HIDE DEF r
<1>2. Injective(r)
  BY <1>1 DEF Injective
<1>3. ASSUME NEW q \in DOMAIN l, q # p
      PROVE  l[q] \in ToSet(r)
  <2>1. CASE q < p
    BY <1>1, <2>1 DEF ToSet
  <2>2. CASE q > p
    <3>1. q - 1 \in DOMAIN r /\ r[q - 1] = l[q]
      BY <1>1, <2>2
    <3>2. QED
      BY <3>1 DEF ToSet
  <2>3. QED
    BY <1>3, <2>1, <2>2
<1>4. ASSUME NEW q \in DOMAIN r
      PROVE  r[q] \in ToSet(l) \ {l[p]}
  BY <1>1 DEF ToSet, Injective
<1>5. QED
  BY <1>2, <1>3, <1>4 DEF r, ToSet

(***************************************************************************)
(* removeComponent disturbs no lookup but that of the removed object's id. *)
(***************************************************************************)
LEMMA FirstByIdWithout ==
  ASSUME NEW l \in Seq(Object), Injective(l), NEW p \in DOMAIN l,
         NEW n, NEW i, i # n[l[p]]
  PROVE  FirstById(Without(l, l[p]), n, i) = FirstById(l, n, i)
<1> DEFINE r == Without(l, l[p])
<1>0. /\ r \in Seq(Object)
      /\ Len(r) = Len(l) - 1
      /\ \A q \in 1 .. Len(l) - 1 : r[q] = IF q < p THEN l[q] ELSE l[q + 1]
  BY WithoutShifts
<1> HIDE DEF r
<1>1. /\ r \in Seq(Object)
      /\ Len(r) = Len(l) - 1
      /\ \A q \in 1 .. Len(l) - 1 : r[q] = IF q < p THEN l[q] ELSE l[q + 1]
      /\ DOMAIN r = 1 .. Len(l) - 1 /\ p \in 1 .. Len(l)
  <2>1. DOMAIN r = 1 .. Len(r) /\ DOMAIN l = 1 .. Len(l)
    BY <1>0
  <2>2. QED
    BY <1>0, <2>1
<1> SUFFICES FirstById(r, n, i) = FirstById(l, n, i)
  BY DEF r
<1>2. CASE \A q \in DOMAIN r : n[r[q]] # i
  <2>1. ASSUME NEW q \in DOMAIN l
        PROVE  n[l[q]] # i
    <3>1. CASE q = p
      BY <3>1
    <3>2. CASE q < p
      BY <1>1, <1>2, <3>2
    <3>3. CASE q > p
      <4>1. q - 1 \in DOMAIN r /\ r[q - 1] = l[q]
        BY <1>1, <3>3
      <4>2. QED
        BY <1>2, <4>1
    <3>4. QED
      BY <3>1, <3>2, <3>3
  <2>2. QED
    BY <1>2, <2>1 DEF FirstById
<1>3. ASSUME NEW q \in DOMAIN r,
             FirstById(r, n, i) = r[q],
             n[r[q]] = i,
             \A k \in DOMAIN r : n[r[k]] = i => q <= k
      PROVE  FirstById(r, n, i) = FirstById(l, n, i)
  <2> DEFINE m == IF q < p THEN q ELSE q + 1
  <2>1. m \in DOMAIN l /\ l[m] = r[q]
    BY <1>1
  <2>2. ASSUME NEW k \in DOMAIN l, n[l[k]] = i
        PROVE  m <= k
    <3>1. k # p
      BY <2>2
    <3>2. CASE k < p
      <4>1. k \in DOMAIN r /\ r[k] = l[k]
        BY <1>1, <3>2
      <4>2. QED
        BY <1>1, <1>3, <2>2, <3>2, <4>1
    <3>3. CASE k > p
      <4>1. k - 1 \in DOMAIN r /\ r[k - 1] = l[k]
        <5>1. k \in 1 .. Len(l)
          OBVIOUS
        <5>2. QED
          BY <1>1, <3>3, <5>1
      <4>2. QED
        BY <1>1, <1>3, <2>2, <3>3, <4>1
    <3>4. QED
      BY <3>1, <3>2, <3>3
  <2> HIDE DEF m
  <2>3. FirstById(l, n, i) = l[m]
    BY <1>3, <2>1, <2>2, FirstByIdAt
  <2>4. QED
    BY <1>3, <2>1, <2>3
<1>4. QED
  BY <1>1, <1>2, <1>3, FirstByIdIsFirst

(***************************************************************************)
(* addComponent never takes an id away from the object it already names.   *)
(***************************************************************************)
LEMMA FirstByIdAppend ==
  ASSUME NEW l \in Seq(Object), NEW o \in Object, NEW n, NEW i
  PROVE  FirstById(Append(l, o), n, i) =
           IF FirstById(l, n, i) = NoObject /\ n[o] = i
           THEN o ELSE FirstById(l, n, i)
<1> DEFINE r == Append(l, o)
<1>1. /\ r \in Seq(Object)
      /\ Len(r) = Len(l) + 1
      /\ \A q \in 1 .. Len(l) : r[q] = l[q]
      /\ r[Len(l) + 1] = o
  OBVIOUS
<1> HIDE DEF r
<1>2. ASSUME NEW p \in DOMAIN l,
             FirstById(l, n, i) = l[p],
             n[l[p]] = i,
             \A q \in DOMAIN l : n[l[q]] = i => p <= q
      PROVE  FirstById(r, n, i) = FirstById(l, n, i) /\ l[p] # NoObject
  <2>1. p \in DOMAIN r /\ r[p] = l[p]
    BY <1>1
  <2>2. \A q \in DOMAIN r : n[r[q]] = i => p <= q
    BY <1>1, <1>2
  <2>3. FirstById(r, n, i) = r[p]
    BY <1>1, <1>2, <2>1, <2>2, FirstByIdAt
  <2>4. l[p] \in Object
    OBVIOUS
  <2>5. QED
    BY <1>2, <2>1, <2>3, <2>4, NoObjectIsNoObject
<1>3. ASSUME FirstById(l, n, i) = NoObject,
             \A p \in DOMAIN l : n[l[p]] # i
      PROVE  FirstById(r, n, i) = IF n[o] = i THEN o ELSE NoObject
  <2>1. CASE n[o] = i
    <3>1. Len(l) + 1 \in DOMAIN r
      BY <1>1
    <3>2. \A q \in DOMAIN r : n[r[q]] = i => Len(l) + 1 <= q
      BY <1>1, <1>3
    <3>3. FirstById(r, n, i) = r[Len(l) + 1]
      BY <1>1, <2>1, <3>1, <3>2, FirstByIdAt
    <3>4. QED
      BY <1>1, <2>1, <3>3
  <2>2. CASE n[o] # i
    <3>1. \A q \in DOMAIN r : n[r[q]] # i
      BY <1>1, <1>3, <2>2
    <3>2. QED
      BY <2>2, <3>1 DEF FirstById
  <2>3. QED
    BY <2>1, <2>2
<1>4. QED
  BY <1>2, <1>3, FirstByIdIsFirst DEF r

(***************************************************************************)
(* setId on an object disturbs only the lookups of its old and new id.     *)
(***************************************************************************)
LEMMA FirstByIdRenamed ==
  ASSUME NEW l \in Seq(Object), NEW n \in [Object -> Id], NEW o \in Object,
         NEW j \in Id, NEW i, i # j,
         FirstById(l, n, i) # o
  PROVE  FirstById(l, [n EXCEPT ![o] = j], i) = FirstById(l, n, i)
<1> DEFINE m == [n EXCEPT ![o] = j]
<1>1. \A q \in DOMAIN l : l[q] \in Object /\ (m[l[q]] = i => n[l[q]] = i)
  OBVIOUS
<1>2. \A q \in DOMAIN l : l[q] # o => m[l[q]] = n[l[q]]
  OBVIOUS
<1> HIDE DEF m
<1> SUFFICES FirstById(l, m, i) = FirstById(l, n, i)
  BY DEF m
<1>3. CASE \A p \in DOMAIN l : n[l[p]] # i
  BY <1>1, <1>3 DEF FirstById
<1>4. ASSUME NEW p \in DOMAIN l,
             FirstById(l, n, i) = l[p],
             n[l[p]] = i,
             \A q \in DOMAIN l : n[l[q]] = i => p <= q
      PROVE  FirstById(l, m, i) = l[p]
  <2>1. m[l[p]] = i
    BY <1>2, <1>4
  <2>2. \A q \in DOMAIN l : m[l[q]] = i => p <= q
    BY <1>1, <1>4
  <2>3. QED
    BY <2>1, <2>2, FirstByIdAt
<1>5. QED
  BY <1>3, <1>4, FirstByIdIsFirst

(***************************************************************************)
(* When a listed object takes a new id, that id names whichever of the     *)
(* object and the id's previous holder stands first: the comparison of     *)
(* list positions in onTrackedComponentIdChanged is exactly right.         *)
(***************************************************************************)
LEMMA FirstByIdTaken ==
  ASSUME NEW l \in Seq(Object), Injective(l), NEW n \in [Object -> Id],
         NEW o \in Object, o \in ToSet(l), NEW i \in Id, n[o] # i
  PROVE  FirstById(l, [n EXCEPT ![o] = i], i) =
           IF \/ FirstById(l, n, i) = NoObject
              \/ Precedes(l, o, FirstById(l, n, i))
           THEN o ELSE FirstById(l, n, i)
<1> DEFINE m == [n EXCEPT ![o] = i]
<1>1. PICK k \in DOMAIN l : l[k] = o
  BY DEF ToSet
<1>2. m[o] = i
  OBVIOUS
<1>3. \A q \in DOMAIN l : q # k => l[q] # o
  BY <1>1 DEF Injective
<1>4. \A q \in DOMAIN l : q # k => m[l[q]] = n[l[q]]
  BY <1>3
<1>5. Position(l, o) = k
  BY <1>1, <1>3 DEF Position
<1> HIDE DEF m
<1>6. ASSUME FirstById(l, n, i) = NoObject,
             \A p \in DOMAIN l : n[l[p]] # i
      PROVE  FirstById(l, m, i) = o
  <2>1. \A q \in DOMAIN l : m[l[q]] = i => k <= q
    BY <1>4, <1>6
  <2>2. QED
    BY <1>1, <1>2, <2>1, FirstByIdAt
<1>7. ASSUME NEW p \in DOMAIN l,
             FirstById(l, n, i) = l[p],
             n[l[p]] = i,
             \A q \in DOMAIN l : n[l[q]] = i => p <= q
      PROVE  /\ l[p] # NoObject
             /\ FirstById(l, m, i) = IF Precedes(l, o, l[p]) THEN o ELSE l[p]
  <2>1. p # k
    BY <1>1, <1>7
  <2>2. Position(l, l[p]) = p /\ l[p] \in ToSet(l) /\ l[p] # NoObject
    BY NoObjectIsNoObject DEF Position, Injective, ToSet
  <2>3. Precedes(l, o, l[p]) <=> k < p
    BY <1>5, <2>2 DEF Precedes
  <2>4. CASE k < p
    <3>1. \A q \in DOMAIN l : m[l[q]] = i => k <= q
      BY <1>4, <1>7, <2>4
    <3>2. FirstById(l, m, i) = o
      BY <1>1, <1>2, <3>1, FirstByIdAt
    <3>3. QED
      BY <2>2, <2>3, <2>4, <3>2
  <2>5. CASE p < k
    <3>1. \A q \in DOMAIN l : m[l[q]] = i => p <= q
      BY <1>4, <1>7, <2>5
    <3>2. FirstById(l, m, i) = l[p]
      <4>1. m[l[p]] = i
        BY <1>4, <1>7, <2>1
      <4>2. QED
        BY <3>1, <4>1, FirstByIdAt
    <3>3. QED
      BY <2>2, <2>3, <2>5, <3>2
  <2>6. QED
    BY <2>1, <2>4, <2>5
<1> DEFINE f == FirstById(l, n, i)
<1>8. FirstById(l, m, i) =
        IF f = NoObject \/ Precedes(l, o, f) THEN o ELSE f
  <2>1. CASE f = NoObject /\ \A p \in DOMAIN l : n[l[p]] # i
    BY <1>6, <2>1
  <2>2. CASE \E p \in DOMAIN l :
               /\ f = l[p]
               /\ n[l[p]] = i
               /\ \A q \in DOMAIN l : n[l[q]] = i => p <= q
    BY <1>7, <2>2
  <2>3. QED
    BY <2>1, <2>2, FirstByIdIsFirst
<1>9. QED
  BY <1>8 DEF m

-----------------------------------------------------------------------------
(* The inductive invariant and its preservation, one operation at a time. *)

IInv == ITypeOK /\ TracksTheList /\ IndexNamesFirst /\ NoRepeats

(***************************************************************************)
(* addComponent's check of the index is enough to keep an object that is   *)
(* already listed out.                                                     *)
(***************************************************************************)
LEMMA AddedIsNew ==
  ASSUME IInv, NEW o \in Object, AddObject(o),
         batch \/ index[ids[o]] = NoObject
  PROVE  o \notin ToSet(list)
<1> USE DEF ITypeOK, TypeOK
<1>1. CASE batch
  BY <1>1, UntrackedIsNoId DEF AddObject, Attached, IInv, TracksTheList
<1>2. CASE index[ids[o]] = NoObject
  <2>1. \A p \in DOMAIN list : ids[list[p]] # ids[o]
    <3>1. FirstById(list, ids, ids[o]) = NoObject
      BY <1>2 DEF IInv, IndexNamesFirst
    <3>2. \A p \in DOMAIN list : list[p] # NoObject
      BY NoObjectIsNoObject DEF IInv
    <3>3. QED
      BY <3>1, <3>2, FirstByIdIsFirst DEF IInv
  <2>2. QED
    BY <2>1 DEF ToSet
<1>3. QED
  BY <1>1, <1>2

LEMMA AddPreserves ==
  ASSUME IInv, NEW o \in Object, AddObject(o)
  PROVE  IInv'
<1> USE DEF ITypeOK, TypeOK
<1>1. CASE ~batch /\ index[ids[o]] # NoObject
  BY <1>1 DEF AddObject, IInv, TracksTheList, IndexNamesFirst, NoRepeats
<1>2. CASE batch \/ index[ids[o]] = NoObject
  <2>1. /\ list' = Append(list, o) /\ Attach(o)
        /\ ids' = ids /\ batch' = batch /\ (batch => ~Attached(o))
    BY <1>2 DEF AddObject
  <2>2. o \notin ToSet(list)
    BY <1>2, AddedIsNew
  <2>3. /\ list' \in Seq(Object) /\ Len(list') = Len(list) + 1
        /\ \A q \in 1 .. Len(list) : list'[q] = list[q]
        /\ list'[Len(list) + 1] = o
    BY <2>1 DEF IInv
  <2>4. ITypeOK'
    BY <2>1, <2>3 DEF IInv, Attach
  <2>5. NoRepeats'
    BY <2>2, <2>3 DEF IInv, NoRepeats, ToSet
  <2>6. ToSet(list') = ToSet(list) \cup {o}
    BY <2>3 DEF ToSet, IInv
  <2>7. TracksTheList'
    BY <2>1, <2>6 DEF IInv, TracksTheList, Attach
  <2>8. ASSUME NEW i \in Id
        PROVE  index'[i] = FirstById(list', ids', i)
    <3>1. FirstById(list', ids', i) =
            IF FirstById(list, ids, i) = NoObject /\ ids[o] = i
            THEN o ELSE FirstById(list, ids, i)
      BY <2>1, FirstByIdAppend DEF IInv
    <3>2. index[i] = FirstById(list, ids, i)
      BY DEF IInv, IndexNamesFirst
    <3>3. index'[i] = IF index[i] = NoObject /\ ids[o] = i
                      THEN o ELSE index[i]
      BY <2>1 DEF Attach, IInv
    <3>4. QED
      BY <3>1, <3>2, <3>3
  <2>9. QED
    BY <2>4, <2>5, <2>7, <2>8 DEF IInv, IndexNamesFirst
<1>3. QED
  BY <1>1, <1>2 DEF IInv

LEMMA RemovePreserves ==
  ASSUME IInv, NullId \notin Id, NEW i \in Id, RemoveById(i)
  PROVE  IInv'
<1> USE DEF ITypeOK, TypeOK
<1> DEFINE o == index[i]
<1>1. CASE o = NoObject \/ o \notin ToSet(list)
  BY <1>1 DEF RemoveById, IInv, TracksTheList, IndexNamesFirst, NoRepeats
<1>2. CASE o # NoObject /\ o \in ToSet(list)
  <2> DEFINE r == Without(list, o)
  <2>1. /\ list' = r /\ Detach(o, r)
        /\ ids' = ids /\ batch' = batch
    BY <1>2 DEF RemoveById
  <2>2. PICK p \in DOMAIN list : list[p] = o
    BY <1>2 DEF ToSet
  <2>3. list \in Seq(Object) /\ Injective(list)
    BY DEF IInv, NoRepeats, Injective
  <2>4. /\ r \in Seq(Object) /\ Injective(r)
        /\ ToSet(r) = ToSet(list) \ {o}
    BY <2>2, <2>3, WithoutShifts, WithoutObjects
  <2>5. tracked[o] = i /\ ids[o] = i /\ o \in Object
    <3>1. o \in Object /\ ids[o] = i
      BY <1>2, FirstByIdType DEF IInv, IndexNamesFirst
    <3>2. QED
      BY <1>2, <3>1 DEF IInv, TracksTheList
  <2>6. \A j \in Id : j # i => FirstById(r, ids, j) = FirstById(list, ids, j)
    BY <2>2, <2>3, <2>5, FirstByIdWithout
  <2> HIDE DEF r
  <2>7. /\ tracked' = [tracked EXCEPT ![o] = Untracked]
        /\ index' = [index EXCEPT ![i] = FirstById(r, ids, i)]
    BY <2>1, <2>5 DEF Detach, Repaired
  <2>8. FirstById(r, ids, i) \in Object \cup {NoObject}
    BY <2>4, FirstByIdType
  <2>9. ITypeOK'
    BY <2>1, <2>4, <2>5, <2>7, <2>8 DEF IInv
  <2>10. TracksTheList'
    BY <2>1, <2>4, <2>5, <2>7 DEF IInv, TracksTheList
  <2>11. IndexNamesFirst'
    <3>1. ASSUME NEW j \in Id
          PROVE  index'[j] = FirstById(r, ids, j)
      BY <2>6, <2>7 DEF IInv, IndexNamesFirst
    <3>2. QED
      BY <2>1, <3>1 DEF IndexNamesFirst
  <2>12. NoRepeats'
    BY <2>1, <2>4 DEF NoRepeats, Injective
  <2>13. QED
    BY <2>9, <2>10, <2>11, <2>12 DEF IInv
<1>3. QED
  BY <1>1, <1>2

LEMMA SetIdPreserves ==
  ASSUME IInv, NEW o \in Object, NEW i \in Id, SetId(o, i)
  PROVE  IInv'
<1> USE DEF ITypeOK, TypeOK
<1>1. /\ ids[o] # i /\ ids' = [ids EXCEPT ![o] = i]
      /\ list' = list /\ batch' = batch
  BY DEF SetId
<1>2. /\ list \in Seq(Object) /\ Injective(list)
      /\ ids \in [Object -> Id] /\ ids' \in [Object -> Id]
  BY <1>1 DEF IInv, NoRepeats, Injective
<1>3. ASSUME NEW j \in Id, j # i, FirstById(list, ids, j) # o
      PROVE  FirstById(list, ids', j) = FirstById(list, ids, j)
  <2>1. FirstById(list, [ids EXCEPT ![o] = i], j) = FirstById(list, ids, j)
    BY <1>2, <1>3, FirstByIdRenamed
  <2>2. QED
    BY <1>1, <2>1
<1>4. CASE ~Attached(o)
  <2>1. o \notin ToSet(list) /\ index' = index /\ tracked' = tracked
    BY <1>1, <1>4, UntrackedIsNoId
       DEF SetId, IInv, TracksTheList, Attached
  <2>2. \A q \in DOMAIN list : list[q] # o
    BY <2>1 DEF ToSet
  <2>3. \A q \in DOMAIN list : ids'[list[q]] = ids[list[q]]
    BY <1>1, <1>2, <2>2
  <2>4. \A j : FirstById(list, ids', j) = FirstById(list, ids, j)
    BY <1>2, <2>3, FirstByIdAgrees
  <2>5. QED
    BY <1>1, <1>2, <2>1, <2>4
       DEF IInv, TracksTheList, IndexNamesFirst, NoRepeats
<1>5. CASE Attached(o)
  <2> DEFINE old      == ids[o]
             released == Repaired(index, o, old, list, ids')
             cur      == released[i]
  <2>1. o \in ToSet(list) /\ tracked[o] = old
    BY <1>5 DEF IInv, TracksTheList, Attached
  <2>2. /\ tracked' = [tracked EXCEPT ![o] = i]
        /\ index' = IF cur = NoObject \/ (cur # o /\ Precedes(list, o, cur))
                    THEN [released EXCEPT ![i] = o]
                    ELSE released
    BY <1>5, <2>1 DEF SetId, OnIdChanged
  <2>3. released \in [Id -> Object \cup {NoObject}]
    BY <1>2, FirstByIdType DEF Repaired, IInv
  <2>4. ASSUME NEW j \in Id, j # i
        PROVE  released[j] = FirstById(list, ids', j)
    <3>1. index[j] = FirstById(list, ids, j)
      BY DEF IInv, IndexNamesFirst
    <3>2. CASE j = old /\ index[j] = o
      BY <3>2 DEF Repaired, IInv
    <3>3. CASE index[j] # o
      <4>1. released[j] = index[j]
        BY <3>3 DEF Repaired, IInv
      <4>2. QED
        BY <1>3, <2>4, <3>1, <3>3, <4>1
    <3>4. index[j] = o => j = old
      <4>1. index[j] # NoObject => ids[index[j]] = j
        BY <1>2, <3>1, FirstByIdType
      <4>2. QED
        BY <4>1, NoObjectIsNoObject
    <3>5. QED
      BY <3>2, <3>3, <3>4
  <2>5. cur = FirstById(list, ids, i) /\ cur # o
    <3>1. cur = index[i]
      BY <1>1 DEF Repaired, IInv
    <3>2. index[i] = FirstById(list, ids, i)
      BY DEF IInv, IndexNamesFirst
    <3>3. FirstById(list, ids, i) # o
      BY <1>1, <1>2, NoObjectIsNoObject, FirstByIdType
    <3>4. QED
      BY <3>1, <3>2, <3>3
  <2> HIDE DEF released, cur
  <2>6. FirstById(list, ids', i) =
          IF cur = NoObject \/ Precedes(list, o, cur) THEN o ELSE cur
    <3>1. FirstById(list, [ids EXCEPT ![o] = i], i) =
            IF \/ FirstById(list, ids, i) = NoObject
               \/ Precedes(list, o, FirstById(list, ids, i))
            THEN o ELSE FirstById(list, ids, i)
      BY <1>1, <1>2, <2>1, FirstByIdTaken, ZenonT(60)
    <3>2. QED
      BY <1>1, <2>5, <3>1
  <2>7. ASSUME NEW j \in Id
        PROVE  index'[j] = FirstById(list, ids', j)
    <3>1. CASE j = i
      <4>1. index'[i] = IF cur = NoObject \/ Precedes(list, o, cur)
                        THEN o ELSE cur
        BY <2>2, <2>3, <2>5 DEF cur
      <4>2. QED
        BY <2>6, <3>1, <4>1
    <3>2. CASE j # i
      <4>1. index'[j] = released[j]
        BY <2>2, <2>3, <3>2
      <4>2. QED
        BY <2>4, <3>2, <4>1
    <3>3. QED
      BY <3>1, <3>2
  <2>8. ITypeOK'
    BY <1>1, <1>2, <2>2, <2>3 DEF IInv
  <2>9. TracksTheList'
    BY <1>1, <1>2, <2>1, <2>2 DEF IInv, TracksTheList
  <2>10. QED
    BY <1>1, <2>7, <2>8, <2>9 DEF IInv, IndexNamesFirst, NoRepeats
<1>6. QED
  BY <1>4, <1>5

LEMMA ClearPreserves ==
  ASSUME IInv, ClearAll
  PROVE  IInv'
<1> USE DEF ITypeOK, TypeOK
<1>1. \A n, i : FirstById(<<>>, n, i) = NoObject
  BY DEF FirstById
<1>2. ToSet(<<>>) = {} /\ <<>> \in Seq(Object)
  BY DEF ToSet
<1>3. CASE list = <<>>
  BY <1>3 DEF ClearAll, IInv, TracksTheList, IndexNamesFirst, NoRepeats
<1>4. CASE list # <<>>
  <2>1. /\ list' = <<>> /\ ids' = ids /\ batch' = batch
        /\ index' = [i \in Id |-> NoObject]
        /\ tracked' = [o \in Object |-> Untracked]
    BY <1>4 DEF ClearAll
  <2>2. ITypeOK'
    BY <1>2, <2>1 DEF IInv
  <2>3. TracksTheList' /\ IndexNamesFirst'
    BY <1>1, <1>2, <2>1 DEF TracksTheList, IndexNamesFirst
  <2>4. NoRepeats'
    BY <2>1 DEF NoRepeats
  <2>5. QED
    BY <2>2, <2>3, <2>4 DEF IInv
<1>5. QED
  BY <1>3, <1>4

LEMMA InitEstablishes == IInit => IInv
<1>1. ToSet(<<>>) = {} /\ \A n, i : FirstById(<<>>, n, i) = NoObject
  BY DEF ToSet, FirstById
<1>2. SUFFICES ASSUME IInit
               PROVE  IInv
  OBVIOUS
<1>3. ITypeOK /\ NoRepeats
  <2>1. <<>> \in Seq(Object) /\ DOMAIN <<>> = {}
    OBVIOUS
  <2>2. ITypeOK
    BY <1>2, <2>1 DEF IInit, Init, ITypeOK, TypeOK
  <2>3. NoRepeats
    BY <1>2, <2>1 DEF IInit, Init, NoRepeats
  <2>4. QED
    BY <2>2, <2>3
<1>4. TracksTheList /\ IndexNamesFirst
  BY <1>1, <1>2 DEF IInit, Init, TracksTheList, IndexNamesFirst
<1>5. QED
  BY <1>3, <1>4 DEF IInv

LEMMA StepPreserves ==
  ASSUME NullId \notin Id, IInv, [INext]_ivars
  PROVE  IInv'
<1>1. ASSUME NEW o \in Object, AddObject(o)
      PROVE  IInv'
  BY <1>1, AddPreserves
<1>2. ASSUME NEW i \in Id, RemoveById(i)
      PROVE  IInv'
  BY <1>2, RemovePreserves
<1>3. ASSUME NEW o \in Object, NEW i \in Id, SetId(o, i)
      PROVE  IInv'
  BY <1>3, SetIdPreserves
<1>4. CASE ClearAll
  BY <1>4, ClearPreserves
<1>5. ASSUME NEW b \in BOOLEAN, UpdateBatch(b)
      PROVE  IInv'
  BY <1>5 DEF UpdateBatch, IInv, ITypeOK, TypeOK, TracksTheList,
              IndexNamesFirst, NoRepeats
<1>6. CASE UNCHANGED ivars
  BY <1>6 DEF ivars, IInv, ITypeOK, TypeOK, TracksTheList,
              IndexNamesFirst, NoRepeats
<1>7. QED
  BY <1>1, <1>2, <1>3, <1>4, <1>5, <1>6 DEF INext

-----------------------------------------------------------------------------
(* The theorems. *)

LEMMA IInvHolds ==
  ASSUME NullId \notin Id
  PROVE  ISpec => []IInv
<1>1. IInit => IInv
  BY InitEstablishes
<1>2. IInv /\ [INext]_ivars => IInv'
  BY StepPreserves
<1>3. QED
  BY <1>1, <1>2, PTL DEF ISpec

(***************************************************************************)
(* The list, the ids, the index and what is tracked keep their types: an   *)
(* id leads to an object or to none.                                       *)
(***************************************************************************)
THEOREM CollectionTypeCorrect ==
  ASSUME NullId \notin Id
  PROVE  ISpec => []ITypeOK
<1>1. IInv => ITypeOK
  BY DEF IInv
<1>2. QED
  BY <1>1, IInvHolds, PTL

(***************************************************************************)
(* GraphModel::assertIndexIntegrity never fires, after any sequence of     *)
(* additions, removals, renames (to a taken id too), batches and clears.   *)
(***************************************************************************)
THEOREM IndexNeverDiverges ==
  ASSUME NullId \notin Id
  PROVE  ISpec => []IndexIntegrity
<1>1. IInv => IndexIntegrity
  BY DEF IInv, IndexIntegrity
<1>2. QED
  BY <1>1, IInvHolds, PTL

(***************************************************************************)
(* No object is ever in a collection twice: removeComponent and clear      *)
(* leave no second reference to an object behind.                          *)
(***************************************************************************)
THEOREM NoObjectListedTwice ==
  ASSUME NullId \notin Id
  PROVE  ISpec => []NoRepeats
<1>1. IInv => NoRepeats
  BY DEF IInv
<1>2. QED
  BY <1>1, IInvHolds, PTL

(***************************************************************************)
(* Every step of the indexed collection is a step of IdCollection or       *)
(* changes nothing it shows: the index is a pure optimisation.             *)
(***************************************************************************)
THEOREM IndexedImplementsIdCollection ==
  ASSUME NullId \notin Id
  PROVE  ISpec => ImplementsIdCollection
<1> USE DEF ITypeOK, TypeOK
<1>1. IInit => Init
  BY DEF IInit
<1>2. ASSUME IInv, [INext]_ivars
      PROVE  [Next]_vars
  <2>1. ASSUME NEW o \in Object, AddObject(o)
        PROVE  [Next]_vars
    <3>1. CASE ~batch /\ index[ids[o]] # NoObject
      BY <2>1, <3>1 DEF AddObject, vars
    <3>2. CASE batch \/ index[ids[o]] = NoObject
      <4>1. o \notin ToSet(list)
        BY <1>2, <2>1, <3>2, AddedIsNew
      <4>2. batch \/ FirstById(list, ids, ids[o]) = NoObject
        BY <1>2, <3>2 DEF IInv, IndexNamesFirst
      <4>3. Add(o)
        BY <2>1, <3>2, <4>1, <4>2 DEF AddObject, Add
      <4>4. QED
        BY <4>3 DEF Next
    <3>3. QED
      BY <3>1, <3>2
  <2>2. ASSUME NEW i \in Id, RemoveById(i)
        PROVE  [Next]_vars
    <3>1. index[i] = FirstById(list, ids, i)
      BY <1>2 DEF IInv, IndexNamesFirst
    <3>2. Delete(i) \/ UNCHANGED vars
      BY <2>2, <3>1 DEF RemoveById, Delete, vars
    <3>3. QED
      BY <3>2 DEF Next
  <2>3. ASSUME NEW o \in Object, NEW i \in Id, SetId(o, i)
        PROVE  [Next]_vars
    BY <2>3 DEF SetId, Rename, Next
  <2>4. CASE ClearAll
    BY <2>4 DEF ClearAll, Clear, Next
  <2>5. ASSUME NEW b \in BOOLEAN, UpdateBatch(b)
        PROVE  [Next]_vars
    BY <2>5 DEF UpdateBatch, SetBatch, Next
  <2>6. CASE UNCHANGED ivars
    BY <2>6 DEF ivars, vars
  <2>7. QED
    BY <1>2, <2>1, <2>2, <2>3, <2>4, <2>5, <2>6 DEF INext
<1>3. QED
  BY <1>1, <1>2, IInvHolds, PTL DEF ISpec, Spec, ImplementsIdCollection
=============================================================================
