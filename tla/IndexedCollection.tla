------------------------- MODULE IndexedCollection --------------------------
(***************************************************************************)
(* One collection of GraphModel as the code keeps it: the list, a hash     *)
(* index from an id to the first object that carries it, and, per attached *)
(* object, the id it carried when the index last saw it (tracked), which   *)
(* the idChanged handler needs to find the entry to repair.                *)
(*                                                                         *)
(* The code has this machinery twice, word for word, for components and    *)
(* for connections; GraphModel instantiates this module twice.             *)
(***************************************************************************)
EXTENDS IdCollection

CONSTANTS
  NullId,     \* the QString of an object whose id was never set
  Untracked   \* no entry in m_componentTrackedIds

ASSUME UntrackedIsNoId == Untracked \notin Id \cup {NullId}

VARIABLES index, tracked

ivars == <<list, ids, batch, index, tracked>>

ITypeOK ==
  /\ TypeOK
  /\ index \in [Id -> Object \cup {NoObject}]
  /\ tracked \in [Object -> Id \cup {Untracked}]

IInit ==
  /\ Init
  /\ index = [i \in Id |-> NoObject]
  /\ tracked = [o \in Object |-> Untracked]

Attached(o) == tracked[o] # Untracked

\* Mutant of Repaired: the entry is erased although another object has the id.
RepairedByErasing(ix, o, i, l, n) ==
  IF ix[i] = o THEN [ix EXCEPT ![i] = NoObject] ELSE ix

(***************************************************************************)
(* The index after the entry of id i stopped naming o: the first remaining *)
(* object with that id takes it over, under the list l and naming n.       *)
(***************************************************************************)
Repaired(ix, o, i, l, n) ==
  IF ix[i] = o THEN [ix EXCEPT ![i] = FirstById(l, n, i)] ELSE ix

(***************************************************************************)
(* attachComponent: the index keeps an entry that is already there.        *)
(***************************************************************************)
Attach(o) ==
  /\ tracked' = [tracked EXCEPT ![o] = ids[o]]
  /\ index' = IF index[ids[o]] = NoObject
              THEN [index EXCEPT ![ids[o]] = o]
              ELSE index

\* Mutant of Detach: the tracked id is nulled instead of removed.
DetachByNulling(o, l) ==
  /\ tracked' = [tracked EXCEPT ![o] = NullId]
  /\ index' = IF tracked[o] # NullId
              THEN Repaired(index, o, tracked[o], l, ids)
              ELSE index

(***************************************************************************)
(* detachComponent, called when the list is already l.  A null tracked id  *)
(* skips the repair.                                                       *)
(***************************************************************************)
Detach(o, l) ==
  /\ tracked' = [tracked EXCEPT ![o] = Untracked]
  /\ index' = IF tracked[o] # NullId
              THEN Repaired(index, o, tracked[o], l, ids)
              ELSE index

\* Mutant of AddObject: duplicates are not refused.
AddObjectUnasked(o) ==
  /\ batch => ~Attached(o)
  /\ list' = Append(list, o)
  /\ Attach(o)
  /\ UNCHANGED <<ids, batch>>

(***************************************************************************)
(* addComponent: outside a batch, refused when the index knows the id.     *)
(* Inside a batch the callers only pass objects they have just created.    *)
(***************************************************************************)
AddObject(o) ==
  /\ batch => ~Attached(o)
  /\ IF ~batch /\ index[ids[o]] # NoObject
     THEN UNCHANGED <<list, index, tracked>>
     ELSE /\ list' = Append(list, o)
          /\ Attach(o)
  /\ UNCHANGED <<ids, batch>>

(***************************************************************************)
(* removeComponent(id): false, and nothing changed, when the index has no  *)
(* object for the id or the object is not in the list.                     *)
(***************************************************************************)
RemoveById(i) ==
  LET o == index[i]
  IN  /\ IF o = NoObject \/ o \notin ToSet(list)
         THEN UNCHANGED <<list, index, tracked>>
         ELSE /\ list' = Without(list, o)
              /\ Detach(o, Without(list, o))
      /\ UNCHANGED <<ids, batch>>

(***************************************************************************)
(* Whether o is to take over the entry that names cur: it stands before    *)
(* cur in the list.                                                        *)
(***************************************************************************)
Precedes(l, o, cur) ==
  /\ o \in ToSet(l)
  /\ cur \in ToSet(l) => Position(l, o) < Position(l, cur)

\* Mutant of OnIdChanged: the renamed object takes the entry over regardless.
OnIdChangedTakesOver(o, i) ==
  /\ tracked' = [tracked EXCEPT ![o] = i]
  /\ index' = [Repaired(index, o, tracked[o], list, ids') EXCEPT ![i] = o]

(***************************************************************************)
(* onTrackedComponentIdChanged, run by setId on an attached object.        *)
(***************************************************************************)
OnIdChanged(o, i) ==
  LET released == Repaired(index, o, tracked[o], list, ids')
      cur      == released[i]
  IN  /\ tracked' = [tracked EXCEPT ![o] = i]
      /\ index' = IF cur = NoObject \/ (cur # o /\ Precedes(list, o, cur))
                  THEN [released EXCEPT ![i] = o]
                  ELSE released

(***************************************************************************)
(* setId(id) on any object: it returns at once when the id is the same,    *)
(* and only an attached object is observed by the collection.              *)
(***************************************************************************)
SetId(o, i) ==
  /\ ids[o] # i
  /\ ids' = [ids EXCEPT ![o] = i]
  /\ IF Attached(o) THEN OnIdChanged(o, i) ELSE UNCHANGED <<index, tracked>>
  /\ UNCHANGED <<list, batch>>

(***************************************************************************)
(* clear(): an empty list skips the reset of the index.  The objects are   *)
(* deleted; an unattached Object stands for any object not in the list.    *)
(***************************************************************************)
ClearAll ==
  /\ list' = <<>>
  /\ IF list = <<>>
     THEN UNCHANGED <<index, tracked>>
     ELSE /\ index' = [i \in Id |-> NoObject]
          /\ tracked' = [o \in Object |-> Untracked]
  /\ UNCHANGED <<ids, batch>>

UpdateBatch(b) ==
  /\ batch' = b
  /\ UNCHANGED <<list, ids, index, tracked>>

INext ==
  \/ \E o \in Object : AddObject(o)
  \/ \E i \in Id : RemoveById(i)
  \/ \E o \in Object, i \in Id : SetId(o, i)
  \/ ClearAll
  \/ \E b \in BOOLEAN : UpdateBatch(b)

ISpec == IInit /\ [][INext]_ivars

-----------------------------------------------------------------------------

(***************************************************************************)
(* assertIndexIntegrity, the assertion the debug build evaluates after     *)
(* every operation: exactly the objects of the list are tracked, each      *)
(* under the id it carries now, and the index names the first object of    *)
(* the list with each id and no other.                                     *)
(***************************************************************************)
TracksTheList ==
  \A o \in Object :
    tracked[o] = IF o \in ToSet(list) THEN ids[o] ELSE Untracked

IndexNamesFirst == \A i \in Id : index[i] = FirstById(list, ids, i)

IndexIntegrity == TracksTheList /\ IndexNamesFirst

(***************************************************************************)
(* No object is in the list twice (removal takes out one occurrence only,  *)
(* so a second one would outlive its deletion).                            *)
(***************************************************************************)
NoRepeats == \A p, q \in DOMAIN list : list[p] = list[q] => p = q

(***************************************************************************)
(* With the index, the collection does what IdCollection promises of the   *)
(* linear scan: no lookup, refusal or removal ever differs.                *)
(***************************************************************************)
ImplementsIdCollection == Spec
=============================================================================
