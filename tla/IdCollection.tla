---------------------------- MODULE IdCollection ----------------------------
(***************************************************************************)
(* What one collection of GraphModel (its components, or its connections)  *)
(* promises to the rest of the editor: an ordered list of objects, looked  *)
(* up and removed by id, where the first object of the list with an id is  *)
(* the one the id names.  There is no index here: every lookup is the      *)
(* linear scan of firstComponentByIdLinear / firstConnectionByIdLinear.    *)
(* IndexedCollection is the code's implementation of this specification,   *)
(* and CommandStack is written over the operators of this module.          *)
(***************************************************************************)
EXTENDS Naturals, SequencesExt

CONSTANTS
  Object,    \* the ComponentModel (or ConnectionModel) objects
  Id,        \* the ids an object may carry
  NoObject   \* nullptr

ASSUME NoObjectIsNoObject == NoObject \notin Object

(***************************************************************************)
(* The first object of the list l whose id, under the naming n, is i.      *)
(***************************************************************************)
FirstById(l, n, i) ==
  IF \E p \in DOMAIN l : n[l[p]] = i
  THEN l[CHOOSE p \in DOMAIN l :
           /\ n[l[p]] = i
           /\ \A q \in DOMAIN l : n[l[q]] = i => p <= q]
  ELSE NoObject

Position(l, o) == CHOOSE p \in DOMAIN l : l[p] = o

(***************************************************************************)
(* The list l without the object o, and the list a removal by id leaves.   *)
(***************************************************************************)
Without(l, o) == RemoveAt(l, Position(l, o))

-----------------------------------------------------------------------------

VARIABLES
  list,    \* the objects of the collection, in insertion order
  ids,     \* the id each object carries, in the collection or not
  batch    \* between beginBatchUpdate() and endBatchUpdate()

vars == <<list, ids, batch>>

TypeOK ==
  /\ list \in Seq(Object)
  /\ ids \in [Object -> Id]
  /\ batch \in BOOLEAN

Init ==
  /\ list = <<>>
  /\ ids \in [Object -> Id]
  /\ batch = FALSE

(***************************************************************************)
(* Outside a batch an object whose id is already taken is refused; inside  *)
(* a batch every new object is taken ("caller guarantees unique IDs").     *)
(***************************************************************************)
Add(o) ==
  /\ o \notin ToSet(list)
  /\ batch \/ FirstById(list, ids, ids[o]) = NoObject
  /\ list' = Append(list, o)
  /\ UNCHANGED <<ids, batch>>

Delete(i) ==
  /\ FirstById(list, ids, i) # NoObject
  /\ list' = Without(list, FirstById(list, ids, i))
  /\ UNCHANGED <<ids, batch>>

Rename(o, i) ==
  /\ ids' = [ids EXCEPT ![o] = i]
  /\ UNCHANGED <<list, batch>>

Clear ==
  /\ list' = <<>>
  /\ UNCHANGED <<ids, batch>>

SetBatch(b) ==
  /\ batch' = b
  /\ UNCHANGED <<list, ids>>

Next ==
  \/ \E o \in Object : Add(o)
  \/ \E i \in Id : Delete(i)
  \/ \E o \in Object, i \in Id : Rename(o, i)
  \/ Clear
  \/ \E b \in BOOLEAN : SetBatch(b)

Spec == Init /\ [][Next]_vars
=============================================================================
