------------------------ MODULE MCIndexedCollection -------------------------
(***************************************************************************)
(* Three objects and three ids, so that two objects can share an id while  *)
(* a third stands before, between or after them in the list.               *)
(***************************************************************************)
EXTENDS IndexedCollection
=============================================================================
