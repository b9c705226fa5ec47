-------------------------- MODULE MCTraversalCache --------------------------
(***************************************************************************)
(* Two component ids, two connection objects, two connection ids: enough   *)
(* for a replaced component, parallel connections and swapped ids.         *)
(***************************************************************************)
EXTENDS TraversalCache, TLC

Symmetry == Permutations(Id) \cup Permutations(Connection) \cup
            Permutations(ConnectionId)
=============================================================================
