--------------------------- MODULE MCCommandStack ---------------------------
(***************************************************************************)
(* Small editors with two component ids, and place 3, which lies        *)
(* outside the canvas, which the registered invariant forbids.             *)
(***************************************************************************)
EXTENDS CommandStack, TLC

InsideCanvas(d) == \A o \in ToSet(d.components) : d.attr[o].at < 3

Symmetry == Permutations(Component) \cup Permutations(Connection)
=============================================================================
