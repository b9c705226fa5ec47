------------------------- MODULE MCExecutionSandbox -------------------------
(***************************************************************************)
(* Graphs for the sandbox.  AllGraphs: every graph over three ids and up   *)
(* to three connections, parallel connections, self-loops, cycles and      *)
(* connections to missing components included.  FewGraphs: one of each     *)
(* shape, for the runs in which the graph changes and slots interfere.     *)
(***************************************************************************)
EXTENDS ExecutionSandbox

Ids == 1 .. 3
Connections == 1 .. 3

(***************************************************************************)
(* The connections of a graph given as a sequence of source and target     *)
(* pairs; a connection that is not used points anywhere.                   *)
(***************************************************************************)
Graph(ns, pairs) ==
  [nodes  |-> ns,
   edges  |-> DOMAIN pairs,
   source |-> [e \in Connections |-> IF e \in DOMAIN pairs THEN pairs[e][1] ELSE 1],
   target |-> [e \in Connections |-> IF e \in DOMAIN pairs THEN pairs[e][2] ELSE 1]]

(***************************************************************************)
(* Connection ids are interchangeable, so each multiset of pairs is taken  *)
(* in one order only.                                                      *)
(***************************************************************************)
InOrder(pairs) ==
  \A k \in 1 .. Len(pairs) - 1 :
    3 * pairs[k][1] + pairs[k][2] <= 3 * pairs[k + 1][1] + pairs[k + 1][2]

AllGraphs ==
  {Graph(ns, pairs) :
     ns \in SUBSET Ids,
     pairs \in {q \in UNION {[1 .. k -> Ids \X Ids] : k \in 0 .. 3} : InOrder(q)}}

Chain    == Graph(Ids, << <<3, 2>>, <<2, 1>> >>)
Join     == Graph(Ids, << <<1, 2>>, <<3, 2>> >>)
Parallel == Graph({1, 2}, << <<2, 1>>, <<2, 1>>, <<3, 1>> >>)
Cycle    == Graph(Ids, << <<1, 2>>, <<2, 3>>, <<3, 2>> >>)

FewGraphs == {Chain, Join, Parallel, Cycle, Graph({}, <<>>)}
=============================================================================
