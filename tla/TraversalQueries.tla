-------------------------- MODULE TraversalQueries --------------------------
(***************************************************************************)
(* The traversals of TraversalEngine, each over the cache and a policy     *)
(* (what the cache holds is the subject of TraversalCache).  A traversal   *)
(* is the state its loop starts with and what one iteration makes of it.   *)
(*                                                                         *)
(* A cache g has the type of every component it holds (g.type) and the     *)
(* connections by id (g.links).  A policy p is the parsed RuntimePolicy;   *)
(* scores are thousandths.  Ids are numbers, ordered as the code orders    *)
(* strings; a hash set iterates in any order, so where the order can be    *)
(* seen an iteration may take any of its elements.                         *)
(***************************************************************************)
EXTENDS Integers, SequencesExt, FiniteSetsExt

Unbounded == -1
NoType    == "untyped"

Nodes(g) == DOMAIN g.type

(***************************************************************************)
(* Policies.                                                               *)
(***************************************************************************)
Pruned(g, p, n) ==
  \/ n \in p.prunedIds
  \/ n \in Nodes(g) /\ g.type[n] # NoType /\ g.type[n] \in p.prunedTypes

Allowed(p, label) ==
  /\ p.allowed # {} => label \in p.allowed
  /\ label \notin p.blocked

Score(g, p, k) ==
  LET t == g.links[k].target
  IN  (IF t \in Nodes(g) THEN p.typeScore[g.type[t]] ELSE 0)
        + p.labelScore[g.links[k].label]

Cost(g, p, k) == Max({1, 1000 - Score(g, p, k)})

(***************************************************************************)
(* The cache lists a connection under its source only if it has both ends  *)
(* (addConnectionToAdjacency).  The best score goes first.                 *)
(***************************************************************************)
Linking(g, k) == {g.links[k].source, g.links[k].target} \subseteq Nodes(g)

LinksOut(g, p, n) ==
  {k \in DOMAIN g.links : /\ g.links[k].source = n
                          /\ Linking(g, k)
                          /\ Allowed(p, g.links[k].label)}

GoesBefore(g, p, j, k) ==
  LET sj == Score(g, p, j)  tj == g.links[j].target
      sk == Score(g, p, k)  tk == g.links[k].target
  IN  \/ sj > sk
      \/ sj = sk /\ tj < tk
      \/ sj = sk /\ tj = tk /\ j < k

\* Sorted lists: an element comes after as many as go before it.
Earlier(g, p, links, k) == {j \in links : GoesBefore(g, p, j, k)}

InOrder(g, p, links) ==
  [i \in 1..Cardinality(links) |->
     CHOOSE k \in links : Cardinality(Earlier(g, p, links, k)) = i - 1]

Lesser(ids, n) == {m \in ids : m < n}

Ascending(ids) ==
  [i \in 1..Cardinality(ids) |-> CHOOSE n \in ids : Cardinality(Lesser(ids, n)) = i - 1]

InDegree(g, n) ==
  Cardinality({k \in DOMAIN g.links : Linking(g, k) /\ g.links[k].target = n})

EntryPoints(g, p) ==
  IF p.entryIds # {} THEN p.entryIds
  ELSE IF p.zeroInDegree THEN {n \in Nodes(g) : InDegree(g, n) = 0}
  ELSE Nodes(g)

\* Where the searches begin.
SearchEntries(g, p) == {n \in EntryPoints(g, p) : ~Pruned(g, p, n)}

AtLimit(p, depth) == p.maxDepth # Unbounded /\ depth >= p.maxDepth

\* The components that these links lead to, each with its depth.
Targets(g, links, depth) == [i \in DOMAIN links |-> <<g.links[links[i]].target, depth>>]

(***************************************************************************)
(* bfs: a component is marked when it is queued.                           *)
(***************************************************************************)
BfsStart(g, p) ==
  [order   |-> <<>>,
   visited |-> SearchEntries(g, p),
   queue   |-> [i \in DOMAIN Ascending(SearchEntries(g, p)) |-> <<Ascending(SearchEntries(g, p))[i], 0>>]]

\* Mutant of Fresh: a component is queued before it is looked up.
FreshUnpruned(g, p, n, visited) ==
  LET out == {k \in LinksOut(g, p, n) : g.links[k].target \notin visited}
  IN  {k \in out : \A j \in out : g.links[j].target = g.links[k].target => ~GoesBefore(g, p, j, k)}

\* The links of n that are the first to lead to an unvisited component.
Fresh(g, p, n, visited) ==
  LET out == {k \in LinksOut(g, p, n) : /\ ~Pruned(g, p, g.links[k].target)
                                        /\ g.links[k].target \notin visited}
  IN  {k \in out : \A j \in out : g.links[j].target = g.links[k].target => ~GoesBefore(g, p, j, k)}

BfsVisit(g, p, s) ==
  LET n     == Head(s.queue)[1]
      depth == Head(s.queue)[2]
      fresh == IF AtLimit(p, depth) THEN {} ELSE Fresh(g, p, n, s.visited)
  IN  [order   |-> Append(s.order, n),
       visited |-> s.visited \cup {g.links[k].target : k \in fresh},
       queue   |-> Tail(s.queue) \o Targets(g, InOrder(g, p, fresh), depth + 1)]

(***************************************************************************)
(* dfs: a component is marked when it is taken from the stack, whose top   *)
(* is the head here.                                                       *)
(***************************************************************************)
DfsStart(g, p) ==
  [order |-> <<>>,
   stack |-> [i \in DOMAIN Ascending(SearchEntries(g, p)) |-> <<Ascending(SearchEntries(g, p))[i], 0>>]]

DfsVisit(g, p, s) ==
  LET n     == Head(s.stack)[1]
      depth == Head(s.stack)[2]
      open  == IF AtLimit(p, depth) THEN {}
               ELSE {k \in LinksOut(g, p, n) :
                       /\ ~Pruned(g, p, g.links[k].target)
                       /\ g.links[k].target \notin ToSet(s.order) \cup {n}}
  IN  IF n \in ToSet(s.order) THEN [s EXCEPT !.stack = Tail(@)]
      ELSE [order |-> Append(s.order, n),
            stack |-> Targets(g, InOrder(g, p, open), depth + 1) \o Tail(s.stack)]

(***************************************************************************)
(* topologicalTraversal: the sorted list of components without unmet       *)
(* predecessors is the set "zero", from which the least is taken.          *)
(***************************************************************************)
Kept(g, p) == {n \in Nodes(g) : ~Pruned(g, p, n)}

Counted(g, p, n) ==
  Cardinality({k \in DOMAIN g.links : /\ g.links[k].target = n
                                      /\ g.links[k].source \in Kept(g, p)
                                      /\ Allowed(p, g.links[k].label)})

TopologicalStart(g, p) ==
  [zero     |-> {n \in Kept(g, p) : Counted(g, p, n) = 0},
   inDegree |-> [n \in Kept(g, p) |-> Counted(g, p, n)],
   order    |-> <<>>]

\* One off the degree of a component for each connection that leads to it.
TopologicalVisit(g, p, s) ==
  LET n        == Min(s.zero)
      LinksTo(t) == {k \in LinksOut(g, p, n) : g.links[k].target = t}
      inDegree == [t \in DOMAIN s.inDegree |-> s.inDegree[t] - Cardinality(LinksTo(t))]
  IN  [zero     |-> (s.zero \ {n})
                      \cup {t \in DOMAIN inDegree : LinksTo(t) # {} /\ inDegree[t] = 0},
       inDegree |-> inDegree,
       order    |-> Append(s.order, n)]

TopologicalResult(g, p, s) ==
  [order |-> s.order, acyclic |-> Len(s.order) = Cardinality(Kept(g, p))]

(***************************************************************************)
(* stronglyConnectedComponents: Tarjan's algorithm.  index and low are the *)
(* functions of the components numbered so far; calls is the stack of the  *)
(* calls of strongConnect, the innermost first, with the links each has    *)
(* still to look at.                                                       *)
(***************************************************************************)
ConnectStart == [index |-> <<>>, low |-> <<>>, stack |-> <<>>, components |-> <<>>, calls |-> <<>>]

Unnumbered(g, p, s) == Kept(g, p) \ DOMAIN s.index

Numbered(numbers, n, i) ==
  [m \in DOMAIN numbers \cup {n} |-> IF m = n THEN i ELSE numbers[m]]

\* A call of strongConnect begins.
Connect(g, p, s, n) ==
  [s EXCEPT !.index = Numbered(@, n, Cardinality(DOMAIN s.index)),
            !.low   = Numbered(@, n, Cardinality(DOMAIN s.index)),
            !.stack = Append(@, n),
            !.calls = <<[node |-> n, links |-> InOrder(g, p, LinksOut(g, p, n))]>> \o @]

Lowered(s, n, to) == [s EXCEPT !.low[n] = Min({@, to})]

\* The innermost call looks at its next link.
ConnectLink(g, p, s) ==
  LET call == Head(s.calls)
      t    == g.links[Head(call.links)].target
      left == [call EXCEPT !.links = Tail(@)]
      rest == [s EXCEPT !.calls = <<left>> \o Tail(@)]
  IN  IF Pruned(g, p, t) THEN rest
      ELSE IF t \notin DOMAIN s.index THEN Connect(g, p, rest, t)
      ELSE IF t \in ToSet(s.stack) THEN Lowered(rest, call.node, s.index[t])
      ELSE rest

\* Mutant of Closed: the stack is not unwound.
ClosedOnlyTop(s, n) ==
  [s EXCEPT !.components = Append(@, {n}), !.stack = Front(@)]

\* The part of the stack from n up is a component.
Closed(s, n) ==
  LET from == CHOOSE i \in DOMAIN s.stack : s.stack[i] = n
  IN  [s EXCEPT !.components = Append(@, ToSet(SubSeq(s.stack, from, Len(s.stack)))),
                !.stack = SubSeq(@, 1, from - 1)]

\* The innermost call returns to the one that made it.
ConnectReturn(s) ==
  LET n     == Head(s.calls).node
      after == [(IF s.low[n] = s.index[n] THEN Closed(s, n) ELSE s) EXCEPT !.calls = Tail(@)]
  IN  IF Tail(s.calls) = <<>> THEN after
      ELSE Lowered(after, s.calls[2].node, s.low[n])

(***************************************************************************)
(* shortestPath: Dijkstra's algorithm.  A component has a distance once it *)
(* is reached.  Among components at the least distance the code takes the  *)
(* first of a hash set, so it can take any of them.                        *)
(***************************************************************************)
PathStart(g, p, source) ==
  [unvisited |-> Kept(g, p), dist |-> [n \in {source} |-> 0], prev |-> <<>>]

AtLeastDistance(s) ==
  LET reached == s.unvisited \cap DOMAIN s.dist
  IN  {n \in reached : \A m \in reached : s.dist[n] <= s.dist[m]}

\* Mutant of Nearer: a longer way to a component replaces a shorter one.
NearerAlways(s, t, offers) == offers # {}

Nearer(s, t, offers) == offers # {} /\ (t \in DOMAIN s.dist => Min(offers) < s.dist[t])

\* n is visited and its connections are relaxed.
Visited(g, p, s, n) ==
  LET Offers(t) == {s.dist[n] + Cost(g, p, k) :
                      k \in {j \in LinksOut(g, p, n) : g.links[j].target = t}}
      nearer    == {t \in s.unvisited \ {n} : Nearer(s, t, Offers(t))}
  IN  [unvisited |-> s.unvisited \ {n},
       dist |-> [t \in DOMAIN s.dist \cup nearer |-> IF t \in nearer THEN Min(Offers(t)) ELSE s.dist[t]],
       prev |-> [t \in DOMAIN s.prev \cup nearer |-> IF t \in nearer THEN n ELSE s.prev[t]]]

\* The way back, from a target to where a search came from.
Walk(prev, target) == [prev |-> prev, path |-> <<target>>]

WalkedBack(walk) == [walk EXCEPT !.path = <<walk.prev[Head(@)]>> \o @]
=============================================================================
