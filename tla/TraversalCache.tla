--------------------------- MODULE TraversalCache ---------------------------
(***************************************************************************)
(* TraversalEngine's copy of the graph.  Traversals (bfs, dfs, topological *)
(* order, strongly connected components, shortest path) read a cache, not  *)
(* the GraphModel: the engine notes in dirty sets what the graph's and its *)
(* objects' signals tell it, and brings the cache up to date when it is    *)
(* next asked, incrementally where it can.                                 *)
(*                                                                         *)
(* A connection is an object that carries an id, a source and a target; a  *)
(* component is its id (its type is only copied).  The lists of connection *)
(* ids, sorted wherever they are used, are sets.                           *)
(***************************************************************************)
EXTENDS Integers, SequencesExt, FiniteSetsExt, Functions

CONSTANTS
  Id,            \* component ids
  Connection,    \* ConnectionModel objects
  ConnectionId,
  Untracked,
  Callers        \* what callers do beyond tidy edits: see CallersDo

(***************************************************************************)
(* "clear": GraphModel::clear(), as an import does, under an engine that   *)
(* holds a cache.  "renamed": an edit of an object that was renamed.       *)
(* "dangle": a connection whose ends are not both components of the graph: *)
(* the graph takes it, a connection takes any ends, and nobody removes it  *)
(* with a component that goes or is renamed.                               *)
(***************************************************************************)
CallersDo == {"clear", "renamed", "dangle"}

ASSUME CallersAreKnown == Callers \subseteq CallersDo
ASSUME UntrackedIsNoId == Untracked \notin Id \cup ConnectionId

VARIABLES
  components, connections,   \* the graph
  link,        \* [id, source, target] of each connection object
  cache,       \* m_componentTypeById, m_connectionsById, m_outgoing..., m_inDegree
  known,       \* m_trackedComponentIds, of the component that now has the id
  tracked,     \* m_trackedConnectionIds
  dirtyComponents, dirtyConnections, fullDirty,
  asked        \* history: the last step was a query

graph  == <<components, connections, link>>
marks  == <<dirtyComponents, dirtyConnections, fullDirty>>
memory == <<known, tracked>>
vars   == <<graph, cache, memory, marks, asked>>

Links == [id : ConnectionId, source : Id, target : Id]

TypeOK ==
  /\ components \subseteq Id /\ connections \subseteq Connection
  /\ link \in [Connection -> Links]
  /\ cache.nodes \subseteq Id
  /\ DOMAIN cache.links \subseteq ConnectionId
  /\ \A k \in DOMAIN cache.links : cache.links[k] \in [source : Id, target : Id]
  /\ cache.outgoing \in [Id -> SUBSET ConnectionId]
  /\ cache.inDegree \in [Id -> Nat]
  /\ known \in [Id -> Id \cup {Untracked}]
  /\ tracked \in [Connection -> ConnectionId \cup {Untracked}]
  /\ dirtyComponents \subseteq Id /\ dirtyConnections \subseteq ConnectionId
  /\ fullDirty \in BOOLEAN /\ asked \in BOOLEAN

NoLinks == [k \in {} |-> {}]

EmptyCache ==
  [nodes |-> {}, links |-> NoLinks, outgoing |-> [i \in Id |-> {}],
   inDegree |-> [i \in Id |-> 0]]

-----------------------------------------------------------------------------
(* The cache. *)

Carrying(k) == {c \in connections : link[c].id = k}
Ends(c) == [source |-> link[c].source, target |-> link[c].target]

\* Mutant of Unlinked: the count of the target goes down without a look at it.
UnlinkedBlindly(ca, k) ==
  LET e == ca.links[k]
  IN  [ca EXCEPT
         !.links = Restrict(@, DOMAIN @ \ {k}),
         !.outgoing[e.source] = @ \ {k},
         !.inDegree[e.target] = @ - 1]

(***************************************************************************)
(* removeConnectionFromAdjacency: the count of the target goes down        *)
(* whether or not the connection had been counted.                         *)
(***************************************************************************)
Unlinked(ca, k) ==
  LET e == ca.links[k]
  IN  [ca EXCEPT
         !.links = Restrict(@, DOMAIN @ \ {k}),
         !.outgoing[e.source] = @ \ {k},
         !.inDegree[e.target] = IF e.target \in ca.nodes /\ @ > 0 THEN @ - 1 ELSE @]

(***************************************************************************)
(* addConnectionToAdjacency: a connection is counted only when both of its *)
(* ends are known.                                                         *)
(***************************************************************************)
Linked(ca, k, e) ==
  LET inside == {e.source, e.target} \subseteq ca.nodes
  IN  [ca EXCEPT
         !.links = [j \in DOMAIN @ \cup {k} |-> IF j = k THEN e ELSE @[j]],
         !.outgoing[e.source] = IF inside THEN @ \cup {k} ELSE @,
         !.inDegree[e.target] = IF inside THEN @ + 1 ELSE @]

Rebuilt ==
  FoldSet(LAMBDA c, ca : Linked(ca, link[c].id, Ends(c)),
          [EmptyCache EXCEPT !.nodes = components], connections)

(***************************************************************************)
(* What applyIncrementalDirtySet does for one component or connection.     *)
(***************************************************************************)
WithoutComponent(ca, i) ==
  LET into    == {k \in DOMAIN ca.links : ca.links[k].target = i}
      from    == {k \in DOMAIN ca.links : ca.links[k].source = i}
      dropped == [ca EXCEPT
                    !.nodes = @ \ {i},
                    !.inDegree[i] = 0,
                    !.outgoing = [j \in Id |-> IF j = i THEN {} ELSE @[j] \ into]]
  IN  FoldSet(LAMBDA k, acc : Unlinked(acc, k), dropped, into \cup from)

RefreshComponent(i, ca) ==
  IF i \in components THEN [ca EXCEPT !.nodes = @ \cup {i}]
  ELSE WithoutComponent(ca, i)

\* Mutant of RefreshConnection: the old ends are not unlinked.
RefreshConnectionOverOld(k, ca) ==
  IF Carrying(k) = {} THEN ca
  ELSE Linked(ca, k, Ends(CHOOSE c \in Carrying(k) : TRUE))

RefreshConnection(k, ca) ==
  LET old == IF k \in DOMAIN ca.links THEN Unlinked(ca, k) ELSE ca
  IN  IF Carrying(k) = {} THEN old
      ELSE Linked(old, k, Ends(CHOOSE c \in Carrying(k) : TRUE))

(***************************************************************************)
(* applyIncrementalDirtySet: first the dirty components, then the dirty    *)
(* connections, each in whatever order their hash set has.                 *)
(***************************************************************************)
Updated(componentOrder, connectionOrder) ==
  FoldRight(RefreshConnection, connectionOrder,
            FoldRight(RefreshComponent, componentOrder, cache))

(***************************************************************************)
(* ensureCacheReady, at the head of every traversal: a cache whose sizes   *)
(* are not the graph's is rebuilt.                                         *)
(***************************************************************************)
SizesDiffer ==
  \/ Cardinality(cache.nodes) # Cardinality(components)
  \/ Cardinality(DOMAIN cache.links) # Cardinality(connections)

Query ==
  /\ \/ /\ fullDirty \/ SizesDiffer
        /\ cache' = Rebuilt
     \/ /\ ~fullDirty /\ ~SizesDiffer
        /\ \E ks \in SetToSeqs(dirtyComponents), ls \in SetToSeqs(dirtyConnections) :
             cache' = Updated(ks, ls)
  /\ dirtyComponents' = {} /\ dirtyConnections' = {} /\ fullDirty' = FALSE
  /\ asked' = TRUE
  /\ UNCHANGED <<graph, memory>>

-----------------------------------------------------------------------------
(* What happens to the graph, with the engine's slots. *)

Touches(c, i) == i \in {link[c].source, link[c].target}
Free(i) == "dangle" \in Callers \/ \A c \in connections : ~Touches(c, i)
EndsAllowed(s, t) == "dangle" \in Callers \/ {s, t} \subseteq components
Quiet == asked' = FALSE /\ UNCHANGED cache

AddComponent(i) ==
  /\ i \notin components
  /\ components' = components \cup {i}
  /\ known' = [known EXCEPT ![i] = i]
  /\ dirtyComponents' = dirtyComponents \cup {i}
  /\ Quiet /\ UNCHANGED <<connections, link, tracked, dirtyConnections, fullDirty>>

(***************************************************************************)
(* The commands remove a component after its connections.  The engine      *)
(* stops tracking a component it remembers under the id, whichever it      *)
(* finds first.                                                            *)
(***************************************************************************)
RemoveComponent(i) ==
  /\ i \in components /\ Free(i)
  /\ components' = components \ {i}
  /\ LET found == {j \in components : known[j] = i}
     IN  \/ found = {} /\ UNCHANGED known
         \/ \E j \in found : known' = [known EXCEPT ![j] = Untracked]
  /\ dirtyComponents' = dirtyComponents \cup {i}
  /\ Quiet /\ UNCHANGED <<connections, link, tracked, dirtyConnections, fullDirty>>

(***************************************************************************)
(* The engine hears a rename of a component it tracks, and goes on         *)
(* remembering the component under its first id.                           *)
(***************************************************************************)
RenameComponent(i, j) ==
  /\ i \in components /\ j \notin components /\ Free(i)
  /\ "renamed" \in Callers \/ known[i] = i
  /\ components' = (components \ {i}) \cup {j}
  /\ known' = [known EXCEPT ![j] = known[i], ![i] = Untracked]
  /\ fullDirty' = (fullDirty \/ known[i] # Untracked)
  /\ Quiet /\ UNCHANGED <<connections, link, tracked,
                          dirtyComponents, dirtyConnections>>

(***************************************************************************)
(* The commands add a connection between components; the graph asks only   *)
(* that its id is new.                                                     *)
(***************************************************************************)
AddConnection(c, e) ==
  /\ c \notin connections /\ Carrying(e.id) = {}
  /\ EndsAllowed(e.source, e.target)
  /\ connections' = connections \cup {c}
  /\ link' = [link EXCEPT ![c] = e]
  /\ tracked' = [tracked EXCEPT ![c] = e.id]
  /\ dirtyConnections' = dirtyConnections \cup {e.id}
  /\ Quiet /\ UNCHANGED <<components, known, dirtyComponents, fullDirty>>

(***************************************************************************)
(* The engine stops tracking the object it remembers under the id.         *)
(***************************************************************************)
RemoveConnection(c) ==
  /\ c \in connections
  /\ connections' = connections \ {c}
  /\ LET found == {d \in Connection : tracked[d] = link[c].id}
     IN  \/ found = {} /\ UNCHANGED tracked
         \/ \E d \in found : tracked' = [tracked EXCEPT ![d] = Untracked]
  /\ dirtyConnections' = dirtyConnections \cup {link[c].id}
  /\ Quiet /\ UNCHANGED <<components, known, link, dirtyComponents, fullDirty>>

RenameConnection(c, k) ==
  /\ c \in connections /\ Carrying(k) = {}
  /\ "renamed" \in Callers \/ tracked[c] = link[c].id
  /\ link' = [link EXCEPT ![c].id = k]
  /\ fullDirty' = (fullDirty \/ tracked[c] # Untracked)
  /\ Quiet /\ UNCHANGED <<components, connections, memory,
                          dirtyComponents, dirtyConnections>>

(***************************************************************************)
(* setSourceId, setTargetId: the slot marks the id the engine remembers.   *)
(***************************************************************************)
Retarget(c, s, t) ==
  /\ c \in connections /\ EndsAllowed(s, t)
  /\ <<s, t>> # <<link[c].source, link[c].target>>
  /\ "renamed" \in Callers \/ tracked[c] = link[c].id
  /\ link' = [link EXCEPT ![c].source = s, ![c].target = t]
  /\ dirtyConnections' = dirtyConnections \cup ({tracked[c]} \ {Untracked})
  /\ Quiet /\ UNCHANGED <<components, connections, memory, dirtyComponents,
                          fullDirty>>

(***************************************************************************)
(* GraphModel::clear() deletes the objects and tells nobody which they     *)
(* were: the engine goes on remembering the deleted connections.           *)
(***************************************************************************)
Clear ==
  /\ "clear" \in Callers \/ fullDirty
  /\ components' = {} /\ connections' = {}
  /\ Quiet /\ UNCHANGED <<link, memory, marks>>

(***************************************************************************)
(* setGraph to an empty graph, or to none and back.                        *)
(***************************************************************************)
SetGraph ==
  /\ components' = {} /\ connections' = {}
  /\ cache' = EmptyCache
  /\ known' = [i \in Id |-> Untracked]
  /\ tracked' = [c \in Connection |-> Untracked]
  /\ dirtyComponents' = {} /\ dirtyConnections' = {} /\ fullDirty' = TRUE
  /\ asked' = FALSE /\ UNCHANGED link

Init ==
  /\ components = {} /\ connections = {}
  /\ link \in {[c \in Connection |-> e] : e \in Links}
  /\ cache = EmptyCache
  /\ known = [i \in Id |-> Untracked]
  /\ tracked = [c \in Connection |-> Untracked]
  /\ dirtyComponents = {} /\ dirtyConnections = {} /\ fullDirty = TRUE
  /\ asked = FALSE

Next ==
  \/ Query
  \/ \E i \in Id : AddComponent(i)
  \/ \E i \in Id : RemoveComponent(i)
  \/ \E i, j \in Id : RenameComponent(i, j)
  \/ \E c \in Connection, e \in Links : AddConnection(c, e)
  \/ \E c \in Connection : RemoveConnection(c)
  \/ \E c \in Connection, k \in ConnectionId : RenameConnection(c, k)
  \/ \E c \in Connection, s, t \in Id : Retarget(c, s, t)
  \/ Clear
  \/ SetGraph

Spec == Init /\ [][Next]_vars

-----------------------------------------------------------------------------
(* Properties. *)

(***************************************************************************)
(* What a traversal reads: the components, and the connections between     *)
(* them, of the graph as it is.                                            *)
(***************************************************************************)
Inner(c) == {link[c].source, link[c].target} \subseteq components

CacheIsCurrent ==
  asked =>
    /\ cache.nodes = components
    /\ \A i \in Id :
         cache.outgoing[i] =
           {link[c].id : c \in {d \in connections : Inner(d) /\ link[d].source = i}}
    /\ \A i \in components :
         cache.inDegree[i] =
           Cardinality({c \in connections : Inner(c) /\ link[c].target = i})
    /\ \A c \in {d \in connections : Inner(d)} :
         /\ link[c].id \in DOMAIN cache.links
         /\ cache.links[link[c].id] = Ends(c)
=============================================================================
