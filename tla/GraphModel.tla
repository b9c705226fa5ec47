----------------------------- MODULE GraphModel -----------------------------
(***************************************************************************)
(* GraphModel: the two indexed collections of the editor's graph, the      *)
(* batch mode they share, and the views bound to them.  A view (the QML    *)
(* properties components and connections) reads the list again each time   *)
(* the collection emits its changed signal, and never in between: what it  *)
(* shows is the list as it was at the last signal.                         *)
(***************************************************************************)
EXTENDS Naturals, Sequences

CONSTANTS Component, Connection, Id, NullId, NoObject, Untracked

ASSUME NoObjectIsNone == NoObject \notin Component \cup Connection

ASSUME UntrackedIsNone == Untracked \notin Id \cup {NullId}

VARIABLES
  components, componentIds, componentIndex, componentTracked,
  connections, connectionIds, connectionIndex, connectionTracked,
  batchMode,
  shownComponents, shownConnections   \* what the bound views last read

C == INSTANCE IndexedCollection WITH
       Object <- Component, list <- components, ids <- componentIds,
       index <- componentIndex, tracked <- componentTracked,
       batch <- batchMode

E == INSTANCE IndexedCollection WITH
       Object <- Connection, list <- connections, ids <- connectionIds,
       index <- connectionIndex, tracked <- connectionTracked,
       batch <- batchMode

componentVars  == <<components, componentIds, componentIndex, componentTracked,
                    shownComponents>>
connectionVars == <<connections, connectionIds, connectionIndex,
                    connectionTracked, shownConnections>>
vars == <<componentVars, connectionVars, batchMode>>

TypeOK ==
  /\ C!ITypeOK /\ shownComponents \in Seq(Component)
  /\ E!ITypeOK /\ shownConnections \in Seq(Connection)

Init ==
  /\ C!IInit /\ shownComponents = <<>>
  /\ E!IInit /\ shownConnections = <<>>

\* Mutant of ComponentsChanged: the view is bound to the other list.
ComponentsChangedMixedUp == shownComponents' = connections

ComponentsChanged  == shownComponents' = components'
ConnectionsChanged == shownConnections' = connections'

-----------------------------------------------------------------------------

AddComponent(c) ==
  /\ C!AddObject(c)
  /\ IF components' # components /\ ~batchMode
     THEN ComponentsChanged ELSE UNCHANGED shownComponents
  /\ UNCHANGED connectionVars

RemoveComponent(i) ==
  /\ C!RemoveById(i)
  /\ IF components' # components
     THEN ComponentsChanged ELSE UNCHANGED shownComponents
  /\ UNCHANGED connectionVars

SetComponentId(c, i) ==
  /\ C!SetId(c, i)
  /\ UNCHANGED <<shownComponents, connectionVars>>

AddConnection(e) ==
  /\ E!AddObject(e)
  /\ IF connections' # connections /\ ~batchMode
     THEN ConnectionsChanged ELSE UNCHANGED shownConnections
  /\ UNCHANGED componentVars

RemoveConnection(i) ==
  /\ E!RemoveById(i)
  /\ IF connections' # connections
     THEN ConnectionsChanged ELSE UNCHANGED shownConnections
  /\ UNCHANGED componentVars

SetConnectionId(e, i) ==
  /\ E!SetId(e, i)
  /\ UNCHANGED <<shownConnections, componentVars>>

\* Mutant of Clear: the connection index survives its connections.
ClearKeepsConnectionIndex ==
  /\ C!ClearAll
  /\ connections' = <<>> /\ connectionTracked' = [e \in Connection |-> Untracked]
  /\ shownComponents' = <<>> /\ shownConnections' = <<>>
  /\ UNCHANGED <<connectionIds, connectionIndex>>

Clear ==
  /\ C!ClearAll /\ E!ClearAll
  /\ IF components # <<>> /\ ~batchMode
     THEN ComponentsChanged ELSE UNCHANGED shownComponents
  /\ IF connections # <<>> /\ ~batchMode
     THEN ConnectionsChanged ELSE UNCHANGED shownConnections

BeginBatchUpdate ==
  /\ C!UpdateBatch(TRUE) /\ E!UpdateBatch(TRUE)
  /\ UNCHANGED <<shownComponents, shownConnections>>

\* Mutant of EndBatchUpdate: only one of the two signals is emitted.
EndBatchUpdateHalf ==
  /\ C!UpdateBatch(FALSE) /\ E!UpdateBatch(FALSE)
  /\ ComponentsChanged /\ UNCHANGED shownConnections

EndBatchUpdate ==
  /\ C!UpdateBatch(FALSE) /\ E!UpdateBatch(FALSE)
  /\ ComponentsChanged /\ ConnectionsChanged

Next ==
  \/ \E c \in Component : AddComponent(c)
  \/ \E i \in Id : RemoveComponent(i)
  \/ \E c \in Component, i \in Id : SetComponentId(c, i)
  \/ \E e \in Connection : AddConnection(e)
  \/ \E i \in Id : RemoveConnection(i)
  \/ \E e \in Connection, i \in Id : SetConnectionId(e, i)
  \/ Clear
  \/ BeginBatchUpdate
  \/ EndBatchUpdate

Spec == Init /\ [][Next]_vars

-----------------------------------------------------------------------------

(***************************************************************************)
(* Both indexes agree with their lists in every reachable state, whatever  *)
(* the two collections and the batch mode they share do to each other.     *)
(***************************************************************************)
BothIndexesIntact == C!IndexIntegrity /\ E!IndexIntegrity

(***************************************************************************)
(* Outside a batch no view is stale: whatever sequence of operations and   *)
(* batches came before, what the views show is what the graph holds.       *)
(***************************************************************************)
ViewsFreshOutsideBatch ==
  ~batchMode => shownComponents = components /\ shownConnections = connections
=============================================================================
