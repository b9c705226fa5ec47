-------------------------- MODULE GraphModelProofs --------------------------
(***************************************************************************)
(* Proofs about GraphModel.  Each of its two collections is shown to take  *)
(* steps of an IndexedCollection only, whatever the other collection and   *)
(* the batch mode they share do, so that what IndexedCollectionProofs      *)
(* establishes of one collection holds of both.  That the views are fresh  *)
(* outside a batch is inductive by itself.                                 *)
(***************************************************************************)
EXTENDS GraphModel, TLAPS

CP == INSTANCE IndexedCollectionProofs WITH
        Object <- Component, list <- components, ids <- componentIds,
        index <- componentIndex, tracked <- componentTracked,
        batch <- batchMode

EP == INSTANCE IndexedCollectionProofs WITH
        Object <- Connection, list <- connections, ids <- connectionIds,
        index <- connectionIndex, tracked <- connectionTracked,
        batch <- batchMode

-----------------------------------------------------------------------------
(* The instances of the proof module are those of the model. *)

LEMMA SameComponentInit == C!IInit => CP!IInit
BY DEF C!IInit, CP!IInit, C!Init, CP!Init

LEMMA SameConnectionInit == E!IInit => EP!IInit
BY DEF E!IInit, EP!IInit, E!Init, EP!Init

LEMMA SameComponentAdd ==
  ASSUME NEW c \in Component, C!AddObject(c)
  PROVE  CP!AddObject(c)
BY DEF C!AddObject, CP!AddObject, C!Attach, CP!Attach, C!Attached, CP!Attached

LEMMA SameConnectionAdd ==
  ASSUME NEW e \in Connection, E!AddObject(e)
  PROVE  EP!AddObject(e)
BY DEF E!AddObject, EP!AddObject, E!Attach, EP!Attach, E!Attached, EP!Attached

LEMMA SameComponentRemoval ==
  ASSUME NEW i \in Id, C!RemoveById(i)
  PROVE  CP!RemoveById(i)
BY DEF C!RemoveById, CP!RemoveById, C!Detach, CP!Detach, C!Repaired, CP!Repaired,
       C!FirstById, CP!FirstById, C!Without, CP!Without, C!Position, CP!Position,
       C!ToSet, CP!ToSet, C!RemoveAt, CP!RemoveAt

LEMMA SameConnectionRemoval ==
  ASSUME NEW i \in Id, E!RemoveById(i)
  PROVE  EP!RemoveById(i)
BY DEF E!RemoveById, EP!RemoveById, E!Detach, EP!Detach, E!Repaired, EP!Repaired,
       E!FirstById, EP!FirstById, E!Without, EP!Without, E!Position, EP!Position,
       E!ToSet, EP!ToSet, E!RemoveAt, EP!RemoveAt

LEMMA SameComponentRename ==
  ASSUME NEW c \in Component, NEW i \in Id, C!SetId(c, i)
  PROVE  CP!SetId(c, i)
BY DEF C!SetId, CP!SetId, C!OnIdChanged, CP!OnIdChanged, C!Attached, CP!Attached,
       C!Repaired, CP!Repaired, C!FirstById, CP!FirstById, C!Precedes, CP!Precedes,
       C!Position, CP!Position, C!ToSet, CP!ToSet

LEMMA SameConnectionRename ==
  ASSUME NEW e \in Connection, NEW i \in Id, E!SetId(e, i)
  PROVE  EP!SetId(e, i)
BY DEF E!SetId, EP!SetId, E!OnIdChanged, EP!OnIdChanged, E!Attached, EP!Attached,
       E!Repaired, EP!Repaired, E!FirstById, EP!FirstById, E!Precedes, EP!Precedes,
       E!Position, EP!Position, E!ToSet, EP!ToSet

LEMMA SameIntegrity ==
  /\ CP!IndexIntegrity => C!IndexIntegrity
  /\ EP!IndexIntegrity => E!IndexIntegrity
<1>1. CP!IndexIntegrity => C!IndexIntegrity
  BY DEF C!IndexIntegrity, CP!IndexIntegrity, C!TracksTheList, CP!TracksTheList,
         C!IndexNamesFirst, CP!IndexNamesFirst, C!FirstById, CP!FirstById,
         C!ToSet, CP!ToSet
<1>2. EP!IndexIntegrity => E!IndexIntegrity
  BY DEF E!IndexIntegrity, EP!IndexIntegrity, E!TracksTheList, EP!TracksTheList,
         E!IndexNamesFirst, EP!IndexNamesFirst, E!FirstById, EP!FirstById,
         E!ToSet, EP!ToSet
<1>3. QED
  BY <1>1, <1>2

-----------------------------------------------------------------------------
(* Steps of the graph are steps of its collections. *)

LEMMA ComponentSteps ==
  ASSUME [Next]_vars
  PROVE  [CP!INext]_(CP!ivars)
<1> USE DEF CP!INext, CP!ivars
<1>1. ASSUME NEW c \in Component, AddComponent(c)
      PROVE  CP!INext
  BY <1>1, SameComponentAdd DEF AddComponent
<1>2. ASSUME NEW i \in Id, RemoveComponent(i)
      PROVE  CP!INext
  BY <1>2, SameComponentRemoval DEF RemoveComponent
<1>3. ASSUME NEW c \in Component, NEW i \in Id, SetComponentId(c, i)
      PROVE  CP!INext
  BY <1>3, SameComponentRename DEF SetComponentId
<1>4. ASSUME NEW e \in Connection, AddConnection(e)
      PROVE  UNCHANGED CP!ivars
  BY <1>4 DEF AddConnection, componentVars, E!AddObject
<1>5. ASSUME NEW i \in Id, RemoveConnection(i)
      PROVE  UNCHANGED CP!ivars
  BY <1>5 DEF RemoveConnection, componentVars, E!RemoveById
<1>6. ASSUME NEW e \in Connection, NEW i \in Id, SetConnectionId(e, i)
      PROVE  UNCHANGED CP!ivars
  BY <1>6 DEF SetConnectionId, componentVars, E!SetId
<1>7. CASE Clear
  BY <1>7 DEF Clear, C!ClearAll, CP!ClearAll
<1>8. CASE BeginBatchUpdate \/ EndBatchUpdate
  BY <1>8 DEF BeginBatchUpdate, EndBatchUpdate, C!UpdateBatch, CP!UpdateBatch
<1>9. CASE UNCHANGED vars
  BY <1>9 DEF vars, componentVars
<1>10. QED
  BY <1>1, <1>2, <1>3, <1>4, <1>5, <1>6, <1>7, <1>8, <1>9 DEF Next

LEMMA ConnectionSteps ==
  ASSUME [Next]_vars
  PROVE  [EP!INext]_(EP!ivars)
<1> USE DEF EP!INext, EP!ivars
<1>1. ASSUME NEW c \in Component, AddComponent(c)
      PROVE  UNCHANGED EP!ivars
  BY <1>1 DEF AddComponent, connectionVars, C!AddObject
<1>2. ASSUME NEW i \in Id, RemoveComponent(i)
      PROVE  UNCHANGED EP!ivars
  BY <1>2 DEF RemoveComponent, connectionVars, C!RemoveById
<1>3. ASSUME NEW c \in Component, NEW i \in Id, SetComponentId(c, i)
      PROVE  UNCHANGED EP!ivars
  BY <1>3 DEF SetComponentId, connectionVars, C!SetId
<1>4. ASSUME NEW e \in Connection, AddConnection(e)
      PROVE  EP!INext
  BY <1>4, SameConnectionAdd DEF AddConnection
<1>5. ASSUME NEW i \in Id, RemoveConnection(i)
      PROVE  EP!INext
  BY <1>5, SameConnectionRemoval DEF RemoveConnection
<1>6. ASSUME NEW e \in Connection, NEW i \in Id, SetConnectionId(e, i)
      PROVE  EP!INext
  BY <1>6, SameConnectionRename DEF SetConnectionId
<1>7. CASE Clear
  BY <1>7 DEF Clear, E!ClearAll, EP!ClearAll
<1>8. CASE BeginBatchUpdate \/ EndBatchUpdate
  BY <1>8 DEF BeginBatchUpdate, EndBatchUpdate, E!UpdateBatch, EP!UpdateBatch
<1>9. CASE UNCHANGED vars
  BY <1>9 DEF vars, connectionVars
<1>10. QED
  BY <1>1, <1>2, <1>3, <1>4, <1>5, <1>6, <1>7, <1>8, <1>9 DEF Next

-----------------------------------------------------------------------------
(* The theorems. *)

BothInv == CP!IInv /\ EP!IInv

LEMMA BothInvHolds ==
  ASSUME NullId \notin Id
  PROVE  Spec => []BothInv
<1>1. Init => BothInv
  BY SameComponentInit, SameConnectionInit, CP!InitEstablishes, EP!InitEstablishes,
     NoObjectIsNone, UntrackedIsNone DEF Init, BothInv
<1>2. BothInv /\ [Next]_vars => BothInv'
  <2>1. SUFFICES ASSUME CP!IInv, EP!IInv, [Next]_vars
                 PROVE  CP!IInv' /\ EP!IInv'
    BY DEF BothInv
  <2>2. CP!IInv'
    BY <2>1, ComponentSteps, CP!StepPreserves, NoObjectIsNone, UntrackedIsNone
  <2>3. EP!IInv'
    BY <2>1, ConnectionSteps, EP!StepPreserves, NoObjectIsNone, UntrackedIsNone
  <2>4. QED
    BY <2>2, <2>3
<1>3. QED
  BY <1>1, <1>2, PTL DEF Spec

(***************************************************************************)
(* Whatever the two collections do to each other and to the batch mode     *)
(* they share, assertIndexIntegrity of GraphModel holds for both.          *)
(***************************************************************************)
THEOREM GraphIndexesIntact ==
  ASSUME NullId \notin Id
  PROVE  Spec => []BothIndexesIntact
<1>1. BothInv => BothIndexesIntact
  BY SameIntegrity DEF BothInv, BothIndexesIntact, CP!IInv, EP!IInv,
                       CP!IndexIntegrity, EP!IndexIntegrity
<1>2. QED
  BY <1>1, BothInvHolds, PTL

(***************************************************************************)
(* Type correctness: the lists, the indexes and the views hold only        *)
(* objects of their own kind, and every index entry is an object or none.  *)
(***************************************************************************)
THEOREM GraphTypeCorrect ==
  ASSUME NullId \notin Id
  PROVE  Spec => []TypeOK
<1> DEFINE Shown == /\ shownComponents \in Seq(Component)
                    /\ shownConnections \in Seq(Connection)
<1>1. BothInv => C!ITypeOK /\ E!ITypeOK
  BY DEF BothInv, CP!IInv, EP!IInv, CP!ITypeOK, EP!ITypeOK, C!ITypeOK, E!ITypeOK,
         CP!TypeOK, EP!TypeOK, C!TypeOK, E!TypeOK
<1>2. Init => Shown
  BY DEF Init
<1>3. [Next]_vars => /\ shownComponents' \in {shownComponents, components'}
                     /\ shownConnections' \in {shownConnections, connections'}
  <2> USE DEF ComponentsChanged, ConnectionsChanged, componentVars, connectionVars
  <2>1. ASSUME NEW c \in Component, AddComponent(c)
        PROVE  /\ shownComponents' \in {shownComponents, components'}
               /\ UNCHANGED shownConnections
    BY <2>1 DEF AddComponent
  <2>2. ASSUME NEW i \in Id, RemoveComponent(i)
        PROVE  /\ shownComponents' \in {shownComponents, components'}
               /\ UNCHANGED shownConnections
    BY <2>2 DEF RemoveComponent
  <2>3. ASSUME NEW c \in Component, NEW i \in Id, SetComponentId(c, i)
        PROVE  UNCHANGED <<shownComponents, shownConnections>>
    BY <2>3 DEF SetComponentId
  <2>4. ASSUME NEW e \in Connection, AddConnection(e)
        PROVE  /\ shownConnections' \in {shownConnections, connections'}
               /\ UNCHANGED shownComponents
    BY <2>4 DEF AddConnection
  <2>5. ASSUME NEW i \in Id, RemoveConnection(i)
        PROVE  /\ shownConnections' \in {shownConnections, connections'}
               /\ UNCHANGED shownComponents
    BY <2>5 DEF RemoveConnection
  <2>6. ASSUME NEW e \in Connection, NEW i \in Id, SetConnectionId(e, i)
        PROVE  UNCHANGED <<shownComponents, shownConnections>>
    BY <2>6 DEF SetConnectionId
  <2>7. CASE Clear
    BY <2>7 DEF Clear
  <2>8. CASE BeginBatchUpdate \/ EndBatchUpdate
    BY <2>8 DEF BeginBatchUpdate, EndBatchUpdate
  <2>9. CASE UNCHANGED vars
    BY <2>9 DEF vars
  <2>10. QED
    BY <2>1, <2>2, <2>3, <2>4, <2>5, <2>6, <2>7, <2>8, <2>9 DEF Next
<1>4. Shown /\ BothInv' /\ [Next]_vars => Shown'
  <2>1. BothInv' => components' \in Seq(Component) /\ connections' \in Seq(Connection)
    BY DEF BothInv, CP!IInv, EP!IInv, CP!ITypeOK, EP!ITypeOK, CP!TypeOK, EP!TypeOK
  <2>2. QED
    BY <1>3, <2>1
<1>5. BothInv /\ Shown => TypeOK
  BY <1>1 DEF TypeOK
<1> HIDE DEF Shown
<1>6. QED
  BY <1>2, <1>4, <1>5, BothInvHolds, PTL DEF Spec

(***************************************************************************)
(* A view bound to the graph is never stale outside a batch, after any     *)
(* sequence of additions, refused additions, removals, renames, clears and *)
(* batches: each signal that is due is emitted.                            *)
(***************************************************************************)
THEOREM ViewsAreFresh == Spec => []ViewsFreshOutsideBatch
<1>1. Init => ViewsFreshOutsideBatch
  BY DEF Init, C!IInit, E!IInit, C!Init, E!Init, ViewsFreshOutsideBatch
<1>2. ASSUME ViewsFreshOutsideBatch, [Next]_vars
      PROVE  ViewsFreshOutsideBatch'
  <2> USE <1>2 DEF ViewsFreshOutsideBatch, ComponentsChanged, ConnectionsChanged,
                   componentVars, connectionVars
  <2>1. ASSUME NEW c \in Component, AddComponent(c)
        PROVE  ViewsFreshOutsideBatch'
    BY <2>1 DEF AddComponent, C!AddObject
  <2>2. ASSUME NEW i \in Id, RemoveComponent(i)
        PROVE  ViewsFreshOutsideBatch'
    BY <2>2 DEF RemoveComponent, C!RemoveById
  <2>3. ASSUME NEW c \in Component, NEW i \in Id, SetComponentId(c, i)
        PROVE  ViewsFreshOutsideBatch'
    BY <2>3 DEF SetComponentId, C!SetId
  <2>4. ASSUME NEW e \in Connection, AddConnection(e)
        PROVE  ViewsFreshOutsideBatch'
    BY <2>4 DEF AddConnection, E!AddObject
  <2>5. ASSUME NEW i \in Id, RemoveConnection(i)
        PROVE  ViewsFreshOutsideBatch'
    BY <2>5 DEF RemoveConnection, E!RemoveById
  <2>6. ASSUME NEW e \in Connection, NEW i \in Id, SetConnectionId(e, i)
        PROVE  ViewsFreshOutsideBatch'
    BY <2>6 DEF SetConnectionId, E!SetId
  <2>7. CASE Clear
    BY <2>7 DEF Clear, C!ClearAll, E!ClearAll
  <2>8. CASE BeginBatchUpdate \/ EndBatchUpdate
    BY <2>8 DEF BeginBatchUpdate, EndBatchUpdate, C!UpdateBatch, E!UpdateBatch
  <2>9. CASE UNCHANGED vars
    BY <2>9 DEF vars
  <2>10. QED
    BY <2>1, <2>2, <2>3, <2>4, <2>5, <2>6, <2>7, <2>8, <2>9 DEF Next
<1>3. QED
  BY <1>1, <1>2, PTL DEF Spec
=============================================================================
