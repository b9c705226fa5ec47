----------------------- MODULE ExecutionSandboxProofs -----------------------
(***************************************************************************)
(* Proofs about GraphExecutionSandbox, on every finite graph and for every *)
(* mixture of start(), step(), run(), pause() and breakpoints:             *)
(*   - the order in which it executes the components respects every        *)
(*     dependency and its ready queue is exact, provided that slots do no  *)
(*     more in the middle of a call than pause and move breakpoints;       *)
(*   - under the same condition it implements TopologicalRun: the order    *)
(*     and the outcome are functions of the graph alone;                   *)
(*   - what holds even when slots reset the simulation in the middle of a  *)
(*     call: one conclusion, its verdict and the tokens, until a slot      *)
(*     starts, steps or runs it.                                           *)
(***************************************************************************)
EXTENDS ExecutionSandbox, FiniteSetTheorems, WellFoundedInduction, TLAPS

-----------------------------------------------------------------------------
(* The operators of the model. *)

(***************************************************************************)
(* The first component id of a nonempty set is the least of the set.       *)
(***************************************************************************)
LEMMA FirstIsLeast ==
  ASSUME NEW S \in SUBSET Node, S # {}
  PROVE  First(S) \in S /\ \A m \in S : First(S) <= m
<1> DEFINE R == {ss \in Nat \X Nat : ss[1] < ss[2]}
<1>1. IsWellFoundedOn(R, Nat)
  BY NatLessThanWellFounded DEF OpToRel
<1>2. \A x, y \in Nat : x < y => <<x, y>> \in R
  OBVIOUS
<1>3. S \in SUBSET Nat
  BY NodesAreNumbers
<1> HIDE DEF R
<1>4. PICK m \in S : \A k \in S : <<k, m>> \notin R
  BY <1>1, <1>3, WFMin
<1>5. ASSUME NEW k \in S
      PROVE  m <= k
  <2>1. m \in Nat /\ k \in Nat /\ ~ (k < m)
    BY <1>2, <1>3, <1>4
  <2>2. QED
    BY <2>1
<1>6. QED
  BY <1>5 DEF First

(***************************************************************************)
(* The snapshot of a graph is a graph in which no connection dangles.      *)
(***************************************************************************)
Sound(g) ==
  /\ g.nodes \subseteq Node /\ g.edges \subseteq Edge
  /\ \A e \in g.edges : g.source[e] \in g.nodes /\ g.target[e] \in g.nodes

LEMMA SnapshotIsSound ==
  ASSUME NEW g \in GraphType
  PROVE  Snapshot(g) \in GraphType /\ Sound(Snapshot(g))
BY DEF GraphType, Snapshot, Sound

LEMMA EmptyGraphIsSound == Sound(EmptyGraph)
BY DEF EmptyGraph, Sound

(***************************************************************************)
(* The connections into n that still hold it up once those in done have    *)
(* been executed: finitely many, so that counting them makes sense.        *)
(***************************************************************************)
Holding(g, done, n) == {e \in EdgesInto(g, n) : g.source[e] \notin done}

LEMMA HoldingIsFinite ==
  ASSUME NEW g, Sound(g), NEW done, NEW n
  PROVE  /\ IsFiniteSet(Holding(g, done, n))
         /\ Cardinality(Holding(g, done, n)) \in Nat
<1>1. Holding(g, done, n) \in SUBSET Edge
  BY DEF Holding, EdgesInto, Sound
<1>2. QED
  BY <1>1, EdgesAreFinite, FS_Subset, FS_CardinalityType

LEMMA InDegreesCountHolding ==
  ASSUME NEW g, Sound(g)
  PROVE  /\ InDegrees(g) \in [Node -> Int]
         /\ \A n \in g.nodes :
              InDegrees(g)[n] = Cardinality(Holding(g, {}, n))
<1>1. \A n : EdgesInto(g, n) = Holding(g, {}, n)
  BY DEF Holding
<1>2. \A n \in Node : Cardinality(EdgesInto(g, n)) \in Nat
  BY <1>1, HoldingIsFinite
<1>3. g.nodes \subseteq Node
  BY DEF Sound
<1>4. QED
  BY <1>1, <1>2, <1>3 DEF InDegrees

(***************************************************************************)
(* The connections from c to n, as executeOneStep counts them on its copy  *)
(* of the outgoing connections of c.                                       *)
(***************************************************************************)
Lifted(out, n) == {e \in DOMAIN out : out[e] = n}

LEMMA LiftedIsFinite ==
  ASSUME NEW out, DOMAIN out \subseteq Edge, NEW n
  PROVE  IsFiniteSet(Lifted(out, n)) /\ Cardinality(Lifted(out, n)) \in Nat
<1>1. Lifted(out, n) \in SUBSET Edge
  BY DEF Lifted
<1>2. QED
  BY <1>1, EdgesAreFinite, FS_Subset, FS_CardinalityType

(***************************************************************************)
(* Executing c lifts exactly its own connections, and the count goes down  *)
(* by their number; it reaches zero when nothing else held n up.           *)
(***************************************************************************)
LEMMA ExecutionLifts ==
  ASSUME NEW g, Sound(g), NEW done, NEW c, c \notin done, NEW n
  PROVE  LET before == Holding(g, done, n)
             lifted == Lifted(EdgesOutOf(g, c), n)
             after  == Holding(g, done \cup {c}, n)
         IN  /\ after = before \ lifted
             /\ lifted \subseteq before
             /\ Cardinality(after) = Cardinality(before) - Cardinality(lifted)
             /\ Cardinality(before) <= Cardinality(lifted) => after = {}
             /\ after = {} => Cardinality(before) = Cardinality(lifted)
             /\ Cardinality(before) = 0 <=> before = {}
             /\ n \notin g.nodes => lifted = {}
<1> DEFINE before == Holding(g, done, n)
           lifted == Lifted(EdgesOutOf(g, c), n)
           after  == Holding(g, done \cup {c}, n)
<1>1. lifted = {e \in g.edges : g.source[e] = c /\ g.target[e] = n}
  BY DEF Lifted, EdgesOutOf
<1>2. before = {e \in g.edges : g.target[e] = n /\ g.source[e] \notin done}
  BY DEF Holding, EdgesInto
<1>3. after = {e \in g.edges : /\ g.target[e] = n
                               /\ g.source[e] \notin done \cup {c}}
  BY DEF Holding, EdgesInto
<1>4. IsFiniteSet(before) /\ Cardinality(before) \in Nat
  BY HoldingIsFinite
<1>5. n \notin g.nodes => lifted = {}
  BY <1>1 DEF Sound
<1> HIDE DEF before, lifted, after
<1>6. after = before \ lifted /\ lifted \subseteq before
  BY <1>1, <1>2, <1>3
<1>7. /\ IsFiniteSet(lifted) /\ Cardinality(lifted) \in Nat
      /\ Cardinality(lifted) <= Cardinality(before)
      /\ Cardinality(before) = Cardinality(lifted) => before = lifted
  BY <1>4, <1>6, FS_Subset, FS_CardinalityType
<1>8. before \cap lifted = lifted
  BY <1>6
<1>9. Cardinality(after) = Cardinality(before) - Cardinality(lifted)
  BY <1>4, <1>6, <1>8, FS_Difference
<1>10. Cardinality(before) <= Cardinality(lifted) => after = {}
  BY <1>4, <1>6, <1>7
<1>11. after = {} => Cardinality(before) = Cardinality(lifted)
  BY <1>6
<1>12. Cardinality(before) = 0 <=> before = {}
  BY <1>4, FS_EmptySet
<1>13. QED
  BY <1>5, <1>6, <1>9, <1>10, <1>11, <1>12 DEF before, lifted, after
-----------------------------------------------------------------------------
(* Type correctness, whatever slots do. *)

(***************************************************************************)
(* While a component is being executed it is a component, at the bottom of *)
(* the stack of calls there is no call, and the simulation always works on *)
(* a graph in which no connection dangles.                                 *)
(***************************************************************************)
RestFrame == [call |-> "none", phase |-> "rest", current |-> NoComponent,
              outgoing |-> <<>>, left |-> 0]

Placed(f) ==
  /\ f.phase = "executed" => f.current \in Node
  /\ f.phase = "rest" => f.call = "none"
  /\ f.call = "none" => f = RestFrame

StackInv ==
  /\ Placed(Frame)
  /\ \A i \in 1 .. Len(below) :
       Placed(below[i]) /\ (below[i].call = "none" <=> i = Len(below))

TInv == TypeOK /\ StackInv /\ Sound(snap)

(***************************************************************************)
(* What TypeOK says of the calls.                                          *)
(***************************************************************************)
StackOK ==
  /\ Frame \in FrameType
  /\ below \in Seq(FrameType)
  /\ call = "none" <=> below = <<>>
  /\ StackInv

NoTargets == <<>> \in UNION {[S -> Node] : S \in SUBSET Edge}

LEMMA NothingIsTargets == NoTargets
<1>1. <<>> \in [{} -> Node]
  OBVIOUS
<1>2. QED
  BY <1>1 DEF NoTargets

LEMMA FrameFields ==
  ASSUME Frame \in FrameType
  PROVE  /\ call \in {"none", "start", "step", "run"}
         /\ phase \in {"rest", "started", "begin", "loop", "executed", "ticked"}
         /\ current \in Node \cup {NoComponent}
         /\ left \in -1 .. MaxBudget
         /\ outgoing \in UNION {[S -> Node] : S \in SUBSET Edge}
         /\ DOMAIN outgoing \subseteq Edge
         /\ \A e \in DOMAIN outgoing : outgoing[e] \in Node
<1>1. Frame.outgoing = outgoing /\ outgoing \in UNION {[S -> Node] : S \in SUBSET Edge}
  BY DEF Frame, FrameType
<1>2. PICK S \in SUBSET Edge : outgoing \in [S -> Node]
  BY <1>1
<1>3. DOMAIN outgoing = S /\ \A e \in S : outgoing[e] \in Node
  BY <1>2
<1>4. QED
  BY <1>1, <1>3 DEF Frame, FrameType

(***************************************************************************)
(* A call is put on top of the one it interrupts, and a return finds the   *)
(* one that was interrupted.                                               *)
(***************************************************************************)
LEMMA CallStacks ==
  ASSUME StackOK,
         NEW kind \in {"start", "step", "run"}, NEW at \in {"started", "begin", "loop"},
         NEW budget \in -1 .. MaxBudget, Call(kind, at, budget)
  PROVE  /\ StackOK'
         /\ call' = kind /\ phase' = at
         /\ call = "none" => below' = <<RestFrame>>
<1>1. /\ call' = kind /\ phase' = at /\ left' = budget
      /\ current' = NoComponent /\ outgoing' = <<>>
      /\ below' = <<Frame>> \o below
  BY DEF Call
<1>2. Frame' = [call |-> kind, phase |-> at, current |-> NoComponent,
                outgoing |-> <<>>, left |-> budget]
  BY <1>1 DEF Frame
<1>3. Frame' \in FrameType
  BY <1>2, NothingIsTargets DEF FrameType, NoTargets
<1>4. Placed(Frame')
  BY <1>2 DEF Placed
<1> DEFINE top == Frame
<1>5. top \in FrameType /\ below \in Seq(FrameType) /\ Placed(top)
      /\ (call = "none" <=> below = <<>>) /\ (top.call = call)
  BY DEF StackOK, StackInv, Frame
<1>6. call = "none" => top = RestFrame
  BY <1>5 DEF Placed
<1>7. below' = <<top>> \o below
  BY <1>1
<1>8. \A i \in 1 .. Len(below) :
        Placed(below[i]) /\ (below[i].call = "none" <=> i = Len(below))
  BY DEF StackOK, StackInv
<1> HIDE DEF top
<1>9. /\ below' \in Seq(FrameType) /\ below' # <<>>
      /\ Len(below) \in Nat /\ Len(below') = Len(below) + 1
      /\ below'[1] = top
      /\ \A i \in 2 .. Len(below') : below'[i] = below[i - 1]
  BY <1>5, <1>7
<1>10. below = <<>> <=> Len(below) = 0
  BY <1>5
<1>11. ASSUME NEW i \in 1 .. Len(below')
       PROVE  Placed(below'[i]) /\ (below'[i].call = "none" <=> i = Len(below'))
  <2>1. CASE i = 1
    BY <1>5, <1>9, <1>10, <2>1
  <2>2. CASE i # 1
    <3>1. i \in 2 .. Len(below') /\ i - 1 \in 1 .. Len(below)
      BY <1>9, <2>2
    <3>2. QED
      BY <1>8, <1>9, <3>1
  <2>3. QED
    BY <2>1, <2>2
<1>12. call = "none" => below' = <<RestFrame>>
  BY <1>5, <1>6, <1>7
<1>13. StackInv'
  BY <1>4, <1>11 DEF StackInv
<1>14. QED
  BY <1>1, <1>3, <1>9, <1>12, <1>13 DEF StackOK

LEMMA LeaveUnstacks ==
  ASSUME StackOK, call # "none", Leave
  PROVE  /\ StackOK'
         /\ below = <<RestFrame>> =>
              call' = "none" /\ phase' = "rest" /\ below' = <<>>
<1> DEFINE f == Head(below)
<1>1. /\ below \in Seq(FrameType) /\ below # <<>>
      /\ \A i \in 1 .. Len(below) :
           Placed(below[i]) /\ (below[i].call = "none" <=> i = Len(below))
  BY DEF StackOK, StackInv
<1>2. /\ f \in FrameType /\ f = below[1] /\ Len(below) \in Nat \ {0}
      /\ Tail(below) \in Seq(FrameType) /\ Len(Tail(below)) = Len(below) - 1
      /\ \A i \in 1 .. Len(Tail(below)) : Tail(below)[i] = below[i + 1]
  BY <1>1
<1>3. /\ call' = f.call /\ phase' = f.phase /\ left' = f.left
      /\ current' = f.current /\ outgoing' = f.outgoing
      /\ below' = Tail(below)
  BY DEF Leave
<1>4. below = <<RestFrame>> => f = RestFrame /\ below' = <<>>
  BY <1>2, <1>3
<1> HIDE DEF f
<1>5. Frame' = f
  BY <1>2, <1>3 DEF Frame, FrameType
<1>6. Placed(f) /\ (f.call = "none" <=> Len(below) = 1)
  <2>1. 1 \in 1 .. Len(below)
    BY <1>2
  <2>2. Placed(below[1]) /\ (below[1].call = "none" <=> 1 = Len(below))
    BY <1>1, <2>1
  <2>3. QED
    BY <1>2, <2>2
<1>7. call' = "none" <=> below' = <<>>
  <2> DEFINE rest == Tail(below)
  <2>1. rest \in Seq(FrameType)
    BY <1>2
  <2>2. below' = rest /\ (Len(rest) = 0 <=> Len(below) = 1)
    BY <1>2, <1>3
  <2> HIDE DEF rest
  <2>3. rest = <<>> <=> Len(rest) = 0
    BY <2>1
  <2>4. QED
    BY <1>3, <1>6, <2>2, <2>3
<1>8. ASSUME NEW i \in 1 .. Len(below')
      PROVE  Placed(below'[i]) /\ (below'[i].call = "none" <=> i = Len(below'))
  <2>1. i + 1 \in 1 .. Len(below) /\ below'[i] = below[i + 1]
        /\ (i = Len(below') <=> i + 1 = Len(below))
    BY <1>2, <1>3
  <2>2. QED
    BY <1>1, <2>1
<1>9. StackInv'
  BY <1>5, <1>6, <1>8 DEF StackInv
<1>10. StackOK'
  BY <1>2, <1>3, <1>5, <1>7, <1>9 DEF StackOK
<1>11. QED
  BY <1>3, <1>4, <1>10 DEF RestFrame

LEMMA StackKept ==
  ASSUME StackOK, UNCHANGED frame
  PROVE  StackOK'
<1>1. Frame' = Frame /\ below' = below /\ call' = call
  BY DEF frame, Frame
<1>2. QED
  BY <1>1 DEF StackOK, StackInv

(***************************************************************************)
(* The call in progress goes on to another phase.                          *)
(***************************************************************************)
LEMMA StackMovesOn ==
  ASSUME StackOK, call # "none", UNCHANGED <<call, below>>,
         phase' \in {"loop", "executed", "ticked"},
         current' \in Node \cup {NoComponent}, phase' = "executed" => current' \in Node,
         outgoing' \in UNION {[S -> Node] : S \in SUBSET Edge}, left' \in -1 .. MaxBudget
  PROVE  StackOK'
<1>1. Frame' \in FrameType /\ Placed(Frame')
  <2>1. call \in {"start", "step", "run"}
    BY FrameFields DEF StackOK
  <2>2. Frame' = [call |-> call, phase |-> phase', current |-> current',
                  outgoing |-> outgoing', left |-> left']
    BY DEF Frame
  <2>3. QED
    BY <2>1, <2>2 DEF FrameType, Placed
<1>2. QED
  BY <1>1 DEF StackOK, StackInv

LEMMA FinalTypes ==
  ASSUME NEW st \in Statuses, NEW rd, NEW ex, NEW g
  PROVE  /\ Finalized(st, rd, ex, g) \in Statuses
         /\ FinalEvents(st, rd, ex, g) \in Seq({"completed", "blocked", "error"})
BY DEF Finalized, FinalEvents, Statuses

LEMMA TypeInit == Init => TInv
<1> SUFFICES ASSUME Init PROVE TInv
  OBVIOUS
<1>1. graph \in GraphType \cup {NoGraph}
  BY GraphsAreGraphs DEF Init
<1>2. Frame = RestFrame /\ below = <<>>
  BY DEF Init, Frame, RestFrame
<1>3. StackOK
  <2>1. RestFrame \in FrameType /\ Placed(RestFrame)
    BY NothingIsTargets, BudgetIsNat DEF RestFrame, FrameType, NoTargets, Placed
  <2>2. <<>> \in Seq(FrameType) /\ 1 .. Len(<<>>) = {}
    OBVIOUS
  <2>3. QED
    BY <1>2, <2>1, <2>2 DEF StackOK, StackInv, Init
<1>4. /\ order \in Seq(Node)
      /\ endings \in Seq({"completed", "blocked", "error"})
      /\ pending \in [Node -> Int]
      /\ tokens \in [Edge -> Node \cup {NoToken}]
      /\ status \in Statuses /\ tick \in Nat
  BY DEF Init, Statuses
<1>5. TypeOK
  <2>1. /\ transport \in BOOLEAN /\ steady \in BOOLEAN
        /\ snap \in GraphType \cup {EmptyGraph}
        /\ executed \in SUBSET Node /\ ready \in SUBSET Node
        /\ breakpoints \in SUBSET BreakpointIds
    BY DEF Init
  <2>2. nested = 0 /\ 0 \in 0 .. MaxNested
    BY NestedIsNat DEF Init
  <2>3. /\ Frame \in FrameType /\ below \in Seq(FrameType)
        /\ call = "none" <=> below = <<>>
    BY <1>3 DEF StackOK
  <2>4. QED
    BY <1>1, <1>4, <2>1, <2>2, <2>3 DEF TypeOK
<1>6. QED
  BY <1>3, <1>5, EmptyGraphIsSound DEF TInv, Init, StackOK

(***************************************************************************)
(* The rest of TypeOK.                                                     *)
(***************************************************************************)
DataOK ==
  /\ graph \in GraphType \cup {NoGraph}
  /\ transport \in BOOLEAN /\ steady \in BOOLEAN
  /\ snap \in GraphType \cup {EmptyGraph}
  /\ pending \in [Node -> Int]
  /\ tokens \in [Edge -> Node \cup {NoToken}]
  /\ executed \in SUBSET Node /\ ready \in SUBSET Node
  /\ status \in Statuses /\ tick \in Nat
  /\ order \in Seq(Node)
  /\ endings \in Seq({"completed", "blocked", "error"})
  /\ breakpoints \in SUBSET BreakpointIds
  /\ nested \in 0 .. MaxNested
  /\ Sound(snap)

LEMMA InvIsBoth == TInv <=> DataOK /\ StackOK
BY DEF TInv, TypeOK, DataOK, StackOK

LEMMA InvIsBothNext == TInv' <=> DataOK' /\ StackOK'
BY InvIsBoth, PTL

LEMMA TypeRequest == TInv /\ Request => TInv'
<1> SUFFICES ASSUME DataOK, StackOK, Request PROVE DataOK' /\ StackOK'
  BY InvIsBoth, InvIsBothNext
<1>1. ASSUME ClearSimulationData
      PROVE  /\ tokens' \in [Edge -> Node \cup {NoToken}]
             /\ executed' \in SUBSET Node
             /\ tick' \in Nat /\ order' \in Seq(Node)
  BY <1>1 DEF ClearSimulationData
<1>2. ASSUME ClearSnapshot
      PROVE  /\ snap' \in GraphType \cup {EmptyGraph}
             /\ pending' \in [Node -> Int]
             /\ ready' \in SUBSET Node
             /\ Sound(snap')
  BY <1>2, EmptyGraphIsSound DEF ClearSnapshot
<1>3. ASSUME NEW op, MayCall(op), nested' = IF call = "none" THEN nested ELSE nested + 1
      PROVE  nested' \in 0 .. MaxNested
  BY <1>3, NestedIsNat DEF MayCall, DataOK
<1>4. CASE Start
  <2>1. nested' \in 0 .. MaxNested
    BY <1>4, NestedIsNat DEF Start, MayCall, DataOK
  <2>2. ClearSimulationData /\ UNCHANGED <<graph, transport, breakpoints>>
    BY <1>4 DEF Start
  <2>3. CASE graph # NoGraph /\ StartOn(graph) /\ Call("start", "started", 0)
    <3> DEFINE s == Snapshot(graph)
    <3>1. graph \in GraphType
      BY <2>3 DEF DataOK
    <3>2. s \in GraphType /\ Sound(s)
      BY <3>1, SnapshotIsSound
    <3>3. /\ snap' = s /\ pending' = InDegrees(s)
          /\ ready' = {n \in s.nodes : InDegrees(s)[n] = 0}
          /\ status' = "paused" /\ endings' = <<>> /\ steady' = transport
      BY <2>3 DEF StartOn
    <3>4. InDegrees(s) \in [Node -> Int]
      BY <3>2, InDegreesCountHolding
    <3>5. s.nodes \subseteq Node
      BY <3>2 DEF Sound
    <3> HIDE DEF s
    <3>6. status' \in Statuses /\ steady' \in BOOLEAN
      BY <3>3 DEF Statuses, DataOK
    <3>7. DataOK'
      BY <1>1, <2>1, <2>2, <3>2, <3>3, <3>4, <3>5, <3>6 DEF DataOK
    <3>8. QED
      BY <2>3, <3>7, CallStacks, BudgetIsNat
  <2>4. CASE /\ ClearSnapshot
             /\ status' = "error" /\ endings' = <<"error">>
             /\ UNCHANGED <<steady, frame>>
    <3>1. status' \in Statuses /\ endings' \in Seq({"completed", "blocked", "error"})
      BY <2>4 DEF Statuses
    <3>2. DataOK'
      BY <1>1, <1>2, <2>1, <2>2, <2>4, <3>1 DEF DataOK
    <3>3. QED
      BY <2>4, <3>2, StackKept
  <2>5. QED
    BY <1>4, <2>3, <2>4 DEF Start
<1>5. CASE Reset
  <2>1. nested' \in 0 .. MaxNested
    BY <1>5, NestedIsNat DEF Reset, DataOK
  <2>2. DataOK'
    BY <1>1, <1>2, <1>5, <2>1 DEF Reset, ResetSimulation, DataOK, Statuses
  <2>3. QED
    BY <1>5, <2>2, StackKept DEF Reset
<1>6. CASE Pause
  BY <1>6, StackKept DEF Pause, DataOK, environment, simulation, Statuses
<1>7. ASSUME NEW kind \in {"step", "run"}, NEW k \in -1 .. MaxBudget, Begin(kind, k)
      PROVE  DataOK' /\ StackOK'
  <2>1. nested' \in 0 .. MaxNested
    BY <1>3, <1>7 DEF Begin
  <2>2. DataOK'
    BY <1>7, <2>1 DEF Begin, DataOK, simulation, Statuses
  <2>3. \E at \in {"begin", "loop"} : Call(kind, at, k)
    BY <1>7 DEF Begin
  <2>4. QED
    BY <2>2, <2>3, CallStacks
<1>8. ASSUME NEW n \in BreakpointIds, NEW b \in BOOLEAN, SetBreakpoint(n, b)
      PROVE  DataOK' /\ StackOK'
  BY <1>8, StackKept DEF SetBreakpoint, DataOK, simulation, outcomeVars
<1>9. CASE ClearBreakpoints
  BY <1>9, StackKept DEF ClearBreakpoints, DataOK, simulation, outcomeVars
<1>10. 0 \in -1 .. MaxBudget
  BY BudgetIsNat
<1>11. QED
  BY <1>4, <1>5, <1>6, <1>7, <1>8, <1>9, <1>10 DEF Request, Step, Run

LEMMA TypeSurroundings == TInv /\ Surroundings => TInv'
<1> SUFFICES ASSUME DataOK, StackOK, Surroundings PROVE DataOK' /\ StackOK'
  BY InvIsBoth, InvIsBothNext
<1>1. ASSUME NEW g \in Graphs \cup {NoGraph}, SetGraph(g)
      PROVE  DataOK' /\ StackOK'
  <2>1. /\ g \in GraphType \cup {NoGraph}
        /\ graph' = g
    BY <1>1, GraphsAreGraphs DEF SetGraph
  <2>2. /\ tokens' \in [Edge -> Node \cup {NoToken}]
        /\ executed' \in SUBSET Node /\ ready' \in SUBSET Node
        /\ tick' \in Nat /\ order' \in Seq(Node)
        /\ snap' = EmptyGraph /\ pending' \in [Node -> Int]
        /\ status' \in Statuses /\ endings' = <<>>
    BY <1>1 DEF SetGraph, ResetSimulation, ClearSimulationData, ClearSnapshot,
                Statuses
  <2>3. QED
    BY <1>1, <2>1, <2>2, EmptyGraphIsSound, StackKept, NestedIsNat DEF SetGraph, DataOK
<1>2. ASSUME NEW g \in Graphs \cup {NoGraph}, EditGraph(g)
      PROVE  DataOK' /\ StackOK'
  BY <1>2, GraphsAreGraphs, StackKept
  DEF EditGraph, DataOK, simulation, outcomeVars
<1>3. ASSUME NEW b \in BOOLEAN, SetTokenTransport(b)
      PROVE  DataOK' /\ StackOK'
  BY <1>3, StackKept DEF SetTokenTransport, DataOK, simulation, outcomeVars
<1>4. QED
  BY <1>1, <1>2, <1>3 DEF Surroundings

LEMMA TypeAdvance == TInv /\ Advance => TInv'
<1> SUFFICES ASSUME DataOK, StackOK, Advance PROVE DataOK' /\ StackOK'
  BY InvIsBoth, InvIsBothNext
<1>1. phase # "rest" => call # "none"
  BY DEF StackOK, StackInv, Placed, Frame, RestFrame
<1>2. /\ Finalized(status, ready, executed, snap) \in Statuses
      /\ endings \o FinalEvents(status, ready, executed, snap)
           \in Seq({"completed", "blocked", "error"})
      /\ endings \in Seq({"completed", "blocked", "error"})
  <2>1. FinalEvents(status, ready, executed, snap)
          \in Seq({"completed", "blocked", "error"})
    BY FinalTypes DEF DataOK
  <2>2. QED
    BY <2>1, FinalTypes DEF DataOK
<1>3. ASSUME UNCHANGED <<environment, simulation>>,
             status' \in Statuses,
             endings' \in Seq({"completed", "blocked", "error"})
      PROVE  DataOK'
  BY <1>3 DEF DataOK, environment, simulation
<1>4. ASSUME NEW st \in Statuses, Return(st)
      PROVE  status' \in Statuses /\ Leave
  BY <1>4 DEF Return, Statuses
<1>5. CASE FinishStart
  <2>1. Leave /\ call # "none"
    BY <1>1, <1>5 DEF FinishStart
  <2>2. DataOK'
    BY <1>2, <1>3, <1>5 DEF FinishStart
  <2>3. QED
    BY <2>1, <2>2, LeaveUnstacks
<1>6. ASSUME FinalizeAndReturn, UNCHANGED <<environment, simulation>>, call # "none"
      PROVE  DataOK' /\ StackOK'
  <2>1. status' \in Statuses /\ Leave
    BY <1>2, <1>4, <1>6 DEF FinalizeAndReturn
  <2>2. DataOK'
    BY <1>2, <1>3, <1>6, <2>1 DEF FinalizeAndReturn
  <2>3. QED
    BY <1>6, <2>1, <2>2, LeaveUnstacks
<1>7. CASE StepFindsNothing
  BY <1>6, <1>7 DEF StepFindsNothing
<1>8. CASE LeaveLoop
  <2>1. CASE FinalizeAndReturn
    BY <1>6, <1>8, <2>1 DEF LeaveLoop
  <2>2. CASE Return(status) /\ UNCHANGED endings
    <3>1. status' \in Statuses /\ Leave
      BY <1>4, <2>2 DEF DataOK
    <3>2. DataOK'
      BY <1>2, <1>3, <1>8, <2>2, <3>1 DEF LeaveLoop
    <3>3. QED
      BY <1>8, <3>1, <3>2, LeaveUnstacks DEF LeaveLoop
  <2>3. QED
    BY <1>8, <2>1, <2>2 DEF LeaveLoop
<1>9. CASE ExecuteComponent
  <2>1. First(ready) \in Node
    BY <1>9, FirstIsLeast DEF ExecuteComponent, Dispatching, DataOK
  <2>2. EdgesOutOf(snap, First(ready)) \in UNION {[S -> Node] : S \in SUBSET Edge}
    <3> DEFINE S == {d \in snap.edges : snap.source[d] = First(ready)}
    <3>1. S \in SUBSET Edge /\ \A e \in S : snap.target[e] \in Node
      BY DEF DataOK, Sound
    <3>2. EdgesOutOf(snap, First(ready)) = [e \in S |-> snap.target[e]]
      BY DEF EdgesOutOf
    <3> HIDE DEF S
    <3>3. EdgesOutOf(snap, First(ready)) \in [S -> Node]
      BY <3>1, <3>2
    <3>4. QED
      BY <3>1, <3>3
  <2>3. DataOK'
    BY <1>9 DEF ExecuteComponent, DataOK, environment, outcomeVars
  <2>4. left \in -1 .. MaxBudget
    BY FrameFields DEF StackOK
  <2>5. call # "none"
    BY <1>9 DEF ExecuteComponent, Dispatching
  <2>6. StackOK'
    BY <1>9, <2>1, <2>2, <2>4, <2>5, StackMovesOn DEF ExecuteComponent
  <2>7. QED
    BY <2>3, <2>6
<1>10. CASE ProviderFails
  <2>1. status' \in Statuses /\ Leave
    BY <1>4, <1>10 DEF ProviderFails, Statuses
  <2>2. DataOK'
    BY <1>10, <2>1 DEF ProviderFails, DataOK, environment
  <2>3. QED
    BY <1>10, <2>1, <2>2, LeaveUnstacks DEF ProviderFails, Dispatching
<1>11. CASE RecordExecution
  <2>1. phase = "executed" /\ current \in Node /\ call # "none"
    BY <1>1, <1>11 DEF RecordExecution, StackOK, StackInv, Placed, Frame
  <2>2. \A n \in Node : Cardinality(Lifted(outgoing, n)) \in Nat
    BY LiftedIsFinite, FrameFields DEF StackOK
  <2>3. /\ executed' \in SUBSET Node /\ order' \in Seq(Node)
        /\ tick' \in Nat /\ ready' \in SUBSET Node
    BY <1>11, <2>1 DEF RecordExecution, DataOK
  <2>4. tokens' \in [Edge -> Node \cup {NoToken}]
    BY <1>11, <2>1 DEF RecordExecution, DataOK
  <2>5. pending' \in [Node -> Int]
    <3>1. pending' = [n \in Node |-> pending[n] - Cardinality(Lifted(outgoing, n))]
      BY <1>11 DEF RecordExecution, Lifted
    <3>2. pending \in [Node -> Int]
      BY DEF DataOK
    <3>3. QED
      BY <2>2, <3>1, <3>2
  <2>6. /\ UNCHANGED <<environment, snap, outcomeVars, call, current, outgoing, left, below>>
        /\ phase' = "ticked"
    BY <1>11 DEF RecordExecution
  <2>7. DataOK'
    BY <2>3, <2>4, <2>5, <2>6 DEF DataOK, environment, outcomeVars
  <2>8. StackOK'
    BY <2>1, <2>6, StackMovesOn, FrameFields DEF StackOK
  <2>9. QED
    BY <2>7, <2>8
<1>12. CASE FinishStep
  <2>1. CASE call = "step" /\ FinalizeAndReturn
    BY <1>6, <1>12, <2>1 DEF FinishStep
  <2>2. CASE call = "run" /\ ~(call = "step")
    <3>1. /\ UNCHANGED <<environment, simulation, call, below>>
          /\ endings' = endings \o FinalEvents(status, ready, executed, snap)
          /\ status' = Finalized(status, ready, executed, snap)
          /\ phase' = "loop" /\ current' = NoComponent /\ outgoing' = <<>>
          /\ left' = IF left > 0 THEN left - 1 ELSE left
      BY <1>12, <2>2 DEF FinishStep
    <3>2. DataOK'
      BY <1>2, <1>3, <3>1
    <3>3. left' \in -1 .. MaxBudget
      BY <3>1, FrameFields, BudgetIsNat DEF StackOK
    <3>4. StackOK'
      BY <2>2, <3>1, <3>3, StackMovesOn, NothingIsTargets DEF NoTargets
    <3>5. QED
      BY <3>2, <3>4
  <2>3. QED
    BY <1>12, <2>1, <2>2 DEF FinishStep
<1>13. QED
  BY <1>5, <1>7, <1>8, <1>9, <1>10, <1>11, <1>12 DEF Advance

LEMMA TypeStep == TInv /\ [Next]_vars => TInv'
<1>1. TInv /\ UNCHANGED vars => TInv'
  BY InvIsBoth, InvIsBothNext, StackKept
  DEF DataOK, vars, environment, simulation, outcomeVars
<1>2. QED
  BY <1>1, TypeRequest, TypeSurroundings, TypeAdvance DEF Next

LEMMA TypeInvariant == Spec => []TInv
BY TypeInit, TypeStep, PTL DEF Spec

(***************************************************************************)
(* Whatever is called in whatever order, by callers and by slots, the      *)
(* sandbox's state keeps its types: in particular the count of unmet       *)
(* dependencies stays a number and the call in progress works on           *)
(* components and connections that exist.                                  *)
(***************************************************************************)
THEOREM SandboxTypeCorrect == Spec => []TypeOK
<1>1. TInv => TypeOK
  BY DEF TInv
<1>2. QED
  BY <1>1, TypeInvariant, PTL

-----------------------------------------------------------------------------
(* The order of execution, when slots do no more than pause the simulation *)
(* and move its breakpoints. *)

OnlyPauses == HandlerCalls \subseteq {"pause", "breakpoint"}

(***************************************************************************)
(* No slot has made a call: the one in progress interrupts no other, and   *)
(* its return is the return to the event loop.                             *)
(***************************************************************************)
Alone == nested = 0 /\ (call # "none" => below = <<RestFrame>>)

LEMMA RestIsNone == TInv => (call = "none" <=> phase = "rest")
BY DEF TInv, StackInv, Placed, Frame, RestFrame

LEMMA RestIsNoneNext == TInv' => (call' = "none" <=> phase' = "rest")
<1>1. (TInv => (call = "none" <=> phase = "rest"))'
  BY RestIsNone, PTL
<1>2. QED
  BY <1>1

LEMMA AloneKept ==
  ASSUME Alone, nested' = 0, UNCHANGED <<call, below>>
  PROVE  Alone'
BY DEF Alone

LEMMA AloneCalls ==
  ASSUME TInv, call = "none", nested' = 0,
         NEW kind \in {"start", "step", "run"}, NEW at \in {"started", "begin", "loop"},
         NEW budget \in -1 .. MaxBudget, Call(kind, at, budget)
  PROVE  Alone' /\ call' = kind /\ phase' = at
<1>1. StackOK
  BY InvIsBoth
<1>2. QED
  BY <1>1, CallStacks DEF Alone

LEMMA AloneReturns ==
  ASSUME TInv, Alone, call # "none", nested' = 0, Leave
  PROVE  Alone' /\ call' = "none" /\ phase' = "rest"
<1>1. StackOK /\ below = <<RestFrame>>
  BY InvIsBoth DEF Alone
<1>2. QED
  BY <1>1, LeaveUnstacks DEF Alone

(***************************************************************************)
(* What slots may not call is called with no call in progress.             *)
(***************************************************************************)
LEMMA AtRest ==
  ASSUME OnlyPauses
  PROVE  /\ Start \/ Reset => call = "none"
         /\ \A kind \in {"step", "run"} : \A k : Begin(kind, k) => call = "none"
BY DEF OnlyPauses, Start, Reset, Begin, MayCall, InSlot

LEMMA CountedAtRest ==
  ASSUME TInv, nested' = 0
  PROVE  /\ Start => call = "none"
         /\ \A kind, k : Begin(kind, k) => call = "none"
<1>1. nested \in Nat
  BY NestedIsNat DEF TInv, TypeOK
<1>2. QED
  BY <1>1 DEF Start, Begin

(***************************************************************************)
(* The inductive invariant.  FrameInv ties the copies executeOneStep works *)
(* on to the snapshot they were taken from; the counts of                  *)
(* PendingCountsUnmet are what lets the code test a number instead of the  *)
(* connections, and ReadyQueueExact is what makes the next component one   *)
(* whose sources are all in the timeline.                                  *)
(***************************************************************************)
FrameInv ==
  /\ Alone
  /\ call = "none" <=> phase = "rest"
  /\ status = "error" => phase = "rest"
  /\ phase = "executed" => /\ current \in snap.nodes \ executed
                           /\ outgoing = EdgesOutOf(snap, current)

TimelineInv == executed = ToSet(order) /\ executed \subseteq snap.nodes

OInv ==
  /\ TInv
  /\ FrameInv
  /\ TimelineInv
  /\ PendingCountsUnmet
  /\ ReadyQueueExact
  /\ RespectsDependencies

LEMMA UnmetIsHolding ==
  ASSUME NEW n
  PROVE  Unmet(n) <=> Holding(snap, executed, n) # {}
BY DEF Unmet, Holding

(***************************************************************************)
(* A simulation that has executed nothing yet, on any sound graph.         *)
(***************************************************************************)
Fresh ==
  /\ Sound(snap)
  /\ executed = {} /\ order = <<>>
  /\ phase # "executed"
  /\ \A n \in snap.nodes : pending[n] = Cardinality(EdgesInto(snap, n))
  /\ ready = {n \in snap.nodes : pending[n] = 0}
  /\ Alone
  /\ status = "error" => phase = "rest"

LEMMA FreshIsOrdered == TInv /\ Fresh => OInv
<1> SUFFICES ASSUME TInv, Fresh PROVE OInv
  OBVIOUS
<1>1. \A n : EdgesInto(snap, n) = Holding(snap, executed, n)
  BY DEF Fresh, Holding
<1>2. PendingCountsUnmet
  BY <1>1 DEF PendingCountsUnmet, Fresh, Holding
<1>3. \A n \in snap.nodes : pending[n] = 0 <=> ~ Unmet(n)
  <2>1. \A n : IsFiniteSet(Holding(snap, executed, n))
    BY HoldingIsFinite DEF Fresh
  <2>2. QED
    BY <1>1, <2>1, UnmetIsHolding, FS_EmptySet DEF Fresh
<1>4. ReadyQueueExact
  BY <1>3 DEF ReadyQueueExact, Fresh, Recording
<1>5. TimelineInv /\ RespectsDependencies /\ FrameInv
  BY RestIsNone DEF TimelineInv, RespectsDependencies, FrameInv, Fresh, ToSet
<1>6. QED
  BY <1>2, <1>4, <1>5 DEF OInv

(***************************************************************************)
(* Steps that leave the simulation alone.                                  *)
(***************************************************************************)
LEMMA SimulationKept ==
  ASSUME OInv, TInv', Alone', UNCHANGED simulation,
         status = "error" => status' = "error",
         status' = "error" => phase' = "rest",
         \/ UNCHANGED <<phase, current, outgoing>>
         \/ phase # "executed" /\ phase' # "executed"
  PROVE  OInv'
<1>1. /\ snap' = snap /\ pending' = pending /\ executed' = executed
      /\ ready' = ready /\ order' = order
  BY DEF simulation
<1>2. Recording' = Recording
  BY DEF Recording
<1>3. \A n : Unmet(n)' <=> Unmet(n)
  BY <1>1 DEF Unmet, EdgesInto
<1>4. FrameInv'
  BY <1>1, RestIsNoneNext DEF OInv, FrameInv, EdgesOutOf
<1>5. TimelineInv'
  BY <1>1 DEF OInv, TimelineInv, ToSet
<1>6. PendingCountsUnmet'
  BY <1>1 DEF OInv, PendingCountsUnmet, EdgesInto
<1>7. ReadyQueueExact'
  BY <1>1, <1>2, <1>3 DEF OInv, ReadyQueueExact
<1>8. RespectsDependencies'
  BY <1>1 DEF OInv, RespectsDependencies, EdgesInto
<1>9. QED
  BY <1>4, <1>5, <1>6, <1>7, <1>8 DEF OInv

LEMMA OrderInit == Init => OInv
<1> SUFFICES ASSUME Init PROVE OInv
  OBVIOUS
<1>1. snap.nodes = {} /\ Sound(snap)
  BY EmptyGraphIsSound DEF Init, EmptyGraph
<1>2. Fresh
  BY <1>1 DEF Init, Fresh, Alone
<1>3. QED
  BY <1>2, TypeInit, FreshIsOrdered

LEMMA FreshAfterReset ==
  ASSUME TInv', ResetSimulation \/ (ClearSimulationData /\ ClearSnapshot),
         UNCHANGED frame, call = "none", nested' = 0
  PROVE  OInv'
<1>1. /\ snap' = EmptyGraph /\ executed' = {} /\ order' = <<>> /\ ready' = {}
  BY DEF ResetSimulation, ClearSimulationData, ClearSnapshot
<1>2. snap'.nodes = {} /\ Sound(snap')
  BY <1>1, EmptyGraphIsSound DEF EmptyGraph
<1>3. call' = "none" /\ phase' = "rest"
  BY RestIsNoneNext DEF frame
<1>4. Fresh'
  BY <1>1, <1>2, <1>3 DEF Fresh, Alone
<1>5. QED
  <2>1. (TInv /\ Fresh => OInv)'
    BY FreshIsOrdered, PTL
  <2>2. QED
    BY <1>4, <2>1

LEMMA OrderStart ==
  ASSUME TInv, call = "none", Start
  PROVE  OInv'
<1>1. TInv' /\ nested' = 0
  BY TypeRequest DEF Request, Start
<1>2. CASE ClearSnapshot /\ UNCHANGED frame
  BY <1>1, <1>2, FreshAfterReset DEF Start
<1>3. CASE graph # NoGraph /\ StartOn(graph) /\ Call("start", "started", 0)
  <2> DEFINE s == Snapshot(graph)
  <2>1. graph \in GraphType
    BY <1>3 DEF TInv, TypeOK
  <2>2. Sound(s)
    BY <2>1, SnapshotIsSound
  <2> HIDE DEF s
  <2>3. /\ snap' = s /\ pending' = InDegrees(s) /\ status' = "paused"
        /\ ready' = {n \in s.nodes : InDegrees(s)[n] = 0}
    BY <1>3 DEF StartOn, s
  <2>4. \A n \in s.nodes : InDegrees(s)[n] = Cardinality(EdgesInto(s, n))
    BY <2>2 DEF InDegrees, Sound
  <2>5. executed' = {} /\ order' = <<>>
    BY DEF Start, ClearSimulationData
  <2>6. Alone' /\ phase' = "started"
    BY <1>1, <1>3, AloneCalls, BudgetIsNat
  <2>7. Fresh'
    BY <2>2, <2>3, <2>4, <2>5, <2>6 DEF Fresh, EdgesInto
  <2>8. (TInv /\ Fresh => OInv)'
    BY FreshIsOrdered, PTL
  <2>9. QED
    BY <1>1, <2>7, <2>8
<1>4. QED
  BY <1>2, <1>3 DEF Start

LEMMA OrderRequest ==
  ASSUME nested' = 0, Reset => call = "none"
  PROVE  OInv /\ Request => OInv'
<1> SUFFICES ASSUME OInv, Request PROVE OInv'
  OBVIOUS
<1>1. TInv /\ TInv' /\ Alone
  BY TypeRequest DEF OInv, FrameInv
<1>2. CASE Start
  BY <1>1, <1>2, OrderStart, CountedAtRest
<1>3. CASE Reset
  BY <1>1, <1>3, FreshAfterReset DEF Reset
<1>4. ASSUME UNCHANGED <<simulation, frame>>,
             \/ status' = status
             \/ status = "running" /\ status' = "paused"
      PROVE  OInv'
  <2>1. Alone'
    BY <1>1, <1>4, AloneKept DEF frame
  <2>2. QED
    BY <1>1, <1>4, <2>1, SimulationKept DEF frame, OInv, FrameInv
<1>5. ASSUME NEW kind \in {"step", "run"}, NEW k \in -1 .. MaxBudget, Begin(kind, k)
      PROVE  OInv'
  <2>1. call = "none" /\ phase = "rest"
    BY <1>1, <1>5, CountedAtRest, RestIsNone
  <2>2. PICK at \in {"begin", "loop"} : Call(kind, at, k)
    BY <1>5 DEF Begin
  <2>3. Alone' /\ phase' = at
    BY <1>1, <2>1, <2>2, AloneCalls
  <2>4. UNCHANGED simulation /\ status # "error" /\ status' = "running"
    BY <1>5 DEF Begin
  <2>5. QED
    BY <1>1, <2>1, <2>3, <2>4, SimulationKept
<1>6. CASE Pause
  BY <1>4, <1>6 DEF Pause
<1>7. ASSUME NEW n, NEW b, SetBreakpoint(n, b)
      PROVE  OInv'
  BY <1>4, <1>7 DEF SetBreakpoint, outcomeVars
<1>8. CASE ClearBreakpoints
  BY <1>4, <1>8 DEF ClearBreakpoints, outcomeVars
<1>9. 0 \in -1 .. MaxBudget
  BY BudgetIsNat
<1>10. QED
  BY <1>2, <1>3, <1>5, <1>6, <1>7, <1>8, <1>9 DEF Request, Step, Run

LEMMA OrderSurroundings == OInv /\ Surroundings => OInv'
<1> SUFFICES ASSUME OInv, Surroundings PROVE OInv'
  OBVIOUS
<1>1. TInv' /\ Alone
  BY TypeSurroundings DEF OInv, FrameInv
<1>2. ASSUME NEW g, SetGraph(g)
      PROVE  OInv'
  BY <1>1, <1>2, FreshAfterReset DEF SetGraph
<1>3. ASSUME UNCHANGED <<nested, simulation, outcomeVars, frame>>
      PROVE  OInv'
  <2>1. Alone'
    BY <1>1, <1>3, AloneKept DEF frame, Alone
  <2>2. QED
    BY <1>1, <1>3, <2>1, SimulationKept DEF frame, outcomeVars, OInv, FrameInv
<1>4. QED
  BY <1>2, <1>3 DEF Surroundings, EditGraph, SetTokenTransport

(***************************************************************************)
(* The component that leaves the ready queue is the one being recorded:    *)
(* the two together stay the components that nothing holds up.             *)
(***************************************************************************)
LEMMA OrderExecuteComponent == OInv /\ ExecuteComponent => OInv'
<1> SUFFICES ASSUME OInv, ExecuteComponent PROVE OInv'
  OBVIOUS
<1> DEFINE c == First(ready)
<1>1. TInv'
  BY TypeAdvance DEF OInv, Advance
<1>2. c \in ready
  BY FirstIsLeast DEF ExecuteComponent, Dispatching, OInv, TInv, TypeOK
<1>3. phase # "executed"
  BY DEF ExecuteComponent, Dispatching, AtHead
<1>4. /\ snap' = snap /\ pending' = pending /\ executed' = executed
      /\ order' = order /\ status' = status /\ call' = call
      /\ ready' = ready \ {c} /\ current' = c
      /\ outgoing' = EdgesOutOf(snap, c) /\ phase' = "executed"
  BY DEF ExecuteComponent, outcomeVars
<1> HIDE DEF c
<1>5. Recording = {} /\ Recording' = {c}
  BY <1>3, <1>4 DEF Recording
<1>6. \A n : Unmet(n)' <=> Unmet(n)
  BY <1>4 DEF Unmet, EdgesInto
<1>7. c \in snap.nodes \ executed
  BY <1>2 DEF OInv, ReadyQueueExact
<1>8. call # "none" /\ status # "error"
  BY DEF ExecuteComponent, Dispatching, OInv, FrameInv, AtHead
<1>9. FrameInv'
  <2>1. Alone'
    BY AloneKept DEF ExecuteComponent, environment, OInv, FrameInv, Alone
  <2>2. QED
    BY <1>4, <1>7, <1>8, <2>1 DEF FrameInv, EdgesOutOf
<1>10. TimelineInv'
  BY <1>4 DEF OInv, TimelineInv, ToSet
<1>11. PendingCountsUnmet'
  BY <1>4 DEF OInv, PendingCountsUnmet, EdgesInto
<1>12. ReadyQueueExact'
  BY <1>2, <1>4, <1>5, <1>6 DEF OInv, ReadyQueueExact
<1>13. RespectsDependencies'
  BY <1>4 DEF OInv, RespectsDependencies, EdgesInto
<1>14. QED
  BY <1>1, <1>9, <1>10, <1>11, <1>12, <1>13 DEF OInv

LEMMA OrderProviderFails == OInv /\ ProviderFails => OInv'
<1> SUFFICES ASSUME OInv, ProviderFails PROVE OInv'
  OBVIOUS
<1>1. TInv'
  BY TypeAdvance DEF OInv, Advance
<1>2. /\ snap' = snap /\ pending' = pending /\ executed' = executed
      /\ order' = order /\ status' = "error" /\ Leave
      /\ ready' \subseteq ready /\ phase # "executed" /\ call # "none"
      /\ nested' = nested
  BY DEF ProviderFails, Return, Dispatching, AtHead, environment
<1>20. Alone' /\ call' = "none" /\ phase' = "rest"
  BY <1>2, AloneReturns DEF OInv, FrameInv, Alone
<1>3. Recording = {} /\ Recording' = {}
  BY <1>2, <1>20 DEF Recording
<1>4. \A n : Unmet(n)' <=> Unmet(n)
  BY <1>2 DEF Unmet, EdgesInto
<1>5. FrameInv'
  BY <1>2, <1>20 DEF FrameInv
<1>6. TimelineInv'
  BY <1>2 DEF OInv, TimelineInv, ToSet
<1>7. PendingCountsUnmet'
  BY <1>2 DEF OInv, PendingCountsUnmet, EdgesInto
<1>8. ReadyQueueExact'
  BY <1>2, <1>3, <1>4 DEF OInv, ReadyQueueExact
<1>9. RespectsDependencies'
  BY <1>2 DEF OInv, RespectsDependencies, EdgesInto
<1>10. QED
  BY <1>1, <1>5, <1>6, <1>7, <1>8, <1>9 DEF OInv

(***************************************************************************)
(* Recording the execution of c: every count goes down by the number of    *)
(* connections c lifts, and the components whose count reaches zero are    *)
(* those that c alone still held up.                                       *)
(***************************************************************************)
LEMMA OrderRecordExecution == OInv /\ RecordExecution => OInv'
<1> SUFFICES ASSUME OInv, RecordExecution PROVE OInv'
  OBVIOUS
<1> DEFINE c == current
           lifted(n) == Lifted(EdgesOutOf(snap, c), n)
           before(n) == Holding(snap, executed, n)
           after(n)  == Holding(snap, executed \cup {c}, n)
           zero == {n \in Node : pending[n] > 0
                                 /\ pending[n] <= Cardinality(lifted(n))}
<1>1. TInv'
  BY TypeAdvance DEF OInv, Advance
<1>2. /\ phase = "executed" /\ c \in snap.nodes \ executed
      /\ outgoing = EdgesOutOf(snap, c)
  BY DEF RecordExecution, OInv, FrameInv
<1>3. /\ snap' = snap /\ status' = status /\ call' = call /\ phase' = "ticked"
      /\ executed' = executed \cup {c} /\ order' = Append(order, c)
      /\ pending' = [n \in Node |-> pending[n] - Cardinality(lifted(n))]
      /\ ready' = ready \cup (zero \ executed')
  BY <1>2 DEF RecordExecution, outcomeVars, Lifted
<1>4. Sound(snap) /\ snap.nodes \subseteq Node
  BY DEF OInv, TInv, Sound
<1>5. /\ pending \in [Node -> Int] /\ order \in Seq(Node)
      /\ call # "none" /\ status # "error"
  BY <1>2 DEF OInv, TInv, TypeOK, FrameInv
<1>6. \A n : /\ after(n) = before(n) \ lifted(n)
             /\ Cardinality(after(n)) =
                  Cardinality(before(n)) - Cardinality(lifted(n))
             /\ Cardinality(before(n)) <= Cardinality(lifted(n))
                  => after(n) = {}
             /\ after(n) = {} => Cardinality(before(n)) = Cardinality(lifted(n))
             /\ Cardinality(before(n)) = 0 <=> before(n) = {}
             /\ n \notin snap.nodes => lifted(n) = {}
  BY <1>2, <1>4, ExecutionLifts
<1>7. \A n \in snap.nodes : pending[n] = Cardinality(before(n))
  BY DEF OInv, PendingCountsUnmet, Holding
<1>8. \A n : Cardinality(before(n)) \in Nat
  BY <1>4, HoldingIsFinite
<1>9. \A n : (Unmet(n) <=> before(n) # {}) /\ (Unmet(n)' <=> after(n) # {})
  <2>1. \A n : Unmet(n)' <=> after(n) # {}
    BY <1>3 DEF Unmet, Holding, EdgesInto
  <2>2. QED
    BY <2>1, UnmetIsHolding
<1>10. Recording = {c} /\ Recording' = {}
  BY <1>2, <1>3 DEF Recording
<1> HIDE DEF lifted, before, after
<1>11. zero \subseteq {n \in snap.nodes : after(n) = {}}
  <2> SUFFICES ASSUME NEW n \in zero
               PROVE  n \in snap.nodes /\ after(n) = {}
    OBVIOUS
  <2>1. CASE n \notin snap.nodes
    <3>1. Cardinality(lifted(n)) = 0
      BY <1>6, <2>1, FS_EmptySet
    <3>2. QED
      BY <1>5, <3>1
  <2>2. CASE n \in snap.nodes
    BY <1>6, <1>7, <2>2
  <2>3. QED
    BY <2>1, <2>2
<1>12. \A n \in snap.nodes : before(n) # {} /\ after(n) = {} => n \in zero
  <2> SUFFICES ASSUME NEW n \in snap.nodes, before(n) # {}, after(n) = {}
               PROVE  n \in zero
    OBVIOUS
  <2>1. pending[n] = Cardinality(before(n)) /\ Cardinality(before(n)) # 0
    BY <1>6, <1>7
  <2>2. Cardinality(before(n)) = Cardinality(lifted(n))
    BY <1>6
  <2>3. QED
    BY <1>4, <1>8, <2>1, <2>2
<1>13. \A n : before(n) = {} => after(n) = {}
  BY <1>6
<1>14. ReadyQueueExact'
  <2>1. /\ ready \cap (executed \cup {c}) = {}
        /\ \A n \in ready \cup {c} : n \in snap.nodes /\ before(n) = {}
        /\ {n \in snap.nodes \ executed : before(n) = {}} = ready \cup {c}
    BY <1>5, <1>9, <1>10 DEF OInv, ReadyQueueExact
  <2> HIDE DEF zero, c
  <2>2. ready' \cap executed' = {}
    BY <1>3, <2>1
  <2>3. \A n \in ready' : n \in snap.nodes /\ after(n) = {}
    BY <1>3, <1>11, <1>13, <2>1
  <2>4. \A n \in snap.nodes \ executed' : after(n) = {} => n \in ready'
    BY <1>3, <1>12, <2>1
  <2>5. \A n \in ready' : n \notin executed'
    BY <2>2
  <2>6. QED
    BY <1>3, <1>9, <1>10, <2>2, <2>3, <2>4, <2>5 DEF ReadyQueueExact
<1>15. PendingCountsUnmet'
  <2>1. \A n \in snap.nodes : pending'[n] = Cardinality(after(n))
    BY <1>3, <1>4, <1>6, <1>7
  <2>2. \A n : after(n) = {e \in EdgesInto(snap, n)' : snap'.source[e] \notin executed'}
    BY <1>3 DEF after, Holding, EdgesInto
  <2>3. QED
    BY <1>3, <2>1, <2>2 DEF PendingCountsUnmet
<1>16. TimelineInv'
  <2>1. ToSet(order') = ToSet(order) \cup {c}
    <3>1. /\ DOMAIN order = 1 .. Len(order) /\ Len(order) \in Nat
          /\ DOMAIN order' = 1 .. Len(order) + 1
          /\ order'[Len(order) + 1] = c
          /\ \A i \in 1 .. Len(order) : order'[i] = order[i]
      BY <1>2, <1>3, <1>4, <1>5
    <3>2. \A x \in ToSet(order') : x \in ToSet(order) \cup {c}
      BY <3>1 DEF ToSet
    <3>3. \A x \in ToSet(order) \cup {c} : x \in ToSet(order')
      BY <3>1 DEF ToSet
    <3>4. QED
      BY <3>2, <3>3
  <2>2. QED
    BY <1>2, <1>3, <2>1 DEF OInv, TimelineInv
<1>17. RespectsDependencies'
  <2>1. \A e \in EdgesInto(snap, c) : snap.source[e] \in executed
    BY <1>10 DEF OInv, ReadyQueueExact, Unmet
  <2>2. executed = {order[i] : i \in DOMAIN order}
    BY DEF OInv, TimelineInv, ToSet
  <2>3. /\ Len(order) \in Nat /\ DOMAIN order = 1 .. Len(order)
        /\ DOMAIN order' = 1 .. Len(order) + 1
        /\ order'[Len(order) + 1] = c
        /\ \A i \in 1 .. Len(order) : order'[i] = order[i]
    BY <1>2, <1>3, <1>4, <1>5
  <2>4. \A i \in 1 .. Len(order) : order[i] # c
    BY <1>2, <2>2, <2>3
  <2>5. ASSUME NEW i \in DOMAIN order', NEW j \in DOMAIN order',
               order'[i] = order'[j]
        PROVE  i = j
    <3>1. CASE i = Len(order) + 1
      BY <2>3, <2>4, <2>5, <3>1
    <3>2. CASE j = Len(order) + 1
      BY <2>3, <2>4, <2>5, <3>2
    <3>3. CASE i \in 1 .. Len(order) /\ j \in 1 .. Len(order)
      BY <2>3, <2>5, <3>3 DEF OInv, RespectsDependencies
    <3>4. QED
      BY <2>3, <3>1, <3>2, <3>3
  <2>6. ASSUME NEW i \in DOMAIN order', NEW e \in EdgesInto(snap, order'[i])
        PROVE  \E j \in 1 .. i - 1 : order'[j] = snap.source[e]
    <3>1. CASE i = Len(order) + 1
      <4>1. PICK j \in DOMAIN order : order[j] = snap.source[e]
        BY <2>1, <2>2, <2>3, <2>6, <3>1
      <4>2. QED
        BY <2>3, <3>1, <4>1
    <3>2. CASE i \in 1 .. Len(order)
      <4>1. PICK j \in 1 .. i - 1 : order[j] = snap.source[e]
        BY <2>3, <2>6, <3>2 DEF OInv, RespectsDependencies
      <4>2. QED
        BY <2>3, <3>2, <4>1
    <3>3. QED
      BY <2>3, <3>1, <3>2
  <2>7. QED
    BY <1>3, <2>5, <2>6 DEF RespectsDependencies, EdgesInto
<1>18. FrameInv'
  <2>1. Alone'
    BY AloneKept DEF RecordExecution, environment, OInv, FrameInv, Alone
  <2>2. QED
    BY <1>3, <1>5, <2>1 DEF FrameInv
<1>19. QED
  BY <1>1, <1>14, <1>15, <1>16, <1>17, <1>18 DEF OInv

LEMMA OrderAdvance == OInv /\ Advance => OInv'
<1> SUFFICES ASSUME OInv, Advance PROVE OInv'
  OBVIOUS
<1>1. TInv /\ TInv' /\ Alone
  BY TypeAdvance DEF OInv, FrameInv
<1>2. ASSUME Leave, UNCHANGED <<environment, simulation>>, phase # "rest",
             phase # "executed", status' # "error"
      PROVE  OInv'
  <2>1. call # "none" /\ status # "error" /\ nested' = 0
    BY <1>2 DEF OInv, FrameInv, environment, Alone
  <2>2. Alone' /\ phase' = "rest"
    BY <1>1, <1>2, <2>1, AloneReturns
  <2>3. QED
    BY <1>1, <1>2, <2>1, <2>2, SimulationKept
<1>3. phase # "rest" => status # "error"
  BY DEF OInv, FrameInv
<1>4. ASSUME status # "error"
      PROVE  Finalized(status, ready, executed, snap) # "error"
  BY <1>4 DEF Finalized
<1>5. ASSUME NEW st, Return(st), UNCHANGED <<environment, simulation>>, phase # "rest",
             phase # "executed", st # "error"
      PROVE  OInv'
  BY <1>2, <1>5 DEF Return
<1>6. CASE FinishStart
  BY <1>2, <1>3, <1>4, <1>6 DEF FinishStart
<1>7. ASSUME FinalizeAndReturn, UNCHANGED <<environment, simulation>>, phase # "rest",
             phase # "executed"
      PROVE  OInv'
  BY <1>3, <1>4, <1>5, <1>7 DEF FinalizeAndReturn
<1>8. CASE StepFindsNothing
  BY <1>7, <1>8 DEF StepFindsNothing, AtHead
<1>9. CASE LeaveLoop
  BY <1>3, <1>5, <1>7, <1>9 DEF LeaveLoop, AtHead
<1>10. CASE FinishStep
  <2>1. CASE FinalizeAndReturn
    BY <1>7, <1>10, <2>1 DEF FinishStep
  <2>2. CASE /\ call = "run" /\ phase' = "loop" /\ UNCHANGED <<call, below>>
             /\ status' = Finalized(status, ready, executed, snap)
    <3>1. phase = "ticked" /\ UNCHANGED <<environment, simulation>>
      BY <1>10 DEF FinishStep
    <3>2. status # "error" /\ status' # "error"
      BY <1>3, <1>4, <2>2, <3>1
    <3>3. Alone'
      BY <1>1, <2>2, <3>1, AloneKept DEF environment, Alone
    <3>4. QED
      BY <1>1, <2>2, <3>1, <3>2, <3>3, SimulationKept
  <2>3. QED
    BY <1>10, <2>1, <2>2 DEF FinishStep
<1>11. QED
  BY <1>6, <1>8, <1>9, <1>10, OrderExecuteComponent, OrderProviderFails,
     OrderRecordExecution DEF Advance

LEMMA OrderKept == OInv /\ UNCHANGED vars => OInv'
<1> SUFFICES ASSUME OInv, UNCHANGED vars PROVE OInv'
  OBVIOUS
<1>1. TInv'
  BY TypeStep DEF OInv
<1>2. Alone'
  BY AloneKept DEF OInv, FrameInv, Alone, vars, environment, frame
<1>3. QED
  BY <1>1, <1>2, SimulationKept DEF vars, outcomeVars, frame, OInv, FrameInv

LEMMA NeverNested ==
  ASSUME OnlyPauses, nested = 0, Next
  PROVE  nested' = 0
<1>1. CASE Request
  BY <1>1, AtRest
  DEF Request, Start, Reset, Pause, Step, Run, Begin, SetBreakpoint, ClearBreakpoints,
      environment
<1>2. CASE Surroundings
  BY <1>2 DEF Surroundings, SetGraph, EditGraph, SetTokenTransport
<1>3. CASE Advance
  BY <1>3
  DEF Advance, FinishStart, StepFindsNothing, LeaveLoop, ExecuteComponent, ProviderFails,
      RecordExecution, FinishStep, environment
<1>4. QED
  BY <1>1, <1>2, <1>3 DEF Next

LEMMA OrderInvariant ==
  ASSUME OnlyPauses
  PROVE  Spec => []OInv
<1>1. OInv /\ Next => nested' = 0
  BY NeverNested DEF OInv, FrameInv, Alone
<1>2. Reset => call = "none"
  BY AtRest
<1>3. OInv /\ [Next]_vars => OInv'
  BY <1>1, <1>2, OrderKept, OrderRequest, OrderSurroundings, OrderAdvance DEF Next
<1>4. QED
  BY OrderInit, <1>3, PTL DEF Spec

(***************************************************************************)
(* The timeline respects every dependency: no component is executed twice, *)
(* or before a component it is connected from, on any graph, however the   *)
(* simulation is stepped, run, paused and restarted.                       *)
(***************************************************************************)
THEOREM TimelineRespectsDependencies ==
  ASSUME OnlyPauses
  PROVE  Spec => []RespectsDependencies
<1>1. OInv => RespectsDependencies
  BY DEF OInv
<1>2. QED
  BY <1>1, OrderInvariant, PTL

(***************************************************************************)
(* The number executeOneStep counts down for each component stays the      *)
(* number of its connections whose source was not executed, parallel       *)
(* connections and self-loops included.                                    *)
(***************************************************************************)
THEOREM CountsAreExact ==
  ASSUME OnlyPauses
  PROVE  Spec => []PendingCountsUnmet
<1>1. OInv => PendingCountsUnmet
  BY DEF OInv
<1>2. QED
  BY <1>1, OrderInvariant, PTL

(***************************************************************************)
(* The queue executeOneStep keeps incrementally, by counting down, is the  *)
(* set of components the connections leave free to run.                    *)
(***************************************************************************)
THEOREM QueueIsExact ==
  ASSUME OnlyPauses
  PROVE  Spec => []ReadyQueueExact
<1>1. OInv => ReadyQueueExact
  BY DEF OInv
<1>2. QED
  BY <1>1, OrderInvariant, PTL

-----------------------------------------------------------------------------
(* How a simulation ends, when slots only pause it and move its breakpoints. *)

(***************************************************************************)
(* What finalizeIfNoReadyComponents concludes from the ready queue and the *)
(* two sizes it compares is what the graph says.                           *)
(***************************************************************************)
Conclusion(st, events, final) ==
  /\ events \in {<<>>, <<"completed">>, <<"blocked">>}
  /\ events = <<>> <=> ready # {}
  /\ final = IF ready # {} THEN st ELSE "completed"
  /\ events = <<"completed">> => snap.nodes \ executed = {}
  /\ events = <<"blocked">> =>
       /\ snap.nodes \ executed # {}
       /\ \A n \in snap.nodes \ executed :
            \E e \in EdgesInto(snap, n) : snap.source[e] \in snap.nodes \ executed

LEMMA FinalVerdict ==
  OInv /\ phase # "executed" /\ status # "error" =>
    \A st \in {"running", "paused"} :
      Conclusion(st, FinalEvents(st, ready, executed, snap),
                 Finalized(st, ready, executed, snap))
<1> SUFFICES ASSUME OInv, phase # "executed", status # "error",
                    NEW st \in {"running", "paused"}
             PROVE  Conclusion(st, FinalEvents(st, ready, executed, snap),
                               Finalized(st, ready, executed, snap))
  OBVIOUS
<1>1. /\ executed \in SUBSET snap.nodes /\ IsFiniteSet(snap.nodes)
      /\ Sound(snap)
  <2>1. snap.nodes \in SUBSET Node /\ executed \in SUBSET snap.nodes /\ Sound(snap)
    BY DEF OInv, TInv, TimelineInv, Sound
  <2>2. QED
    BY <2>1, EdgesAreFinite, FS_Subset
<1>2. Cardinality(executed) = Cardinality(snap.nodes) <=> executed = snap.nodes
  BY <1>1, FS_Subset
<1>3. {n \in snap.nodes \ executed : ~ Unmet(n)} = ready
  BY DEF OInv, ReadyQueueExact, Recording
<1>4. ready # {} => executed # snap.nodes
  BY <1>3
<1>5. CASE ready # {}
  BY <1>5 DEF Conclusion, FinalEvents, Finalized, Exhausted, Stuck
<1>6. CASE ready = {} /\ executed = snap.nodes
  BY <1>2, <1>6 DEF Conclusion, FinalEvents, Finalized, Exhausted, Stuck
<1>7. CASE ready = {} /\ executed # snap.nodes
  <2>1. \A n \in snap.nodes \ executed :
          \E e \in EdgesInto(snap, n) : snap.source[e] \in snap.nodes \ executed
    BY <1>1, <1>3, <1>7 DEF Unmet, Sound, EdgesInto
  <2>2. snap.nodes \ executed # {}
    BY <1>1, <1>7
  <2>3. QED
    BY <1>2, <1>7, <2>1, <2>2
    DEF Conclusion, FinalEvents, Finalized, Exhausted, Stuck
<1>8. QED
  BY <1>5, <1>6, <1>7

(***************************************************************************)
(* What VerdictIsTrue says of a simulation nobody nested calls in.         *)
(***************************************************************************)
VerdictHolds ==
  LET remaining == snap.nodes \ executed
  IN  /\ endings = <<"completed">> => remaining = {}
      /\ endings = <<"blocked">> =>
           /\ remaining # {}
           /\ \A n \in remaining :
                \E e \in EdgesInto(snap, n) : snap.source[e] \in remaining

(***************************************************************************)
(* The inductive invariant: while a call is at work the simulation is not  *)
(* concluded, and whenever the sandbox looks for the next component there  *)
(* is one.                                                                 *)
(***************************************************************************)
EndingInv ==
  /\ endings \in {<<>>, <<"completed">>, <<"blocked">>, <<"error">>}
  /\ status \in {"idle", "running", "paused"} <=> endings = <<>>
  /\ phase = "loop" => call = "run"
  /\ phase = "started" => status = "paused"
  /\ phase \in {"begin", "executed", "ticked"} => status \in {"running", "paused"}
  /\ phase \in {"rest", "begin", "loop"} /\ status \in {"running", "paused"}
       => ready # {}
  /\ phase = "rest" => status # "running"
  /\ VerdictHolds

VInv == OInv /\ EndingInv

LEMMA EndingInit == Init => VInv
<1> SUFFICES ASSUME Init PROVE EndingInv
  BY OrderInit DEF VInv
<1>1. QED
  BY DEF Init, EndingInv, VerdictHolds

LEMMA EndingReset ==
  ASSUME status' = "idle", endings' = <<>>, phase' = "rest"
  PROVE  EndingInv'
BY DEF EndingInv, VerdictHolds

LEMMA EndingKept ==
  ASSUME VInv, UNCHANGED <<simulation, endings, phase, call>>,
         \/ status' = status
         \/ status = "running" /\ status' = "paused"
  PROVE  EndingInv'
<1>1. (phase = "rest" => status # "running") /\ (phase = "started" => status = "paused")
  BY DEF VInv, EndingInv
<1>2. QED
  BY <1>1 DEF VInv, EndingInv, VerdictHolds, simulation, EdgesInto

LEMMA EndingStart ==
  ASSUME TInv, call = "none", Start
  PROVE  EndingInv'
<1>1. CASE StartOn(graph) /\ Call("start", "started", 0)
  <2>1. phase' = "started" /\ status' = "paused" /\ endings' = <<>>
    BY <1>1 DEF StartOn, Call
  <2>2. QED
    BY <2>1 DEF EndingInv, VerdictHolds
<1>2. CASE status' = "error" /\ endings' = <<"error">> /\ UNCHANGED frame
  <2>1. phase' = "rest"
    BY <1>2, RestIsNone DEF frame
  <2>2. QED
    BY <1>2, <2>1 DEF EndingInv, VerdictHolds
<1>3. QED
  BY <1>1, <1>2 DEF Start

(***************************************************************************)
(* The verdict at the end of start() and of each step.                     *)
(***************************************************************************)
LEMMA EndingConcludes ==
  ASSUME VInv, phase \in {"started", "ticked"}, UNCHANGED simulation,
         endings' = endings \o FinalEvents(status, ready, executed, snap),
         NEW fs, fs = Finalized(status, ready, executed, snap),
         \/ status' = (IF fs = "running" THEN "paused" ELSE fs) /\ phase' = "rest"
         \/ status' = fs /\ phase' = "loop" /\ call' = "run"
  PROVE  EndingInv'
<1> DEFINE ev == FinalEvents(status, ready, executed, snap)
<1>1. status \in {"running", "paused"} /\ endings = <<>>
  BY DEF VInv, EndingInv
<1>2. Conclusion(status, ev, fs)
  BY <1>1, FinalVerdict DEF VInv
<1>3. ev \in {<<>>, <<"completed">>, <<"blocked">>} /\ (ev = <<>> <=> ready # {})
  BY <1>2 DEF Conclusion
<1>4. /\ <<>> \o <<>> = <<>>
      /\ <<>> \o <<"completed">> = <<"completed">>
      /\ <<>> \o <<"blocked">> = <<"blocked">>
  OBVIOUS
<1>5. endings' = endings \o ev
  OBVIOUS
<1> HIDE DEF ev
<1>6. endings' = ev
  BY <1>1, <1>3, <1>4, <1>5
<1>7. snap' = snap /\ executed' = executed /\ ready' = ready
  BY DEF simulation
<1>8. fs \in {"running", "paused", "completed"} /\ (fs = "completed" <=> ready = {})
  BY <1>1, <1>2 DEF Conclusion
<1>9. VerdictHolds'
  BY <1>2, <1>6, <1>7 DEF VerdictHolds, Conclusion, EdgesInto
<1>10. QED
  BY <1>3, <1>6, <1>7, <1>8, <1>9 DEF EndingInv

LEMMA EndingRequest ==
  ASSUME nested' = 0, Reset => call = "none"
  PROVE  VInv /\ Request => EndingInv'
<1> SUFFICES ASSUME VInv, Request PROVE EndingInv'
  OBVIOUS
<1>1. TInv /\ (call = "none" => phase = "rest")
  BY DEF VInv, OInv, FrameInv
<1>2. CASE Start
  BY <1>1, <1>2, EndingStart, CountedAtRest
<1>3. CASE Reset
  BY <1>1, <1>3, EndingReset DEF Reset, ResetSimulation, frame
<1>4. CASE Pause
  BY <1>4, EndingKept DEF Pause, frame
<1>5. ASSUME NEW kind \in {"step", "run"}, NEW k, Begin(kind, k)
      PROVE  EndingInv'
  <2>1. phase = "rest"
    BY <1>1, <1>5, CountedAtRest
  <2>2. /\ status = "paused" /\ endings = <<>> /\ ready # {}
    BY <1>5, <2>1 DEF Begin, VInv, OInv, TInv, TypeOK, Statuses, EndingInv
  <2>3. /\ status' = "running" /\ endings' = <<>> /\ phase' = "begin" /\ ready' = ready
    BY <1>5, <2>2 DEF Begin, Call, simulation
  <2>4. QED
    BY <2>2, <2>3 DEF EndingInv, VerdictHolds
<1>6. ASSUME NEW n, NEW b, SetBreakpoint(n, b)
      PROVE  EndingInv'
  BY <1>6, EndingKept DEF SetBreakpoint, frame, outcomeVars
<1>7. CASE ClearBreakpoints
  BY <1>7, EndingKept DEF ClearBreakpoints, frame, outcomeVars
<1>8. QED
  BY <1>2, <1>3, <1>4, <1>5, <1>6, <1>7 DEF Request, Step, Run

LEMMA EndingSurroundings == VInv /\ Surroundings => EndingInv'
<1> SUFFICES ASSUME VInv, Surroundings PROVE EndingInv'
  OBVIOUS
<1>1. call = "none" => phase = "rest"
  BY DEF VInv, OInv, FrameInv
<1>2. ASSUME NEW g, SetGraph(g)
      PROVE  EndingInv'
  BY <1>1, <1>2, EndingReset DEF SetGraph, ResetSimulation, frame
<1>3. ASSUME NEW g, EditGraph(g)
      PROVE  EndingInv'
  BY <1>3, EndingKept DEF EditGraph, frame, outcomeVars
<1>4. ASSUME NEW b, SetTokenTransport(b)
      PROVE  EndingInv'
  BY <1>4, EndingKept DEF SetTokenTransport, frame, outcomeVars
<1>5. QED
  BY <1>2, <1>3, <1>4 DEF Surroundings

LEMMA EndingAdvance == VInv /\ Advance => EndingInv'
<1> SUFFICES ASSUME VInv, Advance PROVE EndingInv'
  OBVIOUS
<1>1. /\ status \in {"running", "paused"} <=>
           status \in Statuses \ {"idle", "completed", "error"}
      /\ endings \in {<<>>, <<"completed">>, <<"blocked">>, <<"error">>}
  BY DEF VInv, EndingInv, Statuses
<1>2. ASSUME Dispatching
      PROVE  status \in {"running", "paused"} /\ endings = <<>> /\ call # "none"
  BY <1>2 DEF Dispatching, AtHead, LoopEnds, VInv, EndingInv
<1>20. ASSUME Leave, call # "none", nested' = nested
      PROVE  phase' = "rest"
  BY <1>20, AloneReturns DEF VInv, OInv, FrameInv, Alone
<1>21. phase # "rest" => call # "none"
  BY DEF VInv, OInv, FrameInv
<1>3. CASE StepFindsNothing
  BY <1>3 DEF StepFindsNothing, AtHead, VInv, EndingInv
<1>4. CASE LeaveLoop
  <2>1. ~ (~LoopEnds /\ ready = {})
    BY <1>4 DEF LeaveLoop, LoopEnds, AtHead, VInv, EndingInv
  <2>2. Return(status) /\ UNCHANGED <<endings, simulation, nested>> /\ call # "none"
    BY <1>4, <2>1 DEF LeaveLoop, environment
  <2>3. phase \in {"begin", "loop"}
    BY <1>4 DEF LeaveLoop, AtHead
  <2>4. phase' = "rest" /\ status' = IF status = "running" THEN "paused" ELSE status
    BY <1>20, <2>2 DEF Return
  <2>5. VerdictHolds'
    BY <2>2 DEF VInv, EndingInv, VerdictHolds, simulation, EdgesInto
  <2>6. QED
    BY <2>2, <2>3, <2>4, <2>5 DEF VInv, EndingInv, simulation
<1>5. CASE ExecuteComponent
  <2>1. Dispatching /\ UNCHANGED <<status, endings>> /\ phase' = "executed"
    BY <1>5 DEF ExecuteComponent, outcomeVars
  <2>2. QED
    BY <1>2, <2>1 DEF VInv, EndingInv, VerdictHolds
<1>6. CASE ProviderFails
  <2>1. endings' = <<"error">> /\ status' = "error" /\ phase' = "rest"
    BY <1>2, <1>6, <1>20 DEF ProviderFails, Return, environment
  <2>2. QED
    BY <2>1 DEF EndingInv, VerdictHolds
<1>7. CASE RecordExecution
  <2>1. /\ UNCHANGED <<status, endings>> /\ phase' = "ticked"
        /\ phase = "executed"
    BY <1>7 DEF RecordExecution, outcomeVars
  <2>2. QED
    BY <2>1 DEF VInv, EndingInv, VerdictHolds
<1>8. CASE FinishStep
  <2> DEFINE fs == Finalized(status, ready, executed, snap)
  <2>1. /\ phase = "ticked" /\ call # "none" /\ UNCHANGED <<nested, simulation>>
        /\ endings' = endings \o FinalEvents(status, ready, executed, snap)
    BY <1>8 DEF FinishStep, FinalizeAndReturn, environment
  <2>2. \/ status' = (IF fs = "running" THEN "paused" ELSE fs) /\ Leave
        \/ status' = fs /\ phase' = "loop" /\ call' = "run"
    BY <1>8 DEF FinishStep, FinalizeAndReturn, Return
  <2>3. \/ status' = (IF fs = "running" THEN "paused" ELSE fs) /\ phase' = "rest"
        \/ status' = fs /\ phase' = "loop" /\ call' = "run"
    BY <1>20, <2>1, <2>2
  <2>4. QED
    BY <2>1, <2>3, EndingConcludes
<1>9. CASE FinishStart
  <2> DEFINE fs == Finalized(status, ready, executed, snap)
  <2>1. /\ phase = "started" /\ Leave /\ UNCHANGED <<nested, simulation>>
        /\ endings' = endings \o FinalEvents(status, ready, executed, snap)
        /\ status' = fs
    BY <1>9 DEF FinishStart, environment
  <2>2. phase' = "rest"
    BY <1>20, <1>21, <2>1
  <2>3. fs # "running"
    BY <2>1 DEF VInv, EndingInv, Finalized
  <2>4. QED
    BY <2>1, <2>2, <2>3, EndingConcludes
<1>10. QED
  BY <1>3, <1>4, <1>5, <1>6, <1>7, <1>8, <1>9 DEF Advance

LEMMA EndingInvariant ==
  ASSUME OnlyPauses
  PROVE  Spec => []VInv
<1>1. VInv /\ UNCHANGED vars => EndingInv'
  BY EndingKept DEF vars, outcomeVars, frame
<1>2. (Reset => call = "none") /\ (VInv /\ Next => nested' = 0)
  BY AtRest, NeverNested DEF VInv, OInv, FrameInv, Alone
<1>3. VInv /\ [Next]_vars => EndingInv'
  BY <1>1, <1>2, EndingRequest, EndingSurroundings, EndingAdvance DEF Next
<1>4. OInv /\ EndingInv <=> VInv
  BY DEF VInv
<1>5. QED
  BY EndingInit, <1>3, <1>4, OrderInvariant, PTL DEF Spec

-----------------------------------------------------------------------------
(* The implementation of TopologicalRun. *)

(***************************************************************************)
(* executeOneStep lets go of the ready queue before it records what it     *)
(* took from it: until then that component is still the one to run next.   *)
(***************************************************************************)
TakesTheLeast == phase = "executed" => \A n \in ready : current <= n

RInv == VInv /\ TakesTheLeast

-----------------------------------------------------------------------------
(* The refinement mapping. *)

(***************************************************************************)
(* What may run next is what is in the ready queue or has just left it.    *)
(***************************************************************************)
LEMMA RunnableIsReady ==
  OInv /\ status # "error" => TR!Runnable(snap, executed) = ready \cup Recording
<1> SUFFICES ASSUME OInv, status # "error"
             PROVE  TR!Runnable(snap, executed) = ready \cup Recording
  OBVIOUS
<1>1. TR!Runnable(snap, executed) = {n \in snap.nodes \ executed : ~ Unmet(n)}
  BY DEF TR!Runnable, Unmet, EdgesInto
<1>2. QED
  BY <1>1 DEF OInv, ReadyQueueExact

(***************************************************************************)
(* The outcome shown is the verdict on what was executed, unless there is  *)
(* no simulation or it failed.                                             *)
(***************************************************************************)
LEMMA OutcomeIsVerdict ==
  OInv => OutcomeNow = IF status = "error" THEN "error"
                       ELSE IF status = "idle" THEN "none"
                       ELSE TR!Verdict(snap, executed)
<1> SUFFICES ASSUME OInv
             PROVE  OutcomeNow = IF status = "error" THEN "error"
                                 ELSE IF status = "idle" THEN "none"
                                 ELSE TR!Verdict(snap, executed)
  OBVIOUS
<1>1. CASE status \in {"error", "idle"}
  BY <1>1 DEF OutcomeNow
<1>2. CASE status \notin {"error", "idle"}
  <2>1. TR!Runnable(snap, executed) = ready \cup Recording
    BY <1>2, RunnableIsReady
  <2>2. QED
    BY <1>2, <2>1 DEF OutcomeNow, TR!Verdict
<1>3. QED
  BY <1>1, <1>2

LEMMA OutcomeIsVerdictNext ==
  OInv' => OutcomeNow' = IF status' = "error" THEN "error"
                         ELSE IF status' = "idle" THEN "none"
                         ELSE TR!Verdict(snap', executed')
<1>1. (OInv => OutcomeNow = IF status = "error" THEN "error"
                            ELSE IF status = "idle" THEN "none"
                            ELSE TR!Verdict(snap, executed))'
  BY OutcomeIsVerdict, PTL
<1>2. QED
  BY <1>1

(***************************************************************************)
(* A step that executes nothing and neither fails nor discards the         *)
(* simulation shows nothing.                                               *)
(***************************************************************************)
LEMMA ShowsNothing ==
  ASSUME OInv, OInv', snap' = snap, order' = order, executed' = executed,
         \/ status' = status
         \/ {status, status'} \cap {"error", "idle"} = {}
  PROVE  UNCHANGED TR!vars
<1>1. OutcomeNow' = OutcomeNow
  <2>1. CASE status' = status
    BY <2>1, OutcomeIsVerdict, OutcomeIsVerdictNext
  <2>2. CASE {status, status'} \cap {"error", "idle"} = {}
    BY <2>2, OutcomeIsVerdict, OutcomeIsVerdictNext
  <2>3. QED
    BY <2>1, <2>2
<1>2. QED
  BY <1>1 DEF TR!vars

-----------------------------------------------------------------------------
(* Each action is a step of TopologicalRun or shows nothing. *)

LEMMA LeastTakenByExecute ==
  ASSUME OInv, ExecuteComponent
  PROVE  TakesTheLeast'
<1>1. ready \in SUBSET Node /\ ready # {}
  BY DEF ExecuteComponent, Dispatching, OInv, TInv, TypeOK
<1>2. current' = First(ready) /\ ready' \subseteq ready
  BY DEF ExecuteComponent
<1>3. QED
  BY <1>1, <1>2, FirstIsLeast DEF TakesTheLeast

LEMMA StartRefines ==
  ASSUME OInv, OInv', Start
  PROVE  TR!Next
<1>1. order' = <<>> /\ executed' = {}
  BY DEF Start, ClearSimulationData
<1>2. CASE graph # NoGraph /\ StartOn(graph)
  <2>1. status' = "paused"
    BY <1>2 DEF StartOn
  <2>2. OutcomeNow' = TR!Verdict(snap', {})
    BY <1>1, <2>1, OutcomeIsVerdictNext
  <2>3. QED
    BY <1>1, <2>2 DEF TR!Next, TR!Begin
<1>3. CASE ClearSnapshot /\ status' = "error"
  <2>1. snap' = TR!EmptyGraph
    BY <1>3 DEF ClearSnapshot, EmptyGraph, TR!EmptyGraph
  <2>2. OutcomeNow' = "error"
    BY <1>3, OutcomeIsVerdictNext
  <2>3. QED
    BY <1>1, <2>1, <2>2 DEF TR!Next, TR!Discard
<1>4. QED
  BY <1>2, <1>3 DEF Start

LEMMA ResetRefines ==
  ASSUME OInv', ResetSimulation
  PROVE  TR!Next
<1>1. snap' = TR!EmptyGraph /\ order' = <<>> /\ status' = "idle"
  BY DEF ResetSimulation, ClearSimulationData, ClearSnapshot, EmptyGraph, TR!EmptyGraph
<1>2. OutcomeNow' = "none"
  BY <1>1, OutcomeIsVerdictNext
<1>3. QED
  BY <1>1, <1>2 DEF TR!Next, TR!Discard

LEMMA FailureRefines ==
  ASSUME RInv, OInv', ProviderFails
  PROVE  TR!Next
<1>1. /\ status' = "error" /\ snap' = snap /\ order' = order
      /\ ready # {} /\ phase \in {"begin", "loop"} /\ call # "none"
  BY DEF ProviderFails, Return, Dispatching, AtHead
<1>2. status \notin {"error", "idle"}
  BY <1>1 DEF RInv, VInv, EndingInv, OInv, FrameInv, ProviderFails, Dispatching, LoopEnds
<1>3. OutcomeNow = "running"
  BY <1>1, <1>2 DEF OutcomeNow
<1>4. OutcomeNow' = "error"
  BY <1>1, OutcomeIsVerdictNext
<1>5. QED
  BY <1>1, <1>3, <1>4 DEF TR!Next, TR!Fail

(***************************************************************************)
(* Recording an execution is the step of TopologicalRun: the component     *)
(* recorded is the least of those that could run.                          *)
(***************************************************************************)
LEMMA RecordingRefines ==
  ASSUME RInv, OInv', RecordExecution
  PROVE  TR!Next
<1>1. /\ phase = "executed" /\ snap' = snap /\ status' = status
      /\ order' = Append(order, current)
      /\ executed' = executed \cup {current}
  BY DEF RecordExecution, outcomeVars
<1>2. OInv /\ status \in {"running", "paused"}
  BY <1>1 DEF RInv, VInv, EndingInv
<1>3. TR!Runnable(snap, executed) = ready \cup {current}
  BY <1>1, <1>2, RunnableIsReady DEF Recording
<1>4. ready \subseteq Nat /\ current \in Nat
  BY <1>1, <1>2, NodesAreNumbers DEF OInv, TInv, TypeOK, FrameInv, ReadyQueueExact
<1>5. TR!Least(ready \cup {current}) = current
  <2>1. \A n \in ready : current <= n
    BY <1>1 DEF RInv, TakesTheLeast
  <2>2. \A n \in ready \cup {current} : current <= n
    BY <1>4, <2>1
  <2>3. \A n \in ready \cup {current} :
           (\A m \in ready \cup {current} : n <= m) => n = current
    BY <1>4, <2>2
  <2>4. QED
    BY <2>2, <2>3 DEF TR!Least
<1>6. TR!ToSet(order) = executed
  BY <1>2 DEF OInv, TimelineInv, ToSet, TR!ToSet
<1>7. OutcomeNow = "running"
  BY <1>1, <1>2 DEF OutcomeNow, Recording
<1>8. OutcomeNow' = TR!Verdict(snap, executed \cup {current})
  BY <1>1, <1>2, OutcomeIsVerdictNext
<1>9. TR!Execute
  BY <1>1, <1>3, <1>5, <1>6, <1>7, <1>8 DEF TR!Execute
<1>10. QED
  BY <1>9 DEF TR!Next

(***************************************************************************)
(* Leaving a step or the loop keeps the simulation; its status goes from   *)
(* running to paused or to completed.                                      *)
(***************************************************************************)
LEMMA ReturningShowsNothing ==
  ASSUME RInv, OInv', FinishStart \/ StepFindsNothing \/ LeaveLoop \/ FinishStep
  PROVE  UNCHANGED TR!vars
<1>1. OInv /\ snap' = snap /\ order' = order /\ executed' = executed
  BY DEF RInv, VInv, FinishStart, StepFindsNothing, LeaveLoop, FinishStep, simulation
<1>2. \/ status' = status
      \/ {status, status'} \cap {"error", "idle"} = {}
  <2>1. phase # "rest" => status # "error"
    BY <1>1 DEF OInv, FrameInv
  <2>2. CASE StepFindsNothing
    BY <2>1, <2>2
       DEF RInv, VInv, EndingInv, StepFindsNothing, AtHead, FinalizeAndReturn, Return,
           Finalized
  <2>3. CASE FinishStep
    BY <2>1, <2>3
       DEF RInv, VInv, EndingInv, FinishStep, FinalizeAndReturn, Return, Finalized
  <2>4. CASE LeaveLoop
    BY <2>1, <2>4 DEF LeaveLoop, AtHead, LoopEnds, FinalizeAndReturn, Return, Finalized
  <2>5. CASE FinishStart
    BY <2>5 DEF RInv, VInv, EndingInv, FinishStart, Finalized
  <2>6. QED
    BY <2>2, <2>3, <2>4, <2>5
<1>3. QED
  BY <1>1, <1>2, ShowsNothing

-----------------------------------------------------------------------------
(* The theorem. *)

LEMMA RefinementInvariant ==
  ASSUME OnlyPauses
  PROVE  Spec => []RInv
<1>1. Init => TakesTheLeast
  BY DEF Init, TakesTheLeast
<1>2. VInv /\ TakesTheLeast /\ [Next]_vars => TakesTheLeast'
  <2> SUFFICES ASSUME VInv, TakesTheLeast, [Next]_vars
               PROVE  TakesTheLeast'
    OBVIOUS
  <2>1. CASE UNCHANGED << phase, current, ready >>
    BY <2>1 DEF TakesTheLeast
  <2>2. CASE phase' # "executed"
    BY <2>2 DEF TakesTheLeast
  <2>3. TInv /\ Alone /\ (phase = "rest" <=> call = "none")
    BY DEF VInv, OInv, FrameInv
  <2>4. CASE Request
    <3>1. CASE Start
      <4>1. phase' = "started" \/ UNCHANGED frame
        BY <3>1 DEF Start, Call
      <4>2. QED
        BY <2>2, <2>3, <3>1, <4>1, AtRest DEF frame
    <3>2. CASE Reset
      BY <2>2, <2>3, <3>2, AtRest DEF Reset, frame
    <3>3. CASE Pause \/ ClearBreakpoints
      BY <2>1, <3>3 DEF Pause, ClearBreakpoints, simulation, frame
    <3>4. ASSUME NEW n, NEW b, SetBreakpoint(n, b)
          PROVE  TakesTheLeast'
      BY <2>1, <3>4 DEF SetBreakpoint, simulation, frame
    <3>5. ASSUME NEW kind, NEW k, Begin(kind, k)
          PROVE  TakesTheLeast'
      BY <2>2, <3>5 DEF Begin, Call
    <3>6. QED
      BY <2>4, <3>1, <3>2, <3>3, <3>4, <3>5 DEF Request, Step, Run
  <2>5. CASE Surroundings
    <3>1. phase' # "executed"
      BY <2>3, <2>5 DEF Surroundings, SetGraph, EditGraph, SetTokenTransport, frame
    <3>2. QED
      BY <2>2, <3>1
  <2>6. CASE ExecuteComponent
    BY <2>6, LeastTakenByExecute DEF VInv
  <2>7. CASE FinishStart \/ StepFindsNothing \/ LeaveLoop \/ ProviderFails
             \/ RecordExecution \/ FinishStep
    <3>1. \/ Leave /\ call # "none" /\ nested' = 0
          \/ phase' \in {"loop", "ticked"}
      BY <2>3, <2>7
      DEF FinishStart, StepFindsNothing, LeaveLoop, ProviderFails, RecordExecution,
          FinishStep, FinalizeAndReturn, Return, Dispatching, environment, Alone
    <3>2. phase' # "executed"
      BY <2>3, <3>1, AloneReturns
    <3>3. QED
      BY <2>2, <3>2
  <2>8. CASE UNCHANGED vars
    BY <2>1, <2>8 DEF vars, simulation, frame
  <2>9. QED
    BY <2>4, <2>5, <2>6, <2>7, <2>8 DEF Next, Advance
<1>3. VInv /\ TakesTheLeast <=> RInv
  BY DEF RInv
<1>4. QED
  BY <1>1, <1>2, <1>3, EndingInvariant, PTL DEF Spec

(***************************************************************************)
(* GraphExecutionSandbox runs each component once, after all it depends    *)
(* on, the least id first, and concludes as TopologicalRun does: the order *)
(* is the same for the same graph, on any graph, however the simulation is *)
(* driven and whatever happens to the live graph meanwhile.                *)
(***************************************************************************)
THEOREM SandboxImplementsTopologicalRun ==
  ASSUME OnlyPauses
  PROVE  Spec => ImplementsTopologicalRun
<1>1. Init => TR!Init
  BY DEF Init, TR!Init, EmptyGraph, TR!EmptyGraph, OutcomeNow
<1>2. RInv /\ RInv' /\ [Next]_vars => [TR!Next]_(TR!vars)
  <2> SUFFICES ASSUME RInv, RInv', [Next]_vars
               PROVE  TR!Next \/ UNCHANGED TR!vars
    OBVIOUS
  <2>1. OInv /\ OInv'
    BY DEF RInv, VInv
  <2>2. CASE Request
    <3>1. CASE Start
      BY <2>1, <3>1, StartRefines
    <3>2. CASE Reset
      BY <2>1, <3>2, ResetRefines DEF Reset
    <3>3. CASE Pause \/ ClearBreakpoints
      BY <2>1, <3>3, ShowsNothing DEF Pause, ClearBreakpoints, simulation, outcomeVars
    <3>4. ASSUME NEW n, NEW b, SetBreakpoint(n, b)
          PROVE  UNCHANGED TR!vars
      BY <2>1, <3>4, ShowsNothing DEF SetBreakpoint, simulation, outcomeVars
    <3>5. ASSUME NEW kind, NEW k, Begin(kind, k)
          PROVE  UNCHANGED TR!vars
      BY <2>1, <3>5, ShowsNothing DEF Begin, simulation
    <3>6. QED
      BY <2>2, <3>1, <3>2, <3>3, <3>4, <3>5 DEF Request, Step, Run
  <2>3. CASE Surroundings
    <3>1. ASSUME NEW g, SetGraph(g)
          PROVE  TR!Next
      BY <2>1, <3>1, ResetRefines DEF SetGraph
    <3>2. ASSUME NEW g, EditGraph(g)
          PROVE  UNCHANGED TR!vars
      BY <2>1, <3>2, ShowsNothing DEF EditGraph, simulation, outcomeVars
    <3>3. ASSUME NEW b, SetTokenTransport(b)
          PROVE  UNCHANGED TR!vars
      BY <2>1, <3>3, ShowsNothing DEF SetTokenTransport, simulation, outcomeVars
    <3>4. QED
      BY <2>3, <3>1, <3>2, <3>3 DEF Surroundings
  <2>4. CASE ExecuteComponent
    BY <2>1, <2>4, ShowsNothing DEF ExecuteComponent, outcomeVars
  <2>5. CASE ProviderFails
    BY <2>1, <2>5, FailureRefines
  <2>6. CASE RecordExecution
    BY <2>1, <2>6, RecordingRefines
  <2>7. CASE FinishStart \/ StepFindsNothing \/ LeaveLoop \/ FinishStep
    BY <2>1, <2>7, ReturningShowsNothing
  <2>8. CASE UNCHANGED vars
    BY <2>1, <2>8, ShowsNothing DEF vars, simulation, outcomeVars
  <2>9. QED
    BY <2>2, <2>3, <2>4, <2>5, <2>6, <2>7, <2>8 DEF Next, Advance
<1>3. QED
  BY <1>1, <1>2, RefinementInvariant, PTL DEF Spec, ImplementsTopologicalRun, TR!Spec

-----------------------------------------------------------------------------
(***************************************************************************)
(* Resets in the middle of a call.  A step goes on and records its         *)
(* component in a simulation without a snapshot.  The queue and the counts *)
(* no longer say what they should, so the invariant is a disjunction: the  *)
(* simulation is as it is without resets, or it is Void until the next     *)
(* start.  Once a slot has made a call of start(), step() or run() nothing *)
(* is claimed until the simulation is started or reset with no call in     *)
(* progress.                                                               *)
(***************************************************************************)

(***************************************************************************)
(* A reset simulation, in which the rest of a step may have recorded its   *)
(* component: no count is positive, so nothing becomes ready.              *)
(***************************************************************************)
Void ==
  /\ TInv /\ Alone
  /\ snap = EmptyGraph /\ ready = {}
  /\ \A n \in Node : pending[n] <= 0
  /\ phase = "loop" => call = "run"
  /\ \/ status = "idle" /\ endings = <<>>
     \/ /\ status = "completed" /\ endings = <<"completed">>
        /\ phase \in {"loop", "rest"}

(***************************************************************************)
(* While transport stays on, what was executed has put its token on every  *)
(* connection out of it.                                                   *)
(***************************************************************************)
TokensSent ==
  steady =>
    \A e \in snap.edges : snap.source[e] \in executed => tokens[e] = snap.source[e]

Conducted == VInv \/ Void

SInv ==
  /\ TInv
  /\ steady => transport
  /\ nested = 0 => Conducted /\ TokensSent

LEMMA ConductedAlone == Conducted => TInv /\ Alone
BY DEF Conducted, VInv, OInv, FrameInv, Void

-----------------------------------------------------------------------------
(* A simulation that was reset under a call. *)

(***************************************************************************)
(* A reset clears everything but the call in progress.                     *)
(***************************************************************************)
LEMMA VoidAfterReset ==
  ASSUME TInv', Alone, nested' = 0, ResetSimulation, UNCHANGED frame,
         phase = "loop" => call = "run"
  PROVE  Void'
<1>1. Alone'
  BY AloneKept DEF frame
<1>2. QED
  BY <1>1 DEF ResetSimulation, ClearSimulationData, ClearSnapshot, frame, Void

(***************************************************************************)
(* The component a step records after the reset lifts connections the      *)
(* counts no longer hold: they go below zero, and nothing becomes ready.   *)
(***************************************************************************)
LEMMA VoidRecords == Void /\ RecordExecution => Void'
<1> SUFFICES ASSUME Void, RecordExecution PROVE Void'
  OBVIOUS
<1> DEFINE degree(n) == Cardinality(Lifted(outgoing, n))
<1>1. TInv' /\ Alone'
  BY TypeAdvance, AloneKept DEF Advance, RecordExecution, environment, Alone, Void
<1>2. \A n \in Node : degree(n) \in Nat /\ pending[n] \in Int /\ pending[n] <= 0
  BY LiftedIsFinite, FrameFields DEF Void, TInv, TypeOK
<1>3. /\ pending' = [n \in Node |-> pending[n] - degree(n)]
      /\ ready' = ready \cup ({n \in Node : pending[n] > 0 /\ pending[n] <= degree(n)}
                                \ executed')
      /\ phase = "executed" /\ phase' = "ticked"
      /\ UNCHANGED <<snap, status, endings, call>>
  BY DEF RecordExecution, Lifted, outcomeVars
<1> HIDE DEF degree
<1>4. \A n \in Node : pending'[n] <= 0 /\ ~ (pending[n] > 0)
  BY <1>2, <1>3
<1>5. ready' = {}
  BY <1>3, <1>4 DEF Void
<1>6. QED
  BY <1>1, <1>3, <1>4, <1>5 DEF Void

(***************************************************************************)
(* Nothing is ready, so no component is taken.  Only the call that was     *)
(* reset gives a verdict.                                                  *)
(***************************************************************************)
LEMMA VoidAdvance == Void /\ Advance => Void'
<1> SUFFICES ASSUME Void, Advance PROVE Void'
  OBVIOUS
<1> DEFINE ev == FinalEvents(status, ready, executed, snap)
           fs == Finalized(status, ready, executed, snap)
<1>1. TInv'
  BY TypeAdvance DEF Void
<1>2. ~ Dispatching
  BY DEF Void, Dispatching
<1>3. status = "idle" => \/ ev = <<>> /\ fs = "idle"
                         \/ ev = <<"completed">> /\ fs = "completed"
  BY DEF FinalEvents, Finalized, Exhausted, Stuck
<1>4. \A events \in {<<>>, <<"completed">>} : <<>> \o events = events
  OBVIOUS
<1>5. ASSUME Leave, phase # "rest", nested' = nested
      PROVE  Alone' /\ phase' = "rest"
  BY <1>5, AloneReturns, RestIsNone DEF Void, Alone
<1> HIDE DEF ev, fs
<1>6. ASSUME phase \notin {"loop", "rest"}, UNCHANGED <<nested, simulation>>,
             endings' = endings \o ev,
             \/ status' = (IF fs = "running" THEN "paused" ELSE fs) /\ Leave
             \/ status' = fs /\ phase' = "loop" /\ call' = "run" /\ Alone'
      PROVE  Void'
  <2>1. status = "idle" /\ endings = <<>>
    BY <1>6 DEF Void
  <2>2. /\ endings' = ev
        /\ \/ ev = <<>> /\ fs = "idle"
           \/ ev = <<"completed">> /\ fs = "completed"
    BY <1>3, <1>4, <1>6, <2>1
  <2>3. /\ status' = fs /\ Alone'
        /\ phase' = "rest" \/ (phase' = "loop" /\ call' = "run")
    <3>1. fs # "running"
      BY <2>2
    <3>2. CASE Leave
      BY <1>5, <1>6, <3>1, <3>2
    <3>3. CASE status' = fs /\ phase' = "loop" /\ call' = "run" /\ Alone'
      BY <3>3
    <3>4. QED
      BY <1>6, <3>2, <3>3
  <2>4. QED
    BY <1>1, <1>6, <2>2, <2>3 DEF Void, simulation
<1>7. CASE FinishStart
  <2>1. fs # "running"
    BY <1>3, <1>7 DEF FinishStart, Void
  <2>2. QED
    BY <1>6, <1>7, <2>1 DEF FinishStart, environment, ev, fs
<1>8. CASE StepFindsNothing
  <2>1. phase = "begin" /\ call = "step"
    BY <1>8 DEF StepFindsNothing, AtHead, Void
  <2>2. QED
    BY <1>6, <1>8, <2>1
    DEF StepFindsNothing, FinalizeAndReturn, Return, environment, ev, fs
<1>9. CASE LeaveLoop
  <2>1. LoopEnds
    BY <1>9 DEF LeaveLoop, LoopEnds, Void
  <2>2. /\ Leave /\ phase # "rest" /\ UNCHANGED <<nested, simulation, endings>>
        /\ status' = IF status = "running" THEN "paused" ELSE status
    BY <1>9, <2>1 DEF LeaveLoop, AtHead, Return, environment
  <2>3. Alone' /\ phase' = "rest"
    BY <1>5, <2>2
  <2>4. QED
    BY <1>1, <2>2, <2>3 DEF Void, simulation
<1>10. CASE FinishStep
  <2>1. /\ phase = "ticked" /\ UNCHANGED <<nested, simulation>> /\ endings' = endings \o ev
    BY <1>10 DEF FinishStep, FinalizeAndReturn, environment, ev
  <2>2. CASE call = "step" /\ FinalizeAndReturn
    BY <1>6, <2>1, <2>2 DEF FinalizeAndReturn, Return, fs
  <2>3. CASE call = "run" /\ status' = fs /\ phase' = "loop" /\ UNCHANGED <<call, below>>
    <3>1. Alone'
      BY <2>1, <2>3, AloneKept DEF Void, Alone
    <3>2. QED
      BY <1>6, <2>1, <2>3, <3>1
  <2>4. QED
    BY <1>10, <2>2, <2>3 DEF FinishStep, fs
<1>11. QED
  BY <1>2, <1>7, <1>8, <1>9, <1>10, VoidRecords
  DEF Advance, ExecuteComponent, ProviderFails

(***************************************************************************)
(* A start ends it; step and run refuse a simulation that is idle.         *)
(***************************************************************************)
LEMMA VoidRequest ==
  ASSUME nested' = 0
  PROVE  Void /\ Request => Conducted'
<1> SUFFICES ASSUME Void, Request PROVE Conducted'
  OBVIOUS
<1>1. TInv /\ TInv' /\ Alone
  BY TypeRequest DEF Void
<1>2. CASE Start
  <2>1. OInv' /\ EndingInv'
    BY <1>1, <1>2, OrderStart, EndingStart, CountedAtRest
  <2>2. QED
    BY <2>1 DEF Conducted, VInv
<1>3. CASE Reset
  BY <1>1, <1>3, VoidAfterReset DEF Reset, Void, Conducted
<1>4. ASSUME NEW kind, NEW k, Begin(kind, k)
      PROVE  FALSE
  BY <1>4 DEF Begin, Void
<1>5. CASE Pause
  BY <1>5 DEF Pause, Void
<1>6. ASSUME UNCHANGED <<simulation, outcomeVars, frame>>
      PROVE  Conducted'
  BY <1>1, <1>6, AloneKept DEF simulation, outcomeVars, frame, Void, Conducted
<1>7. QED
  BY <1>2, <1>3, <1>4, <1>5, <1>6
  DEF Request, Step, Run, SetBreakpoint, ClearBreakpoints

(***************************************************************************)
(* What changes around the sandbox does not bring it back.                 *)
(***************************************************************************)
LEMMA VoidSurroundings == Void /\ Surroundings => Void'
<1> SUFFICES ASSUME Void, Surroundings PROVE Void'
  OBVIOUS
<1>1. TInv' /\ Alone
  BY TypeSurroundings DEF Void
<1>2. ASSUME NEW g, SetGraph(g) PROVE Void'
  BY <1>1, <1>2, VoidAfterReset DEF SetGraph, Void
<1>3. ASSUME UNCHANGED <<nested, simulation, outcomeVars, frame>>
      PROVE  Void'
  <2>1. Alone'
    BY <1>1, <1>3, AloneKept DEF frame, Alone
  <2>2. QED
    BY <1>1, <1>3, <2>1 DEF simulation, outcomeVars, frame, Void
<1>4. QED
  BY <1>2, <1>3 DEF Surroundings, EditGraph, SetTokenTransport

-----------------------------------------------------------------------------
(* The simulation in general. *)

(***************************************************************************)
(* A simulation is as it would be without resets, or it was reset: every   *)
(* step keeps it so, a reset from a slot leading from one to the other.    *)
(***************************************************************************)
LEMMA ConductedStep ==
  ASSUME nested' = 0
  PROVE  Conducted /\ [Next]_vars => Conducted'
<1> SUFFICES ASSUME Conducted, [Next]_vars PROVE Conducted'
  OBVIOUS
<1>1. CASE VInv /\ Request
  <2>1. CASE Reset => call = "none"
    BY <1>1, <2>1, OrderRequest, EndingRequest DEF VInv, Conducted
  <2>2. CASE Reset /\ call # "none"
    <3>1. TInv' /\ Alone
      BY <1>1, TypeRequest DEF VInv, OInv, FrameInv
    <3>2. QED
      BY <1>1, <2>2, <3>1, VoidAfterReset DEF Reset, VInv, EndingInv, Conducted
  <2>3. QED
    BY <2>1, <2>2
<1>2. CASE VInv /\ (Surroundings \/ Advance)
  BY <1>2, OrderSurroundings, OrderAdvance, EndingSurroundings, EndingAdvance
  DEF VInv, Conducted
<1>3. CASE VInv /\ UNCHANGED vars
  <2>1. OInv'
    BY <1>3, OrderKept DEF VInv
  <2>2. EndingInv'
    BY <1>3, EndingKept DEF vars, outcomeVars, frame
  <2>3. QED
    BY <2>1, <2>2 DEF VInv, Conducted
<1>4. CASE Void /\ UNCHANGED vars
  <2>1. TInv'
    BY <1>4, TypeStep DEF Void
  <2>2. Alone'
    BY <1>4, AloneKept DEF Void, vars, frame
  <2>3. QED
    BY <1>4, <2>1, <2>2 DEF Void, vars, simulation, outcomeVars, frame, Conducted
<1>5. CASE Void /\ Next
  BY <1>5, VoidRequest, VoidSurroundings, VoidAdvance DEF Next, Conducted
<1>6. QED
  BY <1>1, <1>2, <1>3, <1>4, <1>5 DEF Next, Conducted

(***************************************************************************)
(* Recording a component sends its token on each connection out of it.     *)
(***************************************************************************)
LEMMA TokensRecorded ==
  ASSUME Conducted, TokensSent, steady => transport, RecordExecution
  PROVE  TokensSent'
<1> SUFFICES ASSUME steady PROVE TokensSent'
  BY DEF RecordExecution, environment, TokensSent
<1>1. /\ UNCHANGED <<steady, transport, snap>>
      /\ executed' = executed \cup {current}
      /\ transport => tokens' = [e \in Edge |-> IF e \in DOMAIN outgoing THEN current
                                                ELSE tokens[e]]
      /\ phase = "executed"
  BY DEF RecordExecution, environment
<1>2. transport /\ \A e \in snap.edges : snap.source[e] \in executed => tokens[e] = snap.source[e]
  BY DEF TokensSent
<1>3. CASE Void
  BY <1>1, <1>2, <1>3 DEF Void, EmptyGraph, TokensSent
<1>4. CASE VInv
  <2>1. /\ snap.edges \subseteq Edge
        /\ outgoing = EdgesOutOf(snap, current)
    BY <1>1, <1>4 DEF VInv, OInv, TInv, Sound, FrameInv
  <2>2. \A e \in snap.edges : e \in DOMAIN outgoing <=> snap.source[e] = current
    BY <2>1 DEF EdgesOutOf
  <2>3. QED
    BY <1>1, <1>2, <2>1, <2>2 DEF TokensSent
<1>5. QED
  BY <1>3, <1>4 DEF Conducted

(***************************************************************************)
(* A start and a reset forget what was executed.                           *)
(***************************************************************************)
LEMMA TokensForgotten ==
  ASSUME ClearSimulationData
  PROVE  TokensSent'
BY DEF ClearSimulationData, TokensSent

(***************************************************************************)
(* No other step executes a component or takes a token away.               *)
(***************************************************************************)
LEMMA TokensStep ==
  ASSUME Conducted, TokensSent, steady => transport, [Next]_vars
  PROVE  TokensSent'
<1>1. ASSUME UNCHANGED <<snap, executed, tokens>>, steady' => steady
      PROVE  TokensSent'
  BY <1>1 DEF TokensSent
<1>2. CASE Advance /\ ~ RecordExecution
  BY <1>1, <1>2
  DEF Advance, FinishStart, StepFindsNothing, LeaveLoop, ExecuteComponent, ProviderFails,
      FinishStep, environment, simulation
<1>3. CASE UNCHANGED vars
  BY <1>1, <1>3 DEF vars, environment, simulation
<1>4. CASE Start \/ Reset
  BY <1>4, TokensForgotten DEF Start, Reset, ResetSimulation
<1>5. CASE Request /\ ~ Start /\ ~ Reset
  BY <1>1, <1>5
  DEF Request, Pause, Step, Run, Begin, SetBreakpoint, ClearBreakpoints,
      environment, simulation
<1>6. CASE Surroundings
  <2>1. ASSUME NEW b \in BOOLEAN, SetTokenTransport(b)
        PROVE  TokensSent'
    BY <1>1, <2>1 DEF SetTokenTransport, simulation
  <2>2. QED
    BY <1>1, <1>6, <2>1, TokensForgotten
    DEF Surroundings, SetGraph, EditGraph, ResetSimulation, simulation
<1>7. QED
  BY <1>2, <1>3, <1>4, <1>5, <1>6, TokensRecorded DEF Next

(***************************************************************************)
(* A start notes whether transport is on, and the flag's change is noted.  *)
(***************************************************************************)
LEMMA SteadyStep ==
  ASSUME steady => transport, [Next]_vars
  PROVE  (steady => transport)'
<1>1. CASE UNCHANGED <<steady, transport>>
  BY <1>1
<1>2. CASE Start
  BY <1>2 DEF Start, StartOn
<1>3. ASSUME NEW b \in BOOLEAN, SetTokenTransport(b)
      PROVE  (steady => transport)'
  BY <1>3 DEF SetTokenTransport
<1>4. CASE Next /\ ~ Start /\ ~ \E b \in BOOLEAN : SetTokenTransport(b)
  <2>1. CASE Request
    BY <1>1, <1>4, <2>1
    DEF Request, Reset, Pause, Step, Run, Begin, SetBreakpoint, ClearBreakpoints, environment
  <2>2. CASE Surroundings
    BY <1>1, <1>4, <2>2 DEF Surroundings, SetGraph, EditGraph
  <2>3. CASE Advance
    BY <1>1, <2>3
    DEF Advance, FinishStart, StepFindsNothing, LeaveLoop, ExecuteComponent, ProviderFails,
        RecordExecution, FinishStep, environment
  <2>4. QED
    BY <1>4, <2>1, <2>2, <2>3 DEF Next
<1>5. CASE UNCHANGED vars
  BY <1>1, <1>5 DEF vars, environment
<1>6. QED
  BY <1>2, <1>3, <1>4, <1>5

(***************************************************************************)
(* What slots have stepped or run is forgotten by a start or a reset that  *)
(* interrupts no call.                                                     *)
(***************************************************************************)
LEMMA Recovers ==
  ASSUME TInv, nested # 0, nested' = 0, [Next]_vars
  PROVE  Conducted' /\ TokensSent'
<1>1. TInv'
  BY TypeStep
<1>2. CASE Start
  BY <1>2, OrderStart, EndingStart, CountedAtRest, TokensForgotten
  DEF Conducted, VInv, Start
<1>3. ASSUME ResetSimulation, call = "none", UNCHANGED frame
      PROVE  Conducted' /\ TokensSent'
  <2>1. OInv'
    BY <1>1, <1>3, FreshAfterReset
  <2>2. EndingInv'
    BY <1>3, RestIsNone, EndingReset DEF ResetSimulation, frame
  <2>3. QED
    BY <1>3, <2>1, <2>2, TokensForgotten DEF Conducted, VInv, ResetSimulation
<1>4. CASE Request /\ ~ Start
  <2>1. nested \in Nat
    BY NestedIsNat DEF TInv, TypeOK
  <2>2. Reset /\ call = "none"
    BY <1>4, <2>1
    DEF Request, Reset, Pause, Step, Run, Begin, SetBreakpoint, ClearBreakpoints, environment
  <2>3. QED
    BY <1>3, <2>2 DEF Reset
<1>5. CASE Surroundings
  BY <1>3, <1>5 DEF Surroundings, SetGraph, EditGraph, SetTokenTransport
<1>6. CASE Advance \/ UNCHANGED vars
  BY <1>6
  DEF Advance, FinishStart, StepFindsNothing, LeaveLoop, ExecuteComponent, ProviderFails,
      RecordExecution, FinishStep, environment, vars
<1>7. QED
  BY <1>2, <1>4, <1>5, <1>6 DEF Next

LEMMA SimulationInvariant == Spec => []SInv
<1>1. Init => SInv
  <2>1. Init => VInv /\ TInv
    BY EndingInit, TypeInit
  <2>2. Init => TokensSent /\ ~ steady
    BY DEF Init, TokensSent
  <2>3. QED
    BY <2>1, <2>2 DEF SInv, Conducted
<1>2. SInv /\ [Next]_vars => SInv'
  <2> SUFFICES ASSUME SInv, [Next]_vars PROVE SInv'
    OBVIOUS
  <2>1. TInv' /\ (steady => transport)'
    BY TypeStep, SteadyStep DEF SInv
  <2>2. CASE nested' # 0
    BY <2>1, <2>2 DEF SInv
  <2>3. CASE nested' = 0
    <3>1. Conducted' /\ TokensSent'
      BY <2>3, ConductedStep, TokensStep, Recovers DEF SInv
    <3>2. QED
      BY <2>1, <3>1 DEF SInv
  <2>4. QED
    BY <2>2, <2>3
<1>3. QED
  BY <1>1, <1>2, PTL DEF Spec

(***************************************************************************)
(* A simulation is concluded at most once and never left hanging: paused   *)
(* it can go on, and completed or failed it has said so; even when slots   *)
(* reset the simulation between the steps of a call, as long as none       *)
(* starts, steps or runs it there.                                         *)
(***************************************************************************)
THEOREM ConcludedOnce == Spec => []ConcludedExactlyOnce
<1>1. SInv /\ nested = 0 => endings \in {<<>>, <<"completed">>, <<"blocked">>, <<"error">>}
  BY DEF SInv, Conducted, VInv, EndingInv, Void
<1>2. ASSUME SInv, nested = 0
      PROVE  Len(endings) <= 1
  <2>1. /\ Len(<<>>) <= 1 /\ Len(<<"completed">>) <= 1
        /\ Len(<<"blocked">>) <= 1 /\ Len(<<"error">>) <= 1
    OBVIOUS
  <2>2. endings \in {<<>>, <<"completed">>, <<"blocked">>, <<"error">>}
    BY <1>1, <1>2
  <2>3. QED
    BY <2>1, <2>2
<1>3. SInv => ConcludedExactlyOnce
  BY <1>2 DEF SInv, Conducted, VInv, EndingInv, Void, ConcludedExactlyOnce
<1>4. QED
  BY <1>3, SimulationInvariant, PTL

(***************************************************************************)
(* The verdict is right: completed when everything was executed, blocked   *)
(* when every component left waits for another one left; unless a slot     *)
(* started, stepped or ran the simulation on the way.                      *)
(***************************************************************************)
THEOREM VerdictsAreRight == Spec => []VerdictIsTrue
<1>1. VInv => VerdictHolds
  BY DEF VInv, EndingInv
<1>2. Void => VerdictHolds
  BY DEF Void, EmptyGraph, VerdictHolds
<1>3. SInv => VerdictIsTrue
  BY <1>1, <1>2 DEF SInv, Conducted, VerdictIsTrue, VerdictHolds
<1>4. QED
  BY <1>3, SimulationInvariant, PTL

(***************************************************************************)
(* While token transport stays on, a component that is ready has on each   *)
(* connection into it the output of that connection's source, whatever was *)
(* reset, paused or edited on the way, unless a slot started, stepped or   *)
(* ran the simulation.                                                     *)
(***************************************************************************)
THEOREM TokensArrive == Spec => []TokensHaveArrived
<1>1. ASSUME SInv, steady, nested = 0, NEW n \in ready, NEW e \in EdgesInto(snap, n)
      PROVE  tokens[e] = snap.source[e]
  <2>1. VInv
    BY <1>1 DEF SInv, Conducted, Void
  <2>2. ~ Unmet(n)
    BY <2>1 DEF VInv, OInv, ReadyQueueExact
  <2>3. QED
    BY <1>1, <2>2 DEF Unmet, EdgesInto, SInv, TokensSent
<1>2. SInv => TokensHaveArrived
  BY <1>1 DEF TokensHaveArrived
<1>3. QED
  BY <1>2, SimulationInvariant, PTL
=============================================================================
