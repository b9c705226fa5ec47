-------------------------- MODULE ExecutionSandbox --------------------------
(***************************************************************************)
(* GraphExecutionSandbox: executes a snapshot of the graph component by    *)
(* component, one step() or a bounded run() at a time, with breakpoints.   *)
(*                                                                         *)
(* start(), step() and run() are synchronous calls, but they emit signals  *)
(* on the way, and a slot connected to a signal may call the sandbox again *)
(* before the call goes on: that is the only way pause() can find a        *)
(* simulation running.  A call is therefore several actions here, and      *)
(* between them, in the phases in which the code has just emitted a        *)
(* signal, slots may make the calls of HandlerCalls; the call they         *)
(* interrupt is suspended until theirs has returned.  Phases of a call:    *)
(*   "started"   start() has taken its snapshot and emitted statusChanged  *)
(*   "begin"     statusChanged was emitted, nothing was executed yet       *)
(*   "executed"  the provider has returned and executionStateChanged was   *)
(*               emitted, but the component is not recorded as executed    *)
(*   "ticked"    the component is recorded and currentTickChanged emitted  *)
(*   "loop"      the next component is about to be looked for, without a   *)
(*               signal just before                                        *)
(*   "rest"      no call is in progress                                    *)
(* Component ids are numbers, ordered as idComparator orders the strings,  *)
(* and the ready queue, which the code keeps sorted and free of            *)
(* duplicates, is the set of its members.  A token is the name of the      *)
(* component whose output it carries.                                      *)
(***************************************************************************)
EXTENDS Integers, Sequences, SequencesExt, FiniteSets

CONSTANTS
  Node,           \* component ids
  Edge,           \* connections, each with an id of its own
  Graphs,         \* the graphs a GraphModel may hold when a run starts
  NoGraph,        \* the graph property is null, or its graph was deleted
  NoToken,        \* no entry in m_connectionTokens
  NoComponent,    \* no component is being executed
  MaxBudget,      \* bound on the maxSteps given to run()
  BreakpointIds,  \* bound on the ids breakpoints are set on
  HandlerCalls,   \* the calls slots make
  MaxNested,      \* bound on the start, step and run calls made by slots
  SurroundingsChange  \* whether graph and flag change between calls

EmptyGraph == [nodes |-> {}, edges |-> {}, source |-> <<>>, target |-> <<>>]

GraphType == [nodes  : SUBSET Node,
              edges  : SUBSET Edge,
              source : [Edge -> Node],
              target : [Edge -> Node]]

ASSUME NodesAreNumbers == Node \subseteq Nat
ASSUME EdgesAreFinite == IsFiniteSet(Edge) /\ IsFiniteSet(Node)
ASSUME GraphsAreGraphs == Graphs \subseteq GraphType /\ NoGraph \notin Graphs
ASSUME BudgetIsNat == MaxBudget \in Nat
ASSUME NestedIsNat == MaxNested \in Nat
ASSUME SlotsMakeCalls ==
  HandlerCalls \subseteq {"pause", "breakpoint", "reset", "start", "step", "run"}
ASSUME SentinelsAreNotIds == NoToken \notin Node /\ NoComponent \notin Node

VARIABLES
  graph,        \* the live GraphModel
  transport,    \* MigrationFlags::tokenTransportEnabled()
  steady,       \* history: transport was on in every step since start()
  snap, pending, tokens, executed, ready, status, tick,
  order,        \* the component ids of the stepExecuted timeline events
  endings,      \* the completed, blocked and error timeline events
  breakpoints,
  nested,       \* history: the start, step and run calls of slots since the
                \* simulation was last started or reset outside of a call
  call, phase, current, outgoing, left,   \* where the call in progress is
  below         \* the calls it interrupts, the one it returns to first

environment == <<graph, transport, steady, breakpoints, nested>>
simulation  == <<snap, pending, tokens, executed, ready, tick, order>>
outcomeVars == <<status, endings>>
frame       == <<call, phase, current, outgoing, left, below>>
vars        == <<environment, simulation, outcomeVars, frame>>

Statuses == {"idle", "running", "paused", "completed", "error"}

(***************************************************************************)
(* A call in progress, with the locals it goes on with.                    *)
(***************************************************************************)
FrameType ==
  [call     : {"none", "start", "step", "run"},
   phase    : {"rest", "started", "begin", "loop", "executed", "ticked"},
   current  : Node \cup {NoComponent},
   outgoing : UNION {[S -> Node] : S \in SUBSET Edge},
   left     : -1 .. MaxBudget]

Frame == [call |-> call, phase |-> phase, current |-> current,
          outgoing |-> outgoing, left |-> left]

TypeOK ==
  /\ graph \in GraphType \cup {NoGraph}
  /\ transport \in BOOLEAN /\ steady \in BOOLEAN
  /\ snap \in GraphType \cup {EmptyGraph}
  /\ pending \in [Node -> Int]
  /\ tokens \in [Edge -> Node \cup {NoToken}]
  /\ executed \in SUBSET Node /\ ready \in SUBSET Node
  /\ status \in Statuses /\ tick \in Nat
  /\ order \in Seq(Node)
  /\ endings \in Seq({"completed", "blocked", "error"})
  /\ breakpoints \in SUBSET BreakpointIds
  /\ nested \in 0 .. MaxNested
  /\ Frame \in FrameType
  /\ below \in Seq(FrameType)
  /\ call = "none" <=> below = <<>>

Init ==
  /\ graph \in Graphs \cup {NoGraph}
  /\ transport = TRUE /\ steady = FALSE
  /\ snap = EmptyGraph
  /\ pending = [n \in Node |-> 0]
  /\ tokens = [e \in Edge |-> NoToken]
  /\ executed = {} /\ ready = {}
  /\ status = "idle" /\ tick = 0
  /\ order = <<>> /\ endings = <<>>
  /\ breakpoints = {} /\ nested = 0
  /\ call = "none" /\ phase = "rest"
  /\ current = NoComponent /\ outgoing = <<>> /\ left = 0
  /\ below = <<>>

-----------------------------------------------------------------------------

\* Mutant of First: the ready queue is taken from its other end.
Greatest(S) == CHOOSE n \in S : \A m \in S : n >= m

First(S) == CHOOSE n \in S : \A m \in S : n <= m

EdgesInto(g, n) == {e \in g.edges : g.target[e] = n}

(***************************************************************************)
(* The targets of the connections out of n: executeOneStep works on a copy *)
(* of them, which a reset from a slot does not touch.                      *)
(***************************************************************************)
EdgesOutOf(g, n) ==
  [e \in {d \in g.edges : g.source[d] = n} |-> g.target[e]]

(***************************************************************************)
(* captureGraphSnapshot: connections whose source or target is no          *)
(* component of the graph are left out.                                    *)
(***************************************************************************)
Snapshot(g) ==
  [g EXCEPT !.edges =
     {e \in g.edges : g.source[e] \in g.nodes /\ g.target[e] \in g.nodes}]

InDegrees(g) ==
  [n \in Node |-> IF n \in g.nodes THEN Cardinality(EdgesInto(g, n)) ELSE 0]

\* Mutant of Exhausted: an empty queue is taken for completion.
ExhaustedWhenEmpty(rd, ex, g) == rd = {}

(***************************************************************************)
(* finalizeIfNoReadyComponents: the status it leaves, and the timeline     *)
(* events it appends, given the status st before it.                       *)
(***************************************************************************)
Exhausted(rd, ex, g) == rd = {} /\ Cardinality(ex) = Cardinality(g.nodes)
Stuck(st, rd, ex, g) == /\ rd = {}
                        /\ Cardinality(ex) # Cardinality(g.nodes)
                        /\ st \in {"running", "paused"}

Finalized(st, rd, ex, g) ==
  IF Exhausted(rd, ex, g) \/ Stuck(st, rd, ex, g) THEN "completed" ELSE st

FinalEvents(st, rd, ex, g) ==
  IF Exhausted(rd, ex, g) THEN <<"completed">>
  ELSE IF Stuck(st, rd, ex, g) THEN <<"blocked">> ELSE <<>>

(***************************************************************************)
(* In the phases in which a signal was just emitted slots may make calls.  *)
(* A call of start(), step() or run() interrupts the one in progress, if   *)
(* any, and returns to where it was.                                       *)
(***************************************************************************)
InSlot(op) ==
  phase \in {"started", "begin", "executed", "ticked"} /\ op \in HandlerCalls

MayCall(op) == call = "none" \/ (InSlot(op) /\ nested < MaxNested)

Call(kind, at, budget) ==
  /\ below' = <<Frame>> \o below
  /\ call' = kind /\ phase' = at /\ left' = budget
  /\ current' = NoComponent /\ outgoing' = <<>>

Leave ==
  LET f == Head(below)
  IN  /\ call' = f.call /\ phase' = f.phase /\ left' = f.left
      /\ current' = f.current /\ outgoing' = f.outgoing
      /\ below' = Tail(below)

(***************************************************************************)
(* Return from step() or run(): a simulation still running is paused.      *)
(***************************************************************************)
Return(st) ==
  /\ status' = IF st = "running" THEN "paused" ELSE st
  /\ Leave

FinalizeAndReturn ==
  /\ endings' = endings \o FinalEvents(status, ready, executed, snap)
  /\ Return(Finalized(status, ready, executed, snap))

ClearSimulationData ==
  /\ tokens' = [e \in Edge |-> NoToken]
  /\ executed' = {}
  /\ tick' = 0
  /\ order' = <<>>

ClearSnapshot ==
  /\ snap' = EmptyGraph
  /\ pending' = [n \in Node |-> 0]
  /\ ready' = {}

-----------------------------------------------------------------------------
(* start(), and the calls that return at once. *)

\* Mutant of StartOn: dependencies are counted before the snapshot is cleaned.
StartOnRawGraph(g) ==
  LET s == Snapshot(g)
  IN  /\ snap' = s
      /\ pending' = InDegrees(g)
      /\ ready' = {n \in s.nodes : InDegrees(g)[n] = 0}
      /\ status' = "paused" /\ endings' = <<>>
      /\ steady' = transport

StartOn(g) ==
  LET s == Snapshot(g)
  IN  /\ snap' = s
      /\ pending' = InDegrees(s)
      /\ ready' = {n \in s.nodes : InDegrees(s)[n] = 0}
      /\ status' = "paused" /\ endings' = <<>>
      /\ steady' = transport

(***************************************************************************)
(* start() up to the status change it emits; without a graph it fails.     *)
(***************************************************************************)
Start ==
  /\ MayCall("start")
  /\ nested' = IF call = "none" THEN 0 ELSE nested + 1
  /\ ClearSimulationData
  /\ \/ /\ graph # NoGraph
        /\ StartOn(graph)
        /\ Call("start", "started", 0)
     \/ /\ graph = NoGraph
        /\ ClearSnapshot
        /\ status' = "error" /\ endings' = <<"error">>
        /\ UNCHANGED <<steady, frame>>
  /\ UNCHANGED <<graph, transport, breakpoints>>

ResetSimulation ==
  /\ ClearSimulationData /\ ClearSnapshot
  /\ status' = "idle" /\ endings' = <<>>

Reset ==
  /\ call = "none" \/ InSlot("reset")
  /\ ResetSimulation
  /\ nested' = IF call = "none" THEN 0 ELSE nested
  /\ UNCHANGED <<graph, transport, steady, breakpoints, frame>>

SetGraph(g) ==
  /\ call = "none" /\ g # graph
  /\ graph' = g
  /\ ResetSimulation /\ nested' = 0
  /\ UNCHANGED <<transport, steady, breakpoints, frame>>

(***************************************************************************)
(* The user edits the graph, or it is deleted: the sandbox is not told.    *)
(***************************************************************************)
EditGraph(g) ==
  /\ call = "none"
  /\ graph' = g
  /\ UNCHANGED <<transport, steady, breakpoints, nested, simulation, outcomeVars,
                 frame>>

SetTokenTransport(b) ==
  /\ call = "none"
  /\ transport' = b
  /\ steady' = (steady /\ b)
  /\ UNCHANGED <<graph, breakpoints, nested, simulation, outcomeVars, frame>>

SetBreakpoint(n, enabled) ==
  /\ call = "none" \/ InSlot("breakpoint")
  /\ breakpoints' = IF enabled THEN breakpoints \cup {n} ELSE breakpoints \ {n}
  /\ UNCHANGED <<graph, transport, steady, nested, simulation, outcomeVars, frame>>

ClearBreakpoints ==
  /\ call = "none" \/ InSlot("breakpoint")
  /\ breakpoints' = {}
  /\ UNCHANGED <<graph, transport, steady, nested, simulation, outcomeVars, frame>>

Pause ==
  /\ InSlot("pause")
  /\ status = "running"
  /\ status' = "paused"
  /\ UNCHANGED <<environment, simulation, endings, frame>>

-----------------------------------------------------------------------------
(* step() and run(). *)

(***************************************************************************)
(* setStatus() emits nothing when the simulation was running already.      *)
(***************************************************************************)
Begin(kind, budget) ==
  /\ MayCall(kind)
  /\ status \notin {"idle", "completed", "error"}
  /\ nested' = IF call = "none" THEN nested ELSE nested + 1
  /\ status' = "running"
  /\ Call(kind, IF status = "running" THEN "loop" ELSE "begin", budget)
  /\ UNCHANGED <<graph, transport, steady, breakpoints, simulation, endings>>

Step == Begin("step", 0)
Run(maxSteps) == Begin("run", maxSteps)

AtHead == phase \in {"begin", "loop"}
LoopEnds == call = "run" /\ (status # "running" \/ left = 0)
AtBreakpoint == call = "run" /\ ready # {} /\ First(ready) \in breakpoints

\* Mutant of LeaveLoop: the last step's verdict is given once more.
LeaveLoopConcludesAgain ==
  /\ call = "run" /\ AtHead
  /\ LoopEnds \/ AtBreakpoint \/ ready = {}
  /\ IF ready = {} THEN FinalizeAndReturn ELSE Return(status) /\ UNCHANGED endings
  /\ UNCHANGED <<environment, simulation>>

\* Mutant of LeaveLoop: a breakpoint continues the loop instead of ending it.
LeaveLoopSpins ==
  /\ call = "run" /\ AtHead
  /\ LoopEnds \/ ready = {}
  /\ IF ~LoopEnds THEN FinalizeAndReturn ELSE Return(status) /\ UNCHANGED endings
  /\ UNCHANGED <<environment, simulation>>

(***************************************************************************)
(* run() leaves its loop: stopped by a slot, by its budget, by an empty    *)
(* ready queue or by a breakpoint.                                         *)
(***************************************************************************)
LeaveLoop ==
  /\ call = "run" /\ AtHead
  /\ \/ LoopEnds \/ AtBreakpoint
     \/ ready = {}
  /\ IF ~LoopEnds /\ ready = {}
     THEN FinalizeAndReturn
     ELSE Return(status) /\ UNCHANGED endings
  /\ UNCHANGED <<environment, simulation>>

(***************************************************************************)
(* step() finds nothing to execute (a slot has reset the simulation, or is *)
(* the one that steps while the last ready component is being executed).   *)
(***************************************************************************)
StepFindsNothing ==
  /\ call = "step" /\ AtHead /\ ready = {}
  /\ FinalizeAndReturn
  /\ UNCHANGED <<environment, simulation>>

(***************************************************************************)
(* The last line of start(): a graph without a component to begin with is  *)
(* concluded at once.                                                      *)
(***************************************************************************)
FinishStart ==
  /\ phase = "started"
  /\ endings' = endings \o FinalEvents(status, ready, executed, snap)
  /\ status' = Finalized(status, ready, executed, snap)
  /\ Leave
  /\ UNCHANGED <<environment, simulation>>

Dispatching ==
  /\ AtHead /\ call # "none" /\ ready # {}
  /\ ~LoopEnds /\ ~AtBreakpoint

(***************************************************************************)
(* executeOneStep up to the provider's return: the component has left the  *)
(* ready queue, whether the provider succeeds or fails.                    *)
(***************************************************************************)
ExecuteComponent ==
  /\ Dispatching
  /\ ready' = ready \ {First(ready)}
  /\ current' = First(ready)
  /\ outgoing' = EdgesOutOf(snap, First(ready))
  /\ phase' = "executed"
  /\ UNCHANGED <<environment, snap, pending, tokens, executed, tick, order,
                 outcomeVars, call, left, below>>

ProviderFails ==
  /\ Dispatching
  /\ ready' = ready \ {First(ready)}
  /\ endings' = Append(endings, "error")
  /\ Return("error")
  /\ UNCHANGED <<environment, snap, pending, tokens, executed, tick, order>>

\* Mutant of RecordExecution: parallel connections count once.
RecordExecutionOncePerTarget ==
  LET targets     == {outgoing[e] : e \in DOMAIN outgoing}
      reachesZero == {n \in targets : pending[n] = 1}
  IN  /\ phase = "executed"
      /\ executed' = executed \cup {current}
      /\ order' = Append(order, current)
      /\ pending' = [n \in Node |-> IF n \in targets THEN pending[n] - 1
                                    ELSE pending[n]]
      /\ ready' = ready \cup (reachesZero \ executed')
      /\ tick' = tick + 1
      /\ phase' = "ticked"
      /\ UNCHANGED <<environment, snap, tokens, outcomeVars, call, current, outgoing,
                     left, below>>

\* Mutant of RecordExecution: the first dependency met is enough.
RecordExecutionAnyDependency ==
  LET degree(n) == Cardinality({e \in DOMAIN outgoing : outgoing[e] = n})
  IN  /\ phase = "executed"
      /\ executed' = executed \cup {current}
      /\ order' = Append(order, current)
      /\ pending' = [n \in Node |-> pending[n] - degree(n)]
      /\ ready' = ready \cup ({n \in Node : degree(n) > 0} \ executed')
      /\ tick' = tick + 1
      /\ phase' = "ticked"
      /\ UNCHANGED <<environment, snap, tokens, outcomeVars, call, current, outgoing,
                     left, below>>

\* Mutant of RecordExecution: only the targets that become ready get a token.
RecordExecutionLateTokens ==
  LET degree(n)   == Cardinality({e \in DOMAIN outgoing : outgoing[e] = n})
      reachesZero == {n \in Node : pending[n] > 0 /\ pending[n] <= degree(n)}
  IN  /\ phase = "executed"
      /\ executed' = executed \cup {current}
      /\ order' = Append(order, current)
      /\ tokens' = [e \in Edge |->
                     IF e \in DOMAIN outgoing /\ outgoing[e] \in reachesZero
                     THEN current ELSE tokens[e]]
      /\ pending' = [n \in Node |-> pending[n] - degree(n)]
      /\ ready' = ready \cup (reachesZero \ executed')
      /\ tick' = tick + 1
      /\ phase' = "ticked"
      /\ UNCHANGED <<environment, snap, outcomeVars, call, current, outgoing,
                     left, below>>

(***************************************************************************)
(* The rest of executeOneStep: the component counts as executed, its       *)
(* output goes to its outgoing connections, and every target whose last    *)
(* dependency this was joins the ready queue.                              *)
(***************************************************************************)
RecordExecution ==
  LET degree(n)   == Cardinality({e \in DOMAIN outgoing : outgoing[e] = n})
      reachesZero == {n \in Node : pending[n] > 0 /\ pending[n] <= degree(n)}
  IN  /\ phase = "executed"
      /\ executed' = executed \cup {current}
      /\ order' = Append(order, current)
      /\ tokens' = IF transport
                   THEN [e \in Edge |-> IF e \in DOMAIN outgoing THEN current
                                        ELSE tokens[e]]
                   ELSE tokens
      /\ pending' = [n \in Node |-> pending[n] - degree(n)]
      /\ ready' = ready \cup (reachesZero \ executed')
      /\ tick' = tick + 1
      /\ phase' = "ticked"
      /\ UNCHANGED <<environment, snap, outcomeVars, call, current, outgoing,
                     left, below>>

\* Mutant of FinishStep: the budget of an unbounded run is counted down too.
FinishStepCountsDown ==
  /\ phase = "ticked"
  /\ \/ call = "step" /\ FinalizeAndReturn
     \/ /\ call = "run"
        /\ endings' = endings \o FinalEvents(status, ready, executed, snap)
        /\ status' = Finalized(status, ready, executed, snap)
        /\ phase' = "loop" /\ left' = left - 1
        /\ current' = NoComponent /\ outgoing' = <<>>
        /\ UNCHANGED <<call, below>>
  /\ UNCHANGED <<environment, simulation>>

\* Mutant of FinishStep: an unbounded run ends after its first component.
FinishStepUsesUpBudget ==
  /\ phase = "ticked"
  /\ \/ call = "step" /\ FinalizeAndReturn
     \/ /\ call = "run"
        /\ endings' = endings \o FinalEvents(status, ready, executed, snap)
        /\ status' = Finalized(status, ready, executed, snap)
        /\ phase' = "loop" /\ left' = IF left > 0 THEN left - 1 ELSE 0
        /\ current' = NoComponent /\ outgoing' = <<>>
        /\ UNCHANGED <<call, below>>
  /\ UNCHANGED <<environment, simulation>>

(***************************************************************************)
(* The last line of executeOneStep, and the return to step() or run().     *)
(***************************************************************************)
FinishStep ==
  /\ phase = "ticked"
  /\ \/ call = "step" /\ FinalizeAndReturn
     \/ /\ call = "run"
        /\ endings' = endings \o FinalEvents(status, ready, executed, snap)
        /\ status' = Finalized(status, ready, executed, snap)
        /\ phase' = "loop"
        /\ left' = IF left > 0 THEN left - 1 ELSE left
        /\ current' = NoComponent /\ outgoing' = <<>>
        /\ UNCHANGED <<call, below>>
  /\ UNCHANGED <<environment, simulation>>

(***************************************************************************)
(* What the caller and its slots may ask for, what may change around the   *)
(* sandbox, and the steps by which a call in progress advances.            *)
(***************************************************************************)
Request ==
  \/ Start
  \/ Reset
  \/ Pause
  \/ Step
  \/ \E maxSteps \in -1 .. MaxBudget : Run(maxSteps)
  \/ \E n \in BreakpointIds, enabled \in BOOLEAN : SetBreakpoint(n, enabled)
  \/ ClearBreakpoints

Surroundings ==
  \/ \E g \in Graphs \cup {NoGraph} : SetGraph(g)
  \/ \E g \in Graphs \cup {NoGraph} : EditGraph(g)
  \/ \E b \in BOOLEAN : SetTokenTransport(b)

Advance ==
  \/ FinishStart
  \/ StepFindsNothing
  \/ LeaveLoop
  \/ ExecuteComponent
  \/ ProviderFails
  \/ RecordExecution
  \/ FinishStep

Next == Request \/ (SurroundingsChange /\ Surroundings) \/ Advance

Spec == Init /\ [][Next]_vars

(***************************************************************************)
(* start(), step() and run() are ordinary calls: the thread that makes one *)
(* executes it to its end.  Nobody is obliged to call anything.            *)
(***************************************************************************)
FairSpec == Spec /\ WF_vars(Advance)

-----------------------------------------------------------------------------
(* Properties. *)

Recording == IF phase = "executed" THEN {current} ELSE {}

(***************************************************************************)
(* The number the code counts down for each component is the number of its *)
(* connections whose source has not been executed yet.                     *)
(***************************************************************************)
PendingCountsUnmet ==
  \A n \in snap.nodes :
    pending[n] =
      Cardinality({e \in EdgesInto(snap, n) : snap.source[e] \notin executed})

(***************************************************************************)
(* The incrementally kept ready queue is, at every moment, exactly the set *)
(* of components whose dependencies have all been executed and that have   *)
(* not been executed themselves (but for the one a failing provider lost). *)
(***************************************************************************)
Unmet(n) == \E e \in EdgesInto(snap, n) : snap.source[e] \notin executed

ReadyQueueExact ==
  /\ ready \cap (executed \cup Recording) = {}
  /\ ready \cup Recording \subseteq {n \in snap.nodes : ~Unmet(n)}
  /\ status # "error" =>
       {n \in snap.nodes \ executed : ~Unmet(n)} = ready \cup Recording

(***************************************************************************)
(* In the timeline no component is executed twice, or before a component   *)
(* it is connected from.                                                   *)
(***************************************************************************)
RespectsDependencies ==
  \A i \in DOMAIN order :
    /\ \A j \in DOMAIN order : order[i] = order[j] => i = j
    /\ \A e \in EdgesInto(snap, order[i]) :
         \E j \in 1 .. i - 1 : order[j] = snap.source[e]

(***************************************************************************)
(* Between calls a simulation that is paused can always go on, and one     *)
(* that cannot has been concluded with exactly one event: no sequence of   *)
(* start, step, run, pause, reset and breakpoint calls leaves it hanging   *)
(* or concludes it twice, as long as no slot starts, steps or runs it      *)
(* while a call is in progress.  (One that does may conclude it and the    *)
(* call it interrupted concludes it again: finalizeIfNoReadyComponents     *)
(* does not ask.)                                                          *)
(***************************************************************************)
ConcludedExactlyOnce ==
  nested = 0 =>
  /\ Len(endings) <= 1
  /\ phase = "rest" =>
       /\ status # "running"
       /\ status = "paused" => ready # {} /\ endings = <<>>
       /\ status \in {"completed", "error"} => endings # <<>>

(***************************************************************************)
(* simulationCompleted means that everything was executed;                 *)
(* simulationBlocked that every component left waits for another one left, *)
(* so that (the graph being finite) a cycle holds them up; no slot having  *)
(* stepped or run the simulation while a component was being executed.     *)
(***************************************************************************)
VerdictIsTrue ==
  nested = 0 =>
  LET remaining == snap.nodes \ executed
  IN  /\ endings = <<"completed">> => remaining = {}
      /\ endings = <<"blocked">> =>
           /\ remaining # {}
           /\ \A n \in remaining :
                \E e \in EdgesInto(snap, n) : snap.source[e] \in remaining

(***************************************************************************)
(* With token transport on throughout, a component about to be executed    *)
(* finds on each of its connections the output of that connection's        *)
(* source, unless slots started or stepped the simulation on the way.      *)
(***************************************************************************)
TokensHaveArrived ==
  steady /\ nested = 0 =>
    \A n \in ready : \A e \in EdgesInto(snap, n) : tokens[e] = snap.source[e]

(***************************************************************************)
(* README, "Determinism and debugging": same graph, same order, whatever   *)
(* mixture of step, run, pause and breakpoints drives the simulation, and  *)
(* whatever happens to the live graph meanwhile.                           *)
(***************************************************************************)
OutcomeNow ==
  CASE status = "error" -> "error"
    [] status = "idle" -> "none"
    [] status \notin {"error", "idle"} /\ ready \cup Recording # {} -> "running"
    [] OTHER -> IF executed = snap.nodes THEN "completed" ELSE "blocked"

TR == INSTANCE TopologicalRun WITH outcome <- OutcomeNow

ImplementsTopologicalRun == TR!Spec

(***************************************************************************)
(* Every start(), step() and run() returns, even when slots move the       *)
(* breakpoints, pause, reset or restart the simulation under it, or call   *)
(* step() or run() themselves.                                             *)
(***************************************************************************)
EveryCallReturns == call # "none" ~> call = "none"

(***************************************************************************)
(* An unbounded run() brings the simulation to an end, on every graph,     *)
(* unless a slot pauses or resets it or there is a breakpoint to stop at.  *)
(***************************************************************************)
Interrupted ==
  \/ breakpoints # {}
  \/ status = "idle"
  \/ call = "run" /\ status = "paused"

UnboundedRunConcludes ==
  call = "run" /\ left = -1 ~> status \in {"completed", "error"} \/ Interrupted
=============================================================================
