\* A few graphs that are edited, replaced and deleted between calls, with the
\* token flag flipped, and slots that make any call during the calls.
CONSTANTS
  Node <- Ids
  Edge <- Connections
  Graphs <- FewGraphs
  NoGraph = NoGraph
  NoToken = NoToken
  NoComponent = NoComponent
  MaxBudget = 2
  BreakpointIds = {2}
  HandlerCalls = {"pause", "breakpoint", "reset", "start", "step", "run"}
  MaxNested = 1
  SurroundingsChange = TRUE
SPECIFICATION FairSpec
INVARIANTS
  ConcludedExactlyOnce
  TokensHaveArrived
PROPERTIES
  EveryCallReturns
  UnboundedRunConcludes
