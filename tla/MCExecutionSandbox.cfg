\* Every small graph, driven by any mixture of calls.
CONSTANTS
  Node <- Ids
  Edge <- Connections
  Graphs <- AllGraphs
  NoGraph = NoGraph
  NoToken = NoToken
  NoComponent = NoComponent
  MaxBudget = 1
  BreakpointIds = {2}
  HandlerCalls = {"pause"}
  MaxNested = 0
  SurroundingsChange = FALSE

SPECIFICATION Spec

INVARIANTS
  TypeOK
  PendingCountsUnmet
  ReadyQueueExact
  RespectsDependencies
  VerdictIsTrue

PROPERTY ImplementsTopologicalRun
