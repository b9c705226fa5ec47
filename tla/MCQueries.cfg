\* Every service that answers from its input alone, on bounded inputs.
CONSTANTS
  Missing = Missing
  Mistyped = Mistyped
  Spelled <- MCSpelled
  Reads <- MCReads
  ToLower <- MCToLower
  Identifiers = {"flow"}
  Traversals <- MCTraversals
  PathQueries <- MCPathQueries
  Validations <- MCValidations
  RuleQueries <- MCRuleQueries
  RouteQueries <- MCRouteQueries
  GridQueries <- MCGridQueries
  Documents <- MCDocuments
  Lists <- MCLists
  Commands <- MCCommands
  Definitions <- MCDefinitions
  Executions <- MCExecutions
SPECIFICATION Spec
INVARIANTS
  SearchesFindWhatIsReachable
  OrderAndComponentsAgree
  PathsAreShortest
  VerdictMeansWorkflow
  RulesDecideByLastEntry
  RoutesFoundAndApart
  WrittenIsReadBack
  RecursionIsRefused
  CompositesComputeTheirFormula
