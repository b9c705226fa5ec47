\* Whether a roll-back restores the graph the request found.
CONSTANTS
  Component = {o1}
  Connection = {c1}
  Id = {a, b}
  ConnectionId = {e}
  Place = {1, 2, 3}
  None = None
  Legal <- InsideCanvas
  Callers = {}
  MaxCommands = 3

SPECIFICATION Spec

PROPERTY RollBackRestores
