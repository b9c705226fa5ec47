\* Tidy edits: every query reads the graph as it is.
CONSTANTS
  Id = {a, b}
  Connection = {c1, c2}
  ConnectionId = {e, f}
  Untracked = Untracked
  Callers = {}

SYMMETRY Symmetry

SPECIFICATION Spec

INVARIANTS
  TypeOK
  CacheIsCurrent
