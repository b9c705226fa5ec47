\* Checked and unchecked commands, undone and redone in any order.
CONSTANTS
  Component = {o1, o2}
  Connection = {c1, c2}
  Id = {a, b}
  ConnectionId = {e}
  Place = {1, 3}
  None = None
  Legal <- InsideCanvas
  Callers = {"direct"}
  MaxCommands = 3

SYMMETRY Symmetry

SPECIFICATION Spec

INVARIANTS
  TypeOK
  HistoryIsExact
  OneOwner
  CheckedStaysLegal
