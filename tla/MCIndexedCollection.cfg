\* Every interleaving of adds, removals, renames, clears and batches.
CONSTANTS
  Object = {o1, o2, o3}
  Id = {a, b, c}
  NoObject = NoObject
  NullId = NullId
  Untracked = Untracked

SPECIFICATION ISpec

INVARIANTS
  ITypeOK
  IndexIntegrity
  NoRepeats

PROPERTY ImplementsIdCollection

