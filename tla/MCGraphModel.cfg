\* Every interleaving of adds, removals, renames, clears and batches.
CONSTANTS
  Component = {c1, c2}
  Connection = {e1, e2}
  Id = {a, b}
  NullId = NullId
  NoObject = NoObject
  Untracked = Untracked

SPECIFICATION Spec

INVARIANTS
  TypeOK
  BothIndexesIntact
  ViewsFreshOutsideBatch
