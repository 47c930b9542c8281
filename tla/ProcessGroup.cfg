SPECIFICATION Spec
CONSTANTS
  leader = leader
  child = child
  grandchild = grandchild
  Proc <- MCProc
  Leader <- leader
  MaxChunks = 2
  PipeCap = 1
INVARIANT TypeOK
INVARIANT GroupIsDead
INVARIANT StreamIsAtRest
INVARIANT StreamIsWhole
INVARIANT CodeIsTheLeaders
PROPERTY Returns
