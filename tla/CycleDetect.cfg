SPECIFICATION Spec
CONSTANTS
  a = a
  b = b
  c = c
  Root = Root
  Job <- MCJob
  Order <- MCOrder
  NeedLists <- MCNeedLists
INVARIANT TypeOK
INVARIANT VerdictIsRight
PROPERTY Returns
