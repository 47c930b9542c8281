SPECIFICATION Spec
CONSTANTS
  left = left
  right = right
  subscription = subscription
  mcp = mcp
  Job <- MCJobs
  Entry <- MCOneEntry
  MaxVersion = 4
INVARIANT LoginLastsAsLongAsTheJob
INVARIANT LiveTokenIsKept
PROPERTY InstallsNeverDowngrade
