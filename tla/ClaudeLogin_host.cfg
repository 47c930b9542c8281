SPECIFICATION Spec
CONSTANTS
  left = left
  right = right
  subscription = subscription
  mcp = mcp
  Job <- MCOneJob
  Entry <- MCTwoEntries
  MaxVersion = 2
PROPERTY HostLoginsSurvive
