SPECIFICATION Spec
CONSTANTS
  fetch = fetch
  left = left
  right = right
  join = join
  out = out
  Job <- MCJob
  Needs <- MCNeeds
  PreSteps <- MCPreSteps
  PostSteps <- MCPostSteps
  Agent <- MCAgent
  Output <- MCOutput
  Outputs <- MCOutputs
INVARIANT TypeOK
INVARIANT UpstreamStands
INVARIANT RecordsTellTheWalk
INVARIANT RecordIsHonest
INVARIANT PendingHasACause
PROPERTY SettledIsFinal
PROPERTY CancelledCannotPass
PROPERTY ImplementsKataRun
PROPERTY Returns
PROPERTY ReleasedJobsStart
