SPECIFICATION JobSpec
CONSTANTS
  login = login
  gh = gh
  t1 = t1
  t2 = t2
  message_md = message_md
  report = report
  Cred <- MCCred
  Thread <- MCThread
  PreSteps = 1
  PostSteps = 1
  Outputs <- MCOutputs
  MessageOutput = message_md
INVARIANT JobTypeOK
INVARIANT NothingOutlivesTheCall
INVARIANT EvidenceIsReal
INVARIANT PrivateTmpIsTrue
PROPERTY ImplementsScheduler
