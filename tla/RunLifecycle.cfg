CONSTANTS
  r1 = r1
  r2 = r2
  i1 = i1
  i2 = i2
  Run <- MCRun
  Id <- MCId
  IdAttempts = 2
  MaxVersion = 2
  Valid = {1}
SPECIFICATION Spec
SYMMETRY MCSymmetry
INVARIANT OneRunPerDir
INVARIANT RecordIsComplete
INVARIANT ExitTellsTheDir
