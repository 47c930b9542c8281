SPECIFICATION StreamSpec
CONSTANTS
  tool = tool
  a = a
  b = b
  Tool <- MCTool
  Text <- MCText
  MaxLines = 4
INVARIANT StreamTypeOK
INVARIANT MessageIsFinal
INVARIANT ReportsDependOnTheLines
