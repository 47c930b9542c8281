SPECIFICATION Spec
CONSTANTS
  V = V
  Kata <- MCKata
  Flags <- MCFlags
  Var <- MCVar
  NameOrder <- MCNameOrder
INVARIANT EveryLookupFinds
INVARIANT AmendmentsStayTheirOwn
INVARIANT StepsRunAsWritten
INVARIANT RefusedWithReason
