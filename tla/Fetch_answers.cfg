SPECIFICATION FetchSpec
CONSTANTS
  a1 = a1
  Accounts = {a1}
  NoAccount = NoAccount
  Absent = Absent
  Codes <- SomeCodes
  Seconds = {0, 1, 120}
  Payloads <- AllPayloads
CHECK_DEADLOCK FALSE
INVARIANTS
  FetchTypeOK
  RefusalsFinal
  AnswersExpected
  AccountCapsEnforced
  ScopedNeverDecides
  UnrecognizedNeverHealthy
  KiroLimitedWhenEmpty
  ExhaustedWhenBroke
  TightestDecides
