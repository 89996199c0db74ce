SPECIFICATION Spec
CONSTANTS
  a1 = a1
  Accounts = {a1}
  NoAccount = NoAccount
  Codes <- SomeCodes
  Seconds = {0, 1, 120}
CHECK_DEADLOCK FALSE
INVARIANTS
  RetryAfterWins
