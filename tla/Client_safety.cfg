SPECIFICATION Spec
CONSTANTS
  NoAccount = NoAccount
  NoCaller = NoCaller
  NoHome = NoHome
  h1 = h1
  h2 = h2
  a1 = a1
  a2 = a2
  c1 = c1
  c2 = c2
  c3 = c3
  Accounts = {a1}
  Homes = {h1}
  Callers = {c1, c2, c3}
  FirstLogin <- OneAccount
  NextLogins <- NobodyLogsIn
  Answers <- AllAnswers
  Unasked <- NoBinary
  MinInterval <- Interval3
  MaxTime = 5
  BaseBackoff = 1
  MaxBackoff = 4
  Jitter = 0
  SlackDivisor = 2
  SlackCap = 1
SYMMETRY Symmetric
INVARIANTS
  TypeOK
  SingleFlight
  NoLostWaiter
  EveryRequestCounted
  NeverAheadOfCache
  RefusalsAsIs
PROPERTIES
  PacedRequests
  RetryAtKept
  ImplementsQuotaGate
