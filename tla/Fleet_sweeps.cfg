SPECIFICATION FleetSpec
CONSTANTS
  NoAccount = NoAccount
  NoCaller = NoCaller
  NoHome = NoHome
  h1 = h1
  h2 = h2
  a1 = a1
  a2 = a2
  c1 = c1
  c2 = c2
  c3 = c3
  Accounts = {a1, a2}
  Homes = {h1, h2}
  Callers = {c1, c2, c3}
  FirstLogin <- OneAccount
  NextLogins <- OneMoves
  Answers <- OnlyGood
  Unasked <- NoBinary
  MinInterval <- Interval3
  MaxTime = 2
  BaseBackoff = 2
  MaxBackoff = 2
  Jitter = 0
  SlackDivisor = 2
  SlackCap = 1
  g1 = g1
  g2 = g2
  Sweeps = {g1}
  Sources <- ThreeSources
  HomeOf <- OneEach
  ProviderOf <- OneProvider
  Rank <- Ranks
  Slots = 2
INVARIANTS
  FleetTypeOK
  OneRequestPerAccount
  MergedByAccount
  OneStatePerAccount
