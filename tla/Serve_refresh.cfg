SPECIFICATION FairSpec
CONSTANTS
  HomeDirs = {"home", "agent", "ci"}
  NoBuild = NoBuild
  OwnHome = "home"
  Flags <- PlainFlags
  Configs <- TeamConfig
  Worlds <- ThreeWorlds
  Refresh = 2
  WaitDelay = 1
  Grace = 1
  MaxTime = 11
  MaxCalls = 1
CHECK_DEADLOCK FALSE
INVARIANTS
  TypeOK
  FreshWhileHealthy
  ChangesPickedUp
  ScrapeCountsItsReadings
PROPERTIES
  SnapshotKept
  SignalStops
