SPECIFICATION FairSpec
CONSTANTS
  Pools <- MCPools
  Score = {14, 17, 20}
  Floor = 1
  MaxParked = 1
  NoSample = NoSample
  NoTarget = NoTarget
  NoScore = NoScore
  NoHealth = NoHealth
  NoAddr = NoAddr
INVARIANTS
  SettledRanking
  MemoryBounded
PROPERTIES
  NoSwapOnNoise
  IncumbentKept
  SpaceIsExplored
