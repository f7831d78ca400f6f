SPECIFICATION MCSpec
CONSTANTS
  a = a
  b = b
  c = c
  Plan <- MCPlan
  Watch <- MCWatch
  Account <- MCAccount
  SiteOf <- MCSiteOf
  Site = "retail"
  Client = client
  LiveTTL = 1
  GuildTTL = 2
  StaticTTL = 3
  FinishedTTL = 3
  CacheTTL = {0, 1, 4}
  Quiet = 2
  TokenLife = 2
  MaxMoves = 2
  MaxTroubles = 1
  MaxCommands = 2
SYMMETRY Alike
INVARIANTS
  NoForeignReplay
  GapsAreTold
  NeverFarBehind
CHECK_DEADLOCK FALSE
