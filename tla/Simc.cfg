SPECIFICATION MCSpec
CONSTANTS
  LastRevision = 1
  Pair <- MCPair
  Entry <- MCEntry
  Tree <- MCTree
  HeroTree <- MCHeroTree
  Choice <- MCChoice
  MaxRank <- MCMaxRank
  Tiered <- MCTiered
  Keystone = {4}
  Builds <- MCBuilds
  ListName = {"default"}
  Slash = "/"
  Piece = {"cast"}
  LineTexts <- MCTexts
  MaxLines = 4
  Talent = {"hand", "hand_4"}
  Base <- MCBase
  NoTalent = "none"
  Rank = {1, 2}
  Targets = {1}
  Number <- MCNumber
  MaxOperands = 2
  MaxValue = 2
  List <- MCList
  StartList = "default"
  Helpers = {"helper"}
  APLs <- MCAPLs
  TraceDepth = 6
  FocusDepth = 8
  MaxVariants = 3
INVARIANTS
  BuildsHold
  PacketsHold
  StaleHolds
  VerdictsHold
  AplHolds
PROPERTY TheirsStays
CHECK_DEADLOCK FALSE
