SPECIFICATION MCSamplesSpec
CONSTANTS
  k1 = k1
  k2 = k2
  k3 = k3
  k4 = k4
  g1 = g1
  g2 = g2
  r1 = r1
  r2 = r2
  Window <- MCWindow
  Guild = {g1, g2}
  NoGuild = NoGuild
  Roster = {r1, r2}
  Unknown = Unknown
  Tight = 1
  Loose = 2
  MaxFights = 4
  Report <- MCReport
  Listed <- MCListed
  KillsOf <- MCKillsOf
  PlaysSpec <- MCPlaysSpec
  PageSize = 1
  Pages = 3
  MaxChanges = 2
  s1 = s1
  s2 = s2
  rd = rd
  a1 = a1
  a2 = a2
  a3 = a3
  a4 = a4
  p1 = p1
  p2 = p2
  p3 = p3
  Season = {s1, s2}
  Raid = rd
  Entry <- MCEntry
  Start <- MCStart
  LevelOf <- MCLevelOf
  PlayersOf <- MCPlayersOf
  Asks <- MCAsks
  RunsPerPage = 1
  MaxPages = 3
  RunsTTL = 2
  PlayerLimit = 1
  LastMoment = 2
  MaxSamples = 2
  None = None
  Unnamed = Unnamed
  Nothing = Nothing
  us = us
  na = na
  ofGuild = ofGuild
  tarren = tarren
  mill = mill
  cotti = cotti
  Regions = {us}
  RegionOf <- MCRegionOf
  HintOf <- MCHintOf
  Entity <- MCEntity
  FirstThere <- MCFirstThere
  Lookups <- MCLookups
  MaxRealmTokens = 3
  LastEvent = 3
  fury = fury
  war = war
  wars = wars
  two = two
  aGuide = aGuide
  aQuest = aQuest
  anItem = anItem
  links = links
  comment = comment
  dnt = dnt
  TypesOf <- MCTypesOf
  IntentOf <- MCIntentOf
  PluralOf <- MCPluralOf
  Numbers = {two}
  Dnt = dnt
  TypeWord <- MCTypeWord
  Parsed = {"guide", "quest", "item", "companion"}
  Opened = {"guide", "quest", "item"}
  StaleAfter = 1
  Replies <- MCReplies
  Searches <- MCSearches
  NoPage = NoPage
  WikiPage <- MCWikiPage
  Leads <- MCLeads
  Finds <- MCFinds
  FamilyHints <- MCFamilyHints
  Intents <- MCIntents
  Base <- MCBase
  Spaces <- MCSpaces
  Allowed <- MCAllowed
  Mashed <- MCMashed
  Wow <- MCWow
  Wikis <- MCWikis
  RowLimit = 2
  SpecLists <- MCSpecLists
  BossLists <- MCBossLists
  Stop = {"the", "of", "top", "mythic", "heroic", "normal", "lfr"}
  Filler = {"the", "of"}
  Ranks = {"mythic", "heroic"}
  Unranked = {"normal", "lfr"}
  OneClass = {"shadow"}
  Questions <- MCQuestions
  NoRow = NoRow
  Sitemaps <- MCSitemaps
  Menus <- MCMenus
  SiteIndexes <- MCSiteIndexes
  FamilyOf <- MCFamilyOf
  FamilyRules <- MCFamilyRules
  ScopeHints <- MCScopeHints
  Classes <- MCClasses
  OneClassSpecs = {"shadow"}
  SingularOf <- MCSingularOf
  Begins <- MCBegins
  Alphabet <- MCAlphabet
  IcyQueries <- MCIcyQueries
  TodayIs = 22
  SitemapStaleAfter = 5
  PageStaleAfter = 4
INVARIANTS
  SoundFolds
  SamplesHold
  BoardsHold
  LookupHolds
  SuggestionsHold
  WikiHolds
  LorrgsHolds
  IcyHolds
CHECK_DEADLOCK FALSE
