SPECIFICATION MCSpec
CONSTANTS
  wiki = wiki
  wow = wow
  logs = logs
  Provider = {wiki, wow, logs}
  HintOnly = {logs}
  InRedis = {wow, logs}
  Ages <- MCAges
  NoAge = NoAge
  Failures <- MCFailures
  MaxOps <- MCMaxOps
  wowhead = wowhead
  raiderio = raiderio
  Lister = {wowhead, raiderio, wiki}
  NameOrder <- MCNameOrder
  Entity = {wowhead}
  Profile = {raiderio}
  Scores = {1, 2}
  MaxRows = 3
  Limits = {1, 4}
  icy = icy
  wcl = wcl
  simc = simc
  Source <- MCSource
  Game = {"retail", "classic", "anniversary"}
  AnyGame = AnyGame
  Mode <- MCMode
  Covers <- MCCovers
  Unverified <- MCUnverified
  Home <- MCHome
  Follows = {wowhead}
  Searching = {wowhead, icy, raiderio}
  ReportOnly = {wcl}
  Kinds <- MCKinds
  Native = {wowhead, raiderio}
  Alphabet <- MCAlphabet
  Found <- MCFound
  Floor = 40
  UncoveredFloor = 100
  frost = frost
  frostMage = frostMage
  frostDk = frostDk
  fury = fury
  mage = mage
  dk = dk
  warrior = warrior
  blink = blink
  orb = orb
  infusion = infusion
  None = None
  NoCopy = NoCopy
  External = {infusion}
  Wanted <- MCWanted
  LorrgsFights <- MCLorrgsFights
  WclFights <- MCWclFights
  Rosters <- MCRosters
  Transitions <- MCTransitions
  Catalogs <- MCCatalogs
  CastPages <- MCCastPages
  Rankings <- MCRankings
  Spelling <- MCSpelling
  ClassOf <- MCClassOf
  wh = wh
  method = method
  iv = iv
  g1 = g1
  g2 = g2
  m1 = m1
  c1 = c1
  c2 = c2
  c3 = c3
  Running = {c1, c2, c3}
  Nothing = Nothing
  Torn = Torn
  Serving = {wh, method}
  HitScores = {60, 90}
  MinTop = 50
  MinMargin = 25
  MinSingle = 70
  Folder = {1, 2, 3, 4, 5, 6}
  MaxAge = 1
  LastHour = 2
  Orders <- MCOrders
  Guides <- MCGuides
  Contents <- MCContents
  Reference <- MCReference
  Outages <- MCOutages
  Older <- MCOlder
INVARIANTS
  CacheClaimsHonest
  OneWaitEach
  OutageIsNotEmptyPage
  PageHolds
  ResolveHolds
  StaysInGame
  PacketHolds
  GuidesHold
CHECK_DEADLOCK FALSE
