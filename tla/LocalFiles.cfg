SPECIFICATION MCSpec
CONSTANTS
  menuUrl = menuUrl
  formerUrl = formerUrl
  laterUrl = laterUrl
  NoUrl = NoUrl
  URL <- MCUrl
  Menu = menuUrl
  Moves <- MCMoves
  Refresher = {p1}
  LastDay = 2
  Bundled <- MCBundled
  Reader = {r1}
  Writer = {w1, w2}
  Clearer = {c1}
  Ttl = {0, 1}
  LastTime = 1
  MaxWrites = 2
  v1 = v1
  v2 = v2
  NoRevision = NoRevision
  Stream <- MCStream
  LastMoment = 2
  MaxPages = 2
  EventBounds = {1, 3}
  MaxExports = 3
  guideA = guideA
  guideB = guideB
  tab1 = tab1
  tab2 = tab2
  Guide = {guideA, guideB}
  Article = {}
  Lists = 2
  Entities = 1
  Process = {tab1, tab2}
  MaxAge = 1
  EntityTTL = 1
  LastHour = 3
  MaxCommands = 3
INVARIANTS
  BundlesHold
  HitsHold
  ExportsHold
PROPERTIES
  NoPageLost
  AgesHold
SYMMETRY Alike
CHECK_DEADLOCK FALSE
