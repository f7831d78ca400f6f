SPECIFICATION FairSpec
CONSTANTS
  s = s
  a = a
  b = b
  c = c
  d = d
  NoUrl = NoUrl
  URL <- MCUrl
  SeedLists <- MCSeedLists
  HeldPages <- MCHeld
  RedirectTargets <- MCTargets
  FollowSets <- MCFollow
  MaxRequests = 4
  UnavailableAfter = 3
INVARIANTS
  Courteous
  ResultHolds
PROPERTIES
  Terminates
  ImplementsPromise
CHECK_DEADLOCK FALSE
