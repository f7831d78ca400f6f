SPECIFICATION MCGuidesSpec
CONSTANTS
  wh = wh
  method = method
  iv = iv
  g1 = g1
  g2 = g2
  m1 = m1
  c1 = c1
  c2 = c2
  c3 = c3
  Running = {c1, c2, c3}
  Nothing = Nothing
  Torn = Torn
  Serving = {wh, method}
  HitScores = {60, 90}
  MinTop = 50
  MinMargin = 25
  MinSingle = 70
  Folder = {1, 2, 3, 4, 5, 6}
  MaxAge = 0
  LastHour = 1
  Orders <- MCOrders
  Guides <- MCGuides
  Contents <- MCSameBuilds
  Reference <- MCReference
  Outages <- MCOutages
  Older <- MCOlder
INVARIANTS
  LimitKeepsProviders
CHECK_DEADLOCK FALSE
