SPECIFICATION PageSpec
CONSTANTS
  wowhead = wowhead
  raiderio = raiderio
  wiki = wiki
  Lister = {wowhead, raiderio, wiki}
  NameOrder <- MCNameOrder
  Entity = {wowhead}
  Profile = {raiderio}
  Scores = {1, 2}
  MaxRows = 3
  Limits = {1, 3, 4}
INVARIANT
  OffIntentMinority
CHECK_DEADLOCK FALSE
