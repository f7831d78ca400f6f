SPECIFICATION IndexSpec
CONSTANTS
  menuUrl = menuUrl
  formerUrl = formerUrl
  laterUrl = laterUrl
  NoUrl = NoUrl
  URL <- MCTwoUrl
  Menu = menuUrl
  Moves <- MCNoMoves
  Refresher = {p1, p2}
  LastDay = 1
  Bundled <- MCTwoBundled
PROPERTIES
  RowsKept
CHECK_DEADLOCK FALSE
