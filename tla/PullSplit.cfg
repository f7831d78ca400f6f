SPECIFICATION Spec
CONSTANTS
  Window <- MCWindow
  Guild = {g, h}
  NoGuild = NoGuild
  Roster = {r, s}
  Unknown = Unknown
  Tight = 1
  Loose = 2
  MaxFights = 4
INVARIANTS
  SamePlayersOnce
CHECK_DEADLOCK FALSE
