SPECIFICATION PacketSpec
CONSTANTS
  frost = frost
  frostMage = frostMage
  frostDk = frostDk
  fury = fury
  mage = mage
  dk = dk
  warrior = warrior
  blink = blink
  orb = orb
  infusion = infusion
  None = None
  NoCopy = NoCopy
  External = {infusion}
  Wanted <- MCWanted
  LorrgsFights <- MCLorrgsFights
  WclFights <- MCWclFights
  Rosters <- MCRosters
  Transitions <- MCTransitions
  Catalogs <- MCCatalogs
  CastPages <- MCCastPages
  Rankings <- MCRankings
  Spelling <- MCSpelling
  ClassOf <- MCClassOf
INVARIANTS
  UnappliedIsEmpty
CHECK_DEADLOCK FALSE
