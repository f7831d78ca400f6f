SPECIFICATION MCSpec
CONSTANTS
  t1 = t1
  t2 = t2
  t3 = t3
  h1 = h1
  h2 = h2
  Caller = {t1, t2, t3}
  Host = {h1, h2}
  HostOf <- MCHostOf
  Interval = 2
  Tries = 2
  RetryAfters = {1, 4}
  RetryAfterCap = 2
  BackoffCap = 3
  MaxLate = 1
  one = one
  two = two
  Process = {one, two}
  Key = {"retail", "classic"}
  KeyOf <- MCKeyOf
  SizeOf <- MCSizeOf
  Lives = {6}
  Skew = 4
  Transit = 1
  FetchTime = 1
  Pause = 1
  Attempts = 2
  MaxRequests = 2
  MaxClock = 4
INVARIANTS
  TokenFitsRequest
  InTime
PROPERTIES
  StartsSpaced
  RetryAfterKept
  CallsEnd
  CommandsEnd
CHECK_DEADLOCK FALSE
