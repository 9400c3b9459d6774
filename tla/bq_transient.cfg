CONSTANTS
  b1 = b1
  b2 = b2
  b3 = b3
  b4 = b4
  v1 = v1
  v2 = v2
  Genesis = genesis
  NoHash = nohash
  EmptyListSHA3 = emptylist
  Hash = {b1, b2, b3}
  Parent <- LineParent
  Number <- Heights
  Difficulty <- Ones
  Timestamp <- Past
  Ours = {}
  Unsound = {}
  Invalid = {}
  Flaky = {b1}
  Verifiers = {v1, v2}
  Junk = {0}
  MaxDrain = 2
  MaxNow = 0
SPECIFICATION SteadySpec
INVARIANT OnlyTaintedBad
