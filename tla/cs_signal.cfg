CONSTANTS
  b1 = b1
  b2 = b2
  b3 = b3
  b4 = b4
  v1 = v1
  v2 = v2
  Genesis = genesis
  NoHash = nohash
  EmptyListSHA3 = emptylist
  Hash = {b1, b2, b3}
  Parent <- SideParent
  Number <- Heights
  Difficulty <- Ones
  Timestamp <- B2Later
  Ours = {}
  Unsound = {b3}
  Invalid = {b2}
  Flaky = {}
  Verifiers = {v1, v2}
  Junk = {0}
  MaxDrain = 2
  MaxNow = 1
SPECIFICATION SpecSync
INVARIANT UnsignalledExplained
