CONSTANTS
  b1 = b1
  b2 = b2
  b3 = b3
  b4 = b4
  v1 = v1
  v2 = v2
  Genesis = genesis
  NoHash = nohash
  EmptyListSHA3 = emptylist
  Hash = {b1, b2, b3, b4}
  Parent <- LongParent
  Number <- Heights
  Difficulty <- Ones
  Timestamp <- B2Later
  Ours = {b2}
  Unsound = {b3}
  Invalid = {b1}
  Flaky = {b4}
  Verifiers = {v1, v2}
  Junk = {0}
  MaxDrain = 2
  MaxNow = 1
SYMMETRY VerifierSymmetry
SPECIFICATION SteadySpec
INVARIANT ParentsFirst
INVARIANT QueuedAreReady
INVARIANT UnknownParentsAbsent
INVARIANT NoBadWaiting
 
