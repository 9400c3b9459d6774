CONSTANTS
  a1 = a1
  a2 = a2
  a3 = a3
  a4 = a4
  a5 = a5
  b3 = b3
  b4 = b4
  p1 = p1
  p2 = p2
  Genesis = genesis
  NoBlock = noblock
  Block = {a1, a2, a3, a4, a5, b3, b4}
  Parent <- Tree
  Number <- Heights
  Line <- Ancestors
  EmptyBody = {a4}
  Own = {a3}
  Invalid = {}
  PeerOrder <- Peers
  FirstHead <- Heads
  Starts = {a1}
  c_maxRequest = 2
  c_maxKnownCount = 1
  MaxDisconnects = 1
SPECIFICATION Spec
INVARIANT HeadersAhead
CHECK_DEADLOCK FALSE
