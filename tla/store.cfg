SPECIFICATION Spec
CONSTANTS
  a1 = a1
  a2 = a2
  b1 = b1
  b2 = b2
  c2 = c2
  Genesis = genesis
  Block = {a1, b1, b2}
  Parent <- MCParent
  Number <- MCNumber
  Line <- MCLine
  Rank <- MCRank
  replaceHeight = 1
  Readers = {r1}
INVARIANT DiskClosed
INVARIANT IndexExplained
 
 
PROPERTY RewindExplained
