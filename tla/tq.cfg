CONSTANTS
  a0 = a0
  a1 = a1
  a1b = a1b
  a2 = a2
  b0 = b0
  alice = alice
  bob = bob
  NoTx = notx
  Tx = {a0, a1, a1b, a2, b0}
  From <- Senders
  Nonce <- Nonces
  GasPrice <- Prices
  m_limit = 3
  m_futureLimit = 1
SPECIFICATION Spec
INVARIANT CurrentIndexed
INVARIANT FutureCounted
PROPERTY NothingLost
