--------------------------- MODULE BlockQueueFeed ---------------------------
(* The block queue and BlockChain::sync as an implementation of ChainFeed. *)
EXTENDS BlockQueue

\* The blocks drained and not yet imported, then the three deques.
Feed == blocks \o Pipeline

Abstract == INSTANCE ChainFeed
              WITH Block <- Hash, Root <- Genesis, ParentOf <- Parent,
                   chain <- m_bc, pending <- Feed

\* Whatever the verifier threads, clear() and the clock do, blocks reach the chain
\* in the order in which the queue accepted them, parents first; none is skipped.
ImplementsFeed == Abstract!FeedSpec

-----------------------------------------------------------------------------
(* The inductive invariants behind ReadyMatchesKnown and NeverBad. *)

\* While nothing is known to be bad no updateBad is running, and the deques hold
\* what m_readySet says.
ReadyInv ==
  m_knownBad = {} =>
    /\ lock \in {"free", "drainVerified"}
    /\ IsInjective(Pipeline) /\ Range(Pipeline) = m_readySet

\* Every block passes every check and none is sealed by this node.
AllGood == Unsound = {} /\ Invalid = {} /\ Flaky = {} /\ Ours = {}

\* Nothing has gone wrong: no block was found bad, and sync gave up on none.
NothingWrong == m_knownBad = {} /\ badBlocks = <<>> /\ abandoned = {}

\* What is being imported is in the feed or in the chain already, and the feed is
\* in order.
FeedInv ==
  /\ clientPc # "import" => blocks = <<>>
  /\ m_drainingSet \subseteq m_bc \cup Range(blocks)
  /\ Abstract!InOrder(Feed)

\* The time of every block of the feed has come.
Timely == \A h \in Range(Feed) \cup m_unknown : Timestamp[h] <= now

\* The inductive invariant behind NeverBad.
GoodInv == NothingWrong /\ FeedInv /\ Timely

\* The one behind ParentsFirst: found bad blocks are forgotten only by doneDrain,
\* which enters them in m_knownBad.
OrderInv ==
  /\ clientPc # "import" => badBlocks = <<>>
  /\ NothingWrong => FeedInv
=============================================================================
