------------------------------ MODULE ChainFeed ------------------------------
(***************************************************************************)
(* What the block queue promises BlockChain::sync while every block is     *)
(* good: a queue that hands over blocks with every parent before its       *)
(* children, that may forget a suffix of what it holds (clear), and that   *)
(* never skips, reorders or invents a block.                               *)
(***************************************************************************)
EXTENDS Integers, Sequences

CONSTANTS Block, Root, ParentOf

VARIABLES
  chain,    \* the blocks of the chain
  pending   \* the blocks on their way to it, next first

feedVars == <<chain, pending>>

FeedInit == chain = {Root} /\ pending = <<>>

\* Every block of the sequence has its parent in the chain or before it.
InOrder(s) ==
  \A i \in DOMAIN s : ParentOf[s[i]] \in chain \cup {s[j] : j \in 1..(i - 1)}

\* New blocks join at the end.
Accept ==
  /\ pending' \in Seq(Block) /\ Len(pending) < Len(pending')
  /\ SubSeq(pending', 1, Len(pending)) = pending
  /\ InOrder(pending')
  /\ UNCHANGED chain

\* The next block goes to the chain (which may have it already).
Deliver ==
  /\ pending # <<>>
  /\ chain' = chain \cup {Head(pending)} /\ pending' = Tail(pending)

\* Only the first n blocks are kept.
Forget ==
  /\ \E n \in 0..Len(pending) : pending' = SubSeq(pending, 1, n)
  /\ UNCHANGED chain

FeedNext == Accept \/ Deliver \/ Forget

FeedSpec == FeedInit /\ [][FeedNext]_feedVars
=============================================================================
