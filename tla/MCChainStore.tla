---------------------------- MODULE MCChainStore ----------------------------
(***************************************************************************)
(* A small block tree for ChainStore: on the genesis block the chains      *)
(* a1 - a2 and b1 - b2, and c2 on b1.                                      *)
(***************************************************************************)
EXTENDS ChainStore, TLC

CONSTANTS a1, a2, b1, b2, c2

Tree == (a1 :> Genesis) @@ (a2 :> a1) @@ (b1 :> Genesis) @@ (b2 :> b1) @@ (c2 :> b1)

MCParent == [x \in Block |-> Tree[x]]

Lines ==
  LET on(b)      == (0 :> Genesis) @@ (1 :> b)
      upto(b, c) == on(b) @@ (2 :> c)
  IN (Genesis :> (0 :> Genesis)) @@ (a1 :> on(a1)) @@ (a2 :> upto(a1, a2))
       @@ (b1 :> on(b1)) @@ (b2 :> upto(b1, b2)) @@ (c2 :> upto(b1, c2))

MCLine == [x \in Node |-> Lines[x]]

MCNumber == [x \in Node |-> Cardinality(DOMAIN Lines[x]) - 1]

\* a1 is of the second standby miner, b1 of the first, a2 of the first,
\* the others of super miners
MCRank == [x \in Node |-> CASE x = a1 -> 2 [] x \in {b1, a2} -> 1 [] OTHER -> 0]
=============================================================================
