-------------------------- MODULE MCBlockChainSync --------------------------
(* Instances of BlockChainSync: a line a1 .. a5, and a fork b3, b4 after a2. *)
EXTENDS BlockChainSync

CONSTANTS a1, a2, a3, a4, a5, b3, b4, p1, p2

Tree == (a1 :> Genesis) @@ (a2 :> a1) @@ (a3 :> a2) @@ (a4 :> a3) @@ (a5 :> a4)
        @@ (b3 :> a2) @@ (b4 :> b3)
Heights == (Genesis :> 0) @@ (a1 :> 1) @@ (a2 :> 2) @@ (a3 :> 3) @@ (a4 :> 4) @@ (a5 :> 5)
           @@ (b3 :> 3) @@ (b4 :> 4)
Trunk == {Genesis, a1, a2}
Ancestors == (Genesis :> {Genesis}) @@ (a1 :> {Genesis, a1}) @@ (a2 :> Trunk)
             @@ (a3 :> Trunk \cup {a3}) @@ (a4 :> Trunk \cup {a3, a4})
             @@ (a5 :> Trunk \cup {a3, a4, a5})
             @@ (b3 :> Trunk \cup {b3}) @@ (b4 :> Trunk \cup {b3, b4})

Peers == <<p1, p2>>
Heads == (p1 :> a4) @@ (p2 :> b4)
=============================================================================
