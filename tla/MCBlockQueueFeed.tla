-------------------------- MODULE MCBlockQueueFeed --------------------------
(* A small instance of BlockQueueFeed for TLC. *)
EXTENDS BlockQueueFeed, TLC

CONSTANTS b1, b2, b3, b4

\* A chain of three and, where there is a fourth block, a sibling of b3.
LineParent == [h \in Hash |-> (b1 :> Genesis @@ b2 :> b1 @@ b3 :> b2 @@ b4 :> b2)[h]]
Heights == [h \in Hash |-> (b1 :> 1 @@ b2 :> 2 @@ b3 :> 3 @@ b4 :> 3)[h]]
Ones    == [h \in Hash |-> 1]
B3Later == [h \in Hash |-> IF h = b3 THEN 1 ELSE 0]
=============================================================================
