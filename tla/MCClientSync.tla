---------------------------- MODULE MCClientSync ----------------------------
(* Small instances of ClientSync for TLC. *)
EXTENDS ClientSync, TLC

CONSTANTS b1, b2, b3, b4

\* A block and its child, and a sibling of the first.
SideParent == [h \in Hash |-> (b1 :> Genesis @@ b2 :> b1 @@ b3 :> Genesis @@ b4 :> Genesis)[h]]
Heights == [h \in Hash |-> (b1 :> 1 @@ b2 :> 2 @@ b3 :> 1 @@ b4 :> 1)[h]]
Ones    == [h \in Hash |-> 1]
Past    == [h \in Hash |-> 0]
B2Later == [h \in Hash |-> IF h = b2 THEN 1 ELSE 0]
=============================================================================
