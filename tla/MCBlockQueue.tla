---------------------------- MODULE MCBlockQueue ----------------------------
(* Small instances of BlockQueue for TLC. *)
EXTENDS BlockQueue, TLC

CONSTANTS b1, b2, b3, b4

\* A chain of three and, where there is a fourth block, a sibling of b3.
LineParent == [h \in Hash |-> (b1 :> Genesis @@ b2 :> b1 @@ b3 :> b2 @@ b4 :> b2)[h]]
\* Two blocks on top of the same parent.
ForkParent == [h \in Hash |-> (b1 :> Genesis @@ b2 :> b1 @@ b3 :> b1 @@ b4 :> b2)[h]]
\* A chain of two, and siblings of the first.
SideParent == [h \in Hash |-> (b1 :> Genesis @@ b2 :> b1 @@ b3 :> Genesis @@ b4 :> Genesis)[h]]
\* A chain of three, and a sibling of the first.
LongParent == [h \in Hash |-> (b1 :> Genesis @@ b2 :> b1 @@ b3 :> b2 @@ b4 :> Genesis)[h]]

Heights == [h \in Hash |-> (b1 :> 1 @@ b2 :> 2 @@ b3 :> 3 @@ b4 :> 3)[h]]
Ones    == [h \in Hash |-> 1]
Past    == [h \in Hash |-> 0]
B2Later == [h \in Hash |-> IF h = b2 THEN 1 ELSE 0]
B3Later == [h \in Hash |-> IF h = b3 THEN 1 ELSE 0]

VerifierSymmetry == Permutations(Verifiers)
=============================================================================
