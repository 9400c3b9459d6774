------------------------- MODULE MCTransactionQueue -------------------------
(* Small instances of TransactionQueue for TLC. *)
EXTENDS TransactionQueue, TLC

CONSTANTS a0, a1, a1b, a2, b0, alice, bob

\* Three nonces of one sender, the second one twice, and one of another sender.
Senders == [t \in Tx |-> IF t = b0 THEN bob ELSE alice]
Nonces  == [t \in Tx |-> (a0 :> 0 @@ a1 :> 1 @@ a1b :> 1 @@ a2 :> 2 @@ b0 :> 0)[t]]
Prices  == [t \in Tx |-> (a0 :> 1 @@ a1 :> 2 @@ a1b :> 3 @@ a2 :> 1 @@ b0 :> 2)[t]]
=============================================================================
