----------------------------- MODULE MCBuffers -----------------------------
(***************************************************************************)
(* Two edges: the consumer buffer of one is as large as the producer's     *)
(* buffer of the other.                                                    *)
(***************************************************************************)
EXTENDS PgmBuffers, TLC

CONSTANTS e1, e2, b1, b2, b3, b4, b5

Produce == e1 :> 1 @@ e2 :> 2
Consume == e1 :> 2 @@ e2 :> 2
Blocks == {b1, b2, b3, b4, b5}
Sym == Permutations(Blocks)
=============================================================================
