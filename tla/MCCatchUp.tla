------------------------------ MODULE MCCatchUp ------------------------------
(* One block on chain 0 and three on chain 1, in this order: the trailing  *)
(* block of 2 is on chain 1, that of 3 on chain 0.                         *)
EXTENDS CatchUp

MCBlock   == 0 .. 4
MCChainOf == [b \in MCBlock |-> IF b = 2 THEN 0 ELSE 1]
MCParent  == [b \in 1 .. 4 |-> TipBefore(MCChainOf[b], b)]
MCDepth   == [b \in MCBlock |-> Cardinality({d \in 1 .. b : MCChainOf[d] = MCChainOf[b]})]
=============================================================================
