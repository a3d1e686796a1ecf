----------------------------- MODULE MCHashTree -----------------------------
(* Hashes in no order of depth: 40 is the genesis block, 20 - 60 - 10 - 50 *)
(* a trunk, 30 - 55 a branch from its first block, 70 a competitor of that,*)
(* 45 of the last.                                                         *)
EXTENDS HashTree

MCBlock == {10, 20, 30, 40, 45, 50, 55, 60, 70}
MCParent == [b \in MCBlock \ {40} |->
    CASE b \in {20, 70} -> 40 [] b \in {30, 60} -> 20 [] b = 10 -> 60
      [] b = 55 -> 30 [] b \in {45, 50} -> 10]
MCDepth == [b \in MCBlock |->
    CASE b = 40 -> 0 [] b \in {20, 70} -> 1 [] b \in {30, 60} -> 2
      [] b \in {10, 55} -> 3 [] b \in {45, 50} -> 4]
=============================================================================
