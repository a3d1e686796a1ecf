---------------------------- MODULE MCStrongBlocks ----------------------------
(* A chain of two and a competitor of its first block. *)
EXTENDS StrongBlocks

MCBlock == {"g", "a1", "a2", "c1"}
MCParent == [b \in MCBlock \ {"g"} |-> IF b = "a2" THEN "a1" ELSE "g"]
MCDepth == [b \in MCBlock |-> IF b = "g" THEN 0 ELSE IF b = "a2" THEN 2 ELSE 1]
AllPeers == [n \in Node |-> Node \ {n}]
=============================================================================
