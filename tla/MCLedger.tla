------------------------------ MODULE MCLedger ------------------------------
(* Chain 0 has a trunk of two, its last block mined by this node, and a    *)
(* fork of three that overtakes it once its first block is committed;      *)
(* chain 1 has one block, and a competitor of this node with one on top.   *)
EXTENDS Ledger

MCBlock == {"g", "a1", "a2", "c1", "c2", "c3"}
MCParent == [b \in MCBlock \ {"g"} |->
    CASE b \in {"a1", "c1"} -> "g"
      [] b = "a2" -> "a1" [] b = "c2" -> "c1" [] b = "c3" -> "c2"]
MCDepth == [b \in MCBlock |->
    CASE b = "g" -> 0
      [] b \in {"a1", "c1"} -> 1
      [] b \in {"a2", "c2"} -> 2
      [] b = "c3" -> 3]
MCInChain == [c \in Chain |-> IF c = First THEN {"a1", "c1", "c2", "c3"} ELSE {"a1", "c2"}]
MCOwn     == [c \in Chain |-> IF c = First THEN {"a2"} ELSE {"c1"}]
MCAhead   == [c \in Chain |-> IF c = First THEN {"a1", "c2"} ELSE {}]
(* The miner of the first block of chain 1 knew of a longer chain. *)
MCNextRank == [c \in Chain |-> [b \in MCBlock |->
    CASE b \in MCOwn[c] -> 0 [] c # First /\ b # "g" -> MCDepth[b] + 1 [] OTHER -> MCDepth[b]]]
=============================================================================
