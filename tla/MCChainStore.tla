---------------------------- MODULE MCChainStore ----------------------------
(* A forked universe: a trunk of four, a branch of three from its first    *)
(* block and one competitor of that block.                                 *)
EXTENDS ChainStore

MCBlock == {"g", "a1", "a2", "a3", "a4", "b2", "b3", "c1"}
MCParent == [b \in MCBlock \ {"g"} |->
    CASE b = "a1" -> "g"  [] b = "c1" -> "g"
      [] b = "a2" -> "a1" [] b = "b2" -> "a1"
      [] b = "a3" -> "a2" [] b = "b3" -> "b2"
      [] b = "a4" -> "a3"]
MCDepth == [b \in MCBlock |->
    CASE b = "g" -> 0
      [] b \in {"a1", "c1"} -> 1
      [] b \in {"a2", "b2"} -> 2
      [] b \in {"a3", "b3"} -> 3
      [] b = "a4" -> 4]
=============================================================================
