---------------------------- MODULE BlockRequests ----------------------------
(***************************************************************************)
(* What the handlers of #process_block and #ask_block                      *)
(* (src/code/network/process_buffer.cpp) send, as operators on the stores  *)
(* of ChainTree: whether a block is sent on, how many blocks are asked for *)
(* and which are sent in answer.                                           *)
(***************************************************************************)
EXTENDS ChainTree

CONSTANT MaxAskBlocks   \* MAX_ASK_BLOCKS

ASSUME RequestsAssumption == MaxAskBlocks \in Nat \ {0}

(* create__ask_block: how many blocks to send, from the two depths. *)
AskFor(mine, theirs) == IF mine >= theirs THEN 1 ELSE theirs - mine

(* Mutant: the walk takes the root of an incomplete tree along. *)
ServedWithRoot(S, h, max) ==
    {b \in Lineage[h] : /\ Depth[h] - Depth[b] < max
                        /\ Depth[h] - Depth[b] < MaxAskBlocks
                        /\ \A c \in Lineage[h] : Depth[c] >= Depth[b] =>
                              c \in (S.main \ {Genesis}) \cup NodesOf(S.inc)}

(* #ask_block: the block and its ancestors, up to the bound, the genesis   *)
(* block or the root of the incomplete tree, which have no parent pointer. *)
Served(S, h, max) ==
    LET linked == (S.main \ {Genesis}) \cup UNION {t.nodes \ {t.root} : t \in S.inc}
    IN  {b \in Lineage[h] : /\ Depth[h] - Depth[b] < max
                            /\ Depth[h] - Depth[b] < MaxAskBlocks
                            /\ \A c \in Lineage[h] : Depth[c] >= Depth[b] => c \in linked}

(* Mutant: a block that was there already is sent on again. *)
NewsAlways(S, after) == TRUE

(* added: add_received_block changed the store. *)
News(S, after) == after # S

(* Mutant: the block may also be parked. *)
InMainOrParked(S, h) == TRUE

(* find_block_by_hash_and_chain_id, of the main tree. *)
InMain(S, h) == h \in S.main

(* #process_block sends a block on only if it is now in the main tree      *)
(* itself: one that was parked, or that was linked with its parked         *)
(* ancestor, is not sent on.                                               *)
Relays(S, after, h) == News(S, after) /\ InMain(after, h)

(* How many ancestors it asks for when the parent of h is missing. *)
AncestorsAsked(after, h) == AskFor(Depth[after.deepest], Depth[h])
=============================================================================
