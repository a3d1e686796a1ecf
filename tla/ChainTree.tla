------------------------------ MODULE ChainTree ------------------------------
(***************************************************************************)
(* The strong-block store of ONE parallel chain of one node, as pure       *)
(* operators: the main tree, the incomplete trees parked until their       *)
(* parent arrives, and the deepest block (src/code/data/Blockchain.cpp).   *)
(*                                                                         *)
(* A block is its hash.  The hash fixes the parent hash and the depth the  *)
(* header carries, so both are constants of the model.  A store is a       *)
(* record                                                                  *)
(*   main     hashes in the tree chains[chain_id]                          *)
(*   inc      the list inchains[chain_id], a set of trees                  *)
(*   nb       hashes whose node has a header (block::nb), in either place  *)
(*   deepest  deepest[chain_id]                                            *)
(* and an incomplete tree is its root hash, the hashes it holds (the root  *)
(* included) and the number of times its root was asked for.               *)
(* The binary search links left/right only serve the lookup by hash and    *)
(* are abstracted by set membership.                                       *)
(***************************************************************************)
EXTENDS Naturals, FiniteSets

CONSTANTS
    Block,      \* every block hash of this chain
    Genesis,    \* the bootstrap block of the chain
    Parent,     \* the parent hash in the header of each other block
    Depth,      \* the depth in the header of each block
    MaxAsks     \* NO_ASKS_BEFORE_REMOVING

(* Genesis has depth 0 and a mined block is one deeper than its parent. *)
ASSUME UniverseAssumption ==
    /\ Genesis \in Block
    /\ Parent \in [Block \ {Genesis} -> Block]
    /\ Depth \in [Block -> Nat]
    /\ Depth[Genesis] = 0
    /\ \A b \in Block \ {Genesis} : Depth[b] = Depth[Parent[b]] + 1
    /\ MaxAsks \in Nat

Tree  == [root : Block, nodes : SUBSET Block, asks : 0 .. MaxAsks]
Store == [main : SUBSET Block, inc : SUBSET Tree,
          nb : SUBSET Block, deepest : Block]

EmptyStore == [main |-> {Genesis}, inc |-> {},
               nb |-> {Genesis}, deepest |-> Genesis]

NodesOf(trees) == UNION {t.nodes : t \in trees}

(* The blocks from h towards the genesis block, along t->parent. *)
Lineage[h \in Block] == IF h = Genesis THEN {h} ELSE {h} \cup Lineage[Parent[h]]

(* is_incomplete_hash only compares the root of each incomplete tree. *)
TreesRootedAt(S, h) == {t \in S.inc : t.root = h}

(* find_incomplete_block, and the search loop of add_block_to_incomplete. *)
TreesHolding(S, h) == {t \in S.inc : h \in t.nodes}

(* is_in_incomplete: some tree holds the block as a child of its parent. *)
AlreadyParked(S, h) == \E t \in S.inc : h \in t.nodes \ {t.root}

(* find_max_depth: a deepest block of a subtree.  The code returns the     *)
(* first in order of the child lists; any of them may come first.          *)
MaxDepth(B) == {b \in B : \A c \in B : Depth[c] <= Depth[b]}

(* Mutant: the last one linked wins ties. *)
DeepestAfterTie(S, joined) ==
    {IF Depth[b] >= Depth[S.deepest] THEN b ELSE S.deepest : b \in MaxDepth(joined)}

(* "Update deepest": the subtree's deepest block wins only when strictly   *)
(* deeper than the current one.                                            *)
DeepestAfter(S, joined) ==
    {IF Depth[b] > Depth[S.deepest] THEN b ELSE S.deepest : b \in MaxDepth(joined)}

(* Mutant: only the block received is considered as the deepest. *)
ConnectShallow(S, h) ==
    LET trees == TreesRootedAt(S, h)
    IN  {[main |-> S.main \cup {h} \cup NodesOf(trees), inc |-> S.inc \ trees,
          nb |-> S.nb \cup {h}, deepest |-> d] : d \in DeepestAfter(S, {h})}

(* Mutant: the incomplete tree is removed from its list and linked nowhere. *)
ConnectLosing(S, h) ==
    {[main |-> S.main \cup {h}, inc |-> S.inc \ TreesRootedAt(S, h),
      nb |-> S.nb \cup {h}, deepest |-> d] : d \in DeepestAfter(S, {h})}

(* add_received_block when the parent is in the main tree: the incomplete  *)
(* tree rooted at h, if any, is linked in whole, else h alone.             *)
Connect(S, h) ==
    LET trees  == TreesRootedAt(S, h)
        joined == {h} \cup NodesOf(trees)
    IN  {[main |-> S.main \cup joined, inc |-> S.inc \ trees,
          nb |-> S.nb \cup {h}, deepest |-> d] : d \in DeepestAfter(S, joined)}

(* Mutant: a tree rooted at h is not moved under it. *)
ParkApart(S, h) ==
    LET above == TreesHolding(S, Parent[h])
        host  == IF above = {}
                   THEN [root |-> Parent[h], nodes |-> {Parent[h]}, asks |-> 0]
                   ELSE CHOOSE t \in above : TRUE
    IN  [S EXCEPT !.inc = (@ \ {host}) \cup {[host EXCEPT !.nodes = @ \cup {h}]},
                  !.nb = @ \cup {h}]

(* add_block_to_incomplete.  The tree that holds the parent keeps its root *)
(* and its count; when there is none, a tree starts at the parent's hash,  *)
(* headerless and never asked.  A tree already rooted at h moves under it. *)
Park(S, h) ==
    LET above == TreesHolding(S, Parent[h])
        below == TreesHolding(S, h)
        host  == IF above = {}
                   THEN [root |-> Parent[h], nodes |-> {Parent[h]}, asks |-> 0]
                   ELSE CHOOSE t \in above : TRUE
        grown == [host EXCEPT !.nodes = @ \cup {h} \cup NodesOf(below)]
    IN  [S EXCEPT !.inc = (@ \ (below \cup {host})) \cup {grown},
                  !.nb = @ \cup {h}]

(* add_received_block, all four outcomes. *)
AddReceived(S, h) ==
    IF h \in S.main \/ (Parent[h] \notin S.main /\ AlreadyParked(S, h))
      THEN {S}
      ELSE IF Parent[h] \in S.main THEN Connect(S, h) ELSE {Park(S, h)}

(* add_received_block returns true: the caller must ask for the parent. *)
NeedsParent(S, h) ==
    h \notin S.main /\ Parent[h] \notin S.main /\ ~AlreadyParked(S, h)

(* Mutant: dropped instead of the last request. *)
DroppedEarly(due) == {t \in due : t.asks + 1 >= MaxAsks}

(* A tree is dropped, with its headers, once it was asked for too often. *)
Dropped(due) == {t \in due : t.asks + 1 > MaxAsks}

(* Mutant: the asking is not counted. *)
AskUncounted(S, due) == [S EXCEPT !.inc = @ \ Dropped(due),
                                  !.nb = @ \ NodesOf(Dropped(due))]

(* Mutant: a dropped tree is unlinked and its blocks are kept. *)
AskLeaking(S, due) ==
    [S EXCEPT !.inc = (@ \ due) \cup {[t EXCEPT !.asks = @ + 1] : t \in due \ Dropped(due)}]

(* get_incomplete_chain_hashes: every tree not asked for recently is       *)
(* counted, or dropped.                                                    *)
AskIncomplete(S, due) ==
    [S EXCEPT !.inc = (@ \ due) \cup {[t EXCEPT !.asks = @ + 1] : t \in due \ Dropped(due)},
              !.nb = @ \ NodesOf(Dropped(due))]

(* add_block_by_parent_hash_and_chain_id: the mined block becomes the      *)
(* deepest without any comparison.                                         *)
AddMined(S, h) ==
    [S EXCEPT !.main = @ \cup {h}, !.nb = @ \cup {h}, !.deepest = h]
-----------------------------------------------------------------------------
(* What holds of a store after every operation (ChainTreeProofs), in parts *)
(* that are enough for the next operation to preserve them.                *)

Held(S) == S.main \cup NodesOf(S.inc)

(* Every block of the main tree but the genesis block has its parent there. *)
MainConnectedIn(S) ==
    /\ Genesis \in S.main
    /\ \A b \in S.main \ {Genesis} : Parent[b] \in S.main

(* Every incomplete tree is a connected tree with at least one child, and  *)
(* no hash is in two trees or in a tree and the main one.                  *)
TreesDisjointIn(S) ==
    /\ \A t \in S.inc :
          /\ t.root \in t.nodes /\ t.nodes # {t.root}
          /\ \A b \in t.nodes \ {t.root} : Parent[b] \in t.nodes
          /\ t.nodes \cap S.main = {}
    /\ \A t, u \in S.inc : t.nodes \cap u.nodes # {} => t = u

(* Under the root of an incomplete tree blocks are deeper than the root.   *)
RootShallowestIn(S) ==
    \A t \in S.inc : \A b \in t.nodes \ {t.root} : Depth[b] > Depth[t.root]

(* Exactly the roots of incomplete trees lack a header.                    *)
HeadersExactIn(S) ==
    S.nb = S.main \cup UNION {t.nodes \ {t.root} : t \in S.inc}

(* The deepest block is in the main tree and nothing there is deeper.      *)
DeepestIn(S) ==
    /\ S.deepest \in S.main
    /\ \A b \in S.main : Depth[b] <= Depth[S.deepest]

WellFormed(S) ==
    /\ S \in Store /\ MainConnectedIn(S) /\ TreesDisjointIn(S)
    /\ RootShallowestIn(S) /\ HeadersExactIn(S) /\ DeepestIn(S)
=============================================================================
