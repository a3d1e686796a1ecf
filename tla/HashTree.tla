------------------------------- MODULE HashTree -------------------------------
(***************************************************************************)
(* The store of one chain as it lies in memory (src/code/data/             *)
(* Blockchain.cpp): every block is a node of two structures at once, a     *)
(* binary search tree by hash (left, right), which every lookup uses, and  *)
(* the tree of blocks (parent, child, sibling), which every walk uses.     *)
(* The main tree and each incomplete tree are such a pair with one root,   *)
(* and merging two of them rebuilds the first and links the second.        *)
(*                                                                         *)
(* ChainStore abstracts from all pointers; this module implements it.  A   *)
(* hash is a number.  The nodes of a tree that is dropped are never freed; *)
(* nothing points to them and they are cleared here.                       *)
(***************************************************************************)
EXTENDS ChainTree

Null    == 0
Pointer == Block \cup {Null}

ASSUME HashAssumption == Block \subseteq Nat \ {Null}

VARIABLES
    node,       \* the pointers of the node of each block, and which have nb
    inchains,   \* the list of incomplete trees: root and no_asks
    deepest,    \* deepest[chain_id]
    minted      \* the blocks mined so far, by any node

vars == <<node, inchains, deepest, minted>>

Memory == [left : [Block -> Pointer], right : [Block -> Pointer],
           parent : [Block -> Pointer], child : [Block -> Pointer],
           sibling : [Block -> Pointer], nb : SUBSET Block]

(* The nodes that are reached from x along the pointers f and g. *)
Reach(f, g, x) ==
    LET N[c \in Pointer] == IF c = Null THEN {} ELSE {c} \cup N[f[c]] \cup N[g[c]]
    IN  N[x]

(* A walk from x along one pointer, and the node where it ends. *)
Nowhere     == [c \in Block |-> Null]
Walk(f, x)  == Reach(f, Nowhere, x)
EndOf(f, x) == CHOOSE c \in Walk(f, x) : f[c] = Null

-----------------------------------------------------------------------------
(* The functions on nodes; s is the memory. *)

(* bootstrap_chain: the node of a hash before it is linked. *)
Clear(s, B) ==
    LET Cleared(f) == [b \in Block |-> IF b \in B THEN Null ELSE f[b]]
    IN  [left   |-> Cleared(s.left),   right |-> Cleared(s.right),
         parent |-> Cleared(s.parent), child |-> Cleared(s.child),
         sibling |-> Cleared(s.sibling), nb |-> s.nb \ B]

(* find_block_by_hash: what is looked up is on the way to its place. *)
Down(s, h) == [c \in Block |-> IF c >= h THEN s.left[c] ELSE s.right[c]]
Holds(s, root, h) == h \in Walk(Down(s, h), root)

(* insert_block_only_by_hash, below a node that is there. *)
InsertByHash(s, r, h) ==
    LET z == EndOf(Down(s, h), r)
    IN  IF z >= h THEN [s EXCEPT !.left[z] = h] ELSE [s EXCEPT !.right[z] = h]

(* insert_one_node: "Same hash...bad" leaves the tree alone. *)
InsertOneNode(s, r, h) == IF Holds(s, r, h) THEN s ELSE InsertByHash(s, r, h)

(* The nodes of a search tree. *)
Nodes(s, t) == Reach(s.left, s.right, t)

(* insert_subtree_by_hash comes to a node before those below it, and to    *)
(* those on its left before those on its right.                            *)
Before(s, b, c) == c \in Nodes(s, b) \/ (b < c /\ b \notin Nodes(s, c))
LastOf(s, B)    == CHOOSE b \in B : \A c \in B \ {b} : ~Before(s, b, c)

(* The nodes B of a search tree are moved to that of r, one at a time. *)
MoveAll(s, r, B) ==
    LET moved[D \in SUBSET B] ==
          IF D = {} THEN s
          ELSE LET b == LastOf(s, D)
                   m == moved[D \ {b}]
               IN  InsertOneNode([m EXCEPT !.left[b] = Null, !.right[b] = Null], r, b)
    IN  moved[B]

(* Mutant: what is left of a node is moved, what is right of it is lost. *)
InsertLeftOnly(s, r, t) == MoveAll(s, r, {t} \cup Nodes(s, s.left[t]))

InsertSubtree(s, r, t) == MoveAll(s, r, Nodes(s, t))

(* The children of a block, in the list of the sibling pointers. *)
Kids(s, p) == Walk(s.sibling, s.child[p])

(* Mutants: the parent of a merged tree is not set; the new child replaces *)
(* the others.                                                             *)
AppendOrphan(s, p, c) ==
    IF s.child[p] = Null THEN [s EXCEPT !.child[p] = c]
    ELSE [s EXCEPT !.sibling[EndOf(s.sibling, s.child[p])] = c]
AppendOnly(s, p, c) == [s EXCEPT !.parent[c] = p, !.child[p] = c]

(* The pointers of a new child: the last in the list of its parent. *)
AppendChild(s, p, c) ==
    IF s.child[p] = Null THEN [s EXCEPT !.parent[c] = p, !.child[p] = c]
    ELSE [s EXCEPT !.parent[c] = p, !.sibling[EndOf(s.sibling, s.child[p])] = c]

(* add_block_by_parent_hash. *)
AddByParent(s, root, p, h) ==
    IF Holds(s, root, p)
      THEN AppendChild(InsertByHash(Clear(s, {h}), root, h), p, h)
      ELSE s

(* A merge: search tree and tree of blocks. *)
Merge(s, root, p, t) == AppendChild(InsertSubtree(s, root, t), p, t)

(* r and what hangs below it: find_number_of_nodes counts these, and       *)
(* find_max_depth returns one of the deepest of them.                      *)
Family(s, r) == {r} \cup Reach(s.child, s.sibling, s.child[r])

WithHeader(s, h) == [s EXCEPT !.nb = @ \cup {h}]

-----------------------------------------------------------------------------
(* The list of incomplete trees.  No two hold the same hash, so the order  *)
(* of the list, in which the code searches it, makes no difference.        *)

(* is_incomplete_hash compares roots only. *)
RootedAt(h) == {t \in inchains : t.b = h}

(* The search loop of add_block_to_incomplete. *)
Holding(h) == {t \in inchains : Holds(node, t.b, h)}

(* is_in_incomplete. *)
IsInIncomplete(p, h) == \E t \in Holding(h) : node.parent[h] = p

(* add_block_to_incomplete: the child and the parent are each in a tree of *)
(* the list or in none; find_incomplete_block then finds the child.        *)
AddToIncomplete(p, h) ==
    LET started == Clear(node, {p})
        fresh   == [b |-> p, asks |-> 0]
    IN  \/ /\ Holding(h) = {} /\ Holding(p) = {}
           /\ node' = WithHeader(AddByParent(started, p, p, h), h)
           /\ inchains' = inchains \cup {fresh}
        \/ \E above \in Holding(p) :
           /\ Holding(h) = {}
           /\ node' = WithHeader(AddByParent(node, above.b, p, h), h)
           /\ UNCHANGED inchains
        \/ \E below \in Holding(h) :
           /\ Holding(p) = {}
           /\ node' = WithHeader(Merge(started, p, p, below.b), h)
           /\ inchains' = (inchains \ {below}) \cup {fresh}
        \/ \E below \in Holding(h), above \in Holding(p) :
           /\ node' = WithHeader(Merge(node, above.b, p, below.b), h)
           /\ inchains' = inchains \ {below}

-----------------------------------------------------------------------------

Init ==
    /\ node = [left |-> Nowhere, right |-> Nowhere, parent |-> Nowhere,
               child |-> Nowhere, sibling |-> Nowhere, nb |-> {Genesis}]
    /\ inchains = {} /\ deepest = Genesis /\ minted = {Genesis}

(* Another node mines a block. *)
MintElsewhere(h) ==
    /\ h \notin minted /\ Parent[h] \in minted
    /\ minted' = minted \cup {h}
    /\ UNCHANGED <<node, inchains, deepest>>

(* add_block_by_parent_hash_and_chain_id, from mine_new_block. *)
Mine(h) ==
    /\ h \notin minted /\ Parent[h] = deepest
    /\ minted' = minted \cup {h}
    /\ node' = WithHeader(AddByParent(node, Genesis, Parent[h], h), h)
    /\ deepest' = h
    /\ UNCHANGED inchains

(* add_received_block, its two branches. *)
ReceiveConnect(h) ==
    /\ h \in minted /\ ~Holds(node, Genesis, h)
    /\ Holds(node, Genesis, Parent[h])
    /\ \/ /\ RootedAt(h) = {}
          /\ node' = WithHeader(AddByParent(node, Genesis, Parent[h], h), h)
          /\ UNCHANGED inchains
       \/ \E t \in RootedAt(h) :
          /\ node' = WithHeader(Merge(node, Genesis, Parent[h], h), h)
          /\ inchains' = inchains \ {t}
    /\ \E last \in MaxDepth(Family(node', h)) :
          deepest' = IF Depth[last] > Depth[deepest] THEN last ELSE deepest
    /\ UNCHANGED minted

ReceivePark(h) ==
    /\ h \in minted /\ ~Holds(node, Genesis, h)
    /\ ~Holds(node, Genesis, Parent[h])
    /\ ~IsInIncomplete(Parent[h], h)
    /\ AddToIncomplete(Parent[h], h)
    /\ UNCHANGED <<deepest, minted>>

(* get_incomplete_chain_hashes; due are the trees not asked for recently.  *)
(* (find_number_of_nodes has no part in it: what is dropped is not freed.) *)
Ask(due) ==
    LET dropped == {t \in due : t.asks + 1 > MaxAsks}
    IN  /\ inchains' = (inchains \ due) \cup {[t EXCEPT !.asks = @ + 1] : t \in due \ dropped}
        /\ node' = Clear(node, UNION {Family(node, t.b) : t \in dropped})
        /\ UNCHANGED <<deepest, minted>>

Next ==
    \/ \E h \in Block \ {Genesis} :
          MintElsewhere(h) \/ Mine(h) \/ ReceiveConnect(h) \/ ReceivePark(h)
    \/ \E due \in SUBSET inchains : due # {} /\ Ask(due)

Spec == Init /\ [][Next]_vars

-----------------------------------------------------------------------------

Roots == {Genesis} \cup {t.b : t \in inchains}

(* The lookup by hash, however the search trees were rebuilt by merges,    *)
(* finds exactly the blocks of its tree: one it misses would be added      *)
(* twice, one too many would hide a block that is elsewhere.               *)
LookupExact ==
    \A r \in Roots : {h \in Block : Holds(node, r, h)} = Family(node, r)

(* The pointers agree: what is in the list of children of a block are the  *)
(* blocks of its tree with that parent, and up from each of them is this   *)
(* parent; so the walk up from a block ends at the root of its tree (the   *)
(* walks of the commit marks, of #ask_block and of the file).              *)
LinksMatch ==
    \A r \in Roots :
        /\ node.parent[r] = Null /\ node.sibling[r] = Null
        /\ \A p \in Family(node, r) :
              /\ Kids(node, p) = {b \in Family(node, r) \ {r} : Parent[b] = p}
              /\ \A b \in Kids(node, p) : node.parent[b] = p

(* The memory as a store of sets, which it implements. *)
AsStore ==
    [main    |-> Family(node, Genesis),
     inc     |-> {[root |-> t.b, nodes |-> Family(node, t.b), asks |-> t.asks] :
                    t \in inchains},
     nb      |-> node.nb,
     deepest |-> deepest]
Sets == INSTANCE ChainStore WITH store <- AsStore
ImplementsChainStore == Sets!Spec

-----------------------------------------------------------------------------
(* The inductive invariant, in parts. *)

(* Following f and g always ends: no set of nodes has all its ends in it.  *)
Grounded(f, g) ==
    \A B \in SUBSET Block : B # {} => \E b \in B : f[b] \notin B /\ g[b] \notin B

(* Left of a node are smaller hashes, right of it greater ones. *)
Ordered(s) ==
    \A b \in Block : /\ \A c \in Nodes(s, s.left[b])  : c < b
                     /\ \A c \in Nodes(s, s.right[b]) : b < c

(* The two structures of a tree have the same nodes. *)
Twinned == \A r \in Roots : Nodes(node, r) = Family(node, r)

(* Nodes in no tree point nowhere. *)
Unlinked ==
    \A b \in Block \ Held(AsStore) :
        /\ node.left[b] = Null /\ node.right[b] = Null /\ node.parent[b] = Null
        /\ node.child[b] = Null /\ node.sibling[b] = Null

TypeOK ==
    /\ node \in Memory /\ inchains \in SUBSET [b : Block, asks : 0 .. MaxAsks]
    /\ deepest \in Block /\ minted \in SUBSET Block

IInv ==
    /\ TypeOK /\ Sets!IInv /\ IsFiniteSet(Held(AsStore))
    /\ \A t, u \in inchains : t.b = u.b => t = u
    /\ Grounded(node.left, node.right) /\ Ordered(node)
    /\ Grounded(node.child, node.sibling)
    /\ Twinned /\ LinksMatch /\ Unlinked
=============================================================================
