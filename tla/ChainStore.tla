----------------------------- MODULE ChainStore -----------------------------
(***************************************************************************)
(* One node's store of one parallel chain under everything that changes    *)
(* it: blocks received in any order, any number of times or never, the     *)
(* periodic asking for incomplete trees, and the node's own miner.         *)
(* Every operation holds the blockchain lock, so each is one action.       *)
(***************************************************************************)
EXTENDS ChainTree

VARIABLES
    store,    \* this node's store of the chain
    minted    \* the blocks mined so far, by any node

vars == <<store, minted>>

Init == store = EmptyStore /\ minted = {Genesis}

(* Another node mines a block on a block of its own chain. *)
MintElsewhere(h) ==
    /\ h \notin minted /\ Parent[h] \in minted
    /\ minted' = minted \cup {h}
    /\ UNCHANGED store

(* mine_new_block: this node mines on its deepest block. *)
Mine(h) ==
    /\ h \notin minted /\ Parent[h] = store.deepest
    /\ minted' = minted \cup {h}
    /\ store' = AddMined(store, h)

(* add_received_block with the parent in the main tree. *)
ReceiveConnect(h) ==
    /\ h \in minted \ store.main
    /\ Parent[h] \in store.main
    /\ store' \in Connect(store, h)
    /\ UNCHANGED minted

(* add_received_block with the parent missing. *)
ReceivePark(h) ==
    /\ h \in minted \ store.main
    /\ Parent[h] \notin store.main
    /\ ~AlreadyParked(store, h)
    /\ store' = Park(store, h)
    /\ UNCHANGED minted

(* The network loop asks for the roots of the trees that are due. *)
Ask(due) ==
    /\ due # {} /\ due \subseteq store.inc
    /\ store' = AskIncomplete(store, due)
    /\ UNCHANGED minted

Next ==
    \/ \E h \in Block \ {Genesis} :
          MintElsewhere(h) \/ Mine(h) \/ ReceiveConnect(h) \/ ReceivePark(h)
    \/ \E due \in SUBSET store.inc : Ask(due)

Spec == Init /\ [][Next]_vars

(* The network loop runs for ever, so the tree that holds h, once due, is  *)
(* asked for.  Nothing obliges anybody to answer or to mine.               *)
AskFor(h) == \E due \in SUBSET store.inc : h \in NodesOf(due) /\ Ask(due)
FairSpec == Spec /\ \A h \in Block : WF_vars(AskFor(h))

-----------------------------------------------------------------------------

TypeOK == store \in Store /\ minted \in SUBSET Block

(* The main tree and every incomplete tree are connected, each of these has *)
(* a child, and no hash is in two of them: insert_one_node would otherwise  *)
(* meet "Same hash...bad", and a tree whose root is already in the main     *)
(* tree would never be merged.                                              *)
TreesDisjoint == MainConnectedIn(store) /\ TreesDisjointIn(store)

(* Exactly the roots of incomplete trees lack a header: find_max_depth and *)
(* the commit walk read nb->depth of every node they reach.                *)
HeadersExact == HeadersExactIn(store)

(* deepest[chain_id] is in the main tree and nothing there is deeper,      *)
(* though add_received_block only searches the subtree it linked and       *)
(* mining does not compare at all.                                         *)
DeepestIsDeepest == DeepestIn(store)

(* A node only holds hashes that some node mined. *)
HeldWasMined ==
    /\ Held(store) \subseteq minted
    /\ \A b \in minted \ {Genesis} : Parent[b] \in minted

(* The inductive invariant: what holds after every operation and is enough *)
(* for the next one to preserve it.                                        *)
IInv == TypeOK /\ WellFormed(store) /\ HeldWasMined

(* The deepest block changes only for a strictly deeper one. *)
TipOnlyDeepens ==
    [][store'.deepest # store.deepest => Depth[store'.deepest] > Depth[store.deepest]]_vars

(* No block stays parked for ever: its tree is merged or dropped, although *)
(* a parent that is parked on top of it starts the count of asks again.    *)
ParkingEnds == \A h \in Block : h \in NodesOf(store.inc) ~> h \notin NodesOf(store.inc)

(* The store is a longest-chain register over the headers it holds: what   *)
(* is connected through known headers is what the main tree holds.         *)
Longest == INSTANCE LongestChain WITH known <- store.nb, tip <- store.deepest
ImplementsLongestChain == Longest!Spec
=============================================================================
