------------------------------- MODULE Ledger -------------------------------
(***************************************************************************)
(* What one node reports of its parallel chains: the times at which blocks *)
(* become partially and fully committed (update_blocks_commited_time in    *)
(* src/code/data/Blockchain.cpp) and the file of hashes of chain 0 (the    *)
(* end of run_network in src/code/consensus/pow/pow.cpp), while the stores *)
(* of the chains grow, fork and lose parked blocks underneath.             *)
(*                                                                         *)
(* Every chain has its own store over the hashes of ChainTree.  A block    *)
(* whose miner's clock is ahead carries a time_mined in this node's future *)
(* for a while.  The totals that are printed are the sizes of the sets.    *)
(*                                                                         *)
(* Across the chains blocks are ordered by rank, the next_rank of their    *)
(* parent (mine_new_block in src/code/consensus/pow/miner.cpp); the marks  *)
(* do not depend on it: confirm_bar, the least next_rank, is computed and  *)
(* compared with 0.                                                        *)
(***************************************************************************)
EXTENDS ChainTree, Sequences

CONSTANTS
    Chain,             \* 0 .. CHAINS - 1
    First,             \* chain 0, the one whose hashes are stored
    InChain,           \* the blocks other nodes mine on each chain
    Own,               \* the blocks this node may mine on each chain
    Ahead,             \* those mined by a clock that is ahead
    NextRank,          \* the next_rank in the headers of other nodes' blocks
    T_DISCARD,         \* blocks on top of a committed one
    STORE_HASH_MINUS,  \* blocks on top of a stored one
    STORE_HASH_FREQ    \* a hash is stored every so many

ASSUME LedgerAssumption ==
    /\ First \in Chain /\ IsFiniteSet(Chain)
    /\ InChain \in [Chain -> SUBSET (Block \ {Genesis})]
    /\ Own \in [Chain -> SUBSET (Block \ {Genesis})]
    /\ \A c \in Chain : InChain[c] \cap Own[c] = {}
    /\ Ahead \in [Chain -> SUBSET (Block \ {Genesis})]
    /\ NextRank \in [Chain -> [Block -> Nat]]
    /\ \A c \in Chain : NextRank[c][Genesis] = 0
    /\ \A c \in Chain : \A b \in InChain[c] :
          Parent[b] \notin Own[c] => NextRank[c][b] > NextRank[c][Parent[b]]
    /\ T_DISCARD \in Nat /\ STORE_HASH_MINUS \in Nat
    /\ STORE_HASH_FREQ \in Nat \ {0}

VARIABLES
    store,       \* the store of each chain
    next_rank,   \* the next_rank in the header of each block
    early,       \* blocks whose time_mined is not past yet
    partial,     \* blocks with a time_partial
    committed,   \* blocks with a time_commited
    log,         \* the hashes in the file
    missed,      \* the depths whose hashes a failed write left out
    logged       \* last_stored_hash_depth + 1

marks == <<partial, committed>>
file  == <<log, missed, logged>>
vars  == <<store, next_rank, early, marks, file>>

Init ==
    /\ store = [c \in Chain |-> EmptyStore]
    /\ next_rank = NextRank
    /\ early = Ahead
    /\ partial = [c \in Chain |-> {Genesis}]
    /\ committed = [c \in Chain |-> {Genesis}]
    /\ log = <<>> /\ missed = {} /\ logged = 0

(* add_received_block.  Nobody mines on a block of this node before it is   *)
(* there, and a block ranks at the next_rank of its parent or above.       *)
Receive(c, h) ==
    /\ h \in InChain[c]
    /\ Lineage[h] \cap Own[c] \subseteq store[c].main
    /\ Parent[h] \in Own[c] => next_rank[c][h] > next_rank[c][Parent[h]]
    /\ \E after \in AddReceived(store[c], h) : store' = [store EXCEPT ![c] = after]
    /\ UNCHANGED <<next_rank, early, marks, file>>

(* The greatest next_rank of the chains' deepest blocks: the trailing block's. *)
TrailingRank == CHOOSE r \in {next_rank[c][store[c].deepest] : c \in Chain} :
                    \A c \in Chain : next_rank[c][store[c].deepest] <= r

(* mine_new_block: the rank is the next_rank of the parent, and next_rank  *)
(* is that of the trailing block, but more than the rank.                  *)
Mine(c, h) ==
    /\ h \in Own[c] \ store[c].main
    /\ Parent[h] = store[c].deepest
    /\ store' = [store EXCEPT ![c] = AddMined(@, h)]
    /\ LET rank == next_rank[c][Parent[h]]
       IN  next_rank' = [next_rank EXCEPT ![c][h] =
                            IF TrailingRank <= rank THEN rank + 1 ELSE TrailingRank]
    /\ UNCHANGED <<early, marks, file>>

(* get_incomplete_chain_hashes. *)
Ask(c, due) ==
    /\ due # {}
    /\ store' = [store EXCEPT ![c] = AskIncomplete(@, due)]
    /\ UNCHANGED <<next_rank, early, marks, file>>

(* time_of_now > time_mined from now on. *)
TimePasses(c, h) ==
    /\ h \in early[c]
    /\ early' = [early EXCEPT ![c] = @ \ {h}]
    /\ UNCHANGED <<store, next_rank, marks, file>>

(* Mutant: one block too few on top. *)
BuriedLess(c, discard) ==
    {b \in Lineage[store[c].deepest] : Depth[b] + discard <= Depth[store[c].deepest] + 1}

(* From the deepest block towards the genesis block, the last ones         *)
(* discarded.                                                              *)
Buried(c, discard) ==
    {b \in Lineage[store[c].deepest] : Depth[b] + discard <= Depth[store[c].deepest]}

(* Every chain is marked partially as far as it goes. *)
Ripe(c) == Buried(c, T_DISCARD) \ early[c]

(* Nothing is committed while some chain is too short ("stop_this_j"). *)
AllLongEnough == \A d \in Chain : Buried(d, T_DISCARD) # {}

(* Mutants: only blocks marked partially by the same call; only the first  *)
(* block of the walk.                                                      *)
FinalFresh(c) == IF AllLongEnough THEN Ripe(c) \ partial[c] ELSE {}
FinalTop(c) ==
    {b \in Ripe(c) : AllLongEnough /\ \A a \in Buried(c, T_DISCARD) : Depth[a] <= Depth[b]}

Final(c) == IF AllLongEnough THEN Ripe(c) ELSE {}

(* The first block of the walk of chain c that is not discarded. *)
LastBuried(c) == CHOOSE b \in MaxDepth(Buried(c, T_DISCARD)) : TRUE

BuriedRanks == {next_rank[c][LastBuried(c)] : c \in Chain}

(* Mutant: the greatest of them. *)
ConfirmBarMax == CHOOSE r \in BuriedRanks : \A q \in BuriedRanks : q <= r

(* confirm_bar, when all chains are long enough. *)
ConfirmBar == CHOOSE r \in BuriedRanks : \A q \in BuriedRanks : r <= q

(* update_blocks_commited_time. *)
Update ==
    /\ partial' = [c \in Chain |-> partial[c] \cup Ripe(c)]
    /\ committed' = [c \in Chain |-> committed[c] \cup Final(c)]
    /\ UNCHANGED <<store, next_rank, early, file>>

(* Mutant: the hashes up to the deepest block. *)
StoredToTip == Lineage[store[First].deepest]

(* The block STORE_HASH_MINUS below the deepest one and those under it, or the    *)
(* genesis block.                                                          *)
Stored == IF Buried(First, STORE_HASH_MINUS) = {} THEN {Genesis}
          ELSE Buried(First, STORE_HASH_MINUS)

(* Those not stored yet, every so many. *)
Unstored == {b \in Stored : Depth[b] >= logged /\ Depth[b] % STORE_HASH_FREQ = 0}

(* The blocks of B in order of depth. *)
InOrder(B) ==
    [i \in 1 .. Cardinality(B) |->
        CHOOSE b \in B : Cardinality({a \in B : Depth[a] < Depth[b]}) = i - 1]

(* The hashes are written as far as the file takes them, none if it cannot *)
(* be opened; how deep they go is remembered before, whatever comes of it. *)
StoreHashes ==
    LET hashes == InOrder(Unstored)
    IN  \E n \in 0 .. Len(hashes) :
           /\ log' = log \o SubSeq(hashes, 1, n)
           /\ missed' = missed \cup {Depth[hashes[i]] : i \in n + 1 .. Len(hashes)}
           /\ \E top \in MaxDepth(Stored) : logged' = Depth[top] + 1
           /\ UNCHANGED <<store, next_rank, early, marks>>

Next ==
    \/ \E c \in Chain, h \in Block \ {Genesis} :
          Receive(c, h) \/ Mine(c, h) \/ TimePasses(c, h)
    \/ \E c \in Chain : \E due \in SUBSET store[c].inc : Ask(c, due)
    \/ Update \/ StoreHashes

(* Clocks advance and the network loop runs for ever. *)
Fairness ==
    /\ WF_vars(Update) /\ WF_vars(StoreHashes)
    /\ \A c \in Chain, h \in Block : WF_vars(TimePasses(c, h))

Spec == Init /\ [][Next]_vars
FairSpec == Spec /\ Fairness

-----------------------------------------------------------------------------

TypeOK ==
    /\ store \in [Chain -> Store]
    /\ next_rank \in [Chain -> [Block -> Nat]]
    /\ early \in [Chain -> SUBSET Block]
    /\ partial \in [Chain -> SUBSET Block] /\ committed \in [Chain -> SUBSET Block]
    /\ log \in Seq(Block) /\ missed \subseteq Nat /\ logged \in Nat

(* n blocks of the main tree of chain c are on top of block b. *)
HasOnTop(c, b, n) ==
    \E d \in store[c].main : b \in Lineage[d] /\ Depth[d] = Depth[b] + n

(* A committed block has T_DISCARD blocks of the main tree on top of it    *)
(* and every chain is that long, for ever after: whatever forks overtake   *)
(* it, a committed block can only have been abandoned by a fork deeper     *)
(* than T_DISCARD; and it was not committed without being partially so.    *)
CommittedIsBuried ==
    \A c \in Chain : \A b \in committed[c] :
        /\ b \in partial[c] \cap store[c].main
        /\ b # Genesis => /\ HasOnTop(c, b, T_DISCARD)
                          /\ \A d \in Chain : Depth[store[d].deepest] >= T_DISCARD

(* The bar would protect the order of the blocks over all chains: what     *)
(* joins the blocks that count (those up to the deepest) ranks at the bar  *)
(* or above it, so nothing is ever put before a block below the bar, but   *)
(* by a fork deeper than T_DISCARD.  (The marks of the code go beyond it.) *)
BarHolds ==
    [][AllLongEnough =>
        \A c \in Chain :
            \A b \in Lineage[store'[c].deepest] \ Lineage[store[c].deepest] :
                Buried(c, T_DISCARD) \subseteq Lineage[store'[c].deepest]
                    => next_rank'[c][Parent[b]] >= ConfirmBar]_vars

(* Blocks are committed in the order of the chain, but for the ancestors   *)
(* whose miner's clock is ahead.                                           *)
AncestorsFirst ==
    [][\A c \in Chain : \A b \in committed'[c] \ committed[c] :
          Lineage[b] \subseteq committed'[c] \cup early[c]]_vars

(* Down to the depth that is remembered, the file has one hash for every   *)
(* STORE_HASH_FREQ-th depth, in order and none twice, however the deepest  *)
(* block moved between two writes and whichever writes failed: what is not *)
(* there is what a failed write left out.  And each hash in the file was   *)
(* STORE_HASH_MINUS blocks deep or the genesis block's.                    *)
GapsAreFailures ==
    LET written == {Depth[log[i]] : i \in DOMAIN log}
    IN  /\ \A i, j \in DOMAIN log : i < j => Depth[log[i]] < Depth[log[j]]
        /\ written \cup missed = {d \in 0 .. logged - 1 : d % STORE_HASH_FREQ = 0}
        /\ written \cap missed = {}
        /\ \A i \in DOMAIN log : log[i] = Genesis \/ HasOnTop(First, log[i], STORE_HASH_MINUS)

(* What these rest on: blocks of this node are in the main tree or nowhere, *)
(* ranks grow from every block with a header to its children, ...          *)
RanksGrow ==
    \A c \in Chain :
        /\ Held(store[c]) \cap Own[c] \subseteq store[c].main
        /\ \A b \in store[c].nb \ {Genesis} :
              /\ Parent[b] \in Own[c] => Parent[b] \in store[c].main
              /\ next_rank[c][b] > next_rank[c][Parent[b]]
        /\ \A b \in Block \ Own[c] : next_rank[c][b] = NextRank[c][b]

(* ... and the file never goes deeper than the blocks that are buried.     *)
LoggedReached ==
    logged > 1 => logged - 1 + STORE_HASH_MINUS <= Depth[store[First].deepest]

IInv ==
    /\ TypeOK /\ \A c \in Chain : WellFormed(store[c])
    /\ RanksGrow /\ LoggedReached /\ CommittedIsBuried /\ GapsAreFailures

(* A block deep enough is committed in the end, or left by a deeper fork.  *)
BuriedIsCommitted ==
    \A c \in Chain, b \in Block :
        AllLongEnough /\ b \in Buried(c, T_DISCARD)
            ~> b \in committed[c] \/ b \notin Buried(c, T_DISCARD)
=============================================================================
