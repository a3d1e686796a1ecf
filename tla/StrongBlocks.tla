----------------------------- MODULE StrongBlocks -----------------------------
(***************************************************************************)
(* Nodes mining strong blocks that cite weak blocks, exchanging them and   *)
(* asking each other for missing parents: #process_block and #ask_block    *)
(* (src/code/network/process_buffer.cpp), mine_new_block and               *)
(* mine_weak_block (src/code/consensus/pow/miner.cpp), on top of the store *)
(* of ChainTree and the messages of BlockRequests, for one of the         *)
(* chains.                                                                 *)
(*                                                                         *)
(* The exchange of weak blocks (FullBlockExchange) is reduced to what it   *)
(* promises: a header some node has may arrive, then the body.  A message  *)
(* stays in net: it may be received late, again, out of order or never.    *)
(* Every action holds the blockchain lock of its node.                     *)
(***************************************************************************)
EXTENDS BlockRequests

CONSTANTS
    Node,
    Peers,          \* the peers of each node, both ways
    Weak,           \* the weak blocks of this chain
    FreshFlag       \* what besited may hold after network_block nb; is
                    \* declared: no code sets it

ASSUME StrongAssumption ==
    /\ Peers \in [Node -> SUBSET Node]
    /\ \A n, p \in Node : p \in Peers[n] <=> n \in Peers[p]
    /\ FreshFlag \subseteq BOOLEAN /\ FreshFlag # {}

VARIABLES
    store,      \* each node's store of strong blocks
    header,     \* each node's weak blocks
    body,       \* those it has in full
    besited,    \* those it has marked as cited
    valid,      \* no_valid_transactions, in weak blocks
    verified,   \* no_verified_transactions, in weak blocks
    miner,      \* the strong blocks mined so far, and by which node
    cites,      \* the weak blocks each of them cites
    stray,      \* weak blocks whose flag was TRUE from the start, by chance
    net         \* messages sent

weakVars == <<header, body, verified>>
vars == <<store, header, body, besited, valid, verified, miner, cites, stray, net>>

Minted == DOMAIN miner

Announce(h, n)      == [type |-> "process_block", hash |-> h, to |-> n]
Request(h, k, n, p) == [type |-> "ask_block", hash |-> h, max |-> k, from |-> n, to |-> p]

AnnounceToPeers(h, n)   == {Announce(h, p) : p \in Peers[n]}
RequestToPeers(h, k, n) == {Request(h, k, n, p) : p \in Peers[n]}

(* A new weak block enters a store with whatever its flag happens to hold. *)
FreshMark(n, w) ==
    \E flag \in FreshFlag :
        /\ besited' = [besited EXCEPT ![n] = IF flag THEN @ \cup {w} ELSE @]
        /\ stray' = [stray EXCEPT ![n] = IF flag THEN @ \cup {w} ELSE @]

Init ==
    /\ store = [n \in Node |-> EmptyStore]
    /\ header = [n \in Node |-> {}] /\ body = [n \in Node |-> {}]
    /\ besited = [n \in Node |-> {}] /\ stray = [n \in Node |-> {}]
    /\ valid = [n \in Node |-> 0] /\ verified = [n \in Node |-> 0]
    /\ miner = <<>> /\ cites = <<>>
    /\ net = {}

-----------------------------------------------------------------------------

(* mine_weak_block. *)
MineWeak(n, w) ==
    /\ \A p \in Node : w \notin header[p]
    /\ header' = [header EXCEPT ![n] = @ \cup {w}]
    /\ body' = [body EXCEPT ![n] = @ \cup {w}]
    /\ FreshMark(n, w)
    /\ UNCHANGED <<store, valid, verified, miner, cites, net>>

(* add_received_weak_block. *)
LearnHeader(n, w) ==
    /\ w \notin header[n]
    /\ \E p \in Peers[n] : w \in header[p]
    /\ header' = [header EXCEPT ![n] = @ \cup {w}]
    /\ FreshMark(n, w)
    /\ UNCHANGED <<store, body, valid, verified, miner, cites, net>>

(* set_block_full and additional_verified_transaction. *)
LearnBody(n, w) ==
    /\ w \in header[n] \ body[n]
    /\ \E p \in Peers[n] : w \in body[p]
    /\ body' = [body EXCEPT ![n] = @ \cup {w}]
    /\ verified' = [verified EXCEPT ![n] = @ + 1]
    /\ UNCHANGED <<store, header, besited, valid, miner, cites, stray, net>>

(* Mutant: the flag is not looked at. *)
UnsitedMarked(n) == body[n]

(* get_unsited_blocks. *)
Unsited(n) == body[n] \ besited[n]

(* Mutant: the deepest block is read before the last one was added. *)
TipStale(n) == IF store[n].deepest = Genesis THEN Genesis ELSE Parent[store[n].deepest]

(* get_deepest_child_by_chain_id. *)
Tip(n) == store[n].deepest

(* mine_new_block: it cites and marks every complete weak block not marked *)
(* yet; without any there is no block.                                     *)
MineStrong(n, h) ==
    /\ h \notin Minted /\ Parent[h] = Tip(n)
    /\ Unsited(n) # {}
    /\ cites' = [b \in Minted \cup {h} |-> IF b = h THEN Unsited(n) ELSE cites[b]]
    /\ miner' = [b \in Minted \cup {h} |-> IF b = h THEN n ELSE miner[b]]
    /\ besited' = [besited EXCEPT ![n] = @ \cup Unsited(n)]
    /\ store' = [store EXCEPT ![n] = AddMined(@, h)]
    /\ net' = net \cup AnnounceToPeers(h, n)
    /\ UNCHANGED <<weakVars, valid, stray>>

(* set_weak_block_sited. *)
Sited(n, W) == W \cap header[n]

(* Mutant: every block cited counts. *)
CountedUnseen(n, W) == W

(* additional_valid_transaction: the blocks cited that are here in full. *)
Counted(n, W) == W \cap body[n]

(* #process_block.  The citations of the block are marked and counted when *)
(* it is sent on.  With one chain its trailing block is its parent, asked  *)
(* for by its own when it is missing.                                      *)
ProcessBlock(n, h) ==
    /\ Announce(h, n) \in net
    /\ \E after \in AddReceived(store[n], h) :
        LET main == Relays(store[n], after, h)
        IN  /\ News(store[n], after)
            /\ store' = [store EXCEPT ![n] = after]
            /\ besited' = IF main THEN [besited EXCEPT ![n] = @ \cup Sited(n, cites[h])]
                                  ELSE besited
            /\ valid' = IF main THEN [valid EXCEPT ![n] = @ + Cardinality(Counted(n, cites[h]))]
                                ELSE valid
            /\ net' = net \cup (IF main THEN AnnounceToPeers(h, n) ELSE {})
                          \cup (IF NeedsParent(store[n], h)
                                  THEN RequestToPeers(Parent[h], 1, n)
                                       \cup RequestToPeers(Parent[h], AncestorsAsked(after, h), n)
                                  ELSE {})
    /\ UNCHANGED <<weakVars, miner, cites, stray>>

(* #ask_block. *)
AskBlock(m) ==
    /\ m \in net /\ m.type = "ask_block"
    /\ net' = net \cup {Announce(b, m.from) : b \in Served(store[m.to], m.hash, m.max)}
    /\ UNCHANGED <<store, weakVars, besited, valid, miner, cites, stray>>

(* run_network: the trees that are due, asked for or dropped. *)
AskIncompletes(n, due) ==
    /\ due # {}
    /\ store' = [store EXCEPT ![n] = AskIncomplete(@, due)]
    /\ net' = net \cup UNION {RequestToPeers(t.root, AskFor(0, MaxAskBlocks), n) :
                                t \in due \ Dropped(due)}
    /\ UNCHANGED <<weakVars, besited, valid, miner, cites, stray>>

Next ==
    \/ \E n \in Node, w \in Weak : MineWeak(n, w) \/ LearnHeader(n, w) \/ LearnBody(n, w)
    \/ \E n \in Node, h \in Block \ {Genesis} : MineStrong(n, h) \/ ProcessBlock(n, h)
    \/ \E m \in net : AskBlock(m)
    \/ \E n \in Node : \E due \in SUBSET store[n].inc : AskIncompletes(n, due)

Spec == Init /\ [][Next]_vars

-----------------------------------------------------------------------------

Message ==
    [type : {"process_block"}, hash : Block \ {Genesis}, to : Node]
        \cup [type : {"ask_block"}, hash : Block, max : Nat, from : Node, to : Node]

TypeOK ==
    /\ store \in [Node -> Store]
    /\ header \in [Node -> SUBSET Weak] /\ body \in [Node -> SUBSET Weak]
    /\ besited \in [Node -> SUBSET Weak] /\ stray \in [Node -> SUBSET Weak]
    /\ \A n \in Node : body[n] \subseteq header[n] /\ besited[n] \subseteq header[n]
    /\ valid \in [Node -> Nat] /\ verified \in [Node -> Nat]
    /\ Minted \subseteq Block \ {Genesis}
    /\ miner \in [Minted -> Node] /\ cites \in [Minted -> SUBSET Weak]
    /\ net \subseteq Message

(* A node never cites a weak block twice, on whatever fork it mines: once  *)
(* marked, by its own block or by another's, a weak block stays marked.    *)
OwnCitesDisjoint ==
    \A b, c \in Minted : b # c /\ miner[b] = miner[c] => cites[b] \cap cites[c] = {}

(* A mark means a citation: a weak block marked other than by chance is    *)
(* cited by a block of the node's main tree, so that a miner never skips   *)
(* one on the word of a block that is not there.                           *)
MarkedIsCited ==
    \A n \in Node : \A w \in besited[n] \ stray[n] :
        \E b \in store[n].main \ {Genesis} : w \in cites[b]

(* What is sent in answer to a request can be parsed and used: it has a    *)
(* header (the walk through the parents stops before the root of an        *)
(* incomplete tree, which has none), it cites something                    *)
(* (parse__process_block expects that), and its miner has what it cites.   *)
ServedAreWhole ==
    \A n \in Node, h \in Block : \A b \in Served(store[n], h, MaxAskBlocks) :
        /\ b \in store[n].nb
        /\ cites[b] # {} /\ cites[b] \subseteq body[miner[b]]

(* What node n may have counted as valid: the citations, in the blocks of *)
(* other nodes in its main tree, of weak blocks that it has in full.       *)
Countable(n) ==
    {c \in (Minted \cap store[n].main) \X body[n] :
        miner[c[1]] # n /\ c[2] \in cites[c[1]]}

(* However often and from wherever a block is received, what it cites is   *)
(* counted as valid once, and only if it is here.                          *)
ValidCountedOnce == \A n \in Node : valid[n] <= Cardinality(Countable(n))

(* What the four properties rest on: nobody holds or announces a block     *)
(* that was not mined ...                                                  *)
KnownWasMined ==
    /\ \A n \in Node : Held(store[n]) \subseteq Minted \cup {Genesis}
    /\ \A b \in Minted : Parent[b] \in Minted \cup {Genesis}
    /\ \A m \in net : m.type = "process_block" => m.hash \in Minted

(* ... and its miner keeps it, with all that it cites, marked for good.    *)
MinerKeeps ==
    \A b \in Minted :
        /\ b \in store[miner[b]].main /\ cites[b] # {}
        /\ cites[b] \subseteq body[miner[b]] \cap besited[miner[b]]

IInv ==
    /\ TypeOK /\ KnownWasMined /\ MinerKeeps
    /\ \A n \in Node : WellFormed(store[n])
    /\ IsFiniteSet(Minted) /\ \A n \in Node : IsFiniteSet(body[n])
    /\ OwnCitesDisjoint /\ MarkedIsCited /\ ValidCountedOnce

(* After a block is added the weak blocks it cites are marked (the comment *)
(* at process_buffer.cpp:203).                                             *)
ConnectedIsMarked ==
    [][\A n \in Node : \A h \in store'[n].main \ store[n].main :
          cites'[h] \cap header'[n] \subseteq besited'[n]]_vars

(* A weak block that was just mined is not marked as cited (the comment at *)
(* pow/miner.cpp:142).                                                     *)
MinedIsUncited ==
    [][\A n \in Node, w \in Weak : MineWeak(n, w) => w \notin besited'[n]]_vars

(* Each node's store behaves as the store of one chain, whatever the nodes *)
(* send each other: the others mine elsewhere.                             *)
Chain(n) == INSTANCE ChainStore WITH store <- store[n], minted <- Minted \cup {Genesis}
StoresAreChains ==
    /\ \A n \in Node : Chain(n)!Init
    /\ [][\A n \in Node : [Chain(n)!Next]_(Chain(n)!vars)]_vars
=============================================================================
