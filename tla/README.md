# Models of ResilientBlockchain

TLA+ models, TLC runs and TLAPS proofs of the node program in `src/code/`: a
proof-of-work node that keeps many parallel chains (OHIE style), mines *weak*
blocks that carry transactions and *strong* blocks that cite weak ones, and
gossips both with its peers over TCP. All paths below are relative to
`src/code/`.

## 1. The system

Two threads share one `Blockchain` object. The *network thread* runs
`io_service.run()`: it reads the connections (`tcp_connection::start` →
`process_buffer`) and, on a timer, `run_network`. The *miner thread* runs
`miner()`. Everything either does to the block chain happens while it holds
`Blockchain::lock` and the token `locker_write`, so a message handler, a turn of
`run_network` and a mining attempt are each atomic. What interleaves is the
handlers of different nodes, messages and timers, and the two threads at the lock.

| Component | State | Operations | Talks to |
|---|---|---|---|
| Strong-block store of a chain (`data/Blockchain.cpp`) | `chains[i]`, `inchains[i]` (trees parked until their parent comes, with `no_asks`), `deepest[i]`, each block's `nb`; each block is in a search tree by hash (`left`, `right`) and in the tree of blocks (`parent`, `child`, `sibling`) | `add_received_block`, `add_block_by_parent_hash_and_chain_id`, `get_incomplete_chain_hashes` | called by `process_buffer`, `mine_new_block`, `run_network` |
| Weak-block store and body exchange (`data/Blockchain.cpp`, `network/process_buffer.cpp`, `network/requests.cpp`) | `weak_store`, `is_full_block`, `received_non_full_blocks`, `waiting_for_full_blocks`, `processed_full_blocks` | handlers of `#process_weak_block`, `#got_full_block`, `#have_full_block`, `#ask_full_block`, `#full_block`; `get_non_full_blocks`, `remove_waiting_blocks` | messages between nodes |
| Strong-block exchange and citations | `besited` marks, `vec_weakblocks`, counters of valid and verified transactions | handlers of `#process_block`, `#ask_block`; `mine_new_block`, `mine_weak_block`, `set_weak_block_sited`, `get_unsited_blocks` | both stores, messages |
| Miner thread and lock (`consensus/pow/miner.cpp`, `consensus/pow/pow.cpp`) | `lock`, `can_write`, `locker_write`, `total_mined`, the pending interruption, the nested calls of `miner()` | `miner`, entering and leaving the lock in four places | the two threads; `mythread->interrupt()` |
| Commit marks and hash file | `time_partial`, `time_commited`, `last_stored_hash_depth` | `update_blocks_commited_time`, end of `run_network` | reads every chain's store |
| Ranks and trailing blocks | `rank`, `next_rank`, `trailing` | `mine_*`, `#process_block`, `confirm_bar` | several chains |
| Peer connections (`consensus/pow/pow.cpp`) | `peers[i].connected`, `session`, `_strand`, queue `_m` | `run_network` (connect), `strand_write`, `handle_write`, `close_peer_connection` | every sender |
| Framing and duplicate suppression | receive buffer, `passed` | `process_buffer`, `parse__*` | every receiver |
| Pings | `pings` | `#ping`, `add_ping` (off in the shipped configuration) | messages |
| Transactions, Merkle proofs, cryptography, configuration, printing | – | pure functions, start-up, output | – |
| `consensus/raft/`, `miner_bk.cpp` | – | not built by the `Makefile` | – |

What is hard here: blocks that arrive before their parents and are merged later,
several at a time; trees dropped while their blocks are on the way; bodies
fetched over five messages any of which may be lost, late or repeated; a request
loop with a cap; forks under commit marks that are never withdrawn; clocks of
other machines; nested calls of `miner()` with a branch chosen before the sleep;
a condition variable with a token that one path does not give back; a merge that
takes one of a store's two structures apart and keeps the other; messages cut
anywhere by reads, and repeats recognised only within one buffer; a node that
starts again with nothing. `hazards` in
`PROJECT.json` lists them line by line.

What makes each part correct: the store is a longest-chain register over the
headers it holds; a weak block heard of is fetched and counted once; a weak block
is cited once per miner and marked only if cited; one thread at a time writes
and each gets its turn; a committed block is buried, and in the end a buried one
is committed; the hash file has no gaps but those of failed writes; a message sent has exactly one fate; a
node that hears of a block gets its ancestors, and the messages end.

## 2. Modules

| Module | Models | Correspondence |
|---|---|---|
| `ChainTree` | one chain's store as pure operators | a store is a record `main` / `inc` / `nb` / `deepest`; a block is its hash, which fixes its parent and depth (`Parent`, `Depth` are constants); `Connect`, `Park` and `AddReceived` are the branches of `add_received_block`, `AskIncomplete` is `get_incomplete_chain_hashes`, `AddMined` the mined block |
| `ChainStore` | one node's store of one chain under all of them | variables `store`, `minted` (blocks that exist in the network) |
| `HashTree` | the same store as it lies in memory | `node` holds the pointers of each block and whether it has `nb`, `inchains` the list; one operator per function on nodes (`Holds`, `InsertByHash`, `InsertOneNode`, `InsertSubtree`, `AppendChild`, `Merge`). A walk along pointers is a recursive function (`Reach`); `InsertSubtree` moves the nodes one at a time, in the order of the code (`LastOf`). The list of incomplete trees is a set: its order decides nothing, for no two trees hold one hash. Where `find_max_depth` meets several deepest blocks any may win. A hash is a positive number, 0 the null pointer. It implements `ChainStore`: `main` is what hangs below the genesis block, a tree's `nodes` what hangs below its root |
| `LongestChain` | abstract: known headers and a tip | what `ChainStore` implements, with `known <- store.nb`, `tip <- store.deepest` |
| `FullBlockExchange` | weak-block headers and bodies of all nodes | one action per message handler; `RequestBodies` is the periodic block of `run_network`, `BecomesDue` the interval between two requests, `net` the messages in flight |
| `BlockRequests` | what `#process_block` and `#ask_block` send | operators on a store: how many blocks are asked for, which are served, whether a block is sent on. Used by the next two |
| `StrongBlocks` | several nodes, one chain, citations | extends `BlockRequests`, one store per node, each of which implements `ChainStore` (`StoresAreChains`); the body exchange is reduced to what `FullBlockExchange` shows: a header some peer has may arrive, then the body |
| `CatchUp` | two nodes, several chains, fair | extends `BlockRequests`, one store per node and chain; one mines, the other starts blank and may start again, which loses what it has and was about to send and what was under way to it, while its earlier requests may still be answered and the other node's queue goes out on the new connection (`close_peer_connection` leaves `_m` alone); messages arrive in order, or are lost; blocks are numbered in the order mined, so that ranks and trailing blocks follow from the numbers |
| `MinerLoop` | the two threads at the lock | `pc` per thread; `frames` the interrupted calls of `miner()`; `Enter`, `Release`, `Leave` are the lock protocol. `LoopSpec` and its parts have a prefix because one module of proofs extends this one and `ChainStore` |
| `Ledger` | several chains, commit marks, ranks, hash file | extends `ChainTree`, one store per chain; `next_rank` is a constant for blocks of other nodes and computed for its own; `Update` is `update_blocks_commited_time`, `StoreHashes` the end of `run_network`, where the file may fail to open or stop at any hash (neither is checked, and the depth is remembered before: `missed` is what was left out for ever). Two guards of `Receive` say what is assumed of the other nodes: nobody mines on a block of this node before this node has it, and a block on it ranks above it, as one its miner made with `mine_new_block` does |
| `PeerLink` | the connection to one peer and its queue | `link` is `peers[i]` with the writes under way and the handlers that are ready, in order; one action per handler, per completion and per sender. Handlers do not know which session they are for, so that of a destroyed session is only its aborted handlers |
| `BufferFraming` | one incoming connection | a message is its head (with `#`) and its tail (with `!`), the stream what is in the buffer and behind it (`Stream`); `Read` is `async_read_some` and `process_buffer` on any number of pieces; a message knows its kind, the fields of its key and the rest |
| `*Proofs` | theorems of the module they extend | section 5 |
| `MC*` | universes of blocks and symmetry for TLC | section 3 |

Abstractions. A hash is an identity (in `HashTree` a number), the
string forms of messages, Merkle proofs and signatures are left out, and a block
that is received is a block somebody mined. Times are replaced by what the code
does with them: an entry is due or not, a wait has expired or not, a `time_mined`
is past or not. Counters that only add up the sizes of sets in the state
(`partially_total`, `commited_total`, `mined_blocks`) are those sizes. A message
stays in `net` and may be received again; one that is never received stands for
one that was lost, and where a property is about fairness it can also vanish
(`Lossy`). `create__ask_block`'s depth arithmetic is kept. The suppression of
repeats within one buffer is `BufferFraming`; in the models whose messages may be
received again or never it removes only what may not happen anyway, and in
`CatchUp`, where each message arrives once, a request may be skipped when another
for the same block is still unread (`Behind`): the key of `#ask_block` leaves out
how many blocks are wanted (`requests.cpp:26`).

A definition whose comment begins with *Mutant* is not part of a model: it is a
plausible error in the operator that follows it, kept to show that the named
property notices it (`mutants` in `PROJECT.json`).

## 3. Runs

Bounds are in the `.cfg` files. `CHECK_DEADLOCK FALSE` is used where the system
may stop: the universe of blocks is used up, or the token leaked.

| Run | Bounds | Shows |
|---|---|---|
| `chain_store` | 8 blocks: a trunk of four, a branch of three, a competitor at depth 1; `MaxAsks = 2` | incomplete trees stay disjoint, exactly their roots lack a header, the tip is deepest and only deepens, the store refines `LongestChain`, and no block stays parked for ever. The universe lets two trees be joined by the block between them, a tree be linked that overtakes the tip, and a tree be dropped and parked again |
| `hash_tree` | 9 blocks whose hashes are not in the order of their depths, two forks; `MaxAsks = 2` | lookups by hash find exactly what hangs below a root, the pointers up and down agree, and the memory implements `ChainStore`, through every merge of two trees |
| `body_exchange` | 3 nodes, 2 weak blocks, cap 1, symmetric nodes | the request list is exactly what is missing, offers are true, a body is counted once. Three nodes give two rival offers; two blocks and a cap of one make one wait for the other |
| `bodies_arrive` | 2 nodes, 2 weak blocks, cap 1, fetch messages may vanish | a header that is known leads to its body |
| `strong_blocks` | 2 nodes, a chain of two and a competitor, 3 weak blocks, `MaxAsks = 1`, `MAX_ASK_BLOCKS = 2` | a miner's own citations are disjoint, a mark means a citation in the main tree, what is served has a header and citations whose bodies its miner has, a citation is counted as valid once, and the store of each node implements `ChainStore` whatever the nodes send each other |
| `catch_up` | a chain of one block and one of three, `MAX_ASK_BLOCKS = 2`, two messages lost, one restart at any moment, `MaxAsks = 3` | a block heard of leads to it being in the main tree, and to its trailing block, which may be on the other chain, if nothing was lost; the messages end. Three blocks are more than an answer holds, and a request shadowed by one for a single block, or a loss, makes it take several; block 2 trails one of chain 1, and block 3 trails block 2; the trailing block of 4 is its parent, so that the two requests meet. A restart leaves old requests that are still answered and old announcements that are still written. `CatchUpAssumption` keeps the losses below `MaxAsks`, for a tree whose every request is lost is given up |
| `miner_loop` | 5 attempts, 1 body from the network, 2 interruptions, failing files | one writer, no missed wake-up, the schedule survives interruptions, every thread gets in and the miner ends unless the token leaked, and then the node stops |
| `ledger` | chain 0 with a fork that overtakes after a commit, chain 1 with one block of others and a competitor by this node with another node's block on top; `T_DISCARD = STORE_HASH_MINUS = 1`, `STORE_HASH_FREQ = 2`: a write may have two hashes and stop between them | commits are buried and follow partial ones, go ancestors first but for clocks ahead, and happen in the end; nothing joins the chains with a rank below the bar; the hash file lacks only what failed writes left out, and has the rest in order and once |
| `peer_link` | 3 messages, any number of connections | the queue of a connected peer is never stuck, one write at a time in the order posted, a strand where the connect handler uses it, but for the two races below; a message leaves the queue in the end. Three messages let two rival chains of `handle_write` each take one off with one left between |
| `buffer_framing` | 3 messages out of 9, of every kind, two with one key | handled, skipped after a twin, lost, or still under way: each message is exactly one of these, however the stream is cut; the buffer keeps at most one message and holds back none behind it, unless two writes of the peer were mixed, and then nothing is handled until the connection is replaced. Three messages make a repeat, something behind it, and a pair that is mixed |
| `marks_missing`, `fresh_flag` | as `strong_blocks`, two weak blocks | two disagreements of code and comments, below |

The disagreements (`findings` in `PROJECT.json`):

* `process_buffer.cpp:203`: after a successful add the block is sent on and its
  weak blocks are marked. Blocks linked together with their parked ancestor get
  neither (`ConnectedIsMarked`).
* `miner.cpp:142`: `nb.besited==false;` compares where the comment says it sets.
  `FreshFlag` is what the flag may hold; `MarkedIsCited` excludes the marks that
  arise this way (`stray`) (`MinedIsUncited`).

Two more comments do not fit the code, without a run of their own:
`miner.cpp:354` says 64 weak blocks per strong one where the code mines two, and
the share of valid transactions printed (`pow.cpp:557`) may exceed one, because
valid transactions are counted at every strong block that cites them, on
whatever fork, and verified ones once per fetched body. `ValidCountedOnce` says
what does hold of the first count.

Not a disagreement, but shown: when `mine_weak_block` cannot create its
transactions it returns with `locker_write` true, and both threads wait for ever
(`LeakStopsNode`); the other liveness properties of `miner_loop` say *unless*
leaked. A block committed on a fork that is later overtaken stays committed;
`CommittedIsBuried` says how deep the fork must be. `confirm_bar`, the least
`next_rank` of the blocks that are deep enough, is compared with 0 and not used:
`BarHolds` shows that it would be a sound limit, which the marks do not keep to.

A block that is linked together with its parked ancestor is not sent on
(`Relays`), nor asked for by a node that has not heard of it: a third node behind
the one that catches up misses it until the next block. `CatchUp` therefore speaks
of two nodes that are peers.

`peer_link` holds *except* after two races, which TLC reaches: (1) `early`, a
message posted before the connection completes is written before
`strand_proceed` runs, which writes it again; from then on two chains of
`handle_write` work on one queue and a string may be freed while it is written;
(2) `overtaken`, `run_network` starts an attempt while the operations of an
earlier one are unhandled; its aborted handler then closes the new one, and a
success that is already in line posts to a null strand. The miner's thread may
also find the strand gone between its check and its post. After a null strand
the node stops in the model (`crashed`). No comment promises otherwise, so these
are hazards and not findings.

## 4. Fairness

* `ChainStore!FairSpec`: weak fairness of asking for the tree that holds a block.
  `run_network` re-arms its timer after every turn and visits every tree that is
  due. Nobody is obliged to answer.
* `FullBlockExchange!FetchFairness`: weak fairness of `RequestBodies`, of time
  passing and of expiring waits (all from the same timer), strong fairness of
  receiving each message of a fetch: TCP loses nothing while connected, and a
  message sent over and over is received sooner or later. Mining is not fair. The
  liveness run uses one miner and one fetcher: TLC cannot build the tableau of
  the fairness of every pair of nodes, and the fetch of a body involves one pair.
* `MinerLoop!Fairness`: weak fairness of what a thread does when it holds the lock
  or sleeps, strong fairness of entering, since `std::mutex` promises no order but
  the network thread sits in the poll of `io_service`, without the lock, between
  events. Interruptions are bounded by `MaxInterrupts`: with `CAN_INTERRUPT` on
  and blocks arriving faster than the miner sleeps, it really may never mine, so
  the claim is only for finitely many interruptions.
* `PeerLink!FairSpec`: weak fairness of handlers, timer and writes; strong fairness
  of an attempt that succeeds, for the claim is about a peer that can be reached:
  messages for one that is gone for good stay queued.
* `Ledger!Fairness`: the timer again, and clocks advance.
* `BufferFraming!FairSpec`: weak fairness of reading: the handler of
  `async_read_some` calls `start()` again. Sending and failing are not fair.
* `CatchUp!Spec`: weak fairness of receiving in order and of the timer. A tree that
  was never asked for is due at once, also while its parent is on the way (a new
  `block_incomplete` has `last_asked = 0`); one that was is due again when nothing is
  under way (`Due`). That is an assumption about the network: a round trip takes less
  than `ASK_FOR_INCOMPLETE_INDIVIDUAL_MILLISECONDS`; where it takes longer, a tree may
  be given up while its parent is on the way. Mining is not fair: one block that is
  heard of is enough.

## 5. Proofs

`tlapm` proves, for all values of the constants under the named assumptions, every
invariant, action property and refinement of the runs: for any number
of nodes, peers, chains, messages and weak blocks, every universe of strong blocks
with its forks, and every bound. A universe is anything with a genesis block where
each other block has a parent one less deep (`UniverseAssumption`). It may be
infinite, in width and in depth; only what was mined so far and the number of chains
are finite. In `HashTree` hashes are positive numbers (`HashAssumption`). No assumption
speaks of behaviour, but the guards of `Ledger!Receive` named above. Each invariant
`IInv` below was checked by TLC on the instance of its run before it was proved.

* `ChainTreeProofs`: what the operators on a store do. `WellFormed` is the inductive
  part of every store: the invariants of the run `chain_store`, that the main tree
  is connected, and that blocks under the root of an incomplete tree are deeper
  than it (without which parking a block could make a tree its own ancestor).
  `Connect`, `Park`, `AddReceived`, `AskIncomplete` and `AddMined` preserve it. A
  second group of lemmas is about `Lineage`, the blocks from one down to the genesis
  block: the recursive function exists (`LineageDef`), and of two blocks of a lineage
  the shallower is in the lineage of the other (`LineageIsChain`). Where one would
  argue by induction over depth, the proofs take a shallowest counterexample
  instead, whose parent is none.
* `StoreAndLockProofs`, first part (`ChainStore`): `IInv` is `WellFormed`, the type,
  and that what is held was mined. It gives the invariants of the run, `TipOnlyDeepens` and the refinement
  `ImplementsLongestChain`. The refinement rests on *a block is connected through
  known headers iff it is in the main tree* (`RootedIsTrunk`): a shallowest
  rooted block outside the main tree would have its parent inside it and be in an
  incomplete tree, whose non-root blocks have their parents in the tree.
* `StrongBlocksProofs`: `IInv` says that what nodes hold and send was mined
  (`KnownWasMined`), that a mined block stays in its miner's main tree and cites only
  what its miner has and has marked (`MinerKeeps`), and that each store is
  `WellFormed`. `OwnCitesDisjoint` follows because a mined block cites what is
  unmarked and marks it in the same step. `ValidCountedOnce` is inductive with
  `MinerKeeps`: a block adds to the count when it joins the main tree of a node that
  is not its miner, and joins it once. Every step is, for the store of one node, a
  step of `ChainStore` or none (`StrongStoresAreChains`), so the network implements
  `ChainStore` at every node (`StrongStoresImplement`).
* `LedgerProofs`: `IInv` says that ranks grow from a block to its children, also
  where blocks of this node and of others alternate (`RanksGrow`), and that the file
  never goes deeper than what is buried (`LoggedReached`). Main trees only grow and
  tips only deepen, so what was buried on a fork keeps what is on top of it
  (`CommittedIsBuried`). A block that joins the lineage of the tip while the buried
  part stays has the last buried block below it, so its parent ranks at the bar or
  above it (`BarHolds`). For the file the proof counts: between two depths that were
  remembered lie as many multiples of `STORE_HASH_FREQ` as there are hashes to append,
  one for each depth, because the lineage has one block of each; wherever a write
  stops, the depths up to there are written and the others missed
  (`WriteCoversDepths`, `GapsAreFailures`).
* `PeerLinkProofs`: `IInv` says that attempts to connect, their handlers and a
  connection exclude each other unless one `overtook` (`OneAttempt`), that at most
  one of `strand_proceed`, a write and its handler is ready or under way unless a
  race happened (`OneAtATime`), and that what was handed over, what is queued and what
  waits to be queued are in the order posted (`HandedBefore`, `QueuedInOrder`). A
  handler takes itself from the front of what is ready and then changes the link;
  one lemma says what survives the taking, and one per handler the rest.
* `BufferFramingProofs`: `IInv` gives the stream its shape: heads, each followed by
  its tail, with rising numbers, up to the first place where two writes were mixed
  (`Shape`); the four fates exclude each other (`Parted`), what was handled is older
  than what is still to come (`HandledFirst`), and without mixed writes the buffer is
  one message (`Tidy`). A read leaves an end of the stream that begins at a head with
  nothing mixed before it; so the end has the shape again, and what is in front of it
  are exactly the messages handled or skipped, all older. The first message with a
  key among those reached is no repeat, so every repeat has a handled twin. Behind
  mixed bytes in front nothing is ever reached (`MixedIsStuck`).
* `FullBlockExchangeProofs` (from `ExchangeAssumption`). `IInv` adds that what is
  held and sent was mined (`HeardWasMined`); one lemma per handler.
* `StoreAndLockProofs`, second part (`MinerLoop`, from `MinerAssumption`). `LoopIInv`
  adds `BranchCurrent`: the branch of a call that will still mine is up to date, and an
  interrupted call resumes only when all is mined; so a stale branch is never used.
  `OneWriter` contains that whoever waits, waits for a leaked token. The two parts
  belong together: a handler is one step of `ChainStore` because of `OneWriter`.
* `HashTreeProofs`: `IInv` says of the pointers that no two of a kind close a cycle
  (`Grounded`), that left of a node are smaller hashes and right of it greater ones
  (`Ordered`), that the search tree of a root and the tree of blocks below it have the
  same nodes (`Twinned`), and that a node in no tree points nowhere (`Unlinked`);
  that the trees are finite, which mining one block at a time keeps, is part of it too.
  The layers of the proof:
  - what is reached along two pointers. The recursive function exists (`ReachDef`:
    the least sets that hold a node and what it points to), depends on the pointers of
    its own nodes only (`ReachFrame`), and adding one pointer to a node that nothing
    points to adds exactly what is reached from it. `Grounded` replaces induction: a
    set of nodes that is a counterexample has one whose pointers leave it;
  - a search tree: a lookup finds exactly its nodes (`HoldsIsNodes`), inserting adds
    one (`InsertByHashAdds`), and `insert_subtree_by_hash` moves them all although it
    takes the tree apart while it goes (`InsertSubtreeMoves`, over the finite sets of
    what was moved, with `MoveAllDef` for the function and `LastIsLast` for the order);
  - the tree of blocks: appending a child hooks one tree to the end of one list
    (`AppendFacts`);
  - all trees at once: `Tidy` is the invariant for a memory and a set of roots, `Joins`
    says that one tree took in another, and planting a root, adding a block, merging,
    and dropping trees keep memories tidy;
  - the store: `Sound` is `Tidy` and `WellFormed` for what the memory stands for
    (`Stored`); each handler is shown to keep it and to be `Connect`, `Park`,
    `AskIncomplete` or `AddMined` on `Stored` (`ConnectTreeStep`, `ParkStep`,
    `AskStep`, `MineStep`).

There are two chains of refinements, both proved: `HashTree` ⇒ `ChainStore` ⇒
`LongestChain` for one store, and `StrongBlocks` ⇒ `ChainStore` for each store of a
network.

Only model-checked: all liveness (`ParkingEnds`, `BodiesArrive`, `CatchesUp`,
`TrafficEnds`, `ReadInTheEnd`, `EntersOrLeaked`, `MinerStops`, `LeakStopsNode`,
`BuriedIsCommitted`, `LeavesQueue`): fairness and ENABLED are beyond the prover. The
type invariants of the modules proved about are part of their `IInv`.

## 6. Plan

Done, in order: the chain store and its abstraction, the body exchange, strong
blocks with citations, the two threads, the ledger, the connection to a peer; then
the receive buffer, the store in memory, ranks, and catching up; then the proofs of
all safety properties, those of the store in memory last. Left:

1. Safety of `CatchUp` (which has only liveness so far): that blocks are asked for and
   served in the order of depth, with its invariant as a theorem on `ChainTreeProofs`.
2. The body exchange seen from `StrongBlocks`: that a step of `FullBlockExchange` is
   for one node a step of the reduced exchange there.

## 7. Not modelled

* Pings: they measure distances between nodes, are off in the shipped
  configuration (`PING_REPEAT` is 0) and change no block. The key by which
  their repeats are recognised is in `BufferFraming`.
* `consensus/raft/` and `miner_bk.cpp`: not built by the `Makefile`; earlier copies
  of `consensus/pow/`, the election of the former is a stub.
* The array of peers and its growth by `add_indirect_peer_if_doesnt_exist`: `PeerLink`
  is about one peer.
* The hash file of a restarted node, which is appended to from depth 0.
* Merkle proofs, signatures, transactions, random numbers: pure functions; a block
  or body in the models is one that verifies.
* Configuration, start-up, address discovery, printing, latency sums: no behaviour
  of their own.
