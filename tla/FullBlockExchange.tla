-------------------------- MODULE FullBlockExchange --------------------------
(***************************************************************************)
(* How nodes spread weak blocks and fetch their transactions: the header   *)
(* is flooded in #process_weak_block, and the body fetched with            *)
(*   #got_full_block  ->  #have_full_block  ->  #ask_full_block            *)
(*                                          ->  #full_block                *)
(* (src/code/network/process_buffer.cpp, src/code/data/Blockchain.cpp).    *)
(*                                                                         *)
(* A weak block is its hash, a number: the maps of the code are ordered by *)
(* hash and the request loop serves the smallest first.  A message may be  *)
(* lost (a peer that is not connected, a full buffer), delayed, reordered, *)
(* and processed more than once: a message stays in net until it is lost.  *)
(* Each handler and each turn of the network loop holds the blockchain     *)
(* lock, so each is one action.                                            *)
(***************************************************************************)
EXTENDS Naturals, FiniteSets

CONSTANTS
    Node,
    Miners,    \* the nodes that mine weak blocks
    Weak,      \* the hashes of the weak blocks of a run
    Cap,       \* MAX_ASK_NON_FULL_IN_ONE_GO
    Lossy      \* the kinds of message that may vanish; one never received is
               \* as good as lost, so only properties under fairness need any

VARIABLES
    header,     \* weak_store: the weak blocks each node has the header of
    full,       \* those with is_full_block
    own,        \* those it mined itself
    nonfull,    \* received_non_full_blocks
    recent,     \* entries of nonfull stamped less than an interval ago
    waiting,    \* waiting_for_full_blocks
    processed,  \* processed_full_blocks
    net         \* messages in flight

store == <<header, full, own, nonfull, recent, waiting, processed>>
vars == <<header, full, own, nonfull, recent, waiting, processed, net>>

Kind == {"process_weak_block", "got_full_block", "have_full_block",
         "ask_full_block", "full_block"}

ASSUME ExchangeAssumption ==
    /\ Miners \subseteq Node
    /\ Weak \subseteq Nat /\ IsFiniteSet(Weak)
    /\ Cap \in Nat \ {0}
    /\ Lossy \subseteq Kind

Message == [kind : Kind, hash : Weak, from : Node, to : Node]

Msg(k, w, n, p) == [kind |-> k, hash |-> w, from |-> n, to |-> p]

(* write_to_all_peers: one copy for each other node. *)
ToAll(k, W, n) == {Msg(k, w, n, p) : w \in W, p \in Node \ {n}}

Init ==
    /\ header = [n \in Node |-> {}] /\ full = [n \in Node |-> {}]
    /\ own = [n \in Node |-> {}] /\ nonfull = [n \in Node |-> {}]
    /\ recent = [n \in Node |-> {}] /\ waiting = [n \in Node |-> {}]
    /\ processed = [n \in Node |-> 0]
    /\ net = {}

(* Mutants: any block with a header counts as full; only the own ones do. *)
HaveHeader(n, w) == w \in header[n]
HaveOwn(n, w) == w \in own[n]

(* have_full_weak_block. *)
HaveFull(n, w) == w \in full[n]

(* mine_weak_block: the miner has the body at once and announces it. *)
Mine(n, w) ==
    /\ n \in Miners
    /\ \A p \in Node : w \notin own[p]
    /\ header' = [header EXCEPT ![n] = @ \cup {w}]
    /\ full' = [full EXCEPT ![n] = @ \cup {w}]
    /\ own' = [own EXCEPT ![n] = @ \cup {w}]
    /\ net' = net \cup ToAll("process_weak_block", {w}, n)
    /\ UNCHANGED <<nonfull, recent, waiting, processed>>

(* add_received_weak_block, and the relay of a header that is new. *)
ProcessWeakBlock(n, m) ==
    /\ m.kind = "process_weak_block"
    /\ m.hash \notin header[n]
    /\ header' = [header EXCEPT ![n] = @ \cup {m.hash}]
    /\ nonfull' = [nonfull EXCEPT ![n] = @ \cup {m.hash}]
    /\ net' = net \cup ToAll("process_weak_block", {m.hash}, n)
    /\ UNCHANGED <<full, own, recent, waiting, processed>>

GotFullBlock(n, m) ==
    /\ m.kind = "got_full_block"
    /\ HaveFull(n, m.hash)
    /\ net' = net \cup {Msg("have_full_block", m.hash, n, m.from)}
    /\ UNCHANGED store

(* still_waiting_for_full_block: only the first offer is taken up. *)
HaveFullBlock(n, m) ==
    /\ m.kind = "have_full_block"
    /\ ~HaveFull(n, m.hash) /\ m.hash \notin waiting[n]
    /\ waiting' = [waiting EXCEPT ![n] = @ \cup {m.hash}]
    /\ net' = net \cup {Msg("ask_full_block", m.hash, n, m.from)}
    /\ UNCHANGED <<header, full, own, nonfull, recent, processed>>

AskFullBlock(n, m) ==
    /\ m.kind = "ask_full_block"
    /\ HaveFull(n, m.hash)
    /\ net' = net \cup {Msg("full_block", m.hash, n, m.from)}
    /\ UNCHANGED store

(* The body verifies against the header: set_block_full. *)
FullBlock(n, m) ==
    /\ m.kind = "full_block"
    /\ ~HaveFull(n, m.hash)
    /\ m.hash \in header[n]
    /\ full' = [full EXCEPT ![n] = @ \cup {m.hash}]
    /\ nonfull' = [nonfull EXCEPT ![n] = @ \ {m.hash}]
    /\ recent' = [recent EXCEPT ![n] = @ \ {m.hash}]
    /\ waiting' = [waiting EXCEPT ![n] = @ \ {m.hash}]
    /\ processed' = [processed EXCEPT ![n] = @ + 1]
    /\ UNCHANGED <<header, own, net>>

Receive(m) ==
    /\ m \in net
    /\ \/ ProcessWeakBlock(m.to, m) \/ GotFullBlock(m.to, m)
       \/ HaveFullBlock(m.to, m) \/ AskFullBlock(m.to, m) \/ FullBlock(m.to, m)

(* Mutant: an off-by-one at the cap. *)
VisitedShort(n) ==
    LET due == nonfull[n] \ recent[n]
    IN  {w \in due : Cardinality({v \in due \ full[n] : v < w}) + 1 < Cap}

(* get_non_full_blocks visits the entries that are due in hash order until *)
(* Cap of them are still missing.                                          *)
Visited(n) ==
    LET due == nonfull[n] \ recent[n]
    IN  {w \in due : Cardinality({v \in due \ full[n] : v < w}) < Cap}

(* Mutant: whatever was visited is erased. *)
ErasedAll(n) == Visited(n)

(* Those found full are only erased. *)
Erased(n) == Visited(n) \cap full[n]

(* The periodic request for bodies in run_network.  remove_waiting_blocks  *)
(* forgets the offers taken up too long ago, the set late.                 *)
RequestBodies(n, late) ==
    LET missing == Visited(n) \ full[n]
    IN  /\ nonfull' = [nonfull EXCEPT ![n] = @ \ Erased(n)]
        /\ recent' = [recent EXCEPT ![n] = (@ \cup Visited(n)) \ Erased(n)]
        /\ waiting' = [waiting EXCEPT ![n] = @ \ late]
        /\ net' = net \cup ToAll("got_full_block", missing, n)
        /\ UNCHANGED <<header, full, own, processed>>

(* The interval between two requests for the same body goes by. *)
BecomesDue(n, w) ==
    /\ w \in recent[n]
    /\ recent' = [recent EXCEPT ![n] = @ \ {w}]
    /\ UNCHANGED <<header, full, own, nonfull, waiting, processed, net>>

Lose(m) ==
    /\ m.kind \in Lossy
    /\ net' = net \ {m}
    /\ UNCHANGED store

Next ==
    \/ \E n \in Node, w \in Weak : Mine(n, w) \/ BecomesDue(n, w)
    \/ \E n \in Node : \E late \in SUBSET waiting[n] : RequestBodies(n, late)
    \/ \E m \in net : Receive(m) \/ Lose(m)

Spec == Init /\ [][Next]_vars

(* The network loop runs for ever and time passes, so a pending request is *)
(* repeated and a wait times out; a message that is sent over and over is  *)
(* received sooner or later.  Nothing obliges a node to mine.  This is the *)
(* fairness of what node n fetches from node p.                            *)
Received(k, w, n, p) == Msg(k, w, n, p) \in net /\ Receive(Msg(k, w, n, p))

FetchFairness(n, p) ==
    /\ WF_vars(RequestBodies(n, {}))
    /\ \A w \in Weak :
          /\ WF_vars(BecomesDue(n, w))
          /\ WF_vars(\E late \in SUBSET waiting[n] : w \in late /\ RequestBodies(n, late))
          /\ SF_vars(Received("got_full_block", w, n, p))
          /\ SF_vars(Received("have_full_block", w, p, n))
          /\ SF_vars(Received("ask_full_block", w, n, p))
          /\ SF_vars(Received("full_block", w, p, n))

-----------------------------------------------------------------------------

TypeOK ==
    /\ header \in [Node -> SUBSET Weak] /\ full \in [Node -> SUBSET Weak]
    /\ own \in [Node -> SUBSET Weak] /\ nonfull \in [Node -> SUBSET Weak]
    /\ recent \in [Node -> SUBSET Weak] /\ waiting \in [Node -> SUBSET Weak]
    /\ processed \in [Node -> Nat]
    /\ net \subseteq Message

(* The list of bodies to ask for is exactly what is missing: a weak block  *)
(* can neither be forgotten before its body came nor be asked for after.   *)
NothingForgotten == \A n \in Node : nonfull[n] = header[n] \ full[n]

(* A node waits only for bodies it misses (#have_full_block is not checked *)
(* against the list), and the stamps are those of listed entries.          *)
WaitsForMissing ==
    \A n \in Node : waiting[n] \subseteq nonfull[n] /\ recent[n] \subseteq nonfull[n]

(* Whoever offers a body, is asked for it or sends it has it; whoever is   *)
(* offered a body, asks for it or is sent it has the header.               *)
OffersAreTrue ==
    \A m \in net :
        /\ m.kind = "got_full_block" => m.hash \in header[m.from]
        /\ m.kind \in {"have_full_block", "full_block"} => m.hash \in full[m.from] \cap header[m.to]
        /\ m.kind = "ask_full_block" => m.hash \in full[m.to] \cap header[m.from]

(* Every body is counted once, however often it is sent: the processed     *)
(* share that is printed never exceeds the weak blocks received.           *)
CountedOnce == \A n \in Node : processed[n] = Cardinality(full[n] \ own[n])

(* Hashes in stores and messages are of blocks that were mined, and a      *)
(* miner has the body of its own blocks.                                   *)
HeardWasMined ==
    LET mined == UNION {own[p] : p \in Node}
    IN  /\ \A n \in Node : own[n] \subseteq full[n] /\ full[n] \subseteq header[n]
        /\ \A n \in Node : header[n] \subseteq mined
        /\ \A m \in net : m.hash \in mined

IInv ==
    /\ TypeOK /\ HeardWasMined /\ NothingForgotten
    /\ WaitsForMissing /\ OffersAreTrue /\ CountedOnce

(* Every weak block a node heard of is complete there in the end, in spite *)
(* of lost messages, timeouts and a request loop capped at Cap blocks.     *)
BodiesArrive == \A n \in Node, w \in Weak : w \in header[n] ~> w \in full[n]
=============================================================================
