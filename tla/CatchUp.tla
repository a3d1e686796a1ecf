------------------------------- MODULE CatchUp -------------------------------
(***************************************************************************)
(* A node that starts with nothing but the genesis blocks, or starts again *)
(* (nothing is read back: Blockchain::Blockchain in                        *)
(* src/code/data/Blockchain.cpp), while another node mines on all chains:  *)
(* it hears of the newest block and asks its way back to the genesis       *)
(* block, some MAX_ASK_BLOCKS at a time, and again for a root when nothing *)
(* comes; and it asks for the trailing block of what it adds, which is     *)
(* mostly on another chain (#process_block in network/process_buffer.cpp). *)
(*                                                                         *)
(* A block is the number of its turn: 0 is the genesis block of every      *)
(* chain, 1 the first block mined.  Its hash decides its chain.            *)
(*                                                                         *)
(* Messages from one node to another arrive in the order they were sent    *)
(* (the queue and the strand of a peer), each once, if they are not lost.  *)
(* The interval after which a tree is asked for again is longer than a     *)
(* round trip.                                                             *)
(***************************************************************************)
EXTENDS BlockRequests, Sequences, SequencesExt

CONSTANTS
    Chain,
    ChainOf,      \* the chain of each block (of the genesis block: any)
    Source,       \* the node that mines
    Late,         \* the node that starts blank
    MaxLost,      \* bound: messages lost
    MaxRestarts   \* bound: times the late node starts again

(* The deepest block of a chain when block h is mined. *)
TipBefore(c, h) == Max({Genesis} \cup {b \in Block : b < h /\ ChainOf[b] = c})

ASSUME CatchUpAssumption ==
    /\ Genesis = 0 /\ Block \subseteq Nat /\ Chain \subseteq Nat
    /\ ChainOf \in [Block -> Chain]
    /\ \A b \in Block \ {Genesis} : Parent[b] = TipBefore(ChainOf[b], b)
    /\ Source # Late
    /\ MaxLost \in Nat /\ MaxLost < MaxAsks
    /\ MaxRestarts \in Nat

VARIABLES
    store,      \* each node's stores of strong blocks, by chain
    wire,       \* messages in flight from each node to the other
    lost,       \* how many were lost
    restarts    \* how many times the late node started again

vars == <<store, wire, lost, restarts>>

(* mine_new_block: the rank of a block is the next_rank of its parent, its *)
(* own next_rank the greatest of the tips, but more than the rank; the     *)
(* first tip that has the greatest is its trailing block.                  *)
NextRank[h \in Block] ==
    IF h = Genesis THEN 0
    ELSE Max({NextRank[TipBefore(c, h)] : c \in Chain} \cup {NextRank[Parent[h]] + 1})

Trailing[h \in Block \ {Genesis}] ==
    LET Rank(c) == NextRank[TipBefore(c, h)]
    IN  TipBefore(Min({c \in Chain : \A d \in Chain : Rank(d) <= Rank(c)}), h)

-----------------------------------------------------------------------------

Announce(h)   == <<"process_block", h>>
Request(h, k) == <<"ask_block", h, k>>

Node     == {Source, Late}
Other(n) == IF n = Source THEN Late ELSE Source

Missing(n, h) == h \notin store[n][ChainOf[h]].main

Silence == [n \in Node |-> <<>>]
Blank   == [c \in Chain |-> EmptyStore]

Init ==
    /\ store = [n \in Node |-> Blank]
    /\ wire = Silence /\ lost = 0 /\ restarts = 0

(* mine_new_block and send_block_to_peers; if the peer is not connected it *)
(* is told nothing.                                                        *)
Mine(h, up) ==
    /\ Missing(Source, h)
    /\ \A b \in Block : b < h => ~Missing(Source, b)
    /\ store' = [store EXCEPT ![Source][ChainOf[h]] = AddMined(@, h)]
    /\ wire' = IF up THEN [wire EXCEPT ![Source] = Append(@, Announce(h))] ELSE wire
    /\ UNCHANGED <<lost, restarts>>

(* A request for h behind other messages.  It is skipped if it comes in    *)
(* one buffer with another for h, whatever their sizes (BufferFraming).    *)
Behind(messages, h, k) ==
    {Append(messages, Request(h, k))} \cup
        (IF \E i \in DOMAIN messages : messages[i][1] = "ask_block" /\ messages[i][2] = h
           THEN {messages} ELSE {})

(* #process_block: the block is sent on, its trailing block and its parent *)
(* are asked for; behind are the messages that n sent before.  (The store  *)
(* is looked up as before h was added: h brings nothing older than it.)    *)
Replies(n, behind, h, after) ==
    LET S    == store[n][ChainOf[h]]
        told == IF Relays(S, after, h) THEN Append(behind, Announce(h)) ELSE behind
        trailing == IF News(S, after) /\ Missing(n, Trailing[h])
                      THEN Behind(told, Trailing[h], AskFor(0, 0)) ELSE {told}
    IN  IF NeedsParent(S, h)
          THEN UNION {Behind(m, Parent[h], AncestorsAsked(after, h)) : m \in trailing}
          ELSE trailing

ProcessBlock(n, h) ==
    \E after \in AddReceived(store[n][ChainOf[h]], h) :
    \E messages \in Replies(n, wire[n], h, after) :
        /\ store' = [store EXCEPT ![n][ChainOf[h]] = after]
        /\ wire' = [wire EXCEPT ![n] = messages, ![Other(n)] = Tail(@)]

(* #ask_block: the block first, then its ancestors. *)
AskBlock(n, h, max) ==
    \E blocks \in {Served(store[n][ChainOf[h]], h, max)} :
        /\ wire' = [wire EXCEPT ![Other(n)] = Tail(@),
             ![n] = @ \o [i \in 1 .. Cardinality(blocks) |->
                Announce(CHOOSE b \in blocks : Depth[b] = Depth[h] - i + 1)]]
        /\ UNCHANGED store

Receive(n) ==
    /\ wire[Other(n)] # <<>>
    /\ \E m \in {Head(wire[Other(n)])} :
          \/ m[1] = "process_block" /\ ProcessBlock(n, m[2])
          \/ m[1] = "ask_block" /\ AskBlock(n, m[2], m[3])
    /\ UNCHANGED <<lost, restarts>>

(* A message is dropped by write, or lost with its connection. *)
Lose(n) ==
    /\ wire[n] # <<>> /\ lost < MaxLost
    /\ wire' = [wire EXCEPT ![n] = Tail(@)] /\ lost' = lost + 1
    /\ UNCHANGED <<store, restarts>>

(* get_incomplete_chain_hashes: the trees never asked for, and the others  *)
(* when all that was asked for has come or is lost.                        *)
Due(n, c) == {t \in store[n][c].inc : t.asks = 0 \/ wire = Silence}

(* run_network. *)
AskIncompletes(n) ==
    LET due   == UNION {Due(n, c) : c \in Chain}
        roots == {t.root : t \in due \ Dropped(due)}
    IN  /\ due # {}
        /\ store' = [store EXCEPT ![n] = [c \in Chain |-> AskIncomplete(@[c], Due(n, c))]]
        /\ \E messages \in FoldSet(LAMBDA r, told :
                              UNION {Behind(m, r, AskFor(0, MaxAskBlocks)) : m \in told},
                              {wire[n]}, roots) :
              wire' = [wire EXCEPT ![n] = messages]
        /\ UNCHANGED <<lost, restarts>>

(* The late node stops and starts: its memory and its queue are lost.  The *)
(* other node still reads what had reached it, and what is left in its own *)
(* queue (closing keeps it) goes out on the new connection.                *)
Restart ==
    /\ restarts < MaxRestarts
    /\ restarts' = restarts + 1
    /\ store' = [store EXCEPT ![Late] = Blank]
    /\ \E reached \in 0 .. Len(wire[Late]), gone \in 0 .. Len(wire[Source]) :
          wire' = [wire EXCEPT ![Late] = SubSeq(@, 1, reached),
                               ![Source] = SubSeq(@, gone + 1, Len(@))]
    /\ UNCHANGED lost

Next ==
    \/ \E h \in Block \ {Genesis}, up \in BOOLEAN : Mine(h, up)
    \/ \E n \in Node : Receive(n) \/ Lose(n) \/ AskIncompletes(n)
    \/ Restart

(* Messages are received and the timers run; nobody has to mine. *)
Spec ==
    /\ Init /\ [][Next]_vars
    /\ \A n \in Node : WF_vars(Receive(n)) /\ WF_vars(AskIncompletes(n))

-----------------------------------------------------------------------------

(* A block that is heard of once leads to it and all its ancestors being   *)
(* in the main tree, however far back they go and though MaxLost messages  *)
(* are lost, when the node starts no more: no tree is given up before it   *)
(* was asked for MAX_ASKS times without an answer.  Its trailing block,    *)
(* which is asked for once and never again, is there too if none was lost. *)
CatchesUp ==
    \A b \in Block \ {Genesis} :
        restarts = MaxRestarts /\ b \in store[Late][ChainOf[b]].nb ~>
            ~Missing(Late, b) /\ (lost = 0 => ~Missing(Late, Trailing[b]))

(* The messages that one block sets off come to an end: announcements do   *)
(* not go round, and requests stop when nothing is missing.                *)
TrafficEnds == <>[](wire = Silence)
=============================================================================
