------------------------------ MODULE PeerLink ------------------------------
(***************************************************************************)
(* The connection of a node to one of its peers and the queue of messages  *)
(* to it (tcp_server in src/code/consensus/pow/pow.cpp, struct Peers in    *)
(* pow.hpp): run_network connects, strand_write queues, write hands the    *)
(* front message to the socket, handle_write takes it off the queue, an    *)
(* error closes the connection.                                            *)
(*                                                                         *)
(* One thread runs the handlers, in the order io_service has them ready;   *)
(* what a strand is given is taken to be ready at once.  The miner's       *)
(* thread only posts to the strand, but without excluding the handlers of  *)
(* connecting and writing, which do not take the blockchain lock.          *)
(***************************************************************************)
EXTENDS Naturals, Sequences, SequencesExt

CONSTANTS
    MaxMessages,     \* bound: messages posted to the peer
    SetupFails       \* whether making a session, strand or endpoint may throw

ASSUME PeerLinkAssumption == MaxMessages \in Nat /\ SetupFails \in BOOLEAN

VARIABLES
    link,            \* peers[i] and the operations under way for it
    crashed,         \* "no", or where the null strand was used
    miner,           \* the miner's thread in write_to_all_peers: away or posting
    posted,          \* messages so far; a message is its number
    handed,          \* history: the messages given to a socket, in order
    early,           \* history: a message was written before a pending strand_proceed
    overtaken        \* history: an attempt began with earlier operations unhandled

vars == <<link, crashed, miner, posted, handed, early, overtaken>>

(* connected, session, _strand (whether it is non-null) and the queue _m   *)
(* of peers[i]; the async_writes of the session that are not completed;    *)
(* the handlers that are ready, among them the turns of run_network.  A    *)
(* session is made (idle), its socket connecting or open.                  *)
NewLink == [connected |-> FALSE, session |-> "none", strand |-> FALSE,
            m |-> <<>>, writes |-> <<>>, ready |-> <<>>]

Handler == [op : {"turn", "proceed"}] \cup [op : {"connect", "wrote"}, ok : BOOLEAN]
             \cup [op : {"write"}, msg : 1 .. MaxMessages]

Ready(l, h) == [l EXCEPT !.ready = Append(@, h)]
IsReady(l, ops) == \E h \in ToSet(l.ready) : h.op \in ops

(* Writes under way: given to the socket and not yet handled; each is at a *)
(* place among the writes or, completed, among the handlers that are ready.*)
Outstanding(l) ==
    ({"socket"} \X DOMAIN l.writes) \cup
    ({"ready"} \X {i \in DOMAIN l.ready : l.ready[i].op = "wrote"})

Init ==
    /\ link = NewLink /\ crashed = "no" /\ miner = "away" /\ posted = 0
    /\ handed = <<>> /\ early = FALSE /\ overtaken = FALSE

-----------------------------------------------------------------------------
(* The socket of the session is destroyed with it: the handlers of what it *)
(* was doing become ready, with an error.                                  *)
Destroyed(l) ==
    [l EXCEPT !.writes = <<>>,
              !.ready = @ \o (IF l.session = "connecting"
                                THEN <<[op |-> "connect", ok |-> FALSE]>> ELSE <<>>)
                          \o [i \in 1 .. Len(l.writes) |-> [op |-> "wrote", ok |-> FALSE]]]

(* close_peer_connection: the queue is kept.                               *)
ClosePeerConnection(l) ==
    [Destroyed(l) EXCEPT !.session = "none", !.connected = FALSE, !.strand = FALSE]

CanSend(l) == l.session # "none" /\ l.connected /\ l.strand

(* write: without a connection the message is dropped as if written, and   *)
(* so are those behind it.                                                 *)
Write(l) ==
    IF CanSend(l) THEN [l EXCEPT !.writes = Append(@, Head(l.m))]
                  ELSE [l EXCEPT !.m = <<>>]

(* Mutant: an error is looked at first, and the message is not taken off.  *)
KeepOnError(l, ok) ==
    CASE l.m = <<>>       -> l
      [] l.m # <<>> /\ ~ok -> ClosePeerConnection(l)
      [] OTHER -> LET rest == [l EXCEPT !.m = Tail(@)]
                  IN IF rest.m # <<>> THEN Write(rest) ELSE rest

HandleWrite(l, ok) ==
    LET rest == [l EXCEPT !.m = Tail(@)] IN
    CASE l.m = <<>>                     -> l
      [] l.m # <<>> /\ ~ok              -> ClosePeerConnection(rest)
      [] l.m # <<>> /\ ok /\ rest.m # <<>> -> Write(rest)
      [] OTHER                          -> rest

(* Mutant: written at once, behind whatever is under way.                  *)
WriteAtOnce(l, msg) ==
    IF CanSend(l) THEN [l EXCEPT !.m = Append(@, msg), !.writes = Append(@, msg)]
                  ELSE [l EXCEPT !.m = <<>>]

StrandWrite(l, msg) ==
    LET queued == [l EXCEPT !.m = Append(@, msg)]
    IN IF Len(queued.m) > 1 THEN queued ELSE Write(queued)

StrandProceed(l) == IF l.m # <<>> THEN Write(l) ELSE l

(* Mutant: the queue that is left is not taken up again.                   *)
ConnectedOnly(l) == [l EXCEPT !.connected = TRUE]

(* The handler of async_connect, without an error.                         *)
Connected(l) == Ready([l EXCEPT !.connected = TRUE], [op |-> "proceed"])

(* Mutant: a strand is not made.                                           *)
NoStrand(l) == l

(* A strand is made if there is none.                                      *)
WithStrand(l) == [l EXCEPT !.strand = TRUE]

(* run_network for a peer that is not connected; how far it comes.         *)
Connecting(l, how) ==
    LET made == [Destroyed(l) EXCEPT !.session = "idle"] IN
    CASE how = "no_session"  -> l
      [] how = "no_strand"   -> made
      [] how = "no_endpoint" -> WithStrand(made)
      [] how = "connect"     -> [WithStrand(made) EXCEPT !.session = "connecting"]

-----------------------------------------------------------------------------
(* The handler that comes next, and the link without it.                   *)
Comes(op)  == crashed = "no" /\ link.ready # <<>> /\ Head(link.ready).op = op
Popped     == [link EXCEPT !.ready = Tail(@)]

(* What a handler does to the link; what it gives to the socket is noted.  *)
Becomes(l) ==
    /\ link' = l
    /\ handed' = IF Len(l.writes) > Len(link.writes)
                   THEN Append(handed, Last(l.writes)) ELSE handed

(* A turn of run_network in which connecting is due, under the lock.       *)
RunNetwork(how) ==
    /\ Comes("turn") /\ miner = "away"
    /\ how # "connect" => SetupFails
    /\ how = "no_strand" => ~link.strand
    /\ IF link.connected
         THEN Becomes(Popped) /\ UNCHANGED overtaken
         ELSE /\ Becomes(Connecting(Popped, how))
              /\ overtaken' = \/ overtaken
                              \/ link.session = "connecting"
                              \/ IsReady(link, {"connect", "wrote"})
    /\ UNCHANGED <<crashed, miner, posted, early>>

HandleConnect ==
    /\ Comes("connect")
    /\ Becomes(IF Head(link.ready).ok THEN Connected(Popped) ELSE ClosePeerConnection(Popped))
    /\ crashed' = IF Head(link.ready).ok /\ ~link.strand THEN "connect" ELSE "no"
    /\ UNCHANGED <<miner, posted, early, overtaken>>

HandleWrote ==
    /\ Comes("wrote")
    /\ Becomes(HandleWrite(Popped, Head(link.ready).ok))
    /\ UNCHANGED <<crashed, miner, posted, early, overtaken>>

HandleStrandWrite ==
    /\ Comes("write")
    /\ Becomes(StrandWrite(Popped, Head(link.ready).msg))
    /\ early' = (early \/ (link.writes # link'.writes /\ IsReady(link, {"proceed"})))
    /\ UNCHANGED <<crashed, miner, posted, overtaken>>

HandleStrandProceed ==
    /\ Comes("proceed")
    /\ Becomes(StrandProceed(Popped))
    /\ UNCHANGED <<crashed, miner, posted, early, overtaken>>

-----------------------------------------------------------------------------
(* The timer, the sockets and the senders. *)

Keep == UNCHANGED <<handed, early, overtaken>>

(* CONNECT_TO_PEERS_MILLISECONDS have passed.                              *)
TimerExpires ==
    /\ crashed = "no" /\ ~IsReady(link, {"turn"})
    /\ link' = Ready(link, [op |-> "turn"])
    /\ UNCHANGED <<crashed, miner, posted>> /\ Keep

ConnectCompletes(ok) ==
    /\ crashed = "no" /\ link.session = "connecting"
    /\ link' = Ready([link EXCEPT !.session = IF ok THEN "open" ELSE "idle"],
                     [op |-> "connect", ok |-> ok])
    /\ UNCHANGED <<crashed, miner, posted>> /\ Keep

(* A write of the session completes; one of a socket that could not be     *)
(* connected fails.                                                        *)
WriteCompletes(i, ok) ==
    /\ crashed = "no" /\ i <= Len(link.writes)
    /\ link.session = "open" \/ (link.session = "idle" /\ ~ok)
    /\ link' = Ready([link EXCEPT !.writes = RemoveAt(@, i)], [op |-> "wrote", ok |-> ok])
    /\ UNCHANGED <<crashed, miner, posted>> /\ Keep

Post == /\ link' = Ready(link, [op |-> "write", msg |-> posted + 1])
        /\ posted' = posted + 1

(* write_to_all_peers or write_to_one_peer in a handler that has the lock. *)
NetworkSends ==
    /\ crashed = "no" /\ miner = "away" /\ posted < MaxMessages
    /\ link.strand /\ Post
    /\ UNCHANGED <<crashed, miner>> /\ Keep

(* write_to_all_peers of the miner: the strand is seen ...                 *)
MinerSees ==
    /\ crashed = "no" /\ miner = "away" /\ posted < MaxMessages
    /\ link.strand /\ miner' = "posting"
    /\ UNCHANGED <<link, crashed, posted>> /\ Keep

(* ... and used; if it was closed in between, the compiled code may have   *)
(* kept the pointer, or reads the null one.                                *)
MinerPosts ==
    /\ crashed = "no" /\ miner = "posting" /\ miner' = "away"
    /\ \/ Post /\ UNCHANGED crashed
       \/ ~link.strand /\ crashed' = "miner" /\ UNCHANGED <<link, posted>>
    /\ Keep

Setup == {"no_session", "no_strand", "no_endpoint", "connect"}
Handle == \/ \E how \in Setup : RunNetwork(how)
          \/ HandleConnect \/ HandleWrote \/ HandleStrandWrite \/ HandleStrandProceed
SomeWriteCompletes == \E ok \in BOOLEAN : \E i \in 1 .. Len(link.writes) : WriteCompletes(i, ok)

Next == \/ Handle
        \/ TimerExpires
        \/ \E ok \in BOOLEAN : ConnectCompletes(ok)
        \/ SomeWriteCompletes
        \/ NetworkSends \/ MinerSees \/ MinerPosts

Spec == Init /\ [][Next]_vars

(* The thread of io_service handles what is ready, the timer is set again  *)
(* after every turn, a write completes or fails; a peer that is asked      *)
(* again and again is reached at last, and memory is found at last.        *)
FairSpec == /\ Spec
            /\ WF_vars(Handle) /\ WF_vars(TimerExpires) /\ WF_vars(SomeWriteCompletes)
            /\ WF_vars(MinerPosts)
            /\ SF_vars(RunNetwork("connect")) /\ SF_vars(ConnectCompletes(TRUE))

-----------------------------------------------------------------------------
(* The queue of a connected peer never gets stuck: while it holds messages *)
(* one is being written, or strand_proceed is to come (strand_write leaves *)
(* a message behind others to handle_write).                               *)
QueueIsPumped ==
    (crashed = "no" /\ link.connected /\ link.m # <<>>)
      => Outstanding(link) # {} \/ IsReady(link, {"proceed"})

(* The handler of async_connect posts to a strand without looking: it is   *)
(* there unless a new attempt began before the old one was done with; and  *)
(* a strand, or a write under way, is never there without its session.     *)
StrandIsThere ==
    /\ crashed = "connect" => overtaken
    /\ link.strand \/ link.writes # <<>> => link.session # "none"

(* One write at a time, of the message at the front of the queue, whose    *)
(* string it reads, except after one of two races: strand_write started a  *)
(* write before strand_proceed did, or attempts overlapped.                *)
OneWrite ==
    early \/ overtaken \/ ( /\ \A x, y \in Outstanding(link) : x = y
                            /\ link.writes # <<>> => /\ link.m # <<>>
                                                     /\ Head(link.writes) = Head(link.m) )

(* Across failures and new connections messages are given to the socket in *)
(* the order posted and never again, but for the same races.               *)
HandedInOrder ==
    early \/ overtaken \/ \A i \in 1 .. Len(handed) - 1 : handed[i] < handed[i + 1]

-----------------------------------------------------------------------------
(* The types, and a message that a thread is about to post has a number.   *)
Link == [connected : BOOLEAN, session : {"none", "idle", "connecting", "open"},
         strand : BOOLEAN, m : Seq(1 .. MaxMessages),
         writes : Seq(1 .. MaxMessages), ready : Seq(Handler)]

TypeOK ==
    /\ link \in Link
    /\ crashed \in {"no", "connect", "miner"} /\ miner \in {"away", "posting"}
    /\ posted \in 0 .. MaxMessages /\ (miner = "posting" => posted < MaxMessages)
    /\ handed \in Seq(1 .. MaxMessages) /\ early \in BOOLEAN /\ overtaken \in BOOLEAN

ReadyAt(l, ops) == {i \in DOMAIN l.ready : l.ready[i].op \in ops}

(* While attempts do not overlap, one that is under way, or whose handler  *)
(* is ready, has its strand and is alone, and who is connected is through. *)
OneAttempt(l) ==
    /\ l.session = "connecting" \/ ReadyAt(l, {"connect"}) # {}
         => l.strand /\ ~l.connected /\ ReadyAt(l, {"wrote"}) = {}
    /\ l.session = "connecting" => ReadyAt(l, {"connect"}) = {}
    /\ \A i, j \in ReadyAt(l, {"connect"}) : i = j
    /\ \A i \in ReadyAt(l, {"connect"}) : l.ready[i].ok => l.session = "open"
    /\ l.connected => l.session = "open" /\ l.strand

(* Without the two races strand_proceed, a write and its handler take      *)
(* turns, on a connection, and the message stays in front meanwhile.       *)
OneAtATime(l) ==
    /\ \A i, j \in ReadyAt(l, {"proceed", "wrote"}) : i = j
    /\ ReadyAt(l, {"proceed", "wrote"}) # {} => l.connected /\ l.writes = <<>>
    /\ Len(l.writes) <= 1
    /\ Outstanding(l) # {} => l.m # <<>>
    /\ l.writes # <<>> => l.writes[1] = l.m[1]

Rises(s) == \A i, j \in DOMAIN s : i < j => s[i] < s[j]

(* Messages are queued, and wait to be queued, in the order posted; n are. *)
QueuedInOrder(l, n) ==
    /\ Rises(l.m)
    /\ \A i, j \in ReadyAt(l, {"write"}) : i < j => l.ready[i].msg < l.ready[j].msg
    /\ \A i \in ReadyAt(l, {"write"}) :
          l.ready[i].msg <= n /\ \A k \in DOMAIN l.m : l.m[k] < l.ready[i].msg
    /\ \A k \in DOMAIN l.m : l.m[k] <= n

(* What was handed to a socket, hs, was posted before what is in the queue *)
(* or waits for it; only the message in front may be one that is written.  *)
HandedBefore(hs, l, n) ==
    /\ Rises(hs)
    /\ \A i \in DOMAIN hs :
          /\ hs[i] <= n
          /\ \A j \in ReadyAt(l, {"write"}) : hs[i] < l.ready[j].msg
          /\ \A k \in DOMAIN l.m :
                hs[i] <= l.m[k] /\ (Outstanding(l) = {} => hs[i] < l.m[k])

(* The inductive invariant.                                                *)
IInv ==
    /\ TypeOK /\ QueueIsPumped /\ StrandIsThere
    /\ ~link.connected => link.writes = <<>>
    /\ QueuedInOrder(link, posted)
    /\ overtaken \/ OneAttempt(link)
    /\ early \/ overtaken \/ (OneAtATime(link) /\ HandedBefore(handed, link, posted))

(* A queued message is written or given up at last, if the peer can be     *)
(* reached again and no null strand is used.                               *)
LeavesQueue ==
    \A k \in 1 .. MaxMessages :
        k \in ToSet(link.m) ~> (k \notin ToSet(link.m) \/ crashed # "no")
=============================================================================
