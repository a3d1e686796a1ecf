---------------------------- MODULE BufferFraming ----------------------------
(***************************************************************************)
(* One incoming connection: the bytes of the peer's messages arrive in     *)
(* pieces of any size (tcp_connection::start, consensus/pow/pow.cpp), are  *)
(* appended to full_buffer, and process_buffer                             *)
(* (network/process_buffer.cpp) cuts the buffer at each '#', handles the   *)
(* messages that end in '!' and keeps the rest for the next read.          *)
(*                                                                         *)
(* A message is cut in two: its head, which starts with '#', and its tail, *)
(* which ends in '!'.  A message is what decides whether it is taken for a *)
(* repeat: its kind, the fields in the key of parse__*, and the others.    *)
(* The peer writes one message after the other, except when two of its     *)
(* writes overlap (PeerLink!OneWrite says when): their bytes are mixed.    *)
(***************************************************************************)
EXTENDS Naturals, Sequences, FiniteSets, SequencesExt

CONSTANTS
    Message,   \* the messages the peer may send
    MaxSent    \* bound: how many it sends

ASSUME FramingAssumption == MaxSent \in Nat

VARIABLES
    sent,      \* all messages sent, in order: a message is its place here
    wire,      \* pieces on their way on the connection
    buffer,    \* full_buffer
    handled,   \* messages handled, in the order of handling
    skipped,   \* messages taken for repeats and dropped
    lost,      \* messages lost with a connection
    torn       \* two writes overlapped on this connection

vars == <<sent, wire, buffer, handled, skipped, lost, torn>>

Head_(i) == [id |-> i, part |-> "head"]
Tail_(i) == [id |-> i, part |-> "tail"]

(* The messages of requests.cpp, without the sender, who is always this peer. *)
Ping(name, hops)     == [kind |-> "#ping", key |-> <<>>, rest |-> <<name, hops>>]
AskBlock(c, h, max)  == [kind |-> "#ask_block", key |-> <<c, h>>, rest |-> max]
SendBlock(c, p, h)   == [kind |-> "#process_block", key |-> <<c, p, h>>, rest |-> <<>>]
SendWeak(c, p, h)    == [kind |-> "#process_weak_block", key |-> <<c, p, h>>, rest |-> <<>>]
GotFullBlock(c, h)   == [kind |-> "#got_full_block", key |-> <<c, h>>, rest |-> <<>>]
HaveFullBlock(c, h)  == [kind |-> "#have_full_block", key |-> <<c, h>>, rest |-> <<>>]
AskFullBlock(c, h)   == [kind |-> "#ask_full_block", key |-> <<c, h>>, rest |-> <<>>]
FullBlock(c, h, txs) == [kind |-> "#full_block", key |-> <<c, h>>, rest |-> txs]

(* key_present. *)
SameKey(m, n) == m.kind = n.kind /\ m.key = n.key

-----------------------------------------------------------------------------

Heads(b) == {i \in DOMAIN b : b[i].part = "head"}

(* What starts with the '#' at i ends in '!' where the next '#' or the end *)
(* of the buffer comes.                                                    *)
Complete(b, i) ==
    b[Min({j \in i .. Len(b) : j = Len(b) \/ j + 1 \in Heads(b)})].part = "tail"

(* Mutants: an unfinished message is passed over; the last message waits   *)
(* for the next.                                                           *)
ReachedBeyond(b) == {i \in Heads(b) : Complete(b, i)}
ReachedButLast(b) ==
    {i \in Heads(b) : \A j \in Heads(b) : j <= i => Complete(b, j) /\ \E k \in Heads(b) : k > j}

(* The loop ends at the first unfinished message. *)
Reached(b) == {i \in Heads(b) : \A j \in Heads(b) : j <= i => Complete(b, j)}

(* Repeats of a message handled from the same buffer: passed is new in     *)
(* every call.                                                             *)
Repeats(b) ==
    {i \in Reached(b) : \E j \in Reached(b) :
        j < i /\ SameKey(sent[b[j].id], sent[b[i].id])}

LastOf(b, P) == {i \in P : \A j \in Heads(b) : j <= i}

(* Mutants: repeats are kept wherever they are; the unfinished message is  *)
(* not kept.                                                               *)
RetainedRepeats(b) == (Heads(b) \ Reached(b)) \cup Repeats(b)
RetainedNone(b) == {}

(* What the buffer starts with next time: the first unfinished message, or *)
(* a repeat that is the last message.                                      *)
Retained(b) == (Heads(b) \ Reached(b)) \cup LastOf(b, Repeats(b))

Kept(b) ==
    IF Retained(b) = {} THEN <<>>
    ELSE SubSeq(b, Min(Retained(b)), Len(b))

Ids(b) == {b[i].id : i \in DOMAIN b}

IdsAt(b, P) == {b[i].id : i \in P}

(* The messages at places P, one place after the other. *)
Nth(P, n) == CHOOSE i \in P : Cardinality({j \in P : j <= i}) = n

InOrder(b, P) == [n \in 1 .. Cardinality(P) |-> b[Nth(P, n)].id]

-----------------------------------------------------------------------------

Init ==
    /\ sent = <<>> /\ wire = <<>> /\ buffer = <<>>
    /\ handled = <<>> /\ skipped = {} /\ lost = {}
    /\ torn = FALSE

(* async_write of the peer, one at a time. *)
Send(m) ==
    LET i == Len(sent) + 1
    IN  /\ i <= MaxSent
        /\ sent' = Append(sent, m)
        /\ wire' = wire \o <<Head_(i), Tail_(i)>>
        /\ UNCHANGED <<buffer, handled, skipped, lost, torn>>

(* Two of them at a time. *)
SendMixed(m, n) ==
    LET i == Len(sent) + 1
        j == i + 1
    IN  /\ j <= MaxSent
        /\ sent' = sent \o <<m, n>>
        /\ \E mix \in {<<Head_(i), Head_(j), Tail_(i), Tail_(j)>>,
                       <<Head_(i), Head_(j), Tail_(j), Tail_(i)>>} : wire' = wire \o mix
        /\ torn' = TRUE
        /\ UNCHANGED <<buffer, handled, skipped, lost>>

(* async_read_some gives the first k pieces, and process_buffer runs.      *)
(* Something that does not start with '#' would be thrown away.            *)
Read(k) ==
    /\ k \in 1 .. Len(wire)
    /\ wire' = SubSeq(wire, k + 1, Len(wire))
    /\ \E b \in {buffer \o SubSeq(wire, 1, k)} :
          IF 1 \in Heads(b)
            THEN /\ buffer' = Kept(b)
                 /\ handled' = handled \o InOrder(b, Reached(b) \ Repeats(b))
                 /\ skipped' = skipped \cup IdsAt(b, Repeats(b) \ Retained(b))
            ELSE buffer' = <<>> /\ UNCHANGED <<handled, skipped>>
    /\ UNCHANGED <<sent, lost, torn>>

(* The connection fails and the peer connects again: a new tcp_connection  *)
(* has an empty buffer and its stream starts with a whole message.         *)
Reconnect ==
    /\ wire \o buffer # <<>>
    /\ lost' = lost \cup Ids(wire) \cup Ids(buffer)
    /\ wire' = <<>> /\ buffer' = <<>> /\ torn' = FALSE
    /\ UNCHANGED <<sent, handled, skipped>>

Next ==
    \/ \E m \in Message : Send(m)
    \/ \E m, n \in Message : SendMixed(m, n)
    \/ \E k \in 1 .. Len(wire) : Read(k)
    \/ Reconnect

Spec == Init /\ [][Next]_vars

(* The socket is always read again. *)
FairSpec == Spec /\ WF_vars(\E k \in 1 .. Len(wire) : Read(k))

-----------------------------------------------------------------------------

(* A message handled before message i has the same key. *)
HasTwin(i) == \E j \in ToSet(handled) : j < i /\ SameKey(sent[j], sent[i])

(* However the stream is cut into reads, a message has one fate: it is     *)
(* handled once, in the order sent, or skipped because of an earlier one   *)
(* that was handled, or on its way or in the buffer, or lost with its      *)
(* connection.                                                             *)
HandledInOrder == \A i, j \in DOMAIN handled : i < j => handled[i] < handled[j]

SkippedHaveTwins == \A i \in skipped : HasTwin(i)

Fates == <<ToSet(handled), skipped, lost, Ids(wire) \cup Ids(buffer)>>

OneFate ==
    /\ HandledInOrder
    /\ \A i \in DOMAIN sent : Cardinality({f \in DOMAIN Fates : i \in Fates[f]}) = 1
    /\ SkippedHaveTwins

(* The buffer never holds more than one message after a read (so it cannot *)
(* grow, and what is kept cannot hold back a message behind it), unless    *)
(* two writes of the peer overlapped.                                      *)
BufferIsShort == torn \/ Cardinality(Ids(buffer)) <= 1

(* Once mixed bytes are at the front of the buffer nothing is handled any  *)
(* more, whatever else arrives, until the connection is replaced: the loop *)
(* ends at an unfinished message even if others come after it.             *)
Stuck == Cardinality(Heads(buffer)) > 1 /\ ~Complete(buffer, 1)
MixedIsStuck == [][Stuck => UNCHANGED <<handled, skipped>>]_vars

-----------------------------------------------------------------------------

Piece == [id : 1 .. MaxSent, part : {"head", "tail"}]

TypeOK ==
    /\ sent \in Seq(Message) /\ Len(sent) <= MaxSent
    /\ wire \in Seq(Piece) /\ buffer \in Seq(Piece)
    /\ handled \in Seq(1 .. MaxSent) /\ skipped \subseteq 1 .. MaxSent /\ lost \subseteq 1 .. MaxSent
    /\ torn \in BOOLEAN

(* What is in the buffer and behind it: whole messages, up to the first    *)
(* place where two writes were mixed.                                      *)
Stream == buffer \o wire

Mixed(s, i) == i \in Heads(s) /\ i + 1 \in Heads(s)
Clean(s, i) == i \in DOMAIN s /\ \A j \in 1 .. i - 1 : ~Mixed(s, j)
Whole(s, i) == Clean(s, i) /\ i \in Heads(s) /\ i + 1 \in DOMAIN s \ Heads(s)

Shape(s) ==
    /\ s # <<>> => 1 \in Heads(s)
    /\ \A i \in DOMAIN s \ Heads(s) :
          Clean(s, i) => i - 1 \in Heads(s) /\ s[i - 1].id = s[i].id
    /\ \A i, j \in DOMAIN s :
          Whole(s, i) => /\ j < i => s[j].id < s[i].id
                         /\ j > i + 1 => s[i].id < s[j].id
    /\ s # <<>> /\ (\A i \in DOMAIN s : ~Mixed(s, i)) => Len(s) \notin Heads(s)

(* The fates exclude each other and leave out no message.                  *)
Parted ==
    /\ DOMAIN sent = ToSet(handled) \cup skipped \cup lost \cup Ids(Stream)
    /\ ToSet(handled) \cap (skipped \cup lost) = {} /\ skipped \cap lost = {}
    /\ Ids(Stream) \cap (ToSet(handled) \cup skipped \cup lost) = {}

(* What is handled is older than what is not yet.                          *)
HandledFirst == \A i \in DOMAIN handled, j \in DOMAIN Stream : handled[i] < Stream[j].id

(* Unless two writes overlapped, nothing is mixed and the buffer is one    *)
(* message.                                                                *)
Tidy ==
    torn \/ ( /\ \A i \in DOMAIN Stream : ~Mixed(Stream, i)
             /\ \A i, j \in DOMAIN buffer : buffer[i].id = buffer[j].id )

(* The inductive invariant.                                                *)
IInv ==
    /\ TypeOK /\ Shape(Stream) /\ Parted
    /\ HandledInOrder /\ HandledFirst /\ SkippedHaveTwins /\ Tidy

(* Whatever is sent is handled or skipped in the end, unless its connection *)
(* fails or its bytes were mixed; a repeat that is the last message only    *)
(* when another comes.                                                      *)
ReadInTheEnd ==
    \A i \in 1 .. MaxSent :
        i \in DOMAIN sent ~>
            \/ i \in ToSet(handled) \cup skipped \cup lost
            \/ torn
            \/ wire = <<>> /\ Ids(buffer) = {i} /\ HasTwin(i)
=============================================================================
