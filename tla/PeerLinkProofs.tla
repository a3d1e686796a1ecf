--------------------------- MODULE PeerLinkProofs ---------------------------
(***************************************************************************)
(* Proofs about PeerLink: its inductive invariant and the four safety      *)
(* properties of a connection, for any number of messages.                 *)
(*                                                                         *)
(* A handler takes itself from the front of what is ready and then changes *)
(* the link, so a step is proved in two parts: PopKeeps says what of the   *)
(* invariant survives the taking, and the lemma of the handler the rest.   *)
(* The argument for one write at a time: without the two races at most one *)
(* of strand_proceed, a write and its handler is ready or under way        *)
(* (OneAtATime), because a write begins only where the one before it was   *)
(* taken, or with an empty queue; and they are there only on a connection  *)
(* that is through, because connecting, its handler and a connection       *)
(* exclude each other while attempts do not overlap (OneAttempt).  So the  *)
(* message in front is the only one that can be in the hands of a socket,  *)
(* and the order of the queue, of what waits for it and of what was handed *)
(* over (QueuedInOrder, HandedBefore) is the order posted.                 *)
(***************************************************************************)
EXTENDS PeerLink, TLAPS

USE PeerLinkAssumption

(* The handler in front is taken.                                          *)
Pop(l) == [l EXCEPT !.ready = Tail(@)]

(* The link without the handler in front, place by place.                  *)
LEMMA PopFacts ==
    ASSUME NEW l \in Link, l.ready # <<>>
    PROVE  /\ Pop(l) \in Link
           /\ DOMAIN Pop(l).ready = 1 .. Len(l.ready) - 1
           /\ \A i \in 1 .. Len(l.ready) - 1 :
                 Pop(l).ready[i] = l.ready[i + 1] /\ i + 1 \in DOMAIN l.ready
           /\ 1 \in DOMAIN l.ready /\ Head(l.ready) = l.ready[1]
           /\ \A i \in DOMAIN l.ready : i # 1 => i - 1 \in DOMAIN Pop(l).ready
  <1>1. l.ready \in Seq(Handler) /\ Len(l.ready) \in Nat \ {0}
    BY DEF Link
  <1>2. Tail(l.ready) \in Seq(Handler)
    BY <1>1
  <1>3. Pop(l) \in Link /\ Pop(l).ready = Tail(l.ready)
    BY <1>2 DEF Link, Pop
  <1>4. /\ Len(Tail(l.ready)) = Len(l.ready) - 1
        /\ \A i \in 1 .. Len(l.ready) - 1 : Tail(l.ready)[i] = l.ready[i + 1]
    BY <1>1
  <1>5. DOMAIN Tail(l.ready) = 1 .. Len(l.ready) - 1 /\ DOMAIN l.ready = 1 .. Len(l.ready)
    BY <1>1, <1>2, <1>4
  <1> QED
    BY <1>1, <1>3, <1>4, <1>5

(* The link with one more handler ready, place by place.                   *)
LEMMA AppendFacts ==
    ASSUME NEW l \in Link, NEW h \in Handler
    PROVE  /\ Ready(l, h) \in Link
           /\ DOMAIN Ready(l, h).ready = 1 .. Len(l.ready) + 1
           /\ \A i \in DOMAIN l.ready : Ready(l, h).ready[i] = l.ready[i]
           /\ Ready(l, h).ready[Len(l.ready) + 1] = h
  <1>1. l.ready \in Seq(Handler) /\ Len(l.ready) \in Nat
    BY DEF Link
  <1>2. Append(l.ready, h) \in Seq(Handler) /\ Len(Append(l.ready, h)) = Len(l.ready) + 1
    BY <1>1
  <1>3. Ready(l, h) \in Link /\ Ready(l, h).ready = Append(l.ready, h)
    BY <1>2 DEF Link, Ready
  <1>4. DOMAIN Append(l.ready, h) = 1 .. Len(l.ready) + 1 /\ DOMAIN l.ready = 1 .. Len(l.ready)
    BY <1>1, <1>2
  <1> QED
    BY <1>1, <1>3, <1>4

(* The fields a handler has.                                               *)
LEMMA HandlerFacts ==
    ASSUME NEW h \in Handler
    PROVE  /\ h.op \in {"turn", "proceed", "connect", "wrote", "write"}
           /\ h.op \in {"connect", "wrote"} => h.ok \in BOOLEAN
           /\ h.op = "write" => h.msg \in 1 .. MaxMessages
  BY DEF Handler

(* The concatenation of two sequences, place by place.                     *)
LEMMA ConcatFacts ==
    ASSUME NEW S, NEW s \in Seq(S), NEW t \in Seq(S)
    PROVE  /\ s \o t \in Seq(S) /\ Len(s \o t) = Len(s) + Len(t)
           /\ \A i \in 1 .. Len(s) + Len(t) :
                 (s \o t)[i] = IF i <= Len(s) THEN s[i] ELSE t[i - Len(s)]
  OBVIOUS

(* What the socket leaves behind: no writes, and behind the handlers that are*)
(* ready those of connecting and of the writes, with an error.             *)
LEMMA DestroyedFacts ==
    ASSUME NEW l \in Link
    PROVE  /\ Destroyed(l) \in Link
           /\ Destroyed(l).writes = <<>>
           /\ \A i \in DOMAIN l.ready : /\ i \in DOMAIN Destroyed(l).ready
                                        /\ Destroyed(l).ready[i] = l.ready[i]
           /\ \A i \in DOMAIN Destroyed(l).ready :
                 \/ i \in DOMAIN l.ready
                 \/ l.session = "connecting" /\ Destroyed(l).ready[i] = [op |-> "connect", ok |-> FALSE]
                 \/ l.writes # <<>> /\ Destroyed(l).ready[i] = [op |-> "wrote", ok |-> FALSE]
           /\ l.session # "connecting" /\ l.writes = <<>> => Destroyed(l).ready = l.ready
  <1> DEFINE c == IF l.session = "connecting" THEN <<[op |-> "connect", ok |-> FALSE]>> ELSE <<>>
             w == [i \in 1 .. Len(l.writes) |-> [op |-> "wrote", ok |-> FALSE]]
  <1>1. l.ready \in Seq(Handler) /\ l.writes \in Seq(1 .. MaxMessages) /\ Len(l.writes) \in Nat
    BY DEF Link
  <1>2. [op |-> "connect", ok |-> FALSE] \in Handler /\ [op |-> "wrote", ok |-> FALSE] \in Handler
    BY DEF Handler
  <1>3. c \in Seq(Handler) /\ Len(c) \in {0, 1}
        /\ \A i \in 1 .. Len(c) : l.session = "connecting" /\ c[i] = [op |-> "connect", ok |-> FALSE]
    <2>1. CASE l.session = "connecting"
      <3>1. c = <<[op |-> "connect", ok |-> FALSE]>>
        BY <2>1
      <3>2. Len(c) = 1 /\ c[1] = [op |-> "connect", ok |-> FALSE]
        BY <3>1
      <3>3. c \in Seq(Handler)
        BY <1>2, <3>1
      <3> HIDE DEF c
      <3> QED
        BY <2>1, <3>2, <3>3
    <2>2. CASE l.session # "connecting"
      <3>1. c = <<>>
        BY <2>2
      <3> HIDE DEF c
      <3> QED
        BY <3>1
    <2> QED
      BY <2>1, <2>2
  <1>4. w \in Seq(Handler) /\ Len(w) = Len(l.writes)
        /\ \A i \in 1 .. Len(w) : w[i] = [op |-> "wrote", ok |-> FALSE]
    BY <1>1, <1>2
  <1>5. l.writes # <<>> <=> Len(w) > 0
    BY <1>1, <1>4
  <1>6. l.session # "connecting" => c = <<>>
    OBVIOUS
  <1>7. l.writes = <<>> => w = <<>>
    BY <1>1, <1>4
  <1>8. Destroyed(l) = [l EXCEPT !.writes = <<>>, !.ready = l.ready \o c \o w]
    BY DEF Destroyed
  <1> HIDE DEF c, w
  <1> DEFINE rc == l.ready \o c
  <1>9. /\ rc \in Seq(Handler) /\ Len(rc) = Len(l.ready) + Len(c)
        /\ \A i \in 1 .. Len(l.ready) + Len(c) :
               rc[i] = IF i <= Len(l.ready) THEN l.ready[i] ELSE c[i - Len(l.ready)]
    BY <1>1, <1>3, ConcatFacts
  <1> HIDE DEF rc
  <1> DEFINE r == rc \o w
  <1>10. /\ r \in Seq(Handler) /\ Len(r) = Len(rc) + Len(w)
         /\ \A i \in 1 .. Len(rc) + Len(w) :
               r[i] = IF i <= Len(rc) THEN rc[i] ELSE w[i - Len(rc)]
    <2>1. w \in Seq(Handler) /\ rc \in Seq(Handler)
      BY <1>4, <1>9
    <2> QED
      BY <2>1, ConcatFacts
  <1>15. Destroyed(l).ready = r
    BY <1>8 DEF rc, Link
  <1> HIDE DEF r
  <1>11. Destroyed(l) \in Link /\ Destroyed(l).writes = <<>>
    <2>1. r \in Seq(Handler) /\ Destroyed(l) = [l EXCEPT !.writes = <<>>, !.ready = r]
      BY <1>8, <1>10 DEF r, rc
    <2>2. <<>> \in Seq(1 .. MaxMessages)
      OBVIOUS
    <2> QED
      BY <2>1, <2>2 DEF Link
  <1>16. /\ DOMAIN l.ready = 1 .. Len(l.ready) /\ Len(l.ready) \in Nat
         /\ Len(c) \in Nat /\ Len(w) \in Nat
         /\ DOMAIN Destroyed(l).ready = 1 .. Len(l.ready) + Len(c) + Len(w)
    BY <1>1, <1>3, <1>4, <1>9, <1>10, <1>15
  <1>12. \A i \in DOMAIN Destroyed(l).ready :
                 \/ i \in DOMAIN l.ready
                 \/ l.session = "connecting" /\ Destroyed(l).ready[i] = [op |-> "connect", ok |-> FALSE]
                 \/ l.writes # <<>> /\ Destroyed(l).ready[i] = [op |-> "wrote", ok |-> FALSE]
    <2> SUFFICES ASSUME NEW i \in DOMAIN Destroyed(l).ready, i \notin DOMAIN l.ready
                 PROVE \/ l.session = "connecting" /\ Destroyed(l).ready[i] = [op |-> "connect", ok |-> FALSE]
                       \/ l.writes # <<>> /\ Destroyed(l).ready[i] = [op |-> "wrote", ok |-> FALSE]
      OBVIOUS
    <2>1. i \in 1 .. Len(l.ready) + Len(c) + Len(w) /\ i > Len(l.ready)
      BY <1>16
    <2>2. CASE i <= Len(l.ready) + Len(c)
      <3>1. i - Len(l.ready) \in 1 .. Len(c)
        BY <1>16, <2>1, <2>2
      <3>2. Destroyed(l).ready[i] = c[i - Len(l.ready)]
        BY <1>9, <1>10, <1>15, <1>16, <2>1, <2>2
      <3> QED
        BY <1>3, <3>1, <3>2
    <2>3. CASE i > Len(l.ready) + Len(c)
      <3>1. i - Len(l.ready) - Len(c) \in 1 .. Len(w)
        BY <1>16, <2>1, <2>3
      <3>2. Destroyed(l).ready[i] = w[i - Len(l.ready) - Len(c)]
        BY <1>9, <1>10, <1>15, <1>16, <2>1, <2>3
      <3> QED
        BY <1>4, <1>5, <1>16, <3>1, <3>2
    <2> QED
      BY <1>16, <2>1, <2>2, <2>3
  <1>13. \A i \in DOMAIN l.ready : /\ i \in DOMAIN Destroyed(l).ready
                                   /\ Destroyed(l).ready[i] = l.ready[i]
    BY <1>9, <1>10, <1>15, <1>16
  <1>14. l.session # "connecting" /\ l.writes = <<>> => Destroyed(l).ready = l.ready
    BY <1>1, <1>6, <1>7, <1>15 DEF r, rc
  <1> QED
    BY <1>11, <1>12, <1>13, <1>14

(* Places of handlers and of writes under way, as the properties name them.*)
LEMMA ReadyAtFacts ==
    ASSUME NEW l \in Link, NEW ops
    PROVE  /\ ReadyAt(l, ops) \subseteq DOMAIN l.ready
           /\ IsReady(l, ops) <=> ReadyAt(l, ops) # {}
           /\ Outstanding(l) = {} <=> l.writes = <<>> /\ ReadyAt(l, {"wrote"}) = {}
  <1>1. ReadyAt(l, ops) \subseteq DOMAIN l.ready
    BY DEF ReadyAt
  <1>2. IsReady(l, ops) <=> ReadyAt(l, ops) # {}
    BY DEF ReadyAt, IsReady, ToSet
  <1>3. DOMAIN l.writes = {} <=> l.writes = <<>>
    <2>1. l.writes \in Seq(1 .. MaxMessages) /\ DOMAIN l.writes = 1 .. Len(l.writes)
          /\ Len(l.writes) \in Nat
      BY DEF Link
    <2>2. Len(l.writes) = 0 <=> l.writes = <<>>
      BY <2>1
    <2>3. \A n \in Nat : 1 .. n = {} <=> n = 0
      <3>1. ASSUME NEW n \in Nat, n # 0 PROVE 1 \in 1 .. n
        BY <3>1
      <3>2. 1 .. 0 = {}
        OBVIOUS
      <3> QED
        BY <3>1, <3>2
    <2> QED
      BY <2>1, <2>2, <2>3
  <1>4. Outstanding(l) = {} <=> DOMAIN l.writes = {} /\ ReadyAt(l, {"wrote"}) = {}
    <2>1. {i \in DOMAIN l.ready : l.ready[i].op = "wrote"} = ReadyAt(l, {"wrote"})
      BY DEF ReadyAt
    <2>2. \A A, B : ({"socket"} \X A) \cup ({"ready"} \X B) = {} <=> A = {} /\ B = {}
      <3> TAKE A, B
      <3>1. ASSUME NEW a \in A PROVE <<"socket", a>> \in {"socket"} \X A
        OBVIOUS
      <3>2. ASSUME NEW b \in B PROVE <<"ready", b>> \in {"ready"} \X B
        OBVIOUS
      <3> QED
        BY <3>1, <3>2
    <2> QED
      BY <2>1, <2>2 DEF Outstanding
  <1> QED
    BY <1>1, <1>2, <1>3, <1>4

(* Places when the handler in front is taken: all move up by one.          *)
LEMMA PopReadyAt ==
    ASSUME NEW l \in Link, l.ready # <<>>, NEW ops
    PROVE  /\ \A i : i \in ReadyAt(Pop(l), ops) <=> i \in Nat \ {0} /\ i + 1 \in ReadyAt(l, ops)
           /\ \A i \in ReadyAt(Pop(l), ops) : Pop(l).ready[i] = l.ready[i + 1]
           /\ l.ready[1].op \in ops <=> 1 \in ReadyAt(l, ops)
           /\ ReadyAt(l, ops) \subseteq Nat \ {0}
  <1>1. Len(l.ready) \in Nat /\ DOMAIN l.ready = 1 .. Len(l.ready)
    BY DEF Link
  <1> DEFINE p == Pop(l)
  <1>2. /\ DOMAIN p.ready = 1 .. Len(l.ready) - 1
        /\ \A i \in 1 .. Len(l.ready) - 1 : p.ready[i] = l.ready[i + 1]
        /\ 1 \in DOMAIN l.ready
    BY PopFacts
  <1> HIDE DEF p
  <1>3. ASSUME NEW i \in ReadyAt(p, ops) PROVE
               i \in Nat \ {0} /\ i + 1 \in ReadyAt(l, ops) /\ p.ready[i] = l.ready[i + 1]
    BY <1>1, <1>2 DEF ReadyAt
  <1>4. ASSUME NEW i \in Nat \ {0}, i + 1 \in ReadyAt(l, ops) PROVE i \in ReadyAt(p, ops)
    BY <1>1, <1>2, <1>4 DEF ReadyAt
  <1>5. /\ l.ready[1].op \in ops <=> 1 \in ReadyAt(l, ops)
        /\ ReadyAt(l, ops) \subseteq Nat \ {0}
    BY <1>1, <1>2 DEF ReadyAt
  <1> QED
    BY <1>3, <1>4, <1>5 DEF p

(* What of the invariant survives the taking; only the handler of a write  *)
(* leaves the message in front without a sign that it was handed over.     *)
LEMMA PopKeeps ==
    ASSUME NEW l \in Link, l.ready # <<>>
    PROVE  /\ \A n : QueuedInOrder(l, n) => QueuedInOrder(Pop(l), n)
           /\ OneAttempt(l) => OneAttempt(Pop(l))
           /\ OneAtATime(l) => OneAtATime(Pop(l))
           /\ \A hs, n : HandedBefore(hs, l, n) /\ l.ready[1].op # "wrote"
                            => HandedBefore(hs, Pop(l), n)
  <1> DEFINE p == Pop(l)
  <1>1. /\ p.connected = l.connected /\ p.session = l.session /\ p.strand = l.strand
        /\ p.m = l.m /\ p.writes = l.writes /\ p \in Link
    BY PopFacts DEF Link, Pop
  <1>2. ASSUME NEW ops PROVE
        /\ \A i \in ReadyAt(p, ops) : /\ i \in Nat \ {0} /\ i + 1 \in ReadyAt(l, ops)
                                      /\ p.ready[i] = l.ready[i + 1]
        /\ ReadyAt(l, ops) = {} => ReadyAt(p, ops) = {}
        /\ l.ready[1].op \notin ops => (ReadyAt(p, ops) = {} => ReadyAt(l, ops) = {})
    <2>1. \A i : i \in ReadyAt(p, ops) <=> i \in Nat \ {0} /\ i + 1 \in ReadyAt(l, ops)
      BY PopReadyAt
    <2>2. \A i \in ReadyAt(p, ops) : p.ready[i] = l.ready[i + 1]
      BY PopReadyAt
    <2>3. l.ready[1].op \in ops <=> 1 \in ReadyAt(l, ops)
      BY PopReadyAt
    <2>4. ReadyAt(l, ops) \subseteq Nat \ {0}
      BY PopReadyAt
    <2>5. ASSUME l.ready[1].op \notin ops, NEW i \in ReadyAt(l, ops)
          PROVE  i - 1 \in ReadyAt(p, ops)
      BY <2>1, <2>3, <2>4, <2>5
    <2> HIDE DEF p
    <2> QED
      BY <2>1, <2>2, <2>5
  <1> HIDE DEF p
  <1>3. Outstanding(l) = {} => Outstanding(p) = {}
    BY <1>1, <1>2, ReadyAtFacts
  <1>4. l.ready[1].op # "wrote" => (Outstanding(p) = {} => Outstanding(l) = {})
    BY <1>1, <1>2, ReadyAtFacts
  <1>5. ASSUME NEW n, QueuedInOrder(l, n) PROVE QueuedInOrder(p, n)
    BY <1>1, <1>2, <1>5 DEF QueuedInOrder
  <1>6. OneAttempt(l) => OneAttempt(p)
    BY <1>1, <1>2 DEF OneAttempt
  <1>7. OneAtATime(l) => OneAtATime(p)
    BY <1>1, <1>2, <1>3 DEF OneAtATime
  <1>8. ASSUME NEW hs, NEW n, HandedBefore(hs, l, n), l.ready[1].op # "wrote"
        PROVE  HandedBefore(hs, p, n)
    BY <1>1, <1>2, <1>4, <1>8 DEF HandedBefore
  <1> QED
    BY <1>5, <1>6, <1>7, <1>8 DEF p

(* ... and when a handler becomes ready.                                   *)
LEMMA AppendReadyAt ==
    ASSUME NEW l \in Link, NEW h \in Handler, NEW ops
    PROVE  /\ \A i \in ReadyAt(Ready(l, h), ops) :
                 \/ i \in ReadyAt(l, ops) /\ i <= Len(l.ready) /\ Ready(l, h).ready[i] = l.ready[i]
                 \/ i = Len(l.ready) + 1 /\ h.op \in ops /\ Ready(l, h).ready[i] = h
           /\ ReadyAt(l, ops) \subseteq ReadyAt(Ready(l, h), ops)
           /\ h.op \in ops => ReadyAt(Ready(l, h), ops) # {}
           /\ ReadyAt(Ready(l, h), ops) \subseteq Nat \ {0} /\ Len(l.ready) \in Nat
  <1> DEFINE k == Ready(l, h)
  <1>1. Len(l.ready) \in Nat /\ DOMAIN l.ready = 1 .. Len(l.ready)
    BY DEF Link
  <1>2. /\ DOMAIN k.ready = 1 .. Len(l.ready) + 1
        /\ \A i \in DOMAIN l.ready : k.ready[i] = l.ready[i]
        /\ k.ready[Len(l.ready) + 1] = h
    BY AppendFacts
  <1> HIDE DEF k
  <1> QED
    BY <1>1, <1>2 DEF ReadyAt, k

(* What of the invariant survives when a handler becomes ready.            *)
LEMMA AppendKeeps ==
    ASSUME NEW l \in Link, NEW h \in Handler, NEW n \in Nat, NEW hs \in Seq(1 .. MaxMessages)
    PROVE  /\ h.op # "write" =>
                 /\ QueuedInOrder(l, n) => QueuedInOrder(Ready(l, h), n)
                 /\ HandedBefore(hs, l, n) => HandedBefore(hs, Ready(l, h), n)
           /\ h.op = "write" /\ h.msg = n + 1 =>
                 /\ QueuedInOrder(l, n) => QueuedInOrder(Ready(l, h), n + 1)
                 /\ HandedBefore(hs, l, n) => HandedBefore(hs, Ready(l, h), n + 1)
           /\ h.op \notin {"connect", "wrote"} /\ OneAttempt(l) => OneAttempt(Ready(l, h))
           /\ h.op \notin {"proceed", "wrote"} /\ OneAtATime(l) => OneAtATime(Ready(l, h))
  <1> DEFINE k == Ready(l, h)
  <1>1. /\ k.connected = l.connected /\ k.session = l.session /\ k.strand = l.strand
        /\ k.m = l.m /\ k.writes = l.writes /\ k \in Link
    BY AppendFacts DEF Link, Ready
  <1>2. ASSUME NEW ops PROVE
        /\ \A i \in ReadyAt(k, ops) :
                 \/ i \in ReadyAt(l, ops) /\ i <= Len(l.ready) /\ k.ready[i] = l.ready[i]
                 \/ i = Len(l.ready) + 1 /\ h.op \in ops /\ k.ready[i] = h
        /\ ReadyAt(l, ops) \subseteq ReadyAt(k, ops)
        /\ ReadyAt(k, ops) \subseteq Nat \ {0} /\ Len(l.ready) \in Nat
    BY AppendReadyAt
  <1> HIDE DEF k
  <1>3. Outstanding(k) = {} => Outstanding(l) = {}
    BY <1>1, <1>2, ReadyAtFacts
  <1>4. h.op # "wrote" => (Outstanding(l) = {} => Outstanding(k) = {})
    <2>1. h.op # "wrote" /\ ReadyAt(l, {"wrote"}) = {} => ReadyAt(k, {"wrote"}) = {}
      BY <1>2
    <2> QED
      BY <1>1, <2>1, ReadyAtFacts
  <1>5. l.m \in Seq(1 .. MaxMessages) /\ \A i \in DOMAIN l.m : l.m[i] \in Nat
    BY DEF Link
  <1>6. \A i \in ReadyAt(l, {"write"}) : l.ready[i].msg \in Nat
    BY HandlerFacts DEF ReadyAt, Link
  <1>7. \A i \in DOMAIN hs : hs[i] \in Nat
    OBVIOUS
  <1>8. ASSUME h.op # "write", QueuedInOrder(l, n) PROVE QueuedInOrder(k, n)
    BY <1>1, <1>2, <1>8 DEF QueuedInOrder
  <1>9. ASSUME h.op # "write", HandedBefore(hs, l, n) PROVE HandedBefore(hs, k, n)
    BY <1>1, <1>2, <1>3, <1>9 DEF HandedBefore
  <1>10. ASSUME h.op = "write", h.msg = n + 1, QueuedInOrder(l, n) PROVE QueuedInOrder(k, n + 1)
    <2>1. \A i \in ReadyAt(k, {"write"}) :
                 \/ i \in ReadyAt(l, {"write"}) /\ i <= Len(l.ready) /\ k.ready[i] = l.ready[i]
                    /\ k.ready[i].msg <= n /\ k.ready[i].msg \in Nat
                 \/ i = Len(l.ready) + 1 /\ k.ready[i].msg = n + 1
      BY <1>2, <1>6, <1>10 DEF QueuedInOrder
    <2>2. \A i \in DOMAIN l.m : l.m[i] <= n
      BY <1>10 DEF QueuedInOrder
    <2>3. \A i, j \in ReadyAt(k, {"write"}) : i < j => k.ready[i].msg < k.ready[j].msg
      <3>1. \A i, j \in ReadyAt(l, {"write"}) : i < j => l.ready[i].msg < l.ready[j].msg
        BY <1>10 DEF QueuedInOrder
      <3>2. ReadyAt(k, {"write"}) \subseteq Nat \ {0} /\ Len(l.ready) \in Nat
        BY <1>2
      <3> SUFFICES ASSUME NEW i \in ReadyAt(k, {"write"}), NEW j \in ReadyAt(k, {"write"}), i < j
                   PROVE  k.ready[i].msg < k.ready[j].msg
        OBVIOUS
      <3>3. i \in Nat /\ j \in Nat
        BY <3>2
      <3>4. /\ i \in ReadyAt(l, {"write"}) /\ k.ready[i] = l.ready[i]
            /\ k.ready[i].msg <= n /\ k.ready[i].msg \in Nat
        BY <2>1, <3>2, <3>3
      <3>5. CASE j \in ReadyAt(l, {"write"}) /\ k.ready[j] = l.ready[j]
        BY <3>1, <3>4, <3>5
      <3>6. CASE k.ready[j].msg = n + 1
        BY <3>4, <3>6
      <3> QED
        BY <2>1, <3>5, <3>6
    <2>4. ASSUME NEW i \in ReadyAt(k, {"write"})
          PROVE  k.ready[i].msg <= n + 1 /\ \A j \in DOMAIN k.m : k.m[j] < k.ready[i].msg
      <3>1. CASE i \in ReadyAt(l, {"write"}) /\ k.ready[i] = l.ready[i] /\ k.ready[i].msg <= n
        BY <1>1, <1>6, <1>10, <3>1 DEF QueuedInOrder
      <3>2. CASE k.ready[i].msg = n + 1
        BY <1>1, <1>5, <2>2, <3>2
      <3> QED
        BY <2>1, <3>1, <3>2
    <2>5. \A i \in DOMAIN k.m : k.m[i] <= n + 1
      BY <1>1, <1>5, <2>2
    <2>6. Rises(k.m)
      BY <1>1, <1>10 DEF QueuedInOrder
    <2> QED
      BY <2>3, <2>4, <2>5, <2>6 DEF QueuedInOrder
  <1>11. ASSUME h.op = "write", h.msg = n + 1, HandedBefore(hs, l, n)
         PROVE  HandedBefore(hs, k, n + 1)
    BY <1>1, <1>2, <1>3, <1>7, <1>11 DEF HandedBefore
  <1>12. ASSUME h.op \notin {"connect", "wrote"}, OneAttempt(l) PROVE OneAttempt(k)
    BY <1>1, <1>2, <1>12 DEF OneAttempt
  <1>13. ASSUME h.op \notin {"proceed", "wrote"}, OneAtATime(l) PROVE OneAtATime(k)
    BY <1>1, <1>2, <1>4, <1>13 DEF OneAtATime
  <1> QED
    BY <1>8, <1>9, <1>10, <1>11, <1>12, <1>13 DEF k

(* ... and what pumps the queue is still there.                            *)
LEMMA AppendPumps ==
    ASSUME NEW l \in Link, NEW h \in Handler
    PROVE  /\ Outstanding(l) # {} => Outstanding(Ready(l, h)) # {}
           /\ \A ops : IsReady(l, ops) \/ h.op \in ops => IsReady(Ready(l, h), ops)
           /\ h.op = "wrote" => Outstanding(Ready(l, h)) # {}
  <1> DEFINE k == Ready(l, h)
  <1>1. k.writes = l.writes /\ k \in Link
    BY AppendFacts DEF Link, Ready
  <1>2. ASSUME NEW ops PROVE
           /\ ReadyAt(l, ops) \subseteq ReadyAt(k, ops)
           /\ h.op \in ops => ReadyAt(k, ops) # {}
    BY AppendReadyAt
  <1> HIDE DEF k
  <1>3. \A ops : IsReady(l, ops) \/ h.op \in ops => IsReady(k, ops)
    BY <1>1, <1>2, ReadyAtFacts
  <1>4. Outstanding(l) # {} \/ h.op = "wrote" => Outstanding(k) # {}
    <2>1. ReadyAt(l, {"wrote"}) # {} \/ h.op = "wrote" => ReadyAt(k, {"wrote"}) # {}
      BY <1>2
    <2> QED
      BY <1>1, <2>1, ReadyAtFacts
  <1> QED
    BY <1>3, <1>4 DEF k

-----------------------------------------------------------------------------
(* A new peer.                                                             *)
LEMMA LinkInit == Init => IInv
  <1> SUFFICES ASSUME Init PROVE IInv
    OBVIOUS
  <1>1. link = NewLink /\ NewLink \in Link
    BY DEF Init, NewLink, Link
  <1>2. /\ NewLink.m = <<>> /\ NewLink.writes = <<>> /\ NewLink.ready = <<>>
        /\ NewLink.session = "none" /\ ~NewLink.connected /\ ~NewLink.strand
    BY DEF NewLink
  <1>3. \A ops : ReadyAt(NewLink, ops) = {}
    BY <1>2 DEF ReadyAt
  <1>4. Outstanding(NewLink) = {}
    BY <1>1, <1>2, <1>3, ReadyAtFacts
  <1>5. TypeOK
    <2>1. handed \in Seq(1 .. MaxMessages) /\ posted \in 0 .. MaxMessages
      BY DEF Init
    <2> QED
      BY <1>1, <2>1 DEF Init, TypeOK
  <1>6. QueueIsPumped /\ StrandIsThere
    BY <1>1, <1>2 DEF Init, QueueIsPumped, StrandIsThere
  <1>7. QueuedInOrder(link, posted) /\ OneAttempt(link)
    BY <1>1, <1>2, <1>3 DEF QueuedInOrder, Rises, OneAttempt
  <1>8. OneAtATime(link) /\ HandedBefore(handed, link, posted)
    BY <1>1, <1>2, <1>3, <1>4 DEF Init, OneAtATime, HandedBefore, Rises
  <1> QED
    BY <1>1, <1>2, <1>5, <1>6, <1>7, <1>8 DEF IInv

(* A turn or a message becomes ready.                                      *)
LEMMA ReadyStep ==
    ASSUME IInv, NEW h \in Handler, link' = Ready(link, h),
           \/ h.op = "turn" /\ posted' = posted
           \/ h.op = "write" /\ h.msg = posted + 1 /\ posted' = posted + 1,
           UNCHANGED <<crashed, handed, early, overtaken>>,
           miner' \in {"away", "posting"}, miner' = "posting" => posted' < MaxMessages,
           posted' \in 0 .. MaxMessages
    PROVE  IInv'
  <1>1. /\ link \in Link /\ posted \in Nat /\ handed \in Seq(1 .. MaxMessages)
        /\ posted' \in Nat
    BY DEF IInv, TypeOK
  <1>2. /\ link'.connected = link.connected /\ link'.session = link.session
        /\ link'.strand = link.strand /\ link'.m = link.m /\ link'.writes = link.writes
        /\ link' \in Link
    BY <1>1, AppendFacts DEF Link, Ready
  <1>3. TypeOK'
    BY <1>2 DEF IInv, TypeOK
  <1>4. QueueIsPumped' /\ StrandIsThere'
    BY <1>1, <1>2, AppendPumps DEF IInv, QueueIsPumped, StrandIsThere
  <1>5. QueuedInOrder(link, posted)'
    BY <1>1, AppendKeeps DEF IInv
  <1>6. (overtaken \/ OneAttempt(link))'
    BY <1>1, AppendKeeps DEF IInv
  <1>7. (early \/ overtaken \/ (OneAtATime(link) /\ HandedBefore(handed, link, posted)))'
    <2>1. OneAtATime(link) => OneAtATime(Ready(link, h))
      BY <1>1, AppendKeeps
    <2>2. HandedBefore(handed, link, posted) => HandedBefore(handed, Ready(link, h), posted')
      BY <1>1, AppendKeeps
    <2> QED
      BY <2>1, <2>2 DEF IInv
  <1> QED
    BY <1>2, <1>3, <1>4, <1>5, <1>6, <1>7 DEF IInv

(* The link stays as it is.                                                *)
LEMMA StillStep ==
    ASSUME IInv, UNCHANGED <<link, posted, handed, early, overtaken>>,
           crashed' \in {crashed, "miner"},
           miner' \in {"away", "posting"}, miner' = "posting" => posted < MaxMessages
    PROVE  IInv'
  <1>1. TypeOK'
    BY DEF IInv, TypeOK
  <1>2. QueueIsPumped' /\ StrandIsThere'
    BY DEF IInv, QueueIsPumped, StrandIsThere
  <1> QED
    BY <1>1, <1>2 DEF IInv

(* The timer, the senders and the thread of the miner.                     *)
LEMMA SenderStep ==
    ASSUME IInv, TimerExpires \/ NetworkSends \/ MinerSees \/ MinerPosts \/ UNCHANGED vars
    PROVE  IInv'
  <1>1. /\ posted \in 0 .. MaxMessages /\ miner \in {"away", "posting"}
        /\ miner = "posting" => posted < MaxMessages
    BY DEF IInv, TypeOK
  <1>2. [op |-> "turn"] \in Handler
    BY DEF Handler
  <1>3. ASSUME posted < MaxMessages PROVE [op |-> "write", msg |-> posted + 1] \in Handler
    BY <1>1, <1>3 DEF Handler
  <1>4. CASE TimerExpires
    BY <1>1, <1>2, <1>4, ReadyStep DEF TimerExpires, Keep
  <1>5. CASE NetworkSends
    BY <1>1, <1>3, <1>5, ReadyStep DEF NetworkSends, Post, Keep
  <1>6. CASE MinerSees
    BY <1>1, <1>6, StillStep DEF MinerSees, Keep
  <1>7. CASE MinerPosts
    <2>1. CASE Post /\ UNCHANGED crashed
      BY <1>1, <1>3, <1>7, <2>1, ReadyStep DEF MinerPosts, Post, Keep
    <2>2. CASE ~link.strand /\ crashed' = "miner" /\ UNCHANGED <<link, posted>>
      BY <1>1, <1>7, <2>2, StillStep DEF MinerPosts, Keep
    <2> QED
      BY <1>7, <2>1, <2>2 DEF MinerPosts
  <1>8. CASE UNCHANGED vars
    BY <1>1, <1>8, StillStep DEF vars
  <1> QED
    BY <1>4, <1>5, <1>6, <1>7, <1>8

(* async_connect completes: its handler is the only sign of the attempt.   *)
LEMMA ConnectStep ==
    ASSUME IInv, NEW ok \in BOOLEAN, ConnectCompletes(ok)
    PROVE  IInv'
  <1> DEFINE l == [link EXCEPT !.session = IF ok THEN "open" ELSE "idle"]
             h == [op |-> "connect", ok |-> ok]
  <1>1. /\ link \in Link /\ posted \in Nat /\ handed \in Seq(1 .. MaxMessages)
        /\ link.session = "connecting" /\ link' = Ready(l, h)
    BY DEF IInv, TypeOK, ConnectCompletes
  <1>2. UNCHANGED <<crashed, miner, posted, handed, early, overtaken>>
    BY DEF ConnectCompletes, Keep
  <1>3. h \in Handler /\ h.op = "connect" /\ h.ok = ok
    BY DEF Handler
  <1>4. /\ l \in Link /\ l.connected = link.connected /\ l.strand = link.strand
        /\ l.m = link.m /\ l.writes = link.writes /\ l.ready = link.ready
        /\ l.session = IF ok THEN "open" ELSE "idle"
    BY <1>1 DEF Link
  <1> HIDE DEF l, h
  <1>5. \A ops : ReadyAt(l, ops) = ReadyAt(link, ops)
    BY <1>4 DEF ReadyAt
  <1>6. Outstanding(l) = Outstanding(link) /\ \A ops : IsReady(l, ops) = IsReady(link, ops)
    BY <1>4 DEF Outstanding, IsReady
  <1>7. /\ link' \in Link /\ link'.connected = l.connected /\ link'.session = l.session
        /\ link'.strand = l.strand /\ link'.m = l.m /\ link'.writes = l.writes
    BY <1>1, <1>3, <1>4, AppendFacts DEF Link, Ready
  <1>8. TypeOK'
    BY <1>2, <1>7 DEF IInv, TypeOK
  <1>9. QueueIsPumped' /\ StrandIsThere'
    BY <1>1, <1>2, <1>3, <1>4, <1>6, <1>7, AppendPumps DEF IInv, QueueIsPumped, StrandIsThere
  <1>10. QueuedInOrder(link, posted)'
    <2>1. QueuedInOrder(l, posted)
      BY <1>4, <1>5 DEF IInv, QueuedInOrder
    <2> QED
      BY <1>1, <1>2, <1>3, <1>4, <2>1, AppendKeeps
  <1>11. ASSUME ~overtaken PROVE OneAttempt(link')
    <2>1. /\ ReadyAt(link, {"connect"}) = {} /\ ReadyAt(link, {"wrote"}) = {}
          /\ link.strand /\ ~link.connected
      BY <1>1, <1>11 DEF IInv, OneAttempt
    <2>2. \A ops : \A i \in ReadyAt(link', ops) :
              \/ i \in ReadyAt(link, ops)
              \/ i = Len(l.ready) + 1 /\ h.op \in ops /\ link'.ready[i] = h
      BY <1>1, <1>3, <1>4, <1>5, AppendReadyAt
    <2>3. ReadyAt(link', {"wrote"}) = {}
      BY <1>3, <2>1, <2>2
    <2>4. \A i \in ReadyAt(link', {"connect"}) : i = Len(l.ready) + 1 /\ link'.ready[i] = h
      BY <2>1, <2>2
    <2> QED
      BY <1>3, <1>4, <1>7, <2>1, <2>3, <2>4 DEF OneAttempt
  <1>12. OneAtATime(link) => OneAtATime(link')
    <2>1. OneAtATime(link) => OneAtATime(l)
      BY <1>4, <1>5, <1>6 DEF OneAtATime
    <2> QED
      BY <1>1, <1>3, <1>4, <2>1, AppendKeeps
  <1>13. HandedBefore(handed, link, posted) => HandedBefore(handed, link', posted)
    <2>1. HandedBefore(handed, link, posted) => HandedBefore(handed, l, posted)
      BY <1>4, <1>5, <1>6 DEF HandedBefore
    <2> QED
      BY <1>1, <1>3, <1>4, <2>1, AppendKeeps
  <1> QED
    BY <1>2, <1>4, <1>7, <1>8, <1>9, <1>10, <1>11, <1>12, <1>13 DEF IInv

(* A write completes: it was the only one, and now its handler is.         *)
LEMMA WriteStep ==
    ASSUME IInv, NEW ok \in BOOLEAN, NEW i \in 1 .. Len(link.writes), WriteCompletes(i, ok)
    PROVE  IInv'
  <1> DEFINE l == [link EXCEPT !.writes = RemoveAt(@, i)]
             h == [op |-> "wrote", ok |-> ok]
  <1>1. /\ link \in Link /\ posted \in Nat /\ handed \in Seq(1 .. MaxMessages)
        /\ link' = Ready(l, h)
    BY DEF IInv, TypeOK, WriteCompletes
  <1>2. UNCHANGED <<crashed, miner, posted, handed, early, overtaken>>
    BY DEF WriteCompletes, Keep
  <1>3. h \in Handler /\ h.op = "wrote" /\ h.ok = ok
    BY DEF Handler
  <1>4. /\ link.writes \in Seq(1 .. MaxMessages) /\ Len(link.writes) \in Nat
        /\ link.writes # <<>> /\ Len(link.writes) >= 1
    BY <1>1 DEF Link
  <1>5. /\ RemoveAt(link.writes, i) \in Seq(1 .. MaxMessages)
        /\ Len(link.writes) <= 1 => RemoveAt(link.writes, i) = <<>>
    <2>1. /\ SubSeq(link.writes, 1, i - 1) \in Seq(1 .. MaxMessages)
          /\ SubSeq(link.writes, i + 1, Len(link.writes)) \in Seq(1 .. MaxMessages)
      BY <1>4
    <2>2. ASSUME Len(link.writes) <= 1 PROVE RemoveAt(link.writes, i) = <<>>
      <3>0. \A n \in Nat : \A j \in 1 .. n : n <= 1 => j = 1 /\ n = 1
        OBVIOUS
      <3>1. i = 1 /\ Len(link.writes) = 1
        BY <1>4, <2>2, <3>0
      <3>2. SubSeq(link.writes, 1, 0) = <<>> /\ SubSeq(link.writes, 2, 1) = <<>>
        BY <1>4
      <3> QED
        BY <3>1, <3>2 DEF RemoveAt
    <2> QED
      BY <2>1, <2>2, ConcatFacts DEF RemoveAt
  <1>6. /\ l \in Link /\ l.connected = link.connected /\ l.strand = link.strand
        /\ l.m = link.m /\ l.writes = RemoveAt(link.writes, i) /\ l.ready = link.ready
        /\ l.session = link.session
    BY <1>1, <1>5 DEF Link
  <1> HIDE DEF l, h
  <1>7. \A ops : ReadyAt(l, ops) = ReadyAt(link, ops)
    BY <1>6 DEF ReadyAt
  <1>8. Outstanding(link) # {}
    BY <1>1, <1>4, ReadyAtFacts
  <1>9. /\ link' \in Link /\ link'.connected = l.connected /\ link'.session = l.session
        /\ link'.strand = l.strand /\ link'.m = l.m /\ link'.writes = l.writes
        /\ Outstanding(link') # {}
    BY <1>1, <1>3, <1>6, AppendFacts, AppendPumps DEF Link, Ready
  <1>10. link.connected /\ link.session # "none"
    BY <1>4 DEF IInv, StrandIsThere
  <1>11. TypeOK'
    BY <1>2, <1>9 DEF IInv, TypeOK
  <1>12. QueueIsPumped' /\ StrandIsThere'
    BY <1>2, <1>6, <1>9, <1>10 DEF IInv, QueueIsPumped, StrandIsThere
  <1>13. QueuedInOrder(link, posted)'
    <2>1. QueuedInOrder(l, posted)
      BY <1>6, <1>7 DEF IInv, QueuedInOrder
    <2> QED
      BY <1>1, <1>2, <1>3, <1>6, <2>1, AppendKeeps
  <1>14. \A ops : \A j \in ReadyAt(link', ops) :
              \/ j \in ReadyAt(link, ops) /\ link'.ready[j] = link.ready[j]
              \/ j = Len(l.ready) + 1 /\ h.op \in ops
    <2>1. \A ops : \A j \in ReadyAt(Ready(l, h), ops) :
              \/ j \in ReadyAt(l, ops) /\ Ready(l, h).ready[j] = l.ready[j]
              \/ j = Len(l.ready) + 1 /\ h.op \in ops
      BY <1>3, <1>6, AppendReadyAt
    <2> QED
      BY <1>1, <1>6, <1>7, <2>1
  <1>15. ASSUME ~overtaken PROVE OneAttempt(link')
    <2>1. ReadyAt(link, {"connect"}) = {} /\ link.session = "open" /\ link.strand
      BY <1>10, <1>15 DEF IInv, OneAttempt
    <2>2. ReadyAt(link', {"connect"}) = {}
      BY <1>3, <1>14, <2>1
    <2> QED
      BY <1>6, <1>9, <2>1, <2>2 DEF OneAttempt
  <1>16. ASSUME OneAtATime(link) PROVE OneAtATime(link')
    <2>1. ReadyAt(link, {"proceed", "wrote"}) = {} /\ l.writes = <<>> /\ link.m # <<>>
      BY <1>4, <1>5, <1>6, <1>8, <1>16 DEF OneAtATime
    <2>2. \A j \in ReadyAt(link', {"proceed", "wrote"}) : j = Len(l.ready) + 1
      BY <1>14, <2>1
    <2> QED
      BY <1>6, <1>9, <1>10, <2>1, <2>2 DEF OneAtATime
  <1>17. HandedBefore(handed, link, posted) => HandedBefore(handed, link', posted)
    BY <1>3, <1>6, <1>9, <1>14 DEF HandedBefore
  <1> QED
    BY <1>2, <1>6, <1>9, <1>10, <1>11, <1>12, <1>13, <1>15, <1>16, <1>17 DEF IInv

(* What a handler finds when it has been taken from the front.             *)
LEMMA PoppedFacts ==
    ASSUME IInv, NEW op \in {"turn", "proceed", "connect", "wrote", "write"}, Comes(op)
    PROVE  /\ link \in Link /\ Popped \in Link /\ crashed = "no"
           /\ Popped.connected = link.connected /\ Popped.session = link.session
           /\ Popped.strand = link.strand /\ Popped.m = link.m /\ Popped.writes = link.writes
           /\ Head(link.ready) = link.ready[1] /\ link.ready[1] \in Handler /\ link.ready[1].op = op
           /\ QueuedInOrder(Popped, posted)
           /\ overtaken \/ OneAttempt(Popped)
           /\ early \/ overtaken \/ OneAtATime(Popped)
           /\ op # "wrote" => early \/ overtaken \/ HandedBefore(handed, Popped, posted)
           /\ op \notin {"proceed", "wrote"} /\ link.connected /\ link.m # <<>>
                => Outstanding(Popped) # {} \/ IsReady(Popped, {"proceed"})
  <1> DEFINE l == link
             p == Pop(l)
  <1>1. l \in Link /\ l.ready # <<>> /\ Head(l.ready).op = op /\ crashed = "no"
    BY DEF Comes, IInv, TypeOK
  <1>2. p = Popped
    BY DEF Pop, Popped
  <1>3. /\ p.connected = l.connected /\ p.session = l.session /\ p.strand = l.strand
        /\ p.m = l.m /\ p.writes = l.writes /\ p \in Link
    BY <1>1, PopFacts DEF Link, Pop
  <1>4. Head(l.ready) = l.ready[1] /\ l.ready[1] \in Handler
    <2>1. l.ready \in Seq(Handler) /\ 1 \in DOMAIN l.ready /\ Head(l.ready) = l.ready[1]
      BY <1>1, PopFacts DEF Link
    <2> QED
      BY <2>1
  <1> HIDE DEF p
  <1>5. /\ \A n : QueuedInOrder(l, n) => QueuedInOrder(p, n)
        /\ OneAttempt(l) => OneAttempt(p)
        /\ OneAtATime(l) => OneAtATime(p)
        /\ \A hs, n : HandedBefore(hs, l, n) /\ l.ready[1].op # "wrote" => HandedBefore(hs, p, n)
    BY <1>1, PopKeeps DEF p
  <1>6. ASSUME NEW ops, op \notin ops, ReadyAt(l, ops) # {} PROVE ReadyAt(p, ops) # {}
    <2>1. /\ \A i : i \in ReadyAt(p, ops) <=> i \in Nat \ {0} /\ i + 1 \in ReadyAt(l, ops)
          /\ l.ready[1].op \in ops <=> 1 \in ReadyAt(l, ops)
          /\ ReadyAt(l, ops) \subseteq Nat \ {0}
      BY <1>1, PopReadyAt DEF p
    <2>2. PICK i \in ReadyAt(l, ops) : TRUE
      BY <1>6
    <2>3. i \in Nat \ {0} /\ i # 1
      BY <1>1, <1>4, <1>6, <2>1
    <2>4. i - 1 \in Nat \ {0} /\ (i - 1) + 1 = i
      BY <2>3
    <2> QED
      BY <2>1, <2>4
  <1>7. ASSUME op \notin {"proceed", "wrote"}, l.connected, l.m # <<>>
        PROVE  Outstanding(p) # {} \/ IsReady(p, {"proceed"})
    <2>1. Outstanding(l) # {} \/ IsReady(l, {"proceed"})
      BY <1>1, <1>7 DEF IInv, QueueIsPumped
    <2>2. ReadyAt(l, {"wrote"}) # {} => ReadyAt(p, {"wrote"}) # {}
      BY <1>6, <1>7
    <2>3. ReadyAt(l, {"proceed"}) # {} => ReadyAt(p, {"proceed"}) # {}
      BY <1>6, <1>7
    <2> QED
      BY <1>1, <1>3, <2>1, <2>2, <2>3, ReadyAtFacts
  <1> QED
    BY <1>1, <1>2, <1>3, <1>4, <1>5, <1>7 DEF IInv

(* ... and when it was alone.                                              *)
LEMMA PoppedAlone ==
    ASSUME IInv, NEW op \in {"turn", "proceed", "connect", "wrote", "write"}, Comes(op), NEW ops,
           op \in ops, \A i, j \in ReadyAt(link, ops) : i = j
    PROVE  ReadyAt(Popped, ops) = {}
  <1>1. link \in Link /\ link.ready # <<>> /\ link.ready[1].op = op /\ Popped = Pop(link)
    BY PoppedFacts DEF Comes, Popped, Pop
  <1>2. 1 \in ReadyAt(link, ops)
        /\ \A i : i \in ReadyAt(Popped, ops) <=> i \in Nat \ {0} /\ i + 1 \in ReadyAt(link, ops)
    BY <1>1, PopReadyAt
  <1>3. ASSUME NEW i \in ReadyAt(Popped, ops) PROVE FALSE
    <2>1. i \in Nat \ {0} /\ i + 1 \in ReadyAt(link, ops)
      BY <1>2
    <2>2. i + 1 = 1
      BY <1>2, <2>1
    <2> QED
      BY <2>1, <2>2
  <1> QED
    BY <1>3

(* The queue and the messages that wait for it do not mind the socket.     *)
LEMMA DestroyedKeeps ==
    ASSUME NEW l \in Link, NEW n, QueuedInOrder(l, n)
    PROVE  QueuedInOrder(Destroyed(l), n)
  <1> DEFINE k == Destroyed(l)
  <1>1. k.m = l.m
    BY DEF Destroyed, Link
  <1>2. /\ \A i \in DOMAIN l.ready : i \in DOMAIN k.ready /\ k.ready[i] = l.ready[i]
        /\ \A i \in DOMAIN k.ready :
                 \/ i \in DOMAIN l.ready
                 \/ k.ready[i] = [op |-> "connect", ok |-> FALSE]
                 \/ k.ready[i] = [op |-> "wrote", ok |-> FALSE]
    BY DestroyedFacts
  <1> HIDE DEF k
  <1>3. \A i \in ReadyAt(k, {"write"}) : i \in ReadyAt(l, {"write"}) /\ k.ready[i] = l.ready[i]
    <2> SUFFICES ASSUME NEW i \in ReadyAt(k, {"write"})
                 PROVE  i \in ReadyAt(l, {"write"}) /\ k.ready[i] = l.ready[i]
      OBVIOUS
    <2>1. i \in DOMAIN k.ready /\ k.ready[i].op = "write"
      BY DEF ReadyAt
    <2>2. i \in DOMAIN l.ready
      BY <1>2, <2>1
    <2> QED
      BY <1>2, <2>1, <2>2 DEF ReadyAt
  <1> QED
    BY <1>1, <1>3 DEF QueuedInOrder, k

(* A turn of run_network: when no operation of the last attempt is left a new*)
(* attempt is alone; otherwise it overtakes it and the race is on record.  *)
LEMMA RunNetworkStep ==
    ASSUME IInv, NEW how \in Setup, RunNetwork(how)
    PROVE  IInv'
  <1> DEFINE p == Popped
  <1>1. /\ Comes("turn") /\ UNCHANGED <<crashed, miner, posted, early>>
    BY DEF RunNetwork
  <1>2. /\ link \in Link /\ p \in Link /\ crashed = "no"
        /\ p.connected = link.connected /\ p.session = link.session
        /\ p.strand = link.strand /\ p.m = link.m /\ p.writes = link.writes
        /\ QueuedInOrder(p, posted)
        /\ overtaken \/ OneAttempt(p)
        /\ early \/ overtaken \/ OneAtATime(p)
        /\ early \/ overtaken \/ HandedBefore(handed, p, posted)
        /\ link.connected /\ link.m # <<>>
                => Outstanding(p) # {} \/ IsReady(p, {"proceed"})
    BY <1>1, PoppedFacts
  <1>3. /\ link.strand \/ link.writes # <<>> => link.session # "none"
        /\ ~link.connected => link.writes = <<>>
        /\ Len(link.writes) \in Nat
    BY DEF IInv, StrandIsThere, TypeOK, Link
  <1>4. ASSUME link' = p, handed' = handed, overtaken' \in BOOLEAN, overtaken => overtaken' PROVE IInv'
    <2>1. TypeOK'
      BY <1>1, <1>2, <1>4 DEF IInv, TypeOK
    <2>2. QueueIsPumped' /\ StrandIsThere'
      BY <1>1, <1>2, <1>3, <1>4 DEF QueueIsPumped, StrandIsThere
    <2> QED
      BY <1>1, <1>2, <1>3, <1>4, <2>1, <2>2 DEF IInv
  <1>5. CASE link.connected
    <2>1. Becomes(p) /\ UNCHANGED overtaken
      BY <1>5 DEF RunNetwork
    <2>2. link' = p /\ handed' = handed
      BY <1>2, <1>3, <2>1 DEF Becomes
    <2>3. overtaken' \in BOOLEAN /\ (overtaken => overtaken')
      BY <2>1 DEF IInv, TypeOK
    <2> QED
      BY <1>4, <2>2, <2>3
  <1>6. CASE ~link.connected
    <2> DEFINE k == Connecting(p, how)
    <2>1. /\ Becomes(k)
          /\ overtaken' = \/ overtaken
                          \/ link.session = "connecting"
                          \/ IsReady(link, {"connect", "wrote"})
      BY <1>6 DEF RunNetwork
    <2>2. CASE how = "no_session"
      <3>1. k = p
        BY <2>2 DEF Connecting
      <3> QED
        <4>1. link' = p /\ handed' = handed
          BY <1>2, <1>3, <2>1, <3>1 DEF Becomes
        <4>2. overtaken' \in BOOLEAN /\ (overtaken => overtaken')
          BY <2>1
        <4> QED
          BY <1>4, <4>1, <4>2
    <2>3. CASE how # "no_session"
      <3>1. Destroyed(p) \in Link /\ Destroyed(p).writes = <<>>
        BY <1>2, DestroyedFacts
      <3>2. /\ Destroyed(p).connected = FALSE /\ Destroyed(p).m = p.m
            /\ Destroyed(p).strand = p.strand
        BY <1>2, <1>6 DEF Destroyed, Link
      <3>3. /\ k \in Link /\ ~k.connected /\ k.m = p.m /\ k.writes = <<>>
            /\ k.ready = Destroyed(p).ready /\ k.session \in {"idle", "connecting"}
            /\ k.session = "connecting" => k.strand
        BY <2>3, <3>1, <3>2 DEF Connecting, WithStrand, Setup, Link
      <3> HIDE DEF k
      <3>4. link' = k /\ handed' = handed
        BY <1>3, <2>1, <3>3 DEF Becomes
      <3>5. TypeOK'
        BY <1>1, <2>1, <3>3, <3>4 DEF IInv, TypeOK
      <3>6. QueueIsPumped' /\ StrandIsThere'
        BY <1>1, <1>2, <3>3, <3>4 DEF QueueIsPumped, StrandIsThere
      <3>7. QueuedInOrder(k, posted)
        <4>1. QueuedInOrder(Destroyed(p), posted)
          BY <1>2, DestroyedKeeps
        <4>2. ReadyAt(k, {"write"}) = ReadyAt(Destroyed(p), {"write"})
          BY <3>3 DEF ReadyAt
        <4> QED
          BY <3>2, <3>3, <4>1, <4>2 DEF QueuedInOrder
      <3>8. ASSUME ~overtaken' PROVE OneAttempt(k)
                   /\ (early \/ (OneAtATime(k) /\ HandedBefore(handed, k, posted)))
        <4>1. /\ ~overtaken /\ link.session # "connecting"
              /\ ~IsReady(link, {"connect", "wrote"})
          BY <2>1, <3>8
        <4>2. k.ready = p.ready /\ k.writes = p.writes
          BY <1>2, <1>3, <1>6, <3>3, <4>1, DestroyedFacts
        <4>3. \A ops : ReadyAt(k, ops) = ReadyAt(p, ops)
          BY <4>2 DEF ReadyAt
        <4>4. Outstanding(k) = Outstanding(p)
          BY <4>2 DEF Outstanding
        <4>5. ReadyAt(p, {"connect"}) = {} /\ ReadyAt(p, {"wrote"}) = {}
          <5>1. ReadyAt(link, {"connect", "wrote"}) = {}
            BY <1>2, <4>1, ReadyAtFacts
          <5>2. /\ \A ops : \A i \in ReadyAt(p, ops) : i + 1 \in ReadyAt(link, ops)
            BY <1>1, <1>2, PopReadyAt DEF Comes, Popped, Pop
          <5>3. ReadyAt(link, {"connect"}) = {} /\ ReadyAt(link, {"wrote"}) = {}
            BY <5>1 DEF ReadyAt
          <5> QED
            BY <5>2, <5>3
        <4>6. OneAttempt(k)
          BY <3>3, <4>3, <4>5 DEF OneAttempt
        <4>7. OneAtATime(p) => OneAtATime(k)
          BY <1>2, <1>6, <3>3, <4>2, <4>3, <4>4 DEF OneAtATime
        <4>8. HandedBefore(handed, p, posted) => HandedBefore(handed, k, posted)
          BY <3>3, <4>2, <4>3, <4>4 DEF HandedBefore
        <4> QED
          BY <1>2, <4>1, <4>6, <4>7, <4>8
      <3> QED
        BY <1>1, <3>3, <3>4, <3>5, <3>6, <3>7, <3>8 DEF IInv
    <2> QED
      BY <2>2, <2>3
  <1> QED
    BY <1>5, <1>6

(* Closing: the queue is kept, and nothing else of the connection is left  *)
(* but the handlers of what it was doing.                                  *)
LEMMA CloseFacts ==
    ASSUME NEW l \in Link
    PROVE  /\ ClosePeerConnection(l) \in Link
           /\ ~ClosePeerConnection(l).connected /\ ~ClosePeerConnection(l).strand
           /\ ClosePeerConnection(l).session = "none" /\ ClosePeerConnection(l).writes = <<>>
           /\ ClosePeerConnection(l).m = l.m
           /\ \A n : QueuedInOrder(l, n) => QueuedInOrder(ClosePeerConnection(l), n)
           /\ l.session # "connecting" /\ l.writes = <<>>
                => ClosePeerConnection(l).ready = l.ready
           /\ \A ops : "connect" \notin ops /\ "wrote" \notin ops
                /\ ReadyAt(l, ops) = {} => ReadyAt(ClosePeerConnection(l), ops) = {}
           /\ l.session # "connecting" /\ ReadyAt(l, {"connect"}) = {}
                => ReadyAt(ClosePeerConnection(l), {"connect"}) = {}
  <1> DEFINE k == ClosePeerConnection(l)
             d == Destroyed(l)
  <1>1. /\ d \in Link /\ d.writes = <<>>
        /\ \A i \in DOMAIN d.ready :
                 \/ i \in DOMAIN l.ready
                 \/ l.session = "connecting" /\ d.ready[i] = [op |-> "connect", ok |-> FALSE]
                 \/ l.writes # <<>> /\ d.ready[i] = [op |-> "wrote", ok |-> FALSE]
        /\ \A i \in DOMAIN l.ready : d.ready[i] = l.ready[i]
        /\ l.session # "connecting" /\ l.writes = <<>> => d.ready = l.ready
    BY DestroyedFacts
  <1>2. d.m = l.m
    BY DEF Destroyed, Link
  <1> HIDE DEF d
  <1>3. /\ k \in Link /\ ~k.connected /\ ~k.strand /\ k.session = "none"
        /\ k.writes = <<>> /\ k.m = l.m /\ k.ready = d.ready
    BY <1>1, <1>2 DEF ClosePeerConnection, Link, d
  <1> HIDE DEF k
  <1>4. ASSUME NEW n, QueuedInOrder(l, n) PROVE QueuedInOrder(k, n)
    <2>1. QueuedInOrder(d, n)
      BY <1>4, DestroyedKeeps DEF d
    <2> QED
      BY <1>2, <1>3, <2>1 DEF QueuedInOrder, ReadyAt
  <1>5. ASSUME NEW ops, "wrote" \notin ops, ReadyAt(l, ops) = {},
               "connect" \notin ops \/ l.session # "connecting"
        PROVE  ReadyAt(k, ops) = {}
    BY <1>1, <1>3, <1>5 DEF ReadyAt
  <1> QED
    BY <1>1, <1>3, <1>4, <1>5 DEF k

(* The handler of async_connect: strand_proceed becomes ready, alone.      *)
LEMMA HandleConnectStep ==
    ASSUME IInv, HandleConnect
    PROVE  IInv'
  <1> DEFINE p == Popped
             ok == link.ready[1].ok
  <1>1. /\ Comes("connect") /\ UNCHANGED <<miner, posted, early, overtaken>>
    BY DEF HandleConnect
  <1>2. /\ link \in Link /\ p \in Link /\ crashed = "no"
        /\ p.connected = link.connected /\ p.session = link.session
        /\ p.strand = link.strand /\ p.m = link.m /\ p.writes = link.writes
        /\ QueuedInOrder(p, posted)
        /\ overtaken \/ OneAttempt(p)
        /\ early \/ overtaken \/ OneAtATime(p)
        /\ early \/ overtaken \/ HandedBefore(handed, p, posted)
        /\ Head(link.ready) = link.ready[1] /\ link.ready[1].op = "connect"
        /\ link.ready[1] \in Handler
    BY <1>1, PoppedFacts
  <1>3. /\ Becomes(IF ok THEN Connected(p) ELSE ClosePeerConnection(p))
        /\ crashed' = IF ok /\ ~link.strand THEN "connect" ELSE "no"
    BY <1>2 DEF HandleConnect
  <1>4. /\ link.strand \/ link.writes # <<>> => link.session # "none"
        /\ ~link.connected => link.writes = <<>>
        /\ link.writes \in Seq(1 .. MaxMessages) /\ Len(link.writes) \in Nat
        /\ posted \in Nat /\ handed \in Seq(1 .. MaxMessages)
    BY DEF IInv, StrandIsThere, TypeOK, Link
  <1>5. ASSUME ~overtaken PROVE
        /\ link.strand /\ ~link.connected /\ link.session # "connecting"
        /\ ReadyAt(link, {"wrote"}) = {} /\ ReadyAt(p, {"wrote"}) = {} /\ ReadyAt(p, {"connect"}) = {}
        /\ ok => link.session = "open"
    <2>1. OneAttempt(link)
      BY <1>5 DEF IInv
    <2>2. 1 \in ReadyAt(link, {"connect"})
      BY <1>1, <1>2, PopReadyAt DEF Comes
    <2>3. ReadyAt(p, {"connect"}) = {}
      BY <1>1, <2>1, PoppedAlone DEF OneAttempt
    <2>4. ReadyAt(link, {"wrote"}) = {}
      BY <2>1, <2>2 DEF OneAttempt
    <2>5. \A i \in ReadyAt(p, {"wrote"}) : i + 1 \in ReadyAt(link, {"wrote"})
      BY <1>1, <1>2, PopReadyAt DEF Comes, Popped, Pop
    <2> QED
      BY <2>1, <2>2, <2>3, <2>4, <2>5 DEF OneAttempt
  <1>6. CASE ok
    <2> DEFINE l == [p EXCEPT !.connected = TRUE]
               h == [op |-> "proceed"]
               k == Ready(l, h)
    <2>1. /\ l \in Link /\ l.connected /\ l.session = p.session /\ l.strand = p.strand
          /\ l.m = p.m /\ l.writes = p.writes /\ l.ready = p.ready
      BY <1>2 DEF Link
    <2>2. h \in Handler /\ h.op = "proceed"
      BY DEF Handler
    <2>3. Becomes(k)
      BY <1>3, <1>6 DEF Connected
    <2> HIDE DEF l, h
    <2>4. /\ k \in Link /\ k.connected /\ k.session = p.session /\ k.strand = p.strand
          /\ k.m = p.m /\ k.writes = p.writes
      BY <2>1, <2>2, AppendFacts DEF Link, Ready
    <2>5. link' = k /\ handed' = handed
      BY <1>2, <1>4, <2>3, <2>4 DEF Becomes
    <2>6. \A ops : ReadyAt(l, ops) = ReadyAt(p, ops)
      BY <2>1 DEF ReadyAt
    <2>7. Outstanding(l) = Outstanding(p)
      BY <2>1 DEF Outstanding
    <2>8. TypeOK'
      BY <1>1, <1>3, <2>4, <2>5 DEF IInv, TypeOK
    <2>9. QueueIsPumped'
      <3>1. IsReady(k, {"proceed"})
        BY <2>1, <2>2, AppendPumps
      <3> QED
        BY <2>5, <3>1 DEF QueueIsPumped
    <2>10. StrandIsThere'
      BY <1>1, <1>2, <1>3, <1>4, <1>5, <2>4, <2>5 DEF StrandIsThere
    <2>11. QueuedInOrder(k, posted)
      <3>1. QueuedInOrder(l, posted)
        BY <1>2, <2>1, <2>6 DEF QueuedInOrder
      <3> QED
        BY <1>4, <2>1, <2>2, <3>1, AppendKeeps
    <2>12. ASSUME ~overtaken PROVE OneAttempt(k)
      <3>1. OneAttempt(l)
        BY <1>2, <1>5, <1>6, <2>1, <2>6, <2>12 DEF OneAttempt
      <3> QED
        BY <1>4, <2>1, <2>2, <3>1, AppendKeeps
    <2>13. ASSUME ~overtaken, ~early PROVE OneAtATime(k) /\ HandedBefore(handed, k, posted)
      <3>1. HandedBefore(handed, l, posted)
        BY <1>2, <2>1, <2>6, <2>7, <2>13 DEF HandedBefore
      <3>2. HandedBefore(handed, k, posted)
        BY <1>4, <2>1, <2>2, <3>1, AppendKeeps
      <3>3. ReadyAt(p, {"proceed", "wrote"}) = {} /\ p.writes = <<>>
        BY <1>2, <1>4, <1>5, <2>13 DEF OneAtATime
      <3>4. /\ \A i \in ReadyAt(k, {"proceed", "wrote"}) : i = Len(l.ready) + 1
            /\ ReadyAt(k, {"wrote"}) = {}
        <4>1. \A ops : \A i \in ReadyAt(k, ops) :
                 i \in ReadyAt(l, ops) \/ (i = Len(l.ready) + 1 /\ h.op \in ops)
          BY <2>1, <2>2, AppendReadyAt
        <4>2. ReadyAt(l, {"proceed", "wrote"}) = {} /\ ReadyAt(l, {"wrote"}) = {}
          BY <1>5, <2>6, <2>13, <3>3
        <4> QED
          BY <2>2, <4>1, <4>2
      <3>5. Outstanding(k) = {}
        BY <2>4, <3>3, <3>4, ReadyAtFacts
      <3>6. k.writes = <<>> /\ Len(k.writes) <= 1
        BY <2>4, <3>3
      <3> QED
        BY <2>4, <3>2, <3>4, <3>5, <3>6 DEF OneAtATime
    <2> HIDE DEF k
    <2> QED
      BY <1>1, <2>4, <2>5, <2>8, <2>9, <2>10, <2>11, <2>12, <2>13 DEF IInv
  <1>7. CASE ~ok
    <2> DEFINE k == ClosePeerConnection(p)
    <2>1. Becomes(k) /\ crashed' = "no"
      BY <1>3, <1>7
    <2>2. /\ k \in Link /\ ~k.connected /\ ~k.strand /\ k.session = "none"
          /\ k.writes = <<>> /\ k.m = p.m /\ QueuedInOrder(k, posted)
          /\ p.session # "connecting" /\ p.writes = <<>> => k.ready = p.ready
      BY <1>2, CloseFacts
    <2> HIDE DEF k
    <2>3. link' = k /\ handed' = handed
      BY <1>4, <2>1, <2>2 DEF Becomes
    <2>4. TypeOK'
      BY <1>1, <2>1, <2>2, <2>3 DEF IInv, TypeOK
    <2>5. QueueIsPumped' /\ StrandIsThere'
      BY <2>1, <2>2, <2>3 DEF QueueIsPumped, StrandIsThere
    <2>6. ASSUME ~overtaken PROVE
             /\ OneAttempt(k)
             /\ early \/ (OneAtATime(k) /\ HandedBefore(handed, k, posted))
      <3>1. k.ready = p.ready /\ k.writes = p.writes
        BY <1>2, <1>4, <1>5, <2>2, <2>6
      <3>2. \A ops : ReadyAt(k, ops) = ReadyAt(p, ops)
        BY <3>1 DEF ReadyAt
      <3>3. Outstanding(k) = Outstanding(p)
        BY <3>1 DEF Outstanding
      <3>4. OneAttempt(k)
        BY <1>5, <2>2, <2>6, <3>2 DEF OneAttempt
      <3>5. OneAtATime(p) => OneAtATime(k)
        BY <1>2, <1>5, <2>2, <2>6, <3>1, <3>2, <3>3 DEF OneAtATime
      <3>6. HandedBefore(handed, p, posted) => HandedBefore(handed, k, posted)
        BY <2>2, <3>1, <3>2, <3>3 DEF HandedBefore
      <3> QED
        BY <1>2, <2>6, <3>4, <3>5, <3>6
    <2> QED
      BY <1>1, <2>2, <2>3, <2>4, <2>5, <2>6 DEF IInv
  <1> QED
    BY <1>6, <1>7

(* What write does.                                                        *)
LEMMA WriteFacts ==
    ASSUME NEW l \in Link, l.m # <<>>
    PROVE  /\ Write(l) \in Link /\ Write(l).connected = l.connected
           /\ Write(l).session = l.session /\ Write(l).strand = l.strand
           /\ Write(l).ready = l.ready /\ l.m[1] \in 1 .. MaxMessages
           /\ CanSend(l) => /\ Write(l).m = l.m /\ Write(l).writes = Append(l.writes, l.m[1])
                            /\ Len(Write(l).writes) = Len(l.writes) + 1
                            /\ Last(Write(l).writes) = l.m[1] /\ Outstanding(Write(l)) # {}
           /\ ~CanSend(l) => Write(l).m = <<>> /\ Write(l).writes = l.writes
           /\ \A n : QueuedInOrder(l, n) => QueuedInOrder(Write(l), n)
           /\ OneAttempt(l) => OneAttempt(Write(l))
  <1> DEFINE k == Write(l)
  <1>1. /\ l.m \in Seq(1 .. MaxMessages) /\ l.writes \in Seq(1 .. MaxMessages)
        /\ Len(l.writes) \in Nat
    BY DEF Link
  <1>2. Head(l.m) = l.m[1] /\ l.m[1] \in 1 .. MaxMessages
    BY <1>1
  <1>3. /\ Append(l.writes, l.m[1]) \in Seq(1 .. MaxMessages)
        /\ Len(Append(l.writes, l.m[1])) = Len(l.writes) + 1
        /\ Append(l.writes, l.m[1])[Len(l.writes) + 1] = l.m[1]
    BY <1>1, <1>2
  <1>4. <<>> \in Seq(1 .. MaxMessages)
    OBVIOUS
  <1>5. CASE CanSend(l)
    <2>1. k = [l EXCEPT !.writes = Append(l.writes, l.m[1])]
      BY <1>2, <1>5 DEF Write
    <2>2. /\ k \in Link /\ k.connected = l.connected /\ k.session = l.session
          /\ k.strand = l.strand /\ k.ready = l.ready /\ k.m = l.m
          /\ k.writes = Append(l.writes, l.m[1])
      BY <1>3, <2>1 DEF Link
    <2> HIDE DEF k
    <2>3. Last(k.writes) = l.m[1] /\ k.writes # <<>> /\ Len(k.writes) = Len(l.writes) + 1
      <3>1. Len(k.writes) = Len(l.writes) + 1 /\ k.writes[Len(k.writes)] = l.m[1]
        BY <1>3, <2>2
      <3>2. Len(k.writes) # 0
        BY <1>1, <3>1
      <3> QED
        BY <3>1, <3>2 DEF Last
    <2>4. Outstanding(k) # {}
      BY <2>2, <2>3, ReadyAtFacts
    <2>5. \A n : QueuedInOrder(l, n) => QueuedInOrder(k, n)
      BY <2>2 DEF QueuedInOrder, ReadyAt
    <2>6. OneAttempt(l) => OneAttempt(k)
      BY <2>2 DEF OneAttempt, ReadyAt
    <2> QED
      BY <1>2, <1>5, <2>2, <2>3, <2>4, <2>5, <2>6 DEF k
  <1>6. CASE ~CanSend(l)
    <2>1. k = [l EXCEPT !.m = <<>>]
      BY <1>6 DEF Write
    <2>2. /\ k \in Link /\ k.connected = l.connected /\ k.session = l.session
          /\ k.strand = l.strand /\ k.ready = l.ready /\ k.m = <<>> /\ k.writes = l.writes
      BY <1>4, <2>1 DEF Link
    <2> HIDE DEF k
    <2>3. \A n : QueuedInOrder(l, n) => QueuedInOrder(k, n)
      BY <2>2 DEF QueuedInOrder, ReadyAt, Rises
    <2>4. OneAttempt(l) => OneAttempt(k)
      BY <2>2 DEF OneAttempt, ReadyAt
    <2> QED
      BY <1>2, <1>6, <2>2, <2>3, <2>4 DEF k
  <1> QED
    BY <1>5, <1>6

(* When nothing else is under way the message in front is handed over, and *)
(* is the only one.                                                        *)
LEMMA WriteAlone ==
    ASSUME NEW l \in Link, l.m # <<>>, CanSend(l), l.writes = <<>>,
           ReadyAt(l, {"proceed", "wrote"}) = {},
           NEW n \in Nat, QueuedInOrder(l, n), NEW hs \in Seq(1 .. MaxMessages), Rises(hs),
           \A i \in DOMAIN hs :
              /\ hs[i] <= n
              /\ \A j \in ReadyAt(l, {"write"}) : hs[i] < l.ready[j].msg
              /\ \A j \in DOMAIN l.m : hs[i] < l.m[j]
    PROVE  OneAtATime(Write(l)) /\ HandedBefore(Append(hs, l.m[1]), Write(l), n)
  <1> DEFINE k == Write(l)
             gs == Append(hs, l.m[1])
  <1>1. /\ k \in Link /\ k.connected = l.connected /\ k.ready = l.ready /\ k.m = l.m
        /\ k.writes = Append(l.writes, l.m[1]) /\ Len(k.writes) = Len(l.writes) + 1
        /\ l.m[1] \in 1 .. MaxMessages /\ Outstanding(k) # {}
    BY WriteFacts
  <1>2. k.writes = <<l.m[1]>> /\ Len(k.writes) = 1 /\ k.writes[1] = l.m[1]
    BY <1>1
  <1> HIDE DEF k
  <1>3. \A ops : ReadyAt(k, ops) = ReadyAt(l, ops)
    BY <1>1 DEF ReadyAt
  <1>4. OneAtATime(k)
    BY <1>1, <1>2, <1>3 DEF OneAtATime, CanSend
  <1>5. /\ l.m \in Seq(1 .. MaxMessages) /\ Len(l.m) \in Nat /\ Len(l.m) >= 1
        /\ DOMAIN l.m = 1 .. Len(l.m) /\ 1 \in DOMAIN l.m
        /\ \A i \in DOMAIN l.m : l.m[i] \in Nat
    BY DEF Link
  <1>6. /\ Len(hs) \in Nat /\ DOMAIN hs = 1 .. Len(hs) /\ \A i \in DOMAIN hs : hs[i] \in Nat
        /\ DOMAIN gs = 1 .. Len(hs) + 1 /\ \A i \in 1 .. Len(hs) : gs[i] = hs[i]
        /\ gs[Len(hs) + 1] = l.m[1]
    BY <1>1
  <1> HIDE DEF gs
  <1>7. \A i \in DOMAIN gs : (i \in DOMAIN hs /\ gs[i] = hs[i]) \/ (i = Len(hs) + 1 /\ gs[i] = l.m[1])
    BY <1>6
  <1>8. Rises(gs)
    <2> SUFFICES ASSUME NEW i \in DOMAIN gs, NEW j \in DOMAIN gs, i < j PROVE gs[i] < gs[j]
      BY DEF Rises
    <2>1. i \in DOMAIN hs /\ gs[i] = hs[i]
      BY <1>6
    <2>2. CASE j \in DOMAIN hs
      BY <1>6, <2>1, <2>2 DEF Rises
    <2>3. CASE gs[j] = l.m[1]
      BY <1>5, <2>1, <2>3
    <2> QED
      BY <1>7, <2>2, <2>3
  <1>9. ASSUME NEW i \in DOMAIN gs
        PROVE  /\ gs[i] <= n
               /\ \A j \in ReadyAt(k, {"write"}) : gs[i] < k.ready[j].msg
               /\ \A j \in DOMAIN k.m : gs[i] <= k.m[j]
    <2>1. CASE i \in DOMAIN hs /\ gs[i] = hs[i]
      <3>1. \A j \in DOMAIN l.m : hs[i] <= l.m[j]
        BY <1>5, <1>6, <2>1
      <3> QED
        BY <1>1, <1>3, <2>1, <3>1
    <2>2. CASE gs[i] = l.m[1]
      <3>1. \A j \in DOMAIN l.m : l.m[1] <= l.m[j]
        <4> TAKE j \in DOMAIN l.m
        <4>1. j = 1 \/ 1 < j
          BY <1>5
        <4>2. 1 < j => l.m[1] < l.m[j]
          BY <1>5 DEF QueuedInOrder, Rises
        <4> QED
          BY <1>5, <4>1, <4>2
      <3>2. l.m[1] <= n /\ \A j \in ReadyAt(l, {"write"}) : l.m[1] < l.ready[j].msg
        BY <1>5 DEF QueuedInOrder
      <3> QED
        BY <1>1, <1>3, <2>2, <3>1, <3>2
    <2> QED
      BY <1>7, <2>1, <2>2
  <1>10. HandedBefore(gs, k, n)
    BY <1>1, <1>8, <1>9 DEF HandedBefore
  <1> QED
    BY <1>4, <1>10 DEF k, gs

(* The message in front is taken off.                                      *)
LEMMA TailFacts ==
    ASSUME NEW l \in Link, l.m # <<>>
    PROVE  LET k == [l EXCEPT !.m = Tail(@)]
           IN  /\ k \in Link /\ k.connected = l.connected /\ k.session = l.session
               /\ k.strand = l.strand /\ k.writes = l.writes /\ k.ready = l.ready
               /\ \A i \in DOMAIN k.m : i + 1 \in DOMAIN l.m /\ i + 1 > 1 /\ k.m[i] = l.m[i + 1]
               /\ 1 \in DOMAIN l.m
               /\ \A n : QueuedInOrder(l, n) => QueuedInOrder(k, n)
               /\ OneAttempt(l) => OneAttempt(k)
  <1> DEFINE k == [l EXCEPT !.m = Tail(@)]
  <1>1. l.m \in Seq(1 .. MaxMessages) /\ Tail(l.m) \in Seq(1 .. MaxMessages)
    BY DEF Link
  <1>2. /\ k \in Link /\ k.connected = l.connected /\ k.session = l.session
        /\ k.strand = l.strand /\ k.writes = l.writes /\ k.ready = l.ready
        /\ k.m = Tail(l.m)
    BY <1>1 DEF Link
  <1> HIDE DEF k
  <1>3. /\ Len(l.m) \in Nat /\ Len(l.m) >= 1 /\ DOMAIN l.m = 1 .. Len(l.m)
        /\ Len(Tail(l.m)) = Len(l.m) - 1
        /\ \A i \in 1 .. Len(l.m) - 1 : Tail(l.m)[i] = l.m[i + 1]
    BY <1>1
  <1>4. DOMAIN k.m = 1 .. Len(l.m) - 1
    BY <1>1, <1>2, <1>3
  <1>5. /\ \A i \in DOMAIN k.m : i + 1 \in DOMAIN l.m /\ i + 1 > 1 /\ k.m[i] = l.m[i + 1]
        /\ 1 \in DOMAIN l.m
    BY <1>2, <1>3, <1>4
  <1>6. ASSUME Rises(l.m) PROVE Rises(k.m)
    <2> SUFFICES ASSUME NEW i \in DOMAIN k.m, NEW j \in DOMAIN k.m, i < j PROVE k.m[i] < k.m[j]
      BY DEF Rises
    <2>1. i + 1 \in DOMAIN l.m /\ j + 1 \in DOMAIN l.m /\ i + 1 < j + 1
      BY <1>3, <1>4, <1>5
    <2>2. l.m[i + 1] < l.m[j + 1]
      BY <1>6, <2>1 DEF Rises
    <2> QED
      BY <1>5, <2>2
  <1>7. ASSUME NEW n, QueuedInOrder(l, n) PROVE QueuedInOrder(k, n)
    BY <1>2, <1>5, <1>6, <1>7 DEF QueuedInOrder, ReadyAt
  <1>8. OneAttempt(l) => OneAttempt(k)
    BY <1>2 DEF OneAttempt, ReadyAt
  <1> QED
    BY <1>2, <1>5, <1>7, <1>8 DEF k

(* A handler that ends by writing, from the link l it has come to.         *)
LEMMA WritingStep ==
    ASSUME IInv, NEW l \in Link, l.m # <<>>, Becomes(Write(l)),
           l.connected = link.connected, l.session = link.session, l.strand = link.strand,
           l.writes = link.writes, QueuedInOrder(l, posted), overtaken \/ OneAttempt(l),
           crashed = "no", UNCHANGED <<crashed, miner, posted, overtaken>>,
           early' \in BOOLEAN, early => early',
           ~early' /\ ~overtaken =>
              /\ l.writes = <<>> /\ ReadyAt(l, {"proceed", "wrote"}) = {}
              /\ Rises(handed)
              /\ \A i \in DOMAIN handed :
                    /\ handed[i] <= posted
                    /\ \A j \in ReadyAt(l, {"write"}) : handed[i] < l.ready[j].msg
                    /\ \A j \in DOMAIN l.m : handed[i] < l.m[j]
    PROVE  IInv'
  <1> DEFINE k == Write(l)
  <1>1. /\ k \in Link /\ k.connected = l.connected /\ k.session = l.session
        /\ k.strand = l.strand /\ k.ready = l.ready /\ l.m[1] \in 1 .. MaxMessages
        /\ QueuedInOrder(k, posted) /\ (overtaken \/ OneAttempt(k))
        /\ ~CanSend(l) => k.m = <<>> /\ k.writes = l.writes
        /\ CanSend(l) => /\ Len(k.writes) = Len(l.writes) + 1 /\ Last(k.writes) = l.m[1]
                         /\ Outstanding(k) # {}
    BY WriteFacts
  <1> HIDE DEF k
  <1>2. /\ link.strand \/ link.writes # <<>> => link.session # "none"
        /\ ~link.connected => link.writes = <<>>
        /\ Len(link.writes) \in Nat
        /\ posted \in Nat /\ handed \in Seq(1 .. MaxMessages)
    BY DEF IInv, StrandIsThere, TypeOK, Link
  <1>3. link' = k /\ handed' = IF CanSend(l) THEN Append(handed, l.m[1]) ELSE handed
    <2>1. Len(k.writes) > Len(link.writes) <=> CanSend(l)
      BY <1>1, <1>2
    <2> QED
      BY <1>1, <2>1 DEF Becomes, k
  <1>4. handed' \in Seq(1 .. MaxMessages)
    <2>1. Append(handed, l.m[1]) \in Seq(1 .. MaxMessages)
      BY <1>1, <1>2
    <2> QED
      BY <1>2, <1>3, <2>1
  <1>5. TypeOK'
    BY <1>1, <1>3, <1>4 DEF IInv, TypeOK
  <1>6. QueueIsPumped'
    BY <1>1, <1>3 DEF QueueIsPumped
  <1>7. StrandIsThere' /\ (~k.connected => k.writes = <<>>)
    BY <1>1, <1>2, <1>3 DEF StrandIsThere, CanSend
  <1>8. ASSUME ~early', ~overtaken PROVE OneAtATime(k) /\ HandedBefore(handed', k, posted)
    <2>1. CASE CanSend(l)
      <3>1. OneAtATime(Write(l)) /\ HandedBefore(Append(handed, l.m[1]), Write(l), posted)
        BY <1>2, <1>8, <2>1, WriteAlone
      <3> QED
        BY <1>3, <2>1, <3>1 DEF k
    <2>2. CASE ~CanSend(l)
      <3>1. k.m = <<>> /\ k.writes = <<>> /\ handed' = handed /\ Len(k.writes) <= 1
        BY <1>1, <1>3, <1>8, <2>2
      <3>2. \A ops : ReadyAt(k, ops) = ReadyAt(l, ops)
        BY <1>1 DEF ReadyAt
      <3>3. ReadyAt(k, {"wrote"}) = {} /\ ReadyAt(k, {"proceed", "wrote"}) = {}
        BY <1>8, <3>2 DEF ReadyAt
      <3>4. Outstanding(k) = {}
        BY <1>1, <3>1, <3>3, ReadyAtFacts
      <3>5. OneAtATime(k)
        BY <3>1, <3>3, <3>4 DEF OneAtATime
      <3>6. HandedBefore(handed, k, posted)
        BY <1>1, <1>8, <3>1, <3>2 DEF HandedBefore
      <3> QED
        BY <3>1, <3>5, <3>6
    <2> QED
      BY <2>1, <2>2
  <1>9. (overtaken \/ OneAttempt(link))' /\ QueuedInOrder(link, posted)'
    BY <1>1, <1>3
  <1>10. (early \/ overtaken \/ (OneAtATime(link) /\ HandedBefore(handed, link, posted)))'
    BY <1>3, <1>8
  <1>11. (~link.connected => link.writes = <<>>)'
    BY <1>3, <1>7
  <1> QED
    BY <1>5, <1>6, <1>7, <1>9, <1>10, <1>11 DEF IInv

(* A handler that leaves the link at l and writes nothing.                 *)
LEMMA QuietStep ==
    ASSUME IInv, NEW l \in Link, Becomes(l),
           l.session = link.session \/ (l.session = "none" /\ ~l.strand),
           l.strand => link.strand, l.writes = link.writes \/ l.writes = <<>>,
           ~l.connected => l.writes = <<>>,
           l.connected /\ l.m # <<>> => Outstanding(l) # {} \/ IsReady(l, {"proceed"}),
           l.session = "none" => l.writes = <<>>,
           QueuedInOrder(l, posted), overtaken \/ OneAttempt(l),
           crashed = "no", UNCHANGED <<crashed, miner, posted, overtaken>>,
           early' \in BOOLEAN, early => early',
           early' \/ overtaken \/ (OneAtATime(l) /\ HandedBefore(handed, l, posted))
    PROVE  IInv'
  <1>1. link \in Link /\ Len(link.writes) \in Nat /\ Len(l.writes) \in Nat
    <2>1. link \in Link
      BY DEF IInv, TypeOK
    <2>2. link.writes \in Seq(1 .. MaxMessages) /\ l.writes \in Seq(1 .. MaxMessages)
      BY <2>1 DEF Link
    <2> QED
      BY <2>1, <2>2
  <1>2. link' = l /\ handed' = handed
    <2>1. ~(Len(l.writes) > Len(link.writes))
      BY <1>1
    <2> QED
      BY <2>1 DEF Becomes
  <1>3. TypeOK'
    BY <1>2 DEF IInv, TypeOK
  <1>4. QueueIsPumped'
    BY <1>2 DEF QueueIsPumped
  <1>5. StrandIsThere'
    BY <1>2 DEF StrandIsThere, IInv
  <1> QED
    BY <1>2, <1>3, <1>4, <1>5 DEF IInv

(* strand_proceed writes, alone, or finds the queue empty.                 *)
LEMMA HandleStrandProceedStep ==
    ASSUME IInv, HandleStrandProceed
    PROVE  IInv'
  <1> DEFINE p == Popped
  <1>1. /\ Comes("proceed") /\ UNCHANGED <<crashed, miner, posted, early, overtaken>>
        /\ Becomes(StrandProceed(p))
    BY DEF HandleStrandProceed
  <1>2. /\ link \in Link /\ p \in Link /\ crashed = "no"
        /\ p.connected = link.connected /\ p.session = link.session
        /\ p.strand = link.strand /\ p.m = link.m /\ p.writes = link.writes
        /\ link.ready[1].op = "proceed"
        /\ QueuedInOrder(p, posted)
        /\ overtaken \/ OneAttempt(p)
        /\ early \/ overtaken \/ OneAtATime(p)
        /\ early \/ overtaken \/ HandedBefore(handed, p, posted)
    BY <1>1, PoppedFacts
  <1>3. /\ link.strand \/ link.writes # <<>> => link.session # "none"
        /\ ~link.connected => link.writes = <<>>
        /\ early \in BOOLEAN
    BY DEF IInv, StrandIsThere, TypeOK
  <1> HIDE DEF p
  <1>4. CASE p.m # <<>>
    <2>1. Becomes(Write(p))
      BY <1>1, <1>4 DEF StrandProceed
    <2>2. ASSUME ~early, ~overtaken PROVE
              /\ p.writes = <<>> /\ ReadyAt(p, {"proceed", "wrote"}) = {}
              /\ Rises(handed)
              /\ \A i \in DOMAIN handed :
                    /\ handed[i] <= posted
                    /\ \A j \in ReadyAt(p, {"write"}) : handed[i] < p.ready[j].msg
                    /\ \A j \in DOMAIN p.m : handed[i] < p.m[j]
      <3>1. OneAtATime(link)
        BY <2>2 DEF IInv
      <3>2. 1 \in ReadyAt(link, {"proceed", "wrote"})
        BY <1>1, <1>2, PopReadyAt DEF Comes
      <3>3. ReadyAt(p, {"proceed", "wrote"}) = {}
        BY <1>1, <3>1, PoppedAlone DEF OneAtATime, p
      <3>4. p.writes = <<>> /\ ReadyAt(p, {"wrote"}) = {}
        BY <1>2, <3>1, <3>2, <3>3 DEF OneAtATime, ReadyAt
      <3>5. Outstanding(p) = {}
        BY <1>2, <3>4, ReadyAtFacts
      <3> QED
        BY <1>2, <2>2, <3>3, <3>4, <3>5 DEF HandedBefore
    <2> QED
      BY <1>1, <1>2, <1>3, <1>4, <2>1, <2>2, WritingStep
  <1>5. CASE p.m = <<>>
    <2>1. Becomes(p)
      BY <1>1, <1>5 DEF StrandProceed
    <2> QED
      BY <1>1, <1>2, <1>3, <1>5, <2>1, QuietStep
  <1> QED
    BY <1>4, <1>5

(* handle_write takes the message in front off, writes the next or closes. *)
LEMMA HandleWroteStep ==
    ASSUME IInv, HandleWrote
    PROVE  IInv'
  <1> DEFINE p == Popped
             ok == link.ready[1].ok
             rest == [p EXCEPT !.m = Tail(@)]
  <1>1. /\ Comes("wrote") /\ UNCHANGED <<crashed, miner, posted, early, overtaken>>
    BY DEF HandleWrote
  <1>2. /\ link \in Link /\ p \in Link /\ crashed = "no"
        /\ p.connected = link.connected /\ p.session = link.session
        /\ p.strand = link.strand /\ p.m = link.m /\ p.writes = link.writes
        /\ Head(link.ready) = link.ready[1] /\ link.ready[1].op = "wrote"
        /\ QueuedInOrder(p, posted)
        /\ overtaken \/ OneAttempt(p)
        /\ early \/ overtaken \/ OneAtATime(p)
    BY <1>1, PoppedFacts
  <1>3. Becomes(HandleWrite(p, ok))
    BY <1>2 DEF HandleWrote
  <1>4. /\ link.strand \/ link.writes # <<>> => link.session # "none"
        /\ ~link.connected => link.writes = <<>>
        /\ early \in BOOLEAN
    BY DEF IInv, StrandIsThere, TypeOK
  <1>5. ASSUME ~overtaken PROVE link.session # "connecting" /\ ReadyAt(p, {"connect"}) = {}
    <2>1. OneAttempt(link)
      BY <1>5 DEF IInv
    <2>2. 1 \in ReadyAt(link, {"wrote"})
      BY <1>1, <1>2, PopReadyAt DEF Comes
    <2>3. ReadyAt(link, {"connect"}) = {}
      BY <2>1, <2>2 DEF OneAttempt
    <2>4. \A i \in ReadyAt(p, {"connect"}) : i + 1 \in ReadyAt(link, {"connect"})
      BY <1>1, <1>2, PopReadyAt DEF Comes, Popped, Pop
    <2> QED
      BY <2>1, <2>2, <2>3, <2>4 DEF OneAttempt
  <1>6. ASSUME ~early, ~overtaken PROVE
              /\ link.m # <<>> /\ link.writes = <<>> /\ link.connected
              /\ ReadyAt(p, {"proceed", "wrote"}) = {} /\ Rises(handed)
              /\ \A i \in DOMAIN handed :
                    /\ handed[i] <= posted
                    /\ \A j \in ReadyAt(p, {"write"}) : handed[i] < p.ready[j].msg
                    /\ \A j \in DOMAIN link.m : handed[i] <= link.m[j]
    <2>1. OneAtATime(link) /\ HandedBefore(handed, link, posted)
      BY <1>6 DEF IInv
    <2>2. 1 \in ReadyAt(link, {"proceed", "wrote"}) /\ 1 \in ReadyAt(link, {"wrote"})
      BY <1>1, <1>2, PopReadyAt DEF Comes
    <2>3. ReadyAt(p, {"proceed", "wrote"}) = {}
      BY <1>1, <2>1, PoppedAlone DEF OneAtATime
    <2>4. Outstanding(link) # {}
      BY <1>2, <2>2, ReadyAtFacts
    <2>5. \A j \in ReadyAt(p, {"write"}) :
             j + 1 \in ReadyAt(link, {"write"}) /\ p.ready[j] = link.ready[j + 1]
      <3>1. p = Pop(link) /\ link.ready # <<>>
        BY <1>1 DEF Comes, Popped, Pop
      <3> HIDE DEF p
      <3>2. /\ \A i : i \in ReadyAt(p, {"write"}) <=> i \in Nat \ {0} /\ i + 1 \in ReadyAt(link, {"write"})
            /\ \A i \in ReadyAt(p, {"write"}) : p.ready[i] = link.ready[i + 1]
        BY <1>2, <3>1, PopReadyAt
      <3> QED
        BY <3>2
    <2> HIDE DEF p
    <2> QED
      BY <2>1, <2>2, <2>3, <2>4, <2>5 DEF OneAtATime, HandedBefore
  <1> HIDE DEF p, ok
  <1>7. CASE link.m = <<>>
    <2>1. Becomes(p)
      BY <1>2, <1>3, <1>7 DEF HandleWrite
    <2> QED
      BY <1>1, <1>2, <1>4, <1>6, <1>7, <2>1, QuietStep
  <1>8. CASE link.m # <<>>
    <2>1. /\ rest \in Link /\ rest.connected = p.connected /\ rest.session = p.session
          /\ rest.strand = p.strand /\ rest.writes = p.writes /\ rest.ready = p.ready
          /\ \A i \in DOMAIN rest.m : i + 1 \in DOMAIN p.m /\ i + 1 > 1 /\ rest.m[i] = p.m[i + 1]
          /\ 1 \in DOMAIN p.m
          /\ QueuedInOrder(rest, posted) /\ (overtaken \/ OneAttempt(rest))
      BY <1>2, <1>8, TailFacts
    <2>2. /\ ~ok => Becomes(ClosePeerConnection(rest))
          /\ ok /\ rest.m # <<>> => Becomes(Write(rest))
          /\ ok /\ rest.m = <<>> => Becomes(rest)
      BY <1>2, <1>3, <1>8 DEF HandleWrite
    <2> HIDE DEF rest
    <2>3. \A ops : ReadyAt(rest, ops) = ReadyAt(p, ops)
      BY <2>1 DEF ReadyAt
    <2>4. ASSUME ~early, ~overtaken PROVE
              /\ rest.writes = <<>> /\ ReadyAt(rest, {"proceed", "wrote"}) = {}
              /\ Rises(handed)
              /\ \A i \in DOMAIN handed :
                    /\ handed[i] <= posted
                    /\ \A j \in ReadyAt(rest, {"write"}) : handed[i] < rest.ready[j].msg
                    /\ \A j \in DOMAIN rest.m : handed[i] < rest.m[j]
      <3>1. ASSUME NEW i \in DOMAIN handed, NEW j \in DOMAIN rest.m PROVE handed[i] < rest.m[j]
        <4>1. handed[i] <= p.m[1] /\ p.m[1] < p.m[j + 1] /\ rest.m[j] = p.m[j + 1]
          BY <1>2, <1>6, <2>1, <2>4 DEF QueuedInOrder, Rises
        <4>2. handed[i] \in Nat /\ p.m[1] \in Nat /\ p.m[j + 1] \in Nat
          <5>1. handed \in Seq(1 .. MaxMessages) /\ p.m \in Seq(1 .. MaxMessages)
            BY <1>2 DEF IInv, TypeOK, Link
          <5>2. handed[i] \in 1 .. MaxMessages /\ p.m[1] \in 1 .. MaxMessages
                /\ p.m[j + 1] \in 1 .. MaxMessages
            BY <2>1, <5>1
          <5> QED
            BY <5>2
        <4> QED
          BY <4>1, <4>2
      <3> QED
        BY <1>2, <1>6, <2>1, <2>3, <2>4, <3>1
    <2>5. CASE ok /\ rest.m # <<>>
      <3>1. /\ rest.connected = link.connected /\ rest.session = link.session
            /\ rest.strand = link.strand /\ rest.writes = link.writes
        BY <1>2, <2>1
      <3>2. early' = early /\ early' \in BOOLEAN
        BY <1>1, <1>4
      <3> QED
        BY <1>1, <1>2, <2>1, <2>2, <2>4, <2>5, <3>1, <3>2, WritingStep
    <2>6. ASSUME NEW l \in Link, ~early, ~overtaken, l.m = rest.m, l.ready = rest.ready,
                 l.writes = <<>>, l.m = <<>> \/ l.writes = <<>>
          PROVE  OneAtATime(l) /\ HandedBefore(handed, l, posted)
      <3>1. \A ops : ReadyAt(l, ops) = ReadyAt(rest, ops)
        BY <2>6 DEF ReadyAt
      <3>2. ReadyAt(l, {"proceed", "wrote"}) = {} /\ ReadyAt(l, {"wrote"}) = {}
        BY <2>4, <2>6, <3>1 DEF ReadyAt
      <3>3. Outstanding(l) = {} /\ Len(l.writes) <= 1
        BY <2>6, <3>2, ReadyAtFacts
      <3>4. \A i \in DOMAIN handed, j \in DOMAIN l.m : handed[i] <= l.m[j]
        <4> TAKE i \in DOMAIN handed, j \in DOMAIN l.m
        <4>1. handed[i] < l.m[j]
          BY <2>4, <2>6
        <4>2. handed \in Seq(1 .. MaxMessages) /\ l.m \in Seq(1 .. MaxMessages)
          BY DEF IInv, TypeOK, Link
        <4>3. handed[i] \in 1 .. MaxMessages /\ l.m[j] \in 1 .. MaxMessages
          BY <4>2
        <4> QED
          BY <4>1, <4>3
      <3>5. OneAtATime(l)
        BY <2>6, <3>2, <3>3 DEF OneAtATime
      <3>6. HandedBefore(handed, l, posted)
        BY <2>4, <2>6, <3>1, <3>4 DEF HandedBefore
      <3> QED
        BY <3>5, <3>6
    <2>7. CASE ok /\ rest.m = <<>>
      <3>1. early \/ overtaken \/ (OneAtATime(rest) /\ HandedBefore(handed, rest, posted))
        BY <2>1, <2>4, <2>6, <2>7
      <3>2. /\ rest.connected = link.connected /\ rest.session = link.session
            /\ rest.strand = link.strand /\ rest.writes = link.writes
            /\ ~rest.connected => rest.writes = <<>>
            /\ rest.session = "none" => rest.writes = <<>>
        BY <1>2, <1>4, <2>1
      <3>3. early' = early /\ early' \in BOOLEAN
        BY <1>1, <1>4
      <3> QED
        BY <1>1, <1>2, <2>1, <2>2, <2>7, <3>1, <3>2, <3>3, QuietStep
    <2>8. CASE ~ok
      <3> DEFINE k == ClosePeerConnection(rest)
      <3>1. /\ k \in Link /\ ~k.connected /\ ~k.strand /\ k.session = "none"
            /\ k.writes = <<>> /\ k.m = rest.m /\ QueuedInOrder(k, posted)
            /\ rest.session # "connecting" /\ rest.writes = <<>> => k.ready = rest.ready
            /\ rest.session # "connecting" /\ ReadyAt(rest, {"connect"}) = {}
                  => ReadyAt(k, {"connect"}) = {}
        <4>1. rest \in Link /\ QueuedInOrder(rest, posted)
          BY <2>1
        <4>2. QueuedInOrder(k, posted)
          BY <4>1, CloseFacts
        <4>3. /\ k \in Link /\ ~k.connected /\ ~k.strand /\ k.session = "none"
              /\ k.writes = <<>> /\ k.m = rest.m
              /\ rest.session # "connecting" /\ rest.writes = <<>> => k.ready = rest.ready
              /\ rest.session # "connecting" /\ ReadyAt(rest, {"connect"}) = {}
                  => ReadyAt(k, {"connect"}) = {}
          BY <4>1, CloseFacts
        <4> HIDE DEF k
        <4> QED
          BY <4>2, <4>3
      <3>2. Becomes(k)
        BY <2>2, <2>8
      <3> HIDE DEF k
      <3>3. overtaken \/ OneAttempt(k)
        BY <1>2, <1>5, <2>1, <2>3, <3>1 DEF OneAttempt
      <3>4. early \/ overtaken \/ (OneAtATime(k) /\ HandedBefore(handed, k, posted))
        BY <1>2, <1>5, <2>1, <2>4, <2>6, <3>1
      <3> QED
        BY <1>1, <1>2, <1>4, <3>1, <3>2, <3>3, <3>4, QuietStep
    <2> QED
      BY <2>5, <2>7, <2>8
  <1> QED
    BY <1>7, <1>8

(* strand_write queues behind others, or writes: alone, or before          *)
(* strand_proceed, and then this race is on record.                        *)
LEMMA HandleStrandWriteStep ==
    ASSUME IInv, HandleStrandWrite
    PROVE  IInv'
  <1> DEFINE p == Popped
             msg == link.ready[1].msg
             q == [p EXCEPT !.m = Append(@, msg)]
  <1>1. /\ Comes("write") /\ UNCHANGED <<crashed, miner, posted, overtaken>>
    BY DEF HandleStrandWrite
  <1>2. /\ link \in Link /\ p \in Link /\ crashed = "no"
        /\ p.connected = link.connected /\ p.session = link.session
        /\ p.strand = link.strand /\ p.m = link.m /\ p.writes = link.writes
        /\ Head(link.ready) = link.ready[1] /\ link.ready[1].op = "write"
        /\ link.ready[1] \in Handler
        /\ QueuedInOrder(p, posted)
        /\ overtaken \/ OneAttempt(p)
        /\ early \/ overtaken \/ OneAtATime(p)
        /\ early \/ overtaken \/ HandedBefore(handed, p, posted)
        /\ (link.connected /\ link.m # <<>>
              => Outstanding(p) # {} \/ IsReady(p, {"proceed"}))
    BY <1>1, PoppedFacts
  <1>3. /\ Becomes(StrandWrite(p, msg))
        /\ early' = (early \/ (link.writes # link'.writes /\ IsReady(link, {"proceed"})))
    BY <1>2 DEF HandleStrandWrite
  <1>4. /\ link.strand \/ link.writes # <<>> => link.session # "none"
        /\ ~link.connected => link.writes = <<>>
        /\ early \in BOOLEAN /\ early' \in BOOLEAN /\ (early => early')
    BY <1>3 DEF IInv, StrandIsThere, TypeOK
  <1>5. msg \in 1 .. MaxMessages
    BY <1>2, HandlerFacts
  <1>6. /\ p.m \in Seq(1 .. MaxMessages) /\ Len(p.m) \in Nat
        /\ \A i \in DOMAIN p.m : p.m[i] \in Nat
    BY <1>2 DEF Link
  <1>7. /\ Append(p.m, msg) \in Seq(1 .. MaxMessages) /\ Len(Append(p.m, msg)) = Len(p.m) + 1
        /\ DOMAIN p.m = 1 .. Len(p.m) /\ DOMAIN Append(p.m, msg) = 1 .. Len(p.m) + 1
        /\ \A i \in 1 .. Len(p.m) : Append(p.m, msg)[i] = p.m[i]
        /\ Append(p.m, msg)[Len(p.m) + 1] = msg
    BY <1>5, <1>6
  <1>8. /\ 1 \in ReadyAt(link, {"write"})
        /\ \A i \in ReadyAt(p, {"write"}) :
              i \in Nat \ {0} /\ i + 1 \in ReadyAt(link, {"write"}) /\ p.ready[i] = link.ready[i + 1]
    <2>1. p = Pop(link) /\ link.ready # <<>>
      BY <1>1 DEF Comes, Popped, Pop
    <2> HIDE DEF p
    <2>2. /\ \A i : i \in ReadyAt(p, {"write"})
                      <=> i \in Nat \ {0} /\ i + 1 \in ReadyAt(link, {"write"})
          /\ \A i \in ReadyAt(p, {"write"}) : p.ready[i] = link.ready[i + 1]
          /\ 1 \in ReadyAt(link, {"write"})
      BY <1>2, <2>1, PopReadyAt
    <2> QED
      BY <2>2
  <1>9. /\ msg <= posted /\ \A k \in DOMAIN p.m : p.m[k] < msg
        /\ \A i \in ReadyAt(p, {"write"}) : msg < p.ready[i].msg
    <2>1. QueuedInOrder(link, posted)
      BY DEF IInv
    <2>2. ASSUME NEW i \in ReadyAt(p, {"write"}) PROVE msg < p.ready[i].msg
      <3>1. i + 1 \in ReadyAt(link, {"write"}) /\ 1 < i + 1 /\ p.ready[i] = link.ready[i + 1]
        BY <1>8
      <3> QED
        BY <1>8, <2>1, <3>1 DEF QueuedInOrder
    <2> QED
      BY <1>2, <1>8, <2>1, <2>2 DEF QueuedInOrder
  <1> HIDE DEF p, msg
  <1>10. /\ q \in Link /\ q.connected = link.connected /\ q.session = link.session
         /\ q.strand = link.strand /\ q.writes = link.writes /\ q.ready = p.ready
         /\ q.m = Append(p.m, msg)
    BY <1>2, <1>7 DEF Link
  <1> HIDE DEF q
  <1>11. \A ops : ReadyAt(q, ops) = ReadyAt(p, ops)
    BY <1>10 DEF ReadyAt
  <1>12. Outstanding(q) = Outstanding(p) /\ \A ops : IsReady(q, ops) = IsReady(p, ops)
    BY <1>2, <1>10 DEF Outstanding, IsReady
  <1>13. /\ q.m # <<>> /\ \A i \in DOMAIN q.m :
               (i \in DOMAIN p.m /\ q.m[i] = p.m[i]) \/ (i = Len(p.m) + 1 /\ q.m[i] = msg)
    <2>1. Len(q.m) # 0
      BY <1>6, <1>7, <1>10
    <2>2. q.m # <<>>
      BY <2>1
    <2>3. \A n \in Nat : \A i \in 1 .. n + 1 : i \in 1 .. n \/ i = n + 1
      OBVIOUS
    <2>4. \A i \in DOMAIN q.m : i \in DOMAIN p.m \/ i = Len(p.m) + 1
      BY <1>6, <1>7, <1>10, <2>3
    <2> QED
      BY <1>7, <1>10, <2>2, <2>4
  <1>14. QueuedInOrder(q, posted)
    <2>1. Rises(q.m)
      <3> SUFFICES ASSUME NEW i \in DOMAIN q.m, NEW j \in DOMAIN q.m, i < j
                   PROVE  q.m[i] < q.m[j]
        BY DEF Rises
      <3>1. i \in DOMAIN p.m /\ q.m[i] = p.m[i]
        BY <1>6, <1>7, <1>10
      <3>2. CASE j \in DOMAIN p.m /\ q.m[j] = p.m[j]
        BY <1>2, <3>1, <3>2 DEF QueuedInOrder, Rises
      <3>3. CASE q.m[j] = msg
        BY <1>9, <3>1, <3>3
      <3> QED
        BY <1>13, <3>2, <3>3
    <2>2. /\ \A i \in DOMAIN q.m : q.m[i] <= posted
          /\ \A i \in ReadyAt(q, {"write"}), k \in DOMAIN q.m : q.m[k] < q.ready[i].msg
      BY <1>2, <1>9, <1>10, <1>11, <1>13 DEF QueuedInOrder
    <2> QED
      BY <1>2, <1>10, <1>11, <2>1, <2>2 DEF QueuedInOrder
  <1>15. overtaken \/ OneAttempt(q)
    BY <1>2, <1>10, <1>11 DEF OneAttempt
  <1>16. ASSUME ~early, ~overtaken PROVE
              /\ Rises(handed)
              /\ \A i \in DOMAIN handed :
                    /\ handed[i] <= posted /\ handed[i] < msg
                    /\ \A j \in ReadyAt(q, {"write"}) : handed[i] < q.ready[j].msg
    <2>1. HandedBefore(handed, link, posted) /\ HandedBefore(handed, p, posted)
      BY <1>2, <1>16 DEF IInv
    <2>2. \A i \in DOMAIN handed : handed[i] < msg
      BY <1>8, <2>1 DEF HandedBefore, msg
    <2> QED
      BY <1>10, <1>11, <2>1, <2>2 DEF HandedBefore
  <1>17. CASE link.m # <<>>
    <2>1. Len(q.m) > 1
      <3>1. Len(p.m) # 0
        BY <1>2, <1>6, <1>17
      <3> QED
        BY <1>6, <1>7, <1>10, <3>1
    <2>2. Becomes(q)
      BY <1>3, <2>1 DEF StrandWrite, q
    <2>3. q.connected => Outstanding(q) # {} \/ IsReady(q, {"proceed"})
      BY <1>2, <1>10, <1>12, <1>17
    <2>4. ASSUME ~early, ~overtaken PROVE OneAtATime(q) /\ HandedBefore(handed, q, posted)
      <3>1. OneAtATime(p) /\ HandedBefore(handed, p, posted)
        BY <1>2, <2>4
      <3>2. q.m[1] = p.m[1]
        <4>1. 1 \in 1 .. Len(p.m)
          BY <1>6, <1>7, <1>10, <2>1
        <4> QED
          BY <1>7, <1>10, <4>1
      <3>3. OneAtATime(q)
        BY <1>2, <1>10, <1>11, <1>12, <1>13, <3>1, <3>2 DEF OneAtATime
      <3>4. \A i \in DOMAIN handed : handed[i] \in Nat
        <4>1. handed \in Seq(1 .. MaxMessages)
          BY DEF IInv, TypeOK
        <4> QED
          BY <4>1
      <3>5. ASSUME NEW i \in DOMAIN handed, NEW k \in DOMAIN q.m
            PROVE  handed[i] <= q.m[k] /\ (Outstanding(q) = {} => handed[i] < q.m[k])
        <4>1. CASE k \in DOMAIN p.m /\ q.m[k] = p.m[k]
          BY <1>12, <3>1, <4>1 DEF HandedBefore
        <4>2. CASE q.m[k] = msg
          BY <1>5, <1>16, <2>4, <3>4, <4>2
        <4> QED
          BY <1>13, <4>1, <4>2
      <3>6. HandedBefore(handed, q, posted)
        BY <1>16, <2>4, <3>5 DEF HandedBefore
      <3> QED
        BY <3>3, <3>6
    <2>5. early' \/ overtaken \/ (OneAtATime(q) /\ HandedBefore(handed, q, posted))
      BY <1>4, <2>4
    <2> QED
      BY <1>1, <1>2, <1>4, <1>10, <1>14, <1>15, <2>2, <2>3, <2>5, QuietStep
  <1>18. CASE link.m = <<>>
    <2>1. q.m = <<msg>> /\ Len(q.m) = 1
      BY <1>2, <1>10, <1>18
    <2>2. Becomes(Write(q))
      BY <1>3, <2>1 DEF StrandWrite, q
    <2>3. ASSUME ~early', ~overtaken PROVE
              /\ q.writes = <<>> /\ ReadyAt(q, {"proceed", "wrote"}) = {}
              /\ Rises(handed)
              /\ \A i \in DOMAIN handed :
                    /\ handed[i] <= posted
                    /\ \A j \in ReadyAt(q, {"write"}) : handed[i] < q.ready[j].msg
                    /\ \A j \in DOMAIN q.m : handed[i] < q.m[j]
      <3>1. ~early /\ OneAtATime(link) /\ OneAtATime(p)
        BY <1>2, <1>4, <2>3 DEF IInv
      <3>2. Outstanding(link) = {} /\ Outstanding(p) = {}
        BY <1>2, <1>18, <3>1 DEF OneAtATime
      <3>3. link.writes = <<>> /\ ReadyAt(p, {"wrote"}) = {}
        BY <1>2, <3>2, ReadyAtFacts
      <3>4. ReadyAt(p, {"proceed"}) = {}
        <4>1. CASE CanSend(q)
          <5>1. link'.writes = Append(q.writes, q.m[1]) /\ Len(link'.writes) = Len(q.writes) + 1
            BY <1>10, <1>13, <2>2, <4>1, WriteFacts DEF Becomes
          <5>2. Len(link.writes) = 0
            BY <3>3
          <5>3. link.writes # link'.writes
            BY <1>10, <5>1, <5>2
          <5>4. ~IsReady(link, {"proceed"})
            BY <1>3, <2>3, <5>3
          <5>5. ReadyAt(link, {"proceed"}) = {}
            BY <1>2, <5>4, ReadyAtFacts
          <5>6. \A i \in ReadyAt(p, {"proceed"}) : i + 1 \in ReadyAt(link, {"proceed"})
            BY <1>1, <1>2, PopReadyAt DEF Comes, Popped, Pop, p
          <5> QED
            BY <5>5, <5>6
        <4>2. CASE ~CanSend(q)
          <5>1. ~p.connected
            BY <1>2, <1>10, <1>15, <2>3, <4>2 DEF CanSend, OneAttempt
          <5>2. ReadyAt(p, {"proceed", "wrote"}) = {}
            BY <3>1, <5>1 DEF OneAtATime
          <5> QED
            BY <5>2 DEF ReadyAt
        <4> QED
          BY <4>1, <4>2
      <3>5. ReadyAt(p, {"proceed", "wrote"}) = {}
        BY <3>3, <3>4 DEF ReadyAt
      <3>6. \A j \in DOMAIN q.m : q.m[j] = msg
        BY <2>1
      <3> QED
        BY <1>10, <1>11, <1>16, <2>3, <3>1, <3>3, <3>5, <3>6
    <2> QED
      BY <1>1, <1>2, <1>4, <1>10, <1>13, <1>14, <1>15, <2>2, <2>3, WritingStep
  <1> QED
    BY <1>17, <1>18

-----------------------------------------------------------------------------
(* The invariant is inductive.                                             *)
LEMMA LinkNext == IInv /\ [Next]_vars => IInv'
  <1> SUFFICES ASSUME IInv, [Next]_vars PROVE IInv'
    OBVIOUS
  <1>1. CASE Handle
    BY <1>1, RunNetworkStep, HandleConnectStep, HandleWroteStep, HandleStrandWriteStep,
       HandleStrandProceedStep DEF Handle
  <1>2. CASE \E ok \in BOOLEAN : ConnectCompletes(ok)
    BY <1>2, ConnectStep
  <1>3. CASE SomeWriteCompletes
    BY <1>3, WriteStep DEF SomeWriteCompletes
  <1>4. CASE TimerExpires \/ NetworkSends \/ MinerSees \/ MinerPosts \/ UNCHANGED vars
    BY <1>4, SenderStep
  <1> QED
    BY <1>1, <1>2, <1>3, <1>4 DEF Next

(* The inductive invariant of a connection holds for every number of messages.*)
THEOREM LinkInvariant == Spec => []IInv
  <1>1. Init => IInv
    BY LinkInit
  <1>2. IInv /\ [Next]_vars => IInv'
    BY LinkNext
  <1> QED
    BY <1>1, <1>2, PTL DEF Spec

(* The queue of a connected peer is never stuck.                           *)
THEOREM LinkQueueIsPumped == Spec => []QueueIsPumped
  <1>1. IInv => QueueIsPumped
    BY DEF IInv
  <1> QED
    BY <1>1, LinkInvariant, PTL

(* The strand async_connect's handler uses is there, unless an attempt     *)
(* overtook another.                                                       *)
THEOREM LinkStrandIsThere == Spec => []StrandIsThere
  <1>1. IInv => StrandIsThere
    BY DEF IInv
  <1> QED
    BY <1>1, LinkInvariant, PTL

(* Without the races, one write at a time, of the message in front.        *)
THEOREM LinkOneWrite == Spec => []OneWrite
  <1>1. IInv => OneWrite
    <2> SUFFICES ASSUME IInv, ~early, ~overtaken
                 PROVE  /\ \A x, y \in Outstanding(link) : x = y
                        /\ link.writes # <<>> => /\ link.m # <<>>
                                                 /\ Head(link.writes) = Head(link.m)
      BY DEF OneWrite
    <2>1. OneAtATime(link) /\ link \in Link
      BY DEF IInv, TypeOK
    <2>2. /\ link.writes \in Seq(1 .. MaxMessages) /\ link.m \in Seq(1 .. MaxMessages)
          /\ Len(link.writes) \in {0, 1} /\ DOMAIN link.writes = 1 .. Len(link.writes)
      <3>1. link.writes \in Seq(1 .. MaxMessages) /\ link.m \in Seq(1 .. MaxMessages)
        BY <2>1 DEF Link
      <3>2. Len(link.writes) <= 1
        BY <2>1 DEF OneAtATime
      <3>3. Len(link.writes) \in Nat /\ DOMAIN link.writes = 1 .. Len(link.writes)
        BY <3>1
      <3>4. \A n \in Nat : n <= 1 => n \in {0, 1}
        OBVIOUS
      <3> QED
        BY <3>1, <3>2, <3>3, <3>4
    <2>3. /\ ReadyAt(link, {"wrote"}) # {} => link.writes = <<>>
          /\ \A i, j \in ReadyAt(link, {"wrote"}) : i = j
      BY <2>1 DEF OneAtATime, ReadyAt
    <2>4. ReadyAt(link, {"wrote"}) = {i \in DOMAIN link.ready : link.ready[i].op = "wrote"}
      BY DEF ReadyAt
    <2>5. \A i, j \in DOMAIN link.writes : i = j
      <3>1. \A n \in {0, 1} : \A i, j \in 1 .. n : i = j
        OBVIOUS
      <3> QED
        BY <2>2, <3>1
    <2>6. link.writes = <<>> => DOMAIN link.writes = {}
      OBVIOUS
    <2>7. ASSUME NEW x \in Outstanding(link), NEW y \in Outstanding(link) PROVE x = y
      <3>1. \A z \in Outstanding(link) :
               \/ \E i \in DOMAIN link.writes : z = <<"socket", i>>
               \/ \E i \in ReadyAt(link, {"wrote"}) : z = <<"ready", i>>
        BY <2>4 DEF Outstanding
      <3> QED
        BY <2>3, <2>5, <2>6, <3>1
    <2>8. ASSUME link.writes # <<>> PROVE link.m # <<>> /\ Head(link.writes) = Head(link.m)
      <3>1. Outstanding(link) # {}
        BY <2>1, <2>8, ReadyAtFacts
      <3>2. link.m # <<>> /\ link.writes[1] = link.m[1]
        BY <2>1, <2>8, <3>1 DEF OneAtATime
      <3> QED
        BY <2>2, <2>8, <3>2
    <2> QED
      BY <2>7, <2>8
  <1> QED
    BY <1>1, LinkInvariant, PTL

(* Without the races messages are handed to sockets in the order posted.   *)
THEOREM LinkHandedInOrder == Spec => []HandedInOrder
  <1>1. IInv => HandedInOrder
    <2> SUFFICES ASSUME IInv, ~early, ~overtaken, NEW i \in 1 .. Len(handed) - 1
                 PROVE  handed[i] < handed[i + 1]
      BY DEF HandedInOrder
    <2>1. handed \in Seq(1 .. MaxMessages) /\ Rises(handed)
      BY DEF IInv, TypeOK, HandedBefore
    <2>2. i \in DOMAIN handed /\ i + 1 \in DOMAIN handed /\ i < i + 1
      BY <2>1
    <2> QED
      BY <2>1, <2>2 DEF Rises
  <1> QED
    BY <1>1, LinkInvariant, PTL
=============================================================================
