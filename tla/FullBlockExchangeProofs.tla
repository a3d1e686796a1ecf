----------------------- MODULE FullBlockExchangeProofs -----------------------
(***************************************************************************)
(* Proofs about the exchange of weak blocks, for any number of nodes and   *)
(* weak blocks and any request cap, with or without loss.                  *)
(***************************************************************************)
EXTENDS FullBlockExchange, FiniteSetTheorems, TLAPS

USE ExchangeAssumption

LEMMA InitIInv == Init => IInv
  <1> SUFFICES ASSUME Init PROVE IInv
    OBVIOUS
  <1> USE DEF Init
  <1>1. TypeOK
    BY DEF TypeOK
  <1>2. HeardWasMined /\ NothingForgotten /\ WaitsForMissing /\ OffersAreTrue
    BY DEF HeardWasMined, NothingForgotten, WaitsForMissing, OffersAreTrue
  <1>3. CountedOnce
    BY FS_EmptySet DEF CountedOnce
  <1> QED
    BY <1>1, <1>2, <1>3 DEF IInv

(* The copies sent to all peers, and a single message, are messages.       *)
LEMMA ToAllType ==
    ASSUME NEW k \in Kind, NEW W \in SUBSET Weak, NEW n \in Node
    PROVE  /\ ToAll(k, W, n) \subseteq Message
           /\ \A m \in ToAll(k, W, n) : m.kind = k /\ m.hash \in W /\ m.from = n
  BY DEF ToAll, Msg, Message

LEMMA MinePreserves ==
    ASSUME IInv, NEW n \in Node, NEW w \in Weak, Mine(n, w)
    PROVE  IInv'
  <1> DEFINE sent == ToAll("process_weak_block", {w}, n)
  <1>1. /\ sent \subseteq Message
        /\ \A m \in sent : m.kind = "process_weak_block" /\ m.hash = w
    BY ToAllType DEF Kind
  <1> HIDE DEF sent
  <1>2. /\ header' = [header EXCEPT ![n] = @ \cup {w}]
        /\ full' = [full EXCEPT ![n] = @ \cup {w}]
        /\ own' = [own EXCEPT ![n] = @ \cup {w}]
        /\ net' = net \cup sent
        /\ nonfull' = nonfull /\ recent' = recent
        /\ waiting' = waiting /\ processed' = processed
    BY DEF Mine, sent
  (* Nobody knows the block before it is mined.                            *)
  <1>3. \A p \in Node : w \notin header[p] /\ w \notin full[p] /\ w \notin own[p]
    BY DEF Mine, IInv, HeardWasMined
  <1>4. TypeOK'
    BY <1>1, <1>2 DEF IInv, TypeOK
  <1>5. HeardWasMined'
    BY <1>1, <1>2 DEF IInv, TypeOK, HeardWasMined
  <1>6. NothingForgotten'
    BY <1>2, <1>3 DEF IInv, TypeOK, NothingForgotten
  <1>7. WaitsForMissing'
    BY <1>2 DEF IInv, WaitsForMissing
  <1>8. OffersAreTrue'
    BY <1>1, <1>2 DEF IInv, TypeOK, OffersAreTrue, Message
  <1>9. CountedOnce'
    <2>1. \A p \in Node : full'[p] \ own'[p] = full[p] \ own[p]
      BY <1>2, <1>3 DEF IInv, TypeOK
    <2> QED
      BY <1>2, <2>1 DEF IInv, CountedOnce
  <1> QED
    BY <1>4, <1>5, <1>6, <1>7, <1>8, <1>9 DEF IInv

LEMMA ProcessWeakBlockPreserves ==
    ASSUME IInv, NEW m \in net, ProcessWeakBlock(m.to, m)
    PROVE  IInv'
  <1> DEFINE n == m.to
             w == m.hash
             sent == ToAll("process_weak_block", {w}, n)
  <1>1. n \in Node /\ w \in Weak
    BY DEF IInv, TypeOK, Message
  <1>2. /\ sent \subseteq Message
        /\ \A s \in sent : s.kind = "process_weak_block" /\ s.hash = w
    BY <1>1, ToAllType DEF Kind
  <1>3. \E p \in Node : w \in own[p]
    BY DEF IInv, HeardWasMined
  <1> HIDE DEF sent
  <1>4. /\ header' = [header EXCEPT ![n] = @ \cup {w}]
        /\ nonfull' = [nonfull EXCEPT ![n] = @ \cup {w}]
        /\ net' = net \cup sent /\ w \notin header[n]
        /\ full' = full /\ own' = own /\ recent' = recent
        /\ waiting' = waiting /\ processed' = processed
    BY DEF ProcessWeakBlock, sent
  <1> HIDE DEF n, w
  <1>5. TypeOK'
    BY <1>1, <1>2, <1>4 DEF IInv, TypeOK
  <1>6. HeardWasMined'
    BY <1>1, <1>2, <1>3, <1>4 DEF IInv, TypeOK, HeardWasMined
  <1>7. NothingForgotten'
    BY <1>1, <1>4 DEF IInv, TypeOK, NothingForgotten, HeardWasMined
  <1>8. WaitsForMissing'
    BY <1>1, <1>4 DEF IInv, TypeOK, WaitsForMissing
  <1>9. OffersAreTrue'
    BY <1>1, <1>2, <1>4 DEF IInv, TypeOK, OffersAreTrue, Message
  <1>10. CountedOnce'
    BY <1>4 DEF IInv, CountedOnce
  <1> QED
    BY <1>5, <1>6, <1>7, <1>8, <1>9, <1>10 DEF IInv

(* A message that says no more than what is true may be sent at any time.  *)
LEMMA ReplyPreserves ==
    ASSUME IInv, UNCHANGED store, NEW s \in Message, net' = net \cup {s},
           \E p \in Node : s.hash \in own[p],
           s.kind \in {"have_full_block", "full_block"},
           s.hash \in full[s.from], s.hash \in header[s.to]
    PROVE  IInv'
  <1>1. TypeOK' /\ HeardWasMined'
    BY DEF IInv, store, TypeOK, HeardWasMined
  <1>2. NothingForgotten' /\ WaitsForMissing' /\ CountedOnce'
    BY DEF IInv, store, NothingForgotten, WaitsForMissing, CountedOnce
  <1>3. OffersAreTrue'
    BY DEF IInv, store, OffersAreTrue
  <1> QED
    BY <1>1, <1>2, <1>3 DEF IInv

LEMMA GotFullBlockPreserves ==
    ASSUME IInv, NEW m \in net, GotFullBlock(m.to, m)
    PROVE  IInv'
  <1> DEFINE s == Msg("have_full_block", m.hash, m.to, m.from)
  <1>1. m \in Message
    BY DEF IInv, TypeOK
  <1>2. /\ s \in Message /\ s.kind = "have_full_block"
        /\ s.hash = m.hash /\ s.from = m.to /\ s.to = m.from
    BY <1>1 DEF Msg, Message, Kind
  <1>3. /\ net' = net \cup {s} /\ UNCHANGED store /\ m.hash \in full[m.to]
        /\ m.kind = "got_full_block"
    BY DEF GotFullBlock, HaveFull
  <1> HIDE DEF s
  <1>4. m.hash \in header[m.from] /\ \E p \in Node : m.hash \in own[p]
    BY <1>3 DEF IInv, OffersAreTrue, HeardWasMined
  <1> QED
    BY <1>2, <1>3, <1>4, ReplyPreserves

LEMMA AskFullBlockPreserves ==
    ASSUME IInv, NEW m \in net, AskFullBlock(m.to, m)
    PROVE  IInv'
  <1> DEFINE s == Msg("full_block", m.hash, m.to, m.from)
  <1>1. m \in Message
    BY DEF IInv, TypeOK
  <1>2. /\ s \in Message /\ s.kind = "full_block"
        /\ s.hash = m.hash /\ s.from = m.to /\ s.to = m.from
    BY <1>1 DEF Msg, Message, Kind
  <1>3. /\ net' = net \cup {s} /\ UNCHANGED store /\ m.hash \in full[m.to]
        /\ m.kind = "ask_full_block"
    BY DEF AskFullBlock, HaveFull
  <1> HIDE DEF s
  <1>4. m.hash \in header[m.from] /\ \E p \in Node : m.hash \in own[p]
    BY <1>3 DEF IInv, OffersAreTrue, HeardWasMined
  <1> QED
    BY <1>2, <1>3, <1>4, ReplyPreserves

LEMMA HaveFullBlockPreserves ==
    ASSUME IInv, NEW m \in net, HaveFullBlock(m.to, m)
    PROVE  IInv'
  <1> DEFINE n == m.to
             w == m.hash
             s == Msg("ask_full_block", w, n, m.from)
  <1>1. n \in Node /\ w \in Weak /\ m.from \in Node
    BY DEF IInv, TypeOK, Message
  <1>2. /\ s \in Message /\ s.kind = "ask_full_block"
        /\ s.hash = w /\ s.from = n /\ s.to = m.from
    BY <1>1 DEF Msg, Message, Kind
  <1>3. /\ waiting' = [waiting EXCEPT ![n] = @ \cup {w}]
        /\ net' = net \cup {s} /\ w \notin full[n]
        /\ header' = header /\ full' = full /\ own' = own
        /\ nonfull' = nonfull /\ recent' = recent /\ processed' = processed
        /\ m.kind = "have_full_block"
    BY DEF HaveFullBlock, HaveFull
  <1>4. w \in full[m.from] /\ w \in header[n] /\ \E p \in Node : w \in own[p]
    BY <1>3 DEF IInv, OffersAreTrue, HeardWasMined
  <1> HIDE DEF n, w, s
  <1>5. TypeOK' /\ HeardWasMined'
    BY <1>1, <1>2, <1>3, <1>4 DEF IInv, TypeOK, HeardWasMined
  <1>6. NothingForgotten' /\ CountedOnce'
    BY <1>3 DEF IInv, NothingForgotten, CountedOnce
  <1>7. WaitsForMissing'
    BY <1>1, <1>3, <1>4 DEF IInv, TypeOK, WaitsForMissing, NothingForgotten
  <1>8. OffersAreTrue'
    BY <1>2, <1>3, <1>4 DEF IInv, OffersAreTrue
  <1> QED
    BY <1>5, <1>6, <1>7, <1>8 DEF IInv

LEMMA FullBlockPreserves ==
    ASSUME IInv, NEW m \in net, FullBlock(m.to, m)
    PROVE  IInv'
  <1> DEFINE n == m.to
             w == m.hash
  <1>1. n \in Node /\ w \in Weak
    BY DEF IInv, TypeOK, Message
  <1>2. /\ full' = [full EXCEPT ![n] = @ \cup {w}]
        /\ nonfull' = [nonfull EXCEPT ![n] = @ \ {w}]
        /\ recent' = [recent EXCEPT ![n] = @ \ {w}]
        /\ waiting' = [waiting EXCEPT ![n] = @ \ {w}]
        /\ processed' = [processed EXCEPT ![n] = @ + 1]
        /\ header' = header /\ own' = own /\ net' = net
        /\ w \notin full[n] /\ w \in header[n]
    BY DEF FullBlock, HaveFull
  <1> HIDE DEF n, w
  <1>3. TypeOK'
    BY <1>1, <1>2 DEF IInv, TypeOK
  <1>4. HeardWasMined'
    BY <1>1, <1>2 DEF IInv, TypeOK, HeardWasMined
  <1>5. NothingForgotten' /\ WaitsForMissing'
    BY <1>1, <1>2 DEF IInv, TypeOK, NothingForgotten, WaitsForMissing
  <1>6. OffersAreTrue'
    BY <1>1, <1>2 DEF IInv, TypeOK, OffersAreTrue, Message
  <1>7. CountedOnce'
    <2>1. IsFiniteSet(full[n] \ own[n])
      BY <1>1, FS_Subset DEF IInv, TypeOK
    <2>2. w \notin full[n] \ own[n] /\ full'[n] \ own'[n] = (full[n] \ own[n]) \cup {w}
      BY <1>1, <1>2 DEF IInv, TypeOK, HeardWasMined
    <2>3. Cardinality(full'[n] \ own'[n]) = Cardinality(full[n] \ own[n]) + 1
      BY <2>1, <2>2, FS_AddElement
    <2>4. \A p \in Node \ {n} : full'[p] \ own'[p] = full[p] \ own[p]
      BY <1>2 DEF IInv, TypeOK
    <2>5. \A p \in Node \ {n} : processed'[p] = processed[p]
      BY <1>2 DEF IInv, TypeOK
    <2>6. processed'[n] = processed[n] + 1
      BY <1>1, <1>2 DEF IInv, TypeOK
    <2> QED
      BY <2>3, <2>4, <2>5, <2>6 DEF IInv, CountedOnce
  <1> QED
    BY <1>3, <1>4, <1>5, <1>6, <1>7 DEF IInv

LEMMA RequestBodiesPreserves ==
    ASSUME IInv, NEW n \in Node, NEW late \in SUBSET waiting[n], RequestBodies(n, late)
    PROVE  IInv'
  <1> DEFINE missing == Visited(n) \ full[n]
             found   == Visited(n) \cap full[n]
             sent    == ToAll("got_full_block", missing, n)
  <1>1. Visited(n) \subseteq nonfull[n] /\ nonfull[n] \subseteq Weak
    BY DEF Visited, IInv, TypeOK
  <1>2. missing \subseteq header[n] /\ found = {}
    BY <1>1 DEF IInv, NothingForgotten
  <1>3. /\ sent \subseteq Message
        /\ \A m \in sent : m.kind = "got_full_block" /\ m.hash \in missing /\ m.from = n
    BY <1>1, ToAllType DEF Kind
  <1>4. /\ nonfull' = [nonfull EXCEPT ![n] = @ \ found]
        /\ recent' = [recent EXCEPT ![n] = (@ \cup Visited(n)) \ found]
        /\ waiting' = [waiting EXCEPT ![n] = @ \ late]
        /\ net' = net \cup sent
        /\ header' = header /\ full' = full /\ own' = own /\ processed' = processed
    BY DEF RequestBodies, Erased
  <1> HIDE DEF missing, found, sent
  <1>5. nonfull' = nonfull
    BY <1>2, <1>4 DEF IInv, TypeOK
  <1>6. TypeOK'
    BY <1>1, <1>3, <1>4, <1>5 DEF IInv, TypeOK
  <1>7. HeardWasMined'
    BY <1>2, <1>3, <1>4 DEF IInv, HeardWasMined
  <1>8. NothingForgotten' /\ CountedOnce'
    BY <1>4, <1>5 DEF IInv, NothingForgotten, CountedOnce
  <1>9. WaitsForMissing'
    BY <1>1, <1>4, <1>5 DEF IInv, TypeOK, WaitsForMissing
  <1>10. OffersAreTrue'
    BY <1>2, <1>3, <1>4 DEF IInv, OffersAreTrue
  <1> QED
    BY <1>6, <1>7, <1>8, <1>9, <1>10 DEF IInv

LEMMA NextPreserves == IInv /\ [Next]_vars => IInv'
  <1> SUFFICES ASSUME IInv, [Next]_vars PROVE IInv'
    OBVIOUS
  <1>1. CASE UNCHANGED vars
    BY <1>1 DEF vars, IInv, TypeOK, HeardWasMined, NothingForgotten,
                WaitsForMissing, OffersAreTrue, CountedOnce
  <1>2. ASSUME NEW n \in Node, NEW w \in Weak, Mine(n, w) PROVE IInv'
    BY <1>2, MinePreserves
  <1>3. ASSUME NEW n \in Node, NEW w \in Weak, BecomesDue(n, w) PROVE IInv'
    <2>1. /\ recent' = [recent EXCEPT ![n] = @ \ {w}]
          /\ UNCHANGED <<header, full, own, nonfull, waiting, processed, net>>
      BY <1>3 DEF BecomesDue
    <2>2. TypeOK' /\ WaitsForMissing'
      BY <2>1 DEF IInv, TypeOK, WaitsForMissing
    <2> QED
      BY <2>1, <2>2 DEF IInv, HeardWasMined, NothingForgotten, OffersAreTrue, CountedOnce
  <1>4. ASSUME NEW n \in Node, NEW late \in SUBSET waiting[n], RequestBodies(n, late)
        PROVE  IInv'
    BY <1>4, RequestBodiesPreserves
  <1>5. ASSUME NEW m \in net, Receive(m) PROVE IInv'
    BY <1>5, ProcessWeakBlockPreserves, GotFullBlockPreserves, HaveFullBlockPreserves,
       AskFullBlockPreserves, FullBlockPreserves DEF Receive
  <1>6. ASSUME NEW m \in net, Lose(m) PROVE IInv'
    BY <1>6 DEF Lose, store, IInv, TypeOK, HeardWasMined, NothingForgotten,
                WaitsForMissing, OffersAreTrue, CountedOnce
  <1> QED
    BY <1>1, <1>2, <1>3, <1>4, <1>5, <1>6 DEF Next

(* In every run of any number of nodes the exchange keeps its invariant.   *)
THEOREM ExchangeInvariant == Spec => []IInv
  BY InitIInv, NextPreserves, PTL DEF Spec

(* The list of bodies to fetch is always exactly what is missing.          *)
THEOREM ExchangeNothingForgotten == Spec => []NothingForgotten
  <1>1. IInv => NothingForgotten
    BY DEF IInv
  <1> QED
    BY <1>1, ExchangeInvariant, PTL

(* A node only ever waits for bodies it misses.                            *)
THEOREM ExchangeWaitsForMissing == Spec => []WaitsForMissing
  <1>1. IInv => WaitsForMissing
    BY DEF IInv
  <1> QED
    BY <1>1, ExchangeInvariant, PTL

(* Offers, requests and bodies are only ever sent by and to nodes for      *)
(* which they make sense.                                                  *)
THEOREM ExchangeOffersAreTrue == Spec => []OffersAreTrue
  <1>1. IInv => OffersAreTrue
    BY DEF IInv
  <1> QED
    BY <1>1, ExchangeInvariant, PTL

(* Every body received is counted exactly once.                            *)
THEOREM ExchangeCountedOnce == Spec => []CountedOnce
  <1>1. IInv => CountedOnce
    BY DEF IInv
  <1> QED
    BY <1>1, ExchangeInvariant, PTL
=============================================================================
