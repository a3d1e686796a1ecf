-------------------------- MODULE StrongBlocksProofs --------------------------
(***************************************************************************)
(* Proofs about nodes that mine and exchange strong blocks, for all nodes, *)
(* peers, weak blocks and universes of strong blocks: the inductive        *)
(* invariant, its four consequences, and that the store of each node is a  *)
(* ChainStore whatever the nodes send each other.                          *)
(***************************************************************************)
EXTENDS StrongBlocks, ChainTreeProofs, FiniteSetTheorems

USE UniverseAssumption, RequestsAssumption, StrongAssumption

(* What a store serves is linked to a parent, so it has a header and is    *)
(* not the genesis block.                                                  *)
LEMMA LinkedHaveHeaders ==
    ASSUME NEW S, WellFormed(S), NEW h \in Block, NEW max, NEW b \in Served(S, h, max)
    PROVE  b \in S.nb /\ b \in Held(S) \ {Genesis}
  <1>1. b \in Lineage[h] /\ b \in Block
    BY LineageHolds DEF Served
  <1>2. Depth[b] >= Depth[b]
    BY <1>1
  <1>3. b \in (S.main \ {Genesis}) \cup UNION {t.nodes \ {t.root} : t \in S.inc}
    BY <1>1, <1>2 DEF Served
  <1> QED
    BY <1>3 DEF WellFormed, HeadersExactIn, TreesDisjointIn, MainConnectedIn, Held, NodesOf

LEMMA InitEstablishes == Init => IInv
  <1> SUFFICES ASSUME Init PROVE IInv
    OBVIOUS
  <1>1. Minted = {}
    BY DEF Init, Minted
  <1>2. EmptyStore \in Store /\ WellFormed(EmptyStore) /\ Held(EmptyStore) = {Genesis}
    BY EmptyPreserves DEF WellFormed
  <1>3. TypeOK
    BY <1>1, <1>2 DEF Init, TypeOK, Minted
  <1>4. KnownWasMined /\ MinerKeeps /\ OwnCitesDisjoint /\ MarkedIsCited
    BY <1>1, <1>2 DEF Init, KnownWasMined, MinerKeeps, OwnCitesDisjoint, MarkedIsCited
  <1>5. IsFiniteSet(Minted) /\ \A n \in Node : IsFiniteSet(body[n])
    BY <1>1, FS_EmptySet DEF Init
  <1>6. ValidCountedOnce
    <2>1. \A n \in Node : Countable(n) = {} /\ valid[n] = 0
      BY <1>1 DEF Countable, Init
    <2>2. Cardinality({}) = 0
      BY FS_EmptySet
    <2>3. \A n \in Node : Cardinality(Countable(n)) = 0
      BY <2>1, <2>2, Zenon
    <2>4. \A n \in Node : valid[n] <= Cardinality(Countable(n))
      BY <2>1, <2>3
    <2> QED
      BY <2>4 DEF ValidCountedOnce
  <1> QED
    BY <1>2, <1>3, <1>4, <1>5, <1>6 DEF IInv, Init

(* Everything only grows: what may be counted too.                         *)
LEMMA CountableGrows ==
    ASSUME IInv, NEW n \in Node, IsFiniteSet(Minted'), IsFiniteSet(body'[n]),
           Minted \subseteq Minted', body[n] \subseteq body'[n],
           store[n].main \subseteq store'[n].main,
           \A b \in Minted : miner'[b] = miner[b] /\ cites'[b] = cites[b]
    PROVE  /\ Countable(n) \subseteq Countable(n)'
           /\ IsFiniteSet(Countable(n)') /\ IsFiniteSet(Countable(n))
           /\ Cardinality(Countable(n)) \in Nat /\ Cardinality(Countable(n)') \in Nat
           /\ Cardinality(Countable(n)) <= Cardinality(Countable(n)')
  <1>1. Countable(n) \subseteq Countable(n)'
    BY DEF Countable
  <1>2. IsFiniteSet(Minted' \X body'[n])
    BY FS_Product
  <1>3. Countable(n)' \subseteq Minted' \X body'[n]
    BY DEF Countable
  <1>4. IsFiniteSet(Countable(n)')
    BY <1>2, <1>3, FS_Subset
  <1>5. IsFiniteSet(Countable(n)) /\ Cardinality(Countable(n)) <= Cardinality(Countable(n)')
    BY <1>1, <1>4, FS_Subset
  <1> QED
    BY <1>1, <1>4, <1>5, FS_CardinalityType

-----------------------------------------------------------------------------
(* The weak blocks: a new one, its header, its body.  The stores and the   *)
(* blocks mined stay.                                                      *)

LEMMA WeakPreserves ==
    ASSUME IInv, NEW n \in Node, NEW w \in Weak,
           MineWeak(n, w) \/ LearnHeader(n, w) \/ LearnBody(n, w)
    PROVE  IInv'
  <1>0. UNCHANGED <<store, valid, miner, cites, net>>
    BY DEF MineWeak, LearnHeader, LearnBody
  <1>1. /\ header' \in [Node -> SUBSET Weak] /\ body' \in [Node -> SUBSET Weak]
        /\ besited' \in [Node -> SUBSET Weak] /\ stray' \in [Node -> SUBSET Weak]
        /\ verified' \in [Node -> Nat]
        /\ \A p \in Node : body'[p] \subseteq header'[p] /\ besited'[p] \subseteq header'[p]
    BY DEF IInv, TypeOK, MineWeak, LearnHeader, LearnBody, FreshMark
  <1>2. \A p \in Node :
          /\ body[p] \subseteq body'[p] /\ besited[p] \subseteq besited'[p]
          /\ (body'[p] = body[p] \/ body'[p] = body[p] \cup {w})
          /\ besited'[p] \ stray'[p] \subseteq besited[p] \ stray[p]
    BY DEF IInv, TypeOK, MineWeak, LearnHeader, LearnBody, FreshMark
  <1>3. Minted' = Minted
    BY <1>0 DEF Minted
  <1>4. TypeOK'
    BY <1>0, <1>1, <1>3 DEF IInv, TypeOK
  <1>5. KnownWasMined'
    BY <1>0, <1>3 DEF IInv, KnownWasMined
  <1>6. MinerKeeps'
    <2>1. \A b \in Minted : miner[b] \in Node
      BY DEF IInv, TypeOK
    <2> QED
      BY <1>0, <1>2, <1>3, <2>1 DEF IInv, MinerKeeps
  <1>7. (\A p \in Node : WellFormed(store[p]))'
    BY <1>0 DEF IInv
  <1>8. IsFiniteSet(Minted') /\ \A p \in Node : IsFiniteSet(body'[p])
    <2>1. \A p \in Node : IsFiniteSet(body[p] \cup {w})
      BY FS_AddElement DEF IInv
    <2> QED
      BY <1>2, <1>3, <2>1 DEF IInv
  <1>9. OwnCitesDisjoint'
    BY <1>0, <1>3 DEF IInv, OwnCitesDisjoint
  <1>10. MarkedIsCited'
    BY <1>0, <1>2 DEF IInv, MarkedIsCited
  <1>11. ValidCountedOnce'
    <2> SUFFICES ASSUME NEW p \in Node
                 PROVE  valid'[p] <= Cardinality(Countable(p)')
      BY DEF ValidCountedOnce
    <2>1. /\ Cardinality(Countable(p)) \in Nat /\ Cardinality(Countable(p)') \in Nat
          /\ Cardinality(Countable(p)) <= Cardinality(Countable(p)')
      BY <1>0, <1>2, <1>3, <1>8, CountableGrows
    <2>2. valid'[p] = valid[p] /\ valid[p] \in Nat /\ valid[p] <= Cardinality(Countable(p))
      BY <1>0 DEF IInv, TypeOK, ValidCountedOnce
    <2> QED
      BY <2>1, <2>2
  <1> QED
    BY <1>4, <1>5, <1>6, <1>7, <1>8, <1>9, <1>10, <1>11 DEF IInv

-----------------------------------------------------------------------------
(* A mined block, on the deepest one of its miner's store.                 *)

LEMMA MineStrongPreserves ==
    ASSUME IInv, NEW n \in Node, NEW h \in Block \ {Genesis}, MineStrong(n, h)
    PROVE  IInv' /\ Chain(n)!Mine(h) /\ \A p \in Node \ {n} : Chain(p)!MintElsewhere(h)
  <1>0. /\ h \notin Minted /\ Parent[h] = store[n].deepest
        /\ Unsited(n) # {} /\ Unsited(n) \subseteq body[n] /\ Unsited(n) \cap besited[n] = {}
        /\ UNCHANGED <<header, body, verified, valid, stray>>
    BY DEF MineStrong, Unsited, Tip, weakVars
  <1>1. /\ Minted' = Minted \cup {h}
        /\ miner'[h] = n /\ cites'[h] = Unsited(n)
        /\ \A b \in Minted : miner'[b] = miner[b] /\ cites'[b] = cites[b]
    BY <1>0 DEF MineStrong, Minted
  <1>2. /\ store'[n] = AddMined(store[n], h)
        /\ \A p \in Node \ {n} : store'[p] = store[p]
        /\ besited'[n] = besited[n] \cup Unsited(n)
        /\ \A p \in Node \ {n} : besited'[p] = besited[p]
    BY DEF MineStrong, IInv, TypeOK
  <1>3. h \notin Held(store[n]) /\ WellFormed(store[n])
    BY <1>0 DEF IInv, KnownWasMined
  <1>4. /\ WellFormed(store'[n]) /\ Held(store'[n]) = Held(store[n]) \cup {h}
        /\ store'[n].main = store[n].main \cup {h}
    BY <1>0, <1>2, <1>3, MinePreserves
  <1>5. Parent[h] \in Minted \cup {Genesis}
    BY <1>0, <1>3 DEF IInv, KnownWasMined, Held, WellFormed, DeepestIn
  <1>6. TypeOK'
    <2>1. /\ miner' \in [Minted' -> Node] /\ cites' \in [Minted' -> SUBSET Weak]
          /\ Minted' \subseteq Block \ {Genesis}
      BY <1>0, <1>1 DEF MineStrong, IInv, TypeOK
    <2>2. besited' \in [Node -> SUBSET Weak]
          /\ \A p \in Node : besited'[p] \subseteq header[p]
      BY <1>0, <1>2 DEF MineStrong, IInv, TypeOK
    <2>3. store' \in [Node -> Store]
      BY <1>4 DEF MineStrong, IInv, TypeOK, WellFormed
    <2>4. net' \subseteq Message
      BY DEF MineStrong, IInv, TypeOK, Message, AnnounceToPeers, Announce
    <2> QED
      BY <1>0, <2>1, <2>2, <2>3, <2>4 DEF IInv, TypeOK
  <1>7. KnownWasMined'
    <2>1. \A p \in Node : Held(store'[p]) \subseteq Minted' \cup {Genesis}
      BY <1>1, <1>2, <1>4 DEF IInv, KnownWasMined
    <2>2. \A m \in net' : m.type = "process_block" => m.hash \in Minted'
      BY <1>1 DEF MineStrong, IInv, KnownWasMined, AnnounceToPeers, Announce
    <2> QED
      BY <1>1, <1>5, <2>1, <2>2 DEF IInv, KnownWasMined
  <1>8. MinerKeeps'
    <2> SUFFICES ASSUME NEW b \in Minted'
                 PROVE  /\ b \in store'[miner'[b]].main /\ cites'[b] # {}
                        /\ cites'[b] \subseteq body'[miner'[b]] \cap besited'[miner'[b]]
      BY DEF MinerKeeps
    <2>1. CASE b = h
      BY <1>0, <1>1, <1>2, <1>4, <2>1
    <2>2. CASE b \in Minted
      <3>1. miner[b] \in Node
        BY <2>2 DEF IInv, TypeOK
      <3> QED
        BY <1>0, <1>1, <1>2, <1>4, <2>2, <3>1 DEF IInv, MinerKeeps
    <2> QED
      BY <1>1, <2>1, <2>2
  <1>9. (\A p \in Node : WellFormed(store[p]))'
    BY <1>2, <1>4 DEF IInv
  <1>10. IsFiniteSet(Minted') /\ \A p \in Node : IsFiniteSet(body'[p])
    BY <1>0, <1>1, FS_AddElement DEF IInv
  <1>11. OwnCitesDisjoint'
    <2>1. \A b \in Minted : miner[b] = n => cites[b] \cap Unsited(n) = {}
      BY <1>0 DEF IInv, MinerKeeps
    <2> QED
      BY <1>1, <2>1 DEF IInv, OwnCitesDisjoint
  <1>12. MarkedIsCited'
    <2> SUFFICES ASSUME NEW p \in Node, NEW w \in besited'[p] \ stray'[p]
                 PROVE  \E b \in store'[p].main \ {Genesis} : w \in cites'[b]
      BY DEF MarkedIsCited
    <2>1. CASE w \in besited[p]
      <3>1. PICK b \in store[p].main \ {Genesis} : w \in cites[b]
        BY <1>0, <2>1 DEF IInv, MarkedIsCited
      <3>2. b \in Minted
        BY <3>1 DEF IInv, KnownWasMined, Held
      <3> QED
        BY <1>1, <1>2, <1>4, <3>1, <3>2
    <2>2. CASE w \notin besited[p]
      <3>1. p = n /\ w \in Unsited(n)
        BY <1>2, <2>2
      <3> QED
        BY <1>1, <1>4, <3>1
    <2> QED
      BY <2>1, <2>2
  <1>13. ValidCountedOnce'
    <2> SUFFICES ASSUME NEW p \in Node
                 PROVE  valid'[p] <= Cardinality(Countable(p)')
      BY DEF ValidCountedOnce
    <2>1. /\ Cardinality(Countable(p)) \in Nat /\ Cardinality(Countable(p)') \in Nat
          /\ Cardinality(Countable(p)) <= Cardinality(Countable(p)')
      BY <1>0, <1>1, <1>2, <1>4, <1>10, CountableGrows
    <2>2. valid'[p] = valid[p] /\ valid[p] \in Nat /\ valid[p] <= Cardinality(Countable(p))
      BY <1>0 DEF IInv, TypeOK, ValidCountedOnce
    <2> QED
      BY <2>1, <2>2
  <1>14. IInv'
    BY <1>6, <1>7, <1>8, <1>9, <1>10, <1>11, <1>12, <1>13 DEF IInv
  <1>15. Chain(n)!Mine(h)
    BY <1>0, <1>1, <1>2 DEF Chain!Mine, Chain!AddMined, AddMined
  <1>16. \A p \in Node \ {n} : Chain(p)!MintElsewhere(h)
    BY <1>0, <1>1, <1>2, <1>5 DEF Chain!MintElsewhere
  <1> QED
    BY <1>14, <1>15, <1>16

-----------------------------------------------------------------------------
(* A block received: sent on, parked or known already.                     *)

(* What a received block does, with the helpers of the handler expanded.   *)
Received(n, h) ==
    /\ store'[n] \in AddReceived(store[n], h) /\ store'[n] # store[n]
    /\ \A p \in Node \ {n} : /\ store'[p] = store[p] /\ besited'[p] = besited[p]
                             /\ valid'[p] = valid[p]
    /\ IF h \in store'[n].main
         THEN /\ besited'[n] = besited[n] \cup (cites[h] \cap header[n])
              /\ valid'[n] = valid[n] + Cardinality(cites[h] \cap body[n])
         ELSE besited'[n] = besited[n] /\ valid'[n] = valid[n]
    /\ \A m \in net' \ net : \/ \E p \in Node : m = Announce(h, p)
                             \/ \E p \in Node, k \in Nat : m = Request(Parent[h], k, n, p)
    /\ besited' = [p \in Node |-> besited'[p]] /\ valid' = [p \in Node |-> valid'[p]]
    /\ UNCHANGED <<header, body, verified, miner, cites, stray>>

LEMMA ProcessShape ==
    ASSUME IInv, NEW n \in Node, NEW h \in Block \ {Genesis}, ProcessBlock(n, h)
    PROVE  Received(n, h)
  <1>1. PICK after \in AddReceived(store[n], h) :
          LET main == Relays(store[n], after, h)
          IN  /\ News(store[n], after)
              /\ store' = [store EXCEPT ![n] = after]
              /\ besited' = IF main THEN [besited EXCEPT ![n] = @ \cup Sited(n, cites[h])]
                                    ELSE besited
              /\ valid' = IF main THEN [valid EXCEPT ![n] = @ + Cardinality(Counted(n, cites[h]))]
                                  ELSE valid
              /\ net' = net \cup (IF main THEN AnnounceToPeers(h, n) ELSE {})
                            \cup (IF NeedsParent(store[n], h)
                                    THEN RequestToPeers(Parent[h], 1, n)
                                         \cup RequestToPeers(Parent[h], AncestorsAsked(after, h), n)
                                    ELSE {})
    BY DEF ProcessBlock
  <1>2. after # store[n] /\ (Relays(store[n], after, h) <=> h \in after.main)
    BY <1>1 DEF News, Relays, InMain
  <1>3. store'[n] = after /\ \A p \in Node \ {n} : store'[p] = store[p]
    BY <1>1 DEF IInv, TypeOK
  <1>4. IF h \in after.main
          THEN /\ besited' = [besited EXCEPT ![n] = @ \cup (cites[h] \cap header[n])]
               /\ valid' = [valid EXCEPT ![n] = @ + Cardinality(cites[h] \cap body[n])]
          ELSE besited' = besited /\ valid' = valid
    BY <1>1, <1>2 DEF Sited, Counted
  <1>5. IF h \in after.main
          THEN /\ besited'[n] = besited[n] \cup (cites[h] \cap header[n])
               /\ valid'[n] = valid[n] + Cardinality(cites[h] \cap body[n])
          ELSE besited'[n] = besited[n] /\ valid'[n] = valid[n]
    BY <1>4 DEF IInv, TypeOK
  <1>6. \A p \in Node \ {n} : besited'[p] = besited[p] /\ valid'[p] = valid[p]
    BY <1>4 DEF IInv, TypeOK
  <1>12. besited' = [p \in Node |-> besited'[p]] /\ valid' = [p \in Node |-> valid'[p]]
    BY <1>4 DEF IInv, TypeOK
  <1>7. AncestorsAsked(after, h) \in Nat
    <2>1. WellFormed(after)
      BY ReceivePreserves DEF IInv
    <2>2. Depth[after.deepest] \in Nat /\ Depth[h] \in Nat
      BY <2>1 DEF WellFormed, Store
    <2> QED
      BY <2>2 DEF AncestorsAsked, AskFor
  <1>8. \A m \in net' \ net : m \in AnnounceToPeers(h, n)
                             \/ m \in RequestToPeers(Parent[h], 1, n)
                             \/ m \in RequestToPeers(Parent[h], AncestorsAsked(after, h), n)
    BY <1>1
  <1>9. Peers[n] \subseteq Node
    OBVIOUS
  <1>10. \A m \in net' \ net : \/ \E p \in Node : m = Announce(h, p)
                               \/ \E p \in Node, k \in Nat : m = Request(Parent[h], k, n, p)
    BY <1>7, <1>8, <1>9 DEF AnnounceToPeers, RequestToPeers
  <1>11. UNCHANGED <<header, body, verified, miner, cites, stray>>
    BY DEF ProcessBlock, weakVars
  <1> QED
    BY <1>2, <1>3, <1>5, <1>6, <1>10, <1>11, <1>12 DEF Received

(* What a block cites is counted when it joins the main tree: its miner is *)
(* another node then, and nothing that it cites was countable before.      *)
LEMMA ProcessCountsOnce ==
    ASSUME IInv, NEW n \in Node, NEW h \in Block \ {Genesis}, h \in Minted, Received(n, h),
           h \in store'[n].main, h \notin store[n].main, store[n].main \subseteq store'[n].main
    PROVE  /\ Cardinality(cites[h] \cap body[n]) \in Nat
           /\ Cardinality(Countable(n)) \in Nat /\ Cardinality(Countable(n)') \in Nat
           /\ Cardinality(Countable(n)) + Cardinality(cites[h] \cap body[n])
                <= Cardinality(Countable(n)')
  <1> DEFINE new == cites[h] \cap body[n]
             old == Countable(n)
  <1>1. /\ UNCHANGED <<body, miner, cites>> /\ Minted' = Minted
        /\ IsFiniteSet(Minted) /\ IsFiniteSet(body[n])
    BY DEF Received, Minted, IInv
  <1>2. IsFiniteSet(old) /\ IsFiniteSet(Countable(n)')
    BY <1>1, CountableGrows
  <1>3. IsFiniteSet(new)
    BY <1>1, FS_Subset
  <1>4. IsFiniteSet({h}) /\ Cardinality({h}) = 1
    BY FS_Singleton
  <1>5. /\ IsFiniteSet({h} \X new)
        /\ Cardinality({h} \X new) = Cardinality({h}) * Cardinality(new)
    BY <1>3, <1>4, FS_Product
  <1>6. Cardinality(new) \in Nat /\ Cardinality(old) \in Nat /\ Cardinality(Countable(n)') \in Nat
    BY <1>2, <1>3, FS_CardinalityType
  <1>7. Cardinality({h} \X new) = Cardinality(new)
    BY <1>4, <1>5, <1>6
  <1>8. old \cap ({h} \X new) = {}
    BY DEF Countable
  <1>9. Cardinality(old \cap ({h} \X new)) = 0
    BY <1>8, FS_EmptySet, Zenon
  <1>10. /\ IsFiniteSet(old \cup ({h} \X new))
         /\ Cardinality(old \cup ({h} \X new)) =
              Cardinality(old) + Cardinality({h} \X new) - Cardinality(old \cap ({h} \X new))
    BY <1>2, <1>5, FS_Union
  <1>11. old \cup ({h} \X new) \subseteq Countable(n)'
    <2>1. miner[h] # n
      BY DEF IInv, MinerKeeps
    <2> QED
      BY <1>1, <2>1 DEF Countable
  <1>12. Cardinality(old \cup ({h} \X new)) <= Cardinality(Countable(n)')
    BY <1>2, <1>11, FS_Subset
  <1> HIDE DEF new, old
  <1>13. Cardinality(old) + Cardinality(new) <= Cardinality(Countable(n)')
    BY <1>6, <1>7, <1>9, <1>10, <1>12
  <1> QED
    BY <1>6, <1>13 DEF new, old

LEMMA ProcessPreserves ==
    ASSUME IInv, NEW n \in Node, NEW h \in Block \ {Genesis}, ProcessBlock(n, h)
    PROVE  /\ IInv'
           /\ Chain(n)!ReceiveConnect(h) \/ Chain(n)!ReceivePark(h)
           /\ \A p \in Node \ {n} : UNCHANGED (Chain(p)!vars)
  <1>1. Received(n, h)
    BY ProcessShape
  <1>2. h \in Minted /\ Parent[h] \in Minted \cup {Genesis}
    <2>1. Announce(h, n) \in net
      BY DEF ProcessBlock
    <2> QED
      BY <2>1 DEF IInv, KnownWasMined, Announce
  <1>3. /\ \A p \in Node \ {n} : store'[p] = store[p]
        /\ UNCHANGED <<header, body, verified, miner, cites, stray>>
        /\ Minted' = Minted
    BY <1>1 DEF Received, Minted
  <1>4. /\ WellFormed(store'[n]) /\ store[n].main \subseteq store'[n].main
        /\ Held(store'[n]) \subseteq Held(store[n]) \cup {h, Parent[h]}
        /\ h \in store'[n].main => h \notin store[n].main
    BY <1>1, ReceivePreserves DEF Received, IInv
  <1>5. \A p \in Node : store[p].main \subseteq store'[p].main
    BY <1>3, <1>4
  <1>6. \A p \in Node : besited[p] \subseteq besited'[p]
    BY <1>1 DEF Received
  <1>7. TypeOK'
    <2>1. store' \in [Node -> Store]
      BY <1>4 DEF ProcessBlock, IInv, TypeOK, WellFormed
    <2>2. /\ besited' \in [Node -> SUBSET Weak] /\ valid' \in [Node -> Nat]
          /\ \A p \in Node : besited'[p] \subseteq header[p]
      <3>1. besited' = [p \in Node |-> besited'[p]] /\ valid' = [p \in Node |-> valid'[p]]
        BY <1>1 DEF Received
      <3>2. IsFiniteSet(cites[h] \cap body[n])
        BY FS_Subset DEF IInv
      <3>3. Cardinality(cites[h] \cap body[n]) \in Nat
        BY <3>2, FS_CardinalityType
      <3>4. \A p \in Node : /\ besited'[p] \subseteq Weak /\ valid'[p] \in Nat
                            /\ besited'[p] \subseteq header[p]
        BY <1>1, <3>3 DEF Received, IInv, TypeOK
      <3> QED
        BY <3>1, <3>4
    <2>3. net' \subseteq Message
      BY <1>1 DEF Received, IInv, TypeOK, Message, Announce, Request
    <2> QED
      BY <1>3, <2>1, <2>2, <2>3 DEF IInv, TypeOK
  <1>8. KnownWasMined'
    <2>1. \A p \in Node : Held(store'[p]) \subseteq Minted' \cup {Genesis}
      BY <1>2, <1>3, <1>4 DEF IInv, KnownWasMined
    <2>2. \A m \in net' : m.type = "process_block" => m.hash \in Minted'
      BY <1>1, <1>2, <1>3 DEF Received, IInv, KnownWasMined, Announce, Request
    <2> QED
      BY <1>3, <2>1, <2>2 DEF IInv, KnownWasMined
  <1>9. MinerKeeps'
    <2>1. \A b \in Minted : miner[b] \in Node
      BY DEF IInv, TypeOK
    <2> QED
      BY <1>3, <1>5, <1>6, <2>1 DEF IInv, MinerKeeps
  <1>10. (\A p \in Node : WellFormed(store[p]))'
    BY <1>3, <1>4 DEF IInv
  <1>11. IsFiniteSet(Minted') /\ \A p \in Node : IsFiniteSet(body'[p])
    BY <1>3 DEF IInv
  <1>12. OwnCitesDisjoint'
    BY <1>3 DEF IInv, OwnCitesDisjoint
  <1>13. MarkedIsCited'
    <2> SUFFICES ASSUME NEW p \in Node, NEW w \in besited'[p] \ stray'[p]
                 PROVE  \E b \in store'[p].main \ {Genesis} : w \in cites'[b]
      BY DEF MarkedIsCited
    <2>1. CASE w \in besited[p]
      BY <1>3, <1>5, <2>1 DEF IInv, MarkedIsCited
    <2>2. CASE w \notin besited[p]
      <3>1. p = n /\ h \in store'[n].main /\ w \in cites[h]
        BY <1>1, <2>2 DEF Received
      <3> QED
        BY <1>3, <3>1
    <2> QED
      BY <2>1, <2>2
  <1>14. ValidCountedOnce'
    <2> SUFFICES ASSUME NEW p \in Node
                 PROVE  valid'[p] <= Cardinality(Countable(p)')
      BY DEF ValidCountedOnce
    <2>1. valid[p] \in Nat /\ valid[p] <= Cardinality(Countable(p))
      BY DEF IInv, TypeOK, ValidCountedOnce
    <2>2. CASE valid'[p] = valid[p]
      <3>1. /\ Cardinality(Countable(p)) \in Nat /\ Cardinality(Countable(p)') \in Nat
            /\ Cardinality(Countable(p)) <= Cardinality(Countable(p)')
        BY <1>3, <1>5, <1>11, CountableGrows
      <3> QED
        BY <2>1, <2>2, <3>1
    <2>3. CASE valid'[p] # valid[p]
      <3>1. /\ p = n /\ h \in store'[n].main
            /\ valid'[n] = valid[n] + Cardinality(cites[h] \cap body[n])
        BY <1>1, <2>3 DEF Received
      <3>2. /\ Cardinality(cites[h] \cap body[n]) \in Nat
            /\ Cardinality(Countable(n)) \in Nat /\ Cardinality(Countable(n)') \in Nat
            /\ Cardinality(Countable(n)) + Cardinality(cites[h] \cap body[n])
                 <= Cardinality(Countable(n)')
        BY <1>1, <1>2, <1>4, <3>1, ProcessCountsOnce
      <3> QED
        BY <2>1, <3>1, <3>2
    <2> QED
      BY <2>2, <2>3
  <1>15. IInv'
    BY <1>7, <1>8, <1>9, <1>10, <1>11, <1>12, <1>13, <1>14 DEF IInv
  <1>16. Chain(n)!ReceiveConnect(h) \/ Chain(n)!ReceivePark(h)
    <2>1. CASE Parent[h] \in store[n].main
      <3>1. h \notin store[n].main /\ store'[n] \in Connect(store[n], h)
        BY <1>1, <2>1 DEF Received, AddReceived
      <3> QED
        BY <1>2, <1>3, <2>1, <3>1 DEF Chain!ReceiveConnect, Chain!Connect, Connect,
             Chain!TreesRootedAt, TreesRootedAt, Chain!NodesOf, NodesOf, Chain!DeepestAfter,
             DeepestAfter, Chain!MaxDepth, MaxDepth
    <2>2. CASE Parent[h] \notin store[n].main
      <3>1. h \notin store[n].main /\ ~AlreadyParked(store[n], h) /\ store'[n] = Park(store[n], h)
        BY <1>1, <2>2 DEF Received, AddReceived
      <3> QED
        BY <1>2, <1>3, <2>2, <3>1 DEF Chain!ReceivePark, Chain!AlreadyParked, AlreadyParked,
             Chain!Park, Park, Chain!TreesHolding, TreesHolding, Chain!NodesOf, NodesOf
    <2> QED
      BY <2>1, <2>2
  <1>17. \A p \in Node \ {n} : UNCHANGED (Chain(p)!vars)
    BY <1>3 DEF Chain!vars
  <1> QED
    BY <1>15, <1>16, <1>17

-----------------------------------------------------------------------------
(* Requests: answered from the store, and sent for the trees that are due. *)

LEMMA AskBlockPreserves ==
    ASSUME IInv, NEW m \in net, AskBlock(m)
    PROVE  IInv' /\ \A p \in Node : UNCHANGED (Chain(p)!vars)
  <1>1. /\ UNCHANGED <<store, header, body, verified, besited, valid, miner, cites, stray>>
        /\ Minted' = Minted
        /\ net' = net \cup {Announce(b, m.from) : b \in Served(store[m.to], m.hash, m.max)}
    BY DEF AskBlock, weakVars, Minted
  <1>2. m.from \in Node /\ m.to \in Node /\ m.hash \in Block
    BY DEF AskBlock, IInv, TypeOK, Message
  <1>3. \A b \in Served(store[m.to], m.hash, m.max) : b \in Minted /\ b \in Block \ {Genesis}
    BY <1>2, LinkedHaveHeaders DEF IInv, KnownWasMined, TypeOK
  <1>4. TypeOK'
    <2>1. net' \subseteq Message
      BY <1>1, <1>2, <1>3 DEF IInv, TypeOK, Message, Announce
    <2> QED
      BY <1>1, <2>1 DEF IInv, TypeOK
  <1>5. KnownWasMined'
    BY <1>1, <1>3 DEF IInv, KnownWasMined, Announce
  <1>6. /\ MinerKeeps' /\ OwnCitesDisjoint' /\ MarkedIsCited'
        /\ (\A p \in Node : WellFormed(store[p]))'
        /\ IsFiniteSet(Minted') /\ \A p \in Node : IsFiniteSet(body'[p])
    BY <1>1 DEF IInv, MinerKeeps, OwnCitesDisjoint, MarkedIsCited
  <1>7. ValidCountedOnce'
    BY <1>1 DEF IInv, ValidCountedOnce, Countable
  <1>8. \A p \in Node : UNCHANGED (Chain(p)!vars)
    BY <1>1 DEF Chain!vars
  <1> QED
    BY <1>4, <1>5, <1>6, <1>7, <1>8 DEF IInv

LEMMA AskIncompletesPreserves ==
    ASSUME IInv, NEW n \in Node, NEW due \in SUBSET store[n].inc, AskIncompletes(n, due)
    PROVE  IInv' /\ Chain(n)!Ask(due) /\ \A p \in Node \ {n} : UNCHANGED (Chain(p)!vars)
  <1>1. /\ due # {} /\ store'[n] = AskIncomplete(store[n], due)
        /\ \A p \in Node \ {n} : store'[p] = store[p]
        /\ UNCHANGED <<header, body, verified, besited, valid, miner, cites, stray>>
        /\ Minted' = Minted
    BY DEF AskIncompletes, weakVars, Minted, IInv, TypeOK
  <1>2. /\ WellFormed(store'[n]) /\ Held(store'[n]) \subseteq Held(store[n])
        /\ store'[n].main = store[n].main
    BY <1>1, AskPreserves DEF IInv
  <1>3. \A p \in Node : store'[p].main = store[p].main
    BY <1>1, <1>2
  <1>4. TypeOK'
    <2>1. store' \in [Node -> Store]
      BY <1>2 DEF AskIncompletes, IInv, TypeOK, WellFormed
    <2>2. AskFor(0, MaxAskBlocks) \in Nat
      BY DEF AskFor
    <2>3. \A t \in due : t.root \in Block
      BY DEF IInv, TypeOK, Store, Tree
    <2>4. \A x \in net' \ net : \E t \in due, p \in Node :
              x = Request(t.root, AskFor(0, MaxAskBlocks), n, p)
      BY DEF AskIncompletes, RequestToPeers
    <2>5. net' \subseteq Message
      BY <2>2, <2>3, <2>4 DEF IInv, TypeOK, Message, Request
    <2> QED
      BY <1>1, <2>1, <2>5 DEF IInv, TypeOK
  <1>5. KnownWasMined'
    <2>1. \A x \in net' : x.type = "process_block" => x \in net
      BY DEF AskIncompletes, RequestToPeers, Request
    <2> QED
      BY <1>1, <1>2, <2>1 DEF IInv, KnownWasMined
  <1>6. MinerKeeps'
    <2>1. \A b \in Minted : miner[b] \in Node
      BY DEF IInv, TypeOK
    <2> QED
      BY <1>1, <1>3, <2>1 DEF IInv, MinerKeeps
  <1>7. /\ OwnCitesDisjoint' /\ MarkedIsCited'
        /\ (\A p \in Node : WellFormed(store[p]))'
        /\ IsFiniteSet(Minted') /\ \A p \in Node : IsFiniteSet(body'[p])
    BY <1>1, <1>2, <1>3 DEF IInv, OwnCitesDisjoint, MarkedIsCited
  <1>8. ValidCountedOnce'
    BY <1>1, <1>3 DEF IInv, ValidCountedOnce, Countable
  <1>9. IInv'
    BY <1>4, <1>5, <1>6, <1>7, <1>8 DEF IInv
  <1>10. Chain(n)!Ask(due)
    BY <1>1 DEF Chain!Ask, Chain!AskIncomplete, AskIncomplete, Chain!Dropped, Dropped,
                Chain!NodesOf, NodesOf
  <1>11. \A p \in Node \ {n} : UNCHANGED (Chain(p)!vars)
    BY <1>1 DEF Chain!vars
  <1> QED
    BY <1>9, <1>10, <1>11

-----------------------------------------------------------------------------

LEMMA NextPreserves ==
    ASSUME IInv, [Next]_vars
    PROVE  IInv' /\ \A p \in Node : [Chain(p)!Next]_(Chain(p)!vars)
  <1>1. CASE UNCHANGED vars
    <2>1. Minted' = Minted
      BY <1>1 DEF vars, Minted
    <2>2. IInv'
      BY <1>1, <2>1 DEF vars, weakVars, IInv, TypeOK, Message, KnownWasMined, MinerKeeps, OwnCitesDisjoint,
                   MarkedIsCited, ValidCountedOnce, Countable
    <2> QED
      BY <1>1, <2>1, <2>2 DEF vars, Chain!vars
  <1>2. ASSUME NEW n \in Node, NEW w \in Weak,
               MineWeak(n, w) \/ LearnHeader(n, w) \/ LearnBody(n, w)
        PROVE  IInv' /\ \A p \in Node : [Chain(p)!Next]_(Chain(p)!vars)
    <2>1. UNCHANGED <<store, Minted>>
      BY <1>2 DEF MineWeak, LearnHeader, LearnBody, Minted
    <2> QED
      BY <1>2, <2>1, WeakPreserves DEF Chain!vars
  <1>3. ASSUME NEW n \in Node, NEW h \in Block \ {Genesis}, MineStrong(n, h)
        PROVE  IInv' /\ \A p \in Node : [Chain(p)!Next]_(Chain(p)!vars)
    BY <1>3, MineStrongPreserves DEF Chain!Next
  <1>4. ASSUME NEW n \in Node, NEW h \in Block \ {Genesis}, ProcessBlock(n, h)
        PROVE  IInv' /\ \A p \in Node : [Chain(p)!Next]_(Chain(p)!vars)
    BY <1>4, ProcessPreserves DEF Chain!Next
  <1>5. ASSUME NEW m \in net, AskBlock(m)
        PROVE  IInv' /\ \A p \in Node : [Chain(p)!Next]_(Chain(p)!vars)
    BY <1>5, AskBlockPreserves
  <1>6. ASSUME NEW n \in Node, NEW due \in SUBSET store[n].inc, AskIncompletes(n, due)
        PROVE  IInv' /\ \A p \in Node : [Chain(p)!Next]_(Chain(p)!vars)
    BY <1>6, AskIncompletesPreserves DEF Chain!Next
  <1> QED
    BY <1>1, <1>2, <1>3, <1>4, <1>5, <1>6 DEF Next

(* What is true whatever the nodes mine, send, lose or repeat: nobody      *)
(* holds what was not mined, and its miner keeps what it cites.            *)
THEOREM StrongInvariant == Spec => []IInv
  <1>1. IInv /\ [Next]_vars => IInv'
    BY NextPreserves
  <1> QED
    BY InitEstablishes, <1>1, PTL DEF Spec

(* No node cites a weak block in two of its strong blocks, on any fork.    *)
THEOREM StrongOwnCitesDisjoint == Spec => []OwnCitesDisjoint
  <1>1. IInv => OwnCitesDisjoint
    BY DEF IInv
  <1> QED
    BY StrongInvariant, <1>1, PTL

(* A weak block is marked as cited only if a block of the main tree of     *)
(* that node cites it, unless its flag was set by chance.                  *)
THEOREM StrongMarkedIsCited == Spec => []MarkedIsCited
  <1>1. IInv => MarkedIsCited
    BY DEF IInv
  <1> QED
    BY StrongInvariant, <1>1, PTL

(* What is sent in answer to #ask_block has a header, cites something, and *)
(* its miner has what it cites.                                            *)
THEOREM StrongServedAreWhole == Spec => []ServedAreWhole
  <1>1. IInv => ServedAreWhole
    <2> SUFFICES ASSUME IInv, NEW n \in Node, NEW h \in Block,
                        NEW b \in Served(store[n], h, MaxAskBlocks)
                 PROVE  /\ b \in store[n].nb
                        /\ cites[b] # {} /\ cites[b] \subseteq body[miner[b]]
      BY DEF ServedAreWhole
    <2>1. b \in store[n].nb /\ b \in Held(store[n]) \ {Genesis}
      BY LinkedHaveHeaders DEF IInv
    <2>2. b \in Minted
      BY <2>1 DEF IInv, KnownWasMined
    <2> QED
      BY <2>1, <2>2 DEF IInv, MinerKeeps
  <1> QED
    BY StrongInvariant, <1>1, PTL

(* What a block cites is counted as valid at most once by each node,       *)
(* however often and in whatever order the block is received.              *)
THEOREM StrongValidCountedOnce == Spec => []ValidCountedOnce
  <1>1. IInv => ValidCountedOnce
    BY DEF IInv
  <1> QED
    BY StrongInvariant, <1>1, PTL

(* The store of each node is the store of one chain (ChainStore): a step   *)
(* of the network is for it one of its own operations, or a block mined    *)
(* elsewhere, or nothing.                                                  *)
THEOREM StrongStoresAreChains == Spec => StoresAreChains
  <1>1. Init => \A n \in Node : Chain(n)!Init
    BY DEF Init, Minted, Chain!Init, Chain!EmptyStore, EmptyStore
  <1>2. IInv /\ [Next]_vars => [\A n \in Node : [Chain(n)!Next]_(Chain(n)!vars)]_vars
    BY NextPreserves
  <1> QED
    BY StrongInvariant, <1>1, <1>2, PTL DEF Spec, StoresAreChains

(* So the network implements the store of one chain at every node, and     *)
(* what is proved of ChainStore holds of each store.                       *)
THEOREM StrongStoresImplement ==
    ASSUME NEW n \in Node
    PROVE  Spec => Chain(n)!Spec
  <1>1. Init => Chain(n)!Init
    BY DEF Init, Minted, Chain!Init, Chain!EmptyStore, EmptyStore
  <1>2. IInv /\ [Next]_vars => [Chain(n)!Next]_(Chain(n)!vars)
    BY NextPreserves
  <1> QED
    BY StrongInvariant, <1>1, <1>2, PTL DEF Spec, Chain!Spec
=============================================================================
