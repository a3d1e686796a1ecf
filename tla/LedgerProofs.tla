----------------------------- MODULE LedgerProofs -----------------------------
(***************************************************************************)
(* Proofs about commit marks, ranks and the file of hashes, for any number *)
(* of chains, every universe of blocks with its forks, every clock and all *)
(* depths at which blocks are discarded.                                   *)
(***************************************************************************)
EXTENDS Ledger, ChainTreeProofs, FiniteSetTheorems

(* Multiples of a frequency.                                               *)
LEMMA Multiples ==
    ASSUME NEW x \in Nat, NEW m \in Nat, NEW n \in Nat, NEW f \in Nat \ {0}
    PROVE  /\ x \div f \in Nat
           /\ m * f <= x <=> m <= x \div f
           /\ x % f = 0 => x = (x \div f) * f
           /\ m < n <=> m * f < n * f
           /\ m * f \in Nat
  <1>0. f \in Nat /\ f > 0
    OBVIOUS
  <1>1. PICK q \in Nat, r \in Nat : q = x \div f /\ r = x % f /\ r < f /\ x = q * f + r
    <2>1. x \div f \in Int /\ (x \div f) * f <= x /\ x < (x \div f) * f + f
      BY <1>0
    <2>2. x % f \in 0 .. f - 1
      OBVIOUS
    <2>3. x = (x \div f) * f + (x % f)
      OBVIOUS
    <2>4. ASSUME NEW q \in Int, x < q * f + f PROVE q >= 0
      <3>1. q < 0 => (0 - q - 1) * f >= 0
        OBVIOUS
      <3> QED
        BY <2>4, <3>1
    <2>5. x \div f \in Nat
      BY <2>1, <2>4
    <2> QED
      BY <2>2, <2>3, <2>5
  <1>2. ASSUME NEW a \in Nat, NEW b \in Nat, a < b PROVE a * f + f <= b * f
    <2>1. (b - a - 1) * f >= 0
      BY <1>2
    <2> QED
      BY <1>2, <2>1
  <1>3. m * f \in Nat /\ q * f \in Nat /\ n * f \in Nat
    OBVIOUS
  <1>4. m * f <= x <=> m <= q
    <2>1. CASE m <= q
      <3>1. m * f <= q * f
        BY <1>2, <1>3, <2>1
      <3> QED
        BY <1>1, <1>3, <2>1, <3>1
    <2>2. CASE q < m
      <3>1. q * f + f <= m * f
        BY <1>2, <2>2
      <3> QED
        BY <1>1, <1>3, <2>2, <3>1
    <2> QED
      BY <2>1, <2>2
  <1>5. x % f = 0 => x = (x \div f) * f
    <2>1. r = 0 => x = q * f
      BY <1>1, <1>3
    <2> QED
      BY <1>1, <2>1
  <1>7. m < n <=> m * f < n * f
    <2>1. m < n => m * f < n * f
      BY <1>2, <1>3
    <2>2. n < m => n * f < m * f
      BY <1>2, <1>3
    <2> QED
      BY <1>3, <2>1, <2>2
  <1> QED
    BY <1>1, <1>3, <1>4, <1>5, <1>7

LEMMA MultipleMod == \A m \in Nat, f \in Nat \ {0} : (m * f) % f = 0
  <1> SUFFICES ASSUME NEW m \in Nat, NEW f \in Nat, f > 0 PROVE (m * f) % f = 0
    OBVIOUS
  <1> QED
    OBVIOUS

USE UniverseAssumption, LedgerAssumption

-----------------------------------------------------------------------------
(* Greatest and least members.                                             *)

LEMMA FiniteHasMax ==
    ASSUME NEW A \in SUBSET Nat, IsFiniteSet(A), A # {}
    PROVE  \E m \in A : \A x \in A : x <= m
  <1> DEFINE Top(B) == \E m \in B : \A x \in B : x <= m
             bad == {B \in FiniteSubsetsOf(A) : B # {} /\ ~Top(B)}
  <1>0. A \in FiniteSubsetsOf(A)
    BY DEF FiniteSubsetsOf
  <1> SUFFICES ASSUME bad # {} PROVE FALSE
    BY <1>0
  <1>1. IsWellFoundedOn(StrictSubsetOrdering(A), FiniteSubsetsOf(A))
    BY FS_StrictSubsetOrderingWellFounded
  <1>2. bad \subseteq FiniteSubsetsOf(A)
    OBVIOUS
  <1> HIDE DEF bad
  <1>3. PICK B \in bad : \A C \in bad : ~(<<C, B>> \in StrictSubsetOrdering(A))
    BY <1>1, <1>2, WFMin
  <1> USE DEF bad
  <1>4. IsFiniteSet(B) /\ B \subseteq A /\ B # {} /\ ~Top(B)
    BY <1>3 DEF FiniteSubsetsOf
  <1>5. PICK b \in B : TRUE
    BY <1>4
  <1> DEFINE C == B \ {b}
  <1>6. C \in FiniteSubsetsOf(A) /\ <<C, B>> \in StrictSubsetOrdering(A)
    BY <1>4, FS_RemoveElement DEF FiniteSubsetsOf, StrictSubsetOrdering
  <1>7. C = {} \/ Top(C)
    BY <1>3, <1>6
  <1>8. CASE C = {}
    BY <1>4, <1>5, <1>8
  <1>9. CASE Top(C)
    <2>1. PICK m \in C : \A x \in C : x <= m
      BY <1>9
    <2>2. m \in Nat /\ b \in Nat /\ \A x \in C : x \in Nat
      BY <1>4
    <2>3. CASE b <= m
      BY <1>4, <2>1, <2>3
    <2>4. CASE m <= b
      <3>1. \A x \in B : x <= b
        BY <2>1, <2>2, <2>4
      <3> QED
        BY <1>4, <3>1
    <2> QED
      BY <2>2, <2>3, <2>4
  <1> QED
    BY <1>7, <1>8, <1>9

LEMMA NatHasMin ==
    ASSUME NEW A \in SUBSET Nat, A # {}
    PROVE  \E m \in A : \A x \in A : m <= x
  <1> DEFINE less == {p \in Nat \X Nat : p[1] < p[2]}
  <1>1. IsWellFoundedOn(less, Nat)
    BY NatLessThanWellFounded DEF OpToRel
  <1>2. \A m, n \in Nat : m < n => <<m, n>> \in less
    OBVIOUS
  <1> HIDE DEF less
  <1>3. PICK m \in A : \A x \in A : ~(<<x, m>> \in less)
    BY <1>1, WFMin
  <1>4. ASSUME NEW x \in A PROVE m <= x
    <2>1. m \in Nat /\ x \in Nat /\ ~(<<x, m>> \in less)
      BY <1>3
    <2>2. ~(x < m)
      BY <1>2, <2>1
    <2> QED
      BY <2>1, <2>2
  <1> QED
    BY <1>4

(* The rank of the trailing block is one.                                  *)
LEMMA TrailingRankIsNat ==
    ASSUME TypeOK
    PROVE  TrailingRank \in Nat
  <1> DEFINE ranks == {next_rank[c][store[c].deepest] : c \in Chain}
             f == [c \in Chain |-> next_rank[c][store[c].deepest]]
  <1>1. ranks \subseteq Nat /\ ranks # {}
    BY DEF TypeOK, Store
  <1>2. f \in Surjection(Chain, ranks)
    BY DEF Surjection
  <1>3. IsFiniteSet(ranks)
    BY <1>2, FS_Surjection
  <1>4. \E m \in ranks : \A x \in ranks : x <= m
    BY <1>1, <1>3, FiniteHasMax
  <1>5. \E m \in ranks : \A c \in Chain : next_rank[c][store[c].deepest] <= m
    BY <1>4
  <1>6. TrailingRank \in ranks
    BY <1>5 DEF TrailingRank
  <1> QED
    BY <1>1, <1>6

-----------------------------------------------------------------------------
(* What is buried: a lineage, under as many blocks as are discarded.       *)

LEMMA BuriedHolds ==
    ASSUME NEW c \in Chain, WellFormed(store[c]), NEW discard \in Nat, NEW b \in Buried(c, discard)
    PROVE  /\ b \in Block /\ b \in store[c].main /\ HasOnTop(c, b, discard)
           /\ Depth[store[c].deepest] >= discard /\ Depth[store[c].deepest] \in Nat
           /\ Lineage[b] \subseteq Buried(c, discard)
  <1> DEFINE deepest == store[c].deepest
  <1>1. deepest \in store[c].main /\ deepest \in Block
    BY DEF WellFormed, Store, DeepestIn
  <1>2. Lineage[deepest] \subseteq store[c].main /\ Lineage[deepest] \subseteq Block
    BY <1>1, MainHoldsLineage, LineageHolds
  <1>3. b \in Lineage[deepest] /\ Depth[b] + discard <= Depth[deepest]
    BY DEF Buried
  <1>4. b \in Block /\ Depth[b] \in Nat /\ Depth[deepest] \in Nat
    BY <1>1, <1>2, <1>3
  <1>10. Depth[b] + discard \in 0 .. Depth[deepest]
    BY <1>3, <1>4
  <1>5. PICK d \in Lineage[deepest] : Depth[d] = Depth[b] + discard
    BY <1>1, <1>10, LineageIsGapless
  <1>6. b \in Lineage[d]
    BY <1>1, <1>3, <1>4, <1>5, LineageIsChain
  <1>7. HasOnTop(c, b, discard)
    BY <1>2, <1>5, <1>6 DEF HasOnTop
  <1>8. Lineage[b] \subseteq Buried(c, discard)
    <2> SUFFICES ASSUME NEW a \in Lineage[b] PROVE a \in Buried(c, discard)
      OBVIOUS
    <2>1. a \in Lineage[deepest] /\ a \in Block
      BY <1>1, <1>2, <1>3, LineageHolds
    <2>2. Depth[a] <= Depth[b] /\ Depth[a] \in Nat
      BY <1>4, <2>1, LineageHolds
    <2>3. Depth[a] + discard <= Depth[deepest]
      BY <1>3, <1>4, <2>2
    <2> QED
      BY <2>1, <2>3 DEF Buried
  <1>9. Depth[deepest] >= discard
    BY <1>3, <1>4
  <1> QED
    BY <1>2, <1>3, <1>4, <1>7, <1>8, <1>9

LEMMA BuriedIsLineage ==
    ASSUME NEW c \in Chain, WellFormed(store[c]), NEW discard \in Nat, Buried(c, discard) # {}
    PROVE  /\ MaxDepth(Buried(c, discard)) # {}
           /\ \A b \in MaxDepth(Buried(c, discard)) :
                 /\ Depth[b] + discard = Depth[store[c].deepest]
                 /\ b \in Buried(c, discard) /\ Buried(c, discard) = Lineage[b]
  <1> DEFINE deepest == store[c].deepest
  <1>1. deepest \in Block /\ Depth[deepest] \in Nat
    BY DEF WellFormed, Store
  <1>2. \A a \in Buried(c, discard) : /\ a \in Block /\ a \in Lineage[deepest]
                                     /\ Depth[a] \in Nat /\ Depth[a] + discard <= Depth[deepest]
                                     /\ Lineage[a] \subseteq Buried(c, discard)
    BY BuriedHolds DEF Buried
  <1>3. Depth[deepest] - discard \in 0 .. Depth[deepest]
    BY <1>1, <1>2
  <1>4. PICK t \in Lineage[deepest] : Depth[t] = Depth[deepest] - discard
    BY <1>1, <1>3, LineageIsGapless
  <1>5. t \in Buried(c, discard)
    BY <1>1, <1>4 DEF Buried
  <1>6. \A a \in Buried(c, discard) : Depth[a] <= Depth[t]
    BY <1>1, <1>2, <1>4
  <1>7. ASSUME NEW b \in MaxDepth(Buried(c, discard))
        PROVE  /\ Depth[b] + discard = Depth[deepest]
               /\ b \in Buried(c, discard) /\ Buried(c, discard) = Lineage[b]
    <2>1. b \in Buried(c, discard) /\ \A a \in Buried(c, discard) : Depth[a] <= Depth[b]
      BY DEF MaxDepth
    <2>2. Depth[b] + discard = Depth[deepest]
      BY <1>1, <1>2, <1>4, <1>5, <2>1
    <2>3. \A a \in Buried(c, discard) : a \in Lineage[b]
      BY <1>1, <1>2, <2>1, LineageIsChain
    <2> QED
      BY <1>2, <2>1, <2>2, <2>3
  <1> QED
    BY <1>5, <1>6, <1>7 DEF MaxDepth

-----------------------------------------------------------------------------
(* What an operation on the store of chain c may do to it.                 *)

Advances(c) ==
    /\ store' = [store EXCEPT ![c] = store'[c]]
    /\ WellFormed(store'[c]) /\ store[c].main \subseteq store'[c].main
    /\ Depth[store'[c].deepest] >= Depth[store[c].deepest]

LEMMA ReceiveAdvances ==
    ASSUME IInv, NEW c \in Chain, NEW h \in Block \ {Genesis}, Receive(c, h)
    PROVE  /\ Advances(c)
           /\ Held(store'[c]) \subseteq Held(store[c]) \cup {h, Parent[h]}
           /\ store'[c].nb \subseteq store[c].nb \cup {h}
           /\ UNCHANGED <<next_rank, early, partial, committed, log, missed, logged>>
  <1>1. PICK T \in AddReceived(store[c], h) : store' = [store EXCEPT ![c] = T]
    BY DEF Receive
  <1>2. WellFormed(store[c]) /\ store'[c] = T
    BY <1>1 DEF IInv, TypeOK
  <1>3. /\ WellFormed(T) /\ store[c].main \subseteq T.main
        /\ Held(T) \subseteq Held(store[c]) \cup {h, Parent[h]}
        /\ T.deepest = store[c].deepest \/ Depth[T.deepest] > Depth[store[c].deepest]
    BY <1>2, ReceivePreserves
  <1>4. T.deepest \in Block /\ store[c].deepest \in Block
    BY <1>2, <1>3 DEF WellFormed, Store
  <1>5. Depth[T.deepest] >= Depth[store[c].deepest]
    BY <1>3, <1>4
  <1>6. T.nb \subseteq store[c].nb \cup {h}
    <2>1. CASE T = store[c]
      BY <2>1
    <2>2. CASE T \in Connect(store[c], h)
      BY <2>2 DEF Connect
    <2>3. CASE h \notin store[c].main /\ Parent[h] \notin store[c].main
               /\ ~AlreadyParked(store[c], h) /\ T = Park(store[c], h)
      BY <1>2, <2>3, ParkPreserves
    <2> QED
      BY <2>1, <2>2, <2>3 DEF AddReceived
  <1> QED
    BY <1>1, <1>2, <1>3, <1>5, <1>6 DEF Advances, Receive, marks, file

LEMMA MineAdvances ==
    ASSUME IInv, NEW c \in Chain, NEW h \in Block \ {Genesis}, Mine(c, h)
    PROVE  /\ Advances(c) /\ h \notin Held(store[c])
           /\ Held(store'[c]) = Held(store[c]) \cup {h}
           /\ store'[c].nb = store[c].nb \cup {h} /\ store'[c].main = store[c].main \cup {h}
           /\ UNCHANGED <<early, partial, committed, log, missed, logged>>
  <1>1. /\ store' = [store EXCEPT ![c] = AddMined(store[c], h)]
        /\ h \in Own[c] \ store[c].main /\ Parent[h] = store[c].deepest
    BY DEF Mine
  <1>2. WellFormed(store[c]) /\ store'[c] = AddMined(store[c], h)
    BY <1>1 DEF IInv, TypeOK
  <1>3. h \notin Held(store[c])
    BY <1>1 DEF IInv, RanksGrow
  <1>4. /\ WellFormed(store'[c]) /\ Held(store'[c]) = Held(store[c]) \cup {h}
        /\ store'[c].main = store[c].main \cup {h} /\ store'[c].nb = store[c].nb \cup {h}
        /\ store'[c].deepest = h
    BY <1>1, <1>2, <1>3, MinePreserves
  <1>5. Depth[Parent[h]] < Depth[h] /\ Depth[h] \in Nat /\ Parent[h] \in Block
    BY ParentIsOther
  <1>6. Depth[store'[c].deepest] >= Depth[store[c].deepest]
    BY <1>1, <1>4, <1>5
  <1> QED
    BY <1>1, <1>2, <1>3, <1>4, <1>6 DEF Advances, Mine, marks, file

LEMMA AskAdvances ==
    ASSUME IInv, NEW c \in Chain, NEW due \in SUBSET store[c].inc, Ask(c, due)
    PROVE  /\ Advances(c)
           /\ Held(store'[c]) \subseteq Held(store[c])
           /\ store'[c].nb \subseteq store[c].nb /\ store'[c].main = store[c].main
           /\ UNCHANGED <<next_rank, early, partial, committed, log, missed, logged>>
  <1>1. /\ store' = [store EXCEPT ![c] = AskIncomplete(store[c], due)]
        /\ store'[c] = AskIncomplete(store[c], due) /\ WellFormed(store[c])
    BY DEF Ask, IInv, TypeOK
  <1>2. /\ WellFormed(store'[c]) /\ Held(store'[c]) \subseteq Held(store[c])
        /\ store'[c].main = store[c].main /\ store'[c].deepest = store[c].deepest
        /\ store'[c].nb \subseteq store[c].nb
    BY <1>1, AskPreserves
  <1>3. Depth[store'[c].deepest] >= Depth[store[c].deepest]
    BY <1>1, <1>2 DEF WellFormed, Store
  <1> QED
    BY <1>1, <1>2, <1>3 DEF Advances, Ask, marks, file

(* The main trees grow and get deeper: what is buried, written or reached  *)
(* stays so.                                                               *)
LEMMA AdvancesKeep ==
    ASSUME IInv, NEW c \in Chain, Advances(c), UNCHANGED <<partial, committed, log, missed, logged>>
    PROVE  /\ store' \in [Chain -> Store] /\ (\A d \in Chain : WellFormed(store[d]))'
           /\ \A d \in Chain \ {c} : store'[d] = store[d]
           /\ LoggedReached' /\ CommittedIsBuried' /\ GapsAreFailures'
  <1>1. /\ \A d \in Chain \ {c} : store'[d] = store[d]
        /\ WellFormed(store'[c]) /\ store' = [store EXCEPT ![c] = store'[c]]
    BY DEF Advances, IInv, TypeOK
  <1>2. \A d \in Chain : WellFormed(store'[d]) /\ WellFormed(store[d])
    BY <1>1 DEF IInv
  <1>3. store' \in [Chain -> Store]
    BY <1>1 DEF WellFormed, IInv, TypeOK
  <1>4. \A d \in Chain : /\ store[d].main \subseteq store'[d].main
                         /\ Depth[store[d].deepest] \in Nat /\ Depth[store'[d].deepest] \in Nat
                         /\ Depth[store'[d].deepest] >= Depth[store[d].deepest]
    <2>1. \A d \in Chain : store[d].deepest \in Block /\ store'[d].deepest \in Block
      BY <1>2 DEF WellFormed, Store
    <2> QED
      BY <1>1, <2>1 DEF Advances
  <1>5. \A d \in Chain : \A b, n : HasOnTop(d, b, n) => HasOnTop(d, b, n)'
    BY <1>4 DEF HasOnTop
  <1>6. LoggedReached'
    <2>1. logged \in Nat /\ STORE_HASH_MINUS \in Nat
      BY DEF IInv, TypeOK
    <2> QED
      BY <1>4, <2>1 DEF IInv, LoggedReached
  <1>7. CommittedIsBuried'
    <2> SUFFICES ASSUME NEW d \in Chain, NEW b \in committed[d]
                 PROVE  /\ b \in partial[d] \cap store'[d].main
                        /\ b # Genesis => /\ HasOnTop(d, b, T_DISCARD)'
                                          /\ \A e \in Chain : Depth[store'[e].deepest] >= T_DISCARD
      BY DEF CommittedIsBuried
    <2>1. b \in partial[d] \cap store[d].main
      BY DEF IInv, CommittedIsBuried
    <2>2. b # Genesis => /\ HasOnTop(d, b, T_DISCARD)
                         /\ \A e \in Chain : Depth[store[e].deepest] >= T_DISCARD
      BY DEF IInv, CommittedIsBuried
    <2> QED
      BY <1>4, <1>5, <2>1, <2>2
  <1>8. GapsAreFailures'
    BY <1>5 DEF IInv, GapsAreFailures
  <1> QED
    BY <1>1, <1>2, <1>3, <1>6, <1>7, <1>8

(* The ranks, when no rank changes.                                        *)
LEMMA RanksKeep ==
    ASSUME IInv, NEW c \in Chain, Advances(c), UNCHANGED next_rank, NEW new,
           new = {} \/ \E h \in InChain[c] :
                          /\ new = {h} /\ Lineage[h] \cap Own[c] \subseteq store[c].main
                          /\ Parent[h] \in Own[c] => next_rank[c][h] > next_rank[c][Parent[h]],
           store'[c].nb \subseteq store[c].nb \cup new,
           Held(store'[c]) \subseteq Held(store[c]) \cup new \cup {Parent[h] : h \in new}
    PROVE  RanksGrow'
  <1>1. /\ \A d \in Chain \ {c} : store'[d] = store[d]
        /\ store[c].main \subseteq store'[c].main
    BY DEF Advances, IInv, TypeOK
  <1>2. \A h \in new : /\ h \in InChain[c] /\ h \in Block \ {Genesis} /\ h \notin Own[c]
                       /\ Parent[h] \in Own[c] => Parent[h] \in store[c].main
                       /\ next_rank[c][h] > next_rank[c][Parent[h]]
    <2> SUFFICES ASSUME NEW h \in new
                 PROVE  /\ h \in InChain[c] /\ h \in Block \ {Genesis} /\ h \notin Own[c]
                        /\ Parent[h] \in Own[c] => Parent[h] \in store[c].main
                        /\ next_rank[c][h] > next_rank[c][Parent[h]]
      OBVIOUS
    <2>1. /\ h \in InChain[c] /\ h \in Block \ {Genesis} /\ h \notin Own[c]
          /\ Lineage[h] \cap Own[c] \subseteq store[c].main
          /\ Parent[h] \in Own[c] => next_rank[c][h] > next_rank[c][Parent[h]]
      OBVIOUS
    <2>5. Parent[h] \in Block
      BY <2>1, ParentIsOther
    <2>2. Parent[h] \in Lineage[h]
      <3>1. Lineage[h] = {h} \cup Lineage[Parent[h]]
        BY <2>1, LineageDef
      <3>2. Parent[h] \in Lineage[Parent[h]]
        BY <2>5, LineageHolds
      <3> QED
        BY <3>1, <3>2
    <2>3. CASE Parent[h] \in Own[c]
      BY <2>1, <2>2, <2>3
    <2>4. CASE Parent[h] \notin Own[c]
      <3>1. NextRank[c][h] > NextRank[c][Parent[h]]
        BY <2>1, <2>4
      <3>2. next_rank[c][h] = NextRank[c][h] /\ next_rank[c][Parent[h]] = NextRank[c][Parent[h]]
        BY <2>1, <2>4, <2>5 DEF IInv, RanksGrow
      <3> QED
        BY <2>1, <2>4, <3>1, <3>2
    <2> QED
      BY <2>3, <2>4
  <1>3. Held(store'[c]) \cap Own[c] \subseteq store'[c].main
    <2>1. Held(store[c]) \cap Own[c] \subseteq store[c].main
      BY DEF IInv, RanksGrow
    <2> QED
      BY <1>1, <1>2, <2>1
  <1>4. \A b \in store'[c].nb \ {Genesis} :
            /\ Parent[b] \in Own[c] => Parent[b] \in store'[c].main
            /\ next_rank[c][b] > next_rank[c][Parent[b]]
    BY <1>1, <1>2 DEF IInv, RanksGrow
  <1> QED
    BY <1>1, <1>3, <1>4 DEF IInv, RanksGrow

(* A block of this node ranks above its parent, and nothing was on it yet. *)
LEMMA MineRanks ==
    ASSUME IInv, NEW c \in Chain, NEW h \in Block \ {Genesis}, Mine(c, h)
    PROVE  RanksGrow' /\ next_rank' \in [Chain -> [Block -> Nat]]
           /\ \A d \in Chain : \A b \in store[d].main : next_rank'[d][b] = next_rank[d][b]
  <1> DEFINE rank == next_rank[c][Parent[h]]
             r == IF TrailingRank <= rank THEN rank + 1 ELSE TrailingRank
  <1>1. /\ next_rank' = [next_rank EXCEPT ![c][h] = r]
        /\ h \in Own[c] \ store[c].main /\ Parent[h] = store[c].deepest
    BY DEF Mine
  <1>2. Parent[h] \in Block /\ Parent[h] # h
    BY ParentIsOther
  <1>3. rank \in Nat /\ TrailingRank \in Nat
    BY <1>2, TrailingRankIsNat DEF IInv, TypeOK
  <1>4. r \in Nat /\ r > rank
    BY <1>3
  <1> HIDE DEF r
  <1>5. /\ next_rank'[c][h] = r
        /\ \A d \in Chain, b \in Block : d # c \/ b # h => next_rank'[d][b] = next_rank[d][b]
        /\ next_rank' \in [Chain -> [Block -> Nat]]
    BY <1>1, <1>4 DEF IInv, TypeOK
  <1>6. /\ Advances(c) /\ h \notin Held(store[c])
        /\ Held(store'[c]) = Held(store[c]) \cup {h}
        /\ store'[c].nb = store[c].nb \cup {h} /\ store'[c].main = store[c].main \cup {h}
    BY MineAdvances
  <1>7. \A d \in Chain \ {c} : store'[d] = store[d]
    BY <1>6 DEF Advances, IInv, TypeOK
  <1>8. \A d \in Chain : store[d].main \subseteq Block /\ store[d].nb \subseteq Block
    BY DEF IInv, TypeOK, Store
  <1>9. \A d \in Chain : \A b \in store[d].main : next_rank'[d][b] = next_rank[d][b]
    BY <1>1, <1>5, <1>8
  <1>10. \A d \in Chain \ {c} :
            /\ Held(store'[d]) \cap Own[d] \subseteq store'[d].main
            /\ \A b \in store'[d].nb \ {Genesis} :
                  /\ Parent[b] \in Own[d] => Parent[b] \in store'[d].main
                  /\ next_rank'[d][b] > next_rank'[d][Parent[b]]
            /\ \A b \in Block \ Own[d] : next_rank'[d][b] = NextRank[d][b]
    <2>1. \A d \in Chain \ {c} : \A b \in store[d].nb \ {Genesis} :
              next_rank'[d][b] = next_rank[d][b] /\ next_rank'[d][Parent[b]] = next_rank[d][Parent[b]]
      BY <1>5, <1>8, ParentIsOther
    <2>2. \A d \in Chain \ {c} : \A b \in Block : next_rank'[d][b] = next_rank[d][b]
      BY <1>5
    <2> QED
      BY <1>7, <2>1, <2>2 DEF IInv, RanksGrow
  <1>11. Held(store'[c]) \cap Own[c] \subseteq store'[c].main
    BY <1>6 DEF IInv, RanksGrow
  <1>12. \A b \in Block \ Own[c] : next_rank'[c][b] = NextRank[c][b]
    BY <1>1, <1>5 DEF IInv, RanksGrow
  <1>13. ASSUME NEW b \in store'[c].nb \ {Genesis}
         PROVE  /\ Parent[b] \in Own[c] => Parent[b] \in store'[c].main
                /\ next_rank'[c][b] > next_rank'[c][Parent[b]]
    <2>1. CASE b = h
      <3>1. Parent[h] \in store[c].main
        BY <1>1 DEF IInv, WellFormed, DeepestIn
      <3> QED
        BY <1>2, <1>4, <1>5, <1>6, <2>1, <3>1
    <2>2. CASE b \in store[c].nb
      <3>1. b # h
        BY <1>6, <2>2 DEF IInv, WellFormed, HeadersExactIn, Held, NodesOf
      <3>2. /\ Parent[b] \in Own[c] => Parent[b] \in store[c].main
            /\ next_rank[c][b] > next_rank[c][Parent[b]]
        BY <2>2 DEF IInv, RanksGrow
      <3>3. Parent[b] # h /\ b \in Block /\ Parent[b] \in Block
        BY <1>1, <1>8, <2>2, <3>2, ParentIsOther
      <3> QED
        BY <1>5, <1>6, <3>1, <3>2, <3>3
    <2> QED
      BY <1>6, <2>1, <2>2
  <1>14. RanksGrow'
    <2> SUFFICES ASSUME NEW d \in Chain
                 PROVE  /\ Held(store'[d]) \cap Own[d] \subseteq store'[d].main
                        /\ \A b \in store'[d].nb \ {Genesis} :
                              /\ Parent[b] \in Own[d] => Parent[b] \in store'[d].main
                              /\ next_rank'[d][b] > next_rank'[d][Parent[b]]
                        /\ \A b \in Block \ Own[d] : next_rank'[d][b] = NextRank[d][b]
      BY DEF RanksGrow
    <2>1. CASE d = c
      BY <1>11, <1>12, <1>13, <2>1
    <2>2. CASE d # c
      BY <1>10, <2>2
    <2> QED
      BY <2>1, <2>2
  <1> QED
    BY <1>5, <1>9, <1>14

-----------------------------------------------------------------------------
(* The file of hashes: one for every multiple of the frequency.            *)

(* Blocks whose depths are consecutive multiples of the frequency, one of  *)
(* each, are as many as the multiples, and InOrder lists them by depth.    *)
Spaced(B, k, n) ==
    /\ B \subseteq Block
    /\ \A i \in 1 .. n : \E b \in B : Depth[b] = (k + i - 1) * STORE_HASH_FREQ
    /\ \A b \in B : \E i \in 1 .. n : Depth[b] = (k + i - 1) * STORE_HASH_FREQ
    /\ \A a, b \in B : Depth[a] = Depth[b] => a = b

LEMMA SpacedCount ==
    ASSUME NEW B, NEW k \in Nat, NEW n \in Nat, Spaced(B, k, n)
    PROVE  Cardinality(B) = n
  <1> DEFINE d(i) == (k + i - 1) * STORE_HASH_FREQ
             f == [i \in 1 .. n |-> CHOOSE b \in B : Depth[b] = d(i)]
  <1>1. \A i \in 1 .. n : f[i] \in B /\ Depth[f[i]] = d(i)
    BY DEF Spaced
  <1>2. \A i, j \in 1 .. n : d(i) = d(j) => i = j
    <2> SUFFICES ASSUME NEW i \in 1 .. n, NEW j \in 1 .. n, i < j PROVE d(i) < d(j)
      OBVIOUS
    <2>1. k + i - 1 \in Nat /\ k + j - 1 \in Nat /\ k + i - 1 < k + j - 1
      OBVIOUS
    <2> QED
      BY <2>1, Multiples
  <1>3. \A b \in B : \E i \in 1 .. n : f[i] = b
    <2> SUFFICES ASSUME NEW b \in B PROVE \E i \in 1 .. n : f[i] = b
      OBVIOUS
    <2>1. PICK i \in 1 .. n : Depth[b] = d(i)
      BY DEF Spaced
    <2>2. f[i] \in B /\ Depth[f[i]] = Depth[b]
      BY <1>1, <2>1
    <2> QED
      BY <2>2 DEF Spaced
  <1> HIDE DEF d
  <1>4. f \in [1 .. n -> B]
    BY <1>1
  <1> HIDE DEF f
  <1>5. \A i, j \in 1 .. n : f[i] = f[j] => i = j
    BY <1>1, <1>2
  <1>6. f \in Bijection(1 .. n, B)
    BY <1>3, <1>4, <1>5 DEF Bijection, Injection, Surjection, IsInjective
  <1>7. ExistsBijection(1 .. n, B)
    BY <1>6 DEF ExistsBijection
  <1> QED
    BY <1>7, FS_CountingElements

LEMMA SpacedInOrder ==
    ASSUME NEW B, NEW k \in Nat, NEW n \in Nat, Spaced(B, k, n)
    PROVE  /\ InOrder(B) \in Seq(B) /\ Len(InOrder(B)) = n
           /\ \A i \in 1 .. n : /\ InOrder(B)[i] \in B
                                /\ Depth[InOrder(B)[i]] = (k + i - 1) * STORE_HASH_FREQ
  <1> DEFINE d(i) == (k + i - 1) * STORE_HASH_FREQ
             below(b) == {a \in B : Depth[a] < Depth[b]}
  <1>1. \A i, j \in 1 .. n : i < j <=> d(i) < d(j)
    <2> SUFFICES ASSUME NEW i \in 1 .. n, NEW j \in 1 .. n PROVE i < j <=> d(i) < d(j)
      OBVIOUS
    <2>1. k + i - 1 \in Nat /\ k + j - 1 \in Nat /\ (i < j <=> k + i - 1 < k + j - 1)
      OBVIOUS
    <2> QED
      BY <2>1, Multiples
  <1> HIDE DEF d
  <1>2. ASSUME NEW b \in B, NEW i \in 1 .. n, Depth[b] = d(i)
        PROVE  Cardinality(below(b)) = i - 1
    <2>1. \A j \in 1 .. i - 1 : j \in 1 .. n /\ j < i
      OBVIOUS
    <2>2. \A j \in 1 .. i - 1 : \E a \in below(b) : Depth[a] = d(j)
      <3> SUFFICES ASSUME NEW j \in 1 .. i - 1 PROVE \E a \in below(b) : Depth[a] = d(j)
        OBVIOUS
      <3>1. PICK a \in B : Depth[a] = d(j)
        BY <2>1 DEF Spaced, d
      <3> QED
        BY <1>1, <1>2, <2>1, <3>1
    <2>3. \A a \in below(b) : \E j \in 1 .. i - 1 : Depth[a] = d(j)
      <3> SUFFICES ASSUME NEW a \in below(b) PROVE \E j \in 1 .. i - 1 : Depth[a] = d(j)
        OBVIOUS
      <3>1. PICK j \in 1 .. n : Depth[a] = d(j)
        BY DEF Spaced, d
      <3>2. j < i
        BY <1>1, <1>2, <3>1
      <3> QED
        BY <3>1, <3>2
    <2>4. Spaced(below(b), k, i - 1)
      BY <2>2, <2>3 DEF Spaced, d
    <2>5. i - 1 \in Nat
      OBVIOUS
    <2> HIDE DEF below
    <2> QED
      BY <2>4, <2>5, SpacedCount
  <1>3. ASSUME NEW i \in 1 .. n
        PROVE  LET b == CHOOSE b \in B : Cardinality(below(b)) = i - 1
               IN  b \in B /\ Depth[b] = d(i)
    <2> DEFINE c == CHOOSE b \in B : Cardinality(below(b)) = i - 1
    <2>1. PICK b \in B : Depth[b] = d(i)
      BY DEF Spaced, d
    <2>2. Cardinality(below(b)) = i - 1
      BY <1>2, <2>1
    <2> HIDE DEF below
    <2>3. c \in B /\ Cardinality(below(c)) = i - 1
      BY <2>2
    <2> HIDE DEF c
    <2>4. PICK j \in 1 .. n : Depth[c] = d(j)
      BY <2>3 DEF Spaced, d
    <2>5. Cardinality(below(c)) = j - 1
      BY <1>2, <2>3, <2>4
    <2>7. i = j
      BY <2>3, <2>5
    <2>6. Depth[c] = d(i)
      BY <2>4, <2>7
    <2> QED
      BY <2>3, <2>6 DEF c
  <1>4. Cardinality(B) = n
    BY SpacedCount
  <1>5. InOrder(B) = [i \in 1 .. n |-> CHOOSE b \in B : Cardinality(below(b)) = i - 1]
    BY <1>4 DEF InOrder
  <1> HIDE DEF below
  <1>6. \A i \in 1 .. n : InOrder(B)[i] \in B /\ Depth[InOrder(B)[i]] = d(i)
    BY <1>3, <1>5
  <1>7. InOrder(B) \in [1 .. n -> B]
    BY <1>5, <1>6
  <1>8. InOrder(B) \in Seq(B) /\ Len(InOrder(B)) = n
    BY <1>7
  <1> QED
    BY <1>6, <1>8 DEF d

(* What may be stored is a lineage; what is written next are the multiples *)
(* of the frequency between the last depth stored and its own.             *)
LEMMA StoredIsLineage ==
    ASSUME IInv, NEW top \in MaxDepth(Stored)
    PROVE  /\ top \in Block /\ Stored = Lineage[top] /\ logged <= Depth[top] + 1
           /\ Depth[top] = 0 \/ Depth[top] + STORE_HASH_MINUS = Depth[store[First].deepest]
           /\ \A b \in Stored : b = Genesis \/ HasOnTop(First, b, STORE_HASH_MINUS)
  <1>1. WellFormed(store[First]) /\ store[First].deepest \in Block
    BY DEF IInv, TypeOK, Store
  <1>2. Depth[store[First].deepest] \in Nat /\ logged \in Nat
    BY <1>1 DEF IInv, TypeOK
  <1>3. CASE Buried(First, STORE_HASH_MINUS) = {}
    <2>1. Stored = {Genesis} /\ top = Genesis
      BY <1>3 DEF Stored, MaxDepth
    <2>2. Lineage[Genesis] = {Genesis}
      BY LineageDef
    <2>3. ~(Depth[store[First].deepest] >= STORE_HASH_MINUS)
      <3>1. Genesis \in Lineage[store[First].deepest]
        BY <1>1, LineageHolds
      <3> QED
        BY <1>2, <1>3, <3>1 DEF Buried
    <2>4. logged <= 1
      BY <1>2, <2>3 DEF IInv, LoggedReached
    <2> QED
      BY <1>2, <2>1, <2>2, <2>4
  <1>4. CASE Buried(First, STORE_HASH_MINUS) # {}
    <2>1. Stored = Buried(First, STORE_HASH_MINUS)
      BY <1>4 DEF Stored
    <2>2. /\ Depth[top] + STORE_HASH_MINUS = Depth[store[First].deepest]
          /\ top \in Stored /\ Stored = Lineage[top]
      BY <1>1, <1>4, <2>1, BuriedIsLineage
    <2>3. \A b \in Stored : b \in Block /\ HasOnTop(First, b, STORE_HASH_MINUS)
      BY <1>1, <2>1, BuriedHolds
    <2>4. top \in Block /\ Depth[top] \in Nat
      BY <2>2, <2>3
    <2>5. logged <= Depth[top] + 1
      BY <1>2, <2>2, <2>4 DEF IInv, LoggedReached
    <2> QED
      BY <2>2, <2>3, <2>4, <2>5
  <1> QED
    BY <1>3, <1>4

(* How many multiples of the frequency are below logged.                   *)
Passed == IF logged = 0 THEN 0 ELSE 1 + ((logged - 1) \div STORE_HASH_FREQ)

LEMMA UnstoredIsSpaced ==
    ASSUME IInv, NEW top \in MaxDepth(Stored)
    PROVE  /\ Passed \in Nat
           /\ \E n \in Nat : /\ Spaced(Unstored, Passed, n)
                            /\ Passed + n = 1 + Depth[top] \div STORE_HASH_FREQ
  <1> DEFINE f == STORE_HASH_FREQ
             k == Passed
             q == Depth[top] \div f
             n == 1 + q - k
  <1>1. top \in Block /\ Stored = Lineage[top] /\ logged <= Depth[top] + 1
    BY StoredIsLineage
  <1>2. Lineage[top] \subseteq Block /\ Depth[top] \in Nat /\ logged \in Nat /\ k \in Nat
    <2>1. f \in Nat \ {0}
      OBVIOUS
    <2>2. logged \in Nat /\ (logged # 0 => logged - 1 \in Nat)
      BY DEF IInv, TypeOK
    <2>4. logged # 0 => (logged - 1) \div f \in Nat
      BY <2>1, <2>2, Multiples
    <2>3. k \in Nat
      BY <2>2, <2>4 DEF Passed
    <2> QED
      BY <1>1, <2>2, <2>3, LineageHolds
  <1>3. f \in Nat \ {0}
    OBVIOUS
  <1>4. q \in Nat
    BY <1>2, <1>3, Multiples
  <1>5. ASSUME NEW m \in Nat
        PROVE  m * f \in Nat /\ (m * f) % f = 0 /\ (m * f <= Depth[top] <=> m <= q)
    <2>1. (m * f) % f = 0
      BY <1>3, MultipleMod, Zenon
    <2>2. m * f <= Depth[top] <=> m <= Depth[top] \div f
      BY <1>2, <1>3, Multiples
    <2>3. m * f \in Nat
      BY <1>3
    <2> QED
      BY <2>1, <2>2, <2>3
  <1>6. k <= 1 + q /\ \A m \in Nat : m * f >= logged <=> m >= k
    <2>1. CASE logged = 0
      <3>1. k = 0
        BY <2>1 DEF Passed
      <3> QED
        BY <1>4, <1>5, <2>1, <3>1
    <2>2. CASE logged # 0
      <3>1. logged - 1 \in Nat /\ k = 1 + ((logged - 1) \div f)
        BY <1>2, <2>2 DEF Passed
      <3>2. (logged - 1) \div f \in Nat
        BY <1>3, <3>1, Multiples
      <3>3. \A m \in Nat : m * f <= logged - 1 <=> m <= (logged - 1) \div f
        BY <1>3, <3>1, Multiples
      <3>4. ASSUME NEW m \in Nat PROVE m * f >= logged <=> m >= k
        <4>1. m * f \in Nat /\ (m * f <= logged - 1 <=> m <= (logged - 1) \div f)
          BY <1>5, <3>3
        <4>2. m * f >= logged <=> ~(m * f <= logged - 1)
          BY <1>2, <4>1
        <4>3. m >= k <=> ~(m <= (logged - 1) \div f)
          BY <3>1, <3>2
        <4> QED
          BY <4>1, <4>2, <4>3
      <3>5. ((logged - 1) \div f) * f <= logged - 1
        BY <3>2, <3>3
      <3>6. ((logged - 1) \div f) * f <= Depth[top]
        BY <1>1, <1>2, <1>5, <3>1, <3>2, <3>5
      <3>7. (logged - 1) \div f <= q
        BY <1>5, <3>2, <3>6
      <3> QED
        BY <1>4, <3>1, <3>2, <3>4, <3>7
    <2> QED
      BY <2>1, <2>2
  <1>7. n \in Nat
    BY <1>2, <1>4, <1>6
  <1>8. ASSUME NEW b \in Lineage[top] PROVE Depth[b] \in Nat /\ Depth[b] <= Depth[top]
    <2>1. b \in Block /\ (Depth[b] < Depth[top] \/ b = top)
      BY <1>1, LineageHolds
    <2> QED
      BY <1>2, <2>1
  <1>9. \A b \in Unstored : /\ b \in Lineage[top] /\ Depth[b] >= logged /\ Depth[b] % f = 0
    BY <1>1 DEF Unstored
  <1>10. ASSUME NEW i \in 1 .. n PROVE \E b \in Unstored : Depth[b] = (k + i - 1) * f
    <2> DEFINE m == k + i - 1
    <2>1. m \in Nat /\ m >= k /\ m <= q
      BY <1>2, <1>4, <1>7
    <2> HIDE DEF m
    <2>5. m * f \in Nat /\ (m * f) % f = 0 /\ m * f <= Depth[top]
      BY <1>5, <2>1
    <2>6. m * f >= logged
      BY <1>6, <2>1
    <2>2. m * f \in 0 .. Depth[top] /\ m * f >= logged /\ (m * f) % f = 0
      BY <1>2, <2>5, <2>6
    <2>3. PICK b \in Lineage[top] : Depth[b] = m * f
      BY <1>1, <2>2, LineageIsGapless
    <2>4. b \in Unstored
      BY <1>1, <2>2, <2>3 DEF Unstored
    <2> QED
      BY <2>3, <2>4 DEF m
  <1>11. ASSUME NEW b \in Unstored PROVE \E i \in 1 .. n : Depth[b] = (k + i - 1) * f
    <2>1. Depth[b] \in Nat /\ Depth[b] <= Depth[top] /\ Depth[b] >= logged /\ Depth[b] % f = 0
      BY <1>8, <1>9
    <2>2. PICK m \in Nat : Depth[b] = m * f
      BY <1>3, <2>1, Multiples
    <2>3. m <= q /\ m >= k
      BY <1>5, <1>6, <2>1, <2>2
    <2>4. m - k + 1 \in 1 .. n /\ k + (m - k + 1) - 1 = m
      BY <1>2, <1>4, <2>3
    <2> QED
      BY <2>2, <2>4
  <1>12. ASSUME NEW a \in Unstored, NEW b \in Unstored, Depth[a] = Depth[b] PROVE a = b
    <2>1. a \in Lineage[top] /\ b \in Lineage[top] /\ Depth[a] <= Depth[b] /\ b \in Block
      BY <1>2, <1>8, <1>9, <1>12
    <2>2. a \in Lineage[b]
      BY <1>1, <2>1, LineageIsChain
    <2>3. Depth[a] < Depth[b] \/ a = b
      BY <2>1, <2>2, LineageHolds
    <2> QED
      BY <1>8, <1>9, <1>12, <2>3
  <1>13. Unstored \subseteq Block
    BY <1>2, <1>9
  <1>14. Spaced(Unstored, k, n)
    BY <1>10, <1>11, <1>12, <1>13 DEF Spaced
  <1>15. k + n = 1 + q
    BY <1>2, <1>4
  <1> HIDE DEF n
  <1> QED
    BY <1>2, <1>7, <1>14, <1>15

(* However much of it the file takes, a write accounts for every multiple  *)
(* of the frequency from logged down to the top of what may be stored.     *)
LEMMA WriteCoversDepths ==
    ASSUME IInv, NEW top \in MaxDepth(Stored)
    PROVE  LET new == InOrder(Unstored)
           IN  /\ new \in Seq(Unstored) /\ Unstored \subseteq Stored /\ Unstored \subseteq Block
               /\ \A i, j \in 1 .. Len(new) : i < j => Depth[new[i]] < Depth[new[j]]
               /\ \A i \in 1 .. Len(new) :
                     /\ Depth[new[i]] \in logged .. Depth[top]
                     /\ Depth[new[i]] % STORE_HASH_FREQ = 0
               /\ \A d \in logged .. Depth[top] :
                     d % STORE_HASH_FREQ = 0 => \E i \in 1 .. Len(new) : Depth[new[i]] = d
  <1> DEFINE new == InOrder(Unstored)
             f == STORE_HASH_FREQ
             k == Passed
  <1>1. PICK n \in Nat : Spaced(Unstored, k, n)
    BY UnstoredIsSpaced
  <1>2. k \in Nat /\ f \in Nat \ {0}
    BY UnstoredIsSpaced
  <1>3. /\ new \in Seq(Unstored) /\ Len(new) = n
        /\ \A i \in 1 .. n : new[i] \in Unstored /\ Depth[new[i]] = (k + i - 1) * f
    BY <1>1, <1>2, SpacedInOrder
  <1>4. /\ top \in Block /\ Stored = Lineage[top] /\ Depth[top] \in Nat /\ logged \in Nat
    BY StoredIsLineage DEF IInv, TypeOK
  <1>5. Unstored \subseteq Stored /\ Unstored \subseteq Block
    BY <1>1 DEF Unstored, Spaced
  <1> HIDE DEF new
  <1>6. ASSUME NEW i \in 1 .. n, NEW j \in 1 .. n, i < j PROVE Depth[new[i]] < Depth[new[j]]
    <2>1. k + i - 1 \in Nat /\ k + j - 1 \in Nat /\ k + i - 1 < k + j - 1
      BY <1>2, <1>6
    <2>2. (k + i - 1) * f < (k + j - 1) * f
      BY <1>2, <2>1, Multiples
    <2> QED
      BY <1>3, <2>2
  <1>7. ASSUME NEW b \in Unstored
        PROVE  Depth[b] \in logged .. Depth[top] /\ Depth[b] % f = 0
    <2>1. b \in Lineage[top] /\ b \in Block /\ Depth[b] >= logged /\ Depth[b] % f = 0
      BY <1>4, <1>5 DEF Unstored
    <2>2. Depth[b] < Depth[top] \/ b = top
      BY <1>4, <2>1, LineageHolds
    <2> QED
      BY <1>4, <2>1, <2>2
  <1>8. ASSUME NEW d \in logged .. Depth[top], d % f = 0
        PROVE  \E i \in 1 .. n : Depth[new[i]] = d
    <2>1. d \in 0 .. Depth[top]
      BY <1>4
    <2>2. PICK b \in Lineage[top] : Depth[b] = d
      BY <1>4, <2>1, LineageIsGapless
    <2>3. b \in Unstored
      BY <1>4, <1>8, <2>2 DEF Unstored
    <2>4. PICK i \in 1 .. n : Depth[b] = (k + i - 1) * f
      BY <1>1, <2>3 DEF Spaced
    <2> QED
      BY <1>3, <2>2, <2>4
  <1> QED
    BY <1>3, <1>5, <1>6, <1>7, <1>8 DEF new

LEMMA StoreHashesPreserves ==
    ASSUME IInv, StoreHashes
    PROVE  IInv'
  <1> DEFINE new == InOrder(Unstored)
             Written == {Depth[log[i]] : i \in DOMAIN log}
             Multiple(D) == {d \in D : d % STORE_HASH_FREQ = 0}
  <1>0. UNCHANGED <<store, next_rank, early, partial, committed>>
    BY DEF StoreHashes, marks
  <1>1. PICK n \in 0 .. Len(new), top \in MaxDepth(Stored) :
            /\ log' = log \o SubSeq(new, 1, n)
            /\ missed' = missed \cup {Depth[new[i]] : i \in n + 1 .. Len(new)}
            /\ logged' = Depth[top] + 1
    BY DEF StoreHashes
  <1>2. /\ top \in Block /\ Stored = Lineage[top] /\ Depth[top] \in Nat
        /\ logged <= Depth[top] + 1
        /\ Depth[top] = 0 \/ Depth[top] + STORE_HASH_MINUS = Depth[store[First].deepest]
        /\ \A b \in Stored : b = Genesis \/ HasOnTop(First, b, STORE_HASH_MINUS)
    BY StoredIsLineage
  <1>3. /\ new \in Seq(Unstored) /\ Unstored \subseteq Stored /\ Unstored \subseteq Block
        /\ \A i, j \in 1 .. Len(new) : i < j => Depth[new[i]] < Depth[new[j]]
        /\ \A i \in 1 .. Len(new) : /\ Depth[new[i]] \in logged .. Depth[top]
                                    /\ Depth[new[i]] % STORE_HASH_FREQ = 0
        /\ \A d \in logged .. Depth[top] :
              d % STORE_HASH_FREQ = 0 => \E i \in 1 .. Len(new) : Depth[new[i]] = d
    BY WriteCoversDepths
  <1>4. /\ log \in Seq(Block) /\ Len(log) \in Nat /\ logged \in Nat /\ missed \subseteq Nat
        /\ Len(new) \in Nat /\ n \in Nat /\ n <= Len(new)
    BY <1>3 DEF IInv, TypeOK
  <1>5. /\ \A i, j \in DOMAIN log : i < j => Depth[log[i]] < Depth[log[j]]
        /\ Written \cup missed = Multiple(0 .. logged - 1)
        /\ Written \cap missed = {}
        /\ \A i \in DOMAIN log : log[i] = Genesis \/ HasOnTop(First, log[i], STORE_HASH_MINUS)
    BY DEF IInv, GapsAreFailures
  <1> HIDE DEF new
  <1>6. /\ log' \in Seq(Block) /\ Len(log') = Len(log) + n
        /\ \A i \in 1 .. Len(log) : log'[i] = log[i]
        /\ \A i \in Len(log) + 1 .. Len(log) + n :
              i - Len(log) \in 1 .. n /\ log'[i] = new[i - Len(log)]
    <2>1. new \in Seq(Block)
      BY <1>3
    <2>2. SubSeq(new, 1, n) \in Seq(Block) /\ Len(SubSeq(new, 1, n)) = n
          /\ \A i \in 1 .. n : SubSeq(new, 1, n)[i] = new[i]
      BY <1>4, <2>1
    <2> QED
      BY <1>1, <1>4, <2>2
  <1>7. DOMAIN log = 1 .. Len(log) /\ DOMAIN log' = 1 .. Len(log) + n
    BY <1>4, <1>6
  <1>8. TypeOK'
    <2>1. \A i \in n + 1 .. Len(new) : Depth[new[i]] \in Nat
      BY <1>3, <1>4
    <2>2. missed' \subseteq Nat
      BY <1>1, <1>4, <2>1
    <2> QED
      BY <1>0, <1>1, <1>2, <1>6, <2>2 DEF IInv, TypeOK
  <1>9. LoggedReached'
    BY <1>0, <1>1, <1>2 DEF LoggedReached
  <1>10. \A i \in DOMAIN log : Depth[log[i]] \in Nat /\ Depth[log[i]] < logged
    BY <1>4, <1>5
  <1>11. \A i, j \in DOMAIN log' : i < j => Depth[log'[i]] < Depth[log'[j]]
    <2> SUFFICES ASSUME NEW i \in 1 .. Len(log) + n, NEW j \in 1 .. Len(log) + n, i < j
                 PROVE  Depth[log'[i]] < Depth[log'[j]]
      BY <1>7
    <2>1. CASE j \in 1 .. Len(log)
      <3>1. i \in DOMAIN log /\ j \in DOMAIN log
        BY <1>4, <1>7, <2>1
      <3> QED
        BY <1>5, <1>6, <1>7, <3>1
    <2>2. CASE i \in 1 .. Len(log) /\ j \notin 1 .. Len(log)
      <3>5. j \in Len(log) + 1 .. Len(log) + n
        BY <1>4, <2>2
      <3>1. j - Len(log) \in 1 .. n /\ log'[j] = new[j - Len(log)]
        BY <1>6, <3>5
      <3>4. j - Len(log) \in 1 .. Len(new)
        BY <1>4, <3>1
      <3>2. Depth[log'[j]] \in logged .. Depth[top]
        BY <1>3, <3>1, <3>4
      <3>3. Depth[log'[i]] \in Nat /\ Depth[log'[i]] < logged
        BY <1>6, <1>7, <1>10, <2>2
      <3> QED
        BY <1>2, <1>4, <3>2, <3>3
    <2>3. CASE i \notin 1 .. Len(log)
      <3>1. /\ i \in Len(log) + 1 .. Len(log) + n /\ j \in Len(log) + 1 .. Len(log) + n
            /\ i - Len(log) < j - Len(log)
        BY <1>4, <2>3
      <3>2. log'[i] = new[i - Len(log)] /\ log'[j] = new[j - Len(log)]
        BY <1>6, <3>1
      <3>3. i - Len(log) \in 1 .. Len(new) /\ j - Len(log) \in 1 .. Len(new)
        BY <1>4, <3>1
      <3> QED
        BY <1>3, <3>1, <3>2, <3>3
    <2> QED
      BY <2>1, <2>2, <2>3
  <1>12. Written' = Written \cup {Depth[new[i]] : i \in 1 .. n}
    <2>1. ASSUME NEW d \in Written' PROVE d \in Written \cup {Depth[new[i]] : i \in 1 .. n}
      <3>1. PICK i \in DOMAIN log' : d = Depth[log'[i]]
        OBVIOUS
      <3>2. CASE i \in 1 .. Len(log)
        BY <1>6, <1>7, <3>1, <3>2
      <3>3. CASE i \notin 1 .. Len(log)
        <4>1. i \in Len(log) + 1 .. Len(log) + n
          BY <1>4, <1>7, <3>3
        <4>2. i - Len(log) \in 1 .. n /\ log'[i] = new[i - Len(log)]
          BY <1>6, <4>1
        <4> QED
          BY <3>1, <4>2
      <3> QED
        BY <3>2, <3>3
    <2>2. ASSUME NEW i \in DOMAIN log PROVE Depth[log[i]] \in Written'
      <3>1. i \in DOMAIN log' /\ log'[i] = log[i]
        BY <1>4, <1>6, <1>7
      <3> QED
        BY <3>1
    <2>3. ASSUME NEW i \in 1 .. n PROVE Depth[new[i]] \in Written'
      <3>1. Len(log) + i \in Len(log) + 1 .. Len(log) + n /\ (Len(log) + i) - Len(log) = i
        BY <1>4
      <3> DEFINE j == Len(log) + i
      <3>2. j \in Len(log) + 1 .. Len(log) + n /\ j - Len(log) = i /\ j \in 1 .. Len(log) + n
        BY <1>4, <3>1
      <3> HIDE DEF j
      <3>3. log'[j] = new[i] /\ j \in DOMAIN log'
        BY <1>6, <1>7, <3>2
      <3> QED
        BY <3>3
    <2>4. Written \subseteq Written' /\ {Depth[new[i]] : i \in 1 .. n} \subseteq Written'
      <3>1. \A i \in DOMAIN log : Depth[log[i]] \in Written'
        BY <2>2
      <3>2. \A i \in 1 .. n : Depth[new[i]] \in Written'
        BY <2>3
      <3> HIDE DEF new
      <3>3. Written \subseteq Written'
        BY <3>1 DEF Written
      <3>4. {Depth[new[i]] : i \in 1 .. n} \subseteq Written'
        BY <3>2
      <3> QED
        BY <3>3, <3>4
    <2> QED
      BY <2>1, <2>4
  <1> DEFINE NewW == {Depth[new[i]] : i \in 1 .. n}
             NewM == {Depth[new[i]] : i \in n + 1 .. Len(new)}
  <1>13. NewW \cup NewM = Multiple(logged .. Depth[top]) /\ NewW \cap NewM = {}
    <2>1. NewW \cup NewM = {Depth[new[i]] : i \in 1 .. Len(new)}
      <3>1. 1 .. Len(new) = (1 .. n) \cup (n + 1 .. Len(new))
        BY <1>4
      <3> QED
        BY <3>1
    <2>2. {Depth[new[i]] : i \in 1 .. Len(new)} = Multiple(logged .. Depth[top])
      BY <1>3
    <2>3. ASSUME NEW i \in 1 .. n, NEW j \in n + 1 .. Len(new) PROVE Depth[new[i]] # Depth[new[j]]
      <3>1. i \in 1 .. Len(new) /\ j \in 1 .. Len(new) /\ i < j
        BY <1>4
      <3>2. /\ Depth[new[i]] < Depth[new[j]]
            /\ Depth[new[i]] \in logged .. Depth[top] /\ Depth[new[j]] \in logged .. Depth[top]
        BY <1>3, <3>1
      <3> QED
        BY <1>2, <1>4, <3>2
    <2> QED
      BY <2>1, <2>2, <2>3
  <1>14. /\ 0 .. logged' - 1 = (0 .. logged - 1) \cup (logged .. Depth[top])
         /\ (0 .. logged - 1) \cap (logged .. Depth[top]) = {}
    BY <1>1, <1>2, <1>4
  <1> HIDE DEF Written, NewW, NewM
  <1>15. missed' = missed \cup NewM /\ Written' = Written \cup NewW
    BY <1>1, <1>12 DEF NewW, NewM
  <1>16. /\ Written' \cup missed' = Multiple(0 .. logged' - 1)
         /\ Written' \cap missed' = {}
    BY <1>5, <1>13, <1>14, <1>15
  <1>17. \A i \in DOMAIN log' : log'[i] = Genesis \/ HasOnTop(First, log[i], STORE_HASH_MINUS)'
    <2>0. ASSUME NEW b, b = Genesis \/ HasOnTop(First, b, STORE_HASH_MINUS)
          PROVE  b = Genesis \/ \E d \in store'[First].main :
                                   b \in Lineage[d] /\ Depth[d] = Depth[b] + STORE_HASH_MINUS
      BY <1>0, <2>0 DEF HasOnTop
    <2>1. ASSUME NEW i \in 1 .. Len(log) + n
          PROVE  log'[i] = Genesis \/ HasOnTop(First, log'[i], STORE_HASH_MINUS)
      <3>1. CASE i \in 1 .. Len(log)
        BY <1>5, <1>6, <1>7, <3>1
      <3>2. CASE i \notin 1 .. Len(log)
        <4>1. i - Len(log) \in 1 .. n /\ log'[i] = new[i - Len(log)]
          BY <1>4, <1>6, <3>2
        <4>2. i - Len(log) \in 1 .. Len(new)
          BY <1>4, <4>1
        <4>3. log'[i] \in Stored
          BY <1>3, <4>1, <4>2
        <4> QED
          BY <1>2, <4>3
      <3> QED
        BY <3>1, <3>2
    <2> QED
      BY <1>7, <2>0, <2>1 DEF HasOnTop
  <1>18. GapsAreFailures'
    <2>1. /\ Written' \cup missed' = {d \in 0 .. logged' - 1 : d % STORE_HASH_FREQ = 0}
          /\ Written' = {Depth[log'[i]] : i \in DOMAIN log'}
      BY <1>16 DEF Written
    <2> QED
      BY <1>11, <1>16, <1>17, <2>1 DEF GapsAreFailures
  <1>19. RanksGrow' /\ CommittedIsBuried' /\ (\A c \in Chain : WellFormed(store[c]))'
    BY <1>0 DEF IInv, RanksGrow, CommittedIsBuried, HasOnTop
  <1> QED
    BY <1>8, <1>9, <1>18, <1>19 DEF IInv

(* What is marked is buried, with all its ancestors but those whose time   *)
(* has not come.                                                           *)
LEMMA UpdatePreserves ==
    ASSUME IInv, Update
    PROVE  /\ IInv'
           /\ \A c \in Chain : \A b \in committed'[c] \ committed[c] :
                 Lineage[b] \subseteq committed'[c] \cup early[c]
  <1>0. /\ UNCHANGED <<store, next_rank, early, log, missed, logged>>
        /\ \A c \in Chain : /\ partial'[c] = partial[c] \cup Ripe(c)
                            /\ committed'[c] = committed[c] \cup Final(c)
    BY DEF Update, file
  <1>1. \A c \in Chain : WellFormed(store[c])
    BY DEF IInv
  <1>2. \A c \in Chain : \A b \in Buried(c, T_DISCARD) :
            /\ b \in Block /\ b \in store[c].main /\ HasOnTop(c, b, T_DISCARD)
            /\ Depth[store[c].deepest] >= T_DISCARD
            /\ Lineage[b] \subseteq Buried(c, T_DISCARD)
    BY <1>1, BuriedHolds
  <1>3. \A c \in Chain : \A b \in Final(c) :
            /\ AllLongEnough /\ b \in Buried(c, T_DISCARD)
            /\ Final(c) = Ripe(c) /\ Ripe(c) = Buried(c, T_DISCARD) \ early[c]
    BY DEF Final, Ripe
  <1>4. AllLongEnough => \A c \in Chain : Depth[store[c].deepest] >= T_DISCARD
    BY <1>2 DEF AllLongEnough
  <1>5. TypeOK'
    <2>1. \A c \in Chain : Ripe(c) \subseteq Block /\ Final(c) \subseteq Block
      BY <1>2, <1>3 DEF Ripe
    <2>2. partial' \in [Chain -> SUBSET Block] /\ committed' \in [Chain -> SUBSET Block]
      BY <2>1 DEF Update, IInv, TypeOK
    <2> QED
      BY <1>0, <2>2 DEF IInv, TypeOK
  <1>6. CommittedIsBuried'
    <2> SUFFICES ASSUME NEW c \in Chain, NEW b \in committed'[c]
                 PROVE  /\ b \in partial'[c] \cap store[c].main
                        /\ b # Genesis => /\ HasOnTop(c, b, T_DISCARD)
                                          /\ \A d \in Chain : Depth[store[d].deepest] >= T_DISCARD
      BY <1>0 DEF CommittedIsBuried, HasOnTop
    <2>1. CASE b \in committed[c]
      BY <1>0, <2>1 DEF IInv, CommittedIsBuried
    <2>2. CASE b \in Final(c)
      BY <1>0, <1>2, <1>3, <1>4, <2>2
    <2> QED
      BY <1>0, <2>1, <2>2
  <1>7. LoggedReached' /\ GapsAreFailures' /\ RanksGrow' /\ (\A c \in Chain : WellFormed(store[c]))'
    BY <1>0 DEF IInv, RanksGrow, LoggedReached, GapsAreFailures, HasOnTop
  <1>8. IInv'
    BY <1>5, <1>6, <1>7 DEF IInv
  <1>9. ASSUME NEW c \in Chain, NEW b \in committed'[c] \ committed[c]
        PROVE  Lineage[b] \subseteq committed'[c] \cup early[c]
    <2>1. b \in Final(c)
      BY <1>0, <1>9
    <2> QED
      BY <1>0, <1>2, <1>3, <2>1
  <1> QED
    BY <1>8, <1>9

LEMMA NextPreserves ==
    ASSUME IInv, [Next]_vars
    PROVE  IInv'
  <1>1. CASE UNCHANGED vars
    BY <1>1 DEF vars, marks, file, IInv, TypeOK, RanksGrow, LoggedReached, CommittedIsBuried,
                GapsAreFailures, HasOnTop
  <1>2. ASSUME NEW c \in Chain, NEW h \in Block \ {Genesis}, Receive(c, h) PROVE IInv'
    <2>1. /\ Advances(c)
          /\ Held(store'[c]) \subseteq Held(store[c]) \cup {h, Parent[h]}
          /\ store'[c].nb \subseteq store[c].nb \cup {h}
          /\ UNCHANGED <<next_rank, early, partial, committed, log, missed, logged>>
      BY <1>2, ReceiveAdvances
    <2>2. /\ h \in InChain[c] /\ Lineage[h] \cap Own[c] \subseteq store[c].main
          /\ Parent[h] \in Own[c] => next_rank[c][h] > next_rank[c][Parent[h]]
      BY <1>2 DEF Receive
    <2>3. Held(store'[c]) \subseteq Held(store[c]) \cup {h} \cup {Parent[b] : b \in {h}}
      BY <2>1
    <2>4. RanksGrow'
      BY <2>1, <2>2, <2>3, RanksKeep
    <2>5. /\ store' \in [Chain -> Store] /\ (\A d \in Chain : WellFormed(store[d]))'
          /\ LoggedReached' /\ CommittedIsBuried' /\ GapsAreFailures'
      BY <2>1, AdvancesKeep
    <2>6. TypeOK'
      BY <2>1, <2>5 DEF IInv, TypeOK
    <2> QED
      BY <2>4, <2>5, <2>6 DEF IInv
  <1>3. ASSUME NEW c \in Chain, NEW h \in Block \ {Genesis}, Mine(c, h) PROVE IInv'
    <2>1. Advances(c) /\ UNCHANGED <<early, partial, committed, log, missed, logged>>
      BY <1>3, MineAdvances
    <2>2. RanksGrow' /\ next_rank' \in [Chain -> [Block -> Nat]]
      BY <1>3, MineRanks
    <2>3. /\ store' \in [Chain -> Store] /\ (\A d \in Chain : WellFormed(store[d]))'
          /\ LoggedReached' /\ CommittedIsBuried' /\ GapsAreFailures'
      BY <2>1, AdvancesKeep
    <2>4. TypeOK'
      BY <2>1, <2>2, <2>3 DEF IInv, TypeOK
    <2> QED
      BY <2>2, <2>3, <2>4 DEF IInv
  <1>4. ASSUME NEW c \in Chain, NEW due \in SUBSET store[c].inc, Ask(c, due) PROVE IInv'
    <2>1. /\ Advances(c)
          /\ Held(store'[c]) \subseteq Held(store[c])
          /\ store'[c].nb \subseteq store[c].nb
          /\ UNCHANGED <<next_rank, early, partial, committed, log, missed, logged>>
      BY <1>4, AskAdvances
    <2>2. RanksGrow'
      <3> DEFINE none == {}
      <3>1. none = {} /\ store'[c].nb \subseteq store[c].nb \cup none
            /\ Held(store'[c]) \subseteq Held(store[c]) \cup none \cup {Parent[b] : b \in none}
        BY <2>1
      <3> HIDE DEF none
      <3> QED
        BY <2>1, <3>1, RanksKeep
    <2>3. /\ store' \in [Chain -> Store] /\ (\A d \in Chain : WellFormed(store[d]))'
          /\ LoggedReached' /\ CommittedIsBuried' /\ GapsAreFailures'
      BY <2>1, AdvancesKeep
    <2>4. TypeOK'
      BY <2>1, <2>3 DEF IInv, TypeOK
    <2> QED
      BY <2>2, <2>3, <2>4 DEF IInv
  <1>5. ASSUME NEW c \in Chain, NEW h \in Block \ {Genesis}, TimePasses(c, h) PROVE IInv'
    <2>1. /\ UNCHANGED <<store, next_rank, partial, committed, log, missed, logged>>
          /\ early' \in [Chain -> SUBSET Block]
      BY <1>5 DEF TimePasses, marks, file, IInv, TypeOK
    <2>2. TypeOK'
      BY <2>1 DEF IInv, TypeOK
    <2>3. (\A d \in Chain : WellFormed(store[d]))' /\ RanksGrow' /\ LoggedReached'
      BY <2>1 DEF IInv, RanksGrow, LoggedReached
    <2>4. CommittedIsBuried' /\ GapsAreFailures'
      BY <2>1 DEF IInv, CommittedIsBuried, GapsAreFailures, HasOnTop
    <2> QED
      BY <2>2, <2>3, <2>4 DEF IInv
  <1>6. CASE Update
    BY <1>6, UpdatePreserves
  <1>7. CASE StoreHashes
    BY <1>7, StoreHashesPreserves
  <1> QED
    BY <1>1, <1>2, <1>3, <1>4, <1>5, <1>6, <1>7 DEF Next

LEMMA InitEstablishes == Init => IInv
  <1> SUFFICES ASSUME Init PROVE IInv
    OBVIOUS
  <1>1. /\ \A c \in Chain : store[c] = EmptyStore
        /\ WellFormed(EmptyStore) /\ Held(EmptyStore) = {Genesis} /\ EmptyStore \in Store
        /\ EmptyStore.main = {Genesis} /\ EmptyStore.nb = {Genesis}
    BY EmptyPreserves DEF Init, WellFormed, EmptyStore
  <1>2. TypeOK
    BY <1>1 DEF Init, TypeOK
  <1>3. RanksGrow
    BY <1>1 DEF Init, RanksGrow
  <1>4. LoggedReached /\ GapsAreFailures /\ CommittedIsBuried
    BY <1>1 DEF Init, LoggedReached, GapsAreFailures, CommittedIsBuried
  <1> QED
    BY <1>1, <1>2, <1>3, <1>4 DEF IInv

-----------------------------------------------------------------------------
(* The bar.                                                                *)

(* From a block of the main tree to its ancestors, next_rank falls.        *)
LEMMA RanksAlongLineage ==
    ASSUME IInv, NEW c \in Chain, NEW b \in store[c].main, NEW a \in Lineage[b]
    PROVE  next_rank[c][a] <= next_rank[c][b]
  <1> DEFINE P(x) == \A y \in Lineage[x] : next_rank[c][y] <= next_rank[c][x]
             X == {x \in store[c].main : ~P(x)}
  <1>1. /\ WellFormed(store[c]) /\ store[c].main \subseteq Block
        /\ \A x \in Block : next_rank[c][x] \in Nat
    BY DEF IInv, TypeOK, Store
  <1>2. P(Genesis)
    <2>1. Lineage[Genesis] = {Genesis}
      BY LineageDef
    <2>2. next_rank[c][Genesis] <= next_rank[c][Genesis]
      BY <1>1
    <2> QED
      BY <2>1, <2>2
  <1>3. ASSUME NEW x \in store[c].main \ {Genesis}, P(Parent[x]) PROVE P(x)
    <2>1. /\ Lineage[x] = {x} \cup Lineage[Parent[x]] /\ Parent[x] \in Block
          /\ Lineage[Parent[x]] \subseteq Block
      BY <1>1, LineageDef, ParentIsOther, LineageHolds
    <2>2. next_rank[c][x] > next_rank[c][Parent[x]]
      BY <1>1 DEF IInv, RanksGrow, WellFormed, HeadersExactIn
    <2> SUFFICES ASSUME NEW y \in Lineage[x] PROVE next_rank[c][y] <= next_rank[c][x]
      OBVIOUS
    <2>3. CASE y = x
      BY <1>1, <2>3
    <2>4. CASE y \in Lineage[Parent[x]]
      <3>1. next_rank[c][y] <= next_rank[c][Parent[x]]
        BY <1>3, <2>4
      <3>2. next_rank[c][y] \in Nat /\ next_rank[c][Parent[x]] \in Nat /\ next_rank[c][x] \in Nat
        BY <1>1, <2>1, <2>4
      <3> QED
        BY <2>2, <3>1, <3>2
    <2> QED
      BY <2>1, <2>3, <2>4
  <1> HIDE DEF P
  <1>4. X \in SUBSET Block /\ Genesis \notin X
    BY <1>1, <1>2
  <1>5. \A x \in X \ {Genesis} : Parent[x] \in X
    BY <1>1, <1>3 DEF WellFormed, MainConnectedIn
  <1> HIDE DEF X
  <1>6. X = {}
    BY <1>4, <1>5, NoShallowest
  <1> QED
    BY <1>6 DEF X, P

RanksFall ==
    \A c \in Chain : \A b \in store[c].main : \A a \in Lineage[b] :
        next_rank[c][a] <= next_rank[c][b]

LEMMA RanksFallAfter == IInv' => RanksFall'
  <1>1. IInv => RanksFall
    BY RanksAlongLineage DEF RanksFall
  <1> QED
    BY <1>1, PTL

(* The bar is at or below the next_rank of the last block buried.          *)
LEMMA BarIsBelow ==
    ASSUME IInv, AllLongEnough, NEW c \in Chain
    PROVE  /\ LastBuried(c) \in MaxDepth(Buried(c, T_DISCARD))
           /\ ConfirmBar \in Nat /\ ConfirmBar <= next_rank[c][LastBuried(c)]
  <1>1. \A d \in Chain : LastBuried(d) \in MaxDepth(Buried(d, T_DISCARD))
    <2>1. \A d \in Chain : MaxDepth(Buried(d, T_DISCARD)) # {}
      BY BuriedIsLineage DEF IInv, AllLongEnough
    <2> QED
      BY <2>1 DEF LastBuried
  <1>2. \A d \in Chain : LastBuried(d) \in Block
    BY <1>1, BuriedHolds DEF IInv, MaxDepth
  <1>3. BuriedRanks \subseteq Nat /\ \A d \in Chain : next_rank[d][LastBuried(d)] \in BuriedRanks
    <2>1. \A d \in Chain : next_rank[d][LastBuried(d)] \in Nat
      BY <1>2 DEF IInv, TypeOK
    <2> QED
      BY <2>1 DEF BuriedRanks
  <1>4. \E r \in BuriedRanks : \A q \in BuriedRanks : r <= q
    BY <1>3, NatHasMin
  <1>5. ConfirmBar \in BuriedRanks /\ \A q \in BuriedRanks : ConfirmBar <= q
    BY <1>4 DEF ConfirmBar
  <1> QED
    BY <1>1, <1>3, <1>5

(* What joins the blocks that count ranks at the bar or above it, as long  *)
(* as the buried blocks stay.                                              *)
LEMMA JoinsAboveBar ==
    ASSUME IInv, IInv', AllLongEnough, NEW c \in Chain,
           store[c].main \subseteq store'[c].main,
           \A b \in store[c].main : next_rank'[c][b] = next_rank[c][b],
           NEW b \in Lineage[store'[c].deepest] \ Lineage[store[c].deepest],
           Buried(c, T_DISCARD) \subseteq Lineage[store'[c].deepest]
    PROVE  next_rank'[c][Parent[b]] >= ConfirmBar
  <1> DEFINE t == LastBuried(c)
             old == store[c].deepest
             new == store'[c].deepest
  <1>1. /\ t \in MaxDepth(Buried(c, T_DISCARD)) /\ ConfirmBar \in Nat
        /\ ConfirmBar <= next_rank[c][t]
    BY BarIsBelow
  <1>2. WellFormed(store[c]) /\ WellFormed(store'[c])
    BY DEF IInv
  <1>3. /\ old \in Block /\ new \in Block /\ new \in store'[c].main
    BY <1>2 DEF WellFormed, Store, DeepestIn
  <1>4. t \in Buried(c, T_DISCARD)
    BY <1>1 DEF MaxDepth
  <1>5. /\ t \in Block /\ t \in store[c].main
    BY <1>2, <1>4, BuriedHolds
  <1>6. t \in Lineage[old] /\ t \in Lineage[new]
    BY <1>4 DEF Buried
  <1>7. /\ Lineage[new] \subseteq store'[c].main /\ Lineage[new] \subseteq Block
        /\ Lineage[t] \subseteq Lineage[old] /\ Lineage[b] \subseteq Lineage[new]
        /\ Genesis \in Lineage[old]
    BY <1>2, <1>3, <1>6, MainHoldsLineage, LineageHolds
  <1>8. b \in Block \ {Genesis}
    BY <1>7
  <1>9. /\ Parent[b] \in Block /\ Depth[b] = Depth[Parent[b]] + 1
        /\ Depth[Parent[b]] \in Nat /\ Depth[t] \in Nat
    BY <1>5, <1>8, ParentIsOther
  <1>10. Parent[b] \in Lineage[new]
    <2>1. Lineage[b] = {b} \cup Lineage[Parent[b]]
      BY <1>8, LineageDef
    <2>2. Parent[b] \in Lineage[Parent[b]]
      BY <1>9, LineageHolds
    <2> QED
      BY <1>7, <2>1, <2>2
  <1>11. ~(Depth[b] <= Depth[t])
    BY <1>3, <1>6, <1>7, LineageIsChain
  <1>12. Depth[t] <= Depth[Parent[b]]
    BY <1>9, <1>11
  <1>13. t \in Lineage[Parent[b]] /\ Parent[b] \in store'[c].main
    BY <1>3, <1>6, <1>7, <1>10, <1>12, LineageIsChain
  <1>14. next_rank'[c][t] <= next_rank'[c][Parent[b]]
    <2>1. RanksFall'
      BY RanksFallAfter
    <2> QED
      BY <1>13, <2>1 DEF RanksFall
  <1>15. next_rank'[c][t] = next_rank[c][t]
    BY <1>5
  <1>16. next_rank[c][t] \in Nat /\ next_rank'[c][Parent[b]] \in Nat
    BY <1>5, <1>9 DEF IInv, TypeOK
  <1> QED
    BY <1>1, <1>14, <1>15, <1>16

-----------------------------------------------------------------------------

(* What is true of marks, ranks and the file after any number of steps.    *)
THEOREM LedgerInvariant == Spec => []IInv
  <1>1. IInv /\ [Next]_vars => IInv'
    BY NextPreserves
  <1> QED
    BY InitEstablishes, <1>1, PTL DEF Spec

(* A committed block is partial, in the main tree, and has T_DISCARD       *)
(* blocks on top, for ever after, and every chain is that long.            *)
THEOREM LedgerCommittedIsBuried == Spec => []CommittedIsBuried
  <1>1. IInv => CommittedIsBuried
    BY DEF IInv
  <1> QED
    BY LedgerInvariant, <1>1, PTL

(* The file of hashes has one for every STORE_HASH_FREQ-th depth but those *)
(* that failed writes left out, in order and buried.                       *)
THEOREM LedgerGapsAreFailures == Spec => []GapsAreFailures
  <1>1. IInv => GapsAreFailures
    BY DEF IInv
  <1> QED
    BY LedgerInvariant, <1>1, PTL

(* No block is committed before its ancestors but those whose time_mined   *)
(* is still ahead.                                                         *)
THEOREM LedgerAncestorsFirst == Spec => AncestorsFirst
  <1> DEFINE A == \A c \in Chain : \A b \in committed'[c] \ committed[c] :
                     Lineage[b] \subseteq committed'[c] \cup early[c]
  <1>1. IInv /\ [Next]_vars => [A]_vars
    <2> SUFFICES ASSUME IInv, Next PROVE A
      OBVIOUS
    <2>1. CASE Update
      BY <2>1, UpdatePreserves
    <2>2. CASE ~Update
      <3>1. UNCHANGED committed
        BY <2>2 DEF Next, Receive, Mine, Ask, TimePasses, StoreHashes, marks
      <3> QED
        BY <3>1
    <2> QED
      BY <2>1, <2>2
  <1> QED
    BY LedgerInvariant, <1>1, PTL DEF Spec, AncestorsFirst

(* Nothing joins the chains with a rank below confirm_bar but by a fork    *)
(* deeper than T_DISCARD.                                                  *)
THEOREM LedgerBarHolds == Spec => BarHolds
  <1> DEFINE A == AllLongEnough =>
                    \A c \in Chain :
                        \A b \in Lineage[store'[c].deepest] \ Lineage[store[c].deepest] :
                            Buried(c, T_DISCARD) \subseteq Lineage[store'[c].deepest]
                                => next_rank'[c][Parent[b]] >= ConfirmBar
  <1>1. IInv /\ IInv' /\ [Next]_vars => [A]_vars
    <2> SUFFICES ASSUME IInv, IInv', Next, AllLongEnough, NEW c \in Chain,
                        NEW b \in Lineage[store'[c].deepest] \ Lineage[store[c].deepest],
                        Buried(c, T_DISCARD) \subseteq Lineage[store'[c].deepest]
                 PROVE  next_rank'[c][Parent[b]] >= ConfirmBar
      OBVIOUS
    <2>1. /\ store[c].main \subseteq store'[c].main
          /\ \A x \in store[c].main : next_rank'[c][x] = next_rank[c][x]
      <3>1. CASE UNCHANGED <<store, next_rank>>
        BY <3>1
      <3>2. ASSUME NEW d \in Chain, Advances(d) PROVE store[c].main \subseteq store'[c].main
        <4>1. CASE d = c
          BY <3>2, <4>1 DEF Advances
        <4>2. CASE d # c
          BY <3>2, <4>2 DEF Advances, IInv, TypeOK
        <4> QED
          BY <4>1, <4>2
      <3>3. ASSUME NEW d \in Chain, NEW h \in Block \ {Genesis}, Receive(d, h)
            PROVE  Advances(d) /\ UNCHANGED next_rank
        BY <3>3, ReceiveAdvances
      <3>4. ASSUME NEW d \in Chain, NEW due \in SUBSET store[d].inc, Ask(d, due)
            PROVE  Advances(d) /\ UNCHANGED next_rank
        BY <3>4, AskAdvances
      <3>5. ASSUME NEW d \in Chain, NEW h \in Block \ {Genesis}, Mine(d, h)
            PROVE  /\ Advances(d)
                   /\ \A x \in store[c].main : next_rank'[c][x] = next_rank[c][x]
        BY <3>5, MineAdvances, MineRanks
      <3>6. \/ UNCHANGED <<store, next_rank>>
            \/ \E d \in Chain : /\ Advances(d)
                                /\ \A x \in store[c].main : next_rank'[c][x] = next_rank[c][x]
        BY <3>3, <3>4, <3>5 DEF Next, TimePasses, Update, StoreHashes
      <3> QED
        BY <3>1, <3>2, <3>6
    <2> QED
      BY <2>1, JoinsAboveBar
  <1> QED
    BY LedgerInvariant, <1>1, PTL DEF Spec, BarHolds
=============================================================================
