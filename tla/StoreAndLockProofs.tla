-------------------------- MODULE StoreAndLockProofs --------------------------
(***************************************************************************)
(* Theorems about the store of one chain and about the lock under which    *)
(* the two threads of a node change it.  A handler is one step of          *)
(* ChainStore because only one thread at a time is inside the lock, which  *)
(* the second part proves of MinerLoop, with the schedule of the miner.    *)
(* The first part proves, for every universe of blocks, the inductive      *)
(* invariant of the store and that it implements LongestChain; what an     *)
(* operation does to a store is proved in ChainTreeProofs.                 *)
(***************************************************************************)
EXTENDS ChainStore, MinerLoop, ChainTreeProofs

USE UniverseAssumption

(* The store that holds the genesis block only has the invariant.          *)
LEMMA InitIInv == Init => IInv
  <1> SUFFICES ASSUME Init PROVE IInv
    OBVIOUS
  <1>1. store = EmptyStore /\ minted = {Genesis}
    BY DEF Init
  <1>2. WellFormed(store) /\ Held(store) = {Genesis}
    BY <1>1, EmptyPreserves
  <1> QED
    BY <1>1, <1>2 DEF IInv, TypeOK, HeldWasMined, WellFormed

(* Every step of the store keeps the invariant.                            *)
LEMMA NextPreserves == IInv /\ [Next]_vars => IInv'
  <1> SUFFICES ASSUME IInv, [Next]_vars PROVE IInv'
    OBVIOUS
  <1>1. /\ WellFormed(store) /\ Held(store) \subseteq minted /\ minted \subseteq Block
        /\ \A b \in minted \ {Genesis} : Parent[b] \in minted
    BY DEF IInv, TypeOK, HeldWasMined
  <1>2. ASSUME WellFormed(store'), Held(store') \subseteq minted', minted' \subseteq Block,
               \A b \in minted' \ {Genesis} : Parent[b] \in minted'
        PROVE  IInv'
    BY <1>2 DEF IInv, TypeOK, HeldWasMined, WellFormed
  <1>3. CASE UNCHANGED vars
    BY <1>1, <1>2, <1>3 DEF vars
  <1>4. ASSUME NEW h \in Block \ {Genesis}, MintElsewhere(h) PROVE IInv'
    BY <1>1, <1>2, <1>4 DEF MintElsewhere
  <1>5. ASSUME NEW h \in Block \ {Genesis}, Mine(h) PROVE IInv'
    <2>1. /\ h \notin minted /\ Parent[h] = store.deepest
          /\ minted' = minted \cup {h} /\ store' = AddMined(store, h)
      BY <1>5 DEF Mine
    <2>2. Parent[h] \in minted
      BY <1>1, <2>1 DEF WellFormed, DeepestIn, Held
    <2>3. WellFormed(store') /\ Held(store') = Held(store) \cup {h}
      BY <1>1, <2>1, MinePreserves
    <2> QED
      BY <1>1, <1>2, <2>1, <2>2, <2>3
  <1>6. ASSUME NEW h \in Block \ {Genesis}, ReceiveConnect(h) PROVE IInv'
    <2>1. WellFormed(store') /\ Held(store') = Held(store) \cup {h}
      BY <1>1, <1>6, ConnectPreserves DEF ReceiveConnect
    <2> QED
      BY <1>1, <1>2, <1>6, <2>1 DEF ReceiveConnect
  <1>7. ASSUME NEW h \in Block \ {Genesis}, ReceivePark(h) PROVE IInv'
    <2>1. WellFormed(store') /\ Held(store') = Held(store) \cup {h, Parent[h]}
      BY <1>1, <1>7, ParkPreserves DEF ReceivePark
    <2> QED
      BY <1>1, <1>2, <1>7, <2>1 DEF ReceivePark
  <1>8. ASSUME NEW due \in SUBSET store.inc, Ask(due) PROVE IInv'
    <2>1. WellFormed(store') /\ Held(store') \subseteq Held(store)
      BY <1>1, <1>8, AskPreserves DEF Ask
    <2> QED
      BY <1>1, <1>2, <1>8, <2>1 DEF Ask
  <1> QED
    BY <1>3, <1>4, <1>5, <1>6, <1>7, <1>8 DEF Next

(* In every universe of blocks, whatever is received, asked for or mined,  *)
(* the store keeps its inductive invariant.                                *)
THEOREM StoreInvariant == Spec => []IInv
  BY InitIInv, NextPreserves, PTL DEF Spec

(* The store always has its type: no tree outlives its bound of asks.      *)
THEOREM StoreTypeOK == Spec => []TypeOK
  <1>1. IInv => TypeOK
    BY DEF IInv, TreesDisjoint, HeadersExact, DeepestIsDeepest, WellFormed
  <1> QED
    BY <1>1, StoreInvariant, PTL

(* No hash is ever in two trees of the store.                              *)
THEOREM StoreTreesDisjoint == Spec => []TreesDisjoint
  <1>1. IInv => TreesDisjoint
    BY DEF IInv, TreesDisjoint, HeadersExact, DeepestIsDeepest, WellFormed
  <1> QED
    BY <1>1, StoreInvariant, PTL

(* Only the roots of incomplete trees are ever without a header.           *)
THEOREM StoreHeadersExact == Spec => []HeadersExact
  <1>1. IInv => HeadersExact
    BY DEF IInv, TreesDisjoint, HeadersExact, DeepestIsDeepest, WellFormed
  <1> QED
    BY <1>1, StoreInvariant, PTL

(* The deepest pointer is always at a deepest block of the main tree.      *)
THEOREM StoreDeepestIsDeepest == Spec => []DeepestIsDeepest
  <1>1. IInv => DeepestIsDeepest
    BY DEF IInv, TreesDisjoint, HeadersExact, DeepestIsDeepest, WellFormed
  <1> QED
    BY <1>1, StoreInvariant, PTL

(* The deepest pointer only moves to strictly deeper blocks.               *)
THEOREM StoreTipOnlyDeepens == Spec => TipOnlyDeepens
  <1>1. ASSUME IInv, [Next]_vars
        PROVE  store'.deepest # store.deepest => Depth[store'.deepest] > Depth[store.deepest]
    <2>1. store \in Store
      BY <1>1 DEF IInv, TypeOK
    <2>2. CASE UNCHANGED vars
      BY <2>2 DEF vars
    <2>3. ASSUME NEW h \in Block \ {Genesis}, MintElsewhere(h)
          PROVE  store'.deepest = store.deepest
      BY <2>3 DEF MintElsewhere
    <2>4. ASSUME NEW h \in Block \ {Genesis}, Mine(h)
          PROVE  Depth[store'.deepest] > Depth[store.deepest]
      <3>1. store'.deepest = h /\ Parent[h] = store.deepest
        BY <2>1, <2>4 DEF Mine, AddMined, Store
      <3> QED
        BY <3>1, ParentIsOther
    <2>5. ASSUME NEW h \in Block \ {Genesis}, ReceiveConnect(h),
                 store'.deepest # store.deepest
          PROVE  Depth[store'.deepest] > Depth[store.deepest]
      BY <2>5 DEF ReceiveConnect, Connect, DeepestAfter
    <2>6. ASSUME NEW h \in Block \ {Genesis}, ReceivePark(h)
          PROVE  store'.deepest = store.deepest
      BY <1>1, <2>6, ParkPreserves DEF ReceivePark, IInv
    <2>7. ASSUME NEW due \in SUBSET store.inc, Ask(due)
          PROVE  store'.deepest = store.deepest
      BY <1>1, <2>7, AskPreserves DEF Ask, IInv
    <2> QED
      BY <1>1, <2>2, <2>3, <2>4, <2>5, <2>6, <2>7 DEF Next
  <1> QED
    BY <1>1, StoreInvariant, PTL DEF Spec, TipOnlyDeepens

(* Headers K made of a connected tree M and of the blocks below the roots  *)
(* of trees that share nothing with M: only M is connected to the genesis. *)
LEMMA RootedIsTrunk ==
    ASSUME NEW M \in SUBSET Block, NEW T, NEW K \in SUBSET Block,
           Genesis \in M, \A b \in M \ {Genesis} : Parent[b] \in M,
           \A t \in T : \A b \in t.nodes \ {t.root} : Parent[b] \in t.nodes,
           \A t \in T : t.nodes \cap M = {},
           K = M \cup UNION {t.nodes \ {t.root} : t \in T}
    PROVE  Longest!Rooted(K) = M
  <1>1. M \subseteq Longest!Rooted(K)
    BY DEF Longest!Rooted, Longest!ParentClosed
  <1>2. ASSUME NEW A \in SUBSET K, Longest!ParentClosed(A)
        PROVE  A \subseteq M
    <2> SUFFICES ASSUME A \ M # {} PROVE FALSE
      OBVIOUS
    <2>1. PICK b \in A \ M : \A c \in A \ M : Depth[b] <= Depth[c]
      BY ShallowestExists
    <2>2. b \in Block \ {Genesis}
      BY <2>1
    <2>3. Parent[b] \in A /\ Parent[b] \in Block /\ Depth[Parent[b]] < Depth[b]
      BY <1>2, <2>1, <2>2, ParentIsOther DEF Longest!ParentClosed
    <2>4. Parent[b] \in M
      BY <2>1, <2>2, <2>3
    <2>5. PICK t \in T : b \in t.nodes \ {t.root}
      BY <2>1
    <2> QED
      BY <2>4, <2>5
  <1>3. Longest!Rooted(K) \subseteq M
    BY <1>2 DEF Longest!Rooted
  <1> QED
    BY <1>1, <1>3

(* What is connected through the headers held is exactly the main tree: no *)
(* block waiting in an incomplete tree could have been linked already.     *)
LEMMA RootedIsMain == IInv => Longest!Rooted(store.nb) = store.main
  <1> SUFFICES ASSUME IInv PROVE Longest!Rooted(store.nb) = store.main
    OBVIOUS
  <1>1. store.nb \in SUBSET Block /\ store.main \in SUBSET Block
    BY DEF IInv, WellFormed, Store
  <1> QED
    BY <1>1, RootedIsTrunk DEF IInv, WellFormed, MainConnectedIn, TreesDisjointIn, HeadersExactIn

LEMMA RootedIsMainAfter == IInv' => Longest!Rooted(store'.nb) = store'.main
  <1> SUFFICES ASSUME IInv' PROVE Longest!Rooted(store'.nb) = store'.main
    OBVIOUS
  <1>1. store'.nb \in SUBSET Block /\ store'.main \in SUBSET Block
    BY DEF IInv, WellFormed, Store
  <1> QED
    BY <1>1, RootedIsTrunk DEF IInv, WellFormed, MainConnectedIn, TreesDisjointIn, HeadersExactIn

(* Learning a header that links blocks up to depth Depth[b], or none.      *)
LEMMA LearnStep ==
    ASSUME IInv, IInv', NEW h \in Block, h \notin store.nb,
           store'.nb = store.nb \cup {h},
           NEW b \in store'.main,
           \A c \in store'.main \ store.main : Depth[c] <= Depth[b],
           store'.deepest = IF Depth[b] > Depth[store.deepest] THEN b ELSE store.deepest
    PROVE  Longest!Learn(h)
  <1> DEFINE deeper == {c \in store'.main : Depth[c] > Depth[store.deepest]}
  <1>1. Longest!BestTips(store'.nb, store.deepest) =
          IF deeper = {} THEN {store.deepest}
          ELSE {c \in deeper : \A d \in deeper : Depth[d] <= Depth[c]}
    BY RootedIsMainAfter DEF Longest!BestTips
  <1>2. store.deepest \in Block /\ store'.main \subseteq Block
    BY DEF IInv, WellFormed, Store
  <1>3. \A c \in store.main : Depth[c] <= Depth[store.deepest]
    BY DEF IInv, WellFormed, DeepestIn
  <1>4. deeper \subseteq store'.main \ store.main
    BY <1>2, <1>3
  <1>5. ASSUME Depth[b] > Depth[store.deepest]
        PROVE  store'.deepest \in Longest!BestTips(store'.nb, store.deepest)
    BY <1>1, <1>4, <1>5
  <1>6. ASSUME ~(Depth[b] > Depth[store.deepest])
        PROVE  store'.deepest \in Longest!BestTips(store'.nb, store.deepest)
    <2>1. deeper = {}
      BY <1>2, <1>4, <1>6
    <2> QED
      BY <1>1, <1>6, <2>1
  <1> QED
    BY <1>5, <1>6 DEF Longest!Learn

LEMMA StepImplements ==
    ASSUME IInv, IInv', [Next]_vars
    PROVE  [Longest!Next]_(Longest!vars)
  <1> USE DEF Longest!vars
  <1>1. CASE UNCHANGED vars
    BY <1>1 DEF vars
  <1>2. ASSUME NEW h \in Block \ {Genesis}, MintElsewhere(h)
        PROVE  UNCHANGED Longest!vars
    BY <1>2 DEF MintElsewhere
  <1>3. ASSUME NEW h \in Block \ {Genesis}, Mine(h)
        PROVE  Longest!Learn(h)
    <2>1. /\ store'.main = store.main \cup {h} /\ store'.nb = store.nb \cup {h}
          /\ store'.deepest = h /\ Parent[h] = store.deepest /\ h \notin minted
      BY <1>3 DEF Mine, AddMined, IInv, WellFormed, Store
    <2>2. h \notin store.nb
      BY <2>1 DEF IInv, WellFormed, HeadersExactIn, HeldWasMined, Held, NodesOf
    <2>3. Depth[h] > Depth[store.deepest]
      BY <2>1, ParentIsOther
    <2> QED
      BY <2>1, <2>2, <2>3, LearnStep
  <1>4. ASSUME NEW h \in Block \ {Genesis}, ReceiveConnect(h)
        PROVE  Longest!Learn(h)
    <2> DEFINE joined == {h} \cup NodesOf(TreesRootedAt(store, h))
    <2>1. PICK b \in MaxDepth(joined) :
            /\ store'.main = store.main \cup joined
            /\ store'.nb = store.nb \cup {h}
            /\ store'.deepest = IF Depth[b] > Depth[store.deepest]
                                  THEN b ELSE store.deepest
      BY <1>4 DEF ReceiveConnect, Connect, DeepestAfter
    <2> HIDE DEF joined
    <2>2. b \in store'.main /\ \A c \in store'.main \ store.main : Depth[c] <= Depth[b]
      BY <2>1 DEF MaxDepth
    <2>3. h \notin store.nb
      BY <1>4 DEF ReceiveConnect, IInv, WellFormed, HeadersExactIn, TreesDisjointIn
    <2> QED
      BY <2>1, <2>2, <2>3, LearnStep
  <1>5. ASSUME NEW h \in Block \ {Genesis}, ReceivePark(h)
        PROVE  Longest!Learn(h)
    <2>1. /\ store'.main = store.main /\ store'.nb = store.nb \cup {h}
          /\ store'.deepest = store.deepest
      BY <1>5, ParkPreserves DEF ReceivePark, IInv
    <2>2. h \notin store.nb
      BY <1>5 DEF ReceivePark, AlreadyParked, IInv, WellFormed, HeadersExactIn
    <2>3. store.deepest \in store'.main /\ Depth[store.deepest] \in Nat
      BY <2>1 DEF IInv, WellFormed, DeepestIn, Store
    <2> QED
      BY <2>1, <2>2, <2>3, LearnStep
  <1>6. ASSUME NEW due \in SUBSET store.inc, Ask(due)
        PROVE  \E D \in SUBSET Block : Longest!Forget(D)
    <2> DEFINE D == NodesOf(Dropped(due)) \cap store.nb
    <2>1. store'.nb = store.nb \ D /\ store'.deepest = store.deepest
      BY <1>6, AskPreserves DEF Ask, IInv
    <2>2. D \cap store.main = {}
      BY DEF Dropped, NodesOf, IInv, WellFormed, TreesDisjointIn
    <2>3. D \in SUBSET Block /\ D \subseteq store.nb \ Longest!Rooted(store.nb)
      BY <2>2, RootedIsMain DEF IInv, WellFormed, Store
    <2> HIDE DEF D
    <2>4. Longest!Forget(D)
      BY <2>1, <2>3 DEF Longest!Forget
    <2> QED
      BY <2>3, <2>4
  <1> QED
    BY <1>1, <1>2, <1>3, <1>4, <1>5, <1>6 DEF Next, Longest!Next

(* The store implements the longest-chain register: merging incomplete     *)
(* trees one at a time and searching only what was linked gives, after     *)
(* every operation, a deepest block among all that is connected.           *)
THEOREM StoreImplementsLongestChain == Spec => ImplementsLongestChain
  <1>1. Init => Longest!Init
    BY DEF Init, EmptyStore, Longest!Init
  <1> QED
    BY <1>1, StepImplements, StoreInvariant, PTL
       DEF Spec, ImplementsLongestChain, Longest!Spec

-----------------------------------------------------------------------------
(* The two threads and the schedule of the miner: for every number of      *)
(* attempts, interruptions and bodies.                                     *)

HIDE UniverseAssumption

(* A branch is of one of the two kinds.                                    *)
LEMMA BranchType == \A n : Branch(n) \in Kinds
  BY DEF Branch, Kinds

(* The bounds are numbers.                                                 *)
LEMMA BoundsAreNat == MaxMine \in Nat /\ MaxBodies \in Nat /\ MaxInterrupts \in Nat
  BY MinerAssumption DEF MinerAssumption

(* The thread inside gives mutex and token back. *)
LEMMA ReleaseKeepsOneWriter ==
    ASSUME LoopTypeOK, OneWriter, NEW t \in Thread, pc[t] = "inside", Release(t)
    PROVE  OneWriter'
  <1> USE DEF LoopTypeOK, OneWriter, Leaked, Release
  <1>1. lock = {t} /\ lock' = {} /\ locker_write' = FALSE
    OBVIOUS
  <1>2. \A u \in Thread : pc'[u] = IF u = t THEN "leaving" ELSE pc[u]
    OBVIOUS
  <1>3. \A u \in Thread : pc'[u] # "inside"
    BY <1>1, <1>2
  <1>4. \A u \in Thread : pc'[u] # "waiting"
    BY <1>1, <1>2, "waiting" # "leaving"
  <1>5. QED
    BY <1>1, <1>3, <1>4

(* Leaving the lock keeps the types.                                       *)
LEMMA ReleaseType ==
    ASSUME LoopTypeOK, NEW t \in Thread, Release(t)
    PROVE  /\ pc' \in [Thread -> {"away", "entering", "waiting", "inside", "leaving", "back", "done"}]
           /\ pc'["network"] \notin {"back", "done"}
           /\ lock' \subseteq Thread /\ locker_write' \in BOOLEAN
  <1>1. pc' = [pc EXCEPT ![t] = "leaving"] /\ lock' = lock \ {t} /\ locker_write' = FALSE
    BY DEF Release
  <1>2. pc \in [Thread -> {"away", "entering", "waiting", "inside", "leaving", "back", "done"}]
        /\ pc["network"] \notin {"back", "done"} /\ lock \subseteq Thread
    BY DEF LoopTypeOK
  <1>3. QED
    BY <1>1, <1>2 DEF Thread

(* At first nobody is inside the lock.                                     *)
LEMMA LoopInitIInv == LoopInit => LoopIInv
  <1> SUFFICES ASSUME LoopInit PROVE LoopIInv
    OBVIOUS
  <1> USE DEF LoopInit
  <1>1. LoopTypeOK
    <2>1. kind \in Kinds /\ <<>> \in Seq(Kinds)
      BY BranchType
    <2>2. 0 \in 0 .. MaxMine /\ 0 \in 0 .. MaxBodies /\ 0 \in 0 .. MaxInterrupts
      BY BoundsAreNat
    <2>3. QED
      BY <2>1, <2>2 DEF LoopTypeOK, Thread
  <1>2. OneWriter
    BY DEF OneWriter, Thread
  <1>3. ScheduleKept /\ BranchCurrent
    BY DEF ScheduleKept, BranchCurrent, Thread
  <1>4. QED
    BY <1>1, <1>2, <1>3 DEF LoopIInv

(* A thread that enters finds mutex and token free, or waits for the token. *)
LEMMA EnterPreserves == ASSUME LoopIInv, NEW t \in Thread, Enter(t) PROVE LoopIInv'
  <1> USE DEF Enter, CanWrite, LoopIInv
  <1>1. LoopTypeOK'
    BY DEF LoopTypeOK, Thread, minerVars
  <1>2. OneWriter'
    BY DEF LoopTypeOK, OneWriter, Leaked, Thread
  <1>3. ScheduleKept' /\ BranchCurrent'
    BY DEF LoopTypeOK, ScheduleKept, BranchCurrent, Spent, minerVars, Thread
  <1>4. QED
    BY <1>1, <1>2, <1>3

LEMMA LeavePreserves == ASSUME LoopIInv, NEW t \in Thread, Leave(t) PROVE LoopIInv'
  <1> USE DEF Leave, LoopIInv
  <1>1. LoopTypeOK'
    BY BranchType DEF LoopTypeOK, Thread
  <1>2. OneWriter'
    BY DEF LoopTypeOK, OneWriter, Leaked, Thread
  <1>3. ScheduleKept'
    BY DEF ScheduleKept
  <1>4. BranchCurrent'
    BY DEF LoopTypeOK, BranchCurrent, Spent, Thread
  <1>5. QED
    BY <1>1, <1>2, <1>3, <1>4

LEMMA InterruptedPreserves == ASSUME LoopIInv, Interrupted PROVE LoopIInv'
  <1> USE DEF Interrupted, LoopIInv, gateVars
  <1>1. LoopTypeOK'
    <2>1. <<kind>> \o frames \in Seq(Kinds)
      BY DEF LoopTypeOK
    <2>2. QED
      BY <2>1, BranchType DEF LoopTypeOK
  <1>2. OneWriter' /\ ScheduleKept' /\ BranchCurrent'
    BY DEF OneWriter, Leaked, ScheduleKept, BranchCurrent, Spent
  <1>3. QED
    BY <1>1, <1>2

(* The attempt is of the kind the counter calls for, because a call that   *)
(* resumes with a stale branch has nothing left to mine.                   *)
LEMMA AttemptPreserves == ASSUME LoopIInv, Attempt PROVE LoopIInv'
  <1> USE BoundsAreNat DEF Attempt, LoopIInv
  <1>1. kind = Branch(total_mined) /\ total_mined \in Nat /\ total_mined < MaxMine
    BY DEF LoopTypeOK, BranchCurrent, Awake, Spent
  <1>2. LoopTypeOK'
    BY <1>1 DEF LoopTypeOK, Thread
  <1>3. OneWriter'
    BY DEF LoopTypeOK, OneWriter, Leaked, Thread, Awake
  <1>4. ScheduleKept'
    <2>1. attempts \in Seq(Kinds) /\ kind \in Kinds /\ Len(attempts) = total_mined
      BY DEF LoopTypeOK, ScheduleKept
    <2>2. Len(attempts') = total_mined'
      BY <2>1
    <2>3. ASSUME NEW i \in DOMAIN attempts' PROVE attempts'[i] = Branch(i - 1)
      <3>1. CASE i = Len(attempts) + 1
        BY <1>1, <2>1, <3>1
      <3>2. CASE i # Len(attempts) + 1
        BY <2>1, <2>3, <3>2 DEF ScheduleKept
      <3>3. QED
        BY <3>1, <3>2
    <2>4. QED
      BY <2>2, <2>3 DEF ScheduleKept, Branch
  <1>5. BranchCurrent'
    BY DEF LoopTypeOK, BranchCurrent, Thread
  <1>6. QED
    BY <1>2, <1>3, <1>4, <1>5

LEMMA ReturnPreserves == ASSUME LoopIInv, Return PROVE LoopIInv'
  <1> USE DEF Return, LoopIInv
  <1>1. frames # <<>> => Head(frames) \in Kinds /\ Tail(frames) \in Seq(Kinds)
    BY DEF LoopTypeOK
  <1>2. LoopTypeOK'
    BY <1>1 DEF LoopTypeOK, Thread
  <1>3. OneWriter'
    BY DEF LoopTypeOK, OneWriter, Leaked, Thread, Awake
  <1>4. ScheduleKept' /\ BranchCurrent'
    BY DEF LoopTypeOK, ScheduleKept, BranchCurrent, Spent, Thread
  <1>5. QED
    BY <1>2, <1>3, <1>4

LEMMA MineWeakPreserves == ASSUME LoopIInv, MineWeak PROVE LoopIInv'
  <1> USE DEF MineWeak, LoopIInv
  <1>1. LoopTypeOK'
    <2>1. produced' \in Seq(Kinds) /\ uncited' \in Nat
      BY DEF LoopTypeOK, Kinds
    <2>2. QED
      BY <2>1, ReleaseType DEF LoopTypeOK, Thread, minerVars
  <1>2. OneWriter'
    BY ReleaseKeepsOneWriter DEF Thread
  <1>3. ScheduleKept' /\ BranchCurrent'
    BY DEF Release, LoopTypeOK, ScheduleKept, BranchCurrent, minerVars, Thread
  <1>4. QED
    BY <1>1, <1>2, <1>3

(* The early return leaves the token taken and nobody inside. *)
LEMMA MineWeakFailsPreserves == ASSUME LoopIInv, MineWeakFails PROVE LoopIInv'
  <1> USE DEF MineWeakFails, LoopIInv
  <1>1. LoopTypeOK'
    BY BranchType DEF LoopTypeOK, Thread
  <1>2. OneWriter'
    BY DEF LoopTypeOK, OneWriter, Leaked, Thread
  <1>3. ScheduleKept' /\ BranchCurrent'
    BY DEF LoopTypeOK, ScheduleKept, BranchCurrent, Thread
  <1>4. QED
    BY <1>1, <1>2, <1>3

LEMMA MineStrongPreserves == ASSUME LoopIInv, MineStrong PROVE LoopIInv'
  <1> USE DEF MineStrong, LoopIInv
  <1>1. LoopTypeOK'
    <2>1. produced' \in Seq(Kinds) /\ uncited' \in Nat
      BY DEF LoopTypeOK, Kinds
    <2>2. QED
      BY <2>1, ReleaseType DEF LoopTypeOK, Thread, minerVars
  <1>2. OneWriter'
    BY ReleaseKeepsOneWriter DEF Thread
  <1>3. ScheduleKept' /\ BranchCurrent'
    BY DEF Release, LoopTypeOK, ScheduleKept, BranchCurrent, minerVars, Thread
  <1>4. QED
    BY <1>1, <1>2, <1>3

LEMMA EventPreserves == ASSUME LoopIInv, Event PROVE LoopIInv'
  <1> USE DEF Event, LoopIInv
  <1>1. LoopTypeOK'
    BY DEF LoopTypeOK, Thread, minerVars
  <1>2. OneWriter'
    BY DEF LoopTypeOK, OneWriter, Leaked, Thread
  <1>3. ScheduleKept' /\ BranchCurrent'
    BY DEF LoopTypeOK, ScheduleKept, BranchCurrent, Spent, minerVars, Thread
  <1>4. QED
    BY <1>1, <1>2, <1>3

LEMMA ServePreserves == ASSUME LoopIInv, Serve PROVE LoopIInv'
  <1> USE DEF Serve, LoopIInv
  <1>1. LoopTypeOK'
    <2>1. /\ uncited' \in Nat /\ interrupted' \in BOOLEAN
          /\ bodies' \in 0 .. MaxBodies /\ interrupts' \in 0 .. MaxInterrupts
      <3>1. /\ uncited \in Nat /\ interrupted \in BOOLEAN
            /\ bodies \in 0 .. MaxBodies /\ interrupts \in 0 .. MaxInterrupts
        BY DEF LoopTypeOK
      <3>2. CASE UNCHANGED <<interrupted, interrupts, uncited, bodies>>
        BY <3>1, <3>2
      <3>3. CASE /\ CanInterrupt /\ interrupts < MaxInterrupts
                 /\ interrupted' = TRUE /\ interrupts' = interrupts + 1
                 /\ uncited' \in 0 .. uncited
                 /\ UNCHANGED bodies
        BY <3>1, <3>3, BoundsAreNat
      <3>4. CASE /\ bodies < MaxBodies
                 /\ bodies' = bodies + 1 /\ uncited' = uncited + 1
                 /\ UNCHANGED <<interrupted, interrupts>>
        BY <3>1, <3>4, BoundsAreNat
      <3>5. QED
        BY <3>2, <3>3, <3>4
    <2>2. QED
      BY <2>1, ReleaseType DEF LoopTypeOK, Thread, minerVars
  <1>2. OneWriter'
    BY ReleaseKeepsOneWriter DEF Thread
  <1>3. ScheduleKept' /\ BranchCurrent'
    BY DEF Release, LoopTypeOK, ScheduleKept, BranchCurrent, Spent, minerVars, Thread
  <1>4. QED
    BY <1>1, <1>2, <1>3

(* Every step of the two threads keeps the invariant.                      *)
LEMMA LoopNextIInv == LoopIInv /\ [LoopNext]_loopVars => LoopIInv'
  <1> SUFFICES ASSUME LoopIInv, [LoopNext]_loopVars PROVE LoopIInv'
    OBVIOUS
  <1>1. ASSUME NEW t \in Thread, Enter(t) \/ Leave(t) PROVE LoopIInv'
    BY <1>1, EnterPreserves, LeavePreserves
  <1>2. ASSUME MinerInside PROVE LoopIInv'
    BY <1>2, MineWeakPreserves, MineWeakFailsPreserves, MineStrongPreserves DEF MinerInside
  <1>3. ASSUME MinerAway PROVE LoopIInv'
    BY <1>3, InterruptedPreserves, AttemptPreserves, ReturnPreserves DEF MinerAway
  <1>4. ASSUME Event \/ Serve PROVE LoopIInv'
    BY <1>4, EventPreserves, ServePreserves
  <1>5. ASSUME UNCHANGED loopVars PROVE LoopIInv'
    BY <1>5 DEF loopVars, gateVars, minerVars, LoopIInv, LoopTypeOK, OneWriter, Leaked,
                ScheduleKept, BranchCurrent, Spent
  <1>6. QED
    BY <1>1, <1>2, <1>3, <1>4, <1>5 DEF LoopNext

(* The strengthened invariant of the two threads. *)
THEOREM MinerInvariant == LoopSpec => []LoopIInv
  <1>1. QED
    BY LoopInitIInv, LoopNextIInv, PTL DEF LoopSpec

(* The state of the two threads keeps its types and bounds. *)
THEOREM MinerTypeOK == LoopSpec => []LoopTypeOK
  <1>1. LoopIInv => LoopTypeOK
    BY DEF LoopIInv
  <1>2. QED
    BY <1>1, MinerInvariant, PTL

(* miner.cpp and pow.cpp: never two threads at work on the block chain,    *)
(* and no wake-up is missed, even when the token leaks.                    *)
THEOREM MinerOneWriter == LoopSpec => []OneWriter
  <1>1. LoopIInv => OneWriter
    BY DEF LoopIInv
  <1>2. QED
    BY <1>1, MinerInvariant, PTL

(* miner(): however often it is interrupted and resumed, the i-th attempt  *)
(* is the one the counter calls for, and there are at most MaxMine.        *)
THEOREM MinerScheduleKept == LoopSpec => []ScheduleKept
  <1>1. LoopIInv => ScheduleKept
    BY DEF LoopIInv
  <1>2. QED
    BY <1>1, MinerInvariant, PTL
===============================================================================
