--------------------------- MODULE ChainTreeProofs ---------------------------
(***************************************************************************)
(* What the operations on a store do, for every universe of blocks: they   *)
(* keep it well-formed.  The proofs about StrongBlocks, Ledger, ChainStore *)
(* and HashTree rest on these lemmas.                                      *)
(***************************************************************************)
EXTENDS ChainTree, TLAPS, WellFoundedInduction

USE UniverseAssumption

(* A block is never its own parent. *)
LEMMA ParentIsOther ==
    ASSUME NEW h \in Block \ {Genesis}
    PROVE  Parent[h] \in Block /\ Parent[h] # h /\ Depth[Parent[h]] < Depth[h]
  <1>1. Parent[h] \in Block
    OBVIOUS
  <1>2. Depth[h] = Depth[Parent[h]] + 1 /\ Depth[Parent[h]] \in Nat
    BY <1>1
  <1> QED
    BY <1>1, <1>2

LEMMA EmptyPreserves == WellFormed(EmptyStore) /\ Held(EmptyStore) = {Genesis}
  <1>1. EmptyStore \in Store
    BY DEF EmptyStore, Store, Tree
  <1> QED
    BY <1>1 DEF EmptyStore, WellFormed, MainConnectedIn, TreesDisjointIn, RootShallowestIn,
                HeadersExactIn, DeepestIn, Held, NodesOf

(* A block nobody has heard of, mined on the deepest block.                *)
LEMMA MinePreserves ==
    ASSUME NEW S, WellFormed(S), NEW h \in Block \ {Genesis},
           Parent[h] = S.deepest, h \notin Held(S), NEW T, T = AddMined(S, h)
    PROVE  /\ WellFormed(T) /\ Held(T) = Held(S) \cup {h}
           /\ T.main = S.main \cup {h} /\ T.inc = S.inc
           /\ T.nb = S.nb \cup {h} /\ T.deepest = h
  <1>1. /\ T.main = S.main \cup {h} /\ T.inc = S.inc
        /\ T.nb = S.nb \cup {h} /\ T.deepest = h
    BY DEF AddMined, WellFormed, Store
  <1>2. h \notin S.main /\ \A t \in S.inc : h \notin t.nodes
    BY DEF Held, NodesOf
  <1>3. T \in Store
    BY DEF AddMined, WellFormed, Store
  <1>4. MainConnectedIn(T)
    BY <1>1 DEF WellFormed, MainConnectedIn, DeepestIn
  <1>5. TreesDisjointIn(T) /\ RootShallowestIn(T)
    BY <1>1, <1>2 DEF WellFormed, TreesDisjointIn, RootShallowestIn
  <1>6. HeadersExactIn(T)
    BY <1>1 DEF WellFormed, HeadersExactIn
  <1>7. DeepestIn(T)
    BY <1>1, ParentIsOther DEF WellFormed, DeepestIn, Store
  <1>8. Held(T) = Held(S) \cup {h}
    BY <1>1 DEF Held
  <1> QED
    BY <1>1, <1>3, <1>4, <1>5, <1>6, <1>7, <1>8 DEF WellFormed

(* The tree rooted at h, if any, joins the main tree with h.               *)
LEMMA ConnectPreserves ==
    ASSUME NEW S, WellFormed(S), NEW h \in Block \ {Genesis}, h \notin S.main, Parent[h] \in S.main,
           NEW T \in Connect(S, h)
    PROVE  WellFormed(T) /\ Held(T) = Held(S) \cup {h}
  <1> DEFINE trees == TreesRootedAt(S, h)
             joined == {h} \cup NodesOf(trees)
  <1>1. PICK b \in MaxDepth(joined) :
          T = [main |-> S.main \cup joined, inc |-> S.inc \ trees,
                    nb |-> S.nb \cup {h},
                    deepest |-> IF Depth[b] > Depth[S.deepest]
                                  THEN b ELSE S.deepest]
    BY DEF Connect, DeepestAfter
  <1>2. /\ T.main = S.main \cup joined
        /\ T.inc = S.inc \ trees
        /\ T.nb = S.nb \cup {h}
        /\ T.deepest = IF Depth[b] > Depth[S.deepest]
                              THEN b ELSE S.deepest
        
    BY <1>1
  <1>3. h \notin S.main /\ Parent[h] \in S.main
    OBVIOUS
  <1> HIDE DEF joined, trees
  <1>4. /\ S.main \subseteq Block /\ S.inc \subseteq Tree
        /\ S.nb \subseteq Block /\ S.deepest \in Block
    BY DEF WellFormed, Store
  <1>5. /\ trees \subseteq S.inc
        /\ \A t \in S.inc : t \in trees <=> t.root = h
        /\ \A c : c \in joined <=> c = h \/ \E t \in trees : c \in t.nodes
    BY DEF trees, joined, TreesRootedAt, NodesOf
  <1>6. joined \subseteq Block
    BY <1>4, <1>5 DEF Tree
  <1>7. b \in joined /\ \A c \in joined : Depth[c] <= Depth[b]
    BY <1>1 DEF MaxDepth
  (* A tree that holds h is rooted at h: its parent would be there too.    *)
  <1>8. \A t \in S.inc : h \in t.nodes => t \in trees
    BY <1>3, <1>5 DEF WellFormed, TreesDisjointIn
  <1>9. \A t \in S.inc \ trees : t.nodes \cap joined = {}
    BY <1>5, <1>8 DEF WellFormed, TreesDisjointIn
  <1>10. T \in Store
    BY <1>1, <1>4, <1>6, <1>7 DEF Store
  <1>11. MainConnectedIn(T)
    BY <1>2, <1>3, <1>5 DEF WellFormed, MainConnectedIn, TreesDisjointIn
  <1>12. TreesDisjointIn(T) /\ RootShallowestIn(T)
    BY <1>2, <1>9 DEF WellFormed, TreesDisjointIn, RootShallowestIn
  <1>13. HeadersExactIn(T)
    <2> SUFFICES ASSUME NEW c
                 PROVE  c \in S.nb \cup {h} <=>
                          \/ c \in S.main \cup joined
                          \/ \E t \in S.inc \ trees : c \in t.nodes \ {t.root}
      BY <1>2 DEF HeadersExactIn
    <2>1. c \in S.nb <=> \/ c \in S.main
                            \/ \E t \in S.inc : c \in t.nodes \ {t.root}
      BY DEF WellFormed, HeadersExactIn
    <2> QED
      BY <2>1, <1>5
  <1>14. DeepestIn(T)
    BY <1>2, <1>4, <1>6, <1>7 DEF WellFormed, DeepestIn
  <1>15. Held(T) = Held(S) \cup {h}
    BY <1>2, <1>3, <1>5 DEF Held, NodesOf
  <1> QED
    BY <1>10, <1>11, <1>12, <1>13, <1>14, <1>15 DEF WellFormed

(* The incomplete list after a block was parked: one grown tree replaces   *)
(* the host and the tree below the block, if there are any.                *)
Grows(S, h, T, host, below, grown) ==
    /\ Parent[h] \in host.nodes
    /\ \/ host \in S.inc
       \/ /\ host.root = Parent[h] /\ host.nodes = {Parent[h]}
          /\ \A t \in S.inc : Parent[h] \notin t.nodes
    /\ \A t \in S.inc : h \in t.nodes <=> t \in below
    /\ \A t \in below : t.root = h
    /\ grown.root = host.root
    /\ \A c : c \in grown.nodes <=>
                c \in host.nodes \/ c = h \/ \E t \in below : c \in t.nodes
    /\ T = [main |-> S.main, nb |-> S.nb \cup {h},
            inc |-> (S.inc \ (below \cup {host})) \cup {grown},
            deepest |-> S.deepest]

LEMMA ParkShape ==
    ASSUME NEW S, WellFormed(S), NEW h \in Block \ {Genesis},
           h \notin S.main, Parent[h] \notin S.main,
           ~AlreadyParked(S, h), NEW T, T = Park(S, h)
    PROVE  \E host \in Tree, below \in SUBSET S.inc, grown \in Tree :
              Grows(S, h, T, host, below, grown)
  <1> DEFINE above == TreesHolding(S, Parent[h])
             below == TreesHolding(S, h)
             host  == IF above = {}
                        THEN [root |-> Parent[h], nodes |-> {Parent[h]}, asks |-> 0]
                        ELSE CHOOSE t \in above : TRUE
             grown == [host EXCEPT !.nodes = @ \cup {h} \cup NodesOf(below)]
  <1>1. T = [S EXCEPT !.inc = (@ \ (below \cup {host})) \cup {grown},
                               !.nb = @ \cup {h}]
    BY DEF Park
  <1>2. S \in Store
    BY DEF WellFormed
  <1>3. /\ \A t \in S.inc : Parent[h] \in t.nodes <=> t \in above
        /\ \A t \in S.inc : h \in t.nodes <=> t \in below
        /\ above \subseteq S.inc /\ below \subseteq S.inc
    BY DEF TreesHolding
  <1>4. host \in Tree /\ Parent[h] \in host.nodes
    <2>1. CASE above = {}
      BY <2>1, ParentIsOther DEF Tree
    <2>2. CASE above # {}
      BY <2>2, <1>2, <1>3 DEF Store
    <2> QED
      BY <2>1, <2>2
  <1>5. \/ host \in S.inc
        \/ /\ host.root = Parent[h] /\ host.nodes = {Parent[h]}
           /\ \A t \in S.inc : Parent[h] \notin t.nodes
    BY <1>3
  <1>6. \A t \in below : t.root = h
    BY <1>3 DEF AlreadyParked
  <1> HIDE DEF above, below, host
  <1>7. \A c : c \in NodesOf(below) <=> \E t \in below : c \in t.nodes
    BY DEF NodesOf
  <1>8. NodesOf(below) \subseteq Block
    BY <1>2, <1>3, <1>7 DEF Store, Tree
  <1>9. grown \in Tree /\ grown.root = host.root
        /\ grown.nodes = host.nodes \cup {h} \cup NodesOf(below)
    BY <1>4, <1>8 DEF Tree
  <1>10. T = [main |-> S.main, nb |-> S.nb \cup {h},
                   inc |-> (S.inc \ (below \cup {host})) \cup {grown},
                   deepest |-> S.deepest]
    BY <1>1, <1>2 DEF Store
  <1> HIDE DEF grown
  <1>11. \A c : c \in grown.nodes <=>
                  c \in host.nodes \/ c = h \/ \E t \in below : c \in t.nodes
    BY <1>7, <1>9
  <1>12. below \in SUBSET S.inc
    BY <1>3
  <1> QED
    <2>1. Grows(S, h, T, host, below, grown)
      BY <1>3, <1>4, <1>5, <1>6, <1>9, <1>10, <1>11 DEF Grows
    <2> QED
      BY <1>4, <1>9, <1>12, <2>1

LEMMA ParkPreserves ==
    ASSUME NEW S, WellFormed(S), NEW h \in Block \ {Genesis}, h \notin S.main, Parent[h] \notin S.main,
           ~AlreadyParked(S, h), NEW T, T = Park(S, h)
    PROVE  /\ WellFormed(T) /\ Held(T) = Held(S) \cup {h, Parent[h]}
           /\ T.main = S.main /\ T.nb = S.nb \cup {h} /\ T.deepest = S.deepest
  <1>0. PICK host \in Tree, below \in SUBSET S.inc, grown \in Tree :
           Grows(S, h, T, host, below, grown)
    BY ParkShape
  <1>1. /\ Parent[h] \in host.nodes
        /\ \/ host \in S.inc
           \/ /\ host.root = Parent[h] /\ host.nodes = {Parent[h]}
              /\ \A t \in S.inc : Parent[h] \notin t.nodes
        /\ \A t \in S.inc : h \in t.nodes <=> t \in below
        /\ \A t \in below : t.root = h
        /\ grown.root = host.root
        /\ \A c : c \in grown.nodes <=>
                    c \in host.nodes \/ c = h \/ \E t \in below : c \in t.nodes
        /\ T = [main |-> S.main, nb |-> S.nb \cup {h},
                inc |-> (S.inc \ (below \cup {host})) \cup {grown},
                deepest |-> S.deepest]
    BY <1>0 DEF Grows
  <1> DEFINE others == S.inc \ (below \cup {host})
  <1>2. /\ T.main = S.main /\ T.nb = S.nb \cup {h}
        /\ T.inc = others \cup {grown}
        /\ T.deepest = S.deepest 
    BY <1>1
  <1>3. h \notin S.main /\ Parent[h] \notin S.main
    OBVIOUS
  <1>4. /\ S.main \subseteq Block /\ S.inc \subseteq Tree
        /\ S.nb \subseteq Block /\ S.deepest \in Block
    BY DEF WellFormed, Store
  <1>5. Parent[h] # h /\ Parent[h] \in Block /\ Depth[Parent[h]] < Depth[h]
    BY ParentIsOther
  (* The host does not hang below h: its blocks would be deeper than h.    *)
  <1>6. host \notin below
    <2> SUFFICES ASSUME host \in below PROVE FALSE
      OBVIOUS
    <2>1. host \in S.inc /\ host.root = h
      BY <1>1
    <2>2. Depth[Parent[h]] > Depth[h]
      BY <2>1, <1>1, <1>5 DEF WellFormed, RootShallowestIn
    <2> QED
      BY <2>2, <1>5
  <1>7. h # host.root
    BY <1>1, <1>5, <1>6 DEF WellFormed, TreesDisjointIn
  <1>8. host.root \in host.nodes
    BY <1>1 DEF WellFormed, TreesDisjointIn
  <1>9. \A t \in others : t.nodes \cap grown.nodes = {}
    BY <1>1 DEF WellFormed, TreesDisjointIn
  <1>10. \A t \in below : host.root \notin t.nodes
    BY <1>1, <1>6, <1>8 DEF WellFormed, TreesDisjointIn
  <1>11. T \in Store
    BY <1>1, <1>4 DEF Store
  <1>12. MainConnectedIn(T)
    BY <1>2 DEF WellFormed, MainConnectedIn
  <1>13. TreesDisjointIn(T)
    <2>1. grown.root \in grown.nodes /\ grown.nodes # {grown.root}
      BY <1>1, <1>7, <1>8
    <2>2. \A b \in grown.nodes \ {grown.root} : Parent[b] \in grown.nodes
      BY <1>1 DEF WellFormed, TreesDisjointIn
    <2>3. grown.nodes \cap S.main = {}
      BY <1>1, <1>3 DEF WellFormed, TreesDisjointIn
    <2>4. \A t \in others : /\ t.root \in t.nodes /\ t.nodes # {t.root}
                            /\ \A b \in t.nodes \ {t.root} : Parent[b] \in t.nodes
                            /\ t.nodes \cap S.main = {}
      BY DEF WellFormed, TreesDisjointIn
    <2>5. \A t, u \in others : t.nodes \cap u.nodes # {} => t = u
      BY DEF WellFormed, TreesDisjointIn
    <2> HIDE DEF others
    <2> QED
      BY <1>2, <1>9, <2>1, <2>2, <2>3, <2>4, <2>5 DEF TreesDisjointIn
  <1>14. RootShallowestIn(T)
    <2>1. ASSUME NEW b \in grown.nodes \ {grown.root}
          PROVE  Depth[b] > Depth[grown.root]
      <3>1. /\ b \in Block /\ grown.root \in Block
            /\ \A c \in Block : Depth[c] \in Nat
        BY DEF Tree
      <3>2. Depth[h] > Depth[grown.root]
        <4>1. CASE Parent[h] = host.root
          BY <4>1, <1>1, <1>5
        <4>2. CASE Parent[h] # host.root
          <5>1. Depth[Parent[h]] > Depth[host.root]
            BY <4>2, <1>1 DEF WellFormed, RootShallowestIn
          <5> QED
            BY <5>1, <3>1, <1>1, <1>5
        <4> QED
          BY <4>1, <4>2
      <3>3. CASE b \in host.nodes
        BY <3>3, <1>1 DEF WellFormed, RootShallowestIn
      <3>4. CASE b = h
        BY <3>2, <3>4
      <3>5. CASE \E t \in below : b \in t.nodes /\ b # h
        <4>1. Depth[b] > Depth[h]
          BY <3>5, <1>1 DEF WellFormed, RootShallowestIn
        <4> QED
          BY <4>1, <3>1, <3>2
      <3> QED
        BY <3>3, <3>4, <3>5, <1>1
    <2>2. \A t \in others : \A b \in t.nodes \ {t.root} : Depth[b] > Depth[t.root]
      BY DEF WellFormed, RootShallowestIn
    <2> HIDE DEF others
    <2> QED
      BY <1>2, <2>1, <2>2 DEF RootShallowestIn
  <1>15. HeadersExactIn(T)
    <2> SUFFICES ASSUME NEW c
                 PROVE  c \in S.nb \cup {h} <=>
                          \/ c \in S.main
                          \/ \E t \in others : c \in t.nodes \ {t.root}
                          \/ c \in grown.nodes \ {grown.root}
      BY <1>2 DEF HeadersExactIn
    <2>1. c \in S.nb <=> \/ c \in S.main
                            \/ \E t \in S.inc : c \in t.nodes \ {t.root}
      BY DEF WellFormed, HeadersExactIn
    <2>2. ASSUME c \in S.nb \cup {h}
          PROVE  \/ c \in S.main
                 \/ \E t \in others : c \in t.nodes \ {t.root}
                 \/ c \in grown.nodes \ {grown.root}
      BY <2>1, <2>2, <1>1, <1>7, <1>10
    <2>3. ASSUME c \in grown.nodes \ {grown.root}
          PROVE  c \in S.nb \cup {h}
      BY <2>1, <2>3, <1>1
    <2> QED
      BY <2>1, <2>2, <2>3
  <1>16. DeepestIn(T)
    BY <1>2 DEF WellFormed, DeepestIn
  <1>17. Held(T) = Held(S) \cup {h, Parent[h]}
    <2>1. NodesOf(T.inc) = NodesOf(others) \cup grown.nodes
      BY <1>2 DEF NodesOf
    <2>2. NodesOf(S.inc) \subseteq NodesOf(others) \cup grown.nodes
      BY <1>1 DEF NodesOf
    <2>3. grown.nodes \subseteq NodesOf(S.inc) \cup {h, Parent[h]}
      BY <1>1 DEF NodesOf
    <2>4. NodesOf(others) \subseteq NodesOf(S.inc)
      BY DEF NodesOf
    <2>5. {h, Parent[h]} \subseteq grown.nodes
      BY <1>1
    <2> QED
      BY <1>2, <2>1, <2>2, <2>3, <2>4, <2>5 DEF Held
  <1> QED
    BY <1>2, <1>11, <1>12, <1>13, <1>14, <1>15, <1>16, <1>17 DEF WellFormed

(* What asking leaves: the trees not due, and those due and kept, which    *)
(* differ from a tree of before in their count alone.                      *)
Keeps(S, due, T, kept) ==
    /\ T = [main |-> S.main, inc |-> (S.inc \ due) \cup kept,
            nb |-> S.nb \ NodesOf(Dropped(due)), deepest |-> S.deepest]
    /\ \A t \in kept : \E u \in due \ Dropped(due) :
          t.root = u.root /\ t.nodes = u.nodes /\ t.asks = u.asks + 1
    /\ \A u \in due \ Dropped(due) : \E t \in kept :
          t.root = u.root /\ t.nodes = u.nodes

LEMMA AskShape ==
    ASSUME NEW S, WellFormed(S), NEW due \in SUBSET S.inc,
           NEW T, T = AskIncomplete(S, due)
    PROVE  \E kept \in SUBSET Tree : Keeps(S, due, T, kept)
  <1> DEFINE kept == {[t EXCEPT !.asks = @ + 1] : t \in due \ Dropped(due)}
  <1>1. S \in Store /\ due \subseteq S.inc
    BY DEF WellFormed
  <1>2. \A u \in due \ Dropped(due) : u \in Tree /\ u.asks + 1 \in 0 .. MaxAsks
    BY <1>1 DEF Dropped, Store, Tree
  <1>3. \A u \in due \ Dropped(due) :
            /\ [u EXCEPT !.asks = @ + 1] \in Tree
            /\ [u EXCEPT !.asks = @ + 1].root = u.root
            /\ [u EXCEPT !.asks = @ + 1].nodes = u.nodes
            /\ [u EXCEPT !.asks = @ + 1].asks = u.asks + 1
    BY <1>2 DEF Tree
  <1>4. T = [main |-> S.main, inc |-> (S.inc \ due) \cup kept,
                  nb |-> S.nb \ NodesOf(Dropped(due)),
                  deepest |-> S.deepest]
    BY <1>1 DEF AskIncomplete, Store
  <1>5. kept \in SUBSET Tree
    BY <1>3
  <1>6. \A t \in kept : \E u \in due \ Dropped(due) :
            t.root = u.root /\ t.nodes = u.nodes /\ t.asks = u.asks + 1
    BY <1>3
  <1>7. \A u \in due \ Dropped(due) : \E t \in kept :
            t.root = u.root /\ t.nodes = u.nodes
    BY <1>3
  <1> HIDE DEF kept
  <1> QED
    BY <1>4, <1>5, <1>6, <1>7 DEF Keeps

LEMMA AskPreserves ==
    ASSUME NEW S, WellFormed(S), NEW due \in SUBSET S.inc,
           NEW T, T = AskIncomplete(S, due)
    PROVE  /\ WellFormed(T) /\ Held(T) \subseteq Held(S)
           /\ T.main = S.main /\ T.deepest = S.deepest
           /\ T.nb = S.nb \ NodesOf(Dropped(due))
  <1>0. PICK kept \in SUBSET Tree : Keeps(S, due, T, kept)
    BY AskShape
  <1>1. /\ T = [main |-> S.main, inc |-> (S.inc \ due) \cup kept,
                nb |-> S.nb \ NodesOf(Dropped(due)), deepest |-> S.deepest]
        /\ \A t \in kept : \E u \in due \ Dropped(due) :
              t.root = u.root /\ t.nodes = u.nodes /\ t.asks = u.asks + 1
        /\ \A u \in due \ Dropped(due) : \E t \in kept :
              t.root = u.root /\ t.nodes = u.nodes
    BY <1>0 DEF Keeps
  <1>2. /\ T.main = S.main /\ T.inc = (S.inc \ due) \cup kept
        /\ T.nb = S.nb \ NodesOf(Dropped(due))
        /\ T.deepest = S.deepest 
        /\ due \subseteq S.inc
    BY <1>1
  <1>3. T \in Store
    BY <1>1 DEF WellFormed, Store
  <1>4. MainConnectedIn(T) /\ DeepestIn(T)
    BY <1>2 DEF WellFormed, MainConnectedIn, DeepestIn
  <1>5. TreesDisjointIn(T)
    <2>1. \A t \in T.inc : \E u \in S.inc :
              t.root = u.root /\ t.nodes = u.nodes
      BY <1>1, <1>2
    <2>2. \A t, v \in T.inc : t.nodes \cap v.nodes # {} => t = v
      <3> SUFFICES ASSUME NEW t \in T.inc, NEW v \in T.inc,
                          t.nodes \cap v.nodes # {}
                   PROVE  t = v
        OBVIOUS
      <3>1. CASE t \in kept /\ v \in kept
        <4>1. PICK u \in due : t.root = u.root /\ t.nodes = u.nodes /\ t.asks = u.asks + 1
          BY <3>1, <1>1
        <4>2. PICK w \in due : v.root = w.root /\ v.nodes = w.nodes /\ v.asks = w.asks + 1
          BY <3>1, <1>1
        <4>3. u = w
          BY <4>1, <4>2, <1>2 DEF WellFormed, TreesDisjointIn
        <4> QED
          BY <4>1, <4>2, <4>3, <3>1 DEF Tree
      <3>2. CASE t \notin kept \/ v \notin kept
        BY <3>2, <1>1, <1>2 DEF WellFormed, TreesDisjointIn
      <3> QED
        BY <3>1, <3>2
    <2>3. \A t \in T.inc : /\ t.root \in t.nodes /\ t.nodes # {t.root}
                                /\ \A b \in t.nodes \ {t.root} : Parent[b] \in t.nodes
                                /\ t.nodes \cap S.main = {}
      BY <2>1 DEF WellFormed, TreesDisjointIn
    <2> QED
      BY <2>2, <2>3, <1>2 DEF TreesDisjointIn
  <1>6. RootShallowestIn(T)
    BY <1>1, <1>2 DEF WellFormed, RootShallowestIn
  <1>7. HeadersExactIn(T)
    <2> SUFFICES ASSUME NEW c
                 PROVE  c \in S.nb \ NodesOf(Dropped(due)) <=>
                          \/ c \in S.main
                          \/ \E t \in S.inc \ due : c \in t.nodes \ {t.root}
                          \/ \E t \in kept : c \in t.nodes \ {t.root}
      BY <1>2 DEF HeadersExactIn
    <2>1. c \in S.nb <=> \/ c \in S.main
                            \/ \E t \in S.inc : c \in t.nodes \ {t.root}
      BY DEF WellFormed, HeadersExactIn
    <2>2. c \in NodesOf(Dropped(due)) <=> \E t \in Dropped(due) : c \in t.nodes
      BY DEF NodesOf
    <2>3. Dropped(due) \subseteq due
      BY DEF Dropped
    <2>4. CASE \E t \in Dropped(due) : c \in t.nodes
      BY <2>1, <2>2, <2>3, <2>4, <1>1, <1>2 DEF WellFormed, TreesDisjointIn
    <2>5. CASE ~ \E t \in Dropped(due) : c \in t.nodes
      <3>1. (\E t \in kept : c \in t.nodes \ {t.root}) <=>
            (\E t \in due : c \in t.nodes \ {t.root})
        BY <2>5, <1>1
      <3> QED
        BY <3>1, <2>1, <2>2, <2>5, <1>2
    <2> QED
      BY <2>4, <2>5
  <1>8. Held(T) \subseteq Held(S)
    <2>1. \A t \in T.inc : t.nodes \subseteq NodesOf(S.inc)
      BY <1>1, <1>2 DEF NodesOf
    <2>2. NodesOf(T.inc) \subseteq NodesOf(S.inc)
      BY <2>1 DEF NodesOf
    <2> QED
      BY <2>2, <1>2 DEF Held
  <1> QED
    BY <1>2, <1>3, <1>4, <1>5, <1>6, <1>7, <1>8 DEF WellFormed

-----------------------------------------------------------------------------
(* Every operation on a store at once.                                     *)

(* What add_received_block does, whatever it returns: a main tree only     *)
(* grows and the deepest block only moves to a strictly deeper one; what   *)
(* is held besides are the block and its parent.                           *)
LEMMA ReceivePreserves ==
    ASSUME NEW S, WellFormed(S), NEW h \in Block \ {Genesis},
           NEW T \in AddReceived(S, h)
    PROVE  /\ WellFormed(T)
           /\ S.main \subseteq T.main
           /\ Held(T) \subseteq Held(S) \cup {h, Parent[h]}
           /\ T.deepest # S.deepest => Depth[T.deepest] > Depth[S.deepest]
           /\ h \in T.main /\ T # S => h \notin S.main
  <1>1. CASE h \in S.main \/ (Parent[h] \notin S.main /\ AlreadyParked(S, h))
    BY <1>1 DEF AddReceived
  <1>2. CASE h \notin S.main /\ Parent[h] \in S.main
    <2>1. T \in Connect(S, h)
      BY <1>2 DEF AddReceived
    <2>2. WellFormed(T) /\ Held(T) = Held(S) \cup {h}
      BY <1>2, <2>1, ConnectPreserves
    <2>3. /\ S.main \subseteq T.main
          /\ T.deepest # S.deepest => Depth[T.deepest] > Depth[S.deepest]
      BY <2>1 DEF Connect, DeepestAfter
    <2> QED
      BY <1>2, <2>2, <2>3
  <1>3. CASE h \notin S.main /\ Parent[h] \notin S.main /\ ~AlreadyParked(S, h)
    <2>1. T = Park(S, h)
      BY <1>3 DEF AddReceived
    <2>2. /\ WellFormed(T) /\ Held(T) = Held(S) \cup {h, Parent[h]}
          /\ T.main = S.main /\ T.deepest = S.deepest
      BY <1>3, <2>1, ParkPreserves
    <2> QED
      BY <1>3, <2>2
  <1> QED
    BY <1>1, <1>2, <1>3

-----------------------------------------------------------------------------
(* Blocks towards the genesis block.                                       *)

(* A set of blocks that is not empty has a shallowest one.                 *)
LEMMA ShallowestExists ==
    ASSUME NEW X \in SUBSET Block, X # {}
    PROVE  \E b \in X : \A c \in X : Depth[b] <= Depth[c]
  <1> DEFINE depths == {Depth[b] : b \in X}
             less   == {p \in Nat \X Nat : p[1] < p[2]}
  <1>1. depths \subseteq Nat /\ depths # {}
    OBVIOUS
  <1>2. IsWellFoundedOn(less, Nat)
    BY NatLessThanWellFounded DEF OpToRel
  <1>3. \A m, n \in Nat : m < n => <<m, n>> \in less
    OBVIOUS
  <1> HIDE DEF less, depths
  <1>4. PICK n \in depths : \A m \in depths : ~(<<m, n>> \in less)
    BY <1>1, <1>2, WFMin
  <1>5. \A m \in depths : n <= m
    <2> SUFFICES ASSUME NEW m \in depths PROVE n <= m
      OBVIOUS
    <2>1. m \in Nat /\ n \in Nat
      BY <1>1
    <2>2. ~(m < n)
      BY <2>1, <1>3, <1>4
    <2> QED
      BY <2>1, <2>2
  <1> QED
    BY <1>5 DEF depths

(* The recursive definition of Lineage is met by a function: the least     *)
(* sets that hold a block and, with each, its parent.                      *)
LEMMA LineageDef ==
    \A h \in Block : Lineage[h] = IF h = Genesis THEN {h} ELSE {h} \cup Lineage[Parent[h]]
  <1> DEFINE Closed(B, h) == h \in B /\ \A c \in B \ {Genesis} : Parent[c] \in B
             least == [h \in Block |-> {b \in Block : \A B \in SUBSET Block :
                                            Closed(B, h) => b \in B}]
             Body(f) == [h \in Block |->
                            IF h = Genesis THEN {h} ELSE {h} \cup f[Parent[h]]]
  <1>1. ASSUME NEW h \in Block
        PROVE  least[h] = IF h = Genesis THEN {h} ELSE {h} \cup least[Parent[h]]
    <2>1. CASE h = Genesis
      <3>1. Closed({h}, h)
        BY <2>1
      <3> QED
        BY <2>1, <3>1
    <2>2. CASE h # Genesis
      <3>1. Parent[h] \in Block
        BY <2>2
      <3> DEFINE above == {h} \cup least[Parent[h]]
      <3>2. Parent[h] \in least[Parent[h]] /\ above \in SUBSET Block
        BY <3>1
      <3>3. ASSUME NEW c \in least[Parent[h]] \ {Genesis}
            PROVE  Parent[c] \in least[Parent[h]]
        BY <3>1, <3>3
      <3>4. Closed(above, h)
        BY <2>2, <3>2, <3>3
      <3>5. least[h] \subseteq above
        <4> HIDE DEF Closed
        <4>1. \A b \in least[h] : \A B \in SUBSET Block : Closed(B, h) => b \in B
          OBVIOUS
        <4> HIDE DEF least, above
        <4> QED
          BY <3>2, <3>4, <4>1
      <3>6. above \subseteq least[h]
        <4>1. \A B \in SUBSET Block : Closed(B, h) => Closed(B, Parent[h])
          BY <2>2
        <4> QED
          BY <3>1, <4>1
      <3>7. least[h] = above
        BY <3>5, <3>6
      <3> HIDE DEF least
      <3> QED
        BY <2>2, <3>7
    <2> QED
      BY <2>1, <2>2
  <1>2. least = Body(least)
    BY <1>1
  <1>3. Lineage = CHOOSE f : f = Body(f)
    BY DEF Lineage
  <1> HIDE DEF least
  <1>4. Lineage = Body(Lineage)
    BY <1>2, <1>3
  <1> QED
    BY <1>4

(* A property of blocks that the genesis block has, and each block whose   *)
(* parent has it, is everybody's: stated for the set of its exceptions.    *)
LEMMA NoShallowest ==
    ASSUME NEW X \in SUBSET Block, Genesis \notin X,
           \A h \in X \ {Genesis} : Parent[h] \in X
    PROVE  X = {}
  <1> SUFFICES ASSUME X # {} PROVE FALSE
    OBVIOUS
  <1>1. PICK h \in X : \A c \in X : Depth[h] <= Depth[c]
    BY ShallowestExists
  <1>2. Parent[h] \in X /\ Depth[Parent[h]] < Depth[h] /\ Parent[h] \in Block
    BY ParentIsOther
  <1> QED
    BY <1>1, <1>2

(* A lineage begins at its block, ends at the genesis block, gets shallower *)
(* and holds the lineages of its blocks.                                    *)
LEMMA LineageHolds ==
    ASSUME NEW h \in Block
    PROVE  /\ h \in Lineage[h] /\ Genesis \in Lineage[h] /\ Lineage[h] \subseteq Block
           /\ \A b \in Lineage[h] : Depth[b] < Depth[h] \/ b = h
           /\ \A b \in Lineage[h] : Lineage[b] \subseteq Lineage[h]
  <1> DEFINE P(c) == /\ c \in Lineage[c] /\ Genesis \in Lineage[c] /\ Lineage[c] \subseteq Block
                     /\ \A b \in Lineage[c] : Depth[b] < Depth[c] \/ b = c
                     /\ \A b \in Lineage[c] : Lineage[b] \subseteq Lineage[c]
             X == {c \in Block : ~P(c)}
  <1>1. P(Genesis)
    BY LineageDef
  <1>2. ASSUME NEW c \in Block \ {Genesis}, P(Parent[c]) PROVE P(c)
    <2>1. Lineage[c] = {c} \cup Lineage[Parent[c]] /\ Parent[c] \in Block
      BY LineageDef, ParentIsOther
    <2>2. \A b \in Lineage[Parent[c]] : Depth[b] < Depth[c]
      BY <1>2, <2>1, ParentIsOther
    <2> QED
      BY <1>2, <2>1, <2>2
  <1> HIDE DEF P
  <1>3. X = {}
    <2>1. \A c \in X \ {Genesis} : Parent[c] \in X
      BY <1>2, ParentIsOther
    <2>2. X \in SUBSET Block /\ Genesis \notin X
      BY <1>1
    <2> HIDE DEF X
    <2> QED
      BY <2>1, <2>2, NoShallowest
  <1> QED
    BY <1>3 DEF P

(* Of two blocks of a lineage the shallower is in the lineage of the other. *)
LEMMA LineageIsChain ==
    ASSUME NEW h \in Block, NEW b \in Lineage[h], NEW c \in Lineage[h],
           Depth[b] <= Depth[c]
    PROVE  b \in Lineage[c]
  <1> DEFINE P(a) == \A x, y \in Lineage[a] : Depth[x] <= Depth[y] => x \in Lineage[y]
             X == {a \in Block : ~P(a)}
  <1>1. P(Genesis)
    BY LineageDef
  <1>2. ASSUME NEW a \in Block \ {Genesis}, P(Parent[a]) PROVE P(a)
    <2>1. /\ Lineage[a] = {a} \cup Lineage[Parent[a]] /\ Parent[a] \in Block
          /\ Lineage[a] \subseteq Block /\ Depth[Parent[a]] < Depth[a]
      BY LineageDef, ParentIsOther, LineageHolds
    <2>2. \A x \in Lineage[Parent[a]] : x \in Block /\ Depth[x] < Depth[a]
      BY <2>1, LineageHolds
    <2> QED
      BY <1>2, <2>1, <2>2, LineageHolds
  <1> HIDE DEF P
  <1>3. X = {}
    <2>1. \A a \in X \ {Genesis} : Parent[a] \in X
      BY <1>2, ParentIsOther
    <2>2. X \in SUBSET Block /\ Genesis \notin X
      BY <1>1
    <2> HIDE DEF X
    <2> QED
      BY <2>1, <2>2, NoShallowest
  <1> QED
    BY <1>3 DEF P

(* A lineage has a block of every depth.                                   *)
LEMMA LineageIsGapless ==
    ASSUME NEW h \in Block, NEW d \in 0 .. Depth[h]
    PROVE  \E b \in Lineage[h] : Depth[b] = d
  <1> DEFINE P(a) == \A e \in 0 .. Depth[a] : \E b \in Lineage[a] : Depth[b] = e
             X == {a \in Block : ~P(a)}
  <1>1. P(Genesis)
    <2>1. Lineage[Genesis] = {Genesis}
      BY LineageDef
    <2>2. \A e \in 0 .. Depth[Genesis] : e = Depth[Genesis]
      OBVIOUS
    <2> QED
      BY <2>1, <2>2
  <1>2. ASSUME NEW a \in Block \ {Genesis}, P(Parent[a]) PROVE P(a)
    <2>1. /\ Lineage[a] = {a} \cup Lineage[Parent[a]] /\ Parent[a] \in Block
          /\ Depth[a] = Depth[Parent[a]] + 1 /\ Depth[Parent[a]] \in Nat
      BY LineageDef, ParentIsOther
    <2> QED
      BY <1>2, <2>1
  <1> HIDE DEF P
  <1>3. X = {}
    <2>1. \A a \in X \ {Genesis} : Parent[a] \in X
      BY <1>2, ParentIsOther
    <2>2. X \in SUBSET Block /\ Genesis \notin X
      BY <1>1
    <2> HIDE DEF X
    <2> QED
      BY <2>1, <2>2, NoShallowest
  <1> QED
    BY <1>3 DEF P

(* The main tree holds the lineage of each of its blocks.                  *)
LEMMA MainHoldsLineage ==
    ASSUME NEW S, WellFormed(S), NEW h \in S.main
    PROVE  h \in Block /\ Lineage[h] \subseteq S.main
  <1> DEFINE X == {a \in S.main : ~(Lineage[a] \subseteq S.main)}
  <1>1. S.main \subseteq Block /\ Genesis \in S.main
    BY DEF WellFormed, Store, MainConnectedIn
  <1>2. \A a \in S.main \ {Genesis} : /\ Parent[a] \in S.main
                                     /\ Lineage[a] = {a} \cup Lineage[Parent[a]]
    BY <1>1, LineageDef DEF WellFormed, MainConnectedIn
  <1>3. X = {}
    <2>1. Genesis \notin X
      BY <1>1, LineageDef
    <2>2. \A a \in X \ {Genesis} : Parent[a] \in X
      BY <1>2
    <2>3. X \in SUBSET Block
      BY <1>1
    <2> HIDE DEF X
    <2> QED
      BY <2>1, <2>2, <2>3, NoShallowest
  <1> QED
    BY <1>1, <1>3

=============================================================================
