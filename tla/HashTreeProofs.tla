---------------------------- MODULE HashTreeProofs ----------------------------
(***************************************************************************)
(* Theorems about the store of one chain as it lies in memory: it always   *)
(* has its inductive invariant, so every lookup is exact and the links     *)
(* agree, and it implements the store of sets.                             *)
(*                                                                         *)
(* The proof goes up from the pointers: what is reached along two of them, *)
(* what is searched in a tree, what moving the nodes of one tree to        *)
(* another does, what linking a tree below a block does, what a step does  *)
(* to all trees (Tidy), and what it does to the store (Sound).             *)
(***************************************************************************)
EXTENDS HashTree, ChainTreeProofs, FiniteSetTheorems

USE HashAssumption

-----------------------------------------------------------------------------
(* What is reached along two pointers.                                     *)

(* The recursive definition of Reach is met by a function: the least sets  *)
(* that hold a node and, with each, what it points to.                     *)
LEMMA ReachDef ==
    ASSUME NEW f \in [Block -> Pointer], NEW g \in [Block -> Pointer]
    PROVE  \A x \in Pointer : Reach(f, g, x) =
              IF x = Null THEN {} ELSE {x} \cup Reach(f, g, f[x]) \cup Reach(f, g, g[x])
  <1> DEFINE Closed(B, x) == /\ x # Null => x \in B
                             /\ \A c \in B : /\ f[c] # Null => f[c] \in B
                                             /\ g[c] # Null => g[c] \in B
             least == [x \in Pointer |-> {b \in Block : \A B \in SUBSET Block :
                                            Closed(B, x) => b \in B}]
             Body(N) == [c \in Pointer |->
                           IF c = Null THEN {} ELSE {c} \cup N[f[c]] \cup N[g[c]]]
             R == CHOOSE N : N = Body(N)
  <1>1. ASSUME NEW x \in Pointer
        PROVE  least[x] = IF x = Null THEN {} ELSE {x} \cup least[f[x]] \cup least[g[x]]
    <2>1. CASE x = Null
      <3>1. Closed({}, x)
        BY <2>1
      <3> QED
        BY <2>1, <3>1
    <2>2. CASE x # Null
      <3> DEFINE all == {x} \cup least[f[x]] \cup least[g[x]]
      <3>1. x \in Block /\ f[x] \in Pointer /\ g[x] \in Pointer
        BY <2>2 DEF Pointer
      <3>2. all \in SUBSET Block
        BY <3>1
      <3>3. ASSUME NEW y \in Pointer
            PROVE  /\ y # Null => y \in least[y]
                   /\ \A c \in least[y] : /\ f[c] # Null => f[c] \in least[y]
                                          /\ g[c] # Null => g[c] \in least[y]
        <4>1. y # Null => y \in least[y]
          BY DEF Pointer
        <4>2. ASSUME NEW c \in least[y], f[c] # Null PROVE f[c] \in least[y]
          BY <4>2 DEF Pointer
        <4>3. ASSUME NEW c \in least[y], g[c] # Null PROVE g[c] \in least[y]
          BY <4>3 DEF Pointer
        <4> QED
          BY <4>1, <4>2, <4>3
      <3>4. Closed(all, x)
        <4> HIDE DEF least
        <4> QED
          BY <3>1, <3>3
      <3>5. least[x] \subseteq all
        <4> HIDE DEF Closed
        <4>1. \A b \in least[x] : \A B \in SUBSET Block : Closed(B, x) => b \in B
          OBVIOUS
        <4> HIDE DEF least, all
        <4> QED
          BY <3>2, <3>4, <4>1
      <3>6. all \subseteq least[x]
        <4>1. \A B \in SUBSET Block :
                 Closed(B, x) => x \in B /\ Closed(B, f[x]) /\ Closed(B, g[x])
          BY <2>2
        <4> HIDE DEF Closed
        <4> QED
          BY <3>1, <4>1
      <3>7. least[x] = all
        BY <3>5, <3>6
      <3> HIDE DEF least
      <3> QED
        BY <2>2, <3>7
    <2> QED
      BY <2>1, <2>2
  <1>2. least = Body(least)
    BY <1>1
  <1> HIDE DEF least
  <1>3. R = Body(R)
    BY <1>2
  <1>4. \A x \in Pointer : Reach(f, g, x) = R[x]
    BY DEF Reach
  <1>5. \A c \in Block : f[c] \in Pointer /\ g[c] \in Pointer
    OBVIOUS
  <1> HIDE DEF R
  <1> QED
    BY <1>3, <1>4, <1>5 DEF Pointer

(* The first case of an argument along the pointers: a set of exceptions   *)
(* that is not empty has one that points to none.                          *)
LEMMA FirstCase ==
    ASSUME NEW f \in [Block -> Pointer], NEW g \in [Block -> Pointer], Grounded(f, g),
           NEW B \in SUBSET Block, B # {}
    PROVE  \E b \in B : f[b] \notin B /\ g[b] \notin B
  BY DEF Grounded

(* The function of ReachDef at a node is what is reached from it.          *)
LEMMA ReachIsNodes ==
    ASSUME NEW f \in [Block -> Pointer], NEW g \in [Block -> Pointer], Grounded(f, g)
    PROVE  /\ Reach(f, g, Null) = {}
           /\ \A x \in Block : /\ x \in Reach(f, g, x) /\ Reach(f, g, x) \subseteq Block
                               /\ f[x] # Null => f[x] \in Reach(f, g, x)
                               /\ g[x] # Null => g[x] \in Reach(f, g, x)
                               /\ Reach(f, g, f[x]) \subseteq Reach(f, g, x)
                               /\ Reach(f, g, g[x]) \subseteq Reach(f, g, x)
           /\ \A x \in Pointer : Reach(f, g, x) \subseteq Block
  <1> DEFINE N(x) == Reach(f, g, x)
             B == {x \in Block : ~(N(x) \subseteq Block)}
  <1>1. \A x \in Pointer : N(x) = IF x = Null THEN {} ELSE {x} \cup N(f[x]) \cup N(g[x])
    BY ReachDef
  <1>2. Null \in Pointer /\ \A x \in Block : x \in Pointer /\ x # Null
    BY DEF Pointer, Null
  <1>3. \A x \in Block : f[x] \in Pointer /\ g[x] \in Pointer
    OBVIOUS
  <1> HIDE DEF N
  <1>4. B = {}
    <2> SUFFICES ASSUME B # {} PROVE FALSE
      OBVIOUS
    <2>1. PICK x \in B : f[x] \notin B /\ g[x] \notin B
      BY FirstCase
    <2>2. N(f[x]) \subseteq Block /\ N(g[x]) \subseteq Block
      BY <1>1, <1>2, <1>3, <2>1 DEF Pointer
    <2> QED
      BY <1>1, <1>2, <2>2
  <1>5. \A x \in Pointer : N(x) \subseteq Block
    BY <1>1, <1>2, <1>4 DEF Pointer
  <1>6. ASSUME NEW x \in Block
        PROVE  /\ x \in N(x) /\ f[x] # Null => f[x] \in N(x)
               /\ g[x] # Null => g[x] \in N(x)
               /\ N(f[x]) \subseteq N(x) /\ N(g[x]) \subseteq N(x)
    BY <1>1, <1>2, <1>3
  <1> QED
    BY <1>1, <1>2, <1>5, <1>6 DEF N

(* What a node reaches is itself and what its pointers reach.              *)
LEMMA ReachOf ==
    ASSUME NEW f \in [Block -> Pointer], NEW g \in [Block -> Pointer], NEW x \in Block
    PROVE  Reach(f, g, x) = {x} \cup Reach(f, g, f[x]) \cup Reach(f, g, g[x])
  BY ReachDef DEF Pointer, Null

(* What is closed under the pointers holds all that is reached from it.    *)
LEMMA ReachClosed ==
    ASSUME NEW f \in [Block -> Pointer], NEW g \in [Block -> Pointer], Grounded(f, g),
           NEW C \in SUBSET Block,
           \A c \in C : /\ f[c] # Null => f[c] \in C
                        /\ g[c] # Null => g[c] \in C
    PROVE  \A x \in C : Reach(f, g, x) \subseteq C
  <1> DEFINE N(x) == Reach(f, g, x)
             B == {x \in C : ~(N(x) \subseteq C)}
  <1> SUFFICES ASSUME B # {} PROVE FALSE
    OBVIOUS
  <1>1. \A x \in Block : N(x) = {x} \cup N(f[x]) \cup N(g[x])
    BY ReachOf
  <1>2. N(Null) = {}
    BY ReachIsNodes
  <1> HIDE DEF N
  <1>3. PICK x \in B : f[x] \notin B /\ g[x] \notin B
    BY FirstCase
  <1>4. N(f[x]) \subseteq C /\ N(g[x]) \subseteq C
    BY <1>2, <1>3
  <1> QED
    BY <1>1, <1>3, <1>4

(* What is reached from a node that is reached is reached.                 *)
LEMMA ReachTransitive ==
    ASSUME NEW f \in [Block -> Pointer], NEW g \in [Block -> Pointer], Grounded(f, g),
           NEW x \in Pointer
    PROVE  \A c \in Reach(f, g, x) :
              /\ c \in Block /\ Reach(f, g, c) \subseteq Reach(f, g, x)
              /\ f[c] # Null => f[c] \in Reach(f, g, x)
              /\ g[c] # Null => g[c] \in Reach(f, g, x)
  <1> DEFINE N(b) == Reach(f, g, b)
             B == {b \in Block : \E c \in N(b) : ~(N(c) \subseteq N(b))}
  <1>1. \A b \in Block : N(b) = {b} \cup N(f[b]) \cup N(g[b])
    BY ReachOf
  <1>2. /\ N(Null) = {} /\ \A b \in Pointer : N(b) \subseteq Block
        /\ \A b \in Block : b \in N(b)
    BY ReachIsNodes
  <1>3. \A b \in Block : f[b] \in Pointer /\ g[b] \in Pointer
    OBVIOUS
  <1> HIDE DEF N
  <1>4. B = {}
    <2> SUFFICES ASSUME B # {} PROVE FALSE
      OBVIOUS
    <2>1. PICK b \in B : f[b] \notin B /\ g[b] \notin B
      BY FirstCase
    <2>2. PICK c \in N(b) : ~(N(c) \subseteq N(b))
      BY <2>1
    <2>3. CASE c \in N(f[b])
      BY <1>1, <1>2, <1>3, <2>1, <2>2, <2>3 DEF Pointer
    <2>4. CASE c \in N(g[b])
      BY <1>1, <1>2, <1>3, <2>1, <2>2, <2>4 DEF Pointer
    <2> QED
      BY <1>1, <2>1, <2>2, <2>3, <2>4
  <1>5. ASSUME NEW c \in N(x)
        PROVE  /\ c \in Block /\ N(c) \subseteq N(x)
               /\ f[c] # Null => f[c] \in N(x)
               /\ g[c] # Null => g[c] \in N(x)
    <2>1. c \in Block /\ N(c) \subseteq N(x)
      BY <1>2, <1>4 DEF Pointer
    <2>2. N(f[c]) \subseteq N(x) /\ N(g[c]) \subseteq N(x)
      BY <1>1, <2>1
    <2> QED
      BY <1>2, <1>3, <2>1, <2>2 DEF Pointer
  <1> QED
    BY <1>5 DEF N

(* No node reaches itself.                                                 *)
LEMMA ReachNoCycle ==
    ASSUME NEW f \in [Block -> Pointer], NEW g \in [Block -> Pointer], Grounded(f, g),
           NEW b \in Block
    PROVE  b \notin Reach(f, g, f[b]) /\ b \notin Reach(f, g, g[b])
  <1> DEFINE N(x) == Reach(f, g, x)
             B == {c \in Block : c \in N(b) /\ b \in N(c)}
  <1> SUFFICES ASSUME b \in N(f[b]) \/ b \in N(g[b]) PROVE FALSE
    OBVIOUS
  <1>1. \A x \in Block : N(x) = {x} \cup N(f[x]) \cup N(g[x]) /\ x \in N(x)
    BY ReachOf
  <1>2. N(Null) = {}
    BY ReachIsNodes
  <1>3. \A c \in N(b) : /\ f[c] # Null => f[c] \in N(b)
                        /\ g[c] # Null => g[c] \in N(b)
    BY ReachTransitive DEF Pointer
  <1> HIDE DEF N
  <1>4. b \in B
    BY <1>1
  <1>5. PICK c \in B : f[c] \notin B /\ g[c] \notin B
    BY <1>4, FirstCase
  <1>6. b \in N(f[c]) \/ b \in N(g[c])
    BY <1>1, <1>5
  <1>7. CASE b \in N(f[c])
    BY <1>2, <1>3, <1>5, <1>7 DEF Pointer
  <1>8. CASE b \in N(g[c])
    BY <1>2, <1>3, <1>5, <1>8 DEF Pointer
  <1> QED
    BY <1>6, <1>7, <1>8

(* What is reached depends on the pointers of what is reached only.        *)
LEMMA ReachFrame ==
    ASSUME NEW f \in [Block -> Pointer], NEW g \in [Block -> Pointer], Grounded(f, g),
           NEW e \in [Block -> Pointer], NEW k \in [Block -> Pointer],
           NEW x \in Pointer,
           \A c \in Reach(f, g, x) : e[c] = f[c] /\ k[c] = g[c]
    PROVE  Reach(e, k, x) = Reach(f, g, x)
  <1> DEFINE N(b) == Reach(f, g, b)
             M(b) == Reach(e, k, b)
             B == {b \in N(x) \cap Block : M(b) # N(b)}
  <1>1. \A b \in Block : N(b) = {b} \cup N(f[b]) \cup N(g[b])
    BY ReachOf
  <1>2. \A b \in Block : M(b) = {b} \cup M(e[b]) \cup M(k[b])
    BY ReachOf
  <1>3. N(Null) = {} /\ M(Null) = {}
    BY ReachIsNodes, ReachDef DEF Pointer
  <1>4. \A c \in N(x) : /\ f[c] # Null => f[c] \in N(x)
                        /\ g[c] # Null => g[c] \in N(x)
    BY ReachTransitive
  <1>5. x \in Block => x \in N(x)
    BY <1>1
  <1>6. \A c \in N(x) : e[c] = f[c] /\ k[c] = g[c]
    OBVIOUS
  <1>7. \A b \in Block : f[b] \in Pointer /\ g[b] \in Pointer
    OBVIOUS
  <1> HIDE DEF N, M
  <1>8. B = {}
    <2> SUFFICES ASSUME B # {} PROVE FALSE
      OBVIOUS
    <2>1. PICK b \in B : f[b] \notin B /\ g[b] \notin B
      BY FirstCase
    <2>2. M(f[b]) = N(f[b]) /\ M(g[b]) = N(g[b])
      BY <1>3, <1>4, <1>7, <2>1 DEF Pointer
    <2>3. e[b] = f[b] /\ k[b] = g[b]
      BY <1>6, <2>1
    <2>4. M(b) = {b} \cup N(f[b]) \cup N(g[b])
      BY <1>2, <2>1, <2>2, <2>3
    <2> QED
      BY <1>1, <2>1, <2>4
  <1>9. M(x) = N(x)
    BY <1>3, <1>5, <1>8 DEF Pointer
  <1> QED
    BY <1>9 DEF N, M

(* A walk along one pointer has an end.                                    *)
LEMMA WalkEnds ==
    ASSUME NEW f \in [Block -> Pointer], Grounded(f, Nowhere), NEW x \in Block
    PROVE  EndOf(f, x) \in Walk(f, x) /\ f[EndOf(f, x)] = Null
  <1> DEFINE W(b) == Walk(f, b)
             B == {b \in Block : \A c \in W(b) : f[c] # Null}
  <1>1. Nowhere \in [Block -> Pointer]
    BY DEF Nowhere, Pointer
  <1>2. \A b \in Block : b \in W(b) /\ W(f[b]) \subseteq W(b)
    BY <1>1, ReachIsNodes DEF Walk
  <1> HIDE DEF W
  <1>3. B = {}
    <2> SUFFICES ASSUME B # {} PROVE FALSE
      OBVIOUS
    <2>1. PICK b \in B : f[b] \notin B
      BY <1>1, FirstCase
    <2> QED
      BY <1>2, <2>1 DEF Pointer
  <1>4. \E c \in W(x) : f[c] = Null
    BY <1>3
  <1> QED
    BY <1>4 DEF EndOf, W

(* A pointer of z that led nowhere is set to c, from which z is not        *)
(* reached.                                                                *)
Grafts(f, g, e, k, z, c) ==
    /\ f \in [Block -> Pointer] /\ g \in [Block -> Pointer] /\ Grounded(f, g)
    /\ e \in [Block -> Pointer] /\ k \in [Block -> Pointer]
    /\ z \in Block /\ c \in Block /\ z \notin Reach(f, g, c)
    /\ \A b \in Block \ {z} : e[b] = f[b] /\ k[b] = g[b]
    /\ \/ f[z] = Null /\ e[z] = c /\ k[z] = g[z]
       \/ g[z] = Null /\ k[z] = c /\ e[z] = f[z]

(* Then all that reached z reaches also what c does.                       *)
LEMMA Graft ==
    ASSUME NEW f, NEW g, NEW e, NEW k, NEW z, NEW c, Grafts(f, g, e, k, z, c)
    PROVE  /\ Grounded(e, k)
           /\ \A b \in Pointer : Reach(e, k, b) =
                 Reach(f, g, b) \cup IF z \in Reach(f, g, b) THEN Reach(f, g, c) ELSE {}
  <1> USE DEF Grafts
  <1> DEFINE N(b) == Reach(f, g, b)
             M(b) == Reach(e, k, b)
  <1>1. \A b \in Block : N(b) = {b} \cup N(f[b]) \cup N(g[b])
    BY ReachOf
  <1>2. \A b \in Block : M(b) = {b} \cup M(e[b]) \cup M(k[b])
    BY ReachOf
  <1>3. N(Null) = {} /\ M(Null) = {}
    BY ReachIsNodes, ReachDef DEF Pointer
  <1>4. \A d \in N(c) : /\ f[d] # Null => f[d] \in N(c)
                        /\ g[d] # Null => g[d] \in N(c)
    BY ReachTransitive DEF Pointer
  <1>5. z \notin N(f[z]) /\ z \notin N(g[z])
    BY ReachNoCycle
  <1>6. \A b \in Block : e[b] \in Pointer /\ k[b] \in Pointer
    OBVIOUS
  <1>7. M(c) = N(c)
    <2>1. \A d \in N(c) : e[d] = f[d] /\ k[d] = g[d]
      BY ReachTransitive DEF Pointer
    <2> QED
      BY <2>1, ReachFrame DEF Pointer
  <1>8. z \notin N(c) /\ c \in N(c)
    BY <1>1
  <1> HIDE DEF N, M
  <1>9. Grounded(e, k)
    <2> SUFFICES ASSUME NEW B \in SUBSET Block, B # {}
                 PROVE  \E b \in B : e[b] \notin B /\ k[b] \notin B
      BY DEF Grounded
    <2>1. Null \notin B
      BY DEF Null
    <2>2. CASE B \cap N(c) = {}
      <3>1. PICK b \in B : f[b] \notin B /\ g[b] \notin B
        BY FirstCase
      <3> QED
        BY <1>8, <2>2, <3>1
    <2>3. CASE B \cap N(c) # {}
      <3>1. PICK b \in B \cap N(c) : f[b] \notin B \cap N(c) /\ g[b] \notin B \cap N(c)
        BY <2>3, FirstCase
      <3>2. f[b] \notin B /\ g[b] \notin B
        BY <1>4, <2>1, <3>1
      <3> QED
        BY <1>8, <3>1, <3>2
    <2> QED
      BY <2>2, <2>3
  <1> DEFINE New(b) == N(b) \cup IF z \in N(b) THEN N(c) ELSE {}
             B == {b \in Block : M(b) # New(b)}
  <1>10. B = {}
    <2> SUFFICES ASSUME B # {} PROVE FALSE
      OBVIOUS
    <2>1. PICK b \in B : e[b] \notin B /\ k[b] \notin B
      BY <1>9, FirstCase
    <2>2. M(e[b]) = New(e[b]) /\ M(k[b]) = New(k[b])
      BY <1>3, <1>6, <2>1 DEF Pointer
    <2>3. CASE b # z
      <3>1. e[b] = f[b] /\ k[b] = g[b]
        BY <2>1, <2>3
      <3> QED
        BY <1>1, <1>2, <2>1, <2>2, <2>3, <3>1
    <2>4. CASE b = z
      <3>1. New(c) = N(c) /\ New(f[z]) = N(f[z]) /\ New(g[z]) = N(g[z])
        BY <1>5, <1>8
      <3> QED
        BY <1>1, <1>2, <1>3, <2>1, <2>2, <2>4, <3>1
    <2> QED
      BY <2>3, <2>4
  <1>11. \A b \in Pointer : M(b) = New(b)
    BY <1>3, <1>10 DEF Pointer
  <1> QED
    BY <1>9, <1>11 DEF N, M

-----------------------------------------------------------------------------
(* Search trees.                                                           *)

(* A memory whose search trees can be searched. *)
Searchable(s) == s \in Memory /\ Grounded(s.left, s.right) /\ Ordered(s)

(* Nothing outside the search tree of r points into it. *)
Enclosed(s, r) == \A c \in Block \ Nodes(s, r) : /\ s.left[c] \notin Nodes(s, r)
                                                 /\ s.right[c] \notin Nodes(s, r)

(* The nodes of a search tree: its root and the two trees below.           *)
LEMMA NodesFacts ==
    ASSUME NEW s \in Memory, Grounded(s.left, s.right)
    PROVE  /\ Nodes(s, Null) = {}
           /\ \A b \in Block : /\ s.left[b] \in Pointer /\ s.right[b] \in Pointer
                               /\ b \in Nodes(s, b)
                               /\ Nodes(s, b) = {b} \cup Nodes(s, s.left[b])
                                                    \cup Nodes(s, s.right[b])
                               /\ b \notin Nodes(s, s.left[b])
                               /\ b \notin Nodes(s, s.right[b])
           /\ \A b \in Pointer : Nodes(s, b) \subseteq Block
           /\ \A b \in Pointer : \A c \in Nodes(s, b) :
                 /\ Nodes(s, c) \subseteq Nodes(s, b)
                 /\ s.left[c] # Null => s.left[c] \in Nodes(s, b)
                 /\ s.right[c] # Null => s.right[c] \in Nodes(s, b)
  <1>1. s.left \in [Block -> Pointer] /\ s.right \in [Block -> Pointer]
    BY DEF Memory
  <1>2. /\ Nodes(s, Null) = {}
        /\ \A b \in Block : b \in Nodes(s, b)
        /\ \A b \in Pointer : Nodes(s, b) \subseteq Block
    BY <1>1, ReachIsNodes DEF Nodes
  <1>3. \A b \in Block : Nodes(s, b) = {b} \cup Nodes(s, s.left[b]) \cup Nodes(s, s.right[b])
    BY <1>1, ReachOf DEF Nodes
  <1>4. \A b \in Block : b \notin Nodes(s, s.left[b]) /\ b \notin Nodes(s, s.right[b])
    BY <1>1, ReachNoCycle DEF Nodes
  <1>5. \A b \in Pointer : \A c \in Nodes(s, b) :
           /\ Nodes(s, c) \subseteq Nodes(s, b)
           /\ s.left[c] # Null => s.left[c] \in Nodes(s, b)
           /\ s.right[c] # Null => s.right[c] \in Nodes(s, b)
    BY <1>1, ReachTransitive DEF Nodes
  <1> QED
    BY <1>1, <1>2, <1>3, <1>4, <1>5

(* A hash is a positive number, and the null pointer is none.              *)
LEMMA BlockIsPointer == /\ \A b \in Block : b \in Pointer /\ b # Null /\ b \in Nat
                        /\ Null \in Pointer /\ Null \notin Block
                        /\ \A b \in Pointer : b # Null => b \in Block
                        /\ Nowhere \in [Block -> Pointer]
                        /\ \A b \in Block : Nowhere[b] = Null
  BY DEF Pointer, Null, Nowhere

(* The way that a lookup of h takes from a node: one pointer of each.      *)
LEMMA DownFacts ==
    ASSUME NEW s, Searchable(s), NEW h \in Block
    PROVE  /\ Down(s, h) \in [Block -> Pointer]
           /\ \A c \in Block : Down(s, h)[c] = IF c >= h THEN s.left[c] ELSE s.right[c]
           /\ Grounded(Down(s, h), Nowhere)
           /\ \A c \in Block : Walk(Down(s, h), c) = {c} \cup Walk(Down(s, h), Down(s, h)[c])
           /\ Walk(Down(s, h), Null) = {}
  <1>1. \A c \in Block : s.left[c] \in Pointer /\ s.right[c] \in Pointer
    BY NodesFacts DEF Searchable
  <1>2. /\ Down(s, h) \in [Block -> Pointer]
        /\ \A c \in Block : Down(s, h)[c] = IF c >= h THEN s.left[c] ELSE s.right[c]
    BY <1>1 DEF Down
  <1>3. Grounded(Down(s, h), Nowhere)
    <2> SUFFICES ASSUME NEW B \in SUBSET Block, B # {}
                 PROVE  \E b \in B : Down(s, h)[b] \notin B /\ Nowhere[b] \notin B
      BY DEF Grounded
    <2>1. PICK b \in B : s.left[b] \notin B /\ s.right[b] \notin B
      BY DEF Searchable, Grounded
    <2> QED
      BY <1>2, <2>1, BlockIsPointer
  <1>4. Walk(Down(s, h), Null) = {}
    BY <1>2, <1>3, ReachIsNodes, BlockIsPointer DEF Walk
  <1>5. ASSUME NEW c \in Block
        PROVE  Walk(Down(s, h), c) = {c} \cup Walk(Down(s, h), Down(s, h)[c])
    <2>1. Walk(Down(s, h), c) = {c} \cup Reach(Down(s, h), Nowhere, Down(s, h)[c])
                                    \cup Reach(Down(s, h), Nowhere, Nowhere[c])
      BY <1>2, ReachOf, BlockIsPointer DEF Walk
    <2>2. Nowhere[c] = Null
      BY BlockIsPointer
    <2> QED
      BY <1>4, <2>1, <2>2 DEF Walk
  <1> QED
    BY <1>2, <1>3, <1>4, <1>5

(* The way down from x to the place of h: every node of it is below x, and *)
(* h is on it if it is below x at all.                                     *)
LEMMA WayDown ==
    ASSUME NEW s, Searchable(s), NEW h \in Block, NEW x \in Pointer
    PROVE  /\ Walk(Down(s, h), x) \subseteq Nodes(s, x)
           /\ h \in Nodes(s, x) => h \in Walk(Down(s, h), x)
  <1> DEFINE W(b) == Walk(Down(s, h), b)
             N(b) == Nodes(s, b)
             d == Down(s, h)
             B == {b \in Block : ~(W(b) \subseteq N(b)) \/ (h \in N(b) /\ h \notin W(b))}
  <1>1. /\ d \in [Block -> Pointer] /\ W(Null) = {}
        /\ \A c \in Block : d[c] = IF c >= h THEN s.left[c] ELSE s.right[c]
        /\ \A c \in Block : W(c) = {c} \cup W(d[c])
    BY DownFacts
  <1>2. /\ N(Null) = {}
        /\ \A b \in Block : N(b) = {b} \cup N(s.left[b]) \cup N(s.right[b])
        /\ \A b \in Block : s.left[b] \in Pointer /\ s.right[b] \in Pointer
    BY NodesFacts DEF Searchable
  <1>3. \A b \in Block : /\ \A c \in N(s.left[b]) : c < b
                         /\ \A c \in N(s.right[b]) : b < c
    BY DEF Searchable, Ordered
  <1>4. \A b \in Block : b \in Nat
    OBVIOUS
  <1> HIDE DEF W, N, d
  <1>5. B = {}
    <2> SUFFICES ASSUME B # {} PROVE FALSE
      OBVIOUS
    <2>1. PICK b \in B : s.left[b] \notin B /\ s.right[b] \notin B
      BY DEF Searchable, Grounded
    <2>2. d[b] \in Pointer /\ d[b] \notin B
      BY <1>1, <1>2, <2>1
    <2>3. W(d[b]) \subseteq N(d[b]) /\ (h \in N(d[b]) => h \in W(d[b]))
      BY <1>1, <1>2, <2>2, BlockIsPointer
    <2>4. N(d[b]) \subseteq N(b) /\ W(b) = {b} \cup W(d[b])
      BY <1>1, <1>2, <2>1
    <2>5. b \in N(b)
      BY <1>2, <2>1
    <2>6. h \in N(b) => h = b \/ h \in N(d[b])
      BY <1>1, <1>2, <1>3, <1>4, <2>1
    <2> QED
      BY <2>1, <2>3, <2>4, <2>5, <2>6
  <1>6. W(x) \subseteq N(x) /\ (h \in N(x) => h \in W(x))
    BY <1>1, <1>2, <1>5, BlockIsPointer
  <1> QED
    BY <1>6 DEF W, N

(* find_block_by_hash finds exactly what is in the search tree.            *)
LEMMA HoldsIsNodes ==
    ASSUME NEW s, Searchable(s), NEW h \in Block, NEW x \in Pointer
    PROVE  Holds(s, x, h) <=> h \in Nodes(s, x)
  BY WayDown DEF Holds

(* Where the way down to the place of a new h ends, h belongs.             *)
LEMMA PlaceOf ==
    ASSUME NEW s, Searchable(s), NEW r \in Block, NEW h \in Block, h \notin Nodes(s, r),
           NEW z, z = EndOf(Down(s, h), r)
    PROVE  /\ z \in Nodes(s, r) /\ z \in Block /\ z # h
           /\ z > h => s.left[z] = Null
           /\ z < h => s.right[z] = Null
           /\ \A b \in Nodes(s, r) : /\ z \in Nodes(s, s.left[b]) => h < b
                                     /\ z \in Nodes(s, s.right[b]) => b < h
  <1> DEFINE W(b) == Walk(Down(s, h), b)
             N(b) == Nodes(s, b)
             d == Down(s, h)
             Right(b) == /\ z \in N(s.left[b]) => h < b
                         /\ z \in N(s.right[b]) => b < h
             B == {x \in Block : h \notin N(x) /\ z \in W(x) /\ \E b \in N(x) : ~Right(b)}
  <1>1. /\ d \in [Block -> Pointer] /\ W(Null) = {} /\ Grounded(d, Nowhere)
        /\ \A c \in Block : d[c] = IF c >= h THEN s.left[c] ELSE s.right[c]
        /\ \A c \in Block : W(c) = {c} \cup W(d[c])
    BY DownFacts
  <1>2. /\ N(Null) = {} /\ \A b \in Block : b \in N(b)
        /\ \A b \in Block : N(b) = {b} \cup N(s.left[b]) \cup N(s.right[b])
        /\ \A b \in Block : s.left[b] \in Pointer /\ s.right[b] \in Pointer
        /\ \A b \in Pointer : N(b) \subseteq Block
        /\ \A b \in Pointer : \A c \in N(b) : N(c) \subseteq N(b)
    BY NodesFacts DEF Searchable
  <1>3. \A b \in Block : /\ \A c \in N(s.left[b]) : c < b
                         /\ \A c \in N(s.right[b]) : b < c
    BY DEF Searchable, Ordered
  <1>4. \A b \in Block : b \in Nat
    OBVIOUS
  <1>5. z \in W(r) /\ d[z] = Null
    <2>1. EndOf(d, r) \in Walk(d, r) /\ d[EndOf(d, r)] = Null
      BY DownFacts, WalkEnds
    <2> QED
      BY <2>1
  <1>6. \A b \in Pointer : W(b) \subseteq N(b)
    BY WayDown
  <1>7. h \notin N(r) /\ \A b \in Block : b \in Pointer
    BY BlockIsPointer
  <1> HIDE DEF W, N, d
  <1>8. z \in N(r) /\ z \in Block /\ z # h
    BY <1>2, <1>5, <1>6, <1>7
  <1>9. B = {}
    <2> SUFFICES ASSUME B # {} PROVE FALSE
      OBVIOUS
    <2>1. PICK x \in B : s.left[x] \notin B /\ s.right[x] \notin B
      BY DEF Searchable, Grounded
    <2>2. PICK b \in N(x) : ~Right(b)
      BY <2>1
    <2>3. x \in Block /\ h \notin N(x) /\ x # h /\ b \in Block
      BY <1>2, <1>7, <2>1, <2>2
    <2>4. z \in N(b)
      <3>1. z \in N(s.left[b]) \/ z \in N(s.right[b])
        BY <2>2
      <3> QED
        BY <1>2, <2>3, <3>1
    <2>5. CASE z = x
      <3>1. b # x
        BY <1>2, <1>3, <1>4, <2>2, <2>3, <2>5
      <3>2. b \in N(s.left[x]) \/ b \in N(s.right[x])
        BY <1>2, <2>2, <2>3, <3>1
      <3>3. x \in N(s.left[x]) \/ x \in N(s.right[x])
        BY <1>2, <2>3, <2>4, <2>5, <3>2
      <3> QED
        BY <1>3, <1>4, <2>3, <3>3
    <2>6. CASE z # x
      <3>1. z \in W(d[x]) /\ d[x] \in Pointer
        BY <1>1, <2>1, <2>3, <2>6
      <3>2. d[x] \in Block /\ z \in N(d[x]) /\ h \notin N(d[x])
        BY <1>1, <1>2, <1>6, <2>3, <3>1, BlockIsPointer
      <3>3. d[x] \notin B
        BY <1>1, <2>1, <2>3
      <3>4. \A c \in N(d[x]) : Right(c)
        BY <3>1, <3>2, <3>3
      <3>5. b \notin N(d[x])
        BY <2>2, <3>4
      <3>6. CASE x > h
        <4>1. d[x] = s.left[x]
          BY <1>1, <1>4, <2>3, <3>6
        <4>2. z < x
          BY <1>3, <2>3, <3>2, <4>1
        <4>3. b # x
          BY <1>3, <1>4, <1>8, <2>2, <2>3, <3>6, <4>2
        <4>4. b \in N(s.right[x])
          BY <1>2, <2>2, <2>3, <3>5, <4>1, <4>3
        <4>5. z \in N(s.right[x])
          BY <1>2, <2>3, <2>4, <4>4
        <4>6. x < z
          BY <1>3, <2>3, <4>5
        <4> QED
          BY <1>4, <1>8, <2>3, <4>2, <4>6
      <3>7. CASE x < h
        <4>1. d[x] = s.right[x]
          BY <1>1, <1>4, <2>3, <3>7
        <4>2. x < z
          BY <1>3, <2>3, <3>2, <4>1
        <4>3. b # x
          BY <1>3, <1>4, <1>8, <2>2, <2>3, <3>7, <4>2
        <4>4. b \in N(s.left[x])
          BY <1>2, <2>2, <2>3, <3>5, <4>1, <4>3
        <4>5. z \in N(s.left[x])
          BY <1>2, <2>3, <2>4, <4>4
        <4>6. z < x
          BY <1>3, <2>3, <4>5
        <4> QED
          BY <1>4, <1>8, <2>3, <4>2, <4>6
      <3> QED
        BY <1>4, <2>3, <3>6, <3>7
    <2> QED
      BY <2>5, <2>6
  <1>10. \A b \in N(r) : Right(b)
    BY <1>5, <1>7, <1>9
  <1>11. /\ z > h => s.left[z] = Null
         /\ z < h => s.right[z] = Null
    BY <1>1, <1>4, <1>5, <1>8
  <1> QED
    BY <1>8, <1>10, <1>11 DEF N

(* A tree that nothing points into is no part of another one.              *)
LEMMA EnclosedApart ==
    ASSUME NEW s, Searchable(s), NEW r \in Block, Enclosed(s, r)
    PROVE  \A b \in Pointer \ Nodes(s, r) : Nodes(s, b) \cap Nodes(s, r) = {}
  <1> DEFINE N(b) == Nodes(s, b)
             B == {b \in Block : b \notin N(r) /\ N(b) \cap N(r) # {}}
  <1>1. /\ N(Null) = {}
        /\ \A b \in Block : N(b) = {b} \cup N(s.left[b]) \cup N(s.right[b])
        /\ \A b \in Block : s.left[b] \in Pointer /\ s.right[b] \in Pointer
    BY NodesFacts DEF Searchable
  <1>2. \A c \in Block \ N(r) : s.left[c] \notin N(r) /\ s.right[c] \notin N(r)
    BY DEF Enclosed
  <1> HIDE DEF N
  <1>3. B = {}
    <2> SUFFICES ASSUME B # {} PROVE FALSE
      OBVIOUS
    <2>1. PICK b \in B : s.left[b] \notin B /\ s.right[b] \notin B
      BY DEF Searchable, Grounded
    <2>2. N(s.left[b]) \cap N(r) = {} /\ N(s.right[b]) \cap N(r) = {}
      BY <1>1, <1>2, <2>1, BlockIsPointer
    <2> QED
      BY <1>1, <2>1, <2>2
  <1>4. \A b \in Pointer \ N(r) : N(b) \cap N(r) = {}
    BY <1>1, <1>3, BlockIsPointer
  <1> QED
    BY <1>4 DEF N

(* insert_block_only_by_hash adds a node that points nowhere to the search *)
(* tree of r, and changes no other tree.                                   *)
LEMMA InsertByHashAdds ==
    ASSUME NEW s, Searchable(s), NEW r \in Block, Enclosed(s, r),
           NEW h \in Block, h \notin Nodes(s, r), s.left[h] = Null, s.right[h] = Null,
           NEW t, t = InsertByHash(s, r, h)
    PROVE  /\ Searchable(t) /\ Nodes(t, r) = Nodes(s, r) \cup {h}
           /\ \A b \in Pointer \ Nodes(s, r) : Nodes(t, b) = Nodes(s, b)
           /\ \A c \in Block \ Nodes(s, r) : t.left[c] = s.left[c] /\ t.right[c] = s.right[c]
           /\ t.parent = s.parent /\ t.child = s.child /\ t.sibling = s.sibling /\ t.nb = s.nb
  <1> DEFINE N(b) == Nodes(s, b)
             M(b) == Nodes(t, b)
             z == EndOf(Down(s, h), r)
  <1>1. /\ z \in N(r) /\ z \in Block /\ z # h
        /\ z > h => s.left[z] = Null
        /\ z < h => s.right[z] = Null
        /\ \A b \in N(r) : /\ z \in N(s.left[b]) => h < b
                           /\ z \in N(s.right[b]) => b < h
    BY PlaceOf
  <1>2. /\ N(Null) = {} /\ \A b \in Block : b \in N(b)
        /\ \A b \in Block : N(b) = {b} \cup N(s.left[b]) \cup N(s.right[b])
        /\ \A b \in Block : b \notin N(s.left[b]) /\ b \notin N(s.right[b])
        /\ \A b \in Block : s.left[b] \in Pointer /\ s.right[b] \in Pointer
        /\ \A b \in Pointer : N(b) \subseteq Block
    BY NodesFacts DEF Searchable
  <1>3. \A b \in Pointer \ N(r) : N(b) \cap N(r) = {}
    BY EnclosedApart
  <1>4. t = IF z >= h THEN [s EXCEPT !.left[z] = h] ELSE [s EXCEPT !.right[z] = h]
    BY DEF InsertByHash
  <1> HIDE DEF z
  <1>5. z \in Nat /\ h \in Nat /\ h \in Pointer
    BY <1>1, BlockIsPointer
  <1>6. s \in Memory /\ s.left \in [Block -> Pointer] /\ s.right \in [Block -> Pointer]
    BY DEF Searchable, Memory
  <1>7. /\ t \in Memory
        /\ t.parent = s.parent /\ t.child = s.child /\ t.sibling = s.sibling /\ t.nb = s.nb
        /\ t.left  = IF z > h THEN [s.left EXCEPT ![z] = h] ELSE s.left
        /\ t.right = IF z > h THEN s.right ELSE [s.right EXCEPT ![z] = h]
    <2>1. CASE z > h
      <3>1. t = [s EXCEPT !.left[z] = h]
        BY <1>4, <1>5, <2>1
      <3> QED
        BY <1>1, <1>5, <1>6, <2>1, <3>1 DEF Memory
    <2>2. CASE z < h
      <3>1. t = [s EXCEPT !.right[z] = h]
        BY <1>4, <1>5, <2>2
      <3> QED
        BY <1>1, <1>5, <1>6, <2>2, <3>1 DEF Memory
    <2> QED
      BY <1>1, <1>5, <2>1, <2>2
  <1>8. N(h) = {h}
    BY <1>2
  <1>9. /\ \A b \in Block \ {z} : t.left[b] = s.left[b] /\ t.right[b] = s.right[b]
        /\ \/ z > h /\ s.left[z] = Null /\ t.left[z] = h /\ t.right[z] = s.right[z]
           \/ z < h /\ s.right[z] = Null /\ t.right[z] = h /\ t.left[z] = s.left[z]
    BY <1>1, <1>5, <1>6, <1>7
  <1>10. /\ Grounded(t.left, t.right)
         /\ \A b \in Pointer : M(b) = N(b) \cup IF z \in N(b) THEN {h} ELSE {}
    <2>1. t.left \in [Block -> Pointer] /\ t.right \in [Block -> Pointer]
      BY <1>7 DEF Memory
    <2>2. Grounded(s.left, s.right)
      BY DEF Searchable
    <2>3. z \notin Reach(s.left, s.right, h)
      BY <1>1, <1>8 DEF Nodes
    <2>4. \A b \in Block \ {z} : t.left[b] = s.left[b] /\ t.right[b] = s.right[b]
      BY <1>9
    <2>5. \/ s.left[z] = Null /\ t.left[z] = h /\ t.right[z] = s.right[z]
          \/ s.right[z] = Null /\ t.right[z] = h /\ t.left[z] = s.left[z]
      BY <1>9
    <2>6. s.left \in [Block -> Pointer] /\ s.right \in [Block -> Pointer] /\ z \in Block
      BY <1>1, <1>6
    <2>7. Grafts(s.left, s.right, t.left, t.right, z, h)
      BY <2>1, <2>2, <2>3, <2>4, <2>5, <2>6 DEF Grafts
    <2>8. /\ Grounded(t.left, t.right)
          /\ \A b \in Pointer : Reach(t.left, t.right, b) = Reach(s.left, s.right, b) \cup
                IF z \in Reach(s.left, s.right, b) THEN Reach(s.left, s.right, h) ELSE {}
      BY <2>7, Graft
    <2> QED
      BY <1>8, <2>8 DEF Nodes
  <1> HIDE DEF N, M
  <1>11. \A b \in Block : N(b) \cap N(r) # {} => b \in N(r)
    BY <1>3, BlockIsPointer
  <1>12. ASSUME NEW b \in Block
         PROVE  /\ \A c \in M(t.left[b]) : c < b
                /\ \A c \in M(t.right[b]) : b < c
    <2>1. /\ \A c \in N(s.left[b]) : c < b
          /\ \A c \in N(s.right[b]) : b < c
      BY DEF Searchable, Ordered, N
    <2>2. z \in N(s.left[b]) \/ z \in N(s.right[b]) => b \in N(r)
      BY <1>1, <1>2, <1>11
    <2>3. /\ z \in N(s.left[b]) => h < b
          /\ z \in N(s.right[b]) => b < h
      BY <1>1, <2>2
    <2>4. CASE b # z
      <3>1. t.left[b] = s.left[b] /\ t.right[b] = s.right[b]
        BY <1>9, <2>4
      <3> QED
        BY <1>2, <1>10, <2>1, <2>3, <3>1
    <2>5. CASE b = z
      <3>1. M(h) = {h}
        BY <1>1, <1>5, <1>8, <1>10
      <3>2. M(s.left[z]) = N(s.left[z]) /\ M(s.right[z]) = N(s.right[z])
        <4>1. /\ s.left[z] \in Pointer /\ s.right[z] \in Pointer
              /\ z \notin N(s.left[z]) /\ z \notin N(s.right[z])
          BY <1>1, <1>2
        <4> QED
          BY <1>10, <4>1
      <3> QED
        BY <1>9, <2>1, <2>5, <3>1, <3>2
    <2> QED
      BY <2>4, <2>5
  <1>13. Searchable(t)
    BY <1>7, <1>10, <1>12 DEF Searchable, Ordered, M
  <1>14. M(r) = N(r) \cup {h}
    BY <1>1, <1>10, BlockIsPointer
  <1>15. \A b \in Pointer \ N(r) : M(b) = N(b)
    BY <1>1, <1>3, <1>10
  <1>16. \A c \in Block \ N(r) : t.left[c] = s.left[c] /\ t.right[c] = s.right[c]
    BY <1>1, <1>9
  <1> QED
    BY <1>7, <1>13, <1>14, <1>15, <1>16 DEF N, M

-----------------------------------------------------------------------------
(* Moving a search tree.                                                   *)

(* Among nodes of one search tree there is one that insert_subtree_by_hash *)
(* comes to after all others.                                              *)
LEMMA LastExists ==
    ASSUME NEW s, Searchable(s), NEW B \in SUBSET Block, NEW x \in Pointer,
           B \cap Nodes(s, x) # {}
    PROVE  \E b \in B \cap Nodes(s, x) : \A c \in (B \cap Nodes(s, x)) \ {b} : ~Before(s, b, c)
  <1> DEFINE N(b) == Nodes(s, b)
             Has(b) == \E l \in B \cap N(b) : \A c \in (B \cap N(b)) \ {l} : ~Before(s, l, c)
             X == {b \in Block : B \cap N(b) # {} /\ ~Has(b)}
  <1>1. /\ N(Null) = {} /\ \A b \in Block : b \in N(b)
        /\ \A b \in Block : N(b) = {b} \cup N(s.left[b]) \cup N(s.right[b])
        /\ \A b \in Block : s.left[b] \in Pointer /\ s.right[b] \in Pointer
        /\ \A b \in Pointer : N(b) \subseteq Block
        /\ \A b \in Pointer : \A c \in N(b) : N(c) \subseteq N(b)
        /\ \A b \in Block : b \notin N(s.left[b]) /\ b \notin N(s.right[b])
    BY NodesFacts DEF Searchable
  <1>2. \A b \in Block : /\ \A c \in N(s.left[b]) : c < b
                         /\ \A c \in N(s.right[b]) : b < c
    BY DEF Searchable, Ordered
  <1>3. \A b, c \in Block : Before(s, b, c) <=> c \in N(b) \/ (b < c /\ b \notin N(c))
    BY DEF Before
  <1>4. \A b \in Block : b \in Nat
    OBVIOUS
  <1> HIDE DEF N
  <1>5. X = {}
    <2> SUFFICES ASSUME X # {} PROVE FALSE
      OBVIOUS
    <2>1. PICK b \in X : s.left[b] \notin X /\ s.right[b] \notin X
      BY DEF Searchable, Grounded
    <2>2. \A c \in N(b) : c \in Block
      BY <1>1, <2>1, BlockIsPointer
    <2>3. CASE B \cap N(s.right[b]) # {}
      <3>1. s.right[b] \in Block
        BY <1>1, <2>1, <2>3, BlockIsPointer
      <3>2. PICK l \in B \cap N(s.right[b]) :
                \A c \in (B \cap N(s.right[b])) \ {l} : ~Before(s, l, c)
        BY <2>1, <2>3, <3>1
      <3>3. b < l /\ l \in N(b) /\ l \in Block
        BY <1>1, <1>2, <2>1, <2>2, <3>2
      <3>4. ASSUME NEW c \in (B \cap N(b)) \ {l} PROVE ~Before(s, l, c)
        <4>1. CASE c \in N(s.right[b])
          BY <3>2, <4>1
        <4>2. CASE c \notin N(s.right[b])
          <5>1. c = b \/ c \in N(s.left[b])
            BY <1>1, <2>1, <4>2
          <5>2. c < l /\ c \in Block
            BY <1>2, <1>4, <2>1, <2>2, <3>3, <5>1
          <5>3. N(l) \subseteq N(s.right[b])
            BY <1>1, <2>1, <3>2
          <5> QED
            BY <1>3, <1>4, <3>3, <4>2, <5>2, <5>3
        <4> QED
          BY <4>1, <4>2
      <3> QED
        BY <2>1, <3>2, <3>3, <3>4
    <2>4. CASE B \cap N(s.right[b]) = {} /\ B \cap N(s.left[b]) # {}
      <3>1. s.left[b] \in Block
        BY <1>1, <2>1, <2>4, BlockIsPointer
      <3>2. PICK l \in B \cap N(s.left[b]) :
                \A c \in (B \cap N(s.left[b])) \ {l} : ~Before(s, l, c)
        BY <2>1, <2>4, <3>1
      <3>3. l < b /\ l \in N(b) /\ l \in Block
        <4>1. b \in Block /\ l \in N(s.left[b])
          BY <2>1, <3>2
        <4> QED
          BY <1>1, <1>2, <2>2, <4>1
      <3>4. ASSUME NEW c \in (B \cap N(b)) \ {l} PROVE ~Before(s, l, c)
        <4>1. CASE c \in N(s.left[b])
          BY <3>2, <4>1
        <4>2. CASE c = b
          <5>1. N(l) \subseteq N(s.left[b])
            BY <1>1, <2>1, <3>2
          <5>2. b \notin N(l)
            BY <1>1, <2>1, <5>1
          <5> QED
            BY <1>3, <2>1, <3>3, <4>2, <5>2
        <4> QED
          BY <1>1, <2>1, <2>4, <4>1, <4>2
      <3> QED
        BY <2>1, <3>2, <3>3, <3>4
    <2>5. CASE B \cap N(s.right[b]) = {} /\ B \cap N(s.left[b]) = {}
      BY <1>1, <2>1, <2>5
    <2> QED
      BY <2>3, <2>4, <2>5
  <1>6. x \in Block
    BY <1>1, BlockIsPointer DEF N
  <1>7. Has(x)
    BY <1>5, <1>6 DEF N
  <1> QED
    BY <1>7 DEF N

(* Among sets of members of a finite set there is one that is in reach of  *)
(* no other by taking one member out.                                      *)
LEMMA SmallestExists ==
    ASSUME NEW B, IsFiniteSet(B), NEW C \in SUBSET (SUBSET B), C # {}
    PROVE  \E D \in C : \A b \in D : D \ {b} \notin C
  <1> DEFINE sizes == {Cardinality(D) : D \in C}
             less  == {p \in Nat \X Nat : p[1] < p[2]}
  <1>1. \A D \in C : IsFiniteSet(D) /\ Cardinality(D) \in Nat
    BY FS_Subset, FS_CardinalityType
  <1>2. sizes \subseteq Nat /\ sizes # {}
    BY <1>1
  <1>3. IsWellFoundedOn(less, Nat)
    BY NatLessThanWellFounded DEF OpToRel
  <1>4. \A m, n \in Nat : m < n => <<m, n>> \in less
    OBVIOUS
  <1> HIDE DEF less, sizes
  <1>5. PICK n \in sizes : \A m \in sizes : ~(<<m, n>> \in less)
    BY <1>2, <1>3, WFMin
  <1>6. PICK D \in C : Cardinality(D) = n
    BY <1>5 DEF sizes
  <1>7. ASSUME NEW b \in D, D \ {b} \in C PROVE FALSE
    <2>1. Cardinality(D \ {b}) = Cardinality(D) - 1
      BY <1>1, FS_RemoveElement
    <2>2. Cardinality(D \ {b}) \in sizes
      BY <1>7 DEF sizes
    <2>3. Cardinality(D \ {b}) \in Nat /\ Cardinality(D \ {b}) < n
      BY <1>1, <1>6, <1>7, <2>1
    <2> QED
      BY <1>2, <1>4, <1>5, <2>2, <2>3
  <1> QED
    BY <1>7

(* last takes one member out of each set of members of B; f follows step   *)
(* from v along these.                                                     *)
Takes(last, B) == \A D \in SUBSET B : D # {} => last[D] \in D
Follows(f, v, step, last, B) ==
    \A D \in SUBSET B : f[D] = IF D = {} THEN v ELSE step[<<f[D \ {last[D]}], last[D]>>]

(* What is defined of a finite set by taking out one member after another  *)
(* is defined.                                                             *)
LEMMA OneByOne ==
    ASSUME NEW B, IsFiniteSet(B), NEW V, NEW v \in V, NEW step \in [V \X B -> V],
           NEW last, Takes(last, B)
    PROVE  \E f \in [SUBSET B -> V] : Follows(f, v, step, last, B)
  <1> USE DEF Takes, Follows
  <1> DEFINE Within(C, f) == \A D \in C : f[D] = IF D = {} THEN v
                                ELSE step[<<f[D \ {last[D]}], last[D]>>]
             Sub(A) == {D \in SUBSET B : Cardinality(D) <= A}
             Size(A) == \E f \in [Sub(A) -> V] : Within(Sub(A), f)
             less  == {p \in Nat \X Nat : p[1] < p[2]}
             Not   == {n \in Nat : ~Size(n)}
  <1>1. \A D \in SUBSET B : IsFiniteSet(D) /\ Cardinality(D) \in Nat
    BY FS_Subset, FS_CardinalityType
  <1>2. \A D \in SUBSET B : D # {} =>
            /\ D \ {last[D]} \in SUBSET B
            /\ Cardinality(D \ {last[D]}) = Cardinality(D) - 1
    BY <1>1, FS_RemoveElement
  <1>3. \A D \in SUBSET B : Cardinality(D) = 0 <=> D = {}
    BY <1>1, FS_EmptySet
  <1>4. Size(0)
    <2> DEFINE f == [D \in Sub(0) |-> v]
    <2>1. \A D \in Sub(0) : D = {}
      BY <1>1, <1>3
    <2>2. f \in [Sub(0) -> V] /\ Within(Sub(0), f)
      BY <2>1
    <2> QED
      BY <2>2
  <1>5. ASSUME NEW n \in Nat, Size(n) PROVE Size(n + 1)
    <2>1. PICK f \in [Sub(n) -> V] : Within(Sub(n), f)
      BY <1>5
    <2> DEFINE g == [D \in Sub(n + 1) |-> IF D = {} THEN v
                        ELSE step[<<f[D \ {last[D]}], last[D]>>]]
    <2>2. \A D \in Sub(n + 1) : D # {} => D \ {last[D]} \in Sub(n) /\ last[D] \in B
      BY <1>1, <1>2
    <2>3. g \in [Sub(n + 1) -> V]
      <3>1. ASSUME NEW D \in Sub(n + 1), D # {}
            PROVE  step[<<f[D \ {last[D]}], last[D]>>] \in V
        BY <2>2, <3>1
      <3> QED
        BY <3>1
    <2>4. Sub(n) \subseteq Sub(n + 1)
      BY <1>1
    <2>5. \A D \in Sub(n) : g[D] = f[D]
      BY <2>1, <2>4
    <2>6. Within(Sub(n + 1), g)
      <3> SUFFICES ASSUME NEW D \in Sub(n + 1), D # {}
                   PROVE  g[D] = step[<<g[D \ {last[D]}], last[D]>>]
        OBVIOUS
      <3>1. g[D] = step[<<f[D \ {last[D]}], last[D]>>]
        OBVIOUS
      <3>2. D \ {last[D]} \in Sub(n)
        BY <2>2
      <3>3. g[D \ {last[D]}] = f[D \ {last[D]}]
        BY <2>5, <3>2
      <3> HIDE DEF g
      <3> QED
        BY <3>1, <3>3
    <2> HIDE DEF g, Within
    <2> QED
      BY <2>3, <2>6
  <1> HIDE DEF Size
  <1>6. Not = {}
    <2> SUFFICES ASSUME Not # {} PROVE FALSE
      OBVIOUS
    <2>1. IsWellFoundedOn(less, Nat)
      BY NatLessThanWellFounded DEF OpToRel
    <2>2. \A m, n \in Nat : m < n => <<m, n>> \in less
      OBVIOUS
    <2> HIDE DEF less
    <2>3. PICK n \in Not : \A m \in Not : ~(<<m, n>> \in less)
      BY <2>1, WFMin
    <2>4. n # 0
      BY <1>4
    <2>5. n - 1 \in Nat /\ n - 1 < n /\ (n - 1) + 1 = n
      BY <2>4
    <2>6. n - 1 \notin Not
      BY <2>2, <2>3, <2>5
    <2> QED
      BY <1>5, <2>5, <2>6
  <1>7. Size(Cardinality(B))
    BY <1>1, <1>6
  <1>8. Sub(Cardinality(B)) = SUBSET B
    BY FS_Subset
  <1> QED
    BY <1>7, <1>8 DEF Size

(* One turn of insert_subtree_by_hash: the node b, cleared, is inserted.   *)
Move(m, r, b) == InsertOneNode([m EXCEPT !.left[b] = Null, !.right[b] = Null], r, b)

(* The node that insert_subtree_by_hash comes to last.                     *)
LEMMA LastIsLast ==
    ASSUME NEW s, Searchable(s), NEW t \in Block, NEW D \in SUBSET Nodes(s, t), D # {}
    PROVE  /\ LastOf(s, D) \in D
           /\ \A c \in D \ {LastOf(s, D)} : ~Before(s, LastOf(s, D), c)
  <1>1. D \cap Nodes(s, t) = D /\ D \in SUBSET Block /\ t \in Pointer
    BY NodesFacts, BlockIsPointer DEF Searchable
  <1>2. \E b \in D : \A c \in D \ {b} : ~Before(s, b, c)
    BY <1>1, LastExists
  <1> QED
    BY <1>2 DEF LastOf

(* A turn leaves a memory.                                                 *)
LEMMA MoveType == \A m \in Memory, r, b \in Block : Move(m, r, b) \in Memory
  <1> SUFFICES ASSUME NEW m \in Memory, NEW r \in Block, NEW b \in Block
               PROVE  Move(m, r, b) \in Memory
    OBVIOUS
  <1> DEFINE c == [m EXCEPT !.left[b] = Null, !.right[b] = Null]
             z == EndOf(Down(c, b), r)
  <1>1. b \in Pointer /\ Null \in Pointer
    BY BlockIsPointer
  <1>2. c \in Memory
    BY <1>1 DEF Memory
  <1>3. Move(m, r, b) \in {c, [c EXCEPT !.left[z] = b], [c EXCEPT !.right[z] = b]}
    BY DEF Move, InsertOneNode, InsertByHash
  <1> HIDE DEF c, z
  <1> QED
    BY <1>1, <1>2, <1>3 DEF Memory

(* The nodes moved of a search tree are defined one after the other.       *)
LEMMA MoveAllDef ==
    ASSUME NEW s, Searchable(s), NEW r \in Block, NEW t \in Block, IsFiniteSet(Nodes(s, t))
    PROVE  \E f : /\ f[{}] = s
                  /\ \A D \in SUBSET Nodes(s, t) : D # {} =>
                        f[D] = Move(f[D \ {LastOf(s, D)}], r, LastOf(s, D))
                  /\ InsertSubtree(s, r, t) = f[Nodes(s, t)]
  <1> DEFINE B == Nodes(s, t)
             last == [D \in SUBSET B |-> LastOf(s, D)]
             step == [p \in Memory \X B |-> Move(p[1], r, p[2])]
             Body(f) == [D \in SUBSET B |->
                           IF D = {} THEN s
                           ELSE LET b == LastOf(s, D)
                                    m == f[D \ {b}]
                                IN  InsertOneNode([m EXCEPT !.left[b] = Null, !.right[b] = Null],
                                                  r, b)]
             moved == CHOOSE f : f = Body(f)
  <1>1. B \subseteq Block /\ s \in Memory
    BY NodesFacts, BlockIsPointer DEF Searchable
  <1>2. ASSUME NEW D \in SUBSET B, D # {} PROVE LastOf(s, D) \in D
    BY <1>2, LastIsLast
  <1>3. Takes(last, B)
    BY <1>2 DEF Takes
  <1>4. step \in [Memory \X B -> Memory]
    <2>1. \A p \in Memory \X B : p[1] \in Memory /\ p[2] \in Block
      BY <1>1
    <2> QED
      BY <2>1, MoveType
  <1>5. PICK f \in [SUBSET B -> Memory] : Follows(f, s, step, last, B)
    <2> HIDE DEF B, last, step
    <2>1. IsFiniteSet(B) /\ s \in Memory
      BY <1>1 DEF B
    <2> QED
      BY <1>3, <1>4, <2>1, OneByOne
  <1>6. ASSUME NEW D \in SUBSET B
        PROVE  f[D] = IF D = {} THEN s ELSE Move(f[D \ {LastOf(s, D)}], r, LastOf(s, D))
    <2>1. CASE D = {}
      BY <1>5, <2>1 DEF Follows
    <2>2. CASE D # {}
      <3> DEFINE b == LastOf(s, D)
      <3>1. last[D] = b /\ b \in B /\ D \ {b} \in SUBSET B
        BY <1>2, <2>2
      <3>2. f[D] = step[<<f[D \ {b}], b>>]
        BY <1>5, <2>2, <3>1 DEF Follows
      <3>3. <<f[D \ {b}], b>> \in Memory \X B
        BY <1>5, <3>1
      <3> HIDE DEF b
      <3>4. f[D] = Move(f[D \ {b}], r, b)
        BY <3>2, <3>3
      <3> QED
        BY <2>2, <3>4 DEF b
    <2> QED
      BY <2>1, <2>2
  <1>7. f = Body(f)
    <2>1. \A D \in SUBSET B : f[D] = Body(f)[D]
      BY <1>6 DEF Move
    <2> QED
      BY <1>5, <2>1
  <1>8. moved = Body(moved)
    <2> HIDE DEF Body
    <2> QED
      BY <1>7
  <1>9. /\ moved[{}] = s
        /\ \A D \in SUBSET B : D # {} =>
              moved[D] = Move(moved[D \ {LastOf(s, D)}], r, LastOf(s, D))
    <2> DEFINE g == moved
    <2>1. g = Body(g)
      BY <1>8
    <2> HIDE DEF g
    <2>2. /\ g[{}] = s
          /\ \A D \in SUBSET B : D # {} => g[D] = Move(g[D \ {LastOf(s, D)}], r, LastOf(s, D))
      BY <2>1 DEF Move
    <2> QED
      BY <2>2 DEF g
  <1>10. InsertSubtree(s, r, t) = moved[B]
    BY DEF InsertSubtree, MoveAll
  <1> QED
    BY <1>9, <1>10

(* The memory u is m but for the search links of the nodes B.              *)
Touches(m, u, B) ==
    /\ \A c \in Block \ B : u.left[c] = m.left[c] /\ u.right[c] = m.right[c]
    /\ u.parent = m.parent /\ u.child = m.child /\ u.sibling = m.sibling /\ u.nb = m.nb

(* A search tree depends on the links of its own nodes only.               *)
LEMMA NodesFrame ==
    ASSUME NEW s \in Memory, NEW u \in Memory, Grounded(s.left, s.right), NEW x \in Pointer,
           \A c \in Nodes(s, x) : u.left[c] = s.left[c] /\ u.right[c] = s.right[c]
    PROVE  Nodes(u, x) = Nodes(s, x)
  <1> DEFINE f == s.left
             g == s.right
             e == u.left
             k == u.right
  <1>1. /\ f \in [Block -> Pointer] /\ g \in [Block -> Pointer] /\ Grounded(f, g)
        /\ e \in [Block -> Pointer] /\ k \in [Block -> Pointer]
    BY DEF Memory
  <1>2. \A c \in Reach(f, g, x) : e[c] = f[c] /\ k[c] = g[c]
    BY DEF Nodes
  <1> HIDE DEF f, g, e, k
  <1>3. Reach(e, k, x) = Reach(f, g, x)
    BY <1>1, <1>2, ReachFrame
  <1> QED
    BY <1>3 DEF Nodes, f, g, e, k

(* Cutting links keeps the search trees: there is only less below a node.  *)
LEMMA CutLinks ==
    ASSUME NEW m, Searchable(m), NEW u \in Memory,
           \A c \in Block : /\ u.left[c] = m.left[c] \/ u.left[c] = Null
                            /\ u.right[c] = m.right[c] \/ u.right[c] = Null
    PROVE  Searchable(u)
  <1>1. m \in Memory /\ Null \in Pointer /\ Null \notin Block
    BY BlockIsPointer DEF Searchable
  <1>2. /\ u.left \in [Block -> Pointer] /\ u.right \in [Block -> Pointer]
        /\ m.left \in [Block -> Pointer] /\ m.right \in [Block -> Pointer]
    BY <1>1 DEF Memory
  <1>3. Grounded(u.left, u.right)
    <2> SUFFICES ASSUME NEW B \in SUBSET Block, B # {}
                 PROVE  \E x \in B : u.left[x] \notin B /\ u.right[x] \notin B
      BY DEF Grounded
    <2>1. PICK x \in B : m.left[x] \notin B /\ m.right[x] \notin B
      BY DEF Searchable, Grounded
    <2> QED
      BY <1>1, <2>1
  <1>4. ASSUME NEW x \in Pointer PROVE Nodes(u, x) \subseteq Nodes(m, x)
    <2>1. CASE x = Null
      BY <1>3, <2>1, NodesFacts
    <2>2. CASE x # Null
      <3>1. /\ Nodes(m, x) \subseteq Block /\ x \in Nodes(m, x)
            /\ \A c \in Nodes(m, x) : /\ m.left[c] # Null => m.left[c] \in Nodes(m, x)
                                      /\ m.right[c] # Null => m.right[c] \in Nodes(m, x)
        BY <2>2, NodesFacts, BlockIsPointer DEF Searchable
      <3> DEFINE C == Nodes(m, x)
      <3>2. /\ C \in SUBSET Block /\ x \in C
            /\ \A c \in C : /\ u.left[c] # Null => u.left[c] \in C
                            /\ u.right[c] # Null => u.right[c] \in C
        BY <3>1
      <3> HIDE DEF C
      <3>3. Reach(u.left, u.right, x) \subseteq C
        BY <1>2, <1>3, <3>2, ReachClosed
      <3> QED
        BY <3>3 DEF C, Nodes
    <2> QED
      BY <2>1, <2>2
  <1>5. Ordered(u)
    <2> SUFFICES ASSUME NEW x \in Block
                 PROVE  /\ \A c \in Nodes(u, u.left[x])  : c < x
                        /\ \A c \in Nodes(u, u.right[x]) : x < c
      BY DEF Ordered
    <2>1. Nodes(u, Null) = {}
      BY <1>3, NodesFacts
    <2>2. m.left[x] \in Pointer /\ m.right[x] \in Pointer
      BY <1>2
    <2> QED
      BY <1>4, <2>1, <2>2 DEF Searchable, Ordered
  <1> QED
    BY <1>3, <1>5 DEF Searchable

(* Taking a node that is not in the search tree of r out of the others.    *)
LEMMA CutNode ==
    ASSUME NEW m, Searchable(m), NEW r \in Block, Enclosed(m, r),
           NEW b \in Block \ Nodes(m, r),
           NEW u, u = [m EXCEPT !.left[b] = Null, !.right[b] = Null]
    PROVE  /\ Searchable(u) /\ Enclosed(u, r) /\ Nodes(u, r) = Nodes(m, r)
           /\ u.left[b] = Null /\ u.right[b] = Null /\ Touches(m, u, {b})
  <1>1. m \in Memory /\ Null \in Pointer /\ Null \notin Block /\ \A c \in Block : c \in Pointer
    BY BlockIsPointer DEF Searchable
  <1>2. /\ u \in Memory /\ Touches(m, u, {b}) /\ u.left[b] = Null /\ u.right[b] = Null
        /\ \A c \in Block : /\ u.left[c] = m.left[c] \/ u.left[c] = Null
                            /\ u.right[c] = m.right[c] \/ u.right[c] = Null
    BY <1>1 DEF Memory, Touches
  <1>3. Searchable(u)
    BY <1>2, CutLinks
  <1>4. Nodes(m, r) \subseteq Block /\ r \in Pointer
    BY <1>1, NodesFacts DEF Searchable
  <1>5. Nodes(u, r) = Nodes(m, r)
    <2>1. \A c \in Nodes(m, r) : u.left[c] = m.left[c] /\ u.right[c] = m.right[c]
      BY <1>2, <1>4 DEF Touches
    <2> QED
      BY <1>1, <1>2, <1>4, <2>1, NodesFrame DEF Searchable
  <1>6. Enclosed(u, r)
    BY <1>1, <1>2, <1>4, <1>5 DEF Enclosed
  <1> QED
    BY <1>2, <1>3, <1>5, <1>6

(* One turn of insert_subtree_by_hash.                                     *)
LEMMA MoveAdds ==
    ASSUME NEW m, Searchable(m), NEW r \in Block, Enclosed(m, r),
           NEW b \in Block \ Nodes(m, r), NEW u, u = Move(m, r, b)
    PROVE  /\ Searchable(u) /\ Nodes(u, r) = Nodes(m, r) \cup {b}
           /\ Touches(m, u, Nodes(m, r) \cup {b})
  <1> DEFINE c == [m EXCEPT !.left[b] = Null, !.right[b] = Null]
  <1>1. /\ Searchable(c) /\ Enclosed(c, r) /\ Nodes(c, r) = Nodes(m, r)
        /\ c.left[b] = Null /\ c.right[b] = Null /\ Touches(m, c, {b})
    BY CutNode
  <1>2. u = InsertOneNode(c, r, b)
    BY DEF Move
  <1> HIDE DEF c
  <1>3. ~Holds(c, r, b)
    BY <1>1, HoldsIsNodes, BlockIsPointer
  <1>4. u = InsertByHash(c, r, b)
    BY <1>2, <1>3 DEF InsertOneNode
  <1>5. /\ Searchable(u) /\ Nodes(u, r) = Nodes(c, r) \cup {b}
        /\ Touches(c, u, Nodes(c, r))
    BY <1>1, <1>4, InsertByHashAdds DEF Touches
  <1> QED
    BY <1>1, <1>5 DEF Touches

(* Moving the whole of one search tree to that of r.                       *)
LEMMA InsertSubtreeMoves ==
    ASSUME NEW s, Searchable(s), NEW r \in Block, NEW t \in Block,
           Enclosed(s, r), Enclosed(s, t), Nodes(s, r) \cap Nodes(s, t) = {},
           IsFiniteSet(Nodes(s, t)), NEW u, u = InsertSubtree(s, r, t)
    PROVE  /\ Searchable(u) /\ Nodes(u, r) = Nodes(s, r) \cup Nodes(s, t)
           /\ Touches(s, u, Nodes(s, r) \cup Nodes(s, t))
  <1> DEFINE R == Nodes(s, r)
             T == Nodes(s, t)
             Up(D) == \A c \in T : s.left[c] \in D \/ s.right[c] \in D => c \in D
  <1>1. PICK f : /\ f[{}] = s
                 /\ \A D \in SUBSET T : D # {} =>
                       f[D] = Move(f[D \ {LastOf(s, D)}], r, LastOf(s, D))
                 /\ InsertSubtree(s, r, t) = f[T]
    BY MoveAllDef
  <1> DEFINE Good(D) == /\ Searchable(f[D]) /\ Nodes(f[D], r) = R \cup D
                        /\ Touches(s, f[D], R \cup D)
             Bad == {D \in SUBSET T : Up(D) /\ ~Good(D)}
  <1>2. /\ R \subseteq Block /\ T \subseteq Block /\ R \cap T = {}
        /\ \A b \in T : s.left[b] \in Nodes(s, b) \/ s.left[b] = Null
        /\ \A b \in T : s.right[b] \in Nodes(s, b) \/ s.right[b] = Null
        /\ \A b \in T : b \notin Nodes(s, s.left[b]) /\ b \notin Nodes(s, s.right[b])
        /\ \A b \in Block : b \in Nodes(s, b)
    BY NodesFacts, BlockIsPointer DEF Searchable
  <1>3. Null \notin Block
    BY BlockIsPointer
  <1>4. Good({})
    BY <1>1 DEF Touches
  <1>5. ASSUME NEW D \in SUBSET T, D # {}, Up(D), NEW b, b = LastOf(s, D),
               Up(D \ {b}) => Good(D \ {b})
        PROVE  Good(D)
    <2>1. b \in D /\ \A c \in D \ {b} : ~Before(s, b, c)
      BY <1>5, LastIsLast
    <2>2. s.left[b] \notin D \ {b} /\ s.right[b] \notin D \ {b}
      BY <1>2, <1>3, <2>1 DEF Before
    <2>3. Up(D \ {b})
      BY <1>5, <2>1, <2>2
    <2> DEFINE m == f[D \ {b}]
    <2>4. /\ Searchable(m) /\ Nodes(m, r) = R \cup (D \ {b})
          /\ Touches(s, m, R \cup (D \ {b}))
      BY <1>5, <2>3
    <2>5. f[D] = Move(m, r, b)
      BY <1>1, <1>5
    <2> HIDE DEF m, Good
    <2>6. Enclosed(m, r)
      <3> SUFFICES ASSUME NEW c \in Block \ (R \cup (D \ {b}))
                   PROVE  /\ m.left[c] \notin R \cup (D \ {b})
                          /\ m.right[c] \notin R \cup (D \ {b})
        BY <2>4 DEF Enclosed
      <3>1. m.left[c] = s.left[c] /\ m.right[c] = s.right[c]
        BY <2>4 DEF Touches
      <3>2. s.left[c] \notin R /\ s.right[c] \notin R
        BY DEF Enclosed
      <3>3. c \notin T => s.left[c] \notin T /\ s.right[c] \notin T
        BY DEF Enclosed
      <3> QED
        BY <2>3, <3>1, <3>2, <3>3
    <2>7. b \in Block \ Nodes(m, r)
      BY <1>2, <2>1, <2>4
    <2>8. /\ Searchable(f[D]) /\ Nodes(f[D], r) = Nodes(m, r) \cup {b}
          /\ Touches(m, f[D], Nodes(m, r) \cup {b})
      BY <2>4, <2>5, <2>6, <2>7, MoveAdds
    <2>9. (R \cup (D \ {b})) \cup {b} = R \cup D
      BY <2>1
    <2>10. Touches(s, f[D], R \cup D)
      BY <2>4, <2>8, <2>9 DEF Touches
    <2> QED
      BY <2>4, <2>8, <2>9, <2>10 DEF Good
  <1> HIDE DEF Good, Up
  <1>6. Bad = {}
    <2> SUFFICES ASSUME Bad # {} PROVE FALSE
      OBVIOUS
    <2>1. Bad \in SUBSET (SUBSET T) /\ IsFiniteSet(T)
      OBVIOUS
    <2>2. PICK D \in Bad : \A b \in D : D \ {b} \notin Bad
      <3> HIDE DEF Bad, T
      <3> QED
        BY <2>1, SmallestExists
    <2>3. D # {}
      BY <1>4, <2>2
    <2>4. LastOf(s, D) \in D
      BY <2>2, <2>3, LastIsLast
    <2> QED
      BY <1>5, <2>2, <2>3, <2>4
  <1>7. Up(T)
    BY DEF Up
  <1>8. Good(T)
    BY <1>6, <1>7
  <1> QED
    BY <1>1, <1>8 DEF Good

-----------------------------------------------------------------------------
(* Trees of blocks.                                                        *)

(* What is below a list of children, and the list.                         *)
Below(s, x) == Reach(s.child, s.sibling, x)

(* A block and what is below it, along the list of its children.           *)
LEMMA FamilyFacts ==
    ASSUME NEW s \in Memory, Grounded(s.child, s.sibling)
    PROVE  /\ Below(s, Null) = {} /\ Walk(s.sibling, Null) = {}
           /\ Grounded(s.sibling, Nowhere)
           /\ \A b \in Block : /\ s.child[b] \in Pointer /\ s.sibling[b] \in Pointer
                               /\ s.parent[b] \in Pointer
                               /\ b \in Below(s, b) /\ Below(s, b) \subseteq Block
                               /\ Below(s, b) = Family(s, b) \cup Below(s, s.sibling[b])
                               /\ Family(s, b) = {b} \cup Below(s, s.child[b])
                               /\ b \notin Below(s, s.child[b])
                               /\ Walk(s.sibling, b) = {b} \cup Walk(s.sibling, s.sibling[b])
           /\ \A b \in Pointer : Walk(s.sibling, b) \subseteq Below(s, b)
           /\ \A b \in Pointer : \A c \in Below(s, b) : Below(s, c) \subseteq Below(s, b)
  <1> DEFINE f == s.child
             g == s.sibling
  <1>1. f \in [Block -> Pointer] /\ g \in [Block -> Pointer] /\ Grounded(f, g)
    BY DEF Memory
  <1>2. Nowhere \in [Block -> Pointer] /\ \A b \in Block : Nowhere[b] = Null
    BY BlockIsPointer
  <1>3. Grounded(g, Nowhere)
    <2> SUFFICES ASSUME NEW B \in SUBSET Block, B # {}
                 PROVE  \E b \in B : g[b] \notin B /\ Nowhere[b] \notin B
      BY DEF Grounded
    <2>1. PICK b \in B : f[b] \notin B /\ g[b] \notin B
      BY <1>1, FirstCase
    <2> QED
      BY <1>2, <2>1, BlockIsPointer
  <1> HIDE DEF f, g
  <1>4. /\ Reach(f, g, Null) = {} /\ Walk(g, Null) = {}
        /\ \A b \in Pointer : Reach(f, g, b) \subseteq Block
    BY <1>1, <1>2, <1>3, ReachIsNodes DEF Walk
  <1>5. \A b \in Block : /\ f[b] \in Pointer /\ g[b] \in Pointer
                         /\ Reach(f, g, b) = {b} \cup Reach(f, g, f[b]) \cup Reach(f, g, g[b])
    BY <1>1, ReachOf
  <1>6. \A b \in Block : b \notin Reach(f, g, f[b])
    BY <1>1, ReachNoCycle
  <1>7. \A b \in Block : Walk(g, b) = {b} \cup Walk(g, g[b])
    <2> SUFFICES ASSUME NEW b \in Block PROVE Walk(g, b) = {b} \cup Walk(g, g[b])
      OBVIOUS
    <2>1. Walk(g, b) = {b} \cup Reach(g, Nowhere, g[b]) \cup Reach(g, Nowhere, Nowhere[b])
      BY <1>1, <1>2, ReachOf DEF Walk
    <2>2. Nowhere[b] = Null
      BY <1>2
    <2> QED
      BY <1>4, <2>1, <2>2 DEF Walk
  <1>8. \A b \in Pointer : \A c \in Reach(f, g, b) : Reach(f, g, c) \subseteq Reach(f, g, b)
    BY <1>1, ReachTransitive
  <1>9. \A b \in Pointer : Walk(g, b) \subseteq Reach(f, g, b)
    <2> DEFINE X == {b \in Block : ~(Walk(g, b) \subseteq Reach(f, g, b))}
    <2>1. X = {}
      <3> SUFFICES ASSUME X # {} PROVE FALSE
        OBVIOUS
      <3>1. PICK b \in X : g[b] \notin X
        BY <1>1, FirstCase
      <3>2. Walk(g, g[b]) \subseteq Reach(f, g, g[b])
        BY <1>4, <1>5, <3>1, BlockIsPointer
      <3> QED
        BY <1>5, <1>7, <3>1, <3>2
    <2> QED
      BY <1>4, <2>1, BlockIsPointer
  <1>10. \A b \in Block : s.parent[b] \in Pointer
    BY DEF Memory
  <1>11. \A b \in Block : Family(s, b) = {b} \cup Reach(f, g, f[b])
    BY DEF Family, f, g
  <1>12. \A b \in Block : Reach(f, g, b) = Family(s, b) \cup Reach(f, g, g[b])
    BY <1>5, <1>11
  <1> QED
    BY <1>3, <1>4, <1>5, <1>6, <1>7, <1>8, <1>9, <1>10, <1>11, <1>12 DEF Below, f, g

(* A family depends on the links of its own members only.                  *)
LEMMA FamilyFrame ==
    ASSUME NEW s \in Memory, NEW u \in Memory, Grounded(s.child, s.sibling), NEW x \in Block,
           \A c \in Family(s, x) : u.child[c] = s.child[c] /\ u.sibling[c] = s.sibling[c]
    PROVE  Family(u, x) = Family(s, x)
  <1> DEFINE f == s.child
             g == s.sibling
             e == u.child
             k == u.sibling
  <1>1. /\ f \in [Block -> Pointer] /\ g \in [Block -> Pointer] /\ Grounded(f, g)
        /\ e \in [Block -> Pointer] /\ k \in [Block -> Pointer]
    BY DEF Memory
  <1>2. f[x] \in Pointer /\ e[x] = f[x] /\ \A c \in Reach(f, g, f[x]) : e[c] = f[c] /\ k[c] = g[c]
    BY <1>1 DEF Family
  <1> HIDE DEF f, g, e, k
  <1>3. Reach(e, k, f[x]) = Reach(f, g, f[x])
    BY <1>1, <1>2, ReachFrame
  <1> QED
    BY <1>2, <1>3 DEF Family, f, g, e, k

(* A list of children depends on its head and its own links only.          *)
LEMMA KidsFrame ==
    ASSUME NEW s \in Memory, NEW u \in Memory, Grounded(s.child, s.sibling), NEW x \in Block,
           u.child[x] = s.child[x], \A c \in Kids(s, x) : u.sibling[c] = s.sibling[c]
    PROVE  Kids(u, x) = Kids(s, x)
  <1> DEFINE f == s.sibling
             e == u.sibling
             c == s.child[x]
  <1>1. /\ f \in [Block -> Pointer] /\ e \in [Block -> Pointer]
        /\ Grounded(f, Nowhere) /\ c \in Pointer
    BY FamilyFacts DEF Memory
  <1>2. \A b \in Walk(f, c) : e[b] = f[b]
    BY DEF Kids
  <1> HIDE DEF f, e, c
  <1>3. Walk(e, c) = Walk(f, c)
    BY <1>1, <1>2, ReachFrame, BlockIsPointer DEF Walk
  <1> QED
    BY <1>3 DEF Kids, f, e, c

(* c, with all that is below it, becomes a child of p, which is elsewhere. *)
Appends(s, u, p, c) ==
    /\ s \in Memory /\ Grounded(s.child, s.sibling) /\ p \in Block /\ c \in Block
    /\ s.sibling[c] = Null /\ Family(s, p) \cap Family(s, c) = {}
    /\ u = AppendChild(s, p, c)

(* z is the node whose pointer is set to c: p, or the last child it had.   *)
Hooks(s, u, p, c, z) ==
    /\ Grafts(s.child, s.sibling, u.child, u.sibling, z, c)
    /\ \/ /\ z = p /\ s.child[p] = Null /\ u.sibling = s.sibling /\ u.child[p] = c
       \/ /\ z \in Kids(s, p) /\ u.child = s.child
          /\ s.sibling[z] = Null /\ u.sibling[z] = c

(* The list of children of p goes to its end, and there is room for one.   *)
LEMMA AppendShape ==
    ASSUME NEW s, NEW u, NEW p, NEW c, Appends(s, u, p, c)
    PROVE  /\ u \in Memory /\ u.parent[c] = p
           /\ \A b \in Block \ {c} : u.parent[b] = s.parent[b]
           /\ u.left = s.left /\ u.right = s.right /\ u.nb = s.nb
           /\ \E z \in Family(s, p) : Hooks(s, u, p, c, z)
  <1> USE DEF Appends
  <1> DEFINE y == EndOf(s.sibling, s.child[p])
             z == IF s.child[p] = Null THEN p ELSE y
  <1>1. c \in Pointer /\ p \in Pointer
    BY BlockIsPointer
  <1>2. /\ Below(s, Null) = {} /\ Grounded(s.sibling, Nowhere)
        /\ Family(s, p) = {p} \cup Below(s, s.child[p])
        /\ s.child[p] \in Pointer /\ Below(s, c) = Family(s, c) \cup Below(s, Null)
        /\ Walk(s.sibling, s.child[p]) \subseteq Below(s, s.child[p])
        /\ Below(s, c) \subseteq Block
        /\ \A b \in Block : Below(s, b) \subseteq Block
    BY FamilyFacts
  <1>3. s.child \in [Block -> Pointer] /\ s.sibling \in [Block -> Pointer]
    BY DEF Memory
  <1>4. ASSUME s.child[p] # Null
        PROVE  y \in Kids(s, p) /\ y \in Family(s, p) /\ s.sibling[y] = Null /\ y \in Block
    <2>1. s.child[p] \in Block
      BY <1>2, <1>4, BlockIsPointer
    <2>2. y \in Walk(s.sibling, s.child[p]) /\ s.sibling[y] = Null
      BY <1>2, <1>3, <2>1, WalkEnds
    <2> QED
      BY <1>2, <2>1, <2>2 DEF Kids
  <1>5. u = IF s.child[p] = Null THEN [s EXCEPT !.parent[c] = p, !.child[p] = c]
            ELSE [s EXCEPT !.parent[c] = p, !.sibling[y] = c]
    BY DEF AppendChild
  <1> HIDE DEF y
  <1>6. /\ u \in Memory /\ u.parent = [s.parent EXCEPT ![c] = p]
        /\ u.left = s.left /\ u.right = s.right /\ u.nb = s.nb
    <2>1. CASE s.child[p] = Null
      <3>1. u = [s EXCEPT !.parent[c] = p, !.child[p] = c]
        BY <1>5, <2>1
      <3>2. [s.parent EXCEPT ![c] = p] \in [Block -> Pointer]
        BY <1>1 DEF Memory
      <3>3. [s.child EXCEPT ![p] = c] \in [Block -> Pointer]
        BY <1>1, <1>3
      <3>4. u = [left |-> s.left, right |-> s.right, parent |-> [s.parent EXCEPT ![c] = p],
                 child |-> [s.child EXCEPT ![p] = c], sibling |-> s.sibling, nb |-> s.nb]
        BY <3>1 DEF Memory
      <3> QED
        BY <3>2, <3>3, <3>4 DEF Memory
    <2>2. CASE s.child[p] # Null
      <3>1. u = [s EXCEPT !.parent[c] = p, !.sibling[y] = c]
        BY <1>5, <2>2
      <3>2. [s.parent EXCEPT ![c] = p] \in [Block -> Pointer]
        BY <1>1 DEF Memory
      <3>3. [s.sibling EXCEPT ![y] = c] \in [Block -> Pointer]
        BY <1>1, <1>3
      <3>4. u = [left |-> s.left, right |-> s.right, parent |-> [s.parent EXCEPT ![c] = p],
                 child |-> s.child, sibling |-> [s.sibling EXCEPT ![y] = c], nb |-> s.nb]
        BY <3>1 DEF Memory
      <3> QED
        BY <3>2, <3>3, <3>4 DEF Memory
    <2> QED
      BY <2>1, <2>2
  <1>7. /\ u.child = IF s.child[p] = Null THEN [s.child EXCEPT ![p] = c] ELSE s.child
        /\ u.sibling = IF s.child[p] = Null THEN s.sibling ELSE [s.sibling EXCEPT ![y] = c]
    BY <1>5 DEF Memory
  <1>8. z \in Family(s, p) /\ z \in Block /\ z \notin Reach(s.child, s.sibling, c)
    BY <1>2, <1>4 DEF Below
  <1>9. /\ u.child \in [Block -> Pointer] /\ u.sibling \in [Block -> Pointer]
        /\ \A b \in Block \ {z} : u.child[b] = s.child[b] /\ u.sibling[b] = s.sibling[b]
    BY <1>3, <1>6, <1>7 DEF Memory
  <1>10. \/ /\ z = p /\ s.child[p] = Null /\ u.sibling = s.sibling /\ u.child[p] = c
        \/ /\ z \in Kids(s, p) /\ u.child = s.child
           /\ s.sibling[z] = Null /\ u.sibling[z] = c
    BY <1>3, <1>4, <1>7
  <1> HIDE DEF z
  <1>11. Grafts(s.child, s.sibling, u.child, u.sibling, z, c)
    BY <1>3, <1>8, <1>9, <1>10 DEF Grafts
  <1> QED
    BY <1>6, <1>8, <1>10, <1>11 DEF Hooks, Memory

(* Then everything above p has got the new child with all that is below it. *)
LEMMA AppendFacts ==
    ASSUME NEW s, NEW u, NEW p, NEW c, Appends(s, u, p, c)
    PROVE  /\ Grounded(u.child, u.sibling)
           /\ \A b \in Block \ Family(s, p) : u.child[b] = s.child[b] /\ u.sibling[b] = s.sibling[b]
           /\ \A b \in Block \ Below(s, s.child[p]) : u.sibling[b] = s.sibling[b]
           /\ \A b \in Block : p \in Family(s, b) =>
                 Family(u, b) = Family(s, b) \cup Family(s, c)
           /\ \A b \in Block : Family(s, b) \cap Family(s, p) = {} =>
                 Family(u, b) = Family(s, b)
           /\ Kids(u, p) = Kids(s, p) \cup {c}
           /\ \A b \in Block \ {p} : Kids(s, b) \cap Kids(s, p) = {} => Kids(u, b) = Kids(s, b)
  <1>1. /\ s \in Memory /\ Grounded(s.child, s.sibling) /\ p \in Block /\ c \in Block
        /\ s.sibling[c] = Null /\ Family(s, p) \cap Family(s, c) = {}
    BY DEF Appends
  <1>2. u \in Memory
    BY AppendShape
  <1>3. PICK z \in Family(s, p) : Hooks(s, u, p, c, z)
    BY AppendShape
  <1>4. /\ z \in Family(s, p) /\ Grafts(s.child, s.sibling, u.child, u.sibling, z, c)
        /\ \/ /\ z = p /\ s.child[p] = Null /\ u.sibling = s.sibling /\ u.child[p] = c
           \/ /\ z \in Kids(s, p) /\ u.child = s.child
              /\ s.sibling[z] = Null /\ u.sibling[z] = c
    BY <1>3 DEF Hooks
  <1>5. /\ Grounded(u.child, u.sibling)
        /\ \A b \in Pointer : Below(u, b) = Below(s, b) \cup
              IF z \in Below(s, b) THEN Below(s, c) ELSE {}
    BY <1>4, Graft DEF Below
  <1>6. /\ Below(s, Null) = {} /\ Walk(s.sibling, Null) = {} /\ Grounded(s.sibling, Nowhere)
        /\ \A b \in Block : /\ s.child[b] \in Pointer /\ s.sibling[b] \in Pointer
                            /\ b \in Below(s, b) /\ Below(s, b) \subseteq Block
                            /\ Below(s, b) = Family(s, b) \cup Below(s, s.sibling[b])
                            /\ Family(s, b) = {b} \cup Below(s, s.child[b])
                            /\ b \notin Below(s, s.child[b])
                            /\ Walk(s.sibling, b) = {b} \cup Walk(s.sibling, s.sibling[b])
        /\ \A b \in Pointer : Walk(s.sibling, b) \subseteq Below(s, b)
        /\ \A b \in Pointer : \A d \in Below(s, b) : Below(s, d) \subseteq Below(s, b)
    BY <1>1, FamilyFacts
  <1>7. /\ \A b \in Block : Family(u, b) = {b} \cup Below(u, u.child[b])
        /\ \A b \in Block : u.child[b] \in Pointer
        /\ Walk(u.sibling, Null) = {}
        /\ \A b \in Block : Walk(u.sibling, b) = {b} \cup Walk(u.sibling, u.sibling[b])
    BY <1>2, <1>5, FamilyFacts
  <1>8. /\ z \in Block /\ z \notin Below(s, c) /\ Below(s, c) = Family(s, c)
        /\ \A b \in Block \ {z} : u.child[b] = s.child[b] /\ u.sibling[b] = s.sibling[b]
    BY <1>1, <1>4, <1>6 DEF Grafts, Below
  <1>9. z # p => z \in Below(s, s.child[p])
    BY <1>1, <1>4, <1>6
  <1>10. ASSUME NEW b \in Block, p \in Family(s, b)
        PROVE  Family(u, b) = Family(s, b) \cup Family(s, c)
    <2>1. CASE z = p /\ b = p
      <3>1. u.child[b] = c /\ s.child[b] = Null
        BY <1>1, <1>4, <1>6, <2>1, BlockIsPointer DEF Kids
      <3>2. Below(u, c) = Below(s, c)
        BY <1>1, <1>5, <1>8, BlockIsPointer
      <3> QED
        BY <1>1, <1>6, <1>7, <1>8, <3>1, <3>2
    <2>2. CASE z # p \/ b # p
      <3>1. u.child[b] = s.child[b]
        BY <1>4, <1>8, <2>2
      <3>2. z \in Below(s, s.child[b])
        <4>1. CASE b = p
          BY <1>1, <1>9, <2>2, <4>1
        <4>2. CASE b # p
          <5>1. p \in Below(s, s.child[b]) /\ Below(s, p) \subseteq Below(s, s.child[b])
            BY <1>1, <1>6, <1>10, <4>2
          <5>2. z \in Below(s, p)
            BY <1>1, <1>4, <1>6
          <5> QED
            BY <5>1, <5>2
        <4> QED
          BY <4>1, <4>2
      <3> QED
        BY <1>1, <1>5, <1>6, <1>7, <1>8, <3>1, <3>2
    <2> QED
      BY <2>1, <2>2
  <1>11. ASSUME NEW b \in Block, Family(s, b) \cap Family(s, p) = {}
        PROVE  Family(u, b) = Family(s, b)
    <2>1. b # z /\ z \notin Below(s, s.child[b])
      BY <1>4, <1>6, <1>11
    <2>2. u.child[b] = s.child[b] /\ s.child[b] \in Pointer
      BY <1>6, <1>8, <2>1
    <2>3. Below(u, s.child[b]) = Below(s, s.child[b])
      BY <1>5, <2>1, <2>2
    <2>4. Family(u, b) = {b} \cup Below(u, u.child[b])
      BY <1>7
    <2>5. Family(s, b) = {b} \cup Below(s, s.child[b])
      BY <1>6
    <2> QED
      BY <2>2, <2>3, <2>4, <2>5
  <1>12. /\ Kids(u, p) = Kids(s, p) \cup {c}
         /\ \A b \in Block \ {p} : Kids(s, b) \cap Kids(s, p) = {} => Kids(u, b) = Kids(s, b)
    <2>1. CASE z = p /\ s.child[p] = Null /\ u.sibling = s.sibling /\ u.child[p] = c
      <3>1. Walk(s.sibling, c) = {c}
        BY <1>1, <1>6
      <3>2. Kids(u, p) = {c} /\ Kids(s, p) = {}
        BY <1>1, <1>6, <1>7, <2>1, <3>1 DEF Kids
      <3>3. \A b \in Block \ {p} : u.child[b] = s.child[b]
        BY <1>8, <2>1
      <3> QED
        BY <2>1, <3>2, <3>3 DEF Kids
    <2>2. CASE z \in Kids(s, p) /\ u.child = s.child /\ s.sibling[z] = Null /\ u.sibling[z] = c
      <3>1. z # c /\ Walk(s.sibling, c) = {c}
        BY <1>1, <1>4, <1>6, <1>8, <2>2
      <3>2. Grafts(s.sibling, Nowhere, u.sibling, Nowhere, z, c)
        BY <1>1, <1>2, <1>6, <1>8, <2>2, <3>1, BlockIsPointer DEF Grafts, Memory, Walk
      <3>3. \A b \in Pointer : Walk(u.sibling, b) = Walk(s.sibling, b) \cup
               IF z \in Walk(s.sibling, b) THEN Walk(s.sibling, c) ELSE {}
        BY <3>2, Graft DEF Walk
      <3>4. \A b \in Block : Kids(u, b) = Kids(s, b) \cup IF z \in Kids(s, b) THEN {c} ELSE {}
        BY <1>6, <2>2, <3>1, <3>3 DEF Kids
      <3>5. Kids(u, p) = Kids(s, p) \cup {c}
        BY <1>1, <2>2, <3>4
      <3>6. ASSUME NEW b \in Block \ {p}, Kids(s, b) \cap Kids(s, p) = {}
            PROVE  Kids(u, b) = Kids(s, b)
        BY <2>2, <3>4, <3>6
      <3> QED
        BY <3>5, <3>6
    <2> QED
      BY <1>4, <2>1, <2>2
  <1>13. \A b \in Block \ Family(s, p) : u.child[b] = s.child[b] /\ u.sibling[b] = s.sibling[b]
    BY <1>4, <1>8
  <1>14. \A b \in Block \ Below(s, s.child[p]) : u.sibling[b] = s.sibling[b]
    <2>1. CASE z = p
      BY <1>4, <1>6, <1>8, <2>1 DEF Kids
    <2>2. CASE z # p
      BY <1>8, <1>9, <2>2
    <2> QED
      BY <2>1, <2>2
  <1>15. \A b \in Block : p \in Family(s, b) => Family(u, b) = Family(s, b) \cup Family(s, c)
    BY <1>10
  <1>16. \A b \in Block : Family(s, b) \cap Family(s, p) = {} => Family(u, b) = Family(s, b)
    BY <1>11
  <1> QED
    BY <1>5, <1>12, <1>13, <1>14, <1>15, <1>16

-----------------------------------------------------------------------------
(* A memory in which the trees with the roots R, and nothing else, are     *)
(* stored: what HashTree!IInv says of the memory.                          *)

Grown(s, R) == UNION {Family(s, r) : r \in R}

(* A node that points nowhere.                                             *)
Free(s, b) == /\ s.left[b] = Null /\ s.right[b] = Null /\ s.parent[b] = Null
              /\ s.child[b] = Null /\ s.sibling[b] = Null

(* The links of the tree of r.                                             *)
Linked(s, r) ==
    /\ s.parent[r] = Null /\ s.sibling[r] = Null
    /\ \A p \in Family(s, r) : /\ Kids(s, p) = {b \in Family(s, r) \ {r} : Parent[b] = p}
                               /\ \A b \in Kids(s, p) : s.parent[b] = p

Tidy(s, R) ==
    /\ Searchable(s) /\ Grounded(s.child, s.sibling) /\ R \subseteq Block
    /\ \A r \in R : /\ Nodes(s, r) = Family(s, r) /\ Linked(s, r)
                    /\ \A b \in Family(s, r) \ {r} : Parent[b] \in Family(s, r)
    /\ \A r, q \in R : Family(s, r) \cap Family(s, q) # {} => r = q
    /\ \A b \in Block \ Grown(s, R) : Free(s, b)

(* A node that points nowhere is a tree of one block.                      *)
LEMMA FreeFacts ==
    ASSUME NEW s, Searchable(s), Grounded(s.child, s.sibling), NEW b \in Block, Free(s, b)
    PROVE  Family(s, b) = {b} /\ Nodes(s, b) = {b} /\ Kids(s, b) = {}
  <1>1. /\ Below(s, Null) = {} /\ Walk(s.sibling, Null) = {}
        /\ Family(s, b) = {b} \cup Below(s, s.child[b])
    BY FamilyFacts DEF Searchable
  <1>2. Nodes(s, Null) = {} /\ Nodes(s, b) = {b} \cup Nodes(s, s.left[b]) \cup Nodes(s, s.right[b])
    BY NodesFacts DEF Searchable
  <1> QED
    BY <1>1, <1>2 DEF Free, Kids

(* What a tidy memory says of each tree with a root of R.                  *)
LEMMA TidyFacts ==
    ASSUME NEW s, NEW R, Tidy(s, R)
    PROVE  /\ s \in Memory /\ Searchable(s) /\ Grounded(s.child, s.sibling) /\ R \subseteq Block
           /\ \A r \in R : /\ r \in Family(s, r) /\ Family(s, r) \subseteq Block
                           /\ Nodes(s, r) = Family(s, r) /\ Enclosed(s, r)
                           /\ \A p \in Family(s, r) : Family(s, p) \subseteq Family(s, r)
                           /\ \A p \in Family(s, r) : r \notin Below(s, s.child[p])
           /\ \A p, q \in Block : p # q => Kids(s, p) \cap Kids(s, q) = {}
  <1>1. s \in Memory /\ Searchable(s) /\ Grounded(s.child, s.sibling) /\ R \subseteq Block
    BY DEF Tidy, Searchable
  <1>2. /\ \A b \in Block : /\ s.child[b] \in Pointer /\ b \in Below(s, b)
                            /\ Below(s, b) = Family(s, b) \cup Below(s, s.sibling[b])
                            /\ Family(s, b) = {b} \cup Below(s, s.child[b])
                            /\ b \notin Below(s, s.child[b]) /\ Below(s, b) \subseteq Block
        /\ \A b \in Pointer : \A c \in Below(s, b) : Below(s, c) \subseteq Below(s, b)
    BY <1>1, FamilyFacts
  <1>3. ASSUME NEW r \in R
        PROVE  /\ r \in Family(s, r) /\ Family(s, r) \subseteq Block
               /\ \A p \in Family(s, r) : Family(s, p) \subseteq Family(s, r)
               /\ \A p \in Family(s, r) : r \notin Below(s, s.child[p])
    <2>1. r \in Family(s, r) /\ Family(s, r) \subseteq Block
      BY <1>1, <1>2
    <2>2. ASSUME NEW p \in Family(s, r)
          PROVE  Family(s, p) \subseteq Family(s, r) /\ r \notin Below(s, s.child[p])
      <3>1. CASE p = r
        BY <1>1, <1>2, <3>1
      <3>2. CASE p # r
        <4>1. p \in Below(s, s.child[r]) /\ p \in Block /\ s.child[r] \in Pointer
          BY <1>1, <1>2, <2>1, <3>2
        <4>2. Below(s, p) \subseteq Below(s, s.child[r])
          BY <1>2, <4>1
        <4>3. Family(s, p) \subseteq Below(s, s.child[r])
          BY <1>2, <4>1, <4>2
        <4> QED
          BY <1>1, <1>2, <4>1, <4>3
      <3> QED
        BY <3>1, <3>2
    <2> QED
      BY <2>1, <2>2
  <1>4. ASSUME NEW r \in R PROVE Nodes(s, r) = Family(s, r) /\ Enclosed(s, r)
    <2>1. \A q \in R : Nodes(s, q) = Family(s, q)
      BY DEF Tidy
    <2>2. ASSUME NEW c \in Block \ Nodes(s, r)
          PROVE  s.left[c] \notin Nodes(s, r) /\ s.right[c] \notin Nodes(s, r)
      <3>1. CASE c \in Grown(s, R)
        <4>1. PICK q \in R : c \in Nodes(s, q)
          BY <2>1, <3>1 DEF Grown
        <4>2. /\ s.left[c] = Null \/ s.left[c] \in Nodes(s, q)
              /\ s.right[c] = Null \/ s.right[c] \in Nodes(s, q)
          BY <1>1, <4>1, NodesFacts, BlockIsPointer DEF Searchable
        <4>3. Nodes(s, q) \cap Nodes(s, r) = {}
          BY <2>1, <2>2, <4>1 DEF Tidy
        <4> QED
          BY <1>1, <1>3, <2>1, <4>2, <4>3, BlockIsPointer
      <3>2. CASE c \notin Grown(s, R)
        BY <1>3, <2>1, <2>2, <3>2, BlockIsPointer DEF Tidy, Free
      <3> QED
        BY <3>1, <3>2
    <2> QED
      BY <2>1, <2>2 DEF Enclosed
  <1>5. ASSUME NEW p \in Block, NEW b \in Kids(s, p) PROVE Parent[b] = p
    <2>1. p \in Grown(s, R)
      BY <1>1, FreeFacts DEF Tidy
    <2>2. PICK r \in R : p \in Family(s, r)
      BY <2>1 DEF Grown
    <2> QED
      BY <2>2 DEF Tidy, Linked
  <1>6. \A p, q \in Block : p # q => Kids(s, p) \cap Kids(s, q) = {}
    BY <1>5
  <1> QED
    BY <1>1, <1>3, <1>4, <1>6

(* The search tree of t was moved to that of r, where the parent p of t    *)
(* is; then t was appended to the children of p.                           *)
Joins(s, R, m, u, r, t, p) ==
    /\ Tidy(s, R) /\ r \in R /\ t \in R /\ t # r /\ p \in Family(s, r) /\ Parent[t] = p
    /\ Searchable(m) /\ Nodes(m, r) = Nodes(s, r) \cup Nodes(s, t)
    /\ Touches(s, m, Nodes(s, r) \cup Nodes(s, t))
    /\ u = AppendChild(m, p, t)

(* What linking the tree of t below p does to the trees.                   *)
LEMMA JoinShape ==
    ASSUME NEW s, NEW R, NEW m, NEW u, NEW r, NEW t, NEW p, Joins(s, R, m, u, r, t, p)
    PROVE  /\ u \in Memory /\ Searchable(u) /\ Grounded(u.child, u.sibling)
           /\ u.parent[t] = p /\ u.nb = s.nb
           /\ \A b \in Block \ {t} : u.parent[b] = s.parent[b]
           /\ \A b \in Block \ (Family(s, r) \cup Family(s, t)) :
                 /\ u.left[b] = s.left[b] /\ u.right[b] = s.right[b]
                 /\ u.child[b] = s.child[b] /\ u.sibling[b] = s.sibling[b]
           /\ \A q \in R \ {t} : u.sibling[q] = s.sibling[q]
           /\ Nodes(u, r) = Family(s, r) \cup Family(s, t)
           /\ Family(u, r) = Family(s, r) \cup Family(s, t)
           /\ \A q \in R \ {r, t} : Nodes(u, q) = Family(s, q) /\ Family(u, q) = Family(s, q)
           /\ Family(u, t) = Family(s, t)
           /\ Kids(u, p) = Kids(s, p) \cup {t}
           /\ \A b \in Block \ {p} : Kids(u, b) = Kids(s, b)
  <1>1. /\ Tidy(s, R) /\ r \in R /\ t \in R /\ t # r /\ p \in Family(s, r)
        /\ Searchable(m) /\ Nodes(m, r) = Nodes(s, r) \cup Nodes(s, t)
        /\ Touches(s, m, Nodes(s, r) \cup Nodes(s, t))
        /\ u = AppendChild(m, p, t)
    BY DEF Joins
  <1>2. /\ s \in Memory /\ Searchable(s) /\ Grounded(s.child, s.sibling) /\ R \subseteq Block
        /\ \A q \in R : /\ q \in Family(s, q) /\ Family(s, q) \subseteq Block
                        /\ Nodes(s, q) = Family(s, q) /\ Enclosed(s, q)
                        /\ \A b \in Family(s, q) : Family(s, b) \subseteq Family(s, q)
                        /\ \A b \in Family(s, q) : q \notin Below(s, s.child[b])
        /\ \A b, c \in Block : b # c => Kids(s, b) \cap Kids(s, c) = {}
    BY <1>1, TidyFacts
  <1>3. \A q, x \in R : Family(s, q) \cap Family(s, x) # {} => q = x
    BY <1>1 DEF Tidy
  <1>4. /\ m \in Memory /\ m.child = s.child /\ m.sibling = s.sibling
        /\ m.parent = s.parent /\ m.nb = s.nb
        /\ \A b \in Block \ (Family(s, r) \cup Family(s, t)) :
              m.left[b] = s.left[b] /\ m.right[b] = s.right[b]
    BY <1>1, <1>2 DEF Touches, Searchable
  <1>5. /\ \A b \in Block : Family(m, b) = Family(s, b) /\ Kids(m, b) = Kids(s, b)
        /\ \A b \in Pointer : Below(m, b) = Below(s, b)
    BY <1>4 DEF Family, Kids, Below
  <1>6. Appends(m, u, p, t)
    <2>1. p \in Block /\ t \in Block /\ Grounded(m.child, m.sibling) /\ m.sibling[t] = Null
      BY <1>1, <1>2, <1>4 DEF Tidy, Linked
    <2>2. Family(s, p) \cap Family(s, t) = {}
      BY <1>1, <1>2, <1>3
    <2>3. Family(m, p) \cap Family(m, t) = {}
      BY <1>5, <2>1, <2>2
    <2> QED
      BY <1>1, <1>4, <2>1, <2>3 DEF Appends
  <1>7. /\ u \in Memory /\ u.parent[t] = p
        /\ \A b \in Block \ {t} : u.parent[b] = m.parent[b]
        /\ u.left = m.left /\ u.right = m.right /\ u.nb = m.nb
    <2>1. u \in Memory
      BY <1>6, AppendShape
    <2>2. u.parent[t] = p
      BY <1>6, AppendShape
    <2>3. \A b \in Block \ {t} : u.parent[b] = m.parent[b]
      BY <1>6, AppendShape
    <2>4. u.left = m.left /\ u.right = m.right
      BY <1>6, AppendShape
    <2>5. u.nb = m.nb
      BY <1>6, AppendShape
    <2> QED
      BY <2>1, <2>2, <2>3, <2>4, <2>5
  <1>8. /\ Grounded(u.child, u.sibling)
        /\ \A b \in Block \ Family(m, p) : u.child[b] = m.child[b] /\ u.sibling[b] = m.sibling[b]
        /\ \A b \in Block \ Below(m, m.child[p]) : u.sibling[b] = m.sibling[b]
        /\ \A b \in Block : p \in Family(m, b) => Family(u, b) = Family(m, b) \cup Family(m, t)
        /\ \A b \in Block : Family(m, b) \cap Family(m, p) = {} => Family(u, b) = Family(m, b)
        /\ Kids(u, p) = Kids(m, p) \cup {t}
        /\ \A b \in Block \ {p} : Kids(m, b) \cap Kids(m, p) = {} => Kids(u, b) = Kids(m, b)
    BY <1>6, AppendFacts
  <1>9. p \in Block /\ r \in Block /\ t \in Block /\ s.child[p] \in Pointer
    BY <1>1, <1>2, FamilyFacts
  <1>10. \A b : Nodes(u, b) = Nodes(m, b)
    BY <1>7 DEF Nodes
  <1>11. Searchable(u)
    BY <1>1, <1>7, <1>10 DEF Searchable, Ordered
  <1>12. Nodes(u, r) = Family(s, r) \cup Family(s, t)
    BY <1>1, <1>2, <1>10
  <1>13. Family(u, r) = Family(s, r) \cup Family(s, t)
    BY <1>1, <1>5, <1>8, <1>9
  <1>14. ASSUME NEW q \in R \ {r, t}
         PROVE  Nodes(u, q) = Family(s, q) /\ Family(u, q) = Family(s, q)
    <2>1. q \in Block /\ q \in Pointer
      BY <1>2, BlockIsPointer
    <2>2. Family(s, q) \cap Family(s, r) = {} /\ Family(s, q) \cap Family(s, t) = {}
      BY <1>1, <1>3
    <2>3. Nodes(m, q) = Nodes(s, q)
      <3>1. \A c \in Nodes(s, q) : m.left[c] = s.left[c] /\ m.right[c] = s.right[c]
        BY <1>2, <1>4, <2>2
      <3> QED
        BY <1>2, <1>4, <2>1, <3>1, NodesFrame DEF Searchable
    <2>4. Family(s, q) \cap Family(s, p) = {}
      BY <1>1, <1>2, <2>2
    <2>5. Family(m, q) \cap Family(m, p) = {}
      BY <1>5, <1>9, <2>1, <2>4
    <2>6. Family(u, q) = Family(m, q)
      BY <1>8, <2>1, <2>5
    <2> QED
      BY <1>2, <1>5, <1>10, <2>1, <2>3, <2>6
  <1>15. /\ Kids(u, p) = Kids(s, p) \cup {t}
         /\ \A b \in Block \ {p} : Kids(u, b) = Kids(s, b)
    <2>1. Kids(u, p) = Kids(s, p) \cup {t}
      BY <1>5, <1>8, <1>9
    <2>2. ASSUME NEW b \in Block \ {p} PROVE Kids(u, b) = Kids(s, b)
      <3>1. Kids(m, b) \cap Kids(m, p) = {}
        BY <1>2, <1>5, <1>9
      <3> QED
        BY <1>5, <1>8, <3>1
    <2> QED
      BY <2>1, <2>2
  <1>16. Family(s, p) \subseteq Family(s, r)
    BY <1>1, <1>2
  <1>17. ASSUME NEW b \in Block \ (Family(s, r) \cup Family(s, t))
         PROVE  /\ u.left[b] = s.left[b] /\ u.right[b] = s.right[b]
                /\ u.child[b] = s.child[b] /\ u.sibling[b] = s.sibling[b]
    <2>1. b \notin Family(m, p)
      BY <1>5, <1>9, <1>16
    <2> QED
      BY <1>4, <1>7, <1>8, <2>1
  <1>18. ASSUME NEW q \in R \ {t} PROVE u.sibling[q] = s.sibling[q]
    <2>1. CASE q = r
      <3>1. q \notin Below(m, m.child[p])
        BY <1>1, <1>2, <1>4, <1>5, <1>9, <2>1
      <3> QED
        BY <1>2, <1>4, <1>8, <3>1
    <2>2. CASE q # r
      <3>1. q \notin Family(s, r) \cup Family(s, t) /\ q \in Block
        BY <1>1, <1>2, <1>3, <2>2
      <3> QED
        BY <1>17, <3>1
    <2> QED
      BY <2>1, <2>2
  <1>19. u.parent[t] = p /\ u.nb = s.nb /\ \A b \in Block \ {t} : u.parent[b] = s.parent[b]
    BY <1>4, <1>7
  <1>20. Family(u, t) = Family(s, t)
    <2>1. Family(s, t) \cap Family(s, p) = {}
      BY <1>1, <1>2, <1>3
    <2>2. Family(m, t) \cap Family(m, p) = {}
      BY <1>5, <1>9, <2>1
    <2> QED
      BY <1>5, <1>8, <1>9, <2>2
  <1> QED
    BY <1>7, <1>8, <1>11, <1>12, <1>13, <1>14, <1>15, <1>17, <1>18, <1>19, <1>20

(* Two trees have become one, and nothing else is different.               *)
(* The tree of t is now part of that of r.                                 *)
Joined(s, R, u, r, t) ==
    /\ Tidy(u, R \ {t}) /\ u.nb = s.nb
    /\ Family(u, r) = Family(s, r) \cup Family(s, t) /\ Family(u, t) = Family(s, t)
    /\ \A q \in R \ {r, t} : Family(u, q) = Family(s, q)

LEMMA JoinKeepsTidy ==
    ASSUME NEW s, NEW R, NEW m, NEW u, NEW r, NEW t, NEW p, Joins(s, R, m, u, r, t, p)
    PROVE  Joined(s, R, u, r, t)
  <1>1. /\ Tidy(s, R) /\ r \in R /\ t \in R /\ t # r /\ p \in Family(s, r) /\ Parent[t] = p
    BY DEF Joins
  <1>2. /\ u \in Memory /\ Searchable(u) /\ Grounded(u.child, u.sibling)
        /\ u.parent[t] = p /\ u.nb = s.nb
        /\ \A b \in Block \ {t} : u.parent[b] = s.parent[b]
        /\ \A b \in Block \ (Family(s, r) \cup Family(s, t)) :
              /\ u.left[b] = s.left[b] /\ u.right[b] = s.right[b]
              /\ u.child[b] = s.child[b] /\ u.sibling[b] = s.sibling[b]
        /\ \A q \in R \ {t} : u.sibling[q] = s.sibling[q]
        /\ Nodes(u, r) = Family(s, r) \cup Family(s, t)
        /\ Family(u, r) = Family(s, r) \cup Family(s, t)
        /\ \A q \in R \ {r, t} : Nodes(u, q) = Family(s, q) /\ Family(u, q) = Family(s, q)
        /\ Family(u, t) = Family(s, t)
        /\ Kids(u, p) = Kids(s, p) \cup {t}
        /\ \A b \in Block \ {p} : Kids(u, b) = Kids(s, b)
    BY JoinShape
  <1>3. /\ s \in Memory /\ R \subseteq Block
        /\ \A q \in R : q \in Family(s, q) /\ Family(s, q) \subseteq Block
    BY <1>1, TidyFacts
  <1>4. \A q, x \in R : Family(s, q) \cap Family(s, x) # {} => q = x
    BY <1>1 DEF Tidy
  <1>5. \A q \in R : /\ s.parent[q] = Null /\ s.sibling[q] = Null
                     /\ \A b \in Family(s, q) \ {q} : Parent[b] \in Family(s, q)
                     /\ \A x \in Family(s, q) :
                           /\ Kids(s, x) = {b \in Family(s, q) \ {q} : Parent[b] = x}
                           /\ \A b \in Kids(s, x) : s.parent[b] = x
    BY <1>1 DEF Tidy, Linked
  <1>6. Family(s, r) \cap Family(s, t) = {} /\ t \notin Family(s, r) /\ t \in Block
    BY <1>1, <1>3, <1>4
  <1>7. u.parent[t] = p /\ \A b \in Block \ {t} : u.parent[b] = s.parent[b]
    BY <1>2
  <1>8. ASSUME NEW x \in Family(s, r) \cup Family(s, t)
        PROVE  /\ Kids(u, x) = {b \in (Family(s, r) \cup Family(s, t)) \ {r} : Parent[b] = x}
               /\ \A b \in Kids(u, x) : u.parent[b] = x
    <2>1. CASE x = p
      <3>1. Kids(s, p) = {b \in Family(s, r) \ {r} : Parent[b] = p}
        BY <1>1, <1>5
      <3>2. \A b \in Family(s, t) \ {t} : Parent[b] # p
        BY <1>1, <1>5, <1>6
      <3>3. Kids(u, p) = {b \in (Family(s, r) \cup Family(s, t)) \ {r} : Parent[b] = p}
        BY <1>1, <1>2, <1>3, <1>6, <3>1, <3>2
      <3>4. \A b \in Kids(s, p) : b \in Block \ {t} /\ s.parent[b] = p
        BY <1>1, <1>3, <1>5, <1>6, <3>1
      <3> QED
        BY <1>2, <1>7, <2>1, <3>3, <3>4
    <2>2. CASE x \in Family(s, r) /\ x # p
      <3>1. /\ Kids(s, x) = {b \in Family(s, r) \ {r} : Parent[b] = x}
            /\ \A b \in Kids(s, x) : s.parent[b] = x
        BY <1>1, <1>5, <2>2
      <3>2. \A b \in Family(s, t) : Parent[b] # x
        BY <1>1, <1>5, <1>6, <2>2
      <3>3. x \in Block /\ Kids(u, x) = Kids(s, x)
        BY <1>1, <1>2, <1>3, <2>2
      <3>4. \A b \in Kids(s, x) : b \in Block \ {t}
        BY <1>1, <1>3, <1>6, <3>1
      <3>5. Kids(s, x) = {b \in (Family(s, r) \cup Family(s, t)) \ {r} : Parent[b] = x}
        BY <3>1, <3>2
      <3> QED
        BY <1>7, <3>1, <3>3, <3>4, <3>5
    <2>3. CASE x \in Family(s, t)
      <3>1. /\ Kids(s, x) = {b \in Family(s, t) \ {t} : Parent[b] = x}
            /\ \A b \in Kids(s, x) : s.parent[b] = x
        BY <1>1, <1>5, <2>3
      <3>2. x # p /\ Parent[t] # x /\ r \notin Family(s, t)
        BY <1>1, <1>3, <1>6, <2>3
      <3>3. \A b \in Family(s, r) \ {r} : Parent[b] # x
        BY <1>1, <1>5, <1>6, <2>3
      <3>4. x \in Block /\ Kids(u, x) = Kids(s, x)
        BY <1>1, <1>2, <1>3, <2>3, <3>2
      <3>5. \A b \in Kids(s, x) : b \in Block \ {t}
        BY <1>1, <1>3, <3>1
      <3>6. Kids(s, x) = {b \in (Family(s, r) \cup Family(s, t)) \ {r} : Parent[b] = x}
        BY <3>1, <3>2, <3>3
      <3> QED
        BY <1>7, <3>1, <3>4, <3>5, <3>6
    <2> QED
      BY <2>1, <2>2, <2>3
  <1>9. Linked(u, r) /\ \A b \in Family(u, r) \ {r} : Parent[b] \in Family(u, r)
    <2>1. u.parent[r] = Null /\ u.sibling[r] = Null
      BY <1>1, <1>2, <1>3, <1>5, <1>7
    <2>2. ASSUME NEW b \in (Family(s, r) \cup Family(s, t)) \ {r}
          PROVE  Parent[b] \in Family(s, r) \cup Family(s, t)
      BY <1>1, <1>5
    <2> QED
      BY <1>2, <1>8, <2>1, <2>2 DEF Linked
  <1>10. ASSUME NEW q \in R \ {r, t}
         PROVE  Linked(u, q) /\ \A b \in Family(u, q) \ {q} : Parent[b] \in Family(u, q)
    <2>1. u.parent[q] = Null /\ u.sibling[q] = Null
      BY <1>2, <1>3, <1>5, <1>7
    <2>2. Family(u, q) = Family(s, q) /\ t \notin Family(s, q) /\ p \notin Family(s, q)
      BY <1>1, <1>2, <1>3, <1>4
    <2>3. ASSUME NEW x \in Family(s, q)
          PROVE  /\ Kids(u, x) = {b \in Family(s, q) \ {q} : Parent[b] = x}
                 /\ \A b \in Kids(u, x) : u.parent[b] = x
      <3>1. /\ Kids(s, x) = {b \in Family(s, q) \ {q} : Parent[b] = x}
            /\ \A b \in Kids(s, x) : s.parent[b] = x
        BY <1>5
      <3>2. x \in Block /\ Kids(u, x) = Kids(s, x)
        BY <1>2, <1>3, <2>2
      <3>3. \A b \in Kids(s, x) : b \in Block \ {t}
        BY <1>3, <2>2, <3>1
      <3> QED
        BY <1>7, <3>1, <3>2, <3>3
    <2> QED
      BY <1>5, <2>1, <2>2, <2>3 DEF Linked
  <1>11. ASSUME NEW q \in R \ {t}, NEW x \in R \ {t}, Family(u, q) \cap Family(u, x) # {}
         PROVE  q = x
    <2>1. \A y \in R \ {t} : Family(u, y) = IF y = r THEN Family(s, r) \cup Family(s, t)
                                           ELSE Family(s, y)
      BY <1>2
    <2> QED
      BY <1>1, <1>4, <1>11, <2>1
  <1>12. ASSUME NEW b \in Block \ Grown(u, R \ {t}) PROVE Free(u, b)
    <2>1. \A q \in R \ {t} : b \notin Family(u, q)
      BY <1>12 DEF Grown
    <2>2. \A q \in R : b \notin Family(s, q)
      BY <1>1, <1>2, <2>1
    <2>3. Free(s, b)
      BY <1>1, <2>2 DEF Tidy, Grown
    <2>4. b # t /\ b \notin Family(s, r) \cup Family(s, t)
      BY <1>1, <1>3, <2>2
    <2> QED
      BY <1>2, <1>7, <2>3, <2>4 DEF Free
  <1>13. \A q \in R \ {t} : /\ Nodes(u, q) = Family(u, q) /\ Linked(u, q)
                            /\ \A b \in Family(u, q) \ {q} : Parent[b] \in Family(u, q)
    BY <1>2, <1>9, <1>10
  <1>14. R \ {t} \subseteq Block
    BY <1>3
  <1>15. Tidy(u, R \ {t})
    BY <1>2, <1>11, <1>12, <1>13, <1>14 DEF Tidy
  <1> QED
    BY <1>2, <1>15 DEF Joined

(* What find_block_by_hash finds in a tree.                                *)
LEMMA HoldsIsFamily ==
    ASSUME NEW s, NEW R, Tidy(s, R), NEW r \in R, NEW h \in Block
    PROVE  Holds(s, r, h) <=> h \in Family(s, r)
  <1>1. Searchable(s) /\ R \subseteq Block
    BY TidyFacts
  <1>2. Nodes(s, r) = Family(s, r)
    BY TidyFacts
  <1>3. r \in Pointer
    BY <1>1, BlockIsPointer
  <1>4. Holds(s, r, h) <=> h \in Nodes(s, r)
    BY <1>1, <1>3, HoldsIsNodes
  <1> QED
    BY <1>2, <1>4

(* A node in no tree is the root of a tree with nothing below it, and      *)
(* clearing it changes nothing.                                            *)
LEMMA PlantKeepsTidy ==
    ASSUME NEW s, NEW R, Tidy(s, R), NEW x \in Block \ Grown(s, R)
    PROVE  /\ Tidy(s, R \cup {x}) /\ Family(s, x) = {x} /\ x \notin R
           /\ x \notin s.nb => Clear(s, {x}) = s
  <1>1. /\ s \in Memory /\ Searchable(s) /\ Grounded(s.child, s.sibling) /\ R \subseteq Block
        /\ \A r \in R : r \in Family(s, r) /\ Nodes(s, r) = Family(s, r)
    BY TidyFacts
  <1>2. Free(s, x)
    BY DEF Tidy
  <1>3. Family(s, x) = {x} /\ Nodes(s, x) = {x} /\ Kids(s, x) = {}
    BY <1>1, <1>2, FreeFacts
  <1>4. x \notin R /\ \A r \in R : x \notin Family(s, r)
    BY <1>1 DEF Grown
  <1>5. Linked(s, x)
    BY <1>2, <1>3 DEF Linked, Free
  <1>6. Grown(s, R \cup {x}) = Grown(s, R) \cup {x}
    BY <1>3 DEF Grown
  <1>7. \A r, q \in R \cup {x} : Family(s, r) \cap Family(s, q) # {} => r = q
    BY <1>3, <1>4 DEF Tidy
  <1>8. Tidy(s, R \cup {x})
    BY <1>1, <1>3, <1>5, <1>6, <1>7 DEF Tidy
  <1>9. ASSUME x \notin s.nb PROVE Clear(s, {x}) = s
    <2> DEFINE Cleared(f) == [b \in Block |-> IF b \in {x} THEN Null ELSE f[b]]
    <2>1. /\ Cleared(s.left) = s.left /\ Cleared(s.right) = s.right
          /\ Cleared(s.parent) = s.parent /\ Cleared(s.child) = s.child
          /\ Cleared(s.sibling) = s.sibling
      BY <1>1, <1>2 DEF Memory, Free
    <2>2. s.nb \ {x} = s.nb
      BY <1>9
    <2>3. Clear(s, {x}) = [left |-> s.left, right |-> s.right, parent |-> s.parent,
                           child |-> s.child, sibling |-> s.sibling, nb |-> s.nb]
      BY <2>1, <2>2 DEF Clear
    <2> QED
      BY <1>1, <2>3 DEF Memory
  <1> QED
    BY <1>3, <1>4, <1>8, <1>9

(* A header is no link.                                                    *)
LEMMA HeaderKeepsTidy ==
    ASSUME NEW s, NEW R, Tidy(s, R), NEW h \in Block, NEW u, u = WithHeader(s, h)
    PROVE  /\ Tidy(u, R) /\ u.nb = s.nb \cup {h}
           /\ \A b : Family(u, b) = Family(s, b)
  <1>1. s \in Memory /\ Searchable(s)
    BY TidyFacts
  <1>2. /\ u \in Memory /\ u.nb = s.nb \cup {h} /\ u.left = s.left /\ u.right = s.right
        /\ u.parent = s.parent /\ u.child = s.child /\ u.sibling = s.sibling
    BY <1>1 DEF Memory, WithHeader
  <1>3. \A b : Family(u, b) = Family(s, b) /\ Kids(u, b) = Kids(s, b) /\ Nodes(u, b) = Nodes(s, b)
    BY <1>2 DEF Family, Kids, Nodes
  <1>4. Searchable(u)
    BY <1>1, <1>2, <1>3 DEF Searchable, Ordered
  <1>5. Grown(u, R) = Grown(s, R) /\ \A b : Free(u, b) <=> Free(s, b)
    BY <1>2, <1>3 DEF Grown, Free
  <1>6. \A r : Linked(u, r) <=> Linked(s, r)
    BY <1>2, <1>3 DEF Linked
  <1> QED
    BY <1>2, <1>3, <1>4, <1>5, <1>6 DEF Tidy

(* add_block_by_parent_hash, of a block that is in no tree.                *)
LEMMA AddKeepsTidy ==
    ASSUME NEW s, NEW R, Tidy(s, R), NEW r \in R, NEW p \in Family(s, r),
           NEW h \in Block \ Grown(s, R), h \notin s.nb, Parent[h] = p,
           NEW u, u = AddByParent(s, r, p, h)
    PROVE  /\ Tidy(u, R) /\ u.nb = s.nb
           /\ Family(u, r) = Family(s, r) \cup {h} /\ Family(u, h) = {h}
           /\ \A q \in R \ {r} : Family(u, q) = Family(s, q)
  <1>1. /\ Tidy(s, R \cup {h}) /\ Family(s, h) = {h} /\ h \notin R /\ Clear(s, {h}) = s
    BY PlantKeepsTidy
  <1>2. /\ Searchable(s) /\ r \in Block /\ Family(s, r) \subseteq Block
        /\ Nodes(s, r) = Family(s, r) /\ Enclosed(s, r)
    BY TidyFacts
  <1>3. Nodes(s, h) = Family(s, h) /\ s.left[h] = Null /\ s.right[h] = Null
    BY <1>1, TidyFacts DEF Tidy, Free
  <1> DEFINE m == InsertByHash(s, r, h)
  <1>4. u = AppendChild(m, p, h)
    <2>1. Holds(s, r, p)
      BY <1>2, HoldsIsFamily
    <2> QED
      BY <1>1, <2>1 DEF AddByParent
  <1>5. h \notin Nodes(s, r)
    BY <1>2 DEF Grown
  <1>6. /\ Searchable(m) /\ Nodes(m, r) = Nodes(s, r) \cup {h}
        /\ Touches(s, m, Nodes(s, r))
    <2>1. m = InsertByHash(s, r, h)
      OBVIOUS
    <2> HIDE DEF m
    <2>2. Searchable(m)
      BY <1>2, <1>3, <1>5, <2>1, InsertByHashAdds
    <2>3. Nodes(m, r) = Nodes(s, r) \cup {h}
      BY <1>2, <1>3, <1>5, <2>1, InsertByHashAdds
    <2>4. ASSUME NEW c \in Block \ Nodes(s, r)
          PROVE  m.left[c] = s.left[c] /\ m.right[c] = s.right[c]
      BY <1>2, <1>3, <1>5, <2>1, InsertByHashAdds
    <2>5. m.parent = s.parent /\ m.child = s.child /\ m.sibling = s.sibling /\ m.nb = s.nb
      BY <1>2, <1>3, <1>5, <2>1, InsertByHashAdds
    <2> QED
      BY <2>2, <2>3, <2>4, <2>5 DEF Touches
  <1> HIDE DEF m
  <1>7. Joins(s, R \cup {h}, m, u, r, h, p)
    <2>1. Touches(s, m, Nodes(s, r) \cup Nodes(s, h))
      BY <1>6 DEF Touches
    <2> QED
      BY <1>1, <1>3, <1>4, <1>6, <2>1 DEF Joins
  <1>8. Joined(s, R \cup {h}, u, r, h)
    BY <1>7, JoinKeepsTidy
  <1>9. (R \cup {h}) \ {h} = R /\ (R \cup {h}) \ {r, h} = R \ {r}
    BY <1>1
  <1> QED
    BY <1>1, <1>8, <1>9 DEF Joined

(* Two trees are merged.                                                   *)
LEMMA MergeKeepsTidy ==
    ASSUME NEW s, NEW R, Tidy(s, R), NEW r \in R, NEW t \in R \ {r}, NEW p \in Family(s, r),
           Parent[t] = p, IsFiniteSet(Family(s, t)), NEW u, u = Merge(s, r, p, t)
    PROVE  Joined(s, R, u, r, t)
  <1>1. /\ Searchable(s) /\ r \in Block /\ t \in Block
        /\ Nodes(s, r) = Family(s, r) /\ Enclosed(s, r)
        /\ Nodes(s, t) = Family(s, t) /\ Enclosed(s, t)
    BY TidyFacts
  <1>2. Family(s, r) \cap Family(s, t) = {}
    BY DEF Tidy
  <1> DEFINE m == InsertSubtree(s, r, t)
  <1>3. /\ Searchable(m) /\ Nodes(m, r) = Nodes(s, r) \cup Nodes(s, t)
        /\ Touches(s, m, Nodes(s, r) \cup Nodes(s, t))
    <2>1. Nodes(s, r) \cap Nodes(s, t) = {} /\ IsFiniteSet(Nodes(s, t))
      BY <1>1, <1>2
    <2> HIDE DEF m
    <2> QED
      BY <1>1, <2>1, InsertSubtreeMoves DEF m
  <1>4. u = AppendChild(m, p, t)
    BY DEF Merge
  <1> HIDE DEF m
  <1>5. Joins(s, R, m, u, r, t, p)
    BY <1>3, <1>4 DEF Joins
  <1> QED
    BY <1>5, JoinKeepsTidy

(* The trees of u are those of s with the roots Q; the blocks B are gone.  *)
Loses(s, u, Q, B) ==
    /\ Tidy(u, Q) /\ u.nb = s.nb \ B
    /\ \A q \in Q : Family(u, q) = Family(s, q)

(* Trees that are dropped leave the others alone.                          *)
LEMMA CutKeepsTidy ==
    ASSUME NEW s, NEW R, Tidy(s, R), NEW D \in SUBSET R,
           NEW u, u = Clear(s, Grown(s, D))
    PROVE  Loses(s, u, R \ D, Grown(s, D))
  <1> DEFINE B == Grown(s, D)
  <1>1. /\ s \in Memory /\ Searchable(s) /\ Grounded(s.child, s.sibling) /\ R \subseteq Block
        /\ \A q \in R : /\ q \in Family(s, q) /\ Family(s, q) \subseteq Block
                        /\ Nodes(s, q) = Family(s, q)
    BY TidyFacts
  <1>2. \A q, x \in R : Family(s, q) \cap Family(s, x) # {} => q = x
    BY DEF Tidy
  <1>3. \A q \in R : /\ s.parent[q] = Null /\ s.sibling[q] = Null
                     /\ \A b \in Family(s, q) \ {q} : Parent[b] \in Family(s, q)
                     /\ \A x \in Family(s, q) :
                           /\ Kids(s, x) = {b \in Family(s, q) \ {q} : Parent[b] = x}
                           /\ \A b \in Kids(s, x) : s.parent[b] = x
    BY DEF Tidy, Linked
  <1>4. \A q \in R \ D : \A b \in Family(s, q) : b \notin B
    BY <1>2 DEF Grown
  <1> HIDE DEF B
  <1>5. /\ u.nb = s.nb \ B /\ u \in Memory
        /\ \A b \in Block : /\ u.left[b] = IF b \in B THEN Null ELSE s.left[b]
                            /\ u.right[b] = IF b \in B THEN Null ELSE s.right[b]
                            /\ u.parent[b] = IF b \in B THEN Null ELSE s.parent[b]
                            /\ u.child[b] = IF b \in B THEN Null ELSE s.child[b]
                            /\ u.sibling[b] = IF b \in B THEN Null ELSE s.sibling[b]
    <2>1. u = Clear(s, B)
      BY DEF B
    <2>2. /\ u.nb = s.nb \ B
          /\ u.left = [b \in Block |-> IF b \in B THEN Null ELSE s.left[b]]
          /\ u.right = [b \in Block |-> IF b \in B THEN Null ELSE s.right[b]]
          /\ u.parent = [b \in Block |-> IF b \in B THEN Null ELSE s.parent[b]]
          /\ u.child = [b \in Block |-> IF b \in B THEN Null ELSE s.child[b]]
          /\ u.sibling = [b \in Block |-> IF b \in B THEN Null ELSE s.sibling[b]]
          /\ u = [left |-> u.left, right |-> u.right, parent |-> u.parent,
                  child |-> u.child, sibling |-> u.sibling, nb |-> u.nb]
      BY <2>1 DEF Clear
    <2>3. \A f \in [Block -> Pointer] :
             [b \in Block |-> IF b \in B THEN Null ELSE f[b]] \in [Block -> Pointer]
      BY BlockIsPointer
    <2>4. /\ s.left \in [Block -> Pointer] /\ s.right \in [Block -> Pointer]
          /\ s.parent \in [Block -> Pointer] /\ s.child \in [Block -> Pointer]
          /\ s.sibling \in [Block -> Pointer] /\ s.nb \in SUBSET Block
      BY <1>1 DEF Memory
    <2>5. /\ u.left \in [Block -> Pointer] /\ u.right \in [Block -> Pointer]
          /\ u.parent \in [Block -> Pointer] /\ u.child \in [Block -> Pointer]
          /\ u.sibling \in [Block -> Pointer] /\ u.nb \in SUBSET Block
      BY <2>2, <2>3, <2>4
    <2>6. u \in Memory
      BY <2>2, <2>5 DEF Memory
    <2> QED
      BY <2>2, <2>6
  <1>6. Searchable(u)
    BY <1>1, <1>5, CutLinks
  <1>7. Grounded(u.child, u.sibling)
    <2> SUFFICES ASSUME NEW C \in SUBSET Block, C # {}
                 PROVE  \E x \in C : u.child[x] \notin C /\ u.sibling[x] \notin C
      BY DEF Grounded
    <2>1. PICK x \in C : s.child[x] \notin C /\ s.sibling[x] \notin C
      BY <1>1 DEF Grounded
    <2> QED
      BY <1>5, <2>1, BlockIsPointer
  <1>8. ASSUME NEW q \in R \ D
        PROVE  Nodes(u, q) = Family(s, q) /\ Family(u, q) = Family(s, q)
    <2>1. q \in Block /\ q \in Pointer /\ Grounded(s.left, s.right)
      BY <1>1, BlockIsPointer DEF Searchable
    <2>2. \A c \in Family(s, q) : /\ u.left[c] = s.left[c] /\ u.right[c] = s.right[c]
                                  /\ u.child[c] = s.child[c] /\ u.sibling[c] = s.sibling[c]
      BY <1>1, <1>4, <1>5
    <2>3. Nodes(s, q) = Family(s, q)
      BY <1>1
    <2>4. Nodes(u, q) = Nodes(s, q)
      BY <1>1, <1>5, <2>1, <2>2, <2>3, NodesFrame
    <2>5. Family(u, q) = Family(s, q)
      BY <1>1, <1>5, <2>1, <2>2, FamilyFrame
    <2> QED
      BY <2>3, <2>4, <2>5
  <1>9. ASSUME NEW q \in R \ D
        PROVE  Linked(u, q) /\ \A b \in Family(u, q) \ {q} : Parent[b] \in Family(u, q)
    <2>1. u.parent[q] = Null /\ u.sibling[q] = Null
      BY <1>1, <1>3, <1>5
    <2>2. ASSUME NEW x \in Family(s, q)
          PROVE  /\ Kids(u, x) = {b \in Family(s, q) \ {q} : Parent[b] = x}
                 /\ \A b \in Kids(u, x) : u.parent[b] = x
      <3>1. /\ Kids(s, x) = {b \in Family(s, q) \ {q} : Parent[b] = x}
            /\ \A b \in Kids(s, x) : s.parent[b] = x
        BY <1>3
      <3>2. x \in Block /\ u.child[x] = s.child[x]
        BY <1>1, <1>4, <1>5
      <3>3. \A b \in Kids(s, x) : b \in Block /\ b \notin B
        BY <1>1, <1>4, <3>1
      <3>4. \A b \in Kids(s, x) : u.sibling[b] = s.sibling[b]
        BY <1>5, <3>3
      <3>5. Kids(u, x) = Kids(s, x)
        BY <1>1, <1>5, <3>2, <3>4, KidsFrame
      <3> QED
        BY <1>5, <3>1, <3>3, <3>5
    <2> QED
      BY <1>3, <1>8, <2>1, <2>2 DEF Linked
  <1>10. ASSUME NEW b \in Block \ Grown(u, R \ D) PROVE Free(u, b)
    <2>1. CASE b \in B
      BY <1>5, <2>1 DEF Free
    <2>2. CASE b \notin B
      <3>1. b \notin Grown(s, R)
        BY <1>8, <1>10, <2>2 DEF Grown, B
      <3>2. Free(s, b)
        BY <3>1 DEF Tidy
      <3> QED
        BY <1>5, <2>2, <3>2 DEF Free
    <2> QED
      BY <2>1, <2>2
  <1>11. \A q, x \in R \ D : Family(u, q) \cap Family(u, x) # {} => q = x
    BY <1>2, <1>8
  <1>12. R \ D \subseteq Block
    BY <1>1
  <1>13. Tidy(u, R \ D)
    BY <1>6, <1>7, <1>8, <1>9, <1>10, <1>11, <1>12 DEF Tidy
  <1> QED
    BY <1>5, <1>8, <1>13 DEF Loses, B

USE UniverseAssumption

-----------------------------------------------------------------------------
(* The memory s, the list I of incomplete trees and the deepest block d,   *)
(* and the store of sets they stand for.                                   *)

RootsOf(I)      == {Genesis} \cup {t.b : t \in I}
Entry(s, t)     == [root |-> t.b, nodes |-> Family(s, t.b), asks |-> t.asks]
Stored(s, I, d) == [main |-> Family(s, Genesis), inc |-> {Entry(s, t) : t \in I},
                    nb |-> s.nb, deepest |-> d]

Sound(s, I, d) ==
    /\ I \in SUBSET [b : Block, asks : 0 .. MaxAsks]
    /\ \A t, v \in I : t.b = v.b => t = v
    /\ Tidy(s, RootsOf(I)) /\ WellFormed(Stored(s, I, d))
    /\ IsFiniteSet(Held(Stored(s, I, d)))

(* What is known of a sound memory.                                        *)
LEMMA SoundFacts ==
    ASSUME NEW s, NEW I, NEW d, Sound(s, I, d)
    PROVE  /\ s \in Memory /\ d \in Family(s, Genesis)
           /\ Held(Stored(s, I, d)) = Grown(s, RootsOf(I)) /\ Grown(s, RootsOf(I)) \subseteq Block
           /\ s.nb \subseteq Grown(s, RootsOf(I))
           /\ Genesis \in Family(s, Genesis) /\ Family(s, Genesis) \subseteq Block
           /\ \A b \in Family(s, Genesis) \ {Genesis} : Parent[b] \in Family(s, Genesis)
           /\ \A t \in I : /\ t.b \in Block \ {Genesis} /\ t.b \in Family(s, t.b)
                           /\ Family(s, t.b) \subseteq Block
                           /\ Family(s, t.b) \cap Family(s, Genesis) = {}
                           /\ \A b \in Family(s, t.b) \ {t.b} : /\ Parent[b] \in Family(s, t.b)
                                                                /\ Depth[b] > Depth[t.b]
           /\ \A t, v \in I : Family(s, t.b) \cap Family(s, v.b) # {} => t = v
           /\ \A r \in RootsOf(I), h \in Block : Holds(s, r, h) <=> h \in Family(s, r)
  <1> DEFINE S == Stored(s, I, d)
             R == RootsOf(I)
  <1>1. Tidy(s, R) /\ WellFormed(S) /\ \A t, v \in I : t.b = v.b => t = v
    BY DEF Sound
  <1>2. /\ s \in Memory /\ R \subseteq Block
        /\ \A r \in R : r \in Family(s, r) /\ Family(s, r) \subseteq Block
    BY <1>1, TidyFacts
  <1>3. \A r, h : r \in R /\ h \in Block => (Holds(s, r, h) <=> h \in Family(s, r))
    BY <1>1, HoldsIsFamily
  <1>4. /\ S.main = Family(s, Genesis) /\ S.inc = {Entry(s, t) : t \in I} /\ S.nb = s.nb
        /\ S.deepest = d
        /\ \A t \in I : /\ Entry(s, t) \in S.inc /\ Entry(s, t).root = t.b
                        /\ Entry(s, t).nodes = Family(s, t.b)
    BY DEF Stored, Entry
  <1>5. Genesis \in R /\ \A t \in I : t.b \in R
    BY DEF RootsOf
  <1>6. Held(S) = Grown(s, R)
    <2>1. NodesOf(S.inc) = UNION {Family(s, t.b) : t \in I}
      BY <1>4 DEF NodesOf
    <2>2. Grown(s, R) = Family(s, Genesis) \cup UNION {Family(s, t.b) : t \in I}
      BY DEF Grown, RootsOf
    <2> QED
      BY <1>4, <2>1, <2>2 DEF Held
  <1> HIDE DEF S, R
  <1>7. \A r, q \in R : Family(s, r) \cap Family(s, q) # {} => r = q
    BY <1>1 DEF Tidy
  <1>8. /\ \A b \in Family(s, Genesis) \ {Genesis} : Parent[b] \in Family(s, Genesis)
        /\ d \in Family(s, Genesis)
        /\ \A t \in I : \A b \in Family(s, t.b) \ {t.b} : Parent[b] \in Family(s, t.b)
        /\ \A t \in I : Family(s, t.b) \cap Family(s, Genesis) = {}
        /\ \A t \in I : \A b \in Family(s, t.b) \ {t.b} : Depth[b] > Depth[t.b]
    BY <1>1, <1>4 DEF WellFormed, MainConnectedIn, DeepestIn, TreesDisjointIn, RootShallowestIn
  <1>9. s.nb \subseteq Held(S)
    BY <1>1, <1>4 DEF WellFormed, HeadersExactIn, Held, NodesOf
  <1>10. Grown(s, R) \subseteq Block
    BY <1>2 DEF Grown
  <1>11. \A t \in I : t.b \in Block \ {Genesis}
    BY <1>2, <1>5, <1>8
  <1>12. \A t, v \in I : Family(s, t.b) \cap Family(s, v.b) # {} => t = v
    BY <1>1, <1>5, <1>7
  <1>13. /\ Held(Stored(s, I, d)) = Grown(s, RootsOf(I)) /\ Grown(s, RootsOf(I)) \subseteq Block
         /\ s.nb \subseteq Grown(s, RootsOf(I))
    BY <1>6, <1>9, <1>10 DEF S, R
  <1>14. Genesis \in Family(s, Genesis) /\ Family(s, Genesis) \subseteq Block
    BY <1>2, <1>5
  <1>15. \A t \in I : t.b \in Family(s, t.b) /\ Family(s, t.b) \subseteq Block
    BY <1>2, <1>5
  <1>16. \A r \in RootsOf(I), h \in Block : Holds(s, r, h) <=> h \in Family(s, r)
    BY <1>3 DEF R
  <1> QED
    BY <1>2, <1>8, <1>11, <1>12, <1>13, <1>14, <1>15, <1>16

(* What is sound after a step: a store with at most two more blocks.       *)
LEMMA SoundAgain ==
    ASSUME NEW s, NEW I, NEW d, Sound(s, I, d), NEW u, NEW J, NEW e,
           J \in SUBSET [b : Block, asks : 0 .. MaxAsks], \A t, v \in J : t.b = v.b => t = v,
           Tidy(u, RootsOf(J)), WellFormed(Stored(u, J, e)),
           NEW x, NEW y, Held(Stored(u, J, e)) \subseteq Held(Stored(s, I, d)) \cup {x, y}
    PROVE  Sound(u, J, e)
  <1> DEFINE H == Held(Stored(s, I, d))
  <1>1. IsFiniteSet(H)
    BY DEF Sound
  <1> HIDE DEF H
  <1>2. IsFiniteSet(H \cup {x})
    BY <1>1, FS_AddElement
  <1>3. IsFiniteSet((H \cup {x}) \cup {y})
    BY <1>2, FS_AddElement
  <1>4. Held(Stored(u, J, e)) \subseteq (H \cup {x}) \cup {y}
    BY DEF H
  <1>5. IsFiniteSet(Held(Stored(u, J, e)))
    BY <1>3, <1>4, FS_Subset
  <1> QED
    BY <1>5 DEF Sound

(* The trees of u are those of s with the roots Q, but for that of r, which *)
(* has got the blocks B, the family of h; and h has got its header.         *)
Gains(s, u, Q, r, B, h) ==
    /\ Tidy(u, Q) /\ u.nb = s.nb \cup {h}
    /\ Family(u, r) = Family(s, r) \cup B /\ Family(u, h) = B
    /\ \A q \in Q \ {r} : Family(u, q) = Family(s, q)

(* A block of no tree is added below its parent.                           *)
LEMMA AddGains ==
    ASSUME NEW s, NEW R, Tidy(s, R), NEW r \in R, NEW h \in Block \ Grown(s, R), h \notin s.nb,
           Parent[h] \in Family(s, r), NEW u, u = WithHeader(AddByParent(s, r, Parent[h], h), h)
    PROVE  Gains(s, u, R, r, {h}, h)
  <1> DEFINE m == AddByParent(s, r, Parent[h], h)
  <1>1. m = AddByParent(s, r, Parent[h], h) /\ u = WithHeader(m, h)
    OBVIOUS
  <1> HIDE DEF m
  <1>2. /\ Tidy(m, R) /\ m.nb = s.nb
        /\ Family(m, r) = Family(s, r) \cup {h} /\ Family(m, h) = {h}
        /\ \A q \in R \ {r} : Family(m, q) = Family(s, q)
    BY <1>1, AddKeepsTidy
  <1>3. Tidy(u, R) /\ u.nb = m.nb \cup {h} /\ \A b : Family(u, b) = Family(m, b)
    <2>1. h \in Block
      OBVIOUS
    <2>2. Tidy(u, R) /\ u.nb = m.nb \cup {h}
      BY <1>1, <1>2, <2>1, HeaderKeepsTidy
    <2>3. ASSUME NEW b PROVE Family(u, b) = Family(m, b)
      BY <1>1, <1>2, <2>1, HeaderKeepsTidy
    <2> QED
      BY <2>2, <2>3
  <1> QED
    BY <1>2, <1>3 DEF Gains

(* The tree of h is linked below the parent of h.                          *)
LEMMA MergeGains ==
    ASSUME NEW s, NEW R, Tidy(s, R), NEW r \in R, NEW h \in R \ {r}, IsFiniteSet(Family(s, h)),
           Parent[h] \in Family(s, r), NEW u, u = WithHeader(Merge(s, r, Parent[h], h), h)
    PROVE  Gains(s, u, R \ {h}, r, Family(s, h), h)
  <1> DEFINE m == Merge(s, r, Parent[h], h)
  <1>1. m = Merge(s, r, Parent[h], h) /\ u = WithHeader(m, h)
    OBVIOUS
  <1> HIDE DEF m
  <1>2. /\ Tidy(m, R \ {h}) /\ m.nb = s.nb
        /\ Family(m, r) = Family(s, r) \cup Family(s, h) /\ Family(m, h) = Family(s, h)
        /\ \A q \in R \ {r, h} : Family(m, q) = Family(s, q)
    <2>1. Joined(s, R, m, r, h)
      BY <1>1, MergeKeepsTidy
    <2> QED
      BY <2>1 DEF Joined
  <1>3. h \in Block
    BY TidyFacts
  <1>4. Tidy(u, R \ {h}) /\ u.nb = m.nb \cup {h} /\ \A b : Family(u, b) = Family(m, b)
    BY <1>1, <1>2, <1>3, HeaderKeepsTidy
  <1> QED
    BY <1>2, <1>4 DEF Gains

(* A block is mined on the deepest block.                                  *)
LEMMA MineStep ==
    ASSUME NEW s, NEW I, NEW d, Sound(s, I, d), NEW h \in Block \ {Genesis},
           h \notin Held(Stored(s, I, d)), Parent[h] = d,
           NEW u, u = WithHeader(AddByParent(s, Genesis, Parent[h], h), h)
    PROVE  Sound(u, I, h) /\ Stored(u, I, h) = AddMined(Stored(s, I, d), h)
  <1> DEFINE S == Stored(s, I, d)
             T == Stored(u, I, h)
             A == AddMined(S, h)
             R == RootsOf(I)
  <1>1. /\ Tidy(s, R) /\ WellFormed(S) /\ Genesis \in R /\ \A t \in I : t.b \in R \ {Genesis}
        /\ Parent[h] \in Family(s, Genesis) /\ h \in Block \ Grown(s, R) /\ h \notin s.nb
    BY SoundFacts DEF Sound, RootsOf
  <1>2. /\ S.main = Family(s, Genesis) /\ S.nb = s.nb /\ S.deepest = d
        /\ S.inc = {Entry(s, t) : t \in I}
    BY DEF Stored
  <1>3. A = AddMined(S, h) /\ h \notin Held(S)
    OBVIOUS
  <1> HIDE DEF S, R, A
  <1>4. Gains(s, u, R, Genesis, {h}, h)
    BY <1>1, AddGains
  <1>5. \A t \in I : Entry(u, t) = Entry(s, t)
    BY <1>1, <1>4 DEF Gains, Entry
  <1>6. T = [main |-> S.main \cup {h}, inc |-> S.inc, nb |-> S.nb \cup {h}, deepest |-> h]
    <2>1. {Entry(u, t) : t \in I} = {Entry(s, t) : t \in I}
      BY <1>5
    <2>2. Family(u, Genesis) = Family(s, Genesis) \cup {h} /\ u.nb = s.nb \cup {h}
      BY <1>4 DEF Gains
    <2> QED
      BY <1>2, <2>1, <2>2 DEF Stored
  <1>7. /\ A.main = S.main \cup {h} /\ A.inc = S.inc
        /\ A.nb = S.nb \cup {h} /\ A.deepest = h /\ WellFormed(A) /\ Held(A) = Held(S) \cup {h}
    BY <1>1, <1>2, <1>3, MinePreserves
  <1>8. A = [main |-> A.main, inc |-> A.inc, nb |-> A.nb, deepest |-> A.deepest]
    BY <1>7 DEF WellFormed, Store
  <1>9. T = A
    BY <1>6, <1>7, <1>8
  <1>10. /\ I \in SUBSET [b : Block, asks : 0 .. MaxAsks]
         /\ \A t, v \in I : t.b = v.b => t = v
    BY DEF Sound
  <1> HIDE DEF T
  <1>11. Sound(u, I, h)
    <2>1. /\ Held(T) \subseteq Held(S) \cup {h, h} /\ WellFormed(T)
          /\ Tidy(u, RootsOf(I))
      BY <1>4, <1>7, <1>9 DEF Gains, R
    <2> QED
      BY <1>10, <2>1, SoundAgain DEF S, T
  <1> QED
    BY <1>9, <1>11 DEF S, T, A

(* Blocks B with the root h are linked in the main tree, which had none.   *)
LEMMA ConnectShape ==
    ASSUME NEW s, NEW I, NEW d, Sound(s, I, d), NEW h \in Block \ {Genesis},
           NEW J, J = {t \in I : t.b # h}, NEW B,
           B = {h} \cup UNION {Family(s, t.b) : t \in I \ J},
           NEW u, Gains(s, u, RootsOf(J), Genesis, B, h),
           h \notin Family(s, Genesis), Parent[h] \in Family(s, Genesis),
           NEW last \in MaxDepth(Family(u, h)), NEW e,
           e = IF Depth[last] > Depth[d] THEN last ELSE d
    PROVE  Sound(u, J, e) /\ Stored(u, J, e) \in Connect(Stored(s, I, d), h)
  <1> DEFINE S == Stored(s, I, d)
             T == Stored(u, J, e)
             trees == TreesRootedAt(S, h)
  <1>1. /\ WellFormed(S) /\ S.deepest = d /\ S.main = Family(s, Genesis) /\ S.nb = s.nb
        /\ S.inc = {Entry(s, t) : t \in I}
    BY DEF Sound, Stored
  <1>2. /\ Tidy(u, RootsOf(J)) /\ u.nb = s.nb \cup {h} /\ Family(u, h) = B
        /\ Family(u, Genesis) = Family(s, Genesis) \cup B
        /\ \A q \in RootsOf(J) \ {Genesis} : Family(u, q) = Family(s, q)
    BY DEF Gains
  <1>3. trees = {Entry(s, t) : t \in I \ J}
    BY <1>1 DEF TreesRootedAt, Entry
  <1>4. {h} \cup NodesOf(trees) = B
    <2>1. \A t : Entry(s, t).nodes = Family(s, t.b)
      BY DEF Entry
    <2>2. UNION {v.nodes : v \in {Entry(s, t) : t \in I \ J}}
            = UNION {Entry(s, t).nodes : t \in I \ J}
      OBVIOUS
    <2>3. UNION {Entry(s, t).nodes : t \in I \ J} = UNION {Family(s, t.b) : t \in I \ J}
      BY <2>1
    <2> QED
      BY <1>3, <2>2, <2>3 DEF NodesOf
  <1>5. S.inc \ trees = {Entry(s, t) : t \in J}
    BY <1>1, <1>3 DEF Entry
  <1>6. \A t \in J : t.b \in RootsOf(J) \ {Genesis}
    BY SoundFacts DEF RootsOf
  <1>7. {Entry(u, t) : t \in J} = {Entry(s, t) : t \in J}
    BY <1>2, <1>6 DEF Entry
  <1>8. T = [main |-> S.main \cup B, inc |-> S.inc \ trees,
             nb |-> S.nb \cup {h}, deepest |-> e]
    BY <1>1, <1>2, <1>5, <1>7 DEF Stored
  <1>9. e \in DeepestAfter(S, B)
    BY <1>1, <1>2 DEF DeepestAfter
  <1>10. T \in Connect(S, h)
    <2> HIDE DEF S, T
    <2> QED
      BY <1>4, <1>8, <1>9 DEF Connect
  <1> HIDE DEF S, T
  <1>11. WellFormed(T) /\ Held(T) = Held(S) \cup {h}
    BY <1>1, <1>10, ConnectPreserves
  <1>12. Held(T) \subseteq Held(S) \cup {h, h}
    BY <1>11
  <1>13. /\ J \in SUBSET [b : Block, asks : 0 .. MaxAsks]
         /\ \A t, v \in J : t.b = v.b => t = v
    BY DEF Sound
  <1>14. Sound(u, J, e)
    BY <1>2, <1>11, <1>12, <1>13, SoundAgain DEF S, T
  <1> QED
    BY <1>10, <1>14 DEF S, T

(* Every tree is finite, as the trees of the store are.                    *)
LEMMA FiniteFamilies ==
    ASSUME NEW s, NEW I, NEW d, Sound(s, I, d), NEW t \in I
    PROVE  IsFiniteSet(Family(s, t.b))
  <1>1. IsFiniteSet(Grown(s, RootsOf(I)))
    BY SoundFacts DEF Sound
  <1>2. Family(s, t.b) \subseteq Grown(s, RootsOf(I))
    BY DEF Grown, RootsOf
  <1> QED
    BY <1>1, <1>2, FS_Subset

(* A block of no tree is connected.                                        *)
LEMMA ConnectAloneStep ==
    ASSUME NEW s, NEW I, NEW d, Sound(s, I, d), NEW h \in Block \ {Genesis},
           h \notin Family(s, Genesis), Parent[h] \in Family(s, Genesis), \A t \in I : t.b # h,
           NEW u, u = WithHeader(AddByParent(s, Genesis, Parent[h], h), h),
           NEW last \in MaxDepth(Family(u, h)), NEW e,
           e = IF Depth[last] > Depth[d] THEN last ELSE d
    PROVE  Sound(u, I, e) /\ Stored(u, I, e) \in Connect(Stored(s, I, d), h)
  <1> DEFINE R == RootsOf(I)
  <1>1. Tidy(s, R) /\ Genesis \in R
    BY DEF Sound, RootsOf
  <1>2. \A t \in I : h \notin Family(s, t.b)
    BY SoundFacts
  <1>3. h \in Block \ Grown(s, R) /\ s.nb \subseteq Grown(s, R)
    BY <1>2, SoundFacts DEF Grown, RootsOf
  <1> HIDE DEF R
  <1>4. Gains(s, u, R, Genesis, {h}, h)
    BY <1>1, <1>3, AddGains
  <1>5. I = {t \in I : t.b # h} /\ {h} = {h} \cup UNION {Family(s, t.b) : t \in I \ I}
    OBVIOUS
  <1>6. Gains(s, u, RootsOf(I), Genesis, {h}, h)
    BY <1>4 DEF R
  <1> QED
    BY <1>5, <1>6, ConnectShape

(* A block is connected with the tree that it is the root of.              *)
LEMMA ConnectTreeStep ==
    ASSUME NEW s, NEW I, NEW d, Sound(s, I, d), NEW h \in Block \ {Genesis},
           h \notin Family(s, Genesis), Parent[h] \in Family(s, Genesis),
           NEW t \in I, t.b = h,
           NEW u, u = WithHeader(Merge(s, Genesis, Parent[h], h), h),
           NEW last \in MaxDepth(Family(u, h)), NEW e,
           e = IF Depth[last] > Depth[d] THEN last ELSE d
    PROVE  Sound(u, I \ {t}, e) /\ Stored(u, I \ {t}, e) \in Connect(Stored(s, I, d), h)
  <1> DEFINE R == RootsOf(I)
             J == I \ {t}
             B == Family(s, h)
  <1>1. Tidy(s, R) /\ Genesis \in R /\ h \in R \ {Genesis} /\ \A x, v \in I : x.b = v.b => x = v
    BY DEF Sound, RootsOf
  <1>2. IsFiniteSet(Family(s, h))
    BY FiniteFamilies
  <1>3. R \ {h} = RootsOf(J)
    BY <1>1 DEF RootsOf
  <1>4. J = {v \in I : v.b # h}
    BY <1>1
  <1>5. I \ J = {t} /\ h \in Family(s, h)
    BY SoundFacts
  <1>6. B = {h} \cup UNION {Family(s, v.b) : v \in I \ J}
    BY <1>5
  <1> HIDE DEF R, B, J
  <1>7. Gains(s, u, R \ {h}, Genesis, Family(s, h), h)
    BY <1>1, <1>2, MergeGains
  <1>8. Gains(s, u, RootsOf(J), Genesis, B, h)
    BY <1>3, <1>7 DEF B
  <1>9. Sound(u, J, e) /\ Stored(u, J, e) \in Connect(Stored(s, I, d), h)
    BY <1>4, <1>6, <1>8, ConnectShape
  <1> QED
    BY <1>9 DEF J

(* The tree above is where p is, or one that starts with p alone.          *)
Hosts(s, I, p, above) ==
    \/ above \in I /\ p \in Family(s, above.b)
    \/ above = [b |-> p, asks |-> 0] /\ Family(s, p) = {p} /\ \A t \in I : p \notin Family(s, t.b)

(* u is s with h and the trees D of h, all blocks of them in B, below the  *)
(* tree above, and J is what is left of the list.                          *)
Parks(s, u, I, J, above, D, B, h) ==
    /\ Hosts(s, I, Parent[h], above) /\ above \notin D
    /\ D = {t \in I : h \in Family(s, t.b)} /\ B = {h} \cup UNION {Family(s, t.b) : t \in D}
    /\ J = (I \ D) \cup {above}
    /\ \A t, v \in J : t.b = v.b => t = v
    /\ \A t \in J : t.b # Genesis
    /\ Gains(s, u, RootsOf(J), above.b, B, h)

(* The memory after a block was parked stands for the store after it.      *)
LEMMA ParkStored ==
    ASSUME NEW s, NEW I, NEW d, Sound(s, I, d), NEW h \in Block \ {Genesis},
           NEW u, NEW J, NEW above, NEW D, NEW B, Parks(s, u, I, J, above, D, B, h)
    PROVE  Stored(u, J, d) = Park(Stored(s, I, d), h)
  <1> DEFINE S == Stored(s, I, d)
             T == Stored(u, J, d)
             p == Parent[h]
             host == Entry(s, above)
             E(X) == {Entry(s, t) : t \in X}
  <1> USE DEF Parks
  <1>1. S = [main |-> Family(s, Genesis), inc |-> E(I), nb |-> s.nb, deepest |-> d]
    BY DEF Stored
  <1>2. \A t : /\ Entry(s, t).root = t.b /\ Entry(s, t).nodes = Family(s, t.b)
               /\ Entry(s, t).asks = t.asks
    BY DEF Entry
  <1>3. /\ TreesHolding(S, p) = E({t \in I : p \in Family(s, t.b)})
        /\ TreesHolding(S, h) = E(D)
    BY <1>1, <1>2 DEF TreesHolding
  <1>4. host = IF TreesHolding(S, p) = {} THEN [root |-> p, nodes |-> {p}, asks |-> 0]
               ELSE CHOOSE t \in TreesHolding(S, p) : TRUE
    <2>1. CASE above \in I /\ p \in Family(s, above.b)
      <3>1. \A t \in I : p \in Family(s, t.b) => t = above
        BY <2>1, SoundFacts
      <3>2. {t \in I : p \in Family(s, t.b)} = {above}
        BY <2>1, <3>1
      <3>3. TreesHolding(S, p) = {host}
        BY <1>3, <3>2
      <3> HIDE DEF S, host
      <3> QED
        BY <3>3
    <2>2. CASE /\ above = [b |-> p, asks |-> 0] /\ Family(s, p) = {p}
               /\ \A t \in I : p \notin Family(s, t.b)
      <3>1. TreesHolding(S, p) = {}
        BY <1>3, <2>2
      <3>2. host = [root |-> p, nodes |-> {p}, asks |-> 0]
        BY <2>2 DEF Entry
      <3> QED
        BY <3>1, <3>2
    <2> QED
      BY <2>1, <2>2 DEF Hosts
  <1> DEFINE grown == [host EXCEPT !.nodes = @ \cup {h} \cup NodesOf(TreesHolding(S, h))]
  <1>5. Park(S, h) = [S EXCEPT !.inc = (@ \ (TreesHolding(S, h) \cup {host})) \cup {grown},
                               !.nb = @ \cup {h}]
    BY <1>4 DEF Park
  <1>6. NodesOf(TreesHolding(S, h)) = UNION {Family(s, t.b) : t \in D}
    <2>1. UNION {v.nodes : v \in {Entry(s, t) : t \in D}} = UNION {Entry(s, t).nodes : t \in D}
      OBVIOUS
    <2>2. UNION {Entry(s, t).nodes : t \in D} = UNION {Family(s, t.b) : t \in D}
      BY <1>2
    <2> QED
      BY <1>3, <2>1, <2>2 DEF NodesOf
  <1>7. grown = [root |-> above.b, nodes |-> Family(s, above.b) \cup B, asks |-> above.asks]
    <2> DEFINE N == NodesOf(TreesHolding(S, h))
               X == Family(s, above.b)
    <2>1. N = UNION {Family(s, t.b) : t \in D}
      BY <1>6
    <2>2. (X \cup {h}) \cup N = X \cup B
      BY <2>1
    <2>3. grown = [[root |-> above.b, nodes |-> X, asks |-> above.asks]
                     EXCEPT !.nodes = (X \cup {h}) \cup N]
      BY DEF Entry
    <2> HIDE DEF N, X, grown
    <2>4. grown = [root |-> above.b, nodes |-> (X \cup {h}) \cup N, asks |-> above.asks]
      BY <2>3
    <2> QED
      BY <2>2, <2>4 DEF X
  <1>8. Entry(u, above) = grown
    BY <1>7 DEF Entry, Gains
  <1>9. \A t \in J \ {above} : t.b \in RootsOf(J) \ {above.b}
    BY DEF RootsOf
  <1>10. \A t \in J \ {above} : Entry(u, t) = Entry(s, t)
    BY <1>9 DEF Entry, Gains
  <1>11. E(I) \ (E(D) \cup {host}) = E(J \ {above})
    <2>1. \A t, v \in I \cup {above} : Entry(s, t) = Entry(s, v) => t = v
      <3>1. \A t, v : Entry(s, t) = Entry(s, v) => t.b = v.b
        BY <1>2
      <3>2. \A t, v \in I : t.b = v.b => t = v
        BY DEF Sound
      <3>3. \A t \in I : t.b = above.b => t = above
        BY <3>2, SoundFacts DEF Hosts
      <3> QED
        BY <3>1, <3>2, <3>3
    <2>2. J \ {above} = I \ (D \cup {above}) /\ D \subseteq I
      OBVIOUS
    <2> HIDE DEF E
    <2>3. \A x : x \in E(J \ {above}) <=> \E t \in I \ (D \cup {above}) : x = Entry(s, t)
      BY <2>2 DEF E
    <2>4. \A x : x \in E(I) \ (E(D) \cup {host}) <=> \E t \in I \ (D \cup {above}) : x = Entry(s, t)
      BY <2>1, <2>2 DEF E
    <2> QED
      BY <2>3, <2>4
  <1>12. {Entry(u, t) : t \in J} = E(J \ {above}) \cup {grown}
    <2>1. above \in J
      OBVIOUS
    <2> HIDE DEF grown
    <2> QED
      BY <1>8, <1>10, <2>1
  <1>13. Genesis \in RootsOf(J) \ {above.b}
    BY DEF RootsOf
  <1>14. Family(u, Genesis) = Family(s, Genesis) /\ u.nb = s.nb \cup {h}
    BY <1>13 DEF Gains
  <1>15. T = [main |-> Family(s, Genesis), inc |-> E(J \ {above}) \cup {grown},
              nb |-> s.nb \cup {h}, deepest |-> d]
    BY <1>12, <1>14 DEF Stored
  <1>16. Park(S, h) = [main |-> Family(s, Genesis),
                       inc |-> (E(I) \ (TreesHolding(S, h) \cup {host})) \cup {grown},
                       nb |-> s.nb \cup {h}, deepest |-> d]
    <2> HIDE DEF grown, host, E, S
    <2> QED
      BY <1>1, <1>5
  <1> QED
    BY <1>3, <1>11, <1>15, <1>16

(* The parent of the root of a tree is not in that tree.                   *)
LEMMA ParentApart ==
    ASSUME NEW s, NEW I, NEW d, Sound(s, I, d), NEW t \in I,
           NEW above, Hosts(s, I, Parent[t.b], above)
    PROVE  above # t
  <1> SUFFICES ASSUME above = t PROVE FALSE
    OBVIOUS
  <1>1. /\ t.b \in Block \ {Genesis}
        /\ \A b \in Family(s, t.b) \ {t.b} : Depth[b] > Depth[t.b]
    BY SoundFacts
  <1>2. /\ Parent[t.b] # t.b /\ Depth[Parent[t.b]] < Depth[t.b]
        /\ Depth[Parent[t.b]] \in Nat /\ Depth[t.b] \in Nat
    BY <1>1, ParentIsOther
  <1>3. Parent[t.b] \in Family(s, t.b)
    BY DEF Hosts
  <1> QED
    BY <1>1, <1>2, <1>3

(* A block is parked below its parent, with the tree it was the root of.   *)
LEMMA ParkStep ==
    ASSUME NEW s, NEW I, NEW d, Sound(s, I, d), NEW h \in Block \ {Genesis},
           h \notin Family(s, Genesis), Parent[h] \notin Family(s, Genesis),
           \A t \in I : h \in Family(s, t.b) => t.b = h,
           NEW above, Hosts(s, I, Parent[h], above), NEW D, D = {t \in I : h \in Family(s, t.b)},
           NEW J, J = (I \ D) \cup {above}, NEW u,
           \/ D = {} /\ u = WithHeader(AddByParent(s, above.b, Parent[h], h), h)
           \/ D # {} /\ u = WithHeader(Merge(s, above.b, Parent[h], h), h)
    PROVE  Sound(u, J, d) /\ Stored(u, J, d) = Park(Stored(s, I, d), h)
  <1> DEFINE S == Stored(s, I, d)
             T == Stored(u, J, d)
             p == Parent[h]
             K == I \cup {above}
             R == RootsOf(K)
             B == {h} \cup UNION {Family(s, t.b) : t \in D}
  <1>1. /\ s \in Memory /\ Genesis \in Family(s, Genesis)
        /\ Grown(s, RootsOf(I)) \subseteq Block /\ s.nb \subseteq Grown(s, RootsOf(I))
        /\ \A t \in I : /\ t.b \in Block \ {Genesis} /\ t.b \in Family(s, t.b)
                        /\ \A b \in Family(s, t.b) \ {t.b} : Depth[b] > Depth[t.b]
        /\ Tidy(s, RootsOf(I)) /\ WellFormed(S) /\ \A t, v \in I : t.b = v.b => t = v
        /\ I \in SUBSET [b : Block, asks : 0 .. MaxAsks]
    BY SoundFacts DEF Sound
  <1>2. p \in Block /\ p # h /\ ~(Depth[p] > Depth[h]) /\ p # Genesis
    <2>1. p \in Block /\ p # h /\ Depth[p] < Depth[h] /\ Depth[p] \in Nat /\ Depth[h] \in Nat
      BY ParentIsOther
    <2> QED
      BY <1>1, <2>1
  <1>3. above \notin D
    <2>1. \A t \in D : t \in I /\ t.b = h
      OBVIOUS
    <2> QED
      BY <2>1, ParentApart
  <1>4. /\ Tidy(s, R) /\ above.b \in R /\ p \in Family(s, above.b)
        /\ above.b # Genesis
        /\ K \in SUBSET [b : Block, asks : 0 .. MaxAsks] /\ \A t, v \in K : t.b = v.b => t = v
        /\ Grown(s, R) \subseteq Grown(s, RootsOf(I)) \cup {p}
    <2>1. CASE above \in I /\ p \in Family(s, above.b)
      <3>1. K = I
        BY <2>1
      <3>2. above.b \in R
        BY DEF RootsOf
      <3> QED
        BY <1>1, <2>1, <3>1, <3>2
    <2>2. CASE /\ above = [b |-> p, asks |-> 0] /\ Family(s, p) = {p}
               /\ \A t \in I : p \notin Family(s, t.b)
      <3>1. R = RootsOf(I) \cup {p} /\ above.b = p /\ above.b \in R
        BY <2>2 DEF RootsOf
      <3>2. p \in Block \ Grown(s, RootsOf(I))
        BY <1>2, <2>2 DEF Grown, RootsOf
      <3>3. Tidy(s, R)
        <4>1. Tidy(s, RootsOf(I))
          BY <1>1
        <4>2. Tidy(s, RootsOf(I) \cup {p})
          BY <3>2, <4>1, PlantKeepsTidy
        <4> QED
          BY <3>1, <4>2
      <3>4. above \in [b : Block, asks : 0 .. MaxAsks]
        BY <1>2, <2>2
      <3>5. \A t \in I : t.b # p
        BY <1>1, <2>2
      <3>6. Grown(s, R) = Grown(s, RootsOf(I)) \cup {p}
        BY <2>2, <3>1 DEF Grown
      <3> QED
        BY <1>1, <1>2, <2>2, <3>1, <3>3, <3>4, <3>5, <3>6
    <2> QED
      BY <2>1, <2>2 DEF Hosts
  <1>5. Gains(s, u, RootsOf(J), above.b, B, h)
    <2>1. CASE D = {}
      <3>1. h \notin Grown(s, RootsOf(I)) /\ J = K /\ B = {h}
        BY <2>1 DEF Grown, RootsOf
      <3>2. h \in Block \ Grown(s, R) /\ h \notin s.nb
        BY <1>1, <1>2, <1>4, <3>1
      <3>3. u = WithHeader(AddByParent(s, above.b, Parent[h], h), h)
        BY <2>1
      <3> HIDE DEF R, B, K
      <3>4. Gains(s, u, R, above.b, {h}, h)
        BY <1>4, <3>2, <3>3, AddGains
      <3> QED
        BY <3>1, <3>4 DEF R
    <2>2. CASE D # {}
      <3>1. PICK t \in D : TRUE
        BY <2>2
      <3>2. t \in I /\ t.b = h /\ D = {t}
        BY <1>1, <3>1
      <3>3. B = Family(s, h)
        BY <1>1, <3>2
      <3>4. IsFiniteSet(Family(s, h))
        BY <3>2, FiniteFamilies
      <3>5. h # above.b
        BY <1>3, <1>4, <3>2
      <3>6. h \in R \ {above.b}
        BY <3>2, <3>5 DEF RootsOf
      <3>7. R \ {h} = RootsOf(J)
        <4>1. \A v \in K : v.b = h <=> v \in D
          BY <1>4, <3>2
        <4>2. J = K \ D
          BY <1>3
        <4> QED
          BY <4>1, <4>2 DEF RootsOf
      <3>8. u = WithHeader(Merge(s, above.b, Parent[h], h), h)
        BY <2>2
      <3> HIDE DEF R, B, K
      <3>9. Gains(s, u, R \ {h}, above.b, Family(s, h), h)
        BY <1>4, <3>4, <3>6, <3>8, MergeGains
      <3> QED
        BY <3>3, <3>7, <3>9
    <2> QED
      BY <2>1, <2>2
  <1>6. J \subseteq K
    OBVIOUS
  <1>7. \A t \in J : t.b # Genesis
    BY <1>1, <1>4, <1>6
  <1>8. T = Park(S, h)
    <2> HIDE DEF B, K, R
    <2>1. B = {h} \cup UNION {Family(s, t.b) : t \in D}
      BY DEF B
    <2>2. \A t, v \in J : t.b = v.b => t = v
      BY <1>4, <1>6
    <2>3. Parks(s, u, I, J, above, D, B, h)
      BY <1>3, <1>5, <1>7, <2>1, <2>2 DEF Parks
    <2> HIDE DEF S, T
    <2>4. Stored(u, J, d) = Park(Stored(s, I, d), h)
      BY <2>3, ParkStored
    <2> QED
      BY <2>4 DEF S, T
  <1>9. S.main = Family(s, Genesis) /\ ~AlreadyParked(S, h)
    BY DEF Stored, Entry, AlreadyParked
  <1> HIDE DEF S, T
  <1>10. WellFormed(T) /\ Held(T) = Held(S) \cup {h, p}
    BY <1>1, <1>8, <1>9, ParkPreserves
  <1>11. Tidy(u, RootsOf(J))
    BY <1>5 DEF Gains
  <1>12. /\ J \in SUBSET [b : Block, asks : 0 .. MaxAsks]
         /\ \A t, v \in J : t.b = v.b => t = v
    BY <1>4, <1>6
  <1>13. Sound(u, J, d)
    <2>1. Held(T) \subseteq Held(S) \cup {h, p}
      BY <1>10
    <2>2. WellFormed(T) /\ Tidy(u, RootsOf(J))
      BY <1>10, <1>11
    <2> HIDE DEF p, K, R, B
    <2> QED
      BY <1>12, <2>1, <2>2, SoundAgain DEF S, T
  <1> QED
    BY <1>8, <1>13 DEF S, T

(* u and J are the memory and the list when the trees due were asked for,  *)
(* those of D for the last time.                                           *)
Asks(s, I, due, D, u, J) ==
    /\ due \in SUBSET I /\ D = {t \in due : t.asks + 1 > MaxAsks}
    /\ u = Clear(s, UNION {Family(s, t.b) : t \in D})
    /\ J = (I \ due) \cup {[t EXCEPT !.asks = @ + 1] : t \in due \ D}

(* Trees that were asked for are counted, or dropped.                      *)
LEMMA AskStep ==
    ASSUME NEW s, NEW I, NEW d, Sound(s, I, d),
           NEW due, NEW D, NEW u, NEW J, Asks(s, I, due, D, u, J)
    PROVE  /\ Sound(u, J, d)
           /\ Stored(u, J, d) = AskIncomplete(Stored(s, I, d), {Entry(s, t) : t \in due})
  <1> DEFINE S == Stored(s, I, d)
             T == Stored(u, J, d)
             R == RootsOf(I)
             X == {t.b : t \in D}
             E(A) == {Entry(s, t) : t \in A}
             More(t) == [t EXCEPT !.asks = @ + 1]
  <1>1. /\ due \in SUBSET I /\ D = {t \in due : t.asks + 1 > MaxAsks}
        /\ u = Clear(s, UNION {Family(s, t.b) : t \in D})
    BY DEF Asks
  <1>2. /\ Tidy(s, R) /\ WellFormed(S) /\ \A t, v \in I : t.b = v.b => t = v
        /\ I \in SUBSET [b : Block, asks : 0 .. MaxAsks]
    BY DEF Sound
  <1>3. S = [main |-> Family(s, Genesis), inc |-> E(I), nb |-> s.nb, deepest |-> d]
    BY DEF Stored
  <1>4. \A t : /\ Entry(s, t).root = t.b /\ Entry(s, t).nodes = Family(s, t.b)
               /\ Entry(s, t).asks = t.asks
    BY DEF Entry
  <1>5. ASSUME NEW t \in due
        PROVE  /\ More(t).b = t.b /\ More(t).asks = t.asks + 1
               /\ t \notin D => More(t) \in [b : Block, asks : 0 .. MaxAsks]
               /\ Entry(s, More(t)) = [Entry(s, t) EXCEPT !.asks = @ + 1]
    <2>1. t \in [b : Block, asks : 0 .. MaxAsks]
      BY <1>1, <1>2
    <2>2. More(t).b = t.b /\ More(t).asks = t.asks + 1
      BY <2>1
    <2>3. ASSUME t \notin D PROVE More(t) \in [b : Block, asks : 0 .. MaxAsks]
      <3>1. t.asks + 1 \in 0 .. MaxAsks
        BY <1>1, <2>1, <2>3
      <3> QED
        BY <2>1, <3>1
    <2>4. Entry(s, More(t)) = [Entry(s, t) EXCEPT !.asks = @ + 1]
      <3> HIDE DEF More
      <3> QED
        BY <2>2 DEF Entry
    <2> QED
      BY <2>2, <2>3, <2>4
  <1>6. D \subseteq due /\ due \subseteq I /\ \A t \in I : t.b # Genesis
    BY <1>1, SoundFacts
  <1>7. J = (I \ due) \cup {More(t) : t \in due \ D}
    BY DEF Asks
  <1> HIDE DEF More
  <1>8. RootsOf(J) = R \ X
    <2>1. {t.b : t \in J} = {t.b : t \in I \ D}
      BY <1>5, <1>6, <1>7
    <2>2. {t.b : t \in I \ D} = {t.b : t \in I} \ X
      BY <1>2, <1>6
    <2>3. Genesis \notin X
      BY <1>6
    <2> QED
      BY <2>1, <2>2, <2>3 DEF RootsOf
  <1>9. X \in SUBSET R /\ UNION {Family(s, t.b) : t \in D} = Grown(s, X)
    BY <1>6 DEF RootsOf, Grown
  <1>10. /\ Tidy(u, RootsOf(J)) /\ u.nb = s.nb \ Grown(s, X)
        /\ \A q \in RootsOf(J) : Family(u, q) = Family(s, q)
    <2>1. u = Clear(s, Grown(s, X))
      BY <1>1, <1>9
    <2> HIDE DEF X, R
    <2>2. Loses(s, u, R \ X, Grown(s, X))
      BY <1>2, <1>9, <2>1, CutKeepsTidy
    <2> QED
      BY <1>8, <2>2 DEF Loses
  <1>11. /\ J \in SUBSET [b : Block, asks : 0 .. MaxAsks]
         /\ \A t, v \in J : t.b = v.b => t = v
    <2>1. J \subseteq [b : Block, asks : 0 .. MaxAsks]
      BY <1>2, <1>5, <1>7
    <2>2. ASSUME NEW t \in J PROVE \/ t \in I \ due
                                   \/ \E w \in due \ D : t = More(w) /\ t.b = w.b
      BY <1>5, <1>7
    <2>3. ASSUME NEW t \in J, NEW v \in J, t.b = v.b PROVE t = v
      BY <1>2, <1>6, <2>2, <2>3
    <2> QED
      BY <2>1, <2>3
  <1>12. Dropped(E(due)) = E(D) /\ NodesOf(Dropped(E(due))) = Grown(s, X)
    <2>1. \A t \in due : t \in D <=> Entry(s, t).asks + 1 > MaxAsks
      BY <1>1, <1>4
    <2>2. Dropped(E(due)) = E(D)
      BY <1>6, <2>1 DEF Dropped
    <2>3. UNION {v.nodes : v \in E(D)} = UNION {Entry(s, t).nodes : t \in D}
      OBVIOUS
    <2>4. UNION {Entry(s, t).nodes : t \in D} = UNION {Family(s, t.b) : t \in D}
      BY <1>4
    <2> QED
      BY <1>9, <2>2, <2>3, <2>4 DEF NodesOf
  <1>13. \A t, v \in I : Entry(s, t) = Entry(s, v) => t = v
    BY <1>2, <1>4
  <1>14. E(I) \ E(due) = E(I \ due) /\ E(due) \ E(D) = E(due \ D)
    BY <1>6, <1>13
  <1>15. {Entry(u, t) : t \in J}
           = E(I \ due) \cup {[e EXCEPT !.asks = @ + 1] : e \in E(due \ D)}
    <2>1. \A t \in J : Entry(u, t) = Entry(s, t)
      BY <1>10 DEF Entry, RootsOf
    <2>2. {Entry(u, t) : t \in J} = E(J)
      BY <2>1
    <2>3. E(J) = E(I \ due) \cup {Entry(s, More(t)) : t \in due \ D}
      BY <1>7
    <2>4. {[e EXCEPT !.asks = @ + 1] : e \in E(due \ D)}
            = {[Entry(s, t) EXCEPT !.asks = @ + 1] : t \in due \ D}
      OBVIOUS
    <2>5. {[Entry(s, t) EXCEPT !.asks = @ + 1] : t \in due \ D}
            = {Entry(s, More(t)) : t \in due \ D}
      BY <1>5
    <2> QED
      BY <2>2, <2>3, <2>4, <2>5
  <1>16. Family(u, Genesis) = Family(s, Genesis)
    BY <1>10 DEF RootsOf
  <1>17. T = AskIncomplete(S, E(due))
    <2> DEFINE N == E(I \ due) \cup {[e EXCEPT !.asks = @ + 1] : e \in E(due \ D)}
    <2>1. T = [main |-> Family(s, Genesis), inc |-> N, nb |-> s.nb \ Grown(s, X), deepest |-> d]
      BY <1>10, <1>15, <1>16 DEF Stored
    <2> DEFINE F == E(due)
    <2> HIDE DEF N, S, X, E, F
    <2>2. AskIncomplete(S, F) =
            [S EXCEPT !.inc = (@ \ F) \cup {[e EXCEPT !.asks = @ + 1] : e \in F \ Dropped(F)},
                      !.nb = @ \ NodesOf(Dropped(F))]
      BY DEF AskIncomplete
    <2>3. /\ {[e EXCEPT !.asks = @ + 1] : e \in F \ Dropped(F)}
               = {[e EXCEPT !.asks = @ + 1] : e \in E(due \ D)}
          /\ E(I) \ F = E(I \ due) /\ NodesOf(Dropped(F)) = Grown(s, X)
      BY <1>12, <1>14 DEF F
    <2>4. AskIncomplete(S, F) = [S EXCEPT !.inc = N, !.nb = s.nb \ Grown(s, X)]
      BY <1>3, <2>2, <2>3 DEF N
    <2> QED
      BY <1>3, <2>1, <2>4 DEF F
  <1>18. E(due) \in SUBSET S.inc
    BY <1>3, <1>6
  <1> HIDE DEF S, T, E
  <1>19. WellFormed(T) /\ Held(T) \subseteq Held(S)
    BY <1>2, <1>17, <1>18, AskPreserves
  <1>20. Sound(u, J, d)
    <2>1. WellFormed(T) /\ Tidy(u, RootsOf(J)) /\ Held(T) \subseteq Held(S) \cup {d, d}
      BY <1>10, <1>19
    <2>2. \A x : Sound(s, I, d) /\ Held(T) \subseteq Held(S) \cup {x, x} => Sound(u, J, d)
      BY <1>11, <2>1, SoundAgain DEF S, T
    <2> QED
      BY <2>1, <2>2
  <1> QED
    BY <1>17, <1>20 DEF S, T, E

-----------------------------------------------------------------------------

(* The operators of the instance Sets are those of ChainTree too.          *)
LEMMA SetsOperators ==
    /\ Sets!Store = Store /\ Sets!EmptyStore = EmptyStore
    /\ \A S : Sets!WellFormed(S) <=> WellFormed(S)
    /\ \A S : Sets!Held(S) = Held(S)
    /\ \A S, h : Sets!AlreadyParked(S, h) <=> AlreadyParked(S, h)
    /\ \A S, h : Sets!AddMined(S, h) = AddMined(S, h)
    /\ \A S, h : Sets!Connect(S, h) = Connect(S, h)
    /\ \A S, h : Sets!Park(S, h) = Park(S, h)
    /\ \A S, due : Sets!AskIncomplete(S, due) = AskIncomplete(S, due)
  <1>1. Sets!Store = Store /\ Sets!EmptyStore = EmptyStore
    BY DEF Sets!Store, Store, Sets!Tree, Tree, Sets!EmptyStore, EmptyStore
  <1>2. \A S : Sets!WellFormed(S) <=> WellFormed(S)
    BY <1>1 DEF Sets!MainConnectedIn, MainConnectedIn, Sets!TreesDisjointIn,
           TreesDisjointIn, Sets!HeadersExactIn, HeadersExactIn, Sets!DeepestIn,
           DeepestIn, Sets!RootShallowestIn, RootShallowestIn, Sets!WellFormed, WellFormed
  <1>3. \A trees : Sets!NodesOf(trees) = NodesOf(trees)
    BY DEF Sets!NodesOf, NodesOf
  <1>4. \A S, h : /\ Sets!TreesRootedAt(S, h) = TreesRootedAt(S, h)
                  /\ Sets!TreesHolding(S, h) = TreesHolding(S, h)
    BY DEF Sets!TreesRootedAt, TreesRootedAt, Sets!TreesHolding, TreesHolding
  <1>5. \A S, B : Sets!DeepestAfter(S, B) = DeepestAfter(S, B)
    BY DEF Sets!DeepestAfter, DeepestAfter, Sets!MaxDepth, MaxDepth
  <1>6. \A due : Sets!Dropped(due) = Dropped(due)
    BY DEF Sets!Dropped, Dropped
  <1>7. /\ \A S : Sets!Held(S) = Held(S)
        /\ \A S, h : Sets!AlreadyParked(S, h) <=> AlreadyParked(S, h)
        /\ \A S, h : Sets!AddMined(S, h) = AddMined(S, h)
    BY <1>3 DEF Sets!Held, Held, Sets!AlreadyParked, AlreadyParked, Sets!AddMined, AddMined
  <1>8. \A S, h : Sets!Connect(S, h) = Connect(S, h)
    BY <1>3, <1>4, <1>5 DEF Sets!Connect, Connect
  <1>9. \A S, h : Sets!Park(S, h) = Park(S, h)
    BY <1>3, <1>4 DEF Sets!Park, Park
  <1>10. \A S, due : Sets!AskIncomplete(S, due) = AskIncomplete(S, due)
    BY <1>3, <1>6 DEF Sets!AskIncomplete, AskIncomplete
  <1> QED
    BY <1>1, <1>2, <1>7, <1>8, <1>9, <1>10

(* The inductive invariant, as the steps use it.                           *)
Whole == /\ Sound(node, inchains, deepest) /\ minted \subseteq Block
         /\ Held(Stored(node, inchains, deepest)) \subseteq minted
         /\ \A b \in minted \ {Genesis} : Parent[b] \in minted

(* It is what HashTree calls IInv.                                         *)
LEMMA IInvIsWhole == IInv <=> Whole
  <1> DEFINE S == Stored(node, inchains, deepest)
             R == RootsOf(inchains)
  <1>1. AsStore = S /\ Roots = R
    BY DEF AsStore, Stored, Entry, Roots, RootsOf
  <1>2. Sets!IInv <=> /\ S \in Store /\ minted \subseteq Block /\ WellFormed(S)
                      /\ Held(S) \subseteq minted
                      /\ \A b \in minted \ {Genesis} : Parent[b] \in minted
    BY <1>1, SetsOperators DEF Sets!IInv, Sets!TypeOK, Sets!HeldWasMined
  <1>3. /\ Twinned <=> \A r \in R : Nodes(node, r) = Family(node, r)
        /\ LinksMatch <=> \A r \in R : Linked(node, r)
    BY <1>1 DEF Twinned, LinksMatch, Linked
  <1>4. ASSUME IInv PROVE Whole
    <2>1. WellFormed(S) /\ TypeOK /\ \A t, v \in inchains : t.b = v.b => t = v
      BY <1>2, <1>4 DEF IInv
    <2>2. R \subseteq Block
      BY <2>1 DEF TypeOK, RootsOf
    <2>3. Held(S) = Grown(node, R)
      <3>1. S.main = Family(node, Genesis) /\ S.inc = {Entry(node, t) : t \in inchains}
        BY DEF Stored
      <3>2. UNION {v.nodes : v \in {Entry(node, t) : t \in inchains}}
              = UNION {Entry(node, t).nodes : t \in inchains}
        OBVIOUS
      <3>3. UNION {Entry(node, t).nodes : t \in inchains}
              = UNION {Family(node, t.b) : t \in inchains}
        BY DEF Entry
      <3>4. Grown(node, R) = Family(node, Genesis) \cup UNION {Family(node, t.b) : t \in inchains}
        BY DEF Grown, RootsOf
      <3> HIDE DEF S
      <3> QED
        BY <3>1, <3>2, <3>3, <3>4 DEF Held, NodesOf
    <2>4. /\ \A b \in Family(node, Genesis) \ {Genesis} : Parent[b] \in Family(node, Genesis)
          /\ \A t \in inchains :
                /\ \A b \in Family(node, t.b) \ {t.b} : Parent[b] \in Family(node, t.b)
                /\ Family(node, t.b) \cap Family(node, Genesis) = {}
          /\ \A t, v \in inchains : Family(node, t.b) \cap Family(node, v.b) # {} => t.b = v.b
      <3>1. /\ S.main = Family(node, Genesis)
            /\ \A t \in inchains : /\ Entry(node, t) \in S.inc /\ Entry(node, t).root = t.b
                                   /\ Entry(node, t).nodes = Family(node, t.b)
        BY DEF Stored, Entry
      <3> HIDE DEF S
      <3>2. \A t, v \in inchains : Entry(node, t) = Entry(node, v) => t.b = v.b
        BY <3>1
      <3> QED
        BY <2>1, <3>1, <3>2 DEF WellFormed, MainConnectedIn, TreesDisjointIn
    <2>5. Tidy(node, R)
      <3>1. Searchable(node) /\ Grounded(node.child, node.sibling)
        BY <1>4, <2>1 DEF IInv, Searchable, TypeOK
      <3>2. \A r \in R : /\ Nodes(node, r) = Family(node, r) /\ Linked(node, r)
                         /\ \A b \in Family(node, r) \ {r} : Parent[b] \in Family(node, r)
        BY <1>3, <1>4, <2>4 DEF IInv, RootsOf
      <3>3. \A r, q \in R : Family(node, r) \cap Family(node, q) # {} => r = q
        BY <2>4 DEF RootsOf
      <3>4. \A b \in Block \ Grown(node, R) : Free(node, b)
        BY <1>1, <1>4, <2>3 DEF IInv, Unlinked, Free
      <3> QED
        BY <2>2, <3>1, <3>2, <3>3, <3>4 DEF Tidy
    <2>6. Sound(node, inchains, deepest)
      BY <1>1, <1>4, <2>1, <2>5 DEF Sound, IInv, TypeOK
    <2> QED
      BY <1>2, <1>4, <2>6 DEF Whole, IInv
  <1>5. ASSUME Whole PROVE IInv
    <2>1. Sound(node, inchains, deepest)
      BY <1>5 DEF Whole
    <2>2. /\ node \in Memory /\ deepest \in Family(node, Genesis) /\ Held(S) = Grown(node, R)
          /\ Family(node, Genesis) \subseteq Block
      BY <2>1, SoundFacts
    <2>3. Tidy(node, R) /\ WellFormed(S) /\ IsFiniteSet(Held(S))
      BY <2>1 DEF Sound
    <2>4. TypeOK /\ \A t, v \in inchains : t.b = v.b => t = v
      BY <1>5, <2>1, <2>2 DEF Sound, TypeOK, Whole
    <2>5. Sets!IInv
      BY <1>2, <1>5, <2>3 DEF Whole, WellFormed
    <2>6. Twinned /\ LinksMatch
      BY <1>3, <2>3 DEF Tidy
    <2>7. /\ Grounded(node.left, node.right) /\ Ordered(node)
          /\ Grounded(node.child, node.sibling)
      BY <2>3 DEF Tidy, Searchable
    <2>8. Unlinked
      BY <1>1, <2>2, <2>3 DEF Tidy, Unlinked, Free
    <2> QED
      BY <1>1, <2>3, <2>4, <2>5, <2>6, <2>7, <2>8 DEF IInv
  <1> QED
    BY <1>4, <1>5

(* Before the first step there is only the genesis block.                  *)
LEMMA InitWhole == Init => Whole /\ Sets!Init
  <1> SUFFICES ASSUME Init PROVE Whole /\ Sets!Init
    OBVIOUS
  <1>1. /\ node.left = Nowhere /\ node.right = Nowhere /\ node.parent = Nowhere
        /\ node.child = Nowhere /\ node.sibling = Nowhere /\ node.nb = {Genesis}
        /\ inchains = {} /\ deepest = Genesis /\ minted = {Genesis} /\ node \in Memory
    BY BlockIsPointer DEF Init, Memory
  <1>2. Grounded(Nowhere, Nowhere)
    BY BlockIsPointer DEF Grounded
  <1>3. Searchable(node)
    <2>1. Nodes(node, Null) = {}
      BY <1>1, <1>2, NodesFacts
    <2>2. \A b \in Block : node.left[b] = Null /\ node.right[b] = Null
      BY <1>1, BlockIsPointer
    <2> QED
      BY <1>1, <1>2, <2>1, <2>2 DEF Searchable, Ordered
  <1>4. \A b \in Block : Free(node, b)
    BY <1>1, BlockIsPointer DEF Free
  <1>5. Grounded(node.child, node.sibling)
    BY <1>1, <1>2
  <1>6. /\ Family(node, Genesis) = {Genesis} /\ Nodes(node, Genesis) = {Genesis}
        /\ Kids(node, Genesis) = {}
    BY <1>3, <1>4, <1>5, FreeFacts
  <1>7. RootsOf(inchains) = {Genesis}
    BY <1>1 DEF RootsOf
  <1>8. Tidy(node, RootsOf(inchains))
    BY <1>3, <1>4, <1>5, <1>6, <1>7 DEF Tidy, Linked, Free
  <1>9. Stored(node, inchains, deepest) = EmptyStore
    BY <1>1, <1>6 DEF Stored, EmptyStore
  <1>10. WellFormed(EmptyStore) /\ Held(EmptyStore) = {Genesis}
    BY EmptyPreserves
  <1>11. IsFiniteSet({Genesis})
    BY FS_Singleton
  <1>12. Sound(node, inchains, deepest)
    BY <1>1, <1>8, <1>9, <1>10, <1>11 DEF Sound
  <1>13. AsStore = EmptyStore
    BY <1>9 DEF AsStore, Stored, Entry
  <1> QED
    BY <1>1, <1>9, <1>10, <1>12, <1>13, SetsOperators DEF Whole, Sets!Init

(* What a received block may be: in no tree, or the root of one.           *)
LEMMA ParkedOrRoot ==
    ASSUME Whole, NEW h \in Block \ {Genesis}, ~IsInIncomplete(Parent[h], h)
    PROVE  \A t \in inchains : h \in Family(node, t.b) => t.b = h
  <1> SUFFICES ASSUME NEW t \in inchains, h \in Family(node, t.b), t.b # h PROVE FALSE
    OBVIOUS
  <1>1. Sound(node, inchains, deepest) /\ t.b \in RootsOf(inchains)
    BY DEF Whole, RootsOf
  <1>2. Linked(node, t.b)
    BY <1>1 DEF Sound, Tidy
  <1>3. Parent[h] \in Family(node, t.b)
    BY <1>1, SoundFacts
  <1>4. node.parent[h] = Parent[h]
    BY <1>2, <1>3 DEF Linked
  <1>5. Holds(node, t.b, h)
    BY <1>1, SoundFacts
  <1> QED
    BY <1>4, <1>5 DEF IsInIncomplete, Holding

(* Every step keeps the invariant and is a step of the store of sets.      *)
LEMMA NextWhole ==
    ASSUME Whole, [Next]_vars
    PROVE  Whole' /\ [Sets!Next]_(Sets!vars)
  <1> DEFINE S == Stored(node, inchains, deepest)
             T == Stored(node', inchains', deepest')
  <1>1. /\ Sound(node, inchains, deepest) /\ minted \subseteq Block
        /\ Held(S) \subseteq minted /\ \A b \in minted \ {Genesis} : Parent[b] \in minted
        /\ WellFormed(S) /\ S.main = Family(node, Genesis) /\ S.deepest = deepest
    BY DEF Whole, Sound, Stored
  <1>2. AsStore = S /\ AsStore' = T
    BY DEF AsStore, Stored, Entry
  <1>3. ASSUME Sound(node', inchains', deepest'), NEW h \in minted' \ {Genesis},
               Held(T) \subseteq Held(S) \cup {h, Parent[h]},
               \/ minted' = minted
               \/ minted' = minted \cup {h} /\ h \in Block /\ Parent[h] \in minted
        PROVE  Whole'
    BY <1>1, <1>3 DEF Whole
  <1>4. /\ Genesis \in RootsOf(inchains)
        /\ \A b \in Block : Holds(node, Genesis, b) <=> b \in Family(node, Genesis)
        /\ \A t \in inchains, b \in Block : Holds(node, t.b, b) <=> b \in Family(node, t.b)
    <2>1. Genesis \in RootsOf(inchains) /\ \A t \in inchains : t.b \in RootsOf(inchains)
      BY DEF RootsOf
    <2>2. \A r \in RootsOf(inchains), b \in Block : Holds(node, r, b) <=> b \in Family(node, r)
      BY <1>1, SoundFacts
    <2> QED
      BY <2>1, <2>2
  <1>5. CASE UNCHANGED vars
    <2>1. AsStore' = AsStore /\ minted' = minted
      BY <1>2, <1>5 DEF vars
    <2> QED
      BY <1>1, <1>5, <2>1 DEF Whole, vars, Sets!vars
  <1>6. ASSUME NEW h \in Block \ {Genesis}, MintElsewhere(h)
        PROVE  Whole' /\ Sets!MintElsewhere(h)
    <2>1. AsStore' = AsStore
      BY <1>2, <1>6 DEF MintElsewhere
    <2>2. Whole'
      BY <1>1, <1>6 DEF Whole, MintElsewhere
    <2> QED
      BY <1>6, <2>1, <2>2 DEF MintElsewhere, Sets!MintElsewhere
  <1>7. ASSUME NEW h \in Block \ {Genesis}, Mine(h)
        PROVE  Whole' /\ Sets!Mine(h)
    <2>1. /\ h \notin minted /\ Parent[h] = deepest /\ minted' = minted \cup {h}
          /\ node' = WithHeader(AddByParent(node, Genesis, Parent[h], h), h)
          /\ deepest' = h /\ inchains' = inchains
      BY <1>7 DEF Mine
    <2>2. h \notin Held(S)
      BY <1>1, <2>1
    <2>3. Sound(node', inchains, h) /\ Stored(node', inchains, h) = AddMined(S, h)
      BY <1>1, <2>1, <2>2, MineStep
    <2>4. T = AddMined(S, h) /\ Sound(node', inchains', deepest')
      BY <2>1, <2>3
    <2>5. Sets!Mine(h)
      BY <1>1, <1>2, <2>1, <2>4, SetsOperators DEF Sets!Mine
    <2>6. Held(T) = Held(S) \cup {h}
      BY <1>1, <2>1, <2>2, <2>4, MinePreserves
    <2>7. Parent[h] \in minted
      BY <1>1, <2>1 DEF WellFormed, DeepestIn, Held
    <2>8. Whole'
      BY <1>3, <2>1, <2>4, <2>6, <2>7
    <2> QED
      BY <2>5, <2>8
  <1>8. ASSUME NEW h \in Block \ {Genesis}, ReceiveConnect(h)
        PROVE  Whole' /\ Sets!ReceiveConnect(h)
    <2>1. /\ h \in minted /\ h \notin Family(node, Genesis)
          /\ Parent[h] \in Family(node, Genesis) /\ minted' = minted
      BY <1>4, <1>8, ParentIsOther DEF ReceiveConnect
    <2>2. PICK last \in MaxDepth(Family(node', h)) :
             deepest' = IF Depth[last] > Depth[deepest] THEN last ELSE deepest
      BY <1>8 DEF ReceiveConnect
    <2>3. Sound(node', inchains', deepest') /\ T \in Connect(S, h)
      <3>1. CASE /\ RootedAt(h) = {} /\ inchains' = inchains
                 /\ node' = WithHeader(AddByParent(node, Genesis, Parent[h], h), h)
        <4>1. \A t \in inchains : t.b # h
          BY <3>1 DEF RootedAt
        <4>2. /\ Sound(node', inchains, deepest')
              /\ Stored(node', inchains, deepest') \in Connect(S, h)
          BY <1>1, <2>1, <2>2, <3>1, <4>1, ConnectAloneStep
        <4> QED
          BY <3>1, <4>2
      <3>2. ASSUME NEW t \in RootedAt(h), inchains' = inchains \ {t},
                   node' = WithHeader(Merge(node, Genesis, Parent[h], h), h)
            PROVE  Sound(node', inchains', deepest') /\ T \in Connect(S, h)
        <4>1. t \in inchains /\ t.b = h
          BY DEF RootedAt
        <4>2. /\ Sound(node', inchains \ {t}, deepest')
              /\ Stored(node', inchains \ {t}, deepest') \in Connect(S, h)
          BY <1>1, <2>1, <2>2, <3>2, <4>1, ConnectTreeStep
        <4> QED
          BY <3>2, <4>2
      <3> QED
        BY <1>8, <3>1, <3>2 DEF ReceiveConnect
    <2>4. Sets!ReceiveConnect(h)
      BY <1>1, <1>2, <2>1, <2>3, SetsOperators DEF Sets!ReceiveConnect
    <2> HIDE DEF S, T
    <2>5. Held(T) = Held(S) \cup {h}
      BY <1>1, <2>1, <2>3, ConnectPreserves
    <2>6. Whole'
      BY <1>3, <2>1, <2>3, <2>5
    <2> QED
      BY <2>4, <2>6
  <1>9. ASSUME NEW h \in Block \ {Genesis}, ReceivePark(h)
        PROVE  Whole' /\ Sets!ReceivePark(h)
    <2> DEFINE p == Parent[h]
               D == {t \in inchains : h \in Family(node, t.b)}
               fresh == [b |-> p, asks |-> 0]
    <2>1. /\ h \in minted /\ h \notin Family(node, Genesis) /\ p \in Block
          /\ p \notin Family(node, Genesis) /\ minted' = minted /\ deepest' = deepest
          /\ ~IsInIncomplete(p, h) /\ AddToIncomplete(p, h)
      BY <1>4, <1>9, ParentIsOther DEF ReceivePark
    <2>2. \A t \in inchains : h \in Family(node, t.b) => t.b = h
      BY <2>1, ParkedOrRoot
    <2>3. /\ Holding(h) = D
          /\ \A t \in inchains : t \in Holding(p) <=> p \in Family(node, t.b)
      BY <1>4, <2>1 DEF Holding
    <2>4. ASSUME Holding(p) = {}
          PROVE  Clear(node, {p}) = node /\ Hosts(node, inchains, p, fresh)
      <3>1. \A t \in inchains : p \notin Family(node, t.b)
        BY <2>3, <2>4
      <3>2. Tidy(node, RootsOf(inchains)) /\ node.nb \subseteq Grown(node, RootsOf(inchains))
        BY <1>1, SoundFacts DEF Sound
      <3>3. p \in Block \ Grown(node, RootsOf(inchains))
        BY <2>1, <3>1 DEF Grown, RootsOf
      <3>4. Family(node, p) = {p} /\ Clear(node, {p}) = node
        <4> DEFINE R == RootsOf(inchains)
        <4>1. p \in Block \ Grown(node, R) /\ p \notin node.nb /\ Tidy(node, R)
          BY <3>2, <3>3
        <4> HIDE DEF R, p
        <4> QED
          BY <4>1, PlantKeepsTidy
      <3> QED
        BY <3>1, <3>4 DEF Hosts
    <2>5. ASSUME NEW above, Hosts(node, inchains, p, above),
                 inchains' = (inchains \ D) \cup {above},
                 \/ /\ D = {} /\ node' = WithHeader(AddByParent(node, above.b, p, h), h)
                 \/ /\ D # {} /\ node' = WithHeader(Merge(node, above.b, p, h), h)
          PROVE  Sound(node', inchains', deepest') /\ T = Park(S, h)
      <3>1. /\ Sound(node', inchains', deepest)
            /\ Stored(node', inchains', deepest) = Park(S, h)
        <4>1. D = {t \in inchains : h \in Family(node, t.b)}
          OBVIOUS
        <4> HIDE DEF D
        <4> QED
          BY <1>1, <2>1, <2>2, <2>5, <4>1, ParkStep
      <3> QED
        BY <2>1, <3>1
    <2>6. ASSUME NEW above \in Holding(p)
          PROVE  Hosts(node, inchains, p, above) /\ above \in inchains
      BY <2>3 DEF Hosts, Holding
    <2>7. ASSUME NEW below \in Holding(h) PROVE below.b = h /\ D = {below}
      <3>1. \A t, v \in inchains : t.b = v.b => t = v
        BY <1>1 DEF Sound
      <3> QED
        BY <2>2, <2>3, <3>1
    <2>8. Sound(node', inchains', deepest') /\ T = Park(S, h)
      <3> HIDE DEF D, S, T
      <3>1. CASE /\ Holding(h) = {} /\ Holding(p) = {}
                 /\ node' = WithHeader(AddByParent(Clear(node, {p}), p, p, h), h)
                 /\ inchains' = inchains \cup {fresh}
        BY <2>3, <2>4, <2>5, <3>1
      <3>2. ASSUME NEW above \in Holding(p), Holding(h) = {}, inchains' = inchains,
                   node' = WithHeader(AddByParent(node, above.b, p, h), h)
            PROVE  Sound(node', inchains', deepest') /\ T = Park(S, h)
        BY <2>3, <2>5, <2>6, <3>2
      <3>3. ASSUME NEW below \in Holding(h), Holding(p) = {},
                   node' = WithHeader(Merge(Clear(node, {p}), p, p, below.b), h),
                   inchains' = (inchains \ {below}) \cup {fresh}
            PROVE  Sound(node', inchains', deepest') /\ T = Park(S, h)
        BY <2>4, <2>5, <2>7, <3>3
      <3>4. ASSUME NEW below \in Holding(h), NEW above \in Holding(p),
                   node' = WithHeader(Merge(node, above.b, p, below.b), h),
                   inchains' = inchains \ {below}
            PROVE  Sound(node', inchains', deepest') /\ T = Park(S, h)
        <4>1. above # below
          BY <1>1, <2>6, <2>7, ParentApart DEF Holding
        <4>2. below.b = h /\ D = {below} /\ Hosts(node, inchains, p, above) /\ above \in inchains
          BY <2>6, <2>7
        <4>3. inchains' = (inchains \ D) \cup {above}
          BY <3>4, <4>1, <4>2
        <4>4. D # {} /\ node' = WithHeader(Merge(node, above.b, p, h), h)
          BY <3>4, <4>2
        <4> QED
          BY <2>5, <4>2, <4>3, <4>4
      <3> QED
        BY <2>1, <3>1, <3>2, <3>3, <3>4 DEF AddToIncomplete
    <2>9. ~AlreadyParked(S, h)
      BY <2>2 DEF AlreadyParked, Stored, Entry
    <2>10. Sets!ReceivePark(h)
      BY <1>1, <1>2, <2>1, <2>8, <2>9, SetsOperators DEF Sets!ReceivePark
    <2> HIDE DEF S, T
    <2>11. Held(T) = Held(S) \cup {h, p}
      BY <1>1, <2>1, <2>8, <2>9, ParkPreserves
    <2>12. Whole'
      BY <1>3, <2>1, <2>8, <2>11
    <2> QED
      BY <2>10, <2>12
  <1>10. ASSUME NEW due \in SUBSET inchains, due # {}, Ask(due)
         PROVE  Whole' /\ \E asked \in SUBSET AsStore.inc : Sets!Ask(asked)
    <2> DEFINE D == {t \in due : t.asks + 1 > MaxAsks}
               asked == {Entry(node, t) : t \in due}
    <2>1. /\ inchains' = (inchains \ due) \cup {[t EXCEPT !.asks = @ + 1] : t \in due \ D}
          /\ node' = Clear(node, UNION {Family(node, t.b) : t \in D})
          /\ deepest' = deepest /\ minted' = minted
      BY <1>10 DEF Ask
    <2>2. /\ Sound(node', inchains', deepest)
          /\ Stored(node', inchains', deepest) = AskIncomplete(S, asked)
      <3>1. Asks(node, inchains, due, D, node', inchains')
        BY <2>1 DEF Asks
      <3> HIDE DEF D
      <3> QED
        BY <1>1, <3>1, AskStep
    <2>3. Sound(node', inchains', deepest') /\ T = AskIncomplete(S, asked)
      BY <2>1, <2>2
    <2>4. asked \in SUBSET S.inc /\ asked # {}
      BY <1>10 DEF Stored
    <2>5. Sets!Ask(asked)
      BY <1>2, <2>1, <2>3, <2>4, SetsOperators DEF Sets!Ask
    <2> HIDE DEF S, T, asked
    <2>6. Held(T) \subseteq Held(S)
      BY <1>1, <2>3, <2>4, AskPreserves
    <2>7. Whole'
      BY <1>1, <2>1, <2>3, <2>6 DEF Whole, T
    <2> QED
      BY <1>2, <2>4, <2>5, <2>7
  <1> QED
    BY <1>5, <1>6, <1>7, <1>8, <1>9, <1>10 DEF Next, Sets!Next

(* In every universe of positive hashes, whatever is received, asked for or*)
(* mined, the two structures of every tree agree with each other and with  *)
(* the parent hashes, and nothing points into a tree from outside.         *)
THEOREM HashInvariant == Spec => []IInv
  <1>1. Spec => []Whole
    BY InitWhole, NextWhole, PTL DEF Spec
  <1> QED
    BY <1>1, IInvIsWhole, PTL

(* However the search trees were rebuilt by merges, a lookup finds exactly *)
(* the blocks of the tree it is made in (find_block_by_hash).              *)
THEOREM HashLookupExact == Spec => []LookupExact
  <1>1. Whole => LookupExact
    <2> SUFFICES ASSUME Whole PROVE LookupExact
      OBVIOUS
    <2>1. Roots = RootsOf(inchains)
      BY DEF Roots, RootsOf
    <2>2. \A r \in Roots : \A h \in Block : Holds(node, r, h) <=> h \in Family(node, r)
      BY <2>1, SoundFacts DEF Whole
    <2>3. \A r \in Roots : Family(node, r) \subseteq Block
      BY <2>1, TidyFacts DEF Whole, Sound
    <2> QED
      BY <2>2, <2>3 DEF LookupExact
  <1> QED
    BY <1>1, IInvIsWhole, HashInvariant, PTL

(* The lists of children hold exactly the children, and up from each of    *)
(* them is its parent (child, sibling and parent of block).                *)
THEOREM HashLinksMatch == Spec => []LinksMatch
  <1>1. IInv => LinksMatch
    BY DEF IInv
  <1> QED
    BY <1>1, HashInvariant, PTL

(* The memory implements the store of sets: every handler, with all that it*)
(* does to the pointers, is the step that ChainStore says it is.           *)
THEOREM HashImplementsChainStore == Spec => ImplementsChainStore
  <1>1. Init => Sets!Init
    BY InitWhole
  <1>2. Whole /\ [Next]_vars => [Sets!Next]_(Sets!vars)
    BY NextWhole
  <1> QED
    BY <1>1, <1>2, IInvIsWhole, HashInvariant, PTL DEF Spec, ImplementsChainStore, Sets!Spec
===============================================================================
