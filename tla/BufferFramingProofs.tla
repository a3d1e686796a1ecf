------------------------- MODULE BufferFramingProofs -------------------------
(***************************************************************************)
(* Proofs about BufferFraming: its inductive invariant and the three       *)
(* safety properties of an incoming stream, for any number of messages and *)
(* any way they are cut into reads.                                        *)
(*                                                                         *)
(* The stream is the buffer and what is behind it on the connection.  A    *)
(* read looks at its beginning b, handles and skips whole messages of b    *)
(* and leaves an end of the stream (Leaves).  From(b) is where that end    *)
(* begins: at a head that no mixed messages precede (CutFacts), so the end *)
(* has the shape of the whole (SuffixFacts), its messages are younger than *)
(* the handled and the skipped ones, and each message is in one of the     *)
(* three (LeavesFacts).  What is sent keeps the shape as well (GrowFacts). *)
(***************************************************************************)
EXTENDS BufferFraming, TLAPS, FiniteSetTheorems, SequenceTheorems, WellFoundedInduction

(* A set of places that is not empty has a first one.                      *)
LEMMA MinFacts ==
    ASSUME NEW S \in SUBSET Nat, S # {}
    PROVE  Min(S) \in S /\ \A y \in S : Min(S) <= y
  <1> DEFINE less == {p \in Nat \X Nat : p[1] < p[2]}
  <1>1. IsWellFoundedOn(less, Nat)
    BY NatLessThanWellFounded DEF OpToRel
  <1>2. \A m, n \in Nat : m < n => <<m, n>> \in less
    OBVIOUS
  <1> HIDE DEF less
  <1>3. PICK n \in S : \A m \in S : ~(<<m, n>> \in less)
    BY <1>1, WFMin
  <1>4. \A m \in S : n <= m
    <2> SUFFICES ASSUME NEW m \in S PROVE n <= m
      OBVIOUS
    <2>1. ~(m < n)
      BY <1>2, <1>3
    <2> QED
      BY <2>1
  <1> QED
    BY <1>4 DEF Min

(* The places of a finite set, one after the other.                        *)
LEMMA NthFacts ==
    ASSUME NEW P \in SUBSET Nat, IsFiniteSet(P)
    PROVE  /\ Cardinality(P) \in Nat
           /\ \A n \in 1 .. Cardinality(P) : Nth(P, n) \in P
           /\ \A m, n \in 1 .. Cardinality(P) : m < n => Nth(P, m) < Nth(P, n)
           /\ \A i \in P : \E n \in 1 .. Cardinality(P) : Nth(P, n) = i
  <1> DEFINE upto(i) == {j \in P : j <= i}
             rank(i) == Cardinality(upto(i))
             N == Cardinality(P)
  <1>1. N \in Nat
    BY FS_CardinalityType
  <1>0. \A i \in P : i \in Nat
    OBVIOUS
  <1>2. ASSUME NEW i \in P PROVE IsFiniteSet(upto(i)) /\ rank(i) \in 1 .. N
    <2>1. upto(i) \in SUBSET P /\ i \in upto(i)
      OBVIOUS
    <2>2. IsFiniteSet(upto(i)) /\ rank(i) <= N
      BY <2>1, FS_Subset
    <2>3. rank(i) \in Nat /\ rank(i) # 0
      BY <2>1, <2>2, FS_CardinalityType, FS_EmptySet
    <2> QED
      BY <1>1, <2>2, <2>3
  <1>3. ASSUME NEW i \in P, NEW k \in P, i < k PROVE rank(i) < rank(k)
    <2>1. upto(i) \in SUBSET upto(k) /\ k \in upto(k) /\ k \notin upto(i)
      <3>1. \A j \in P : j <= i => j <= k
        BY <1>0, <1>3
      <3>2. i \in Nat /\ k \in Nat /\ ~(k <= i) /\ k <= k
        BY <1>0, <1>3
      <3> QED
        BY <3>1, <3>2
    <2>2. rank(i) <= rank(k) /\ (rank(k) = rank(i) => upto(k) = upto(i))
      BY <1>2, <2>1, FS_Subset
    <2> QED
      BY <1>2, <2>1, <2>2
  <1>4. \A n \in 1 .. N : \E i \in P : rank(i) = n
    <2> DEFINE R == [i \in P |-> rank(i)]
    <2>1. R \in [P -> 1 .. N]
      BY <1>2
    <2>2. \A i, k \in P : R[i] = R[k] => i = k
      <3> SUFFICES ASSUME NEW i \in P, NEW k \in P, i # k PROVE R[i] # R[k]
        OBVIOUS
      <3>1. i < k \/ k < i
        OBVIOUS
      <3>2. rank(i) \in Nat /\ rank(k) \in Nat
        BY <1>2
      <3>3. rank(i) # rank(k)
        BY <1>3, <3>1, <3>2
      <3> QED
        BY <3>3
    <2>3. R \in Injection(P, 1 .. N)
      BY <2>1, <2>2 DEF Injection, IsInjective
    <2>4. IsFiniteSet(1 .. N) /\ Cardinality(1 .. N) = N
      BY <1>1, FS_Interval
    <2>5. R \in Surjection(P, 1 .. N)
      BY <2>3, <2>4, FS_Injection
    <2> QED
      BY <2>5 DEF Surjection
  <1>5. \A n : Nth(P, n) = CHOOSE i \in P : rank(i) = n
    BY DEF Nth
  <1> HIDE DEF rank, upto
  <1>6. ASSUME NEW n \in 1 .. N PROVE Nth(P, n) \in P /\ rank(Nth(P, n)) = n
    BY <1>4, <1>5
  <1>7. \A m, n \in 1 .. N : m < n => Nth(P, m) < Nth(P, n)
    <2> SUFFICES ASSUME NEW m \in 1 .. N, NEW n \in 1 .. N, m < n PROVE Nth(P, m) < Nth(P, n)
      OBVIOUS
    <2>1. /\ Nth(P, m) \in P /\ rank(Nth(P, m)) = m
          /\ Nth(P, n) \in P /\ rank(Nth(P, n)) = n
      BY <1>6
    <2> DEFINE x == Nth(P, m)
               y == Nth(P, n)
    <2> HIDE DEF x, y
    <2>2. x \in P /\ rank(x) = m /\ y \in P /\ rank(y) = n
      BY <2>1 DEF x, y
    <2>3. y < x => rank(y) < rank(x)
      BY <1>3, <2>2
    <2>4. m \in Nat /\ n \in Nat /\ x \in Nat /\ y \in Nat
      BY <1>0, <1>1, <2>2
    <2>5. x < y
      BY <2>2, <2>3, <2>4
    <2> QED
      BY <2>5 DEF x, y
  <1>8. ASSUME NEW i \in P PROVE rank(i) \in 1 .. N /\ Nth(P, rank(i)) = i
    <2>1. rank(i) \in 1 .. N
      BY <1>2
    <2>2. Nth(P, rank(i)) \in P /\ rank(Nth(P, rank(i))) = rank(i)
      BY <1>6, <2>1
    <2> DEFINE x == Nth(P, rank(i))
    <2> HIDE DEF x
    <2>3. x \in P /\ rank(x) = rank(i)
      BY <2>2 DEF x
    <2>4. /\ x < i => rank(x) < rank(i)
          /\ i < x => rank(i) < rank(x)
      BY <1>3, <2>3
    <2>5. rank(i) \in Nat /\ x \in Nat /\ i \in Nat
      BY <1>0, <1>1, <2>1, <2>3
    <2>6. x = i
      BY <2>3, <2>4, <2>5
    <2> QED
      BY <2>1, <2>6 DEF x
  <1> QED
    BY <1>1, <1>6, <1>7, <1>8

-----------------------------------------------------------------------------
(* b is what of the stream s has arrived.                                  *)
Begins(b, s) ==
    /\ b \in Seq(Piece) /\ s \in Seq(Piece) /\ Len(b) \in 1 .. Len(s)
    /\ \A i \in 1 .. Len(b) : b[i] = s[i]

(* What the places of a sequence of pieces hold.                           *)
LEMMA PlaceFacts ==
    ASSUME NEW s \in Seq(Piece)
    PROVE  /\ Len(s) \in Nat /\ DOMAIN s = 1 .. Len(s) /\ Heads(s) \subseteq 1 .. Len(s)
           /\ \A i \in 1 .. Len(s) : i \in Heads(s) <=> s[i].part = "head"
           /\ \A i \in 1 .. Len(s) : i \notin Heads(s) => s[i].part = "tail"
           /\ \A i \in 1 .. Len(s) : s[i] \in Piece /\ s[i].id \in 1 .. MaxSent
           /\ s # <<>> <=> Len(s) > 0
  <1>1. Len(s) \in Nat /\ DOMAIN s = 1 .. Len(s)
    OBVIOUS
  <1>2. \A i \in 1 .. Len(s) : s[i] \in Piece
    BY <1>1
  <1>3. s # <<>> <=> Len(s) > 0
    BY <1>1
  <1>4. \A i \in 1 .. Len(s) : s[i].part \in {"head", "tail"} /\ s[i].id \in 1 .. MaxSent
    BY <1>2 DEF Piece
  <1> QED
    BY <1>1, <1>2, <1>3, <1>4 DEF Heads

(* Which messages in the buffer have arrived whole.                        *)
LEMMA CompleteFacts ==
    ASSUME NEW b \in Seq(Piece), NEW i \in Heads(b)
    PROVE  /\ i = Len(b) => ~Complete(b, i)
           /\ i + 1 \in Heads(b) => ~Complete(b, i)
           /\ i + 1 \in 1 .. Len(b) \ Heads(b) /\ (i + 1 = Len(b) \/ i + 2 \in Heads(b))
                => Complete(b, i)
  <1> DEFINE ends == {j \in i .. Len(b) : j = Len(b) \/ j + 1 \in Heads(b)}
  <1>1. /\ Len(b) \in Nat /\ Heads(b) \subseteq 1 .. Len(b) /\ i \in 1 .. Len(b)
        /\ b[i].part = "head"
        /\ \A j \in 1 .. Len(b) : j \notin Heads(b) => b[j].part = "tail"
    <2>1. Len(b) \in Nat /\ DOMAIN b = 1 .. Len(b) /\ Heads(b) \subseteq 1 .. Len(b)
      BY PlaceFacts
    <2>2. \A j \in 1 .. Len(b) : j \in Heads(b) <=> b[j].part = "head"
      BY PlaceFacts
    <2>3. \A j \in 1 .. Len(b) : j \notin Heads(b) => b[j].part = "tail"
      BY PlaceFacts
    <2> QED
      BY <2>1, <2>2, <2>3
  <1>2. Complete(b, i) <=> b[Min(ends)].part = "tail"
    BY DEF Complete
  <1>3. ends \in SUBSET Nat /\ Len(b) \in ends
    BY <1>1
  <1>4. Min(ends) \in ends /\ \A j \in ends : Min(ends) <= j
    BY <1>3, MinFacts
  <1> DEFINE e == Min(ends)
  <1>5. e \in i .. Len(b) /\ (e = Len(b) \/ e + 1 \in Heads(b))
    BY <1>4
  <1>6. \A j \in i .. Len(b) : j = Len(b) \/ j + 1 \in Heads(b) => e <= j
    BY <1>4
  <1> HIDE DEF e, ends
  <1>7. CASE i = Len(b)
    <2>1. e = i
      BY <1>1, <1>5, <1>7
    <2> QED
      BY <1>1, <1>2, <1>7, <2>1 DEF e
  <1>8. CASE i + 1 \in Heads(b)
    <2>1. e = i
      BY <1>1, <1>5, <1>6, <1>8
    <2>2. i + 1 \in 1 .. Len(b)
      BY <1>1, <1>8
    <2> QED
      BY <1>1, <1>2, <1>8, <2>1, <2>2 DEF e
  <1>9. CASE i + 1 \in 1 .. Len(b) \ Heads(b) /\ (i + 1 = Len(b) \/ i + 2 \in Heads(b))
    <2>1. e <= i + 1
      BY <1>1, <1>6, <1>9
    <2>2. e # i
      BY <1>1, <1>5, <1>9
    <2>3. e = i + 1
      BY <1>1, <1>5, <2>1, <2>2
    <2> QED
      BY <1>1, <1>2, <1>9, <2>3 DEF e
  <1> QED
    BY <1>7, <1>8, <1>9

(* The heads of what has arrived are those of the stream.                  *)
LEMMA HeadsFacts ==
    ASSUME NEW s, NEW b, Begins(b, s)
    PROVE  Heads(b) = Heads(s) \cap 1 .. Len(b)
  <1>1. /\ b \in Seq(Piece) /\ s \in Seq(Piece) /\ Len(b) \in 1 .. Len(s)
        /\ \A i \in 1 .. Len(b) : b[i] = s[i]
    BY DEF Begins
  <1>2. /\ Len(s) \in Nat /\ DOMAIN s = 1 .. Len(s) /\ Heads(s) \subseteq 1 .. Len(s)
        /\ \A i \in 1 .. Len(s) : i \in Heads(s) <=> s[i].part = "head"
    <2>1. Len(s) \in Nat /\ DOMAIN s = 1 .. Len(s) /\ Heads(s) \subseteq 1 .. Len(s)
      BY <1>1, PlaceFacts
    <2>2. \A i \in 1 .. Len(s) : i \in Heads(s) <=> s[i].part = "head"
      BY <1>1, PlaceFacts
    <2> QED
      BY <2>1, <2>2
  <1>3. /\ Len(b) \in Nat /\ DOMAIN b = 1 .. Len(b) /\ Heads(b) \subseteq 1 .. Len(b)
        /\ \A i \in 1 .. Len(b) : i \in Heads(b) <=> b[i].part = "head"
    <2>1. Len(b) \in Nat /\ DOMAIN b = 1 .. Len(b) /\ Heads(b) \subseteq 1 .. Len(b)
      BY <1>1, PlaceFacts
    <2>2. \A i \in 1 .. Len(b) : i \in Heads(b) <=> b[i].part = "head"
      BY <1>1, PlaceFacts
    <2> QED
      BY <2>1, <2>2
  <1> QED
    BY <1>1, <1>2, <1>3

(* The loop reaches the messages that have arrived whole, up to the first  *)
(* mixed ones.                                                             *)
LEMMA ReachedFacts ==
    ASSUME NEW s, NEW b, Begins(b, s), Shape(s)
    PROVE  /\ Heads(b) = Heads(s) \cap 1 .. Len(b)
           /\ \A i : i \in Reached(b) <=> Whole(s, i) /\ i + 1 \in 1 .. Len(b)
           /\ \A i \in Reached(b), j \in Heads(b) \ Reached(b) : i < j
           /\ \A j \in 1 .. Len(b) : Mixed(s, j) => j \in Heads(b) \ Reached(b)
           /\ \A j \in Heads(b), i \in 1 .. Len(b) : Clean(s, i) /\ j < i => j \in Reached(b)
  <1>1. /\ b \in Seq(Piece) /\ s \in Seq(Piece) /\ Len(b) \in 1 .. Len(s)
        /\ \A i \in 1 .. Len(b) : b[i] = s[i]
    BY DEF Begins
  <1>2. /\ Len(s) \in Nat /\ DOMAIN s = 1 .. Len(s) /\ Heads(s) \subseteq 1 .. Len(s)
        /\ \A i \in 1 .. Len(s) : i \in Heads(s) <=> s[i].part = "head"
    <2>1. Len(s) \in Nat /\ DOMAIN s = 1 .. Len(s) /\ Heads(s) \subseteq 1 .. Len(s)
      BY <1>1, PlaceFacts
    <2>2. \A i \in 1 .. Len(s) : i \in Heads(s) <=> s[i].part = "head"
      BY <1>1, PlaceFacts
    <2> QED
      BY <2>1, <2>2
  <1>3. /\ Len(b) \in Nat /\ DOMAIN b = 1 .. Len(b) /\ Heads(b) \subseteq 1 .. Len(b)
        /\ \A i \in 1 .. Len(b) : i \in Heads(b) <=> b[i].part = "head"
    <2>1. Len(b) \in Nat /\ DOMAIN b = 1 .. Len(b) /\ Heads(b) \subseteq 1 .. Len(b)
      BY <1>1, PlaceFacts
    <2>2. \A i \in 1 .. Len(b) : i \in Heads(b) <=> b[i].part = "head"
      BY <1>1, PlaceFacts
    <2> QED
      BY <2>1, <2>2
  <1>4. Heads(b) = Heads(s) \cap 1 .. Len(b)
    BY HeadsFacts
  <1>5. ASSUME NEW i \in Heads(b)
        PROVE  /\ i = Len(b) => ~Complete(b, i)
               /\ i + 1 \in Heads(b) => ~Complete(b, i)
               /\ i + 1 \in 1 .. Len(b) \ Heads(b) /\ (i + 1 = Len(b) \/ i + 2 \in Heads(b))
                    => Complete(b, i)
    BY <1>1, <1>5, CompleteFacts
  <1>6. ASSUME NEW i \in Reached(b)
        PROVE  Whole(s, i) /\ i + 1 \in 1 .. Len(b)
    <2>1. i \in Heads(b) /\ \A j \in Heads(b) : j <= i => Complete(b, j)
      BY <1>6 DEF Reached
    <2>2. i \in Nat /\ i \in 1 .. Len(b) /\ i \in Heads(s)
      BY <1>3, <1>4, <2>1
    <2>3. Complete(b, i)
      BY <2>1, <2>2
    <2>4. i + 1 \in 1 .. Len(b) /\ i + 1 \notin Heads(b)
      <3>1. i # Len(b) /\ i + 1 \notin Heads(b)
        BY <1>5, <2>1, <2>3
      <3>2. Len(b) \in Nat
        BY <1>3
      <3>3. i + 1 \in 1 .. Len(b)
        BY <2>2, <3>1, <3>2
      <3> QED
        BY <3>1, <3>3
    <2>5. i + 1 \in DOMAIN s \ Heads(s)
      BY <1>1, <1>2, <1>4, <2>4
    <2>6. ASSUME NEW j \in 1 .. i - 1, Mixed(s, j) PROVE FALSE
      <3>1. j \in Heads(s) /\ j + 1 \in Heads(s)
        BY <2>6 DEF Mixed
      <3>2. j \in 1 .. Len(b) /\ j + 1 \in 1 .. Len(b) /\ j <= i
        BY <1>1, <2>2
      <3>3. j \in Heads(b) /\ j + 1 \in Heads(b)
        BY <1>4, <3>1, <3>2
      <3> QED
        BY <1>5, <2>1, <3>2, <3>3
    <2> QED
      BY <1>2, <2>2, <2>4, <2>5, <2>6 DEF Whole, Clean
  <1>7. ASSUME NEW i, NEW j \in Heads(b), Clean(s, i), i \in 1 .. Len(b), j < i
        PROVE  Whole(s, j) /\ j + 1 \in 1 .. Len(b)
    <2>1. j \in Heads(s) /\ j \in 1 .. i - 1 /\ j + 1 \in 1 .. Len(b)
      BY <1>1, <1>3, <1>4, <1>7
    <2>2. ~Mixed(s, j) /\ Clean(s, j)
      BY <1>1, <1>2, <1>7, <2>1 DEF Clean
    <2>3. j + 1 \in DOMAIN s \ Heads(s)
      BY <1>1, <1>2, <2>1, <2>2 DEF Mixed
    <2> QED
      BY <2>1, <2>2, <2>3 DEF Whole
  <1>8. ASSUME NEW i, Whole(s, i), i + 1 \in 1 .. Len(b)
        PROVE  i \in Heads(b) /\ Complete(b, i)
    <2>1. i \in Heads(s) /\ Clean(s, i) /\ i + 1 \in 1 .. Len(s) /\ i + 1 \notin Heads(s)
      BY <1>2, <1>8 DEF Whole
    <2>2. i \in Nat /\ i \in 1 .. Len(b) /\ i \in Heads(b) /\ i + 1 \notin Heads(b)
      BY <1>1, <1>2, <1>4, <1>8, <2>1
    <2>3. i + 1 # Len(b) => i + 2 \in Heads(b)
      <3> SUFFICES ASSUME i + 1 # Len(b), i + 2 \notin Heads(b) PROVE FALSE
        OBVIOUS
      <3>1. i + 2 \in 1 .. Len(b) /\ i + 2 \in DOMAIN s \ Heads(s)
        BY <1>1, <1>2, <1>4, <1>8, <2>2
      <3>2. Clean(s, i + 2)
        <4> SUFFICES ASSUME NEW j \in 1 .. (i + 2) - 1, Mixed(s, j) PROVE FALSE
          BY <3>1 DEF Clean
        <4>1. j \in Heads(s) /\ j + 1 \in Heads(s)
          BY DEF Mixed
        <4>2. j # i /\ j # i + 1
          BY <2>1, <4>1
        <4>3. j \in 1 .. i - 1
          BY <2>2, <4>2
        <4> QED
          BY <2>1, <4>3 DEF Clean
      <3>3. (i + 2) - 1 \in Heads(s)
        BY <3>1, <3>2 DEF Shape
      <3> QED
        BY <2>1, <2>2, <3>3
    <2> QED
      BY <1>5, <1>8, <2>2, <2>3
  <1>9. ASSUME NEW i, Whole(s, i), i + 1 \in 1 .. Len(b)
        PROVE  i \in Reached(b)
    <2>1. i \in Heads(b) /\ i \in 1 .. Len(b) /\ Clean(s, i)
      BY <1>3, <1>8, <1>9 DEF Whole
    <2>2. ASSUME NEW j \in Heads(b), j <= i PROVE Complete(b, j)
      <3>1. j = i \/ j < i
        BY <1>3, <2>1, <2>2
      <3>2. Whole(s, j) /\ j + 1 \in 1 .. Len(b)
        BY <1>7, <1>9, <2>1, <3>1
      <3> QED
        BY <1>8, <3>2
    <2> QED
      BY <2>1, <2>2 DEF Reached
  <1>10. ASSUME NEW i \in Reached(b), NEW j \in Heads(b) \ Reached(b) PROVE i < j
    <2>1. Whole(s, i) /\ i + 1 \in 1 .. Len(b) /\ Clean(s, i)
      BY <1>6 DEF Whole
    <2>2. i \in 1 .. Len(b) /\ i \in Heads(b)
      BY <1>3 DEF Reached
    <2>3. ~(j < i)
      BY <1>7, <1>9, <2>1, <2>2
    <2> QED
      BY <1>3, <2>2, <2>3
  <1>11. ASSUME NEW j \in 1 .. Len(b), Mixed(s, j) PROVE j \in Heads(b) \ Reached(b)
    BY <1>4, <1>6, <1>11 DEF Mixed, Whole
  <1>12. ASSUME NEW j \in Heads(b), NEW i \in 1 .. Len(b), Clean(s, i), j < i
         PROVE  j \in Reached(b)
    BY <1>7, <1>9, <1>12
  <1> QED
    BY <1>4, <1>6, <1>9, <1>10, <1>11, <1>12

(* Where what is kept of the buffer begins.                                *)
From(b) == IF Retained(b) = {} THEN Len(b) + 1 ELSE Min(Retained(b))

(* It begins at a head, behind everything that is handled or skipped; in a *)
(* stream that is not mixed it is one message.                             *)
LEMMA FromFacts ==
    ASSUME NEW s, NEW b, Begins(b, s), Shape(s)
    PROVE  /\ From(b) \in 1 .. Len(b) + 1
           /\ \A i \in Heads(b) : i < From(b) <=> i \in Reached(b) \ Retained(b)
           /\ From(b) <= Len(b) => From(b) \in Heads(b)
           /\ \A i, j \in Heads(b) : i \in Reached(b) /\ i >= From(b) => j <= i
  <1>1. /\ Len(b) \in Nat /\ Heads(b) \subseteq 1 .. Len(b)
    BY PlaceFacts DEF Begins
  <1>2. \A i \in Reached(b), j \in Heads(b) \ Reached(b) : i < j
    BY ReachedFacts
  <1>3. Reached(b) \subseteq Heads(b) /\ Repeats(b) \subseteq Reached(b)
    BY DEF Reached, Repeats
  <1>4. /\ Retained(b) \subseteq Heads(b)
        /\ Heads(b) \ Reached(b) \subseteq Retained(b)
        /\ \A i \in Retained(b) : i \in Reached(b) => \A j \in Heads(b) : j <= i
    BY <1>3 DEF Retained, LastOf
  <1>5. CASE Retained(b) = {}
    <2>1. From(b) = Len(b) + 1
      BY <1>5 DEF From
    <2>2. Heads(b) \subseteq Reached(b)
      BY <1>4, <1>5
    <2> QED
      BY <1>1, <1>5, <2>1, <2>2
  <1>6. CASE Retained(b) # {}
    <2>1. Retained(b) \in SUBSET Nat
      BY <1>1, <1>4
    <2>2. From(b) \in Retained(b) /\ \A i \in Retained(b) : From(b) <= i
      BY <1>6, <2>1, MinFacts DEF From
    <2> DEFINE r == From(b)
    <2> HIDE DEF r
    <2>3. r \in Retained(b) /\ r \in Heads(b) /\ r \in 1 .. Len(b)
      BY <1>1, <1>4, <2>2 DEF r
    <2>4. \A i \in Retained(b) : r <= i
      BY <2>2 DEF r
    <2>5. ASSUME NEW i \in Heads(b), i < r PROVE i \in Reached(b) \ Retained(b)
      BY <1>1, <1>4, <2>3, <2>4, <2>5
    <2>6. ASSUME NEW i \in Reached(b) \ Retained(b) PROVE i < r
      <3>1. CASE r \in Reached(b)
        <4>1. i <= r /\ i # r
          BY <1>3, <1>4, <2>3, <2>6, <3>1
        <4> QED
          BY <1>1, <1>3, <2>3, <2>6, <4>1
      <3>2. CASE r \notin Reached(b)
        BY <1>2, <2>3, <2>6, <3>2
      <3> QED
        BY <3>1, <3>2
    <2>7. ASSUME NEW i \in Heads(b), NEW j \in Heads(b), i \in Reached(b), i >= r PROVE j <= i
      <3>1. ~(i < r)
        BY <1>1, <2>3, <2>7
      <3>2. i \in Retained(b)
        BY <2>6, <2>7, <3>1
      <3> QED
        BY <1>4, <2>7, <3>2
    <2> QED
      BY <1>1, <2>3, <2>5, <2>6, <2>7 DEF r
  <1> QED
    BY <1>5, <1>6

(* What that makes of the stream: before From(b) are the messages handled  *)
(* or skipped, behind it the younger ones.                                 *)
LEMMA CutFacts ==
    ASSUME NEW s, NEW b, Begins(b, s), Shape(s)
    PROVE  /\ From(b) <= Len(s) => From(b) \in Heads(s)
           /\ \A p \in 1 .. From(b) - 1 : ~Mixed(s, p)
           /\ \A p \in 1 .. From(b) - 1 :
                \/ p \in Reached(b)
                \/ p - 1 \in Reached(b) /\ p - 1 < From(b) /\ s[p - 1].id = s[p].id
           /\ \A i \in Reached(b), p \in From(b) .. Len(s) :
                i < From(b) => s[i].id < s[p].id
           /\ (\A p \in DOMAIN s : ~Mixed(s, p)) =>
                \A p, q \in From(b) .. Len(b) : s[p].id = s[q].id
  <1> DEFINE r == From(b)
  <1>1. r \in 1 .. Len(b) + 1 /\ (r <= Len(b) => r \in Heads(b))
    BY FromFacts DEF r
  <1>2. \A i \in Heads(b) : i < r <=> i \in Reached(b) \ Retained(b)
    BY FromFacts DEF r
  <1>3. \A i, j \in Heads(b) : i \in Reached(b) /\ i >= r => j <= i
    BY FromFacts DEF r
  <1> HIDE DEF r
  <1>4. /\ Len(s) \in Nat /\ DOMAIN s = 1 .. Len(s) /\ Heads(s) \subseteq 1 .. Len(s)
    BY PlaceFacts DEF Begins
  <1>5. Len(b) \in Nat /\ Len(b) <= Len(s) /\ Heads(b) \subseteq 1 .. Len(b)
    <2>1. b \in Seq(Piece) /\ Len(b) \in 1 .. Len(s)
      BY DEF Begins
    <2>2. Heads(b) \subseteq 1 .. Len(b)
      BY <2>1, PlaceFacts
    <2> QED
      BY <1>4, <2>1, <2>2
  <1>6. Heads(b) = Heads(s) \cap 1 .. Len(b)
    BY ReachedFacts
  <1>7. \A i : i \in Reached(b) <=> Whole(s, i) /\ i + 1 \in 1 .. Len(b)
    BY ReachedFacts
  <1>8. \A j \in Heads(b), i \in 1 .. Len(b) : Clean(s, i) /\ j < i => j \in Reached(b)
    BY ReachedFacts
  <1>9. Reached(b) \subseteq Heads(b)
    BY DEF Reached
  <1>10. ASSUME NEW p \in 1 .. r - 1 PROVE ~Mixed(s, p)
    <2> SUFFICES ASSUME Mixed(s, p) PROVE FALSE
      OBVIOUS
    <2>1. p \in Heads(s) /\ p + 1 \in Heads(s)
      BY DEF Mixed
    <2>2. p \in Heads(b) /\ p < r
      BY <1>1, <1>5, <1>6, <2>1
    <2>3. Whole(s, p)
      BY <1>2, <1>7, <2>2
    <2> QED
      BY <2>1, <2>3 DEF Whole
  <1>11. ASSUME NEW p \in 1 .. r, p \in DOMAIN s \ Heads(s)
         PROVE  /\ p - 1 \in Reached(b) /\ p - 1 < r /\ s[p - 1].id = s[p].id
                /\ p \in 1 .. Len(b)
    <2>1. Clean(s, p)
      BY <1>1, <1>5, <1>10, <1>11 DEF Clean
    <2>2. p - 1 \in Heads(s) /\ s[p - 1].id = s[p].id
      BY <1>11, <2>1 DEF Shape
    <2>3. p - 1 < r /\ p - 1 \in Heads(b)
      BY <1>1, <1>4, <1>5, <1>6, <2>2
    <2>4. p - 1 \in Reached(b)
      BY <1>2, <2>3
    <2>5. (p - 1) + 1 \in 1 .. Len(b)
      BY <1>7, <2>4
    <2> QED
      BY <1>1, <1>5, <2>2, <2>3, <2>4, <2>5
  <1>12. ASSUME r <= Len(s) PROVE r \in Heads(s)
    <2> SUFFICES ASSUME r \notin Heads(s) PROVE FALSE
      OBVIOUS
    <2>1. r \in 1 .. r /\ r \in DOMAIN s \ Heads(s)
      BY <1>1, <1>4, <1>5, <1>12
    <2>2. r \in 1 .. Len(b)
      BY <1>11, <2>1
    <2> QED
      BY <1>1, <1>5, <1>6, <2>2
  <1>13. ASSUME NEW p \in 1 .. r - 1
         PROVE  \/ p \in Reached(b)
                \/ p - 1 \in Reached(b) /\ p - 1 < r /\ s[p - 1].id = s[p].id
    <2>1. p \in 1 .. r /\ p < r /\ p \in 1 .. Len(b) /\ p \in DOMAIN s
      BY <1>1, <1>4, <1>5
    <2>2. CASE p \in Heads(s)
      BY <1>2, <1>6, <2>1, <2>2
    <2>3. CASE p \notin Heads(s)
      BY <1>11, <2>1, <2>3
    <2> QED
      BY <2>2, <2>3
  <1>14. ASSUME NEW i \in Reached(b), NEW p \in r .. Len(s), i < r
         PROVE  s[i].id < s[p].id
    <2>1. Whole(s, i) /\ i + 1 \in 1 .. Len(b) /\ i \in Heads(b) /\ i + 1 \notin Heads(s)
      BY <1>7, <1>9 DEF Whole
    <2>2. r # i + 1
      BY <1>1, <1>5, <1>6, <2>1
    <2>3. p \in DOMAIN s /\ i \in DOMAIN s /\ p > i + 1
      BY <1>1, <1>4, <1>5, <1>14, <2>1, <2>2
    <2> QED
      BY <2>1, <2>3 DEF Shape
  <1>15. ASSUME \A p \in DOMAIN s : ~Mixed(s, p), NEW q \in r .. Len(b)
         PROVE  s[q].id = s[r].id
    <2>1. r \in Nat /\ q \in Nat /\ r <= q /\ q <= Len(b) /\ r \in Heads(b)
      BY <1>1, <1>5
    <2>2. \A i \in DOMAIN s : Clean(s, i)
      BY <1>4, <1>15 DEF Clean
    <2>3. ASSUME NEW h \in Heads(b), h > r PROVE FALSE
      <3>1. h \in 1 .. Len(b) /\ h \in DOMAIN s
        BY <1>4, <1>5
      <3>2. r \in Reached(b)
        BY <1>8, <2>1, <2>2, <2>3, <3>1
      <3>3. h <= r
        BY <1>3, <2>1, <3>2
      <3> QED
        BY <2>1, <2>3, <3>1, <3>3
    <2>4. CASE q = r
      BY <2>4
    <2>5. CASE q # r
      <3>1. q \in DOMAIN s \ Heads(s)
        BY <1>4, <1>5, <1>6, <2>1, <2>3, <2>5
      <3>2. q - 1 \in Heads(s) /\ s[q - 1].id = s[q].id
        BY <2>2, <3>1 DEF Shape
      <3>3. q - 1 \in Heads(b)
        BY <1>4, <1>5, <1>6, <2>1, <3>2
      <3>4. q - 1 = r
        BY <2>1, <2>3, <2>5, <3>3
      <3> QED
        BY <3>2, <3>4
    <2> QED
      BY <2>4, <2>5
  <1>16. (\A p \in DOMAIN s : ~Mixed(s, p)) => \A p, q \in r .. Len(b) : s[p].id = s[q].id
    BY <1>15
  <1> QED
    BY <1>10, <1>12, <1>13, <1>14, <1>16 DEF r

-----------------------------------------------------------------------------
(* Places in a stream and in what is behind its place r.                   *)
LEMMA PlaceArithmetic ==
    /\ \A m \in Nat : m > 0 => m \in 1 .. m
    /\ \A m, n, r, p \in Nat : m = n + 1 - r /\ p <= n /\ p >= r
          => p + 1 - r \in 1 .. m /\ (p + 1 - r) + r - 1 = p
  OBVIOUS

(* t is what begins at place r of s.                                       *)
BeginsAt(s, t, r) ==
    /\ r \in 1 .. Len(s) + 1 /\ Len(t) = Len(s) + 1 - r
    /\ \A i \in 1 .. Len(t) : t[i] = s[i + r - 1]
    /\ r <= Len(s) => r \in Heads(s)
    /\ \A p \in 1 .. r - 1 : ~Mixed(s, p)

(* What is behind a head that no mixed messages precede has the shape of   *)
(* the whole stream.                                                       *)
LEMMA SuffixFacts ==
    ASSUME NEW s \in Seq(Piece), NEW t \in Seq(Piece), NEW r, Shape(s), BeginsAt(s, t, r)
    PROVE  /\ Shape(t)
           /\ \A i \in DOMAIN t : Mixed(t, i) => Mixed(s, i + r - 1)
  <1>1. /\ Len(s) \in Nat /\ DOMAIN s = 1 .. Len(s) /\ Heads(s) \subseteq 1 .. Len(s)
        /\ Len(t) \in Nat /\ DOMAIN t = 1 .. Len(t) /\ Heads(t) \subseteq 1 .. Len(t)
    BY PlaceFacts
  <1>2. \A i \in 1 .. Len(s) : i \in Heads(s) <=> s[i].part = "head"
    BY PlaceFacts
  <1>3. \A i \in 1 .. Len(t) : i \in Heads(t) <=> t[i].part = "head"
    BY PlaceFacts
  <1>4. r \in Nat /\ r >= 1 /\ r <= Len(s) + 1 /\ Len(t) = Len(s) + 1 - r
    BY <1>1 DEF BeginsAt
  <1>14. \A i \in 1 .. Len(t) : t[i] = s[i + r - 1]
    BY DEF BeginsAt
  <1>5. \A i \in 1 .. Len(t) : i + r - 1 \in 1 .. Len(s) /\ i + r - 1 >= r
    BY <1>1, <1>4
  <1>6. \A i \in 1 .. Len(t) : i \in Heads(t) <=> i + r - 1 \in Heads(s)
    BY <1>2, <1>3, <1>5, <1>14
  <1>7. \A i \in DOMAIN t : Mixed(t, i) <=> Mixed(s, i + r - 1)
    <2> SUFFICES ASSUME NEW i \in 1 .. Len(t) PROVE Mixed(t, i) <=> Mixed(s, i + r - 1)
      BY <1>1
    <2>1. i \in Heads(t) <=> i + r - 1 \in Heads(s)
      BY <1>6
    <2>2. i + 1 \in Heads(t) <=> (i + r - 1) + 1 \in Heads(s)
      <3>1. CASE i + 1 \in 1 .. Len(t)
        <4>1. (i + 1) + r - 1 = (i + r - 1) + 1
          BY <1>4
        <4> QED
          BY <1>6, <3>1, <4>1
      <3>2. CASE i + 1 \notin 1 .. Len(t)
        <4>1. (i + r - 1) + 1 \notin 1 .. Len(s)
          BY <1>1, <1>4, <3>2
        <4> QED
          BY <1>1, <3>2, <4>1
      <3> QED
        BY <3>1, <3>2
    <2> QED
      BY <2>1, <2>2 DEF Mixed
  <1>8. ASSUME NEW i \in 1 .. Len(t) PROVE Clean(t, i) => Clean(s, i + r - 1)
    <2> SUFFICES ASSUME Clean(t, i), NEW j \in 1 .. (i + r - 1) - 1, Mixed(s, j) PROVE FALSE
      BY <1>1, <1>5 DEF Clean
    <2>1. j \in Nat /\ j >= r /\ j < i + r - 1
      <3>1. j \in Nat /\ j >= 1 /\ j < i + r - 1 /\ j \notin 1 .. r - 1
        BY <1>1, <1>4 DEF BeginsAt
      <3> QED
        BY <1>4, <3>1
    <2> DEFINE k == j + 1 - r
    <2>2. k \in 1 .. i - 1 /\ k \in DOMAIN t /\ k + r - 1 = j
      BY <1>1, <1>4, <2>1
    <2>3. Mixed(t, k)
      BY <1>7, <2>2
    <2> QED
      BY <2>2, <2>3 DEF Clean
  <1>9. ASSUME NEW i \in 1 .. Len(t), Whole(t, i) PROVE Whole(s, i + r - 1)
    <2>1. Clean(t, i) /\ i \in Heads(t) /\ i + 1 \in 1 .. Len(t) /\ i + 1 \notin Heads(t)
      BY <1>1, <1>9 DEF Whole
    <2>2. (i + 1) + r - 1 = (i + r - 1) + 1
      BY <1>4
    <2>3. i + r - 1 \in Heads(s) /\ (i + r - 1) + 1 \in DOMAIN s \ Heads(s)
      BY <1>1, <1>5, <1>6, <2>1, <2>2
    <2> QED
      BY <1>8, <2>1, <2>3 DEF Whole
  <1>10. t # <<>> => 1 \in Heads(t)
    <2> SUFFICES ASSUME t # <<>> PROVE 1 \in Heads(t)
      OBVIOUS
    <2>1. 1 \in 1 .. Len(t) /\ r <= Len(s)
      BY <1>1, <1>4
    <2>2. 1 + r - 1 = r
      BY <1>4
    <2>3. r \in Heads(s)
      BY <2>1 DEF BeginsAt
    <2> QED
      BY <1>6, <2>1, <2>2, <2>3
  <1>11. ASSUME NEW i \in DOMAIN t \ Heads(t), Clean(t, i)
         PROVE  i - 1 \in Heads(t) /\ t[i - 1].id = t[i].id
    <2> DEFINE k == i + r - 1
    <2>1. k \in DOMAIN s \ Heads(s) /\ Clean(s, k)
      BY <1>1, <1>5, <1>6, <1>8, <1>11
    <2>2. k - 1 \in Heads(s) /\ s[k - 1].id = s[k].id
      BY <2>1 DEF Shape
    <2>3. i # 1
      BY <1>1, <1>10
    <2>4. i - 1 \in 1 .. Len(t) /\ (i - 1) + r - 1 = k - 1
      BY <1>1, <1>4, <2>3
    <2>5. i - 1 \in Heads(t) /\ t[i - 1] = s[k - 1] /\ t[i] = s[k]
      BY <1>1, <1>6, <1>14, <2>2, <2>4
    <2> QED
      BY <2>2, <2>5
  <1>12. ASSUME NEW i \in DOMAIN t, NEW j \in DOMAIN t, Whole(t, i)
         PROVE  /\ j < i => t[j].id < t[i].id
                /\ j > i + 1 => t[i].id < t[j].id
    <2> DEFINE k == i + r - 1
               l == j + r - 1
    <2>0. i \in 1 .. Len(t) /\ j \in 1 .. Len(t)
      BY <1>1
    <2>4. Whole(s, k)
      BY <1>9, <1>12, <2>0
    <2>5. k \in DOMAIN s /\ l \in DOMAIN s
      BY <1>1, <1>5, <2>0
    <2>6. (j < i => l < k) /\ (j > i + 1 => l > k + 1)
      BY <1>1, <1>4, <2>0
    <2>1. /\ Whole(s, k) /\ k \in DOMAIN s /\ l \in DOMAIN s
          /\ j < i => l < k
          /\ j > i + 1 => l > k + 1
      BY <2>4, <2>5, <2>6
    <2>2. /\ l < k => s[l].id < s[k].id
          /\ l > k + 1 => s[k].id < s[l].id
      BY <2>1 DEF Shape
    <2>3. t[i] = s[k] /\ t[j] = s[l]
      BY <1>1, <1>14
    <2> QED
      BY <2>1, <2>2, <2>3
  <1>13. ASSUME t # <<>>, \A i \in DOMAIN t : ~Mixed(t, i) PROVE Len(t) \notin Heads(t)
    <2>1. Len(t) \in 1 .. Len(t) /\ Len(t) + r - 1 = Len(s) /\ s # <<>>
      BY <1>1, <1>4, <1>13
    <2>2. ASSUME NEW p \in DOMAIN s PROVE ~Mixed(s, p)
      <3>1. CASE p < r
        <4>1. p \in 1 .. r - 1
          BY <1>1, <1>4, <3>1
        <4> QED
          BY <4>1 DEF BeginsAt
      <3>2. CASE p >= r
        <4> DEFINE m == Len(t)
                   n == Len(s)
        <4>1. p \in Nat /\ p <= n /\ m = n + 1 - r /\ r \in Nat /\ n \in Nat /\ m \in Nat
          BY <1>1, <1>4
        <4> HIDE DEF m, n
        <4>2. p + 1 - r \in 1 .. m /\ (p + 1 - r) + r - 1 = p
          BY <3>2, <4>1
        <4>3. p + 1 - r \in DOMAIN t /\ (p + 1 - r) + r - 1 = p
          BY <1>1, <4>2 DEF m
        <4> QED
          BY <1>7, <1>13, <4>3
      <3> QED
        BY <1>1, <1>4, <3>1, <3>2
    <2>3. Len(s) \notin Heads(s)
      BY <2>1, <2>2 DEF Shape
    <2> QED
      BY <1>6, <2>1, <2>3
  <1> QED
    BY <1>7, <1>10, <1>11, <1>12, <1>13 DEF Shape

(* t is s with a message, or two mixed ones, behind it.                    *)
Grows(s, t) ==
    /\ Len(t) >= Len(s) + 2
    /\ \A p \in 1 .. Len(s) : t[p] = s[p]
    /\ \A p \in 1 .. Len(s), q \in Len(s) + 1 .. Len(t) : t[p].id < t[q].id
    /\ Len(s) + 1 \in Heads(t)
    /\ \/ Len(s) + 2 \in Heads(t)
       \/ Len(t) = Len(s) + 2 /\ t[Len(s) + 1].id = t[Len(s) + 2].id

(* They keep its shape.                                                    *)
LEMMA GrowFacts ==
    ASSUME NEW s \in Seq(Piece), NEW t \in Seq(Piece), Shape(s), Grows(s, t)
    PROVE  /\ Shape(t)
           /\ (\A p \in DOMAIN s : ~Mixed(s, p)) /\ Len(s) + 2 \notin Heads(t)
                => \A p \in DOMAIN t : ~Mixed(t, p)
  <1> DEFINE n == Len(s)
             twice == n + 2 \in Heads(t)
  <1>1. /\ Len(s) \in Nat /\ DOMAIN s = 1 .. Len(s) /\ Heads(s) \subseteq 1 .. Len(s)
        /\ Len(t) \in Nat /\ DOMAIN t = 1 .. Len(t) /\ Heads(t) \subseteq 1 .. Len(t)
    <2>1. Len(s) \in Nat /\ DOMAIN s = 1 .. Len(s) /\ Heads(s) \subseteq 1 .. Len(s)
      BY PlaceFacts
    <2>2. Len(t) \in Nat /\ DOMAIN t = 1 .. Len(t) /\ Heads(t) \subseteq 1 .. Len(t)
      BY PlaceFacts
    <2> QED
      BY <2>1, <2>2, Zenon
  <1>2. \A i \in 1 .. Len(s) : i \in Heads(s) <=> s[i].part = "head"
    <2>1. 1 .. Len(s) = DOMAIN s
      BY <1>1
    <2> QED
      BY <2>1, Zenon DEF Heads
  <1>3. \A i \in 1 .. Len(t) : i \in Heads(t) <=> t[i].part = "head"
    <2>1. 1 .. Len(t) = DOMAIN t
      BY <1>1
    <2> QED
      BY <2>1, Zenon DEF Heads
  <1>4. n \in Nat /\ Len(t) \in Nat /\ n + 2 <= Len(t)
    <2>1. Len(t) >= n + 2
      BY DEF Grows
    <2>2. n \in Nat /\ Len(t) \in Nat
      BY <1>1
    <2> HIDE DEF n
    <2> QED
      BY <2>1, <2>2
  <1>5. \A i \in 1 .. n : i \in Heads(t) <=> i \in Heads(s)
    <2> SUFFICES ASSUME NEW i \in 1 .. n PROVE i \in Heads(t) <=> i \in Heads(s)
      OBVIOUS
    <2>1. i \in 1 .. Len(s) /\ i \in 1 .. Len(t) /\ t[i] = s[i]
      BY <1>4 DEF Grows
    <2> QED
      BY <1>2, <1>3, <2>1
  <1>6. n + 1 \in Heads(t) /\ \A p \in 1 .. n : t[p] = s[p]
    BY DEF Grows
  <1>7. \A p \in 1 .. n, q \in n + 1 .. Len(t) : t[p].id < t[q].id
    BY DEF Grows
  <1>8. twice \/ (Len(t) = n + 2 /\ t[n + 1].id = t[n + 2].id)
    BY DEF Grows
  <1>9. DOMAIN s = 1 .. n /\ DOMAIN t = 1 .. Len(t) /\ Heads(t) \subseteq 1 .. Len(t)
        /\ Heads(s) \subseteq 1 .. n /\ (s # <<>> => n \in 1 .. n)
        /\ (s # <<>> /\ (\A i \in DOMAIN s : ~Mixed(s, i)) => n \notin Heads(s))
    <2>1. s # <<>> => n \in 1 .. n
      <3>1. s # <<>> <=> Len(s) > 0
        BY PlaceFacts
      <3>2. s # <<>> => n > 0
        BY <3>1
      <3> HIDE DEF n
      <3> QED
        BY <1>4, <3>2, PlaceArithmetic
    <2>2. s # <<>> /\ (\A i \in DOMAIN s : ~Mixed(s, i)) => n \notin Heads(s)
      BY DEF Shape
    <2>3. DOMAIN s = 1 .. n /\ DOMAIN t = 1 .. Len(t) /\ Heads(t) \subseteq 1 .. Len(t)
      BY <1>1
    <2>4. Heads(s) \subseteq 1 .. n
      BY <1>1
    <2> QED
      BY <2>1, <2>2, <2>3, <2>4
  <1> HIDE DEF n
  <1>10. \A p \in 1 .. n : Mixed(s, p) => Mixed(t, p)
    BY <1>4, <1>5, <1>9 DEF Mixed
  <1>11. \A p \in 1 .. n : Mixed(t, p) => Mixed(s, p) \/ p = n
    BY <1>4, <1>5 DEF Mixed
  <1>12. twice => Mixed(t, n + 1)
    <2>1. (n + 1) + 1 = n + 2
      BY <1>4
    <2> QED
      BY <1>6, <2>1 DEF Mixed
  <1>13. ASSUME NEW p \in 1 .. n, Clean(t, p) PROVE Clean(s, p)
    <2>1. \A j \in 1 .. p - 1 : j \in 1 .. n
      BY <1>4
    <2> QED
      BY <1>9, <1>10, <1>13, <2>1 DEF Clean
  <1>14. 1 \in Heads(t)
    <2>1. CASE s = <<>>
      <3>1. n = 0
        BY <2>1 DEF n
      <3> QED
        BY <1>6, <3>1
    <2>2. CASE s # <<>>
      <3>1. 1 \in Heads(s) /\ 1 \in 1 .. n
        BY <1>4, <1>9, <2>2 DEF Shape
      <3> QED
        BY <1>5, <3>1
    <2> QED
      BY <2>1, <2>2
  <1>15. ASSUME NEW p, Clean(t, p), p > n + 2 PROVE ~twice
    <2>2. p \in 1 .. Len(t)
      BY <1>9, <1>15 DEF Clean
    <2>1. p \in 1 .. Len(t) /\ n + 1 \in 1 .. p - 1
      BY <1>4, <1>15, <2>2
    <2> QED
      BY <1>12, <1>15, <2>1 DEF Clean
  <1>16. ASSUME NEW p \in DOMAIN t \ Heads(t), Clean(t, p)
         PROVE  p - 1 \in Heads(t) /\ t[p - 1].id = t[p].id
    <2>0. p \in 1 .. Len(t) /\ p \notin Heads(t)
      BY <1>9
    <2>1. CASE p <= n
      <3>0. p \in 1 .. n
        BY <1>4, <2>0, <2>1
      <3>1. p \in 1 .. n /\ p \in DOMAIN s \ Heads(s) /\ Clean(s, p)
        BY <1>5, <1>9, <1>13, <1>16, <2>0, <3>0
      <3>2. p - 1 \in Heads(s) /\ s[p - 1].id = s[p].id
        BY <3>1 DEF Shape
      <3>3. p - 1 \in 1 .. n
        BY <1>9, <3>2
      <3> QED
        BY <1>5, <1>6, <3>1, <3>2, <3>3
    <2>2. CASE p > n
      <3>1. p \in 1 .. Len(t) /\ p # n + 1
        BY <1>6, <1>9
      <3>2. p = n + 2
        BY <1>4, <1>8, <1>15, <1>16, <2>2, <3>1
      <3>3. p - 1 = n + 1 /\ ~twice
        BY <1>4, <1>16, <3>2
      <3> QED
        BY <1>6, <1>8, <3>2, <3>3
    <2> QED
      BY <1>4, <2>0, <2>1, <2>2
  <1>17. ASSUME NEW i \in DOMAIN t, NEW j \in DOMAIN t, Whole(t, i)
         PROVE  /\ j < i => t[j].id < t[i].id
                /\ j > i + 1 => t[i].id < t[j].id
    <2>1. /\ Clean(t, i) /\ i \in Heads(t) /\ i + 1 \in 1 .. Len(t) /\ i + 1 \notin Heads(t)
          /\ i \in 1 .. Len(t) /\ j \in 1 .. Len(t)
      BY <1>9, <1>17 DEF Whole
    <2>2. i # n
      BY <1>6, <2>1
    <2>3. CASE i < n
      <3>1. i \in 1 .. n /\ i + 1 \in 1 .. n
        BY <1>4, <2>1, <2>3
      <3>2. Whole(s, i)
        BY <1>5, <1>9, <1>13, <2>1, <3>1 DEF Whole
      <3>3. CASE j <= n
        <4>0. j \in 1 .. n
          BY <1>4, <2>1, <3>3
        <4>1. i \in DOMAIN s /\ j \in DOMAIN s /\ j \in 1 .. n
          BY <1>9, <3>1, <4>0
        <4>2. /\ j < i => s[j].id < s[i].id
              /\ j > i + 1 => s[i].id < s[j].id
          BY <3>2, <4>1 DEF Shape
        <4> QED
          BY <1>6, <3>1, <4>1, <4>2
      <3>4. CASE j > n
        <4>1. j \in n + 1 .. Len(t) /\ ~(j < i)
          BY <1>4, <2>1, <2>3, <3>4
        <4> QED
          BY <1>7, <3>1, <4>1
      <3> QED
        BY <1>4, <2>1, <3>3, <3>4
    <2>4. CASE i > n
      <3>1. ~twice
        <4>1. SUFFICES ASSUME twice PROVE FALSE
          OBVIOUS
        <4>2. i # n + 1
          <5>1. (n + 1) + 1 = n + 2
            BY <1>4
          <5> QED
            BY <2>1, <4>1, <5>1
        <4>3. n + 1 \in 1 .. i - 1
          BY <1>4, <2>1, <2>4, <4>2
        <4> QED
          BY <1>12, <2>1, <4>1, <4>3 DEF Clean
      <3>2. i = n + 1 /\ Len(t) = n + 2
        BY <1>4, <1>8, <2>1, <2>4, <3>1
      <3>3. ~(j > i + 1) /\ (j < i => j \in 1 .. n) /\ i \in n + 1 .. Len(t)
        BY <1>4, <2>1, <3>2
      <3> QED
        BY <1>7, <3>3
    <2> QED
      BY <1>4, <2>1, <2>2, <2>3, <2>4
  <1>18. ASSUME \A i \in DOMAIN t : ~Mixed(t, i) PROVE Len(t) \notin Heads(t)
    <2>1. ~twice
      <3>0. n + 1 \in 1 .. Len(t)
        BY <1>4
      <3>1. n + 1 \in DOMAIN t
        BY <1>9, <3>0
      <3> QED
        BY <1>12, <1>18, <3>1
    <2> QED
      BY <1>8, <2>1
  <1>19. ASSUME \A p \in DOMAIN s : ~Mixed(s, p), ~twice, NEW p \in DOMAIN t PROVE ~Mixed(t, p)
    <2>0. p \in 1 .. Len(t)
      BY <1>9
    <2>1. CASE p < n
      <3>1. p \in 1 .. n /\ p # n
        BY <1>4, <2>0, <2>1
      <3>2. p \in DOMAIN s
        BY <1>9, <3>1
      <3> QED
        BY <1>11, <1>19, <3>1, <3>2
    <2>2. CASE p = n
      <3>1. s # <<>> /\ p \in 1 .. n
        <4>1. n >= 1
          BY <2>0, <2>2
        <4>2. s # <<>>
          BY <4>1 DEF n
        <4> QED
          BY <1>4, <2>2, <4>1, <4>2
      <3>2. n \notin Heads(s)
        BY <1>9, <1>19, <3>1
      <3> QED
        BY <1>5, <2>2, <3>1, <3>2 DEF Mixed
    <2>3. CASE p = n + 1
      <3>1. p + 1 = n + 2
        BY <1>4, <2>3
      <3> QED
        BY <1>19, <3>1 DEF Mixed
    <2>4. CASE p > n + 1
      <3>1. Len(t) = n + 2 /\ p \in 1 .. Len(t)
        BY <1>8, <1>9, <1>19
      <3>2. p = n + 2
        BY <1>4, <2>4, <3>1
      <3> QED
        BY <1>19, <3>2 DEF Mixed
    <2> QED
      BY <1>4, <2>0, <2>1, <2>2, <2>3, <2>4
  <1>20. Shape(t)
    BY <1>14, <1>16, <1>17, <1>18 DEF Shape
  <1>21. (\A p \in DOMAIN s : ~Mixed(s, p)) /\ ~twice => \A p \in DOMAIN t : ~Mixed(t, p)
    BY <1>19
  <1> QED
    BY <1>20, <1>21 DEF n

-----------------------------------------------------------------------------
(* One sequence of pieces behind another.                                  *)
LEMMA ConcatFacts ==
    ASSUME NEW p \in Seq(Piece), NEW q \in Seq(Piece)
    PROVE  /\ p \o q \in Seq(Piece) /\ Len(p \o q) = Len(p) + Len(q)
           /\ \A i \in 1 .. Len(p) : (p \o q)[i] = p[i]
           /\ \A i \in Len(p) + 1 .. Len(p) + Len(q) : (p \o q)[i] = q[i - Len(p)]
           /\ Ids(p \o q) = Ids(p) \cup Ids(q)
  <1> DEFINE c == p \o q
             m == Len(p)
             n == Len(q)
  <1>1. c \in Seq(Piece) /\ Len(c) = m + n /\ m \in Nat /\ n \in Nat
    BY ConcatProperties
  <1>2. \A i \in 1 .. m + n : c[i] = IF i <= m THEN p[i] ELSE q[i - m]
    BY ConcatProperties
  <1>3. DOMAIN c = 1 .. m + n /\ DOMAIN p = 1 .. m /\ DOMAIN q = 1 .. n
    BY <1>1
  <1> HIDE DEF c, m, n
  <1>4. \A i \in 1 .. m : c[i] = p[i]
    <2> SUFFICES ASSUME NEW i \in 1 .. m PROVE c[i] = p[i]
      OBVIOUS
    <2>1. i \in 1 .. m + n /\ i <= m
      BY <1>1
    <2> QED
      BY <1>2, <2>1
  <1>5. \A i \in m + 1 .. m + n : c[i] = q[i - m]
    <2> SUFFICES ASSUME NEW i \in m + 1 .. m + n PROVE c[i] = q[i - m]
      OBVIOUS
    <2>1. i \in 1 .. m + n /\ ~(i <= m)
      BY <1>1
    <2> QED
      BY <1>2, <2>1
  <1>6. ASSUME NEW x \in Ids(c) PROVE x \in Ids(p) \cup Ids(q)
    <2>1. PICK i \in 1 .. m + n : x = c[i].id
      BY <1>3 DEF Ids
    <2>2. CASE i <= m
      <3>1. i \in 1 .. m
        BY <1>1, <2>2
      <3> QED
        BY <1>3, <1>4, <2>1, <3>1 DEF Ids
    <2>3. CASE i > m
      <3>1. i \in m + 1 .. m + n /\ i - m \in 1 .. n
        BY <1>1, <2>3
      <3> QED
        BY <1>3, <1>5, <2>1, <3>1 DEF Ids
    <2> QED
      BY <1>1, <2>2, <2>3
  <1>7. ASSUME NEW x \in Ids(p) PROVE x \in Ids(c)
    <2>1. PICK i \in 1 .. m : x = p[i].id
      BY <1>3 DEF Ids
    <2>2. i \in 1 .. m + n
      BY <1>1
    <2> QED
      BY <1>3, <1>4, <2>1, <2>2 DEF Ids
  <1>8. ASSUME NEW x \in Ids(q) PROVE x \in Ids(c)
    <2>1. PICK i \in 1 .. n : x = q[i].id
      BY <1>3 DEF Ids
    <2>2. m + i \in m + 1 .. m + n /\ m + i \in 1 .. m + n /\ (m + i) - m = i
      BY <1>1
    <2> QED
      BY <1>3, <1>5, <2>1, <2>2 DEF Ids
  <1>9. Ids(c) = Ids(p) \cup Ids(q)
    BY <1>6, <1>7, <1>8
  <1> QED
    BY <1>1, <1>4, <1>5, <1>9 DEF c, m, n

(* The first pieces of a sequence, and what is behind them.                *)
LEMMA SplitFacts ==
    ASSUME NEW q \in Seq(Piece), NEW k \in 0 .. Len(q)
    PROVE  /\ SubSeq(q, 1, k) \in Seq(Piece) /\ Len(SubSeq(q, 1, k)) = k
           /\ \A i \in 1 .. k : SubSeq(q, 1, k)[i] = q[i]
           /\ SubSeq(q, k + 1, Len(q)) \in Seq(Piece)
           /\ Len(SubSeq(q, k + 1, Len(q))) = Len(q) - k
           /\ \A i \in 1 .. Len(q) - k : SubSeq(q, k + 1, Len(q))[i] = q[i + k]
  <1>1. Len(q) \in Nat /\ k \in Nat /\ k <= Len(q)
    OBVIOUS
  <1>2. \A i \in 1 .. Len(q) : q[i] \in Piece
    OBVIOUS
  <1>3. \A i \in 1 .. k : q[i] \in Piece
    BY <1>1, <1>2
  <1>4. \A i \in k + 1 .. Len(q) : q[i] \in Piece
    BY <1>1, <1>2
  <1> DEFINE a == SubSeq(q, 1, k)
             z == SubSeq(q, k + 1, Len(q))
  <1>5. /\ a \in Seq(Piece) /\ Len(a) = IF 1 <= k THEN k - 1 + 1 ELSE 0
        /\ \A i \in 1 .. k - 1 + 1 : a[i] = q[1 + i - 1]
    BY <1>1, <1>3, SubSeqProperties
  <1>6. /\ z \in Seq(Piece)
        /\ Len(z) = IF k + 1 <= Len(q) THEN Len(q) - (k + 1) + 1 ELSE 0
        /\ \A i \in 1 .. Len(q) - (k + 1) + 1 : z[i] = q[(k + 1) + i - 1]
    BY <1>1, <1>4, SubSeqProperties
  <1> HIDE DEF a, z
  <1>7. Len(a) = k /\ Len(z) = Len(q) - k
    BY <1>1, <1>5, <1>6
  <1>8. \A i \in 1 .. k : a[i] = q[i]
    BY <1>1, <1>5
  <1>9. ASSUME NEW i \in 1 .. Len(q) - k PROVE z[i] = q[i + k]
    <2>1. i \in 1 .. Len(q) - (k + 1) + 1 /\ (k + 1) + i - 1 = i + k
      BY <1>1
    <2> QED
      BY <1>6, <2>1
  <1> QED
    BY <1>5, <1>6, <1>7, <1>8, <1>9 DEF a, z

(* t is what is left of the stream s when process_buffer has run on b.     *)
Leaves(s, b, t) ==
    /\ t \in Seq(Piece) /\ Len(t) = Len(s) + 1 - From(b)
    /\ \A i \in 1 .. Len(t) : t[i] = s[i + From(b) - 1]

(* What is kept is the end of the buffer.                                  *)
LEMMA KeptFacts ==
    ASSUME NEW s, NEW b, Begins(b, s), Shape(s)
    PROVE  /\ Kept(b) \in Seq(Piece) /\ Len(Kept(b)) = Len(b) + 1 - From(b)
           /\ \A i \in 1 .. Len(Kept(b)) : Kept(b)[i] = b[i + From(b) - 1]
  <1>1. b \in Seq(Piece) /\ Len(b) \in Nat
    BY DEF Begins
  <1>2. From(b) \in 1 .. Len(b) + 1
    BY FromFacts
  <1>3. CASE Retained(b) = {}
    <2>1. Kept(b) = <<>> /\ From(b) = Len(b) + 1
      BY <1>3 DEF Kept, From
    <2>2. <<>> \in Seq(Piece) /\ Len(<<>>) = 0
      OBVIOUS
    <2> QED
      BY <1>1, <2>1, <2>2
  <1>4. CASE Retained(b) # {}
    <2>1. Kept(b) = SubSeq(b, From(b), Len(b))
      BY <1>4 DEF Kept, From
    <2> DEFINE k == From(b) - 1
               z == SubSeq(b, k + 1, Len(b))
    <2>2. k \in 0 .. Len(b) /\ k + 1 = From(b)
      BY <1>1, <1>2
    <2>3. z \in Seq(Piece) /\ Len(z) = Len(b) - k
      BY <1>1, <2>2, SplitFacts
    <2>4. \A i \in 1 .. Len(b) - k : z[i] = b[i + k]
      BY <1>1, <2>2, SplitFacts
    <2>5. z = Kept(b)
      BY <2>1, <2>2
    <2> HIDE DEF z
    <2>6. Kept(b) \in Seq(Piece) /\ Len(Kept(b)) = Len(b) + 1 - From(b)
      BY <1>1, <1>2, <2>3, <2>5
    <2>7. ASSUME NEW i \in 1 .. Len(Kept(b)) PROVE Kept(b)[i] = b[i + From(b) - 1]
      <3>1. i \in 1 .. Len(b) - k /\ i + k = i + From(b) - 1
        BY <1>1, <1>2, <2>3, <2>5
      <3> QED
        BY <2>4, <2>5, <3>1
    <2> QED
      BY <2>6, <2>7
  <1> QED
    BY <1>3, <1>4

(* The messages handled from a buffer are those at their places, in the    *)
(* order sent.                                                             *)
LEMMA InOrderFacts ==
    ASSUME NEW s, NEW b, Begins(b, s), Shape(s), NEW P \in SUBSET Reached(b)
    PROVE  /\ InOrder(b, P) \in Seq(1 .. MaxSent)
           /\ ToSet(InOrder(b, P)) = IdsAt(b, P)
           /\ \A m, n \in DOMAIN InOrder(b, P) :
                m < n => InOrder(b, P)[m] < InOrder(b, P)[n]
  <1> DEFINE h == InOrder(b, P)
             N == Cardinality(P)
  <1>1. b \in Seq(Piece) /\ Len(b) \in Nat /\ Len(b) \in 1 .. Len(s) /\ s \in Seq(Piece)
        /\ \A i \in 1 .. Len(b) : b[i] = s[i]
    BY DEF Begins
  <1>2. P \subseteq 1 .. Len(b) /\ P \in SUBSET Nat
    <2>1. Heads(b) \subseteq 1 .. Len(b)
      BY <1>1, PlaceFacts
    <2> QED
      BY <2>1 DEF Reached
  <1>3. IsFiniteSet(P)
    <2>1. IsFiniteSet(1 .. Len(b))
      BY <1>1, FS_Interval
    <2> QED
      BY <1>2, <2>1, FS_Subset
  <1>4. N \in Nat
    BY <1>2, <1>3, NthFacts
  <1>5. \A n \in 1 .. N : Nth(P, n) \in P
    BY <1>2, <1>3, NthFacts
  <1>6. \A m, n \in 1 .. N : m < n => Nth(P, m) < Nth(P, n)
    BY <1>2, <1>3, NthFacts
  <1>7. \A i \in P : \E n \in 1 .. N : Nth(P, n) = i
    BY <1>2, <1>3, NthFacts
  <1>8. h = [n \in 1 .. N |-> b[Nth(P, n)].id]
    BY DEF InOrder
  <1> HIDE DEF h, N
  <1>9. \A i \in 1 .. Len(b) : b[i].id \in 1 .. MaxSent
    BY <1>1, PlaceFacts
  <1>10. h \in Seq(1 .. MaxSent) /\ DOMAIN h = 1 .. N
    <2>1. \A n \in 1 .. N : b[Nth(P, n)].id \in 1 .. MaxSent
      BY <1>2, <1>5, <1>9
    <2> QED
      BY <1>4, <1>8, <2>1
  <1>11. ToSet(h) = IdsAt(b, P)
    <2>1. ASSUME NEW x \in ToSet(h) PROVE x \in IdsAt(b, P)
      <3>1. PICK n \in 1 .. N : x = h[n]
        BY <1>10 DEF ToSet
      <3> QED
        BY <1>5, <1>8, <3>1 DEF IdsAt
    <2>2. ASSUME NEW x \in IdsAt(b, P) PROVE x \in ToSet(h)
      <3>1. PICK i \in P : x = b[i].id
        BY DEF IdsAt
      <3>2. PICK n \in 1 .. N : Nth(P, n) = i
        BY <1>7
      <3> QED
        BY <1>8, <1>10, <3>1, <3>2 DEF ToSet
    <2> QED
      BY <2>1, <2>2
  <1>12. ASSUME NEW m \in 1 .. N, NEW n \in 1 .. N, m < n PROVE h[m] < h[n]
    <2> DEFINE i == Nth(P, m)
               j == Nth(P, n)
    <2>1. i \in P /\ j \in P /\ i < j /\ h[m] = b[i].id /\ h[n] = b[j].id
      BY <1>5, <1>6, <1>8, <1>12
    <2> HIDE DEF i, j
    <2>2. Whole(s, j)
      BY <2>1, ReachedFacts
    <2>3. i \in DOMAIN s /\ j \in DOMAIN s /\ b[i] = s[i] /\ b[j] = s[j]
      <3>1. i \in 1 .. Len(b) /\ j \in 1 .. Len(b)
        BY <1>2, <2>1
      <3>2. i \in 1 .. Len(s) /\ j \in 1 .. Len(s)
        BY <1>1, <3>1
      <3>3. DOMAIN s = 1 .. Len(s)
        BY <1>1
      <3> QED
        BY <1>1, <3>1, <3>2, <3>3
    <2>4. s[i].id < s[j].id
      BY <2>1, <2>2, <2>3 DEF Shape
    <2> QED
      BY <2>1, <2>3, <2>4
  <1> QED
    BY <1>10, <1>11, <1>12 DEF h

(* Every message of the stream is handled, skipped or left, and only one   *)
(* of these.                                                               *)
LEMMA LeavesFacts ==
    ASSUME NEW s, NEW b, NEW t, Begins(b, s), Shape(s), Leaves(s, b, t)
    PROVE  LET H == Reached(b) \ Repeats(b)
               K == Repeats(b) \ Retained(b)
           IN  /\ Ids(s) = IdsAt(b, H) \cup IdsAt(b, K) \cup Ids(t)
               /\ IdsAt(b, H) \cap IdsAt(b, K) = {}
               /\ (IdsAt(b, H) \cup IdsAt(b, K)) \cap Ids(t) = {}
               /\ \A x \in IdsAt(b, H), y \in Ids(t) : x < y
  <1> DEFINE H == Reached(b) \ Repeats(b)
             K == Repeats(b) \ Retained(b)
             r == From(b)
  <1>1. b \in Seq(Piece) /\ Len(b) \in Nat /\ Len(b) <= Len(s) /\ s \in Seq(Piece)
        /\ Len(s) \in Nat /\ \A i \in 1 .. Len(b) : b[i] = s[i]
    BY DEF Begins
  <1>2. /\ Len(t) \in Nat /\ Len(t) = Len(s) + 1 - r /\ t \in Seq(Piece)
        /\ \A i \in 1 .. Len(t) : t[i] = s[i + r - 1]
    BY DEF Leaves
  <1>3. r \in 1 .. Len(b) + 1
    BY FromFacts
  <1>4. \A i \in Heads(b) : i < r <=> i \in Reached(b) \ Retained(b)
    BY FromFacts
  <1>5. \A p \in 1 .. r - 1 :
            \/ p \in Reached(b)
            \/ p - 1 \in Reached(b) /\ p - 1 < r /\ s[p - 1].id = s[p].id
    BY CutFacts
  <1>6. \A i \in Reached(b), p \in r .. Len(s) : i < r => s[i].id < s[p].id
    BY CutFacts
  <1> HIDE DEF r
  <1>7. /\ Reached(b) \subseteq Heads(b) /\ Repeats(b) \subseteq Reached(b)
        /\ Heads(b) \subseteq 1 .. Len(b)
    <2>1. Heads(b) \subseteq 1 .. Len(b)
      BY <1>1, PlaceFacts
    <2> QED
      BY <2>1 DEF Reached, Repeats
  <1>8. H \cap Retained(b) = {}
    BY DEF Retained, LastOf
  <1>9. \A i : i \in H \cup K <=> i \in Reached(b) /\ i < r
    BY <1>4, <1>7, <1>8
  <1>10. DOMAIN s = 1 .. Len(s) /\ DOMAIN t = 1 .. Len(t)
    BY <1>1, <1>2
  <1>11. ASSUME NEW x \in Ids(s) PROVE x \in IdsAt(b, H) \cup IdsAt(b, K) \cup Ids(t)
    <2>1. PICK p \in 1 .. Len(s) : x = s[p].id
      BY <1>10 DEF Ids
    <2>2. CASE p < r
      <3>1. p \in 1 .. r - 1
        BY <1>1, <1>3, <2>2
      <3>2. PICK i \in Reached(b) : i < r /\ s[i].id = x
        BY <1>5, <2>1, <2>2, <3>1
      <3>3. i \in H \cup K /\ b[i].id = x
        BY <1>1, <1>7, <1>9, <3>2
      <3> QED
        BY <3>3 DEF IdsAt
    <2>3. CASE p >= r
      <3>1. p + 1 - r \in 1 .. Len(t) /\ (p + 1 - r) + r - 1 = p
        BY <1>1, <1>2, <1>3, <2>1, <2>3, PlaceArithmetic
      <3>2. t[p + 1 - r] = s[p]
        BY <1>2, <3>1
      <3> QED
        BY <1>10, <2>1, <3>1, <3>2 DEF Ids
    <2> QED
      BY <1>1, <1>3, <2>1, <2>2, <2>3
  <1>12. ASSUME NEW x \in IdsAt(b, H) \cup IdsAt(b, K)
         PROVE  x \in Ids(s) /\ \E i \in H \cup K : x = s[i].id
    <2>1. PICK i \in H \cup K : x = b[i].id
      BY DEF IdsAt
    <2>2. i \in 1 .. Len(b) /\ b[i] = s[i]
      BY <1>1, <1>7, <2>1
    <2>3. i \in 1 .. Len(s)
      BY <1>1, <2>2
    <2> QED
      BY <1>10, <2>1, <2>2, <2>3 DEF Ids
  <1>13. ASSUME NEW y \in Ids(t) PROVE y \in Ids(s) /\ \E p \in r .. Len(s) : y = s[p].id
    <2>1. PICK i \in 1 .. Len(t) : y = t[i].id
      BY <1>10 DEF Ids
    <2>2. i + r - 1 \in 1 .. Len(s) /\ i + r - 1 \in r .. Len(s)
      BY <1>1, <1>2, <1>3, <2>1
    <2>3. y = s[i + r - 1].id
      BY <1>2, <2>1
    <2> QED
      BY <1>10, <2>2, <2>3 DEF Ids
  <1>14. \A x \in IdsAt(b, H) \cup IdsAt(b, K), y \in Ids(t) : x < y
    <2> SUFFICES ASSUME NEW x \in IdsAt(b, H) \cup IdsAt(b, K), NEW y \in Ids(t) PROVE x < y
      OBVIOUS
    <2>1. PICK i \in H \cup K : x = s[i].id
      BY <1>12
    <2>2. PICK p \in r .. Len(s) : y = s[p].id
      BY <1>13
    <2> QED
      BY <1>6, <1>9, <2>1, <2>2
  <1>15. \A x \in IdsAt(b, H) \cup IdsAt(b, K) : x \in Nat
    <2> SUFFICES ASSUME NEW x \in IdsAt(b, H) \cup IdsAt(b, K) PROVE x \in Nat
      OBVIOUS
    <2>1. PICK p \in 1 .. Len(s) : x = s[p].id
      BY <1>10, <1>12 DEF Ids
    <2>2. s[p].id \in 1 .. MaxSent
      BY <1>1, PlaceFacts
    <2> QED
      BY <2>1, <2>2
  <1>16. (IdsAt(b, H) \cup IdsAt(b, K)) \cap Ids(t) = {}
    BY <1>14, <1>15
  <1>17. ASSUME NEW x \in IdsAt(b, H), x \in IdsAt(b, K) PROVE FALSE
    <2>1. PICK i \in H : x = b[i].id
      BY DEF IdsAt
    <2>2. PICK j \in K : x = b[j].id
      BY <1>17 DEF IdsAt
    <2>3. /\ i \in Reached(b) /\ j \in Reached(b) /\ i # j
          /\ i \in 1 .. Len(b) /\ j \in 1 .. Len(b)
      BY <1>7
    <2>4. Whole(s, i) /\ Whole(s, j)
      BY <2>3, ReachedFacts
    <2>5. b[i] = s[i] /\ b[j] = s[j] /\ i \in DOMAIN s /\ j \in DOMAIN s
      BY <1>1, <1>10, <2>3
    <2>6. (j < i => s[j].id < s[i].id) /\ (i < j => s[i].id < s[j].id)
      BY <2>4, <2>5 DEF Shape
    <2>7. s[i].id \in Nat /\ s[i].id = s[j].id
      BY <1>15, <2>1, <2>2, <2>5 DEF IdsAt
    <2>8. i < j \/ j < i
      BY <2>3
    <2> QED
      BY <2>6, <2>7, <2>8
  <1>18. Ids(s) = IdsAt(b, H) \cup IdsAt(b, K) \cup Ids(t)
    BY <1>11, <1>12, <1>13
  <1>19. IdsAt(b, H) \cap IdsAt(b, K) = {}
    BY <1>17
  <1>20. \A x \in IdsAt(b, H), y \in Ids(t) : x < y
    BY <1>14
  <1> QED
    BY <1>16, <1>18, <1>19, <1>20

(* A repeat has an earlier message with the same key that is handled from  *)
(* the same buffer.                                                        *)
LEMMA RepeatFacts ==
    ASSUME NEW s, NEW b, Begins(b, s), Shape(s), NEW i \in Repeats(b)
    PROVE  \E j \in Reached(b) \ Repeats(b) :
              b[j].id < b[i].id /\ SameKey(sent[b[j].id], sent[b[i].id])
  <1> DEFINE key(j) == SameKey(sent[b[j].id], sent[b[i].id])
             Q == {j \in Reached(b) : key(j)}
  <1>1. b \in Seq(Piece) /\ Len(b) \in Nat /\ Len(b) <= Len(s) /\ s \in Seq(Piece)
        /\ Len(s) \in Nat /\ \A p \in 1 .. Len(b) : b[p] = s[p]
    BY DEF Begins
  <1>2. Reached(b) \subseteq Heads(b) /\ Heads(b) \subseteq 1 .. Len(b)
    <2>1. Heads(b) \subseteq 1 .. Len(b)
      BY <1>1, PlaceFacts
    <2> QED
      BY <2>1 DEF Reached
  <1>3. i \in Reached(b) /\ \E j \in Q : j < i
    BY DEF Repeats
  <1>4. Q \in SUBSET Nat /\ Q # {}
    BY <1>2, <1>3
  <1> DEFINE m == Min(Q)
  <1>5. m \in Q /\ \A j \in Q : m <= j
    BY <1>4, MinFacts
  <1> HIDE DEF m
  <1>6. m \in Reached(b) /\ key(m) /\ m < i /\ m \in Nat
    <2>1. m \in Reached(b) /\ key(m)
      BY <1>5
    <2>2. PICK j \in Q : j < i
      BY <1>3
    <2>3. m <= j
      BY <1>5, <2>2
    <2>4. m \in Nat /\ j \in Nat /\ i \in Nat
      BY <1>2, <1>3, <2>1, <2>2
    <2> QED
      BY <2>1, <2>2, <2>3, <2>4
  <1>7. m \notin Repeats(b)
    <2> SUFFICES ASSUME m \in Repeats(b) PROVE FALSE
      OBVIOUS
    <2>1. PICK j \in Reached(b) : j < m /\ SameKey(sent[b[j].id], sent[b[m].id])
      BY DEF Repeats
    <2>2. key(j)
      BY <1>6, <2>1 DEF SameKey
    <2>3. j \in Q /\ j \in Nat
      BY <1>2, <2>1, <2>2
    <2>4. m <= j
      BY <1>5, <2>3
    <2>5. j < m
      BY <2>1
    <2> QED
      BY <1>6, <2>3, <2>4, <2>5
  <1>8. Whole(s, i)
    BY <1>3, ReachedFacts
  <1>9. /\ i \in DOMAIN s /\ m \in DOMAIN s /\ b[i] = s[i] /\ b[m] = s[m]
    <2>1. i \in 1 .. Len(b) /\ m \in 1 .. Len(b)
      BY <1>2, <1>3, <1>6
    <2>2. i \in 1 .. Len(s) /\ m \in 1 .. Len(s) /\ DOMAIN s = 1 .. Len(s)
      BY <1>1, <2>1
    <2> QED
      BY <1>1, <2>1, <2>2
  <1>10. s[m].id < s[i].id
    BY <1>6, <1>8, <1>9 DEF Shape
  <1> QED
    BY <1>6, <1>7, <1>9, <1>10

-----------------------------------------------------------------------------
(* What has a fate was sent.                                               *)
LEMMA FatesWereSent ==
    ASSUME TypeOK, Parted
    PROVE  /\ Len(sent) \in Nat /\ DOMAIN sent = 1 .. Len(sent) /\ Len(sent) <= MaxSent
           /\ MaxSent \in Nat /\ Stream \in Seq(Piece)
           /\ \A i \in DOMAIN handled : handled[i] \in DOMAIN sent
           /\ skipped \subseteq DOMAIN sent /\ lost \subseteq DOMAIN sent
           /\ \A i \in DOMAIN Stream : Stream[i].id \in DOMAIN sent
           /\ Ids(Stream) \subseteq DOMAIN sent
  <1>1. Len(sent) \in Nat /\ DOMAIN sent = 1 .. Len(sent) /\ Len(sent) <= MaxSent
    BY DEF TypeOK
  <1>2. MaxSent \in Nat
    BY FramingAssumption DEF FramingAssumption
  <1>3. Stream \in Seq(Piece)
    BY ConcatFacts DEF TypeOK, Stream
  <1>4. \A i \in DOMAIN handled : handled[i] \in DOMAIN sent
    BY DEF Parted, ToSet
  <1>5. \A i \in DOMAIN Stream : Stream[i].id \in DOMAIN sent
    BY DEF Parted, Ids
  <1>6. skipped \subseteq DOMAIN sent /\ lost \subseteq DOMAIN sent /\ Ids(Stream) \subseteq DOMAIN sent
    BY DEF Parted
  <1> QED
    BY <1>1, <1>2, <1>3, <1>4, <1>5, <1>6

(* Sending gives new messages the fate of being on their way, and leaves   *)
(* the others theirs.                                                      *)
LEMMA SendKeepsFates ==
    ASSUME IInv, sent' \in Seq(Message), Len(sent') >= Len(sent),
           \A i \in DOMAIN sent : sent'[i] = sent[i],
           Ids(Stream') = Ids(Stream) \cup (Len(sent) + 1 .. Len(sent')),
           UNCHANGED <<handled, skipped, lost>>
    PROVE  Parted' /\ HandledInOrder' /\ HandledFirst' /\ SkippedHaveTwins'
  <1>1. TypeOK /\ Parted /\ HandledInOrder /\ HandledFirst /\ SkippedHaveTwins
    BY DEF IInv
  <1>2. Len(sent) \in Nat /\ DOMAIN sent = 1 .. Len(sent)
    BY <1>1, FatesWereSent
  <1>3. \A i \in DOMAIN handled : handled[i] \in DOMAIN sent
    BY <1>1, FatesWereSent
  <1>4. skipped \subseteq DOMAIN sent /\ lost \subseteq DOMAIN sent
    BY <1>1, FatesWereSent
  <1>5. ToSet(handled) \subseteq DOMAIN sent
    BY <1>3 DEF ToSet
  <1>6. Len(sent') \in Nat /\ DOMAIN sent' = 1 .. Len(sent')
    OBVIOUS
  <1> DEFINE new == Len(sent) + 1 .. Len(sent')
  <1>7. DOMAIN sent' = DOMAIN sent \cup new /\ DOMAIN sent \cap new = {}
    BY <1>2, <1>6
  <1>8. Ids(Stream') = Ids(Stream) \cup new
    OBVIOUS
  <1> HIDE DEF new
  <1>9. Parted'
    <2>1. DOMAIN sent' = ToSet(handled) \cup skipped \cup lost \cup Ids(Stream')
      BY <1>1, <1>7, <1>8 DEF Parted
    <2>2. Ids(Stream') \cap (ToSet(handled) \cup skipped \cup lost) = {}
      BY <1>1, <1>4, <1>5, <1>7, <1>8 DEF Parted
    <2>3. ToSet(handled) \cap (skipped \cup lost) = {} /\ skipped \cap lost = {}
      BY <1>1 DEF Parted
    <2> QED
      BY <2>1, <2>2, <2>3 DEF Parted
  <1>10. HandledInOrder'
    BY <1>1 DEF HandledInOrder
  <1>11. HandledFirst'
    <2> SUFFICES ASSUME NEW i \in DOMAIN handled, NEW j \in DOMAIN Stream'
                 PROVE  handled[i] < Stream'[j].id
      BY DEF HandledFirst
    <2> DEFINE x == Stream'[j].id
    <2>1. x \in Ids(Stream')
      BY DEF Ids
    <2> HIDE DEF x
    <2>2. CASE x \in Ids(Stream)
      <3>1. PICK k \in DOMAIN Stream : x = Stream[k].id
        BY <2>2 DEF Ids
      <3> QED
        BY <1>1, <3>1 DEF HandledFirst, x
    <2>3. CASE x \in new
      <3>1. handled[i] \in 1 .. Len(sent)
        BY <1>2, <1>3
      <3>2. handled[i] < x
        BY <1>2, <1>6, <2>3, <3>1 DEF new
      <3> QED
        BY <3>2 DEF x
    <2> QED
      BY <1>8, <2>1, <2>2, <2>3
  <1>12. SkippedHaveTwins'
    <2> SUFFICES ASSUME NEW i \in skipped PROVE HasTwin(i)'
      BY DEF SkippedHaveTwins
    <2>1. PICK j \in ToSet(handled) : j < i /\ SameKey(sent[j], sent[i])
      BY <1>1 DEF SkippedHaveTwins, HasTwin
    <2>2. sent'[j] = sent[j] /\ sent'[i] = sent[i]
      BY <1>4, <1>5, <2>1
    <2> QED
      BY <2>1, <2>2 DEF HasTwin
  <1> QED
    BY <1>9, <1>10, <1>11, <1>12

(* What is sent comes behind what is on its way.                           *)
LEMMA StreamGrows ==
    ASSUME TypeOK, NEW x \in Seq(Piece), wire' = wire \o x, buffer' = buffer
    PROVE  /\ wire' \in Seq(Piece) /\ Stream' \in Seq(Piece)
           /\ Len(Stream') = Len(Stream) + Len(x)
           /\ \A p \in 1 .. Len(Stream) : Stream'[p] = Stream[p]
           /\ \A p \in Len(Stream) + 1 .. Len(Stream) + Len(x) : Stream'[p] = x[p - Len(Stream)]
           /\ Ids(Stream') = Ids(Stream) \cup Ids(x)
  <1>1. wire \in Seq(Piece) /\ buffer \in Seq(Piece)
    BY DEF TypeOK
  <1>2. Stream \in Seq(Piece) /\ wire' \in Seq(Piece)
    BY <1>1, ConcatFacts DEF Stream
  <1>3. (buffer \o wire) \o x = buffer \o (wire \o x)
    BY <1>1, ConcatAssociative
  <1>4. Stream' = Stream \o x
    BY <1>3 DEF Stream
  <1> DEFINE s == Stream
             t == s \o x
  <1> HIDE DEF s
  <1>5. s \in Seq(Piece)
    BY <1>2 DEF s
  <1>6. t \in Seq(Piece) /\ Len(t) = Len(s) + Len(x)
    BY <1>5, ConcatFacts
  <1>7. \A p \in 1 .. Len(s) : t[p] = s[p]
    BY <1>5, ConcatFacts
  <1>8. \A p \in Len(s) + 1 .. Len(s) + Len(x) : t[p] = x[p - Len(s)]
    BY <1>5, ConcatFacts
  <1>9. Ids(t) = Ids(s) \cup Ids(x)
    BY <1>5, ConcatFacts
  <1>10. Stream' = t /\ Stream = s
    BY <1>4 DEF s
  <1> HIDE DEF t
  <1> QED
    BY <1>2, <1>6, <1>7, <1>8, <1>9, <1>10

(* Each step keeps the inductive invariant.                                *)
LEMMA SendStep ==
    ASSUME IInv, NEW m \in Message, Send(m)
    PROVE  IInv'
  <1> DEFINE i == Len(sent) + 1
             n == Len(Stream)
             ht == <<Head_(i), Tail_(i)>>
  <1>1. TypeOK /\ Parted /\ Shape(Stream) /\ Tidy
    BY DEF IInv
  <1>2. /\ Len(sent) \in Nat /\ DOMAIN sent = 1 .. Len(sent) /\ MaxSent \in Nat
        /\ Stream \in Seq(Piece)
    BY <1>1, FatesWereSent
  <1>3. \A j \in DOMAIN Stream : Stream[j].id \in DOMAIN sent
    BY <1>1, FatesWereSent
  <1>4. /\ i \in 1 .. MaxSent /\ sent' = Append(sent, m) /\ wire' = wire \o ht
        /\ UNCHANGED <<buffer, handled, skipped, lost, torn>>
    BY <1>2 DEF Send
  <1> HIDE DEF i
  <1>5. ht \in Seq(Piece) /\ Len(ht) = 2 /\ ht[1] = Head_(i) /\ ht[2] = Tail_(i) /\ Ids(ht) = {i}
    <2>1. Head_(i) \in Piece /\ Tail_(i) \in Piece
      BY <1>4 DEF Head_, Tail_, Piece
    <2>2. ht \in Seq(Piece) /\ Len(ht) = 2 /\ ht[1] = Head_(i) /\ ht[2] = Tail_(i) /\ DOMAIN ht = {1, 2}
      BY <2>1
    <2>3. Ids(ht) = {i}
      BY <2>2 DEF Ids, Head_, Tail_
    <2> QED
      BY <2>2, <2>3
  <1> HIDE DEF ht
  <1>6. wire \in Seq(Piece) /\ buffer \in Seq(Piece)
    BY <1>1 DEF TypeOK
  <1>7. wire' \in Seq(Piece) /\ Stream' \in Seq(Piece) /\ Len(Stream') = n + Len(ht)
    BY <1>1, <1>4, <1>5, StreamGrows
  <1>8. /\ Stream' \in Seq(Piece) /\ Len(Stream') = n + 2
        /\ Ids(Stream') = Ids(Stream) \cup {i}
        /\ n \in Nat
    <2>1. Ids(Stream') = Ids(Stream) \cup Ids(ht)
      BY <1>1, <1>4, <1>5, StreamGrows
    <2>2. n \in Nat
      BY <1>2
    <2> QED
      BY <1>5, <1>7, <2>1, <2>2
  <1>9. \A p \in 1 .. n : Stream'[p] = Stream[p]
    BY <1>1, <1>4, <1>5, StreamGrows
  <1>10. Stream'[n + 1] = Head_(i) /\ Stream'[n + 2] = Tail_(i)
    <2>3. \A p \in n + 1 .. n + Len(ht) : Stream'[p] = ht[p - n]
      BY <1>1, <1>4, <1>5, StreamGrows
    <2>1. \A p \in n + 1 .. n + 2 : Stream'[p] = ht[p - n]
      BY <1>5, <2>3
    <2>2. n + 1 \in n + 1 .. n + 2 /\ n + 2 \in n + 1 .. n + 2
          /\ (n + 1) - n = 1 /\ (n + 2) - n = 2
      BY <1>8
    <2> QED
      BY <1>5, <2>1, <2>2
  <1>11. DOMAIN Stream = 1 .. n /\ DOMAIN Stream' = 1 .. n + 2
    BY <1>2, <1>8
  <1> HIDE DEF n
  <1>12. n + 1 \in Heads(Stream') /\ n + 2 \notin Heads(Stream')
    BY <1>8, <1>10, <1>11 DEF Heads, Head_, Tail_
  <1>13. ASSUME NEW p \in 1 .. n, NEW q \in n + 1 .. n + 2
         PROVE  Stream'[p].id < Stream'[q].id
    <2>1. Stream'[q].id = i
      <3>1. q = n + 1 \/ q = n + 2
        BY <1>8
      <3> QED
        BY <1>10, <3>1 DEF Head_, Tail_
    <2>2. Stream'[p].id \in 1 .. Len(sent)
      BY <1>2, <1>3, <1>9, <1>11
    <2> QED
      BY <1>2, <2>1, <2>2 DEF i
  <1>14. /\ Shape(Stream')
         /\ (\A p \in DOMAIN Stream : ~Mixed(Stream, p)) => \A p \in DOMAIN Stream' : ~Mixed(Stream', p)
    <2>1. Stream'[n + 1].id = Stream'[n + 2].id
      BY <1>10 DEF Head_, Tail_
    <2>2. Len(Stream') >= n + 2
      BY <1>8
    <2> QED
      <3>1. Grows(Stream, Stream')
        BY <1>8, <1>9, <1>12, <1>13, <2>1, <2>2 DEF Grows, n
      <3> QED
        BY <1>1, <1>2, <1>8, <1>12, <3>1, GrowFacts DEF n
  <1>15. TypeOK'
    <2>1. sent' \in Seq(Message) /\ Len(sent') = i
      BY <1>1, <1>4 DEF TypeOK, i
    <2> QED
      BY <1>1, <1>4, <1>6, <1>7, <2>1 DEF TypeOK
  <1>16. Parted' /\ HandledInOrder' /\ HandledFirst' /\ SkippedHaveTwins'
    <2>1. sent' \in Seq(Message) /\ Len(sent') = i /\ \A j \in 1 .. Len(sent) : sent'[j] = sent[j]
      BY <1>1, <1>4 DEF TypeOK, i
    <2>2. Len(sent') >= Len(sent) /\ {i} = Len(sent) + 1 .. Len(sent')
      BY <1>2, <2>1 DEF i
    <2> QED
      BY <1>2, <1>4, <1>8, <2>1, <2>2, SendKeepsFates
  <1>17. Tidy'
    BY <1>1, <1>4, <1>14 DEF Tidy
  <1> QED
    BY <1>14, <1>15, <1>16, <1>17 DEF IInv

LEMMA SendMixedStep ==
    ASSUME IInv, NEW m \in Message, NEW k \in Message, SendMixed(m, k)
    PROVE  IInv'
  <1> DEFINE i == Len(sent) + 1
             n == Len(Stream)
  <1>1. TypeOK /\ Parted /\ Shape(Stream)
    BY DEF IInv
  <1>2. /\ Len(sent) \in Nat /\ DOMAIN sent = 1 .. Len(sent) /\ MaxSent \in Nat
        /\ Stream \in Seq(Piece)
    BY <1>1, FatesWereSent
  <1>3. \A j \in DOMAIN Stream : Stream[j].id \in DOMAIN sent
    BY <1>1, FatesWereSent
  <1>4. PICK mix \in {<<Head_(i), Head_(i + 1), Tail_(i), Tail_(i + 1)>>,
                      <<Head_(i), Head_(i + 1), Tail_(i + 1), Tail_(i)>>} :
             wire' = wire \o mix
    BY DEF SendMixed
  <1>5. /\ i \in 1 .. MaxSent /\ i + 1 \in 1 .. MaxSent /\ sent' = sent \o <<m, k>>
        /\ torn' = TRUE /\ UNCHANGED <<buffer, handled, skipped, lost>>
    BY <1>2 DEF SendMixed
  <1> HIDE DEF i
  <1>6. /\ mix \in Seq(Piece) /\ Len(mix) = 4 /\ mix[1] = Head_(i) /\ mix[2] = Head_(i + 1)
        /\ \A j \in 1 .. 4 : mix[j].id \in {i, i + 1}
        /\ Ids(mix) = {i, i + 1}
    <2>1. /\ Head_(i) \in Piece /\ Tail_(i) \in Piece
          /\ Head_(i + 1) \in Piece /\ Tail_(i + 1) \in Piece
      BY <1>5 DEF Head_, Tail_, Piece
    <2> DEFINE a == Head_(i)
               b == Head_(i + 1)
               c == Tail_(i)
               d == Tail_(i + 1)
    <2>7. mix = <<a, b, c, d>> \/ mix = <<a, b, d, c>>
      BY <1>4
    <2>8. a \in Piece /\ b \in Piece /\ c \in Piece /\ d \in Piece
      BY <2>1
    <2> HIDE DEF a, b, c, d
    <2>9. /\ mix \in Seq(Piece) /\ Len(mix) = 4 /\ mix[1] = a /\ mix[2] = b
          /\ mix[3] \in {c, d} /\ mix[4] \in {c, d}
      <3>1. CASE mix = <<a, b, c, d>>
        <4>1. mix \in Seq(Piece) /\ Len(mix) = 4
          BY <2>8, <3>1
        <4>2. mix[1] = a /\ mix[2] = b /\ mix[3] = c /\ mix[4] = d
          BY <3>1
        <4> QED
          BY <4>1, <4>2
      <3>2. CASE mix = <<a, b, d, c>>
        <4>1. mix \in Seq(Piece) /\ Len(mix) = 4
          BY <2>8, <3>2
        <4>2. mix[1] = a /\ mix[2] = b /\ mix[3] = d /\ mix[4] = c
          BY <3>2
        <4> QED
          BY <4>1, <4>2
      <3> QED
        BY <2>7, <3>1, <3>2
    <2>2. /\ mix \in Seq(Piece) /\ Len(mix) = 4 /\ mix[1] = Head_(i) /\ mix[2] = Head_(i + 1)
          /\ mix[3] \in {Tail_(i), Tail_(i + 1)} /\ mix[4] \in {Tail_(i), Tail_(i + 1)}
      BY <2>9 DEF a, b, c, d
    <2>3. \A j \in 1 .. 4 : j = 1 \/ j = 2 \/ j = 3 \/ j = 4
      OBVIOUS
    <2>4. \A j \in 1 .. 4 : mix[j].id \in {i, i + 1}
      BY <2>2, <2>3 DEF Head_, Tail_
    <2>5. DOMAIN mix = 1 .. 4 /\ mix[1].id = i /\ mix[2].id = i + 1 /\ 1 \in 1 .. 4 /\ 2 \in 1 .. 4
      BY <2>2 DEF Head_
    <2>6. Ids(mix) = {i, i + 1}
      BY <2>4, <2>5 DEF Ids
    <2> QED
      BY <2>2, <2>4, <2>6
  <1>7. wire \in Seq(Piece) /\ buffer \in Seq(Piece)
    BY <1>1 DEF TypeOK
  <1>8. wire' \in Seq(Piece) /\ Stream' \in Seq(Piece) /\ Len(Stream') = n + Len(mix)
    BY <1>1, <1>4, <1>5, <1>6, StreamGrows
  <1>9. /\ Stream' \in Seq(Piece) /\ Len(Stream') = n + 4
        /\ Ids(Stream') = Ids(Stream) \cup {i, i + 1}
        /\ n \in Nat
    <2>1. Ids(Stream') = Ids(Stream) \cup Ids(mix)
      BY <1>1, <1>4, <1>5, <1>6, StreamGrows
    <2>2. n \in Nat
      BY <1>2
    <2> QED
      BY <1>6, <1>8, <2>1, <2>2
  <1>10. \A p \in 1 .. n : Stream'[p] = Stream[p]
    BY <1>1, <1>4, <1>5, <1>6, StreamGrows
  <1>11. \A p \in n + 1 .. n + 4 : Stream'[p] = mix[p - n]
    <2>1. \A p \in n + 1 .. n + Len(mix) : Stream'[p] = mix[p - n]
      BY <1>1, <1>4, <1>5, <1>6, StreamGrows
    <2> QED
      BY <1>6, <2>1
  <1>12. DOMAIN Stream = 1 .. n /\ DOMAIN Stream' = 1 .. n + 4
    BY <1>2, <1>9
  <1> HIDE DEF n
  <1>13. n + 1 \in Heads(Stream') /\ n + 2 \in Heads(Stream')
    <2>1. n + 1 \in n + 1 .. n + 4 /\ n + 2 \in n + 1 .. n + 4
          /\ n + 1 \in 1 .. n + 4 /\ n + 2 \in 1 .. n + 4
          /\ (n + 1) - n = 1 /\ (n + 2) - n = 2
      BY <1>9
    <2>2. Stream'[n + 1] = Head_(i) /\ Stream'[n + 2] = Head_(i + 1)
      BY <1>6, <1>11, <2>1
    <2> QED
      BY <1>12, <2>1, <2>2 DEF Heads, Head_
  <1>14. ASSUME NEW p \in 1 .. n, NEW q \in n + 1 .. n + 4
         PROVE  Stream'[p].id < Stream'[q].id
    <2>1. Stream'[q].id \in {i, i + 1}
      <3>1. q - n \in 1 .. 4
        BY <1>9
      <3> QED
        BY <1>6, <1>11, <3>1
    <2>2. Stream'[p].id \in 1 .. Len(sent)
      BY <1>2, <1>3, <1>10, <1>12
    <2> QED
      BY <1>2, <2>1, <2>2 DEF i
  <1>15. Shape(Stream')
    <2>1. Len(Stream') >= n + 2
      BY <1>9
    <2> QED
      <3>1. Grows(Stream, Stream')
        BY <1>9, <1>10, <1>13, <1>14, <2>1 DEF Grows, n
      <3> QED
        BY <1>1, <1>2, <1>9, <3>1, GrowFacts
  <1>16. /\ sent' \in Seq(Message) /\ Len(sent') = i + 1
         /\ \A j \in 1 .. Len(sent) : sent'[j] = sent[j]
    BY <1>1, <1>5 DEF TypeOK, i
  <1>17. TypeOK'
    BY <1>1, <1>5, <1>7, <1>8, <1>16 DEF TypeOK
  <1>18. Parted' /\ HandledInOrder' /\ HandledFirst' /\ SkippedHaveTwins'
    <2>1. Len(sent') >= Len(sent) /\ {i, i + 1} = Len(sent) + 1 .. Len(sent')
      BY <1>2, <1>16 DEF i
    <2> QED
      BY <1>2, <1>5, <1>9, <1>16, <2>1, SendKeepsFates
  <1>19. Tidy'
    BY <1>5 DEF Tidy
  <1> QED
    BY <1>15, <1>17, <1>18, <1>19 DEF IInv

LEMMA ReconnectStep ==
    ASSUME IInv, Reconnect
    PROVE  IInv'
  <1>1. TypeOK /\ Parted /\ HandledInOrder /\ SkippedHaveTwins
    BY DEF IInv
  <1>2. /\ lost' = lost \cup Ids(wire) \cup Ids(buffer) /\ wire' = <<>> /\ buffer' = <<>>
        /\ torn' = FALSE /\ UNCHANGED <<sent, handled, skipped>>
    BY DEF Reconnect
  <1>3. Ids(Stream) = Ids(buffer) \cup Ids(wire)
    BY <1>1, ConcatFacts DEF TypeOK, Stream
  <1>4. Stream' = <<>> /\ DOMAIN Stream' = {} /\ Ids(Stream') = {} /\ DOMAIN buffer' = {}
    <2>1. Stream' = <<>> /\ DOMAIN Stream' = {} /\ DOMAIN buffer' = {}
      BY <1>2 DEF Stream
    <2> QED
      BY <2>1 DEF Ids
  <1>5. lost' = lost \cup Ids(Stream)
    BY <1>2, <1>3
  <1>6. Parted'
    <2>1. DOMAIN sent = ToSet(handled) \cup skipped \cup lost'
      BY <1>1, <1>5 DEF Parted
    <2>2. ToSet(handled) \cap (skipped \cup lost') = {} /\ skipped \cap lost' = {}
      BY <1>1, <1>5 DEF Parted
    <2> QED
      BY <1>2, <1>4, <2>1, <2>2 DEF Parted
  <1>7. TypeOK'
    <2>1. lost' \subseteq 1 .. MaxSent
      <3>1. lost' \subseteq DOMAIN sent
        BY <1>1, <1>5 DEF Parted
      <3>2. DOMAIN sent = 1 .. Len(sent) /\ Len(sent) \in Nat /\ Len(sent) <= MaxSent /\ MaxSent \in Nat
        BY <1>1, FatesWereSent
      <3> QED
        BY <3>1, <3>2
    <2>2. wire' \in Seq(Piece) /\ buffer' \in Seq(Piece) /\ torn' \in BOOLEAN
      <3>1. <<>> \in Seq(Piece)
        OBVIOUS
      <3>2. wire' = <<>> /\ buffer' = <<>> /\ torn' = FALSE
        BY <1>2
      <3> QED
        BY <3>1, <3>2
    <2>3. /\ sent' \in Seq(Message) /\ Len(sent') <= MaxSent
          /\ handled' \in Seq(1 .. MaxSent) /\ skipped' \subseteq 1 .. MaxSent
      BY <1>1, <1>2 DEF TypeOK
    <2> QED
      BY <2>1, <2>2, <2>3 DEF TypeOK
  <1>8. Shape(Stream')
    <2>1. Heads(Stream') = {}
      BY <1>4 DEF Heads
    <2> QED
      BY <1>4, <2>1 DEF Shape
  <1>9. HandledInOrder' /\ SkippedHaveTwins'
    BY <1>1, <1>2 DEF HandledInOrder, SkippedHaveTwins, HasTwin
  <1>10. HandledFirst' /\ Tidy'
    BY <1>4 DEF HandledFirst, Tidy
  <1> QED
    BY <1>6, <1>7, <1>8, <1>9, <1>10 DEF IInv

(* What arrives is the beginning of the stream.                            *)
LEMMA ArrivesFacts ==
    ASSUME TypeOK, NEW k \in 1 .. Len(wire)
    PROVE  LET b == buffer \o SubSeq(wire, 1, k)
           IN  /\ Begins(b, Stream) /\ Len(b) = Len(buffer) + k
               /\ \A i \in 1 .. Len(buffer) : b[i] = buffer[i]
  <1> DEFINE a == SubSeq(wire, 1, k)
             b == buffer \o a
             s == buffer \o wire
  <1>1. wire \in Seq(Piece) /\ buffer \in Seq(Piece) /\ k \in 0 .. Len(wire)
        /\ Len(wire) \in Nat /\ Len(buffer) \in Nat
    BY DEF TypeOK
  <1>2. a \in Seq(Piece) /\ Len(a) = k
    BY <1>1, SplitFacts
  <1>3. \A i \in 1 .. k : a[i] = wire[i]
    BY <1>1, SplitFacts
  <1> HIDE DEF a
  <1>4. b \in Seq(Piece) /\ Len(b) = Len(buffer) + Len(a)
    BY <1>1, <1>2, ConcatFacts
  <1>5. \A i \in 1 .. Len(buffer) : b[i] = buffer[i]
    BY <1>1, <1>2, ConcatFacts
  <1>6. \A i \in Len(buffer) + 1 .. Len(buffer) + Len(a) : b[i] = a[i - Len(buffer)]
    BY <1>1, <1>2, ConcatFacts
  <1>7. s \in Seq(Piece) /\ Len(s) = Len(buffer) + Len(wire)
    BY <1>1, ConcatFacts
  <1>8. \A i \in 1 .. Len(buffer) : s[i] = buffer[i]
    BY <1>1, ConcatFacts
  <1>9. \A i \in Len(buffer) + 1 .. Len(buffer) + Len(wire) : s[i] = wire[i - Len(buffer)]
    BY <1>1, ConcatFacts
  <1> HIDE DEF b, s
  <1>10. ASSUME NEW i \in 1 .. Len(b) PROVE b[i] = s[i]
    <2>1. CASE i <= Len(buffer)
      <3>1. i \in 1 .. Len(buffer)
        BY <1>1, <2>1
      <3> QED
        BY <1>5, <1>8, <3>1
    <2>2. CASE i > Len(buffer)
      <3>1. /\ i \in Len(buffer) + 1 .. Len(buffer) + Len(a)
            /\ i \in Len(buffer) + 1 .. Len(buffer) + Len(wire)
            /\ i - Len(buffer) \in 1 .. k
        BY <1>1, <1>2, <1>4, <2>2
      <3> QED
        BY <1>3, <1>6, <1>9, <3>1
    <2> QED
      BY <1>1, <1>2, <1>4, <2>1, <2>2
  <1>11. Len(b) \in 1 .. Len(s) /\ Len(b) = Len(buffer) + k
    BY <1>1, <1>2, <1>4, <1>7
  <1>12. s = Stream
    BY DEF s, Stream
  <1>13. Begins(b, Stream)
    BY <1>4, <1>7, <1>10, <1>11, <1>12 DEF Begins
  <1> QED
    BY <1>5, <1>11, <1>13 DEF a, b

(* What a read does.                                                       *)
LEMMA ReadFacts ==
    ASSUME IInv, NEW k \in 1 .. Len(wire), Read(k),
           NEW b, b = buffer \o SubSeq(wire, 1, k)
    PROVE  /\ Begins(b, Stream) /\ Leaves(Stream, b, Stream')
           /\ buffer' = Kept(b) /\ wire' \in Seq(Piece)
           /\ handled' = handled \o InOrder(b, Reached(b) \ Repeats(b))
           /\ skipped' = skipped \cup IdsAt(b, Repeats(b) \ Retained(b))
           /\ UNCHANGED <<sent, lost, torn>>
  <1>1. TypeOK /\ Shape(Stream)
    BY DEF IInv
  <1>2. Begins(b, Stream) /\ Len(b) = Len(buffer) + k
    BY <1>1, ArrivesFacts
  <1>3. /\ b \in Seq(Piece) /\ Stream \in Seq(Piece) /\ Len(b) \in 1 .. Len(Stream)
        /\ \A i \in 1 .. Len(b) : b[i] = Stream[i]
    BY <1>2 DEF Begins
  <1>4. 1 \in Heads(b)
    <2>1. Len(Stream) \in Nat /\ Len(b) \in Nat /\ 1 \in 1 .. Len(b) /\ Len(Stream) > 0
      BY <1>3
    <2>2. Stream # <<>>
      BY <1>3, <2>1, PlaceFacts
    <2>3. 1 \in Heads(Stream)
      BY <1>1, <2>2 DEF Shape
    <2>4. Heads(b) = Heads(Stream) \cap 1 .. Len(b)
      BY <1>2, HeadsFacts
    <2> QED
      BY <2>1, <2>3, <2>4
  <1>5. wire' = SubSeq(wire, k + 1, Len(wire)) /\ UNCHANGED <<sent, lost, torn>>
    BY DEF Read
  <1>6. /\ buffer' = Kept(b)
        /\ handled' = handled \o InOrder(b, Reached(b) \ Repeats(b))
        /\ skipped' = skipped \cup IdsAt(b, Repeats(b) \ Retained(b))
    BY <1>4 DEF Read
  <1> DEFINE r == From(b)
             kept == Kept(b)
             rest == SubSeq(wire, k + 1, Len(wire))
             t == kept \o rest
  <1>7. wire \in Seq(Piece) /\ buffer \in Seq(Piece) /\ k \in 0 .. Len(wire)
        /\ Len(wire) \in Nat /\ Len(buffer) \in Nat
    BY <1>1 DEF TypeOK
  <1>8. rest \in Seq(Piece) /\ Len(rest) = Len(wire) - k
    BY <1>7, SplitFacts
  <1>9. \A i \in 1 .. Len(wire) - k : rest[i] = wire[i + k]
    BY <1>7, SplitFacts
  <1>10. kept \in Seq(Piece) /\ Len(kept) = Len(b) + 1 - r
    BY <1>1, <1>2, KeptFacts
  <1>11. \A i \in 1 .. Len(kept) : kept[i] = b[i + r - 1]
    BY <1>1, <1>2, KeptFacts
  <1>12. r \in 1 .. Len(b) + 1
    BY <1>1, <1>2, FromFacts
  <1>13. Len(Stream) = Len(buffer) + Len(wire)
    BY <1>7, ConcatFacts DEF Stream
  <1>14. \A i \in Len(buffer) + 1 .. Len(buffer) + Len(wire) : Stream[i] = wire[i - Len(buffer)]
    BY <1>7, ConcatFacts DEF Stream
  <1>15. Stream' = t /\ wire' \in Seq(Piece)
    BY <1>5, <1>6, <1>8 DEF Stream
  <1> HIDE DEF kept, rest, r
  <1>16. t \in Seq(Piece) /\ Len(t) = Len(kept) + Len(rest)
    BY <1>8, <1>10, ConcatFacts
  <1>17. \A i \in 1 .. Len(kept) : t[i] = kept[i]
    BY <1>8, <1>10, ConcatFacts
  <1>18. \A i \in Len(kept) + 1 .. Len(kept) + Len(rest) : t[i] = rest[i - Len(kept)]
    BY <1>8, <1>10, ConcatFacts
  <1> HIDE DEF t
  <1>19. r \in Nat /\ r >= 1 /\ r <= Len(b) + 1 /\ Len(b) \in Nat
         /\ Len(kept) \in Nat /\ Len(rest) \in Nat /\ Len(buffer) + k = Len(b)
    BY <1>2, <1>3, <1>8, <1>10, <1>12
  <1>20. Len(t) = Len(Stream) + 1 - r
    BY <1>7, <1>8, <1>10, <1>13, <1>16, <1>19
  <1>21. ASSUME NEW i \in 1 .. Len(t) PROVE t[i] = Stream[i + r - 1]
    <2>1. CASE i <= Len(kept)
      <3>1. i \in 1 .. Len(kept) /\ i + r - 1 \in 1 .. Len(b)
        BY <1>10, <1>19, <2>1
      <3> QED
        BY <1>3, <1>11, <1>17, <3>1
    <2>2. CASE i > Len(kept)
      <3>1. /\ i \in Len(kept) + 1 .. Len(kept) + Len(rest)
            /\ i - Len(kept) \in 1 .. Len(wire) - k
        BY <1>7, <1>8, <1>16, <1>19, <2>2
      <3>2. (i - Len(kept)) + k = (i + r - 1) - Len(buffer)
        BY <1>7, <1>10, <1>19, <3>1
      <3>3. i + r - 1 \in Len(buffer) + 1 .. Len(buffer) + Len(wire)
        BY <1>7, <1>8, <1>10, <1>16, <1>19, <3>1
      <3>4. t[i] = wire[(i - Len(kept)) + k]
        BY <1>9, <1>18, <3>1
      <3> QED
        BY <1>14, <3>2, <3>3, <3>4
    <2> QED
      BY <1>16, <1>19, <2>1, <2>2
  <1>22. Leaves(Stream, b, t)
    BY <1>16, <1>20, <1>21 DEF Leaves, r
  <1> QED
    BY <1>2, <1>5, <1>6, <1>15, <1>22

LEMMA ReadStep ==
    ASSUME IInv, NEW k \in 1 .. Len(wire), Read(k)
    PROVE  IInv'
  <1> DEFINE b == buffer \o SubSeq(wire, 1, k)
             H == Reached(b) \ Repeats(b)
             K == Repeats(b) \ Retained(b)
             h == InOrder(b, H)
  <1>1. /\ Begins(b, Stream) /\ Leaves(Stream, b, Stream')
        /\ buffer' = Kept(b) /\ wire' \in Seq(Piece)
        /\ handled' = handled \o h /\ skipped' = skipped \cup IdsAt(b, K)
        /\ UNCHANGED <<sent, lost, torn>>
    BY ReadFacts
  <1> HIDE DEF b
  <1>2. /\ TypeOK /\ Parted /\ Shape(Stream) /\ HandledInOrder /\ HandledFirst
        /\ SkippedHaveTwins /\ Tidy
    BY DEF IInv
  <1>3. /\ h \in Seq(1 .. MaxSent) /\ ToSet(h) = IdsAt(b, H)
        /\ \A m, n \in DOMAIN h : m < n => h[m] < h[n]
    <2>1. H \in SUBSET Reached(b)
      OBVIOUS
    <2> QED
      BY <1>1, <1>2, <2>1, InOrderFacts
  <1>4. /\ Ids(Stream) = IdsAt(b, H) \cup IdsAt(b, K) \cup Ids(Stream')
        /\ IdsAt(b, H) \cap IdsAt(b, K) = {}
        /\ (IdsAt(b, H) \cup IdsAt(b, K)) \cap Ids(Stream') = {}
        /\ \A x \in IdsAt(b, H), y \in Ids(Stream') : x < y
    BY <1>1, <1>2, LeavesFacts
  <1> HIDE DEF h
  <1>5. /\ handled \in Seq(1 .. MaxSent) /\ Len(handled) \in Nat /\ Len(h) \in Nat
        /\ DOMAIN handled = 1 .. Len(handled) /\ DOMAIN h = 1 .. Len(h)
    BY <1>2, <1>3 DEF TypeOK
  <1>6. /\ handled' \in Seq(1 .. MaxSent) /\ DOMAIN handled' = 1 .. Len(handled) + Len(h)
        /\ \A i \in 1 .. Len(handled) + Len(h) :
              handled'[i] = IF i <= Len(handled) THEN handled[i] ELSE h[i - Len(handled)]
    <2>1. handled \o h \in Seq(1 .. MaxSent) /\ Len(handled \o h) = Len(handled) + Len(h)
      BY <1>3, <1>5, ConcatProperties
    <2>2. \A i \in 1 .. Len(handled) + Len(h) :
             (handled \o h)[i] = IF i <= Len(handled) THEN handled[i] ELSE h[i - Len(handled)]
      BY <1>3, <1>5, ConcatProperties
    <2>3. DOMAIN handled' = 1 .. Len(handled')
      BY <1>1, <2>1
    <2> QED
      BY <1>1, <2>1, <2>2, <2>3
  <1>7. ASSUME NEW i \in DOMAIN handled'
        PROVE  \/ i \in DOMAIN handled /\ handled'[i] = handled[i]
               \/ /\ i > Len(handled) /\ i - Len(handled) \in DOMAIN h
                  /\ handled'[i] = h[i - Len(handled)]
    <2>1. i \in 1 .. Len(handled) + Len(h)
      BY <1>6
    <2>2. CASE i <= Len(handled)
      BY <1>5, <1>6, <2>1, <2>2
    <2>3. CASE i > Len(handled)
      <3>1. i - Len(handled) \in 1 .. Len(h) /\ ~(i <= Len(handled))
        BY <1>5, <2>1, <2>3
      <3> QED
        BY <1>5, <1>6, <2>1, <2>3, <3>1
    <2> QED
      BY <1>5, <2>1, <2>2, <2>3
  <1>8. ToSet(handled') = ToSet(handled) \cup ToSet(h)
    <2>1. ToSet(handled') \subseteq ToSet(handled) \cup ToSet(h)
      BY <1>7 DEF ToSet
    <2>2. ASSUME NEW i \in 1 .. Len(handled) PROVE handled[i] \in ToSet(handled')
      <3>1. i \in 1 .. Len(handled) + Len(h) /\ i <= Len(handled)
        BY <1>5
      <3> QED
        BY <1>6, <3>1 DEF ToSet
    <2>3. ASSUME NEW i \in 1 .. Len(h) PROVE h[i] \in ToSet(handled')
      <3>1. /\ i + Len(handled) \in 1 .. Len(handled) + Len(h) /\ ~(i + Len(handled) <= Len(handled))
            /\ (i + Len(handled)) - Len(handled) = i
        BY <1>5
      <3> QED
        BY <1>6, <3>1 DEF ToSet
    <2>4. ToSet(handled) \cup ToSet(h) \subseteq ToSet(handled')
      BY <1>5, <2>2, <2>3 DEF ToSet
    <2> QED
      BY <2>1, <2>4
  <1>9. \A x \in ToSet(handled), y \in Ids(Stream) : x < y
    BY <1>2 DEF HandledFirst, ToSet, Ids
  <1>10. \A i \in DOMAIN h : h[i] \in IdsAt(b, H) /\ h[i] \in Ids(Stream)
    BY <1>3, <1>4 DEF ToSet
  <1>11. Parted'
    <2>1. ToSet(handled') = ToSet(handled) \cup IdsAt(b, H)
      BY <1>3, <1>8
    <2> DEFINE HH == IdsAt(b, H)
               KK == IdsAt(b, K)
               R == Ids(Stream')
    <2>2. Ids(Stream) = HH \cup KK \cup R /\ HH \cap KK = {} /\ (HH \cup KK) \cap R = {}
      BY <1>4
    <2>3. skipped' = skipped \cup KK /\ lost' = lost /\ sent' = sent
      BY <1>1
    <2> HIDE DEF HH, KK, R
    <2>4. ToSet(handled') = ToSet(handled) \cup HH
      BY <2>1 DEF HH
    <2>5. DOMAIN sent' = ToSet(handled') \cup skipped' \cup lost' \cup R
      BY <1>2, <2>2, <2>3, <2>4 DEF Parted
    <2>6. ToSet(handled') \cap (skipped' \cup lost') = {} /\ skipped' \cap lost' = {}
      BY <1>2, <2>2, <2>3, <2>4 DEF Parted
    <2>7. R \cap (ToSet(handled') \cup skipped' \cup lost') = {}
      BY <1>2, <2>2, <2>3, <2>4 DEF Parted
    <2> QED
      BY <2>5, <2>6, <2>7 DEF Parted, R
  <1>12. HandledInOrder'
    <2> SUFFICES ASSUME NEW i \in DOMAIN handled', NEW j \in DOMAIN handled', i < j
                 PROVE  handled'[i] < handled'[j]
      BY DEF HandledInOrder
    <2>0. i \in Nat /\ j \in Nat
      BY <1>5, <1>6
    <2>1. CASE j \in DOMAIN handled /\ handled'[j] = handled[j]
      <3>1. i \in DOMAIN handled /\ handled'[i] = handled[i]
        BY <1>5, <1>7, <2>0, <2>1
      <3> QED
        BY <1>2, <2>1, <3>1 DEF HandledInOrder
    <2>2. CASE /\ j > Len(handled) /\ j - Len(handled) \in DOMAIN h
               /\ handled'[j] = h[j - Len(handled)]
      <3>1. CASE i \in DOMAIN handled /\ handled'[i] = handled[i]
        BY <1>9, <1>10, <2>2, <3>1 DEF ToSet
      <3>2. CASE /\ i > Len(handled) /\ i - Len(handled) \in DOMAIN h
                 /\ handled'[i] = h[i - Len(handled)]
        <4>1. i - Len(handled) < j - Len(handled)
          BY <1>5, <2>0
        <4> QED
          BY <1>3, <2>2, <3>2, <4>1
      <3> QED
        BY <1>7, <3>1, <3>2
    <2> QED
      BY <1>7, <2>1, <2>2
  <1>13. HandledFirst'
    <2> SUFFICES ASSUME NEW i \in DOMAIN handled', NEW j \in DOMAIN Stream'
                 PROVE  handled'[i] < Stream'[j].id
      BY DEF HandledFirst
    <2>1. Stream'[j].id \in Ids(Stream') /\ Stream'[j].id \in Ids(Stream)
      BY <1>4 DEF Ids
    <2>2. handled'[i] \in ToSet(handled) \/ handled'[i] \in IdsAt(b, H)
      BY <1>3, <1>8 DEF ToSet
    <2> QED
      BY <1>4, <1>9, <2>1, <2>2
  <1>14. SkippedHaveTwins'
    <2> SUFFICES ASSUME NEW i \in skipped' PROVE HasTwin(i)'
      BY DEF SkippedHaveTwins
    <2>1. CASE i \in skipped
      BY <1>1, <1>2, <1>8, <2>1 DEF SkippedHaveTwins, HasTwin
    <2>2. CASE i \in IdsAt(b, K)
      <3>1. PICK p \in K : i = b[p].id
        BY <2>2 DEF IdsAt
      <3>2. PICK q \in H : b[q].id < b[p].id /\ SameKey(sent[b[q].id], sent[b[p].id])
        BY <1>1, <1>2, <3>1, RepeatFacts
      <3>3. b[q].id \in ToSet(handled')
        BY <1>3, <1>8, <3>2 DEF IdsAt
      <3> QED
        BY <1>1, <3>1, <3>2, <3>3 DEF HasTwin
    <2> QED
      BY <1>1, <2>1, <2>2
  <1> DEFINE s == Stream
             t == Stream'
             r == From(b)
  <1>15. /\ s \in Seq(Piece) /\ t \in Seq(Piece) /\ Len(t) = Len(s) + 1 - r
         /\ b \in Seq(Piece) /\ Len(b) \in Nat /\ Len(b) <= Len(s) /\ Len(s) \in Nat
         /\ \A i \in 1 .. Len(t) : t[i] = s[i + r - 1]
         /\ \A i \in 1 .. Len(b) : b[i] = s[i]
    BY <1>1 DEF Leaves, Begins
  <1>16. r \in 1 .. Len(b) + 1
    BY <1>1, <1>2, FromFacts
  <1>17. r <= Len(s) => r \in Heads(s)
    BY <1>1, <1>2, CutFacts
  <1>18. \A p \in 1 .. r - 1 : ~Mixed(s, p)
    BY <1>1, <1>2, CutFacts
  <1>19. (\A p \in DOMAIN s : ~Mixed(s, p)) => \A p, q \in r .. Len(b) : s[p].id = s[q].id
    BY <1>1, <1>2, CutFacts
  <1>20. r \in 1 .. Len(s) + 1
    BY <1>15, <1>16
  <1>21. Shape(s)
    BY <1>2
  <1> HIDE DEF s, t, r
  <1>22. Shape(t) /\ \A i \in DOMAIN t : Mixed(t, i) => Mixed(s, i + r - 1)
    <2>1. BeginsAt(s, t, r)
      BY <1>15, <1>17, <1>18, <1>20 DEF BeginsAt
    <2> QED
      BY <1>15, <1>21, <2>1, SuffixFacts
  <1>23. Tidy'
    <2>1. CASE torn
      BY <1>1, <2>1 DEF Tidy
    <2>2. CASE ~torn
      <3>1. \A i \in DOMAIN s : ~Mixed(s, i)
        BY <1>2, <2>2 DEF Tidy, s
      <3>2. ASSUME NEW i \in DOMAIN t PROVE ~Mixed(t, i)
        <4>1. i + r - 1 \in DOMAIN s
          BY <1>15, <1>20
        <4> QED
          BY <1>22, <3>1, <4>1
      <3>3. /\ buffer' \in Seq(Piece) /\ Len(buffer') = Len(b) + 1 - r
        BY <1>1, <1>2, KeptFacts DEF r
      <3>4. \A i \in 1 .. Len(buffer') : buffer'[i] = b[i + r - 1]
        BY <1>1, <1>2, KeptFacts DEF r
      <3>5. ASSUME NEW i \in DOMAIN buffer', NEW j \in DOMAIN buffer'
            PROVE  buffer'[i].id = buffer'[j].id
        <4>1. i \in 1 .. Len(buffer') /\ j \in 1 .. Len(buffer')
          BY <3>3
        <4>0. Len(b) \in Nat /\ r \in 1 .. Len(b) + 1 /\ i \in 1 .. Len(b) + 1 - r
              /\ j \in 1 .. Len(b) + 1 - r
          BY <1>15, <1>16, <3>3, <4>1
        <4>2. /\ i + r - 1 \in r .. Len(b) /\ j + r - 1 \in r .. Len(b)
              /\ i + r - 1 \in 1 .. Len(b) /\ j + r - 1 \in 1 .. Len(b)
          BY <4>0
        <4>3. s[i + r - 1].id = s[j + r - 1].id
          BY <1>19, <3>1, <4>2
        <4> QED
          BY <1>15, <3>4, <4>1, <4>2, <4>3
      <3> QED
        BY <3>2, <3>5 DEF Tidy, t
    <2> QED
      BY <2>1, <2>2
  <1>24. TypeOK'
    <2>1. buffer' \in Seq(Piece)
      BY <1>1, <1>2, KeptFacts
    <2>2. skipped' \subseteq 1 .. MaxSent
      <3>1. skipped' \subseteq DOMAIN sent
        BY <1>1, <1>2, <1>4 DEF Parted
      <3>2. DOMAIN sent = 1 .. Len(sent) /\ Len(sent) \in Nat /\ Len(sent) <= MaxSent /\ MaxSent \in Nat
        BY <1>2, FatesWereSent
      <3> QED
        BY <3>1, <3>2
    <2>3. sent \in Seq(Message) /\ Len(sent) <= MaxSent /\ lost \subseteq 1 .. MaxSent /\ torn \in BOOLEAN
      BY <1>2 DEF TypeOK
    <2> QED
      BY <1>1, <1>6, <2>1, <2>2, <2>3 DEF TypeOK
  <1> QED
    BY <1>11, <1>12, <1>13, <1>14, <1>22, <1>23, <1>24 DEF IInv, t

(* The inductive invariant holds in every state.                           *)
LEMMA IInvHolds == Spec => []IInv
  <1>1. ASSUME Init PROVE IInv
    <2>1. /\ sent = <<>> /\ wire = <<>> /\ buffer = <<>> /\ handled = <<>>
          /\ skipped = {} /\ lost = {} /\ torn = FALSE
      BY <1>1 DEF Init
    <2>2. TypeOK
      <3>1. <<>> \in Seq(Message) /\ <<>> \in Seq(Piece) /\ <<>> \in Seq(1 .. MaxSent)
        OBVIOUS
      <3>2. Len(sent) <= MaxSent
        BY <2>1, FramingAssumption DEF FramingAssumption
      <3>3. /\ sent \in Seq(Message) /\ wire \in Seq(Piece) /\ buffer \in Seq(Piece)
            /\ handled \in Seq(1 .. MaxSent)
        BY <2>1, <3>1
      <3> QED
        BY <2>1, <3>2, <3>3 DEF TypeOK
    <2>3. Stream = <<>> /\ DOMAIN Stream = {} /\ DOMAIN sent = {} /\ DOMAIN handled = {}
          /\ DOMAIN buffer = {}
      BY <2>1 DEF Stream
    <2>4. Heads(Stream) = {} /\ Ids(Stream) = {} /\ ToSet(handled) = {}
      BY <2>3 DEF Heads, Ids, ToSet
    <2>5. Shape(Stream) /\ Parted
      BY <2>1, <2>3, <2>4 DEF Shape, Parted
    <2>6. HandledInOrder /\ HandledFirst /\ SkippedHaveTwins /\ Tidy
      BY <2>1, <2>3 DEF HandledInOrder, HandledFirst, SkippedHaveTwins, Tidy
    <2> QED
      BY <2>2, <2>5, <2>6 DEF IInv
  <1>2. ASSUME IInv, [Next]_vars PROVE IInv'
    <2>1. CASE \E m \in Message : Send(m)
      BY <1>2, <2>1, SendStep
    <2>2. CASE \E m, n \in Message : SendMixed(m, n)
      BY <1>2, <2>2, SendMixedStep
    <2>3. CASE \E k \in 1 .. Len(wire) : Read(k)
      BY <1>2, <2>3, ReadStep
    <2>4. CASE Reconnect
      BY <1>2, <2>4, ReconnectStep
    <2>5. CASE UNCHANGED vars
      BY <1>2, <2>5 DEF vars, IInv, TypeOK, Stream, Parted, HandledInOrder, HandledFirst,
         SkippedHaveTwins, HasTwin, Tidy
    <2> QED
      BY <1>2, <2>1, <2>2, <2>3, <2>4, <2>5 DEF Next
  <1> QED
    BY <1>1, <1>2, PTL DEF Spec

(* The state of the connection stays what the inductive invariant says.    *)
THEOREM FramingInvariant == Spec => []IInv
  BY IInvHolds

(* However the stream is cut into reads, every message sent has exactly one *)
(* fate, messages are handled in the order sent, and what is skipped was    *)
(* handled under the same key before.                                       *)
THEOREM FramingOneFate == Spec => []OneFate
  <1>1. ASSUME IInv PROVE OneFate
    <2>1. TypeOK /\ Parted /\ HandledInOrder /\ SkippedHaveTwins
      BY <1>1 DEF IInv
    <2>2. ASSUME NEW i \in DOMAIN sent
          PROVE  Cardinality({f \in DOMAIN Fates : i \in Fates[f]}) = 1
      <3> DEFINE way == Ids(wire) \cup Ids(buffer)
      <3>1. Ids(Stream) = way
        BY <2>1, ConcatFacts DEF TypeOK, Stream
      <3> HIDE DEF way
      <3>2. /\ i \in ToSet(handled) \/ i \in skipped \/ i \in lost \/ i \in way
            /\ ~(i \in ToSet(handled) /\ i \in skipped)
            /\ ~(i \in ToSet(handled) /\ i \in lost)
            /\ ~(i \in skipped /\ i \in lost)
            /\ ~(i \in way /\ (i \in ToSet(handled) \/ i \in skipped \/ i \in lost))
        BY <2>1, <3>1 DEF Parted
      <3>3. /\ DOMAIN Fates = {1, 2, 3, 4} /\ Fates[1] = ToSet(handled) /\ Fates[2] = skipped
            /\ Fates[3] = lost /\ Fates[4] = way
        BY DEF Fates, way
      <3> DEFINE F == {f \in DOMAIN Fates : i \in Fates[f]}
      <3>4. \A f : f \in F <=> /\ f \in {1, 2, 3, 4}
                              /\ \/ f = 1 /\ i \in ToSet(handled)
                                 \/ f = 2 /\ i \in skipped
                                 \/ f = 3 /\ i \in lost
                                 \/ f = 4 /\ i \in way
        BY <3>3
      <3> HIDE DEF F
      <3>5. F = {1} \/ F = {2} \/ F = {3} \/ F = {4}
        BY <3>2, <3>4
      <3>6. Cardinality(F) = 1
        BY <3>5, FS_Singleton
      <3> QED
        BY <3>6 DEF F
    <2> QED
      BY <2>1, <2>2 DEF OneFate
  <1> QED
    BY <1>1, IInvHolds, PTL

(* What is kept of the buffer is at most one message, unless two writes of *)
(* the peer overlapped.                                                    *)
THEOREM FramingBufferIsShort == Spec => []BufferIsShort
  <1>1. ASSUME IInv PROVE BufferIsShort
    <2>1. CASE torn
      BY <2>1 DEF BufferIsShort
    <2>2. CASE ~torn
      <3>1. \A i, j \in DOMAIN buffer : buffer[i].id = buffer[j].id
        BY <1>1, <2>2 DEF IInv, Tidy
      <3>2. CASE Ids(buffer) = {}
        <4>1. Cardinality(Ids(buffer)) = 0
          BY <3>2, FS_EmptySet, Zenon
        <4> QED
          BY <4>1 DEF BufferIsShort
      <3>3. CASE Ids(buffer) # {}
        <4>1. PICK x : Ids(buffer) = {x}
          BY <3>1, <3>3 DEF Ids
        <4>2. Cardinality(Ids(buffer)) = 1
          BY <4>1, FS_Singleton
        <4> QED
          BY <4>2 DEF BufferIsShort
      <3> QED
        BY <3>2, <3>3
    <2> QED
      BY <2>1, <2>2
  <1> QED
    BY <1>1, IInvHolds, PTL

(* Once mixed bytes are at the front of the buffer no step handles or      *)
(* skips a message: whatever arrives, the first of them stays unfinished.  *)
THEOREM FramingMixedIsStuck == Spec => MixedIsStuck
  <1>1. ASSUME IInv, Stuck, [Next]_vars PROVE UNCHANGED <<handled, skipped>>
    <2>1. /\ TypeOK /\ Shape(Stream) /\ Cardinality(Heads(buffer)) > 1 /\ ~Complete(buffer, 1)
          /\ wire \in Seq(Piece) /\ buffer \in Seq(Piece)
      BY <1>1 DEF IInv, Stuck, TypeOK
    <2> DEFINE s == Stream
               n == Len(buffer)
    <2>2. s \in Seq(Piece) /\ Len(s) = n + Len(wire) /\ n \in Nat /\ Len(wire) \in Nat
      BY <2>1, ConcatFacts DEF Stream
    <2>3. \A i \in 1 .. n : s[i] = buffer[i]
      BY <2>1, ConcatFacts DEF Stream
    <2>4. Heads(buffer) \subseteq 1 .. n
      BY <2>1, PlaceFacts
    <2> HIDE DEF s, n
    <2>5. n > 1
      <3>1. SUFFICES ASSUME n <= 1 PROVE FALSE
        BY <2>2
      <3>2. Heads(buffer) = {} \/ Heads(buffer) = {1}
        BY <2>2, <2>4, <3>1
      <3>3. CASE Heads(buffer) = {}
        <4>1. Cardinality(Heads(buffer)) = 0
          BY <3>3, FS_EmptySet, Zenon
        <4> QED
          BY <2>1, <4>1
      <3>4. CASE Heads(buffer) = {1}
        <4>1. Cardinality(Heads(buffer)) = 1
          BY <3>4, FS_Singleton
        <4> QED
          BY <2>1, <4>1
      <3> QED
        BY <3>2, <3>3, <3>4
    <2>6. Begins(buffer, s)
      <3>1. Len(buffer) \in 1 .. Len(s)
        BY <2>2, <2>5 DEF n
      <3> QED
        BY <2>1, <2>2, <2>3, <3>1 DEF Begins, n
    <2>7. Heads(buffer) = Heads(s) \cap 1 .. n
      BY <2>1, <2>6, ReachedFacts DEF s, n
    <2>8. DOMAIN s = 1 .. Len(s) /\ Heads(s) \subseteq 1 .. Len(s)
      BY <2>2, PlaceFacts
    <2>9. 1 \in Heads(s) /\ 1 \in Heads(buffer)
      <3>1. Len(s) > 0
        BY <2>2, <2>5
      <3>2. s # <<>>
        BY <2>2, <3>1, PlaceFacts
      <3>3. 1 \in Heads(s) /\ 1 \in 1 .. n
        BY <2>1, <2>2, <2>5, <3>2 DEF Shape, s
      <3> QED
        BY <2>7, <3>3
    <2>10. Mixed(s, 1)
      <3>1. SUFFICES ASSUME 2 \notin Heads(s) PROVE FALSE
        BY <2>9 DEF Mixed
      <3>2. 1 + 1 \in 1 .. n \ Heads(buffer)
        BY <2>2, <2>5, <2>7, <3>1
      <3>3. ~(1 + 1 = n \/ 1 + 2 \in Heads(buffer))
        BY <2>1, <2>9, <3>2, CompleteFacts DEF n
      <3>4. 3 \in 1 .. n /\ 3 \in DOMAIN s \ Heads(s)
        <4>1. 3 \in 1 .. n /\ 3 \in 1 .. Len(s) /\ 3 \notin Heads(buffer)
          BY <2>2, <2>5, <3>3
        <4> QED
          BY <2>7, <2>8, <4>1
      <3>5. Clean(s, 3)
        <4>1. \A j \in 1 .. 3 - 1 : j = 1 \/ j = 2
          OBVIOUS
        <4>2. ~Mixed(s, 1) /\ ~Mixed(s, 2)
          BY <3>1 DEF Mixed
        <4> QED
          BY <3>4, <4>1, <4>2 DEF Clean
      <3>6. 3 - 1 \in Heads(s)
        BY <2>1, <3>4, <3>5 DEF Shape, s
      <3> QED
        BY <3>1, <3>6
    <2>11. ASSUME NEW k \in 1 .. Len(wire), Read(k) PROVE UNCHANGED <<handled, skipped>>
      <3> DEFINE b == buffer \o SubSeq(wire, 1, k)
      <3>1. /\ Begins(b, Stream)
            /\ handled' = handled \o InOrder(b, Reached(b) \ Repeats(b))
            /\ skipped' = skipped \cup IdsAt(b, Repeats(b) \ Retained(b))
        BY <1>1, <2>11, ReadFacts
      <3> HIDE DEF b
      <3>2. 1 \in 1 .. Len(b) /\ Heads(b) \subseteq Nat \ {0}
        <4>1. b \in Seq(Piece) /\ Len(b) \in Nat /\ Len(b) \in 1 .. Len(Stream)
          BY <3>1 DEF Begins
        <4>2. Heads(b) \subseteq 1 .. Len(b)
          BY <4>1, PlaceFacts
        <4> QED
          BY <4>1, <4>2
      <3>3. 1 \in Heads(b) \ Reached(b)
        BY <2>1, <2>10, <3>1, <3>2, ReachedFacts DEF s
      <3>4. \A i \in Reached(b) : i < 1
        BY <2>1, <3>1, <3>3, ReachedFacts
      <3>5. Reached(b) = {}
        BY <3>2, <3>4 DEF Reached
      <3>6. Reached(b) \ Repeats(b) = {} /\ Repeats(b) \ Retained(b) = {}
        BY <3>5 DEF Repeats
      <3>7. InOrder(b, {}) = <<>>
        <4>1. Cardinality({}) = 0
          BY FS_EmptySet, Zenon
        <4> QED
          BY <4>1 DEF InOrder
      <3>8. IdsAt(b, {}) = {}
        BY DEF IdsAt
      <3>9. handled \o <<>> = handled
        BY <2>1, ConcatEmptySeq DEF TypeOK
      <3> QED
        BY <3>1, <3>6, <3>7, <3>8, <3>9
    <2>12. CASE UNCHANGED vars
      BY <2>12 DEF vars
    <2>13. CASE Reconnect
      BY <2>13 DEF Reconnect
    <2>14. CASE \E m \in Message : Send(m)
      BY <2>14 DEF Send
    <2>15. CASE \E m, k \in Message : SendMixed(m, k)
      BY <2>15 DEF SendMixed
    <2> QED
      BY <1>1, <2>11, <2>12, <2>13, <2>14, <2>15 DEF Next
  <1>2. IInv /\ [Next]_vars => [Stuck => UNCHANGED <<handled, skipped>>]_vars
    BY <1>1
  <1> QED
    BY <1>2, IInvHolds, PTL DEF Spec, MixedIsStuck
=============================================================================
