----------------------------- MODULE LongestChain -----------------------------
(***************************************************************************)
(* What the strong-block store of a chain promises, without incomplete     *)
(* trees: a set of known headers, and a tip that is a deepest block among  *)
(* those connected to the genesis block through known headers, the first   *)
(* seen winning ties.                                                      *)
(***************************************************************************)
EXTENDS Naturals

CONSTANTS Block, Genesis, Parent, Depth

VARIABLES known, tip

vars == <<known, tip>>

(* Every block of A other than the genesis block has its parent in A. *)
ParentClosed(A) == \A b \in A \ {Genesis} : Parent[b] \in A

(* The blocks of K connected to the genesis block through blocks of K. *)
Rooted(K) == UNION {A \in SUBSET K : ParentClosed(A)}

(* The old tip stays unless something connected is strictly deeper. *)
BestTips(K, old) ==
    LET deeper == {b \in Rooted(K) : Depth[b] > Depth[old]}
    IN  IF deeper = {} THEN {old}
        ELSE {b \in deeper : \A c \in deeper : Depth[c] <= Depth[b]}

Init == known = {Genesis} /\ tip = Genesis

Learn(b) ==
    /\ b \notin known
    /\ known' = known \cup {b}
    /\ tip' \in BestTips(known', tip)

(* Only headers that are not connected may ever be forgotten. *)
Forget(D) ==
    /\ D \subseteq known \ Rooted(known)
    /\ known' = known \ D
    /\ tip' = tip

Next == \/ \E b \in Block : Learn(b)
        \/ \E D \in SUBSET Block : Forget(D)

Spec == Init /\ [][Next]_vars
=============================================================================
