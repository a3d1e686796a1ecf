------------------------- MODULE MCFullBlockExchange -------------------------
EXTENDS FullBlockExchange, TLC

Sym == Permutations(Node)

(* One node mines and another only fetches.  Loss is limited to the        *)
(* messages of a fetch: a lost announcement adds nothing to be fetched.    *)
Fetcher == CHOOSE n \in Node : n \notin Miners
Source  == CHOOSE n \in Node : n \in Miners
FetchKinds == Kind \ {"process_weak_block"}

OneMinerSpec == Spec /\ FetchFairness(Fetcher, Source)
=============================================================================
