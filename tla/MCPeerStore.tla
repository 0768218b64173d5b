------------------------------ MODULE MCPeerStore ------------------------------
(* Instances of PeerStore for TLC. *)
EXTENDS PeerStoreBook, TLC

CONSTANTS k1, k2, k3

MCPeerId == k1 :> <<1, 1>> @@ k2 :> <<1, 2>> @@ k3 :> <<2, 1>>
MCKeyLen == k1 :> 1 @@ k2 :> 2 @@ k3 :> 1

\* Ids as a peer states them, and ids cut short.
WholeIds == {MCPeerId[k] : k \in Keys}
CutIds == WholeIds \cup {<<1>>}

Symmetry == Permutations(Callers)
====
