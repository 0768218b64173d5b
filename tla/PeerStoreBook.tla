------------------------------ MODULE PeerStoreBook ------------------------------
(***************************************************************************)
(* PeerStore implements PeerBook when its inserts are serialised.          *)
(***************************************************************************)
EXTENDS PeerStore

Book == INSTANCE PeerBook WITH
  Peers <- Records,
  Allowed <- LAMBDA p : Valid(p.id, p.key),
  Conflict <- LAMBDA q, p : MustMatch(q, p.id),
  Capacity <- MaxPeers,
  known <- {peers[i] : i \in DOMAIN peers}

\* The store of peerstore.c is the bounded set of verified peers that
\* peerstore.h describes, and only an insert, one peer at a time, or freeing
\* the store changes it, also when allocations fail.
KeepsBook == Book!Spec
====
