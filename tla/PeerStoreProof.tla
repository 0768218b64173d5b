----------------------------- MODULE PeerStoreProof -----------------------------
(***************************************************************************)
(* Theorems about PeerStore, for any number of callers, keys and ids and   *)
(* any max_peers.                                                          *)
(***************************************************************************)
EXTENDS PeerStoreBook, FiniteSetTheorems, TLAPS

\* What a caller inside peerstore_insert_peer has established.
CallInv ==
  \A c \in Callers :
    /\ pc[c] # "idle" => arg[c] \in Records
    /\ pc[c] = "store" => Valid(arg[c].id, arg[c].key)

\* Before the store exists; the array while it does; the bound on failures.
SizeInv ==
  /\ life = "none" => memory = "ok" /\ peers = <<>>
  /\ life = "open" /\ Len(peers) <= MaxPeers => peers_size >= 1
  /\ budget["alloc"] <= MaxAllocFail

IInv == TypeOK /\ CallInv /\ SizeInv /\ Verified /\ ArrayFits

\* With serialised inserts: one caller is inside, what it saw of num_peers
\* and of the records is still so when it appends.
SerialInv ==
  /\ \A c, d \in Callers : pc[c] # "idle" /\ pc[d] # "idle" => c = d
  /\ \A c \in Callers : pc[c] # "idle" => Len(peers) < MaxPeers
  /\ \A c \in Callers : pc[c] \in {"validate", "store"} =>
       \A i \in DOMAIN peers : ~MustMatch(peers[i], arg[c].id)
  /\ NumPeersBounded /\ StoredOnce /\ NeverUndefined
-----------------------------------------------------------------------------
\* What appending a record does to the sequence of records.
LEMMA Appended ==
  ASSUME NEW q \in Seq(Records), NEW r \in Records
  PROVE  /\ Append(q, r) \in Seq(Records)
         /\ Len(Append(q, r)) = Len(q) + 1
         /\ DOMAIN Append(q, r) = DOMAIN q \cup {Len(q) + 1}
         /\ \A i \in DOMAIN q : Append(q, r)[i] = q[i] /\ i \in 1 .. Len(q)
         /\ Append(q, r)[Len(q) + 1] = r
  OBVIOUS

LEMMA InitIInv == Init => IInv
<1> SUFFICES ASSUME Init PROVE IInv
  OBVIOUS
<1> USE PeerStoreAssumption DEF Init
<1>1. TypeOK
  BY DEF TypeOK, Bounds
<1>2. CallInv /\ SizeInv
  BY DEF CallInv, SizeInv, Bounds
<1>3. Verified /\ ArrayFits
  BY DEF Verified, ArrayFits
<1> QED
  BY <1>1, <1>2, <1>3 DEF IInv
LEMMA IInvStep == IInv /\ [Next]_vars => IInv'
<1> SUFFICES ASSUME IInv, [Next]_vars PROVE IInv'
  OBVIOUS
<1> USE PeerStoreAssumption
<1>0. TypeOK /\ CallInv /\ SizeInv /\ Verified /\ ArrayFits
  BY DEF IInv
<1>1. CASE peerstore_new_peerstore
  <2>1. TypeOK'
    BY <1>0, <1>1 DEF TypeOK, peerstore_new_peerstore
  <2>2. CallInv'
    BY <1>0, <1>1 DEF TypeOK, CallInv, peerstore_new_peerstore
  <2>3. SizeInv' /\ ArrayFits'
    BY <1>0, <1>1 DEF TypeOK, SizeInv, ArrayFits, NoFailure, peerstore_new_peerstore
  <2>4. Verified'
    BY <1>0, <1>1 DEF Verified, peerstore_new_peerstore
  <2> QED
    BY <2>1, <2>2, <2>3, <2>4 DEF IInv
<1>2. CASE NewFails
  <2>1. TypeOK'
    BY <1>0, <1>2 DEF TypeOK, NewFails, Spend, store, Bounds
  <2>2. CallInv'
    BY <1>0, <1>2 DEF TypeOK, CallInv, NewFails, Spend, store
  <2>3. SizeInv' /\ ArrayFits'
    BY <1>0, <1>2 DEF TypeOK, SizeInv, ArrayFits, NoFailure, Bounds, NewFails, Spend, store
  <2>4. Verified'
    BY <1>0, <1>2 DEF Verified, NewFails, Spend, store
  <2> QED
    BY <2>1, <2>2, <2>3, <2>4 DEF IInv
<1>3. CASE peerstore_free_peerstore
  <2>1. TypeOK'
    <3>1. <<>> \in Seq(Records)
      OBVIOUS
    <3>2. peers' \in Seq(Records) /\ memory' \in {"ok", "null", "undefined"} /\ life' \in {"open", "freed"}
      BY Zenon, <1>0, <1>3, <3>1 DEF TypeOK, peerstore_free_peerstore, Usable
    <3> QED
      BY <1>0, <1>3, <3>2 DEF TypeOK, peerstore_free_peerstore
  <2>2. CallInv'
    BY <1>0, <1>3 DEF TypeOK, CallInv, peerstore_free_peerstore, Usable
  <2>3. SizeInv' /\ ArrayFits'
    BY <1>0, <1>3 DEF TypeOK, SizeInv, ArrayFits, NoFailure, peerstore_free_peerstore, Usable
  <2>4. Verified'
    BY <1>0, <1>3 DEF Verified, peerstore_free_peerstore, Usable
  <2> QED
    BY <2>1, <2>2, <2>3, <2>4 DEF IInv
<1>4. CASE \E c \in Callers : \E id \in Claims, key \in Keys : peerstore_insert_peer(c, id, key)
  <2>0. PICK c \in Callers, id \in Claims, key \in Keys : peerstore_insert_peer(c, id, key)
    BY <1>4
  <2>5. [id |-> id, key |-> key] \in Records
    BY DEF Records
  <2>1. TypeOK'
    <3>1. budget' \in [Bounds -> Nat]
      BY <1>0, <2>0 DEF TypeOK, Bounds, peerstore_insert_peer, Spend
    <3>2. /\ pc' \in [Callers -> {"idle", "have", "validate", "store"}]
          /\ ret' \in [Callers -> BOOLEAN]
          /\ arg' \in [Callers -> Records \cup {NoCall}]
      <4>1. CASE Return(c, FALSE)
        BY <1>0, <4>1 DEF TypeOK, Return
      <4>2. CASE /\ pc' = [pc EXCEPT ![c] = "have"] /\ UNCHANGED ret
                 /\ arg' = [arg EXCEPT ![c] = [id |-> id, key |-> key]]
        BY <1>0, <2>5, <4>2 DEF TypeOK
      <4> QED
        BY Zenon, <2>0, <4>1, <4>2 DEF peerstore_insert_peer
    <3> QED
      BY <1>0, <2>0, <3>1, <3>2 DEF TypeOK, peerstore_insert_peer, store
  <2>2. CallInv'
    BY ZenonT(20), <1>0, <2>0, <2>5 DEF TypeOK, CallInv, peerstore_insert_peer, Return
  <2>3. SizeInv' /\ ArrayFits'
    BY <1>0, <2>0 DEF TypeOK, SizeInv, ArrayFits, NoFailure, Bounds, peerstore_insert_peer, Return, Spend, Usable, store
  <2>4. Verified'
    BY <1>0, <2>0 DEF Verified, peerstore_insert_peer, Return, Spend, Usable, store
  <2> QED
    BY <2>1, <2>2, <2>3, <2>4 DEF IInv
<1>5. CASE \E c \in Callers : peerstore_have_peer(c)
  <2>0. PICK c \in Callers : peerstore_have_peer(c)
    BY <1>5
  <2>1. TypeOK'
    BY Zenon, <1>0, <2>0 DEF TypeOK, peerstore_have_peer, Return, Usable, store
  <2>2. CallInv'
    BY <1>0, <2>0 DEF TypeOK, CallInv, peerstore_have_peer, Return, Usable, store
  <2>3. SizeInv' /\ ArrayFits'
    BY <1>0, <2>0 DEF TypeOK, SizeInv, ArrayFits, NoFailure, peerstore_have_peer, Return, Usable, store
  <2>4. Verified'
    BY <1>0, <2>0 DEF Verified, peerstore_have_peer, Return, Usable, store
  <2> QED
    BY <2>1, <2>2, <2>3, <2>4 DEF IInv
<1>6. CASE \E c \in Callers : peerstore_validate_peer_id(c)
  <2>0. PICK c \in Callers : peerstore_validate_peer_id(c)
    BY <1>6
  <2>1. TypeOK'
    BY Zenon, <1>0, <2>0 DEF TypeOK, peerstore_validate_peer_id, Return, Usable, store
  <2>2. CallInv'
    BY Zenon, <1>0, <2>0 DEF TypeOK, CallInv, peerstore_validate_peer_id, Return, Usable, store
  <2>3. SizeInv' /\ ArrayFits'
    BY <1>0, <2>0 DEF TypeOK, SizeInv, ArrayFits, NoFailure, peerstore_validate_peer_id, Return, Usable, store
  <2>4. Verified'
    BY <1>0, <2>0 DEF Verified, peerstore_validate_peer_id, Return, Usable, store
  <2> QED
    BY <2>1, <2>2, <2>3, <2>4 DEF IInv
<1>7. CASE \E c \in Callers : ValidationFails(c)
  <2>0. PICK c \in Callers : ValidationFails(c)
    BY <1>7
  <2>1. TypeOK'
    BY <1>0, <2>0 DEF TypeOK, ValidationFails, Return, Spend, Usable, store, Bounds
  <2>2. CallInv'
    BY <1>0, <2>0 DEF TypeOK, CallInv, ValidationFails, Return, Spend, Usable, store
  <2>3. SizeInv' /\ ArrayFits'
    BY <1>0, <2>0 DEF TypeOK, SizeInv, ArrayFits, NoFailure, Bounds, ValidationFails, Return, Spend, Usable, store
  <2>4. Verified'
    BY <1>0, <2>0 DEF Verified, ValidationFails, Return, Spend, Usable, store
  <2> QED
    BY <2>1, <2>2, <2>3, <2>4 DEF IInv
<1>8. CASE \E c \in Callers : StorePeer(c)
  <2>0. PICK c \in Callers : StorePeer(c)
    BY <1>8
  <2>1. arg[c] \in Records /\ peers' = Append(peers, arg[c])
    BY <1>0, <2>0 DEF CallInv, StorePeer
  <2>2. /\ peers' \in Seq(Records) /\ Len(peers') = Len(peers) + 1
        /\ DOMAIN peers' = DOMAIN peers \cup {Len(peers) + 1}
        /\ \A i \in DOMAIN peers : peers'[i] = peers[i]
        /\ peers'[Len(peers) + 1] = arg[c]
    BY <1>0, <2>1, Appended DEF TypeOK
  <2>3. TypeOK'
    BY <1>0, <2>0, <2>2 DEF TypeOK, StorePeer, Return, SizeForAppend, NewSize, Full, Resized
  <2>4. CallInv'
    BY <1>0, <2>0 DEF TypeOK, CallInv, StorePeer, Return
  <2>5. SizeInv' /\ ArrayFits'
    BY <1>0, <2>0, <2>2 DEF TypeOK, SizeInv, ArrayFits, NoFailure, StorePeer, Usable,
       SizeForAppend, NewSize, Full, Resized
  <2>6. Verified'
    BY <1>0, <2>0, <2>1, <2>2 DEF Verified, CallInv, StorePeer
  <2> QED
    BY <2>3, <2>4, <2>5, <2>6 DEF IInv
<1>9. CASE \E c \in Callers : ResizeFails(c)
  <2>0. PICK c \in Callers : ResizeFails(c)
    BY <1>9
  <2>1. TypeOK'
    BY <1>0, <2>0 DEF TypeOK, ResizeFails, Return, Spend, Full, Usable, Bounds
  <2>2. CallInv'
    BY <1>0, <2>0 DEF TypeOK, CallInv, ResizeFails, Return, Spend, Full, Usable
  <2>3. SizeInv' /\ ArrayFits'
    BY <1>0, <2>0 DEF TypeOK, SizeInv, ArrayFits, NoFailure, Bounds, ResizeFails, Return, Spend, Full, Usable
  <2>4. Verified'
    BY <1>0, <2>0 DEF Verified, ResizeFails, Return, Spend, Full, Usable
  <2> QED
    BY <2>1, <2>2, <2>3, <2>4 DEF IInv
<1>10. CASE \E c \in Callers : KeyAllocFails(c)
  <2>0. PICK c \in Callers : KeyAllocFails(c)
    BY <1>10
  <2>1. TypeOK'
    BY <1>0, <2>0 DEF TypeOK, KeyAllocFails, Return, Spend, SizeForAppend, NewSize, Full, Resized, Usable, Bounds
  <2>2. CallInv'
    BY <1>0, <2>0 DEF TypeOK, CallInv, KeyAllocFails, Return, Spend, SizeForAppend, NewSize, Full, Resized, Usable
  <2>3. SizeInv' /\ ArrayFits'
    BY <1>0, <2>0 DEF TypeOK, SizeInv, ArrayFits, NoFailure, Bounds, KeyAllocFails, Return, Spend, SizeForAppend, NewSize, Full, Resized, Usable
  <2>4. Verified'
    BY <1>0, <2>0 DEF Verified, KeyAllocFails, Return, Spend, SizeForAppend, NewSize, Full, Resized, Usable
  <2> QED
    BY <2>1, <2>2, <2>3, <2>4 DEF IInv
<1>11. CASE \E c \in Callers : IdAllocFails(c)
  <2>0. PICK c \in Callers : IdAllocFails(c)
    BY <1>11
  <2>1. TypeOK'
    BY <1>0, <2>0 DEF TypeOK, IdAllocFails, Spend, Usable, Bounds
  <2>2. CallInv'
    BY <1>0, <2>0 DEF TypeOK, CallInv, IdAllocFails, Spend, Usable
  <2>3. SizeInv' /\ ArrayFits'
    BY <1>0, <2>0 DEF TypeOK, SizeInv, ArrayFits, NoFailure, Bounds, IdAllocFails, Spend, Usable
  <2>4. Verified'
    BY <1>0, <2>0 DEF Verified, IdAllocFails, Spend, Usable
  <2> QED
    BY <2>1, <2>2, <2>3, <2>4 DEF IInv
<1>12. CASE \E id \in Claims, len \in OutLens : peerstore_get_public_key(id, len)
  <2>0. PICK id \in Claims, len \in OutLens : peerstore_get_public_key(id, len)
    BY <1>12
  <2>1. TypeOK'
    <3>1. got' = got \/ \E i \in DOMAIN peers : got' = [id |-> id, key |-> peers[i].key]
      BY <2>0 DEF peerstore_get_public_key, Last, Hits
    <3>2. \A i \in DOMAIN peers : peers[i].key \in Keys
      <4>1. \A i \in DOMAIN peers : peers[i] \in Records
        BY <1>0 DEF TypeOK
      <4> QED
        BY <4>1 DEF Records
    <3>3. got' \in Records \cup {NoCall}
      <4>1. CASE got' = got
        BY <1>0, <4>1 DEF TypeOK
      <4>2. CASE \E i \in DOMAIN peers : got' = [id |-> id, key |-> peers[i].key]
        <5>1. PICK i \in DOMAIN peers : got' = [id |-> id, key |-> peers[i].key]
          BY <4>2
        <5>2. peers[i].key \in Keys
          BY <3>2
        <5>3. got' \in Records
          BY <5>1, <5>2 DEF Records
        <5> QED
          BY <5>3
      <4> QED
        BY <3>1, <4>1, <4>2
    <3> QED
      BY <1>0, <2>0, <3>3 DEF TypeOK, peerstore_get_public_key
  <2>2. CallInv'
    BY <1>0, <2>0 DEF TypeOK, CallInv, peerstore_get_public_key, Usable
  <2>3. SizeInv' /\ ArrayFits'
    BY <1>0, <2>0 DEF TypeOK, SizeInv, ArrayFits, NoFailure, peerstore_get_public_key, Usable
  <2>4. Verified'
    BY <1>0, <2>0 DEF Verified, peerstore_get_public_key, Usable
  <2> QED
    BY <2>1, <2>2, <2>3, <2>4 DEF IInv
<1>13. CASE UNCHANGED vars
  <2>1. TypeOK'
    BY <1>0, <1>13 DEF TypeOK, vars, store
  <2>2. CallInv'
    BY <1>0, <1>13 DEF TypeOK, CallInv, vars, store
  <2>3. SizeInv' /\ ArrayFits'
    BY <1>0, <1>13 DEF TypeOK, SizeInv, ArrayFits, NoFailure, vars, store
  <2>4. Verified'
    BY <1>0, <1>13 DEF Verified, vars, store
  <2> QED
    BY <2>1, <2>2, <2>3, <2>4 DEF IInv
<1> QED
  BY <1>1, <1>2, <1>3, <1>4, <1>5, <1>6, <1>7, <1>8, <1>9, <1>10, <1>11, <1>12, <1>13 DEF Next, Insert, Finished

LEMMA SerialStep ==
  ASSUME Serial, IInv, IInv', SerialInv, [Next]_vars
  PROVE  SerialInv'
<1> USE PeerStoreAssumption DEF SerialInv, NumPeersBounded
<1>0. TypeOK /\ SizeInv /\ ArrayFits /\ TypeOK' /\ SizeInv' /\ ArrayFits'
  BY DEF IInv
<1>1. CASE peerstore_new_peerstore
  <2>1. /\ \A b, d \in Callers : pc'[b] # "idle" /\ pc'[d] # "idle" => b = d
        /\ \A b \in Callers : pc'[b] # "idle" => Len(peers') < MaxPeers
    BY <1>0, <1>1 DEF TypeOK, peerstore_new_peerstore
  <2>2. \A b \in Callers : pc'[b] \in {"validate", "store"} =>
          \A i \in DOMAIN peers' : ~MustMatch(peers'[i], arg'[b].id)
    BY <1>0, <1>1 DEF TypeOK, peerstore_new_peerstore
  <2>3. NumPeersBounded' /\ StoredOnce'
    BY <1>0, <1>1 DEF TypeOK, StoredOnce, peerstore_new_peerstore
  <2>4. NeverUndefined'
    BY <1>0, <1>1 DEF TypeOK, SizeInv, ArrayFits, NeverUndefined, NoFailure, Bounds, peerstore_new_peerstore
  <2> QED
    BY <2>1, <2>2, <2>3, <2>4
<1>2. CASE NewFails
  <2>1. /\ \A b, d \in Callers : pc'[b] # "idle" /\ pc'[d] # "idle" => b = d
        /\ \A b \in Callers : pc'[b] # "idle" => Len(peers') < MaxPeers
    BY <1>0, <1>2 DEF TypeOK, NewFails, Spend, store
  <2>2. \A b \in Callers : pc'[b] \in {"validate", "store"} =>
          \A i \in DOMAIN peers' : ~MustMatch(peers'[i], arg'[b].id)
    BY <1>0, <1>2 DEF TypeOK, NewFails, Spend, store
  <2>3. NumPeersBounded' /\ StoredOnce'
    BY <1>0, <1>2 DEF TypeOK, StoredOnce, NewFails, Spend, store
  <2>4. NeverUndefined'
    BY <1>0, <1>2 DEF TypeOK, SizeInv, ArrayFits, NeverUndefined, NoFailure, Bounds, NewFails, Spend, store
  <2> QED
    BY <2>1, <2>2, <2>3, <2>4
<1>3. CASE peerstore_free_peerstore
  <2>1. /\ \A b, d \in Callers : pc'[b] # "idle" /\ pc'[d] # "idle" => b = d
        /\ \A b \in Callers : pc'[b] # "idle" => Len(peers') < MaxPeers
    BY <1>0, <1>3 DEF TypeOK, peerstore_free_peerstore, Usable
  <2>2. \A b \in Callers : pc'[b] \in {"validate", "store"} =>
          \A i \in DOMAIN peers' : ~MustMatch(peers'[i], arg'[b].id)
    BY <1>0, <1>3 DEF TypeOK, peerstore_free_peerstore, Usable
  <2>3. NumPeersBounded' /\ StoredOnce'
    BY <1>0, <1>3 DEF TypeOK, StoredOnce, peerstore_free_peerstore, Usable
  <2>4. NeverUndefined'
    BY <1>0, <1>3 DEF TypeOK, SizeInv, ArrayFits, NeverUndefined, NoFailure, Bounds, peerstore_free_peerstore, Usable
  <2> QED
    BY <2>1, <2>2, <2>3, <2>4
<1>4. CASE \E c \in Callers : \E id \in Claims, key \in Keys : peerstore_insert_peer(c, id, key)
  <2>0. PICK c \in Callers, id \in Claims, key \in Keys : peerstore_insert_peer(c, id, key)
    BY <1>4
  <2>1. /\ \A b, d \in Callers : pc'[b] # "idle" /\ pc'[d] # "idle" => b = d
        /\ \A b \in Callers : pc'[b] # "idle" => Len(peers') < MaxPeers
    <3>1. peers' = peers /\ \A d \in Callers : d # c => pc'[d] = "idle"
      BY <1>0, <2>0 DEF TypeOK, peerstore_insert_peer, Return, store
    <3>2. pc'[c] # "idle" => Len(peers) < MaxPeers
      <4>1. pc \in [Callers -> {"idle", "have", "validate", "store"}] /\ Len(peers) \in Nat
        BY <1>0 DEF TypeOK
      <4>2. Len(peers) <= MaxPeers
        OBVIOUS
      <4>3. Len(peers) = MaxPeers => pc'[c] = "idle"
        BY <2>0, <4>1 DEF peerstore_insert_peer, Return
      <4> QED
        BY <4>1, <4>2, <4>3
    <3> QED
      BY <3>1, <3>2
  <2>2. \A b \in Callers : pc'[b] \in {"validate", "store"} =>
          \A i \in DOMAIN peers' : ~MustMatch(peers'[i], arg'[b].id)
    <3>0. pc' = [pc EXCEPT ![c] = "have"] \/ pc' = [pc EXCEPT ![c] = "idle"]
      BY <2>0 DEF peerstore_insert_peer, Return
    <3>2. \A d \in Callers : pc[d] = "idle"
      BY <2>0 DEF peerstore_insert_peer
    <3>1. \A d \in Callers : pc'[d] \in {"idle", "have"}
      BY <1>0, <3>0, <3>2 DEF TypeOK
    <3> QED
      BY Zenon, <3>1
  <2>3. NumPeersBounded' /\ StoredOnce'
    BY <1>0, <2>0 DEF TypeOK, StoredOnce, peerstore_insert_peer, Return, Spend, store
  <2>4. NeverUndefined'
    BY <1>0, <2>0 DEF TypeOK, SizeInv, ArrayFits, NeverUndefined, NoFailure, Bounds, peerstore_insert_peer, Return, Spend, store
  <2> QED
    BY <2>1, <2>2, <2>3, <2>4
<1>5. CASE \E c \in Callers : peerstore_have_peer(c)
  <2>0. PICK c \in Callers : peerstore_have_peer(c)
    BY <1>5
  <2>1. /\ \A b, d \in Callers : pc'[b] # "idle" /\ pc'[d] # "idle" => b = d
        /\ \A b \in Callers : pc'[b] # "idle" => Len(peers') < MaxPeers
    BY <1>0, <2>0 DEF TypeOK, peerstore_have_peer, Return, Usable, store
  <2>2. \A b \in Callers : pc'[b] \in {"validate", "store"} =>
          \A i \in DOMAIN peers' : ~MustMatch(peers'[i], arg'[b].id)
    BY <1>0, <2>0 DEF TypeOK, peerstore_have_peer, Return, Usable, store
  <2>3. NumPeersBounded' /\ StoredOnce'
    BY <1>0, <2>0 DEF TypeOK, StoredOnce, peerstore_have_peer, Return, Usable, store
  <2>4. NeverUndefined'
    BY <1>0, <2>0 DEF TypeOK, SizeInv, ArrayFits, NeverUndefined, NoFailure, Bounds, peerstore_have_peer, Return, Usable, store
  <2> QED
    BY <2>1, <2>2, <2>3, <2>4
<1>6. CASE \E c \in Callers : peerstore_validate_peer_id(c)
  <2>0. PICK c \in Callers : peerstore_validate_peer_id(c)
    BY <1>6
  <2>1. /\ \A b, d \in Callers : pc'[b] # "idle" /\ pc'[d] # "idle" => b = d
        /\ \A b \in Callers : pc'[b] # "idle" => Len(peers') < MaxPeers
    <3>1. peers' = peers /\ pc[c] = "validate"
      BY <2>0 DEF peerstore_validate_peer_id, store
    <3>2. pc' = [pc EXCEPT ![c] = "store"] \/ pc' = [pc EXCEPT ![c] = "idle"]
      BY <2>0 DEF peerstore_validate_peer_id, Return
    <3>3. \A d \in Callers : d # c => pc'[d] = pc[d]
      BY <1>0, <3>2 DEF TypeOK
    <3>4. \A d \in Callers : pc'[d] # "idle" => pc[d] # "idle"
      BY <3>1, <3>3
    <3> QED
      BY <3>1, <3>4
  <2>2. \A b \in Callers : pc'[b] \in {"validate", "store"} =>
          \A i \in DOMAIN peers' : ~MustMatch(peers'[i], arg'[b].id)
    <3>1. UNCHANGED peers /\ pc[c] = "validate"
      BY <2>0 DEF peerstore_validate_peer_id, store
    <3>2. CASE Return(c, FALSE)
      BY <1>0, <3>1, <3>2 DEF TypeOK, Return
    <3>3. CASE pc' = [pc EXCEPT ![c] = "store"] /\ arg' = arg
      BY <1>0, <3>1, <3>3 DEF TypeOK
    <3> QED
      BY Zenon, <2>0, <3>2, <3>3 DEF peerstore_validate_peer_id
  <2>3. NumPeersBounded' /\ StoredOnce'
    BY <1>0, <2>0 DEF TypeOK, StoredOnce, peerstore_validate_peer_id, Return, store
  <2>4. NeverUndefined'
    BY <1>0, <2>0 DEF TypeOK, SizeInv, ArrayFits, NeverUndefined, NoFailure, Bounds, peerstore_validate_peer_id, Return, store
  <2> QED
    BY <2>1, <2>2, <2>3, <2>4
<1>7. CASE \E c \in Callers : ValidationFails(c)
  <2>0. PICK c \in Callers : ValidationFails(c)
    BY <1>7
  <2>1. /\ \A b, d \in Callers : pc'[b] # "idle" /\ pc'[d] # "idle" => b = d
        /\ \A b \in Callers : pc'[b] # "idle" => Len(peers') < MaxPeers
    BY <1>0, <2>0 DEF TypeOK, ValidationFails, Return, Spend, store
  <2>2. \A b \in Callers : pc'[b] \in {"validate", "store"} =>
          \A i \in DOMAIN peers' : ~MustMatch(peers'[i], arg'[b].id)
    BY <1>0, <2>0 DEF TypeOK, ValidationFails, Return, Spend, store
  <2>3. NumPeersBounded' /\ StoredOnce'
    BY <1>0, <2>0 DEF TypeOK, StoredOnce, ValidationFails, Return, Spend, store
  <2>4. NeverUndefined'
    BY <1>0, <2>0 DEF TypeOK, SizeInv, ArrayFits, NeverUndefined, NoFailure, Bounds, ValidationFails, Return, Spend, store
  <2> QED
    BY <2>1, <2>2, <2>3, <2>4
<1>8. CASE \E c \in Callers : StorePeer(c)
  <2>0. PICK c \in Callers : StorePeer(c)
    BY <1>8
  <2>1. /\ peers' = Append(peers, arg[c]) /\ pc[c] = "store"
        /\ pc' = [pc EXCEPT ![c] = "idle"] /\ UNCHANGED budget
    BY <2>0 DEF StorePeer, Return
  <2>2. \A d \in Callers : pc'[d] = "idle"
    BY <1>0, <2>1 DEF TypeOK
  <2>3. /\ Len(peers') = Len(peers) + 1
        /\ DOMAIN peers' = DOMAIN peers \cup {Len(peers) + 1}
        /\ \A i \in DOMAIN peers : peers'[i] = peers[i] /\ i \in 1 .. Len(peers)
        /\ peers'[Len(peers) + 1] = arg[c]
    <3>1. arg[c] \in Records
      BY <2>1 DEF IInv, CallInv
    <3>2. peers \in Seq(Records)
      BY <1>0 DEF TypeOK
    <3> QED
      BY <2>1, <3>1, <3>2, Appended
  <2>4. NumPeersBounded'
    <3>1. Len(peers) < MaxPeers
      BY <2>1
    <3>2. Len(peers) \in Nat /\ MaxPeers \in Nat
      BY <1>0, PeerStoreAssumption DEF TypeOK
    <3> QED
      BY <2>3, <3>1, <3>2
  <2>5. StoredOnce'
    <3>1. Len(peers) \in Nat
      BY <1>0 DEF TypeOK
    <3> SUFFICES ASSUME NEW i \in DOMAIN peers', NEW j \in DOMAIN peers', i < j
                 PROVE  ~MustMatch(peers'[i], peers'[j].id)
      BY DEF StoredOnce
    <3>2. i \in DOMAIN peers /\ peers'[i] = peers[i]
      BY <2>3, <3>1
    <3>3. CASE j \in DOMAIN peers
      BY <2>3, <3>2, <3>3 DEF StoredOnce
    <3>4. CASE j = Len(peers) + 1
      BY <2>1, <2>3, <3>2, <3>4
    <3> QED
      BY Zenon, <2>3, <3>3, <3>4
  <2>6. NeverUndefined'
    BY <1>0, <2>0, <2>4 DEF NeverUndefined, NoFailure, ArrayFits, StorePeer, Usable
  <2> QED
    BY <2>2, <2>4, <2>5, <2>6
<1>9. CASE \E c \in Callers : ResizeFails(c)
  <2>0. PICK c \in Callers : ResizeFails(c)
    BY <1>9
  <2>1. /\ \A b, d \in Callers : pc'[b] # "idle" /\ pc'[d] # "idle" => b = d
        /\ \A b \in Callers : pc'[b] # "idle" => Len(peers') < MaxPeers
    BY <1>0, <2>0 DEF TypeOK, ResizeFails, Return, Spend
  <2>2. \A b \in Callers : pc'[b] \in {"validate", "store"} =>
          \A i \in DOMAIN peers' : ~MustMatch(peers'[i], arg'[b].id)
    BY <1>0, <2>0 DEF TypeOK, ResizeFails, Return, Spend
  <2>3. NumPeersBounded' /\ StoredOnce'
    BY <1>0, <2>0 DEF TypeOK, StoredOnce, ResizeFails, Return, Spend
  <2>4. NeverUndefined'
    BY <1>0, <2>0 DEF TypeOK, SizeInv, ArrayFits, NeverUndefined, NoFailure, Bounds, ResizeFails, Return, Spend
  <2> QED
    BY <2>1, <2>2, <2>3, <2>4
<1>10. CASE \E c \in Callers : KeyAllocFails(c)
  <2>0. PICK c \in Callers : KeyAllocFails(c)
    BY <1>10
  <2>1. /\ \A b, d \in Callers : pc'[b] # "idle" /\ pc'[d] # "idle" => b = d
        /\ \A b \in Callers : pc'[b] # "idle" => Len(peers') < MaxPeers
    BY <1>0, <2>0 DEF TypeOK, KeyAllocFails, Return, Spend
  <2>2. \A b \in Callers : pc'[b] \in {"validate", "store"} =>
          \A i \in DOMAIN peers' : ~MustMatch(peers'[i], arg'[b].id)
    BY <1>0, <2>0 DEF TypeOK, KeyAllocFails, Return, Spend
  <2>3. NumPeersBounded' /\ StoredOnce'
    BY <1>0, <2>0 DEF TypeOK, StoredOnce, KeyAllocFails, Return, Spend
  <2>4. NeverUndefined'
    BY <1>0, <2>0 DEF TypeOK, SizeInv, ArrayFits, NeverUndefined, NoFailure, Bounds, KeyAllocFails, Return, Spend
  <2> QED
    BY <2>1, <2>2, <2>3, <2>4
<1>11. CASE \E c \in Callers : IdAllocFails(c)
  <2>0. PICK c \in Callers : IdAllocFails(c)
    BY <1>11
  <2>1. /\ \A b, d \in Callers : pc'[b] # "idle" /\ pc'[d] # "idle" => b = d
        /\ \A b \in Callers : pc'[b] # "idle" => Len(peers') < MaxPeers
    BY <1>0, <2>0 DEF TypeOK, IdAllocFails, Spend
  <2>2. \A b \in Callers : pc'[b] \in {"validate", "store"} =>
          \A i \in DOMAIN peers' : ~MustMatch(peers'[i], arg'[b].id)
    BY <1>0, <2>0 DEF TypeOK, IdAllocFails, Spend
  <2>3. NumPeersBounded' /\ StoredOnce'
    BY <1>0, <2>0 DEF TypeOK, StoredOnce, IdAllocFails, Spend
  <2>4. NeverUndefined'
    BY <1>0, <2>0 DEF TypeOK, SizeInv, ArrayFits, NeverUndefined, NoFailure, Bounds, IdAllocFails, Spend
  <2> QED
    BY <2>1, <2>2, <2>3, <2>4
<1>12. CASE \E id \in Claims, len \in OutLens : peerstore_get_public_key(id, len)
  <2>0. PICK id \in Claims, len \in OutLens : peerstore_get_public_key(id, len)
    BY <1>12
  <2>1. /\ \A b, d \in Callers : pc'[b] # "idle" /\ pc'[d] # "idle" => b = d
        /\ \A b \in Callers : pc'[b] # "idle" => Len(peers') < MaxPeers
    BY <1>0, <2>0 DEF TypeOK, peerstore_get_public_key, Usable
  <2>2. \A b \in Callers : pc'[b] \in {"validate", "store"} =>
          \A i \in DOMAIN peers' : ~MustMatch(peers'[i], arg'[b].id)
    BY <1>0, <2>0 DEF TypeOK, peerstore_get_public_key, Usable
  <2>3. NumPeersBounded' /\ StoredOnce'
    BY <1>0, <2>0 DEF TypeOK, StoredOnce, peerstore_get_public_key, Usable
  <2>4. NeverUndefined'
    BY <1>0, <2>0 DEF TypeOK, SizeInv, ArrayFits, NeverUndefined, NoFailure, Bounds, peerstore_get_public_key, Usable
  <2> QED
    BY <2>1, <2>2, <2>3, <2>4
<1>13. CASE UNCHANGED vars
  <2>1. /\ \A b, d \in Callers : pc'[b] # "idle" /\ pc'[d] # "idle" => b = d
        /\ \A b \in Callers : pc'[b] # "idle" => Len(peers') < MaxPeers
    BY <1>0, <1>13 DEF TypeOK, vars, store
  <2>2. \A b \in Callers : pc'[b] \in {"validate", "store"} =>
          \A i \in DOMAIN peers' : ~MustMatch(peers'[i], arg'[b].id)
    BY <1>0, <1>13 DEF TypeOK, vars, store
  <2>3. NumPeersBounded' /\ StoredOnce'
    BY <1>0, <1>13 DEF TypeOK, StoredOnce, vars, store
  <2>4. NeverUndefined'
    BY <1>0, <1>13 DEF TypeOK, SizeInv, ArrayFits, NeverUndefined, NoFailure, Bounds, vars, store
  <2> QED
    BY <2>1, <2>2, <2>3, <2>4
<1> QED
  BY Zenon, <1>1, <1>2, <1>3, <1>4, <1>5, <1>6, <1>7, <1>8, <1>9, <1>10, <1>11, <1>12, <1>13 DEF Next, Insert, Finished

-----------------------------------------------------------------------------
\* IInv holds in every reachable state of the store, whoever calls it.
THEOREM InductiveInvariant == Spec => []IInv
<1>1. Init => IInv
  BY InitIInv
<1>2. IInv /\ [Next]_vars => IInv'
  BY IInvStep
<1> QED
  BY <1>1, <1>2, PTL DEF Spec

\* The variables of the store keep their types.
THEOREM TypeCorrect == Spec => []TypeOK
<1>1. IInv => TypeOK
  BY DEF IInv
<1> QED
  BY <1>1, InductiveInvariant, PTL

\* Every record of the store passed peerstore_validate_peer_id, for any
\* number of concurrent inserts.
THEOREM AllVerified == Spec => []Verified
<1>1. IInv => Verified
  BY DEF IInv
<1> QED
  BY <1>1, InductiveInvariant, PTL

\* As long as num_peers has not passed max_peers and no allocation failed,
\* peerstore_resize_if_needed has made room for every record, for any
\* max_peers and any number of concurrent inserts.
THEOREM ResizeKeepsUp == Spec => []ArrayFits
<1>1. IInv => ArrayFits
  BY DEF IInv
<1> QED
  BY <1>1, InductiveInvariant, PTL

\* A program that serialises its inserts keeps num_peers within max_peers,
\* stores no peer twice and stays inside the array.
THEOREM SerialIsSafe ==
  ASSUME Serial
  PROVE  Spec => [](NumPeersBounded /\ StoredOnce /\ NeverUndefined)
<1>1. Init => SerialInv
  BY PeerStoreAssumption DEF Init, SerialInv, NumPeersBounded, StoredOnce, NeverUndefined
<1>2. IInv /\ IInv' /\ SerialInv /\ [Next]_vars => SerialInv'
  BY SerialStep
<1>3. SerialInv => NumPeersBounded /\ StoredOnce /\ NeverUndefined
  BY DEF SerialInv
<1> QED
  BY <1>1, <1>2, <1>3, InductiveInvariant, PTL DEF Spec

\* A program that serialises its inserts never has the store read or write outside
\* its array as long as no allocation fails: resize_peerstore has always made room.
THEOREM SerialStaysInArray ==
  ASSUME Serial
  PROVE  Spec => []NeverUndefined
  BY SerialIsSafe, PTL
-----------------------------------------------------------------------------
\* The ids that callers come up with are as long as the ids computed from keys.
OneLength ==
  \E n \in Nat : /\ \A id \in Claims : Len(id) = n
                /\ \A k \in Keys : Len(PeerId[k]) = n

\* memcmp over the whole of two ids of one length decides their equality.
LEMMA AgreeWhole ==
  ASSUME NEW s \in Seq(Nat), NEW t \in Seq(Nat), Len(s) = Len(t), Agree(s, t, Len(s))
  PROVE  s = t
<1>1. Len(s) \in Nat /\ DOMAIN s = 1 .. Len(s) /\ DOMAIN t = 1 .. Len(s)
  OBVIOUS
<1>2. \A i \in 1 .. Len(s) : s[i] = t[i]
  BY <1>1 DEF Agree
<1>3. s = [i \in 1 .. Len(s) |-> s[i]] /\ t = [i \in 1 .. Len(s) |-> t[i]]
  BY <1>1
<1> QED
  BY Zenon, <1>2, <1>3

LEMMA KeyStep ==
  ASSUME OneLength, IInv, KeyOfItsId, [Next]_vars
  PROVE  KeyOfItsId'
<1>1. CASE UNCHANGED got
  BY <1>1 DEF KeyOfItsId
<1>2. CASE \E id \in Claims, len \in OutLens : peerstore_get_public_key(id, len)
  <2>1. PICK id \in Claims, len \in OutLens : peerstore_get_public_key(id, len)
    BY <1>2
  <2> SUFFICES ASSUME NEW hits \in Hits(id), NEW i \in Last(hits, len),
                      got' = [id |-> id, key |-> peers[i].key]
               PROVE  KeyOfItsId'
    BY <2>1, <1>1 DEF peerstore_get_public_key
  <2>2. i \in DOMAIN peers /\ MayMatch(peers[i], id)
    BY DEF Hits, Last, MustMatch
  <2>3. peers \in Seq(Records) /\ Valid(peers[i].id, peers[i].key)
    BY <2>2 DEF IInv, TypeOK, Verified
  <2>4. peers[i] \in Records
    BY <2>2, <2>3
  <2>5. peers[i].id \in Claims /\ peers[i].key \in Keys
    BY <2>4 DEF Records
  <2>6. /\ peers[i].id \in Seq(Nat) /\ id \in Seq(Nat) /\ PeerId[peers[i].key] \in Seq(Nat)
        /\ Len(peers[i].id) = Len(id) /\ Len(peers[i].id) = Len(PeerId[peers[i].key])
    BY <2>5, PeerStoreAssumption DEF OneLength
  <2>7. peers[i].id = id
    BY Zenon, <2>2, <2>6, AgreeWhole DEF MayMatch
  <2>8. peers[i].id = PeerId[peers[i].key]
    BY Zenon, <2>3, <2>6, AgreeWhole DEF Valid
  <2> QED
    BY <2>7, <2>8 DEF KeyOfItsId
<1>3. CASE peerstore_new_peerstore \/ NewFails \/ peerstore_free_peerstore
  BY <1>1, <1>3 DEF peerstore_new_peerstore, NewFails, peerstore_free_peerstore
<1>4. ASSUME NEW c \in Callers, Insert(c) PROVE KeyOfItsId'
  <2>1. CASE \E id \in Claims, key \in Keys : peerstore_insert_peer(c, id, key)
    BY <1>1, <2>1 DEF peerstore_insert_peer
  <2>2. CASE peerstore_have_peer(c)
    BY <1>1, <2>2 DEF peerstore_have_peer
  <2>3. CASE peerstore_validate_peer_id(c) \/ ValidationFails(c)
    BY Zenon, <1>1, <2>3 DEF peerstore_validate_peer_id, ValidationFails
  <2>4. CASE StorePeer(c) \/ ResizeFails(c) \/ KeyAllocFails(c) \/ IdAllocFails(c)
    BY Zenon, <1>1, <2>4 DEF StorePeer, ResizeFails, KeyAllocFails, IdAllocFails
  <2> QED
    BY <1>4, <2>1, <2>2, <2>3, <2>4 DEF Insert
<1>5. CASE UNCHANGED vars
  BY <1>1, <1>5 DEF vars
<1> QED
  BY <1>2, <1>3, <1>4, <1>5 DEF Next, Finished

\* When all ids have one length, as SHA-256 gives them, peerstore_get_public_key hands
\* out a key only for the id computed from it, for any number of concurrent inserts
\* and whatever the buffers of the callers hold.
THEOREM KeyIsOfItsId ==
  ASSUME OneLength
  PROVE  Spec => []KeyOfItsId
<1>1. Init => KeyOfItsId
  BY DEF Init, KeyOfItsId
<1>2. IInv /\ KeyOfItsId /\ [Next]_vars => KeyOfItsId'
  BY KeyStep
<1> QED
  BY <1>1, <1>2, InductiveInvariant, PTL DEF Spec
-----------------------------------------------------------------------------
\* The peers of a store.
Known == {peers[i] : i \in DOMAIN peers}

\* There are no more peers than records.
LEMMA KnownBounded ==
  ASSUME peers \in Seq(Records)
  PROVE  IsFiniteSet(Known) /\ Cardinality(Known) \in Nat /\ Cardinality(Known) <= Len(peers)
<1> DEFINE f == [i \in 1 .. Len(peers) |-> peers[i]]
<1>1. Len(peers) \in Nat /\ DOMAIN peers = 1 .. Len(peers)
  OBVIOUS
<1>2. IsFiniteSet(1 .. Len(peers)) /\ Cardinality(1 .. Len(peers)) = Len(peers)
  BY <1>1, FS_Interval
<1>3. f \in Surjection(1 .. Len(peers), Known)
  BY <1>1 DEF Surjection, Known
<1>4. IsFiniteSet(Known) /\ Cardinality(Known) <= Cardinality(1 .. Len(peers))
  BY <1>2, <1>3, FS_Surjection
<1> QED
  BY <1>2, <1>4, FS_CardinalityType

\* The instance of PeerBook counts the way FiniteSets does.
LEMMA SameCardinality == \A S : Book!Cardinality(S) = Cardinality(S)
  BY DEF Book!Cardinality, Cardinality

LEMMA StepIsBookStep ==
  ASSUME Serial, IInv, SerialInv, [Next]_vars
  PROVE  [Book!Next]_(Book!vars)
<1> USE PeerStoreAssumption
<1>1. CASE UNCHANGED <<life, peers>>
  BY <1>1 DEF Book!vars
<1>2. CASE peerstore_new_peerstore
  BY <1>2 DEF peerstore_new_peerstore, Book!Next, Book!Open
<1>3. CASE NewFails
  BY <1>1, <1>3 DEF NewFails, store
<1>4. CASE peerstore_free_peerstore
  <2>1. CASE memory = "null" /\ peers # <<>>
    BY <1>1, <1>4, <2>1 DEF peerstore_free_peerstore
  <2>2. CASE ~(memory = "null" /\ peers # <<>>)
    BY <1>4, <2>2 DEF peerstore_free_peerstore, Usable, Book!Next, Book!Free
  <2> QED
    BY <2>1, <2>2
<1>5. ASSUME NEW c \in Callers, Insert(c) PROVE [Book!Next]_(Book!vars)
  <2>1. CASE StorePeer(c)
    <3>1. peers \in Seq(Records) /\ arg[c] \in Records /\ Valid(arg[c].id, arg[c].key)
      BY <2>1 DEF IInv, TypeOK, CallInv, StorePeer
    <3>2. Len(peers) < MaxPeers /\ \A i \in DOMAIN peers : ~MustMatch(peers[i], arg[c].id)
      BY <2>1 DEF SerialInv, StorePeer
    <3>3. Cardinality(Known) < MaxPeers
      BY <3>1, <3>2, KnownBounded
    <3>4. {peers'[i] : i \in DOMAIN peers'} = Known \cup {arg[c]}
      <4>1. peers' = Append(peers, arg[c])
        BY <2>1 DEF StorePeer
      <4>2. DOMAIN peers' = DOMAIN peers \cup {Len(peers) + 1}
        BY <3>1, <4>1
      <4>3. /\ \A i \in DOMAIN peers : peers'[i] = peers[i]
            /\ peers'[Len(peers) + 1] = arg[c]
        BY <3>1, <4>1
      <4> QED
        BY Zenon, <4>2, <4>3 DEF Known
    <3>5. PICK r \in Records : r = arg[c]
      BY <3>1
    <3>6. Book!Cardinality(Known) < MaxPeers
      BY <3>3, SameCardinality
    <3>7. Book!Learn(r)
      BY Zenon, <2>1, <3>1, <3>2, <3>4, <3>5, <3>6 DEF Book!Learn, StorePeer, Usable, Known
    <3> QED
      BY <3>7 DEF Book!Next
  <2>2. CASE ~StorePeer(c)
    BY Zenon, <1>1, <1>5, <2>2 DEF Insert, peerstore_insert_peer, peerstore_have_peer, store,
      peerstore_validate_peer_id, ValidationFails, ResizeFails, KeyAllocFails, IdAllocFails
  <2> QED
    BY <2>1, <2>2
<1>6. ASSUME NEW id \in Claims, NEW len \in OutLens, peerstore_get_public_key(id, len)
      PROVE  [Book!Next]_(Book!vars)
  BY <1>1, <1>6 DEF peerstore_get_public_key
<1>7. CASE UNCHANGED vars
  BY <1>1, <1>7 DEF vars, store
<1> QED
  BY <1>2, <1>3, <1>4, <1>5, <1>6, <1>7 DEF Next, Finished

\* With serialised inserts the array, its resizing and its locks implement the
\* bounded set of verified peers that peerstore.h describes, also when
\* allocations fail.
THEOREM SerialStoreIsBook ==
  ASSUME Serial
  PROVE  Spec => KeepsBook
<1>1. Init => Book!Init
  BY DEF Init, Book!Init
<1>2. Init => SerialInv
  BY PeerStoreAssumption DEF Init, SerialInv, NumPeersBounded, StoredOnce, NeverUndefined
<1>3. IInv /\ IInv' /\ SerialInv /\ [Next]_vars => SerialInv'
  BY SerialStep
<1>4. IInv /\ SerialInv /\ [Next]_vars => [Book!Next]_(Book!vars)
  BY StepIsBookStep
<1> QED
  BY <1>1, <1>2, <1>3, <1>4, InductiveInvariant, PTL DEF Spec, KeepsBook, Book!Spec
====
