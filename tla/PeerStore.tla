------------------------------- MODULE PeerStore -------------------------------
(***************************************************************************)
(* The in-memory peer store of src/peerstore/peerstore.c, called by any    *)
(* number of threads (the RPC handlers of the socket server run on a       *)
(* thread pool).  peerstore_insert_peer looks at the store three times:    *)
(* num_peers without the lock, peerstore_have_peer under the read lock, and *)
(* the append under the write lock; other threads run in between.          *)
(***************************************************************************)
EXTENDS Naturals, Sequences, FiniteSets

CONSTANTS
  Callers,       \* threads that call the store
  Keys,          \* public keys
  PeerId,        \* PeerId[k]: the peer id computed from key k, a sequence
  KeyLen,        \* KeyLen[k]: the length of key k
  Claims,        \* the peer ids callers come up with
  OutLens,       \* lengths of the buffers peerstore_get_public_key fills
  MaxPeers,      \* max_peers
  Serial,        \* TRUE when the program serialises its inserts
  MaxAllocFail,  \* bound: allocations that fail
  MaxCalls       \* bound: calls of peerstore_insert_peer

ASSUME PeerStoreAssumption ==
  /\ PeerId \in [Keys -> Seq(Nat)] /\ Claims \subseteq Seq(Nat)
  /\ KeyLen \in [Keys -> Nat] /\ OutLens \subseteq Nat
  /\ {MaxPeers, MaxAllocFail, MaxCalls} \subseteq Nat
  /\ Serial \in BOOLEAN

VARIABLES
  life,          \* "none", "open" or "freed"
  memory,        \* "ok"; "null": peers = NULL; "undefined": out of bounds
  peers,         \* the records appended so far; num_peers is Len(peers)
  peers_size,    \* the capacity of the array
  pc,            \* pc[c]: where caller c is in peerstore_insert_peer
  arg,           \* arg[c]: the id and the key of its call, or NoCall
  ret,           \* ret[c]: what its last call returned
  got,           \* the last peer id whose key was asked for and found
  budget         \* what is left of the bounds

store == <<life, memory, peers, peers_size>>
vars == <<store, pc, arg, ret, got, budget>>

NoCall == [id |-> <<>>, key |-> CHOOSE k \in Keys : TRUE]
Records == [id : Claims, key : Keys]
Bounds == {"alloc", "calls"}
Spend(what) == budget[what] > 0 /\ budget' = [budget EXCEPT ![what] = @ - 1]

(* memcmp of n bytes of s and t: the bytes that both have must be equal.   *)
Agree(s, t, n) ==
  \A i \in 1 .. n : i \in DOMAIN s /\ i \in DOMAIN t => s[i] = t[i]

(* A comparison that reads past the end of the given id compares whatever  *)
(* the memory holds there.                                                 *)
MayMatch(r, id) == Agree(r.id, id, Len(r.id))
MustMatch(r, id) == MayMatch(r, id) /\ Len(r.id) <= Len(id)

(* peerstore_validate_peer_id, without its allocations.                    *)
Valid(id, key) == Agree(id, PeerId[key], Len(id))
-----------------------------------------------------------------------------
Init ==
  /\ life = "none" /\ memory = "ok"
  /\ peers = <<>> /\ peers_size = 0
  /\ pc = [c \in Callers |-> "idle"]
  /\ arg = [c \in Callers |-> NoCall]
  /\ ret = [c \in Callers |-> FALSE]
  /\ got = NoCall
  /\ budget = [b \in Bounds |-> IF b = "alloc" THEN MaxAllocFail ELSE MaxCalls]

peerstore_new_peerstore ==
  /\ life = "none"
  /\ life' = "open" /\ peers_size' = 2
  /\ UNCHANGED <<memory, peers, pc, arg, ret, got, budget>>

\* One of the two allocations fails: NULL.
NewFails ==
  /\ life = "none"
  /\ Spend("alloc")
  /\ UNCHANGED <<store, pc, arg, ret, got>>

\* A caller touches the store only while it is intact: what happens after an
\* access out of bounds, or through the null pointer, is undefined.
Usable == life = "open" /\ memory # "undefined"

Return(c, ok) ==
  /\ pc' = [pc EXCEPT ![c] = "idle"]
  /\ arg' = [arg EXCEPT ![c] = NoCall]
  /\ ret' = [ret EXCEPT ![c] = ok]

(* ----------------------- peerstore_insert_peer ------------------------- *)

\* The call, and num_peers == max_peers, read without the lock.
peerstore_insert_peer(c, id, key) ==
  /\ Usable /\ pc[c] = "idle"
  /\ Serial => \A d \in Callers : pc[d] = "idle"
  /\ Spend("calls")
  /\ IF Len(peers) = MaxPeers THEN Return(c, FALSE)
     ELSE /\ pc' = [pc EXCEPT ![c] = "have"]
          /\ arg' = [arg EXCEPT ![c] = [id |-> id, key |-> key]]
          /\ UNCHANGED ret
  /\ UNCHANGED <<store, got>>

\* Mutant: the result of the search is not used.
peerstore_have_peer_Ignored(c) ==
  /\ Usable /\ pc[c] = "have"
  /\ pc' = [pc EXCEPT ![c] = "validate"]
  /\ UNCHANGED <<store, arg, ret, got, budget>>

\* peerstore_have_peer and the early return.  With peers = NULL the search
\* reads through the null pointer as soon as there is an entry to look at.
peerstore_have_peer(c) ==
  /\ Usable /\ pc[c] = "have"
  /\ \/ /\ memory = "null" /\ peers # <<>>
        /\ memory' = "undefined"
        /\ UNCHANGED <<life, peers, peers_size, pc, arg, ret>>
     \/ /\ memory = "ok" \/ peers = <<>>
        /\ \E found \in BOOLEAN :
             /\ (\E i \in DOMAIN peers : MustMatch(peers[i], arg[c].id)) => found
             /\ found => \E i \in DOMAIN peers : MayMatch(peers[i], arg[c].id)
             /\ IF found THEN Return(c, FALSE)
                ELSE pc' = [pc EXCEPT ![c] = "validate"] /\ UNCHANGED <<arg, ret>>
        /\ UNCHANGED store
  /\ UNCHANGED <<got, budget>>

\* Mutant: any key goes with any id.
peerstore_validate_peer_id_Always(c) ==
  /\ Usable /\ pc[c] = "validate"
  /\ pc' = [pc EXCEPT ![c] = "store"]
  /\ UNCHANGED <<store, arg, ret, got, budget>>

peerstore_validate_peer_id(c) ==
  /\ Usable /\ pc[c] = "validate"
  /\ IF Valid(arg[c].id, arg[c].key)
     THEN pc' = [pc EXCEPT ![c] = "store"] /\ UNCHANGED <<arg, ret>>
     ELSE Return(c, FALSE)
  /\ UNCHANGED <<store, got, budget>>

\* libp2p_new_peer_id_sha256 returned NULL.
ValidationFails(c) ==
  /\ Usable /\ pc[c] = "validate"
  /\ Spend("alloc")
  /\ Return(c, FALSE)
  /\ UNCHANGED <<store, got>>

Full == Len(peers) = peers_size
\* The size peerstore_resize_if_needed asks realloc for.
NewSize == IF peers_size * 2 > MaxPeers THEN MaxPeers ELSE peers_size * 2

\* Mutant: the array never grows.
SizeForAppend_Fixed == peers_size
SizeForAppend == IF Full THEN NewSize ELSE peers_size

\* The array after the resize.  realloc of a null pointer returns memory that
\* does not hold the earlier records, and a smaller array loses some.
Resized == IF memory = "null" \/ Len(peers) > SizeForAppend THEN "undefined" ELSE "ok"

\* The write-locked part: resize, copy the id and the key, append.  The record
\* goes to peers[num_peers], inside the array or not.
StorePeer(c) ==
  /\ Usable /\ pc[c] = "store"
  /\ peers_size' = SizeForAppend
  /\ memory' = IF Len(peers) = SizeForAppend THEN "undefined" ELSE Resized
  /\ peers' = Append(peers, arg[c])
  /\ Return(c, TRUE)
  /\ UNCHANGED <<life, got, budget>>

\* realloc failed: its result has already replaced the pointer.
ResizeFails(c) ==
  /\ Usable /\ pc[c] = "store" /\ Full
  /\ Spend("alloc")
  /\ memory' = "null"
  /\ Return(c, FALSE)
  /\ UNCHANGED <<life, peers, peers_size, got>>

\* No memory for the copy of the key; the array has been resized.
KeyAllocFails(c) ==
  /\ Usable /\ pc[c] = "store"
  /\ Spend("alloc")
  /\ peers_size' = SizeForAppend
  /\ memory' = Resized
  /\ Return(c, FALSE)
  /\ UNCHANGED <<life, peers, got>>

\* No memory for the copy of the id, which is not noticed: memcpy to NULL.
IdAllocFails(c) ==
  /\ Usable /\ pc[c] = "store"
  /\ Spend("alloc")
  /\ memory' = "undefined"
  /\ UNCHANGED <<life, peers, peers_size, pc, arg, ret, got>>

(* --------------------- peerstore_get_public_key ------------------------ *)

\* The position of the record whose key is left in the output, when hits are
\* the positions that match: the last one before a key that is too long.
Last(hits, len) ==
  {i \in hits : /\ \A j \in hits : j <= i => KeyLen[peers[j].key] <= len
                /\ \A j \in hits : j > i => \E k \in hits : k <= j /\ KeyLen[peers[k].key] > len}

\* Mutant: every record matches.
Hits_Any(id) == {DOMAIN peers}

\* What the comparisons may find.
Hits(id) ==
  LET must == {i \in DOMAIN peers : MustMatch(peers[i], id)}
  IN  {must \cup h : h \in SUBSET {i \in DOMAIN peers : MayMatch(peers[i], id)}}

peerstore_get_public_key(id, len) ==
  /\ Usable
  /\ \/ /\ memory = "null" /\ peers # <<>>
        /\ memory' = "undefined" /\ UNCHANGED got
     \/ /\ memory = "ok" \/ peers = <<>>
        /\ \E hits \in Hits(id) : \E i \in Last(hits, len) :
             got' = [id |-> id, key |-> peers[i].key]
        /\ UNCHANGED memory
  /\ UNCHANGED <<life, peers, peers_size, pc, arg, ret, budget>>

(* --------------------- peerstore_free_peerstore ------------------------ *)

\* The owner frees the store when no call is in progress.
peerstore_free_peerstore ==
  /\ Usable /\ \A c \in Callers : pc[c] = "idle"
  /\ IF memory = "null" /\ peers # <<>>
     THEN memory' = "undefined" /\ UNCHANGED <<life, peers>>
     ELSE life' = "freed" /\ peers' = <<>> /\ UNCHANGED memory
  /\ UNCHANGED <<peers_size, pc, arg, ret, got, budget>>

Finished == ~Usable /\ life # "none" /\ UNCHANGED vars

Insert(c) ==
  \/ \E id \in Claims, key \in Keys : peerstore_insert_peer(c, id, key)
  \/ peerstore_have_peer(c) \/ peerstore_validate_peer_id(c) \/ ValidationFails(c)
  \/ StorePeer(c) \/ ResizeFails(c) \/ KeyAllocFails(c) \/ IdAllocFails(c)

Next ==
  \/ peerstore_new_peerstore \/ NewFails \/ peerstore_free_peerstore
  \/ \E c \in Callers : Insert(c)
  \/ \E id \in Claims, len \in OutLens : peerstore_get_public_key(id, len)
  \/ Finished

Spec == Init /\ [][Next]_vars
-----------------------------------------------------------------------------
TypeOK ==
  /\ life \in {"none", "open", "freed"}
  /\ memory \in {"ok", "null", "undefined"}
  /\ peers \in Seq(Records)
  /\ peers_size \in Nat
  /\ pc \in [Callers -> {"idle", "have", "validate", "store"}]
  /\ arg \in [Callers -> Records \cup {NoCall}]
  /\ ret \in [Callers -> BOOLEAN]
  /\ got \in Records \cup {NoCall}
  /\ budget \in [Bounds -> Nat]

NoFailure == budget["alloc"] = MaxAllocFail

\* Every record that peerstore_insert_peer has stored passed
\* peerstore_validate_peer_id with the id and the key it was stored with,
\* whatever other threads did since the check.
Verified == \A i \in DOMAIN peers : Valid(peers[i].id, peers[i].key)

\* The doubling of peerstore_resize_if_needed keeps up: as long as num_peers
\* has not passed max_peers and no allocation has failed, every record was
\* written inside the array, however the inserts interleave.
ArrayFits ==
  NoFailure /\ Len(peers) <= MaxPeers /\ life = "open" =>
    memory = "ok" /\ Len(peers) <= peers_size

\* peerstore_get_public_key hands out a key only for the id that is computed
\* from that key, although it returns the last of several matches.
KeyOfItsId == got = NoCall \/ PeerId[got.key] = got.id

\* num_peers stays within max_peers.
NumPeersBounded == Len(peers) <= MaxPeers

\* A peer is stored once: peerstore_have_peer is asked before each insert.
StoredOnce ==
  \A i, j \in DOMAIN peers : i < j => ~MustMatch(peers[i], peers[j].id)

\* No call reads or writes outside the array unless an allocation has failed.
NeverUndefined == NoFailure => memory = "ok"
====
