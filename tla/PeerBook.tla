-------------------------------- MODULE PeerBook --------------------------------
(***************************************************************************)
(* What include/peerstore/peerstore.h promises of a peer store: a bounded  *)
(* set of peers, each known by one id, that only grows until it is freed.  *)
(***************************************************************************)
EXTENDS Naturals, FiniteSets

CONSTANTS
  Peers,           \* the id and key pairs there may be
  Allowed(_),      \* is this pair one that belongs together?
  Conflict(_, _),  \* do these two stand for the same peer?
  Capacity         \* the maximum number of allowed peers

VARIABLES
  life,            \* "none", "open" or "freed"
  known            \* the peers of the store

vars == <<life, known>>

Init == life = "none" /\ known = {}

Open == life = "none" /\ life' = "open" /\ UNCHANGED known

\* A new peer that belongs together, when there is room.
Learn(p) ==
  /\ life = "open"
  /\ Cardinality(known) < Capacity
  /\ Allowed(p) /\ \A q \in known : ~Conflict(q, p)
  /\ known' = known \cup {p}
  /\ UNCHANGED life

Free == life = "open" /\ life' = "freed" /\ known' = {}

Next == Open \/ (\E p \in Peers : Learn(p)) \/ Free

Spec == Init /\ [][Next]_vars
====
