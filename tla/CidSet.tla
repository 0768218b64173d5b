------------------------------- MODULE CidSet -------------------------------
(***************************************************************************)
(* The set of content ids of src/cid/set.c: a linked list whose first node  *)
(* always exists and holds no Cid while the set is empty.  The key of an    *)
(* entry is its hash; version and codec are carried along.                  *)
(*                                                                          *)
(* `list' is the sequence of nodes reachable through live memory, with the  *)
(* state of each node's Cid: "ok", "nocid" (the pointer is NULL), "nohash"  *)
(* (the hash pointer is NULL) or "freed".  `dangling' says that the last    *)
(* node's next points to a freed node.  A call that touches what is not     *)
(* there makes the behaviour undefined, and the model stops.                *)
(***************************************************************************)
EXTENDS Integers, SequencesExt

CONSTANTS Cids,      \* the ids that are added, looked up and removed
          MaxSet,    \* bound: longest list
          MaxFail    \* bound: failing allocations

VARIABLES phase,     \* "none", "live" or "undefined"
          list, dangling,
          expected,  \* the ids a caller knows to be in the set, from what calls returned
          fails,     \* allocations that have failed
          spoilt     \* a call was made that set.c does not survive

vars == <<phase, list, dangling, expected, fails, spoilt>>

Init == /\ phase = "none" /\ list = <<>> /\ dangling = FALSE
        /\ expected = {} /\ fails = 0 /\ spoilt = FALSE

Ok(cid) == [cid |-> cid, st |-> "ok"]

-----------------------------------------------------------------------------
(* Walking the list.  The hash is looked at only where its length matches.   *)

Touches(e, cid) == \/ e.st \in {"nocid", "freed"}
                   \/ e.st = "nohash" /\ Len(e.cid.hash) = Len(cid.hash)

Matches(e, cid) == e.st = "ok" /\ e.cid.hash = cid.hash

\* The node a search for cid stops at, 0 at the end of the list, or -1 when
\* the search leaves live memory.
Search(cid) ==
  LET stop == { i \in DOMAIN list : Touches(list[i], cid) \/ Matches(list[i], cid) }
  IN  IF stop = {} THEN (IF dangling THEN -1 ELSE 0)
      ELSE IF Touches(list[Min(stop)], cid) THEN -1 ELSE Min(stop)

\* Code that visits every node.
WalksSafely == ~dangling /\ \A i \in DOMAIN list : list[i].st # "freed"

Undefined == phase' = "undefined" /\ UNCHANGED <<list, dangling, expected, fails, spoilt>>

\* The ids of the entries with another hash.
Without(cid) == { c \in expected : c.hash # cid.hash }

-----------------------------------------------------------------------------
ipfs_cid_set_new ==
  /\ phase = "none"
  /\ phase' = "live" /\ list' = <<>> /\ dangling' = FALSE
  /\ expected' = {} /\ spoilt' = FALSE
  /\ UNCHANGED fails

\* A known hash: with `visit' the entry stays, without it is overwritten.
ipfs_cid_set_add(cid, visit) ==
  LET i == IF list = <<>> THEN 0 ELSE Search(cid)
  IN  /\ phase = "live" /\ i >= 0
      /\ i = 0 => Len(list) < MaxSet
      /\ list' = IF i = 0 THEN Append(list, Ok(cid))
                 ELSE IF visit THEN list ELSE [list EXCEPT ![i] = Ok(cid)]
      /\ expected' = IF i # 0 /\ visit THEN expected ELSE Without(cid) \cup {cid}
      /\ UNCHANGED <<phase, dangling, fails, spoilt>>

\* The same with a failing allocation; the call returns -1.  The allocation is
\* the node's (where one is needed), the Cid's or the hash's.
AddFails(cid) ==
  LET i == IF list = <<>> THEN 0 ELSE Search(cid)
      Bad(st) == [cid |-> cid, st |-> st]
  IN  /\ phase = "live" /\ i >= 0 /\ fails < MaxFail
      /\ list' \in IF list = <<>> THEN {<<>>, <<Bad("freed")>>}
                   ELSE IF i = 0 THEN {list, Append(list, Bad("nocid")),
                                             Append(list, Bad("nohash"))}
                   ELSE {[list EXCEPT ![i] = Bad("nohash")]}
      /\ fails' = fails + 1
      /\ spoilt' = (spoilt \/ list' # list)
      /\ UNCHANGED <<phase, dangling, expected>>

AddUndefined(cid) == phase = "live" /\ list # <<>> /\ Search(cid) = -1 /\ Undefined

ipfs_cid_set_has(cid) == list # <<>> /\ Search(cid) > 0

\* Looking up, like every search, may leave live memory.
HasUndefined(cid) == phase = "live" /\ list # <<>> /\ Search(cid) = -1 /\ Undefined

\* Mutant: a node is freed and stays linked.
ipfs_cid_set_remove_Linked(cid) ==
  LET i == IF list = <<>> THEN 0 ELSE Search(cid)
  IN  /\ phase = "live" /\ i > 1
      /\ list' = SubSeq(list, 1, i - 1) /\ dangling' = TRUE
      /\ expected' = Without(cid)
      /\ UNCHANGED <<phase, fails, spoilt>>

\* Mutant: the entry behind the removed one goes as well.
ipfs_cid_set_remove_Two(cid) ==
  LET i == IF list = <<>> THEN 0 ELSE Search(cid)
  IN  /\ phase = "live" /\ i > 1
      /\ list' = SubSeq(list, 1, i - 1) \o SubSeq(list, i + 2, Len(list))
      /\ expected' = Without(cid)
      /\ UNCHANGED <<phase, dangling, fails, spoilt>>

\* The first node is the set itself and stays: it takes over the second node's
\* Cid, and keeps its next pointer although the second node is freed.
ipfs_cid_set_remove(cid) ==
  LET i == IF list = <<>> THEN 0 ELSE Search(cid)
      first == i = 1 /\ Len(list) > 1
  IN  /\ phase = "live" /\ i > 0 /\ ~(i = 1 /\ Len(list) = 1 /\ dangling)
      /\ list' = IF ~first THEN RemoveAt(list, i)
                 ELSE IF list[2].st = "nocid" THEN <<>> ELSE <<list[2]>>
      /\ dangling' = (dangling \/ first)
      /\ spoilt' = (spoilt \/ first)
      /\ expected' = Without(cid)
      /\ UNCHANGED <<phase, fails>>

RemoveUndefined(cid) ==
  /\ phase = "live" /\ list # <<>>
  /\ Search(cid) = -1 \/ (Search(cid) = 1 /\ Len(list) = 1 /\ dangling)
  /\ Undefined

ipfs_cid_set_len == Len(list)

\* ipfs_cid_set_foreach and ipfs_cid_set_destroy visit every node.
WalkUndefined == phase = "live" /\ ~WalksSafely /\ Undefined

\* The loop counts its bound up and not its index, and runs off the list.
ipfs_cid_set_keys ==
  /\ phase = "live" /\ list # <<>>
  /\ phase' = "undefined" /\ spoilt' = TRUE
  /\ UNCHANGED <<list, dangling, expected, fails>>

ipfs_cid_set_destroy ==
  /\ phase = "live" /\ WalksSafely
  /\ phase' = "none" /\ list' = <<>> /\ expected' = {}
  /\ UNCHANGED <<dangling, fails, spoilt>>

Next ==
  \/ ipfs_cid_set_new
  \/ \E cid \in Cids, visit \in BOOLEAN : ipfs_cid_set_add(cid, visit)
  \/ \E cid \in Cids : \/ AddFails(cid) \/ AddUndefined(cid) \/ HasUndefined(cid)
                        \/ ipfs_cid_set_remove(cid) \/ RemoveUndefined(cid)
  \/ WalkUndefined \/ ipfs_cid_set_keys \/ ipfs_cid_set_destroy

Spec == Init /\ [][Next]_vars

-----------------------------------------------------------------------------
\* As long as no call has spoilt it, the list holds exactly the ids that the
\* calls' results promise, each once, with the version and codec added last,
\* and lookup and length agree with it.
SetExact ==
  phase = "live" /\ ~spoilt =>
    /\ { list[i] : i \in DOMAIN list } = { Ok(c) : c \in expected }
    /\ ipfs_cid_set_len = Cardinality(expected)
    /\ \A c \in Cids :
         ipfs_cid_set_has(c) <=> \E e \in expected : e.hash = c.hash

\* No call leaves live memory unless one before it left the list spoilt:
\* a removal of the first of several entries, an add that ran out of memory,
\* or ipfs_cid_set_keys.
UndefinedOnlySpoilt == phase = "undefined" => spoilt
=============================================================================
