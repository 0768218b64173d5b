------------------------------ MODULE CidSetProof ------------------------------
(***************************************************************************)
(* The linked list of src/cid/set.c is exactly the set its callers expect, *)
(* and no call leaves live memory, until a call spoils it; for any ids and *)
(* any number of entries and failing allocations.                          *)
(***************************************************************************)
EXTENDS CidSet, FiniteSetTheorems, SequenceTheorems, TLAPS

\* The list l is whole, has a node for each id in e and for nothing else, and no
\* two nodes have the same hash.
Lists(l, e) ==
  /\ l \in Seq({ Ok(c) : c \in e })
  /\ \A c \in e : \E i \in DOMAIN l : l[i] = Ok(c)
  /\ \A i, k \in DOMAIN l : l[i].cid.hash = l[k].cid.hash => i = k

\* A list that no call has spoilt.
GoodList == dangling = FALSE /\ Lists(list, expected)

IInv ==
  /\ spoilt \in BOOLEAN
  /\ phase \in {"none", "live", "undefined"}
  /\ phase = "undefined" => spoilt
  /\ phase = "live" /\ ~spoilt => GoodList
-----------------------------------------------------------------------------
LEMMA FunctionIsSeq == ASSUME NEW S, NEW n \in Nat, NEW f \in [1 .. n -> S] PROVE f \in Seq(S)
  BY Zenon, SeqDef

LEMMA OkFields == \A c : Ok(c).cid = c /\ Ok(c).st = "ok"
  BY DEF Ok

\* What is known of a list node by node.
LEMMA ListNodes ==
  ASSUME NEW l, NEW e, Lists(l, e)
  PROVE  /\ Len(l) \in Nat /\ DOMAIN l = 1 .. Len(l)
         /\ l \in [1 .. Len(l) -> { Ok(c) : c \in e }]
         /\ \A i \in 1 .. Len(l) : l[i].cid \in e /\ l[i] = Ok(l[i].cid) /\ l[i].st = "ok"
         /\ \A c \in e : \E i \in 1 .. Len(l) : l[i].cid = c
<1>1. Len(l) \in Nat /\ DOMAIN l = 1 .. Len(l) /\ l \in [1 .. Len(l) -> { Ok(c) : c \in e }]
  BY DEF Lists
<1>2. \A i \in 1 .. Len(l) : \E c \in e : l[i] = Ok(c)
  BY <1>1
<1>3. ASSUME NEW i \in 1 .. Len(l)
      PROVE  l[i].cid \in e /\ l[i] = Ok(l[i].cid) /\ l[i].st = "ok"
  <2>1. PICK c \in e : l[i] = Ok(c)
    BY <1>2
  <2> QED
    BY <2>1, OkFields
<1>4. ASSUME NEW c \in e PROVE \E i \in 1 .. Len(l) : l[i].cid = c
  <2>1. PICK i \in 1 .. Len(l) : l[i] = Ok(c)
    BY <1>1 DEF Lists
  <2> QED
    BY <2>1, OkFields
<1> QED
  BY <1>1, <1>3, <1>4

LEMMA SoleMin == ASSUME NEW i \in Int PROVE Min({i}) = i
<1>1. \E x \in {i} : \A y \in {i} : x =< y
  OBVIOUS
<1> QED
  BY <1>1 DEF Min

\* What the walk over a good list finds.
LEMMA SearchFinds ==
  ASSUME GoodList, NEW cid
  PROVE  /\ Search(cid) \in 0 .. Len(list)
         /\ Search(cid) = 0 => \A i \in DOMAIN list : list[i].cid.hash # cid.hash
         /\ Search(cid) # 0 => list[Search(cid)].cid.hash = cid.hash
<1>1. Len(list) \in Nat /\ DOMAIN list = 1 .. Len(list)
  BY ListNodes DEF GoodList
<1>2. \A i \in DOMAIN list : list[i].st = "ok"
  BY ListNodes DEF GoodList
<1> DEFINE stop == { i \in DOMAIN list : Touches(list[i], cid) \/ Matches(list[i], cid) }
<1>3. stop = { i \in DOMAIN list : list[i].cid.hash = cid.hash }
  BY <1>2 DEF Touches, Matches
<1>4. Search(cid) = IF stop = {} THEN (IF dangling THEN -1 ELSE 0)
                    ELSE IF Touches(list[Min(stop)], cid) THEN -1 ELSE Min(stop)
  BY DEF Search
<1>5. CASE stop = {}
  <2>1. Search(cid) = 0
    BY <1>4, <1>5 DEF GoodList
  <2> QED
    BY <1>1, <1>3, <1>5, <2>1
<1>6. CASE stop # {}
  <2>1. PICK i \in DOMAIN list : list[i].cid.hash = cid.hash
    BY <1>3, <1>6
  <2>2. stop = {i}
    BY <1>3, <2>1 DEF GoodList, Lists
  <2>3. Min(stop) = i
    BY <1>1, <2>2, SoleMin
  <2>4. ~Touches(list[i], cid)
    BY <1>2 DEF Touches
  <2>5. Search(cid) = i
    BY <1>4, <1>6, <2>3, <2>4
  <2> QED
    BY <1>1, <2>1, <2>5
<1> QED
  BY <1>5, <1>6

\* The walk over the whole list, and a search, stay inside live memory.
LEMMA GoodIsSafe ==
  ASSUME GoodList
  PROVE  WalksSafely /\ \A cid \in Cids : Search(cid) # -1
<1>1. \A i \in DOMAIN list : list[i].st = "ok"
  BY ListNodes DEF GoodList
<1>2. Len(list) \in Nat
  BY ListNodes DEF GoodList
<1>3. ASSUME NEW cid \in Cids PROVE Search(cid) # -1
  BY <1>2, SearchFinds
<1> QED
  BY <1>1, <1>3 DEF WalksSafely, GoodList

\* Such a list is as long as the set is large.
LEMMA ListLength ==
  ASSUME NEW l, NEW e, Lists(l, e)
  PROVE  Len(l) = Cardinality(e)
<1> DEFINE f == [i \in 1 .. Len(l) |-> l[i].cid]
<1>1. /\ Len(l) \in Nat /\ DOMAIN l = 1 .. Len(l)
      /\ \A i \in 1 .. Len(l) : l[i].cid \in e
      /\ \A c \in e : \E i \in 1 .. Len(l) : l[i].cid = c
  BY ListNodes
<1>2. \A i, k \in 1 .. Len(l) : l[i].cid = l[k].cid => i = k
  BY Zenon, <1>1 DEF Lists
<1>3. f \in Injection(1 .. Len(l), e)
  BY <1>1, <1>2 DEF Injection, IsInjective
<1>4. f \in Surjection(1 .. Len(l), e)
  BY <1>1 DEF Surjection
<1> QED
  BY <1>1, <1>3, <1>4, FS_CountingElements DEF ExistsBijection, Bijection

-----------------------------------------------------------------------------
(* What the calls do to a list.                                             *)

Other(e, cid) == { c \in e : c.hash # cid.hash }

\* A node for an id with a new hash is linked in behind the last one.
LEMMA ListAppend ==
  ASSUME NEW l, NEW e, NEW cid, Lists(l, e),
         \A i \in DOMAIN l : l[i].cid.hash # cid.hash
  PROVE  Lists(Append(l, Ok(cid)), Other(e, cid) \cup {cid})
<1> DEFINE m == Append(l, Ok(cid))
           d == Other(e, cid) \cup {cid}
           n == Len(l)
<1>1. /\ n \in Nat /\ DOMAIN l = 1 .. n
      /\ \A i \in 1 .. n : l[i].cid \in e /\ l[i] = Ok(l[i].cid)
      /\ \A c \in e : \E i \in 1 .. n : l[i].cid = c
  BY ListNodes
<1>2. Other(e, cid) = e
  BY <1>1 DEF Other
<1>3. l \in Seq({ Ok(c) : c \in d })
  BY <1>2 DEF Lists
<1>4. m \in Seq({ Ok(c) : c \in d })
  BY <1>3
<1>5. /\ DOMAIN m = 1 .. (n + 1) /\ m[n + 1] = Ok(cid)
      /\ \A i \in 1 .. n : m[i] = l[i]
  BY <1>3
<1>6. \A c \in d : \E i \in DOMAIN m : m[i] = Ok(c)
  BY <1>1, <1>2, <1>5
<1>7. \A i \in 1 .. n : i \in 1 .. (n + 1)
  BY <1>1
<1>8. \A i \in 1 .. (n + 1) : i \in 1 .. n \/ i = n + 1
  BY <1>1
<1>9. \A i, k \in DOMAIN m : m[i].cid.hash = m[k].cid.hash => i = k
  <2>1. m[n + 1].cid = cid
    BY <1>5, OkFields
  <2>2. \A i, k \in 1 .. n : m[i].cid.hash = m[k].cid.hash => i = k
    <3>1. \A i, k \in 1 .. n : l[i].cid.hash = l[k].cid.hash => i = k
      BY Zenon, <1>1 DEF Lists
    <3> HIDE DEF m, n
    <3> QED
      BY <1>5, <3>1
  <2>3. \A i \in 1 .. n : m[i].cid.hash # m[n + 1].cid.hash
    BY <1>1, <1>5, <2>1
  <2> HIDE DEF m, n
  <2> QED
    BY <1>5, <1>8, <2>2, <2>3
<1> QED
  BY Zenon, <1>4, <1>6, <1>9 DEF Lists

\* The node of an id with the same hash is overwritten.
LEMMA ListReplace ==
  ASSUME NEW l, NEW e, NEW cid, Lists(l, e),
         NEW j \in DOMAIN l, l[j].cid.hash = cid.hash
  PROVE  Lists([l EXCEPT ![j] = Ok(cid)], Other(e, cid) \cup {cid})
<1> DEFINE m == [l EXCEPT ![j] = Ok(cid)]
           d == Other(e, cid) \cup {cid}
           n == Len(l)
<1>1. /\ n \in Nat /\ DOMAIN l = 1 .. n /\ j \in 1 .. n
      /\ l \in [1 .. n -> { Ok(c) : c \in e }]
      /\ \A i \in 1 .. n : l[i].cid \in e /\ l[i] = Ok(l[i].cid)
      /\ \A c \in e : \E i \in 1 .. n : l[i].cid = c
  BY ListNodes
<1>2. \A i \in 1 .. n : i # j => l[i].cid.hash # cid.hash
  BY Zenon, <1>1 DEF Lists
<1>3. /\ DOMAIN m = 1 .. n /\ m[j] = Ok(cid)
      /\ \A i \in 1 .. n : i # j => m[i] = l[i]
  BY <1>1
<1>4. ASSUME NEW i \in 1 .. n PROVE m[i] \in { Ok(c) : c \in d }
  <2>1. CASE i = j
    BY <1>3, <2>1
  <2>2. CASE i # j
    <3>1. m[i] = Ok(l[i].cid) /\ l[i].cid \in d
      BY <1>1, <1>2, <1>3, <2>2 DEF Other
    <3> QED
      BY <3>1
  <2> QED
    BY <2>1, <2>2
<1>5. m = [i \in 1 .. n |-> m[i]]
  BY Zenon, <1>1
<1>6. m \in Seq({ Ok(c) : c \in d })
  <2>1. m \in [1 .. n -> { Ok(c) : c \in d }]
    BY Zenon, <1>4, <1>5
  <2> QED
    BY Zenon, <1>1, <2>1, FunctionIsSeq
<1>7. ASSUME NEW c \in d PROVE \E i \in DOMAIN m : m[i] = Ok(c)
  <2>1. CASE c = cid
    BY <1>1, <1>3, <2>1
  <2>2. CASE c \in e /\ c.hash # cid.hash
    <3>1. PICK i \in 1 .. n : l[i].cid = c
      BY <1>1, <2>2
    <3>2. i # j
      BY <2>2, <3>1
    <3> QED
      BY Zenon, <1>1, <1>3, <3>1, <3>2
  <2> QED
    BY <2>1, <2>2 DEF Other
<1>8. \A i, k \in DOMAIN m : m[i].cid.hash = m[k].cid.hash => i = k
  <2>1. m[j].cid = cid
    BY <1>3, OkFields
  <2>2. \A i, k \in 1 .. n : l[i].cid.hash = l[k].cid.hash => i = k
    BY Zenon, <1>1 DEF Lists
  <2>3. ASSUME NEW i \in 1 .. n, NEW k \in 1 .. n, m[i].cid.hash = m[k].cid.hash
        PROVE  i = k
    <3>1. m[j].cid.hash = cid.hash
      BY <2>1
    <3>2. \A q \in 1 .. n : q # j => m[q].cid.hash = l[q].cid.hash
      BY <1>3
    <3> HIDE DEF m, n
    <3> QED
      BY Zenon, <1>2, <2>2, <2>3, <3>1, <3>2
  <2> QED
    BY <1>3, <2>3
<1> QED
  BY <1>6, <1>7, <1>8 DEF Lists

LEMMA RemovedAt ==
  ASSUME NEW S, NEW l \in Seq(S), NEW j \in DOMAIN l
  PROVE  /\ RemoveAt(l, j) \in Seq(S)
         /\ Len(RemoveAt(l, j)) = Len(l) - 1
         /\ \A i \in 1 .. (Len(l) - 1) :
              RemoveAt(l, j)[i] = IF i < j THEN l[i] ELSE l[i + 1]
<1> DEFINE a == SubSeq(l, 1, j - 1)
           b == SubSeq(l, j + 1, Len(l))
           n == Len(l)
<1>1. n \in Nat \ {0} /\ j \in 1 .. n
  OBVIOUS
<1>2. a \in Seq(S) /\ Len(a) = j - 1 /\ \A i \in 1 .. (j - 1) : a[i] = l[i]
  BY <1>1
<1>3. b \in Seq(S) /\ Len(b) = n - j /\ \A i \in 1 .. (n - j) : b[i] = l[j + i]
  BY <1>1
<1> HIDE DEF a, b
<1>a. /\ a \o b \in Seq(S) /\ Len(a \o b) = Len(a) + Len(b)
      /\ \A i \in 1 .. Len(a) + Len(b) :
           (a \o b)[i] = IF i <= Len(a) THEN a[i] ELSE b[i - Len(a)]
  BY Zenon, <1>2, <1>3, ConcatProperties
<1>4. a \o b \in Seq(S) /\ Len(a \o b) = n - 1
  BY <1>1, <1>2, <1>3, <1>a
<1>5. ASSUME NEW i \in 1 .. (n - 1) PROVE (a \o b)[i] = IF i < j THEN l[i] ELSE l[i + 1]
  <2>a. i \in 1 .. Len(a) + Len(b) /\ (i <= Len(a) <=> i < j)
    BY <1>1, <1>2, <1>3
  <2>1. CASE i < j
    <3>1. (a \o b)[i] = a[i]
      BY Zenon, <1>a, <2>a, <2>1
    <3>2. i \in 1 .. (j - 1)
      BY <1>1, <2>1
    <3> QED
      BY <1>2, <2>1, <3>1, <3>2
  <2>2. CASE ~(i < j)
    <3>1. (a \o b)[i] = b[i - (j - 1)]
      BY Zenon, <1>2, <1>a, <2>a, <2>2
    <3>2. i - (j - 1) \in 1 .. (n - j) /\ j + (i - (j - 1)) = i + 1
      BY <1>1, <2>2
    <3> QED
      BY <1>3, <2>2, <3>1, <3>2
  <2> QED
    BY Zenon, <2>1, <2>2
<1>6. RemoveAt(l, j) = a \o b
  BY DEF RemoveAt, a, b
<1> QED
  BY <1>4, <1>5, <1>6

\* The node of an id is unlinked.
LEMMA ListRemove ==
  ASSUME NEW l, NEW e, NEW cid, Lists(l, e),
         NEW j \in DOMAIN l, l[j].cid.hash = cid.hash
  PROVE  Lists(RemoveAt(l, j), Other(e, cid))
<1> DEFINE m == RemoveAt(l, j)
           d == Other(e, cid)
           n == Len(l)
           from == [i \in 1 .. (n - 1) |-> IF i < j THEN i ELSE i + 1]
<1>1. /\ n \in Nat \ {0} /\ DOMAIN l = 1 .. n /\ j \in 1 .. n
      /\ \A i \in 1 .. n : l[i].cid \in e /\ l[i] = Ok(l[i].cid)
      /\ \A c \in e : \E i \in 1 .. n : l[i].cid = c
  BY ListNodes
<1>2. l \in Seq({ Ok(c) : c \in e })
  BY DEF Lists
<1>3. /\ m \in Seq({ Ok(c) : c \in e })
      /\ Len(m) = n - 1
      /\ \A i \in 1 .. (n - 1) : m[i] = IF i < j THEN l[i] ELSE l[i + 1]
  BY Zenon, <1>2, RemovedAt
<1>4. DOMAIN m = 1 .. (n - 1)
  BY <1>3
<1>5. \A i \in 1 .. (n - 1) : m[i] = l[from[i]]
  BY <1>3
<1>6. \A i \in 1 .. (n - 1) : from[i] \in 1 .. n /\ from[i] # j
  BY <1>1
<1>7. \A i, k \in 1 .. (n - 1) : from[i] = from[k] => i = k
  BY <1>1
<1>8. ASSUME NEW i \in 1 .. n, i # j PROVE \E k \in 1 .. (n - 1) : from[k] = i
  <2>1. CASE i < j
    BY <1>1, <2>1
  <2>2. CASE i > j
    <3>1. i - 1 \in 1 .. (n - 1) /\ from[i - 1] = i
      BY <1>1, <2>2
    <3> QED
      BY <3>1
  <2> QED
    BY <1>1, <1>8, <2>1, <2>2
<1>9. \A i \in 1 .. n : i # j => l[i].cid.hash # cid.hash
  BY Zenon, <1>1 DEF Lists
<1>10. \A i, k \in 1 .. n : l[i].cid.hash = l[k].cid.hash => i = k
  BY Zenon, <1>1 DEF Lists
<1> HIDE DEF m, n, from
<1>11. ASSUME NEW i \in 1 .. (n - 1) PROVE m[i] \in { Ok(c) : c \in d }
  <2>1. PICK k \in 1 .. n : k = from[i] /\ k # j
    BY <1>6
  <2>2. m[i] = Ok(l[k].cid) /\ l[k].cid \in d
    BY <1>1, <1>5, <1>9, <2>1 DEF Other
  <2> QED
    BY <2>2
<1>12. m \in Seq({ Ok(c) : c \in d })
  <2>1. m = [i \in 1 .. (n - 1) |-> m[i]]
    BY <1>3, <1>4
  <2>2. m \in [1 .. (n - 1) -> { Ok(c) : c \in d }]
    BY Zenon, <1>11, <2>1
  <2>3. n - 1 \in Nat
    BY <1>1
  <2> QED
    BY Zenon, <2>2, <2>3, FunctionIsSeq
<1>13. ASSUME NEW c \in d PROVE \E i \in DOMAIN m : m[i] = Ok(c)
  <2>1. PICK i \in 1 .. n : l[i].cid = c
    BY <1>1 DEF Other
  <2>2. i # j
    BY <2>1 DEF Other
  <2>3. PICK k \in 1 .. (n - 1) : from[k] = i
    BY <1>8, <2>2
  <2>4. m[k] = Ok(c)
    BY <1>1, <1>5, <2>1, <2>3
  <2> QED
    BY <1>4, <2>4
<1>14. \A i, k \in DOMAIN m : m[i].cid.hash = m[k].cid.hash => i = k
  BY <1>4, <1>5, <1>6, <1>7, <1>10
<1> QED
  BY <1>12, <1>13, <1>14 DEF Lists, m

-----------------------------------------------------------------------------
LEMMA InitIInv == Init => IInv
  BY Zenon DEF Init, IInv

\* What a call that stores an id, or takes one out, does to a good list.
LEMMA AddKeepsGood ==
  ASSUME GoodList, NEW cid, NEW visit \in BOOLEAN, ipfs_cid_set_add(cid, visit)
  PROVE  GoodList'
<1> DEFINE i == IF list = <<>> THEN 0 ELSE Search(cid)
<1>1. /\ list' = IF i = 0 THEN Append(list, Ok(cid))
                 ELSE IF visit THEN list ELSE [list EXCEPT ![i] = Ok(cid)]
      /\ expected' = IF i # 0 /\ visit THEN expected ELSE Other(expected, cid) \cup {cid}
      /\ dangling' = dangling
  BY Zenon DEF ipfs_cid_set_add, Without, Other
<1>2. Len(list) \in Nat /\ DOMAIN list = 1 .. Len(list) /\ Lists(list, expected)
  BY ListNodes DEF GoodList
<1>3. CASE i = 0
  <2>1. \A k \in DOMAIN list : list[k].cid.hash # cid.hash
    BY <1>3, SearchFinds
  <2> QED
    BY <1>1, <1>2, <1>3, <2>1, ListAppend DEF GoodList
<1>4. CASE i # 0
  <2>1. i \in DOMAIN list /\ list[i].cid.hash = cid.hash
    BY <1>2, <1>4, SearchFinds
  <2>2. CASE visit
    BY <1>1, <1>2, <1>4, <2>2 DEF GoodList
  <2>3. CASE ~visit
    <3> HIDE DEF i
    <3> QED
      BY Zenon, <1>1, <1>2, <1>4, <2>1, <2>3, ListReplace DEF GoodList
  <2> QED
    BY <2>2, <2>3
<1> QED
  BY <1>3, <1>4

LEMMA RemoveKeepsGood ==
  ASSUME GoodList, NEW cid, ipfs_cid_set_remove(cid), ~spoilt'
  PROVE  GoodList'
<1> DEFINE i == IF list = <<>> THEN 0 ELSE Search(cid)
           first == i = 1 /\ Len(list) > 1
<1>1. /\ i > 0 /\ dangling' = (dangling \/ first) /\ spoilt' = (spoilt \/ first)
      /\ list' = IF ~first THEN RemoveAt(list, i)
                 ELSE IF list[2].st = "nocid" THEN <<>> ELSE <<list[2]>>
      /\ expected' = Other(expected, cid)
  BY Zenon DEF ipfs_cid_set_remove, Without, Other
<1>2. Len(list) \in Nat /\ DOMAIN list = 1 .. Len(list) /\ Lists(list, expected)
  BY ListNodes DEF GoodList
<1>3. ~first
  BY Zenon, <1>1
<1>4. i \in DOMAIN list /\ list[i].cid.hash = cid.hash
  <2>1. list # <<>> /\ i = Search(cid) /\ i # 0
    BY <1>1, SearchFinds
  <2> QED
    BY <1>2, <2>1, SearchFinds
<1> HIDE DEF i, first
<1>5. Lists(list', expected')
  BY <1>1, <1>2, <1>3, <1>4, ListRemove
<1> QED
  BY Zenon, <1>1, <1>3, <1>5 DEF GoodList

LEMMA IInvStep == IInv /\ [Next]_vars => IInv'
<1> SUFFICES ASSUME IInv, [Next]_vars PROVE IInv'
  OBVIOUS
<1>1. CASE ipfs_cid_set_new
  <2>1. phase' = "live" /\ spoilt' = FALSE /\ dangling' = FALSE /\ list' = <<>> /\ expected' = {}
    BY <1>1 DEF ipfs_cid_set_new
  <2>2. Lists(list', expected')
    BY <2>1 DEF Lists
  <2> QED
    BY Zenon, <2>1, <2>2 DEF IInv, GoodList
<1>2. ASSUME NEW cid \in Cids, NEW visit \in BOOLEAN, ipfs_cid_set_add(cid, visit)
      PROVE  IInv'
  <2>1. phase = "live" /\ UNCHANGED <<phase, spoilt>>
    BY <1>2 DEF ipfs_cid_set_add
  <2>2. ~spoilt => GoodList'
    BY <1>2, <2>1, AddKeepsGood DEF IInv
  <2> QED
    BY <2>1, <2>2 DEF IInv
<1>3. ASSUME NEW cid \in Cids, AddFails(cid) PROVE IInv'
  <2>1. /\ phase = "live" /\ UNCHANGED <<phase, dangling, expected>>
        /\ spoilt' = (spoilt \/ list' # list)
    BY <1>3 DEF AddFails
  <2>2. spoilt' \in BOOLEAN
    BY Zenon, <2>1 DEF IInv
  <2>3. ~spoilt' => GoodList'
    BY Zenon, <2>1 DEF IInv, GoodList
  <2> QED
    BY <2>1, <2>2, <2>3 DEF IInv
<1>4. ASSUME NEW cid \in Cids, ipfs_cid_set_remove(cid) PROVE IInv'
  <2>1. phase = "live" /\ phase' = phase
    BY <1>4 DEF ipfs_cid_set_remove
  <2>2. spoilt' \in BOOLEAN /\ (spoilt => spoilt')
    BY Zenon, <1>4 DEF IInv, ipfs_cid_set_remove
  <2>3. ~spoilt' => GoodList'
    BY <1>4, <2>1, <2>2, RemoveKeepsGood DEF IInv
  <2> QED
    BY <2>1, <2>2, <2>3 DEF IInv
<1>5. ASSUME NEW cid \in Cids, AddUndefined(cid) \/ HasUndefined(cid) \/ RemoveUndefined(cid)
      PROVE  IInv'
  <2>1. phase = "live" /\ phase' = "undefined" /\ spoilt' = spoilt
    BY <1>5 DEF AddUndefined, HasUndefined, RemoveUndefined, Undefined
  <2>2. Search(cid) = -1 \/ dangling
    BY <1>5 DEF AddUndefined, HasUndefined, RemoveUndefined
  <2>3. spoilt
    BY Zenon, <2>1, <2>2, GoodIsSafe DEF IInv, GoodList
  <2> QED
    BY <2>1, <2>3 DEF IInv
<1>6. CASE WalkUndefined
  <2>1. phase = "live" /\ phase' = "undefined" /\ spoilt' = spoilt /\ ~WalksSafely
    BY <1>6 DEF WalkUndefined, Undefined
  <2>2. spoilt
    BY <2>1, GoodIsSafe DEF IInv
  <2> QED
    BY <2>1, <2>2 DEF IInv
<1>7. CASE ipfs_cid_set_keys \/ ipfs_cid_set_destroy
  BY Zenon, <1>7 DEF IInv, ipfs_cid_set_keys, ipfs_cid_set_destroy
<1>8. CASE UNCHANGED vars
  BY <1>8 DEF vars, IInv, GoodList, Lists
<1> QED
  BY <1>1, <1>2, <1>3, <1>4, <1>5, <1>6, <1>7, <1>8 DEF Next

\* What the calls of set.c keep up until one of them spoils the list: it is
\* whole and has one node for each id the callers expect, no hash twice.
THEOREM InductiveInvariant == Spec => []IInv
  BY InitIInv, IInvStep, PTL DEF Spec

\* Until a call spoils it, the list holds exactly the ids that the calls'
\* results promise, each once and with the version and codec added last, and
\* ipfs_cid_set_has and ipfs_cid_set_len agree with it: for any ids and any
\* number of entries.
THEOREM ListIsTheSet == Spec => []SetExact
<1>1. IInv => SetExact
  <2> SUFFICES ASSUME IInv, phase = "live", ~spoilt
               PROVE  /\ { list[i] : i \in DOMAIN list } = { Ok(c) : c \in expected }
                      /\ ipfs_cid_set_len = Cardinality(expected)
                      /\ \A c \in Cids :
                           ipfs_cid_set_has(c) <=> \E e \in expected : e.hash = c.hash
    BY DEF SetExact
  <2>1. GoodList /\ Lists(list, expected)
    BY DEF IInv, GoodList
  <2>2. /\ DOMAIN list = 1 .. Len(list) /\ Len(list) \in Nat
        /\ \A i \in 1 .. Len(list) : list[i].cid \in expected /\ list[i] = Ok(list[i].cid)
        /\ \A c \in expected : \E i \in 1 .. Len(list) : list[i].cid = c
    BY <2>1, ListNodes
  <2>3. { list[i] : i \in DOMAIN list } = { Ok(c) : c \in expected }
    BY <2>2
  <2>4. ipfs_cid_set_len = Cardinality(expected)
    BY <2>1, ListLength DEF ipfs_cid_set_len
  <2>5. ASSUME NEW c \in Cids
        PROVE  ipfs_cid_set_has(c) <=> \E e \in expected : e.hash = c.hash
    <3>1. /\ Search(c) \in 0 .. Len(list)
          /\ Search(c) = 0 => \A i \in DOMAIN list : list[i].cid.hash # c.hash
          /\ Search(c) # 0 => list[Search(c)].cid.hash = c.hash
      BY <2>1, SearchFinds
    <3>2. CASE Search(c) = 0
      BY <2>2, <3>1, <3>2 DEF ipfs_cid_set_has
    <3>3. CASE Search(c) # 0
      <4>1. Search(c) \in 1 .. Len(list) /\ Search(c) > 0 /\ list # <<>>
        BY <2>2, <3>1, <3>3
      <4> QED
        BY <2>2, <3>1, <3>3, <4>1 DEF ipfs_cid_set_has
    <3> QED
      BY <3>2, <3>3
  <2> QED
    BY <2>3, <2>4, <2>5
<1> QED
  BY <1>1, InductiveInvariant, PTL

\* No call of set.c leaves live memory unless one before it spoilt the list: a
\* removal of the first of several entries, an add that ran out of memory, or
\* ipfs_cid_set_keys.
THEOREM OnlySpoiltIsUndefined == Spec => []UndefinedOnlySpoilt
<1>1. IInv => UndefinedOnlySpoilt
  BY DEF IInv, UndefinedOnlySpoilt
<1> QED
  BY <1>1, InductiveInvariant, PTL
====
