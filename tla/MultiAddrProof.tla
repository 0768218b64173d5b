--------------------------- MODULE MultiAddrProof ---------------------------
(***************************************************************************)
(* Text and bytes of a multiaddress stay in step through every sequence of *)
(* calls, and decapsulate undoes encapsulate.  Neither depends on what the *)
(* conversions compute, but both depend on what they return: a text is a   *)
(* sequence of tokens and its bytes a sequence of bytes, whatever the      *)
(* strings are.  Both conversions are recursive, so that is an induction.  *)
(***************************************************************************)
EXTENDS MultiAddr, FiniteSetTheorems, SequenceTheorems, NaturalsInduction, TLAPS

-----------------------------------------------------------------------------
(* Functions defined by recursion on a rank.                                *)

LEMMA SetInduction ==
  ASSUME NEW S, 0 \in S, \A n \in Nat : n \in S => n + 1 \in S
  PROVE  Nat \subseteq S
<1> DEFINE R == {ss \in Nat \X Nat : ss[1] < ss[2]}
<1> SUFFICES ASSUME Nat \ S # {} PROVE FALSE
  OBVIOUS
<1>0. IsWellFoundedOn(R, Nat)
  BY NatLessThanWellFounded DEF OpToRel
<1> HIDE DEF R
<1>1. PICK n \in Nat \ S : \A m \in Nat \ S : <<m, n>> \notin R
  BY Zenon, <1>0, WFMin
<1>2. n # 0 /\ n - 1 \in Nat
  OBVIOUS
<1>3. n - 1 \in Nat \ S
  BY <1>2
<1>4. <<n - 1, n>> \in Nat \X Nat /\ n - 1 < n
  BY <1>2
<1>5. <<n - 1, n>> \in R
  BY <1>4 DEF R
<1> QED
  BY <1>1, <1>3, <1>5

\* Each value of f is in V once those of lower rank are; the value E computes
\* depends on those of lower rank only.
StepTyped(D, V, rank, f) ==
  \A i \in D : (\A j \in D : rank[j] < rank[i] => f[j] \in V) => f[i] \in V
StepLocal(D, V, rank, E) ==
  \A f, g \in [D -> V] : \A i \in D :
    (\A j \in D : rank[j] < rank[i] => f[j] = g[j]) => E[<<f, i>>] = E[<<g, i>>]
Recursion(D, V, rank, E) ==
  /\ V # {} /\ \E B \in Nat : rank \in [D -> 0 .. B]
  /\ E \in [[D -> V] \X D -> V] /\ StepLocal(D, V, rank, E)
Fixpoint(D, V, E, f) == f \in [D -> V] /\ \A i \in D : f[i] = E[<<f, i>>]

LEMMA RankTyped ==
  ASSUME NEW D, NEW V, NEW rank \in [D -> Nat], NEW f, StepTyped(D, V, rank, f)
  PROVE  \A i \in D : f[i] \in V
<1>0. \A i \in D : (\A j \in D : rank[j] < rank[i] => f[j] \in V) => f[i] \in V
  BY DEF StepTyped
<1> DEFINE S == {n \in Nat : \A i \in D : rank[i] < n => f[i] \in V}
<1>1. 0 \in S
  OBVIOUS
<1>2. ASSUME NEW n \in Nat, n \in S PROVE n + 1 \in S
  <2> SUFFICES ASSUME NEW i \in D, rank[i] < n + 1 PROVE f[i] \in V
    OBVIOUS
  <2>1. \A j \in D : rank[j] < rank[i] => rank[j] < n
    OBVIOUS
  <2> QED
    BY <1>0, <1>2, <2>1
<1> HIDE DEF S
<1>3. Nat \subseteq S
  BY <1>1, <1>2, SetInduction
<1> SUFFICES ASSUME NEW i \in D PROVE f[i] \in V
  OBVIOUS
<1>4. rank[i] + 1 \in S /\ rank[i] < rank[i] + 1
  BY <1>3
<1> QED
  BY <1>4 DEF S

LEMMA RankExists ==
  ASSUME NEW D, NEW V, NEW rank, NEW E, Recursion(D, V, rank, E)
  PROVE  \E f : Fixpoint(D, V, E, f)
<1>0. PICK B \in Nat : rank \in [D -> 0 .. B]
  BY DEF Recursion
<1>a. V # {} /\ E \in [[D -> V] \X D -> V] /\ StepLocal(D, V, rank, E)
  BY DEF Recursion
<1> DEFINE Upto(n, f) == \A i \in D : rank[i] < n => f[i] = E[<<f, i>>]
           S == {n \in Nat : \E f \in [D -> V] : Upto(n, f)}
<1>1. 0 \in S
  <2>1. PICK x \in V : TRUE
    BY <1>a
  <2>2. [i \in D |-> x] \in [D -> V] /\ Upto(0, [i \in D |-> x])
    BY <1>0
  <2> QED
    BY Zenon, <2>2
<1>2. ASSUME NEW n \in Nat, n \in S PROVE n + 1 \in S
  <2>1. PICK f \in [D -> V] : Upto(n, f)
    BY <1>2
  <2> DEFINE g == [i \in D |-> IF rank[i] = n THEN E[<<f, i>>] ELSE f[i]]
  <2>2. g \in [D -> V]
    BY <1>a
  <2>3. ASSUME NEW i \in D, rank[i] < n + 1 PROVE g[i] = E[<<g, i>>]
    <3>1. \A j \in D : rank[j] < rank[i] => f[j] = g[j]
      BY <1>0, <2>3
    <3> HIDE DEF g
    <3>2. E[<<f, i>>] = E[<<g, i>>]
      BY <1>a, <2>2, <3>1 DEF StepLocal
    <3>3. g[i] = E[<<f, i>>]
      BY <1>0, <2>1, <2>3 DEF g
    <3> QED
      BY <3>2, <3>3
  <2> HIDE DEF g
  <2>4. Upto(n + 1, g)
    BY <2>3
  <2>5. n + 1 \in Nat /\ \E h \in [D -> V] : Upto(n + 1, h)
    BY <2>2, <2>4
  <2> QED
    BY <2>5
<1> HIDE DEF S
<1>3. B + 1 \in S
  BY <1>1, <1>2, SetInduction
<1>4. PICK f \in [D -> V] : Upto(B + 1, f)
  BY <1>3 DEF S
<1>5. \A i \in D : rank[i] < B + 1
  BY <1>0
<1>6. Fixpoint(D, V, E, f)
  BY <1>4, <1>5 DEF Fixpoint
<1> QED
  BY <1>6

-----------------------------------------------------------------------------
(* The least element of a set, and the elements of a set in order.          *)

LEMMA LeastElement ==
  ASSUME NEW S \in SUBSET Nat, S # {}
  PROVE  Min(S) \in S /\ Min(S) \in Nat /\ \A y \in S : Min(S) <= y
<1> DEFINE R == {ss \in Nat \X Nat : ss[1] < ss[2]}
<1>0. IsWellFoundedOn(R, Nat)
  BY NatLessThanWellFounded DEF OpToRel
<1> HIDE DEF R
<1>1. PICK n \in S : \A m \in S : <<m, n>> \notin R
  BY Zenon, <1>0, WFMin
<1>2. ASSUME NEW y \in S PROVE n =< y
  <2>1. y \in Nat /\ n \in Nat
    OBVIOUS
  <2>2. ~(y < n)
    BY Zenon, <1>1, <2>1 DEF R
  <2> QED
    BY <2>1, <2>2
<1>4. Min(S) \in S /\ \A y \in S : Min(S) =< y
  BY Zenon, <1>1, <1>2 DEF Min
<1> QED
  BY Zenon, <1>4

\* For each k up to its size a set of numbers has an element with k elements up to it.
LEMMA KthElement ==
  ASSUME NEW n \in Nat, NEW S \in SUBSET (1 .. n), NEW k \in 1 .. Cardinality(S)
  PROVE  \E i \in S : Cardinality({ j \in S : j <= i }) = k
<1> DEFINE C(i) == Cardinality({ j \in S : j <= i })
           F == { i \in 0 .. n : k <= C(i) }
<1>0. \A i \in S : i \in Nat /\ 1 <= i /\ i <= n
  OBVIOUS
<1>1. IsFiniteSet(S)
  <2>1. IsFiniteSet(1 .. n)
    BY FS_Interval
  <2> QED
    BY Zenon, <2>1, FS_Subset
<1>2. Cardinality(S) \in Nat
  BY <1>1, FS_CardinalityType
<1>3. \A i \in 0 .. n : IsFiniteSet({ j \in S : j <= i }) /\ C(i) \in Nat
  BY <1>1, FS_Subset, FS_CardinalityType
<1>4. { j \in S : j <= n } = S /\ { j \in S : j <= 0 } = {}
  <2>1. \A j \in S : j <= n /\ ~(j <= 0)
    BY <1>0
  <2> QED
    BY Zenon, <2>1
<1>5. n \in F
  BY <1>2, <1>4
<1>6. C(0) = 0
  BY <1>4, FS_EmptySet
<1> HIDE DEF C
<1> DEFINE m == Min(F)
<1>7. m \in F /\ m \in Nat /\ \A i \in F : m <= i
  <2>1. F \in SUBSET Nat /\ F # {}
    BY <1>5
  <2> HIDE DEF F
  <2> QED
    BY <2>1, LeastElement
<1> HIDE DEF m
<1>8. m \in 1 .. n /\ m - 1 \in 0 .. n
  <2>1. m \in 0 .. n /\ k <= C(m)
    BY <1>7
  <2>2. m # 0
    BY <1>6, <2>1
  <2> QED
    BY <2>1, <2>2
<1>9. C(m - 1) \in Nat /\ C(m - 1) < k /\ C(m) \in Nat /\ k <= C(m)
  <2>1. m - 1 \notin F
    <3> HIDE DEF F
    <3> QED
      BY <1>7
  <2>2. C(m - 1) \in Nat /\ C(m) \in Nat
    <3>1. m - 1 \in 0 .. n /\ m \in 0 .. n
      BY <1>8
    <3> QED
      BY Zenon, <1>3, <3>1
  <2>3. k \in Nat
    BY <1>2
  <2> QED
    BY <1>7, <1>8, <2>1, <2>2, <2>3
<1>10. m \in S
  <2> SUFFICES ASSUME m \notin S PROVE FALSE
    OBVIOUS
  <2>1. \A j \in S : j <= m <=> j <= m - 1
    BY <1>0, <1>8
  <2>2. { j \in S : j <= m } = { j \in S : j <= m - 1 }
    BY Zenon, <2>1
  <2>3. C(m) = C(m - 1)
    BY <2>2 DEF C
  <2> QED
    BY <1>9, <2>3
<1>11. { j \in S : j <= m } = { j \in S : j <= m - 1 } \cup {m}
  <2>1. \A j \in S : j <= m <=> (j <= m - 1 \/ j = m)
    BY <1>0, <1>8
  <2> QED
    BY Zenon, <1>10, <2>1
<1>12. C(m) = C(m - 1) + 1
  <2>1. m \notin { j \in S : j <= m - 1 }
    BY <1>8
  <2> QED
    BY Zenon, <1>3, <1>8, <1>11, <2>1, FS_AddElement DEF C
<1> QED
  BY <1>9, <1>10, <1>12 DEF C

-----------------------------------------------------------------------------
(* From text to bytes.                                                      *)

Rows == Range(load_protocols)

\* The tokens of a text that bytes_to_string makes, and of any text.
FieldToken ==
  {Slash} \cup { P(p[1]) : p \in Rows } \cup { int2ip(f) : f \in Seq(Nat) } \cup
  { PortText(f) : f \in Seq(Nat) } \cup { IdText(f) : f \in Seq(Nat) }
Token == FieldToken \cup {Space} \cup UNION { Range(s) : s \in Strings \cup Additions }

LEMMA SeqSubset ==
  ASSUME NEW S, NEW T, S \subseteq T, NEW u \in Seq(S)
  PROVE  u \in Seq(T)
  OBVIOUS

\* Only the id has no size of its own in the table.
LEMMA TableRows ==
  /\ load_protocols \in Seq(Rows)
  /\ \A p \in Rows : p[2] \in Nat /\ p[3] \in Int /\ (p[1] # "ipfs" => p[3] >= 0)
<1>1. load_protocols = [i \in 1 .. 14 |-> load_protocols[i]] /\ Len(load_protocols) = 14
  BY SMT DEF load_protocols
<1>2. ASSUME NEW i \in 1 .. 14
      PROVE  LET p == load_protocols[i]
             IN  p[2] \in Nat /\ p[3] \in Int /\ (p[1] # "ipfs" => p[3] >= 0)
  BY SMT DEF load_protocols
<1>3. \A i \in 1 .. 14 : load_protocols[i] \in Rows
  BY SMT, <1>1 DEF Rows, Range
<1>4. load_protocols \in Seq(Rows)
  BY SMT, <1>1, <1>3
<1>5. \A p \in Rows : \E i \in 1 .. 14 : p = load_protocols[i]
  BY SMT, <1>1 DEF Rows, Range
<1>6. ASSUME NEW p \in Rows
      PROVE  p[2] \in Nat /\ p[3] \in Int /\ (p[1] # "ipfs" => p[3] >= 0)
  <2>1. PICK i \in 1 .. 14 : p = load_protocols[i]
    BY <1>5
  <2> QED
    BY <1>2, <2>1
<1> QED
  BY <1>4, <1>6

LEMMA TokenBytes ==
  ASSUME NEW t \in Token, t[1] \in {"ip", "id"}
  PROVE  t[2] \in Seq(Nat)
<1>1. CASE t \in {Slash, Space} \cup { P(p[1]) : p \in Rows }
  <2>1. t = Slash \/ t = Space \/ \E p \in Rows : t = P(p[1])
    BY Zenon, <1>1
  <2>2. Slash[1] = "/"
    BY DEF Slash
  <2>3. Space[1] = " "
    BY DEF Space
  <2>4. \A n : P(n)[1] = "proto"
    BY DEF P
  <2> QED
    BY <2>1, <2>2, <2>3, <2>4
<1>2. ASSUME NEW f \in Seq(Nat), t = int2ip(f) PROVE t[2] \in Seq(Nat)
  <2>1. [k \in 1 .. 4 - Len(f) |-> 0] \in Seq(Nat)
    OBVIOUS
  <2> QED
    BY <1>2, <2>1 DEF int2ip, Ip
<1>3. ASSUME NEW f \in Seq(Nat), t = PortText(f) PROVE t[2] \in Seq(Nat)
  BY <1>3 DEF PortText, Port, Undef
<1>4. ASSUME NEW f \in Seq(Nat), t = IdText(f) PROVE t[2] \in Seq(Nat)
  BY <1>4 DEF IdText, Id, Undef
<1>5. ASSUME NEW s \in Strings \cup Additions, t \in Range(s) PROVE t[2] \in Seq(Nat)
  <2>1. t[2] \in Seq(0 .. 255)
    BY SMT, <1>5, TextAssumption
  <2> DEFINE Byte == 0 .. 255
  <2>2. Byte \subseteq Nat
    BY SMT
  <2>3. t[2] \in Seq(Byte)
    BY <2>1
  <2> HIDE DEF Byte
  <2> QED
    BY Zenon, <2>2, <2>3, SeqSubset
<1> QED
  BY <1>1, <1>2, <1>3, <1>4, <1>5 DEF Token, FieldToken

LEMMA HexTyped ==
  ASSUME NEW bs \in Seq(Nat)
  PROVE  Int_To_Hex(bs) \in Seq(Nat)
<1> DEFINE nonzero == { i \in DOMAIN bs : bs[i] # 0 }
<1>1. CASE nonzero = {}
  BY <1>1 DEF Int_To_Hex
<1>2. CASE nonzero # {}
  <2>1. nonzero \in SUBSET Nat /\ nonzero \subseteq 1 .. Len(bs)
    OBVIOUS
  <2>2. Min(nonzero) \in 1 .. Len(bs)
    BY Zenon, <1>2, <2>1, LeastElement
  <2> HIDE DEF nonzero
  <2>3. SubSeq(bs, Min(nonzero), Len(bs)) \in Seq(Nat)
    BY <2>2
  <2> QED
    BY <1>2, <2>3 DEF Int_To_Hex, nonzero
<1> QED
  BY <1>1, <1>2

LEMMA WordTyped ==
  ASSUME NEW T, NEW s \in Seq(T), NEW i \in 1 .. Len(s) + 1
  PROVE  UpToSlash(s, i) \in Seq(T)
<1> DEFINE J == { j \in i .. Len(s) + 1 : j > Len(s) \/ s[j] = Slash }
<1>1. J \in SUBSET Nat /\ Len(s) + 1 \in J
  OBVIOUS
<1>2. Min(J) \in J
  BY Zenon, <1>1, LeastElement
<1>3. Min(J) - 1 \in i - 1 .. Len(s)
  BY <1>2
<1> HIDE DEF J
<1>4. SubSeq(s, i, Min(J) - 1) \in Seq(T)
  BY <1>3
<1> QED
  BY <1>4 DEF UpToSlash, J

LEMMA WordsTyped ==
  ASSUME NEW T, NEW s \in Seq(T)
  PROVE  Words(s) \in Seq(Seq(T))
<1> DEFINE C == Cardinality(Starts(s))
           start(k) == CHOOSE i \in Starts(s) : Cardinality({ j \in Starts(s) : j <= i }) = k
<1>1. Len(s) \in Nat /\ Starts(s) \in SUBSET (1 .. Len(s))
  BY DEF Starts
<1>2. C \in Nat
  <2>1. IsFiniteSet(1 .. Len(s))
    BY FS_Interval
  <2>2. IsFiniteSet(Starts(s))
    BY <1>1, <2>1, FS_Subset
  <2> QED
    BY <2>2, FS_CardinalityType
<1>3. ASSUME NEW k \in 1 .. C PROVE UpToSlash(s, start(k)) \in Seq(T)
  <2>1. \E i \in Starts(s) : Cardinality({ j \in Starts(s) : j <= i }) = k
    BY Zenon, <1>1, KthElement
  <2>2. start(k) \in Starts(s)
    BY Zenon, <2>1
  <2> HIDE DEF start
  <2>3. start(k) \in 1 .. Len(s) + 1
    BY <1>1, <2>2
  <2> QED
    BY <2>3, WordTyped
<1>4. Words(s) = [k \in 1 .. C |-> UpToSlash(s, start(k))]
  BY DEF Words
<1> HIDE DEF C, start
<1> QED
  BY <1>2, <1>3, <1>4

LEMMA AddressTyped ==
  ASSUME NEW name, NEW w \in Seq(Token), NEW b \in address_string_to_bytes(name, w)
  PROVE  b \in Seq(Nat)
<1>0. \A u \in Range(w) : u \in Token
  BY DEF Range
<1>1. CASE b \in Ip4Bytes(w)
  <2>1. PICK u \in Range(w) : u[1] = "ip" /\ b = Int_To_Hex(u[2])
    BY Zenon, <1>1 DEF Ip4Bytes
  <2>2. u[2] \in Seq(Nat)
    BY <1>0, <2>1, TokenBytes
  <2> QED
    BY <2>1, <2>2, HexTyped
<1>2. CASE b \in PortBytes(w)
  <2> DEFINE top == 256 * 256 - 1
             Ports == 1 .. top
             Pair(n) == <<n \div 256, n % 256>>
  <2>1. b \in { Pair(n) : n \in {Atoi(w)} \cap Ports }
    BY Zenon, <1>2 DEF PortBytes
  <2>2. top \in Int
    BY SMT
  <2> HIDE DEF top
  <2>3. \A n \in Ports : n \in Nat
    BY SMT, <2>2
  <2> HIDE DEF Ports
  <2>4. \A n \in Nat : n \div 256 \in Nat /\ n % 256 \in Nat
    BY SMT
  <2>5. \A n \in Nat : Pair(n) \in Seq(Nat)
    BY SMT, <2>4
  <2> HIDE DEF Pair
  <2> QED
    BY Zenon, <2>1, <2>3, <2>5
<1>3. CASE b \in IpfsBytes(w)
  <2>1. PICK u \in Range(w) : u[1] = "id" /\ b = <<Num_To_HexVar_32(u[2])>> \o u[2]
    BY Zenon, <1>3 DEF IpfsBytes
  <2>2. u[2] \in Seq(Nat)
    BY <1>0, <2>1, TokenBytes
  <2>3. \A v \in Seq(Nat) : Num_To_HexVar_32(v) \in Nat
    <3>1. \A n \in Nat : 128 + ((2 * n) % 128) \in Nat
      BY SMT
    <3> QED
      BY SMT, <3>1 DEF Num_To_HexVar_32
  <2>4. <<Num_To_HexVar_32(u[2])>> \in Seq(Nat)
    BY SMT, <2>2, <2>3
  <2> QED
    BY <2>1, <2>2, <2>4
<1> QED
  BY <1>1, <1>2, <1>3 DEF address_string_to_bytes

LEMMA WordBytesTyped ==
  ASSUME NEW ws \in Seq(Seq(Token)), NEW i \in DOMAIN ws, NEW b \in WordBytes(ws, i)
  PROVE  b \in Seq(Nat)
<1>0. ws[i] \in Seq(Token)
  OBVIOUS
<1>1. CASE i % 2 = 1
  <2>1. PICK p \in Rows : b = Int_To_Hex(<<p[2] \div 256, p[2] % 256>>)
    BY Zenon, <1>1 DEF WordBytes, proto_with_name, Rows
  <2>2. p[2] \in Nat
    BY TableRows
  <2>3. p[2] \div 256 \in Nat /\ p[2] % 256 \in Nat
    BY SMT, <2>2
  <2>4. <<p[2] \div 256, p[2] % 256>> \in Seq(Nat)
    BY SMT, <2>3
  <2> QED
    BY Zenon, <2>1, <2>4, HexTyped
<1>2. CASE i % 2 # 1
  <2>1. PICK p : b \in address_string_to_bytes(p[1], ws[i])
    BY Zenon, <1>2 DEF WordBytes
  <2> QED
    BY <1>0, <2>1, AddressTyped
<1> QED
  BY <1>1, <1>2

LEMMA JoinedWordsTyped ==
  ASSUME NEW ws \in Seq(Seq(Token)), \A i \in DOMAIN ws : WordBytes(ws, i) # {}
  PROVE  Joined(ws) \in Seq(Nat)
<1> DEFINE n == Len(ws)
           D == 0 .. n
           V == Seq(Nat)
           piece(i) == CHOOSE b \in WordBytes(ws, i) : TRUE
           Step(f, i) == IF i = 0 THEN <<>> ELSE f[i - 1] \o piece(i)
           c == CHOOSE f : f = [i \in D |-> Step(f, i)]
           rank == [i \in D |-> i]
           E == [q \in [D -> V] \X D |-> Step(q[1], q[2])]
<1>1. n \in Nat /\ n \in D /\ Joined(ws) = c[n]
  BY DEF Joined
<1>2. \A i \in D : i # 0 => i - 1 \in D /\ rank[i - 1] < rank[i] /\ i \in DOMAIN ws
  OBVIOUS
<1>3. rank \in [D -> 0 .. n] /\ rank \in [D -> Nat]
  OBVIOUS
<1>4. \A i \in DOMAIN ws : piece(i) \in V
  BY WordBytesTyped
<1>5. <<>> \in V
  OBVIOUS
<1> HIDE DEF n, D, rank, piece
<1>6. ASSUME NEW f, NEW i \in D, \A j \in D : rank[j] < rank[i] => f[j] \in V
      PROVE  Step(f, i) \in V
  BY <1>2, <1>4, <1>6
<1>7. ASSUME NEW f, NEW g, NEW i \in D, \A j \in D : rank[j] < rank[i] => f[j] = g[j]
      PROVE  Step(f, i) = Step(g, i)
  BY <1>2, <1>7
<1> HIDE DEF Step, V
<1>8. E \in [[D -> V] \X D -> V]
  BY <1>6
<1>9. \A f \in [D -> V], i \in D : E[<<f, i>>] = Step(f, i)
  OBVIOUS
<1> HIDE DEF E
<1>10. Recursion(D, V, rank, E)
  <2>1. ASSUME NEW f \in [D -> V], NEW g \in [D -> V], NEW i \in D,
               \A j \in D : rank[j] < rank[i] => f[j] = g[j]
        PROVE  E[<<f, i>>] = E[<<g, i>>]
    BY <1>7, <1>9, <2>1
  <2>2. StepLocal(D, V, rank, E)
    BY Zenon, <2>1 DEF StepLocal
  <2>3. V # {} /\ \E B \in Nat : rank \in [D -> 0 .. B]
    BY Zenon, <1>1, <1>3, <1>5
  <2> QED
    BY Zenon, <1>8, <2>2, <2>3 DEF Recursion
<1>11. \E f : f = [i \in D |-> Step(f, i)]
  <2>1. PICK f : Fixpoint(D, V, E, f)
    BY Zenon, <1>10, RankExists
  <2>2. f \in [D -> V] /\ \A i \in D : f[i] = Step(f, i)
    BY Zenon, <1>9, <2>1 DEF Fixpoint
  <2> QED
    BY <2>2
<1>12. c = [i \in D |-> Step(c, i)]
  BY <1>11
<1> HIDE DEF c
<1>13. \A i \in D : c[i] = Step(c, i)
  BY <1>12
<1>14. StepTyped(D, V, rank, c)
  BY Zenon, <1>6, <1>13 DEF StepTyped
<1>15. \A i \in D : c[i] \in V
  BY Zenon, <1>3, <1>14, RankTyped
<1> QED
  BY <1>1, <1>15 DEF V

LEMMA EncodedTyped ==
  ASSUME NEW s \in Seq(Token), string_to_bytes(s) # {}
  PROVE  \E b \in Seq(Nat) : string_to_bytes(s) = {b}
<1>1. Words(s) \in Seq(Seq(Token))
  BY WordsTyped
<1>2. /\ string_to_bytes(s) = {Joined(Words(s))}
      /\ \A i \in DOMAIN Words(s) : WordBytes(Words(s), i) # {}
  BY DEF string_to_bytes
<1> QED
  BY Zenon, <1>1, <1>2, JoinedWordsTyped

-----------------------------------------------------------------------------
(* From bytes to text.                                                      *)

LEMMA FieldTyped ==
  ASSUME NEW bs \in Seq(Nat), NEW i \in Nat, i > 0, NEW n \in Nat
  PROVE  Field(bs, i, n) \in Seq(Nat)
<1> DEFINE J == {i + n - 1, Len(bs)}
<1>1. J \in SUBSET Nat /\ J # {}
  OBVIOUS
<1>2. Min(J) \in Nat /\ Min(J) <= Len(bs)
  BY <1>1, LeastElement
<1> HIDE DEF J
<1>3. SubSeq(bs, i, Min(J)) \in Seq(Nat)
  BY <1>2
<1> QED
  BY Zenon, <1>3 DEF Field, J

LEMMA AddressTokens ==
  ASSUME NEW name, NEW f \in Seq(Nat)
  PROVE  Address(name, f) \in Seq(FieldToken)
<1>1. int2ip(f) \in FieldToken /\ PortText(f) \in FieldToken
  BY Zenon DEF FieldToken
<1>2. <<int2ip(f)>> \in Seq(FieldToken) /\ <<PortText(f)>> \in Seq(FieldToken)
      /\ <<>> \in Seq(FieldToken)
  BY <1>1
<1> QED
  BY <1>2 DEF Address

\* One field: its text is one of tokens if the rest is, and depends on what
\* stands behind the field only.
LEMMA FieldStep ==
  ASSUME NEW bs \in Seq(Nat), NEW head \in Seq(Rows), NEW i \in 1 .. Len(bs), NEW f, NEW g
  PROVE  /\ (\A j \in 1 .. Len(bs) : j > i => f[j] \in Seq(FieldToken))
            => FieldsFrom(bs, head, f, i) \in Seq(FieldToken)
         /\ (\A j \in 1 .. Len(bs) : j > i => f[j] = g[j])
            => FieldsFrom(bs, head, f, i) = FieldsFrom(bs, head, g, i)
<1> DEFINE ps == proto_with_deccode(head, bs[i])
           p == CHOOSE q \in ps : TRUE
           next == i + 1 + p[3] \div 8
           id == <<IdText(Field(bs, i + 2, IdSize(bs, i + 1)))>>
           address == Address(p[1], Field(bs, i + 1, p[3] \div 8))
           front == <<Slash, P(p[1]), Slash>>
           After_(h) == IF next > Len(bs) THEN <<>> ELSE h[next]
           Text(h) == IF ps = {} THEN <<>>
                      ELSE front \o IF p[1] = "ipfs" THEN id ELSE address \o After_(h)
<1>1. FieldsFrom(bs, head, f, i) = Text(f) /\ FieldsFrom(bs, head, g, i) = Text(g)
  BY DEF FieldsFrom
<1>2. CASE ps = {}
  BY <1>1, <1>2
<1>3. CASE ps # {}
  <2>1. p \in Rows
    <3>1. p \in Range(head)
      BY <1>3 DEF proto_with_deccode
    <3> HIDE DEF p
    <3>2. PICK k \in DOMAIN head : p = head[k]
      BY <3>1 DEF Range
    <3> QED
      BY <3>2
  <2>2. p[3] \in Int /\ (p[1] # "ipfs" => p[3] >= 0)
    BY <2>1, TableRows
  <2>3. front \in Seq(FieldToken)
    <3>1. Slash \in FieldToken /\ P(p[1]) \in FieldToken
      BY Zenon, <2>1 DEF FieldToken
    <3> HIDE DEF p
    <3> QED
      BY <3>1
  <2> HIDE DEF ps, p
  <2>4. id \in Seq(FieldToken)
    <3>1. IdSize(bs, i + 1) \in Nat
      BY DEF IdSize
    <3>2. Field(bs, i + 2, IdSize(bs, i + 1)) \in Seq(Nat)
      BY <3>1, FieldTyped
    <3>3. IdText(Field(bs, i + 2, IdSize(bs, i + 1))) \in FieldToken
      BY Zenon, <3>2 DEF FieldToken
    <3> QED
      BY <3>3
  <2>5. ASSUME p[1] # "ipfs"
        PROVE  next \in Nat /\ next > i /\ address \in Seq(FieldToken)
    <3>1. p[3] \div 8 \in Nat
      BY <2>2, <2>5
    <3>2. Field(bs, i + 1, p[3] \div 8) \in Seq(Nat)
      BY <3>1, FieldTyped
    <3> QED
      BY <3>1, <3>2, AddressTokens
  <2> HIDE DEF id, address, front, next
  <2>6. CASE p[1] = "ipfs"
    BY <1>1, <1>3, <2>3, <2>4, <2>6
  <2>7. CASE p[1] # "ipfs"
    <3>1. (\A j \in 1 .. Len(bs) : j > i => f[j] \in Seq(FieldToken))
          => After_(f) \in Seq(FieldToken)
      BY <2>5, <2>7
    <3>2. (\A j \in 1 .. Len(bs) : j > i => f[j] = g[j]) => After_(f) = After_(g)
      BY <2>5, <2>7
    <3> HIDE DEF After_
    <3>3. Text(f) = front \o (address \o After_(f)) /\ Text(g) = front \o (address \o After_(g))
      BY <1>3, <2>7
    <3> QED
      BY <1>1, <2>3, <2>5, <2>7, <3>1, <3>2, <3>3
  <2> QED
    BY <2>6, <2>7
<1> QED
  BY <1>2, <1>3

LEMMA DecodedTyped ==
  ASSUME NEW bs \in Seq(Nat), NEW head \in Seq(Rows)
  PROVE  bytes_to_string(bs, head) \in Seq(FieldToken)
<1> DEFINE D == 1 .. Len(bs)
           Step(f, i) == FieldsFrom(bs, head, f, i)
           c == CHOOSE f : f = [i \in D |-> Step(f, i)]
           rank == [i \in D |-> Len(bs) - i]
           V == Seq(FieldToken)
           E == [q \in [D -> V] \X D |-> Step(q[1], q[2])]
<1>1. bytes_to_string(bs, head) = (IF bs = <<>> THEN <<>> ELSE c[1]) \o <<Slash>>
  BY Zenon DEF bytes_to_string
<1>2. rank \in [D -> 0 .. Len(bs)] /\ rank \in [D -> Nat] /\ Len(bs) \in Nat
  OBVIOUS
<1>3. \A i, j \in D : rank[j] < rank[i] <=> j > i
  OBVIOUS
<1>4. ASSUME NEW f, NEW i \in D, \A j \in D : rank[j] < rank[i] => f[j] \in V
      PROVE  Step(f, i) \in V
  <2>1. \A j \in 1 .. Len(bs) : j > i => f[j] \in Seq(FieldToken)
    BY Zenon, <1>3, <1>4
  <2> QED
    BY Zenon, <2>1, FieldStep
<1>5. ASSUME NEW f, NEW g, NEW i \in D, \A j \in D : rank[j] < rank[i] => f[j] = g[j]
      PROVE  Step(f, i) = Step(g, i)
  <2>1. \A j \in 1 .. Len(bs) : j > i => f[j] = g[j]
    BY Zenon, <1>3, <1>5
  <2> QED
    BY Zenon, <2>1, FieldStep
<1>6. Slash \in FieldToken
  BY Zenon DEF FieldToken
<1>7. <<>> \in V /\ <<Slash>> \in V /\ (bs # <<>> => 1 \in D)
  BY <1>6
<1> HIDE DEF D, rank, Step, V
<1>8. ASSUME NEW f \in [D -> V], NEW i \in D PROVE Step(f, i) \in V
  BY <1>4, <1>8
<1>9. E \in [[D -> V] \X D -> V]
  BY <1>8
<1>10. \A f \in [D -> V], i \in D : E[<<f, i>>] = Step(f, i)
  OBVIOUS
<1> HIDE DEF E
<1>11. Recursion(D, V, rank, E)
  <2>1. ASSUME NEW f \in [D -> V], NEW g \in [D -> V], NEW i \in D,
               \A j \in D : rank[j] < rank[i] => f[j] = g[j]
        PROVE  E[<<f, i>>] = E[<<g, i>>]
    <3>1. Step(f, i) = Step(g, i)
      BY <1>5, <2>1
    <3> QED
      BY <1>10, <3>1
  <2>2. StepLocal(D, V, rank, E)
    BY Zenon, <2>1 DEF StepLocal
  <2>3. V # {} /\ \E B \in Nat : rank \in [D -> 0 .. B]
    BY Zenon, <1>2, <1>7
  <2> QED
    BY Zenon, <1>9, <2>2, <2>3 DEF Recursion
<1>12. \E f : f = [i \in D |-> Step(f, i)]
  <2>1. PICK f : Fixpoint(D, V, E, f)
    BY Zenon, <1>11, RankExists
  <2>2. f \in [D -> V] /\ \A i \in D : f[i] = Step(f, i)
    BY Zenon, <1>10, <2>1 DEF Fixpoint
  <2> QED
    BY <2>2
<1>13. c = [i \in D |-> Step(c, i)]
  BY <1>12
<1> HIDE DEF c
<1>14. \A i \in D : c[i] = Step(c, i)
  BY <1>13
<1>15. StepTyped(D, V, rank, c)
  BY Zenon, <1>4, <1>14 DEF StepTyped
<1>16. \A i \in D : c[i] \in V
  BY Zenon, <1>2, <1>15, RankTyped
<1>17. (IF bs = <<>> THEN <<>> ELSE c[1]) \in V
  BY <1>7, <1>16
<1> QED
  BY <1>1, <1>7, <1>17 DEF V

-----------------------------------------------------------------------------
(* The invariant.  An object is made of a text and of bytes, or has none.   *)

Object(a) ==
  /\ a = [st |-> a.st, string |-> a.string, bytes |-> a.bytes]
  /\ a.string \in Seq(Token)
  /\ a.bytes \in Seq(Nat) \cup {NoBytes, Garbage}

\* What Consistent says of one object, when o allocations have failed.
Lists(o) == {Len(load_protocols)} \cup (IF o = 0 THEN {} ELSE Loaded)
InStep(a, o) ==
  Defined(a) /\ Space \notin Range(a.string) =>
    \/ string_to_bytes(a.string) = {a.bytes}
    \/ \E k \in Lists(o) : a.string = bytes_to_string(a.bytes, SubSeq(load_protocols, 1, k))

Good(a, o) == Object(a) /\ InStep(a, o)

Inv == /\ oom \in Nat /\ Good(ma, oom) /\ Good(cp, oom)
       /\ cp.st = "live" => cp.bytes # NoBytes

LEMMA NotBytes == NoBytes \notin Seq(Nat) /\ Garbage \notin Seq(Nat) /\ NoBytes # Garbage
<1>1. ASSUME NEW s \in Seq(Nat), Len(s) = 1 PROVE s[1] \in Nat
  <2>1. 1 \in 1 .. Len(s)
    BY <1>1
  <2> QED
    BY <2>1, ElementOfSeq
<1>2. Len(NoBytes) = 1 /\ NoBytes[1] = -1 /\ Len(Garbage) = 1 /\ Garbage[1] = -2
  BY DEF NoBytes, Garbage
<1> QED
  BY SMT, <1>1, <1>2

LEMMA LoadedLists ==
  ASSUME NEW o, NEW k \in Lists(o)
  PROVE  SubSeq(load_protocols, 1, k) \in Seq(Rows)
<1> DEFINE t == load_protocols
<1>1. t \in Seq(Rows)
  BY TableRows
<1>2. Len(t) \in Nat /\ Loaded \subseteq 0 .. Len(t)
  BY <1>1, LoadedAssumption
<1>3. k \in {Len(t)} \cup Loaded
  BY DEF Lists
<1> HIDE DEF t
<1>4. k \in 0 .. Len(t)
  <2>1. Len(t) \in 0 .. Len(t)
    BY <1>2
  <2> QED
    BY Zenon, <1>2, <1>3, <2>1
<1> QED
  BY <1>1, <1>4 DEF t

LEMMA GoodGone ==
  ASSUME NEW st, NEW o
  PROVE  Good(Gone(st), o)
<1>1. Gone(st).bytes = NoBytes /\ Gone(st).string = <<>> /\ Gone(st).st = st
  BY DEF Gone
<1>2. <<>> \in Seq(Token)
  OBVIOUS
<1>3. Gone(st) = [st |-> st, string |-> <<>>, bytes |-> NoBytes]
  BY DEF Gone
<1>4. Object(Gone(st))
  BY Zenon, <1>1, <1>2, <1>3 DEF Object
<1>5. ~Defined(Gone(st))
  BY <1>1 DEF Defined
<1> QED
  BY <1>4, <1>5 DEF Good, InStep

LEMMA LiveObject ==
  ASSUME NEW s \in Seq(Token), NEW b \in Seq(Nat) \cup {NoBytes, Garbage}
  PROVE  Object(Live(s, b)) /\ Live(s, b).string = s /\ Live(s, b).bytes = b
         /\ Live(s, b).st = "live"
<1>1. Live(s, b) = [st |-> "live", string |-> s, bytes |-> b]
  BY DEF Live
<1>2. Live(s, b).string = s /\ Live(s, b).bytes = b /\ Live(s, b).st = "live"
  BY <1>1
<1> QED
  BY Zenon, <1>1, <1>2 DEF Object

LEMMA GoodConverted ==
  ASSUME NEW s \in Seq(Token), NEW o
  PROVE  /\ Good(Converted(s), o)
         /\ \A b : string_to_bytes(s) = {b} => Converted(s) = Live(s, b)
<1>1. CASE string_to_bytes(s) = {}
  <2>1. Converted(s) = Gone("freed")
    BY <1>1 DEF Converted
  <2> QED
    BY <1>1, <2>1, GoodGone
<1>2. CASE string_to_bytes(s) # {}
  <2>1. PICK b \in Seq(Nat) : string_to_bytes(s) = {b}
    BY <1>2, EncodedTyped
  <2>2. Converted(s) = Live(s, b)
    BY <1>2, <2>1 DEF Converted
  <2>3. Object(Live(s, b)) /\ Live(s, b).string = s /\ Live(s, b).bytes = b
    BY Zenon, LiveObject
  <2>4. InStep(Live(s, b), o)
    BY Zenon, <2>1, <2>3 DEF InStep
  <2> QED
    BY <2>1, <2>2, <2>3, <2>4 DEF Good
<1> QED
  BY <1>1, <1>2

LEMMA FieldText ==
  ASSUME NEW s \in Seq(FieldToken)
  PROVE  s \in Seq(Token)
<1>1. FieldToken \subseteq Token
  BY Zenon DEF Token
<1> QED
  BY Zenon, <1>1, SeqSubset

LEMMA GoodDecoded ==
  ASSUME NEW o, NEW k \in Lists(o), NEW bs \in Seq(Nat)
  PROVE  Good(Live(bytes_to_string(bs, SubSeq(load_protocols, 1, k)), bs), o)
<1> DEFINE s == bytes_to_string(bs, SubSeq(load_protocols, 1, k))
<1>1. s \in Seq(Token)
  BY Zenon, LoadedLists, DecodedTyped, FieldText
<1>2. Object(Live(s, bs)) /\ Live(s, bs).string = s /\ Live(s, bs).bytes = bs
  BY Zenon, <1>1, LiveObject
<1>3. InStep(Live(s, bs), o)
  BY Zenon, <1>2 DEF InStep
<1> QED
  BY Zenon, <1>2, <1>3 DEF Good

LEMMA GoodLater ==
  ASSUME NEW a, NEW o \in Nat, Good(a, o)
  PROVE  Good(a, o + 1)
<1>1. Lists(o) \subseteq Lists(o + 1)
  BY DEF Lists
<1>2. InStep(a, o + 1)
  BY Zenon, <1>1 DEF InStep, Good
<1> QED
  BY <1>2 DEF Good

\* Slashes become spaces, or spaces slashes.
LEMMA Replaced ==
  ASSUME NEW s \in Seq(Token), NEW old, NEW new \in Token
  PROVE  /\ ReplaceAll(s, old, new) \in Seq(Token)
         /\ Len(ReplaceAll(s, old, new)) = Len(s)
         /\ \A i \in 1 .. Len(s) :
              ReplaceAll(s, old, new)[i] = IF s[i] = old THEN new ELSE s[i]
<1> DEFINE r == [i \in 1 .. Len(s) |-> IF s[i] = old THEN new ELSE s[i]]
<1>1. ReplaceAll(s, old, new) = r
  BY DEF ReplaceAll
<1>2. \A i \in 1 .. Len(s) : (IF s[i] = old THEN new ELSE s[i]) \in Token
  OBVIOUS
<1>3. r \in Seq(Token) /\ Len(r) = Len(s)
  BY <1>2
<1> QED
  BY <1>1, <1>3

LEMMA Separators == Slash \in Token /\ Space \in Token /\ Slash # Space
<1>1. Slash \in Token /\ Space \in Token
  BY Zenon DEF Token, FieldToken
<1>2. Slash[1] = "/" /\ Space[1] = " "
  BY DEF Slash, Space
<1> QED
  BY <1>1, <1>2

\* A position at which the needle is found lies in the text.
LEMMA HitTyped ==
  ASSUME NEW s \in Seq(Token), NEW sub, Occurs(s, sub) # {}, Len(sub) \in Nat
  PROVE  Min(Occurs(s, sub)) \in Nat /\ SubSeq(s, 1, Min(Occurs(s, sub)) - 1) \in Seq(Token)
<1>1. Occurs(s, sub) \in SUBSET Nat /\ \A i \in Occurs(s, sub) : 1 <= i /\ i <= Len(s) + 1
  BY DEF Occurs
<1> DEFINE m == Min(Occurs(s, sub))
<1>2. m \in Nat /\ m \in Occurs(s, sub)
  BY <1>1, LeastElement
<1>3. m - 1 \in 0 .. Len(s)
  BY <1>1, <1>2
<1> HIDE DEF m
<1>4. SubSeq(s, 1, m - 1) \in Seq(Token)
  BY <1>3
<1> QED
  BY <1>2, <1>4 DEF m

LEMMA GoodDecapsulated ==
  ASSUME NEW a, NEW o, Good(a, o), NEW needle, Len(needle) \in Nat
  PROVE  Good(Decapsulated(a, needle), o)
<1> DEFINE spaced == ReplaceAll(a.string, Slash, Space)
           hits == Occurs(spaced, needle)
<1>0. Object(a) /\ InStep(a, o) /\ a.string \in Seq(Token)
  BY DEF Good, Object
<1>1. /\ spaced \in Seq(Token) /\ Len(spaced) = Len(a.string)
      /\ \A i \in 1 .. Len(a.string) :
           spaced[i] = IF a.string[i] = Slash THEN Space ELSE a.string[i]
  BY <1>0, Replaced, Separators
<1>2. CASE hits # {}
  <2> DEFINE cut == SubSeq(spaced, 1, Min(hits) - 1)
  <2>1. cut \in Seq(Token)
    BY <1>1, <1>2, HitTyped
  <2>2. ReplaceAll(cut, Space, Slash) \in Seq(Token)
    BY Zenon, <2>1, Replaced, Separators
  <2>3. Decapsulated(a, needle) = Converted(ReplaceAll(cut, Space, Slash))
    BY <1>2 DEF Decapsulated
  <2> QED
    BY <2>2, <2>3, GoodConverted
<1>3. CASE hits = {}
  <2> DEFINE d == [a EXCEPT !.string = spaced]
  <2>1. Decapsulated(a, needle) = d
    BY <1>3 DEF Decapsulated
  <2> HIDE DEF spaced
  <2>2. d = [st |-> a.st, string |-> spaced, bytes |-> a.bytes]
    BY <1>0 DEF Object
  <2>3. d.st = a.st /\ d.string = spaced /\ d.bytes = a.bytes
    BY <2>2
  <2> HIDE DEF d
  <2>4. Object(d)
    BY <1>0, <1>1, <2>2, <2>3 DEF Object
  <2>5. ASSUME Space \notin Range(spaced) PROVE spaced = a.string
    <3>1. \A i \in 1 .. Len(a.string) : spaced[i] # Space
      BY <1>1, <2>5 DEF Range
    <3>2. \A i \in 1 .. Len(a.string) : spaced[i] = a.string[i]
      BY <1>1, <3>1
    <3> QED
      BY <1>0, <1>1, <3>2
  <2>6. InStep(d, o)
    BY <1>0, <2>3, <2>5 DEF InStep, Defined
  <2> QED
    BY <2>1, <2>4, <2>6 DEF Good
<1> QED
  BY <1>2, <1>3

LEMMA GoodCopy ==
  ASSUME NEW a, NEW o, Good(a, o),
         NEW b \in {a.bytes, NoBytes, Garbage}
  PROVE  /\ Good([a EXCEPT !.bytes = b], o)
         /\ [a EXCEPT !.bytes = b].bytes = b
<1> DEFINE c == [a EXCEPT !.bytes = b]
<1>1. c = [st |-> a.st, string |-> a.string, bytes |-> b]
  BY DEF Good, Object
<1>2. c.st = a.st /\ c.string = a.string /\ c.bytes = b
  BY <1>1
<1> HIDE DEF c
<1>3. Object(c)
  BY <1>1, <1>2 DEF Good, Object
<1>4. InStep(c, o)
  BY <1>2 DEF Good, InStep, Defined
<1> QED
  BY <1>2, <1>3, <1>4 DEF Good, c

\* The constants are texts.
LEMMA ArgumentsTyped ==
  /\ \A s \in Strings \cup Additions : s \in Seq(Token)
  /\ \A n \in Needles : Len(n) \in Nat
<1>1. ASSUME NEW s \in Strings \cup Additions PROVE s \in Seq(Token)
  <2>1. s \in Seq(Range(s))
    BY Zenon, TextAssumption
  <2>2. Range(s) \subseteq Token
    BY Zenon DEF Token
  <2> QED
    BY Zenon, <2>1, <2>2, SeqSubset
<1>2. ASSUME NEW n \in Needles PROVE Len(n) \in Nat
  <2>1. n \in Seq(Range(n))
    BY Zenon, TextAssumption
  <2> QED
    BY <2>1
<1> QED
  BY <1>1, <1>2

LEMMA InputsTyped ==
  ASSUME Inv
  PROVE  ByteInputs \subseteq Seq(Nat)
<1>1. ASSUME NEW s \in Strings, NEW b \in string_to_bytes(s) PROVE b \in Seq(Nat)
  BY <1>1, ArgumentsTyped, EncodedTyped
<1>2. ASSUME cp.st = "live", cp.bytes # Garbage PROVE cp.bytes \in Seq(Nat)
  BY <1>2 DEF Inv, Good, Object
<1>3. ASSUME NEW b \in ByteInputs
      PROVE  (\E s \in Strings : b \in string_to_bytes(s)) \/
             (cp.st = "live" /\ cp.bytes # Garbage /\ b = cp.bytes)
  <2> DEFINE own == IF cp.st = "live" /\ cp.bytes # Garbage THEN {cp.bytes} ELSE {}
  <2>1. (\E s \in Strings : b \in string_to_bytes(s)) \/ b \in own
    BY Zenon DEF ByteInputs
  <2> QED
    BY <2>1
<1> QED
  BY <1>1, <1>2, <1>3

LEMMA WholeTable == SubSeq(load_protocols, 1, Len(load_protocols)) = load_protocols
  BY Zenon, TableRows, SubSeqFull

\* The text that encapsulate converts.
LEMMA JoinedTyped ==
  ASSUME NEW s \in Seq(Token), NEW x \in Additions
  PROVE  Tail(x) \in Seq(Token) /\ s \o Tail(x) \in Seq(Token)
<1>1. x \in Seq(Token) /\ x # <<>>
  BY ArgumentsTyped, AdditionAssumption
<1> QED
  BY <1>1

LEMMA FailureInv ==
  ASSUME Inv, AllocationFails
  PROVE  Inv'
<1>1. oom \in Nat /\ oom' = oom + 1 /\ oom' \in Nat
  BY DEF Inv, AllocationFails, Oom
<1>2. Good(ma, oom') /\ Good(cp, oom')
  BY <1>1, GoodLater DEF Inv
<1>3. CASE ma' \in {Gone("none"), Gone("freed")} /\ UNCHANGED cp
  <2>1. Good(ma', oom') /\ Good(cp', oom')
    BY <1>2, <1>3, GoodGone
  <2> QED
    BY <1>1, <1>3, <2>1 DEF Inv
<1>4. CASE cp' = Gone("none") /\ UNCHANGED ma
  <2>1. Good(ma', oom') /\ Good(cp', oom') /\ cp'.st # "live"
    BY <1>2, <1>4, GoodGone DEF Gone
  <2> QED
    BY <1>1, <2>1 DEF Inv
<1>5. CASE ma' = [ma EXCEPT !.bytes = NoBytes] /\ UNCHANGED cp
  <2>1. Good(ma', oom') /\ Good(cp', oom')
    BY Zenon, <1>2, <1>5, GoodCopy
  <2> QED
    BY <1>1, <1>5, <2>1 DEF Inv
<1>6. ASSUME NEW bs \in ByteInputs, NEW k \in Loaded, UNCHANGED cp,
             ma' = Live(bytes_to_string(bs, SubSeq(load_protocols, 1, k)), bs)
      PROVE  Inv'
  <2>1. k \in Lists(oom')
    BY <1>1 DEF Lists
  <2>2. bs \in Seq(Nat)
    BY InputsTyped
  <2>3. Good(ma', oom') /\ Good(cp', oom')
    BY Zenon, <1>2, <1>6, <2>1, <2>2, GoodDecoded
  <2> QED
    BY <1>1, <1>6, <2>3 DEF Inv
<1> QED
  BY <1>3, <1>4, <1>5, <1>6 DEF AllocationFails

LEMMA StepInv ==
  ASSUME Inv, [Next]_vars
  PROVE  Inv'
<1>0. oom \in Nat /\ Good(ma, oom) /\ Good(cp, oom) /\ ma.string \in Seq(Token)
      /\ (cp.st = "live" => cp.bytes # NoBytes)
  BY DEF Inv, Good, Object
<1>1. ASSUME Good(ma', oom), UNCHANGED <<cp, oom>> PROVE Inv'
  BY <1>0, <1>1 DEF Inv
<1>2. ASSUME NEW s \in Strings, multi_address_new_from_string(s) PROVE Inv'
  <2>1. s \in Seq(Token)
    BY ArgumentsTyped
  <2>2. Good(ma', oom)
    BY <1>2, <2>1, GoodConverted, GoodGone DEF multi_address_new_from_string
  <2> QED
    BY <1>1, <1>2, <2>2 DEF multi_address_new_from_string
<1>3. ASSUME NEW bs \in ByteInputs, multi_address_new_from_bytes(bs) PROVE Inv'
  <2>1. bs \in Seq(Nat) /\ Len(load_protocols) \in Lists(oom)
    BY InputsTyped DEF Lists
  <2>2. ma' = Live(bytes_to_string(bs, SubSeq(load_protocols, 1, Len(load_protocols))), bs)
    BY Zenon, <1>3, WholeTable DEF multi_address_new_from_bytes
  <2>3. Good(ma', oom)
    BY Zenon, <2>1, <2>2, GoodDecoded
  <2> QED
    BY <1>1, <1>3, <2>3 DEF multi_address_new_from_bytes
<1>4. ASSUME NEW x \in Additions, multi_address_encapsulate(x) PROVE Inv'
  <2>1. ma' = Converted(ma.string \o Tail(x))
    BY <1>4 DEF multi_address_encapsulate, Encapsulated
  <2>2. Good(ma', oom)
    BY Zenon, <1>0, <2>1, JoinedTyped, GoodConverted
  <2> QED
    BY <1>1, <1>4, <2>2 DEF multi_address_encapsulate
<1>5. ASSUME NEW n \in Needles, multi_address_decapsulate(n) PROVE Inv'
  <2>1. Good(ma', oom)
    BY Zenon, <1>0, <1>5, ArgumentsTyped, GoodDecapsulated DEF multi_address_decapsulate
  <2> QED
    BY <1>1, <1>5, <2>1 DEF multi_address_decapsulate
<1>6. CASE multi_address_copy
  <2> DEFINE b == IF ma.bytes \in {NoBytes, <<>>} THEN Garbage ELSE ma.bytes
  <2>1. cp' = [ma EXCEPT !.bytes = b] /\ UNCHANGED <<ma, oom>>
    BY <1>6 DEF multi_address_copy
  <2>2. b \in {ma.bytes, NoBytes, Garbage} /\ b # NoBytes
    BY NotBytes
  <2> HIDE DEF b
  <2>3. Good(cp', oom) /\ cp'.bytes # NoBytes
    BY Zenon, <1>0, <2>1, <2>2, GoodCopy
  <2> QED
    BY <1>0, <2>1, <2>3 DEF Inv
<1>7. CASE multi_address_free_ma
  BY <1>1, <1>7, GoodGone DEF multi_address_free_ma
<1>8. CASE multi_address_free_cp
  <2>1. cp' \in {Gone("none"), Gone("corrupt")} /\ UNCHANGED <<ma, oom>>
    BY <1>8 DEF multi_address_free_cp
  <2>2. Good(cp', oom) /\ cp'.st # "live"
    BY <2>1, GoodGone DEF Gone
  <2> QED
    BY <1>0, <2>1, <2>2 DEF Inv
<1>9. CASE UNCHANGED vars
  BY <1>0, <1>1, <1>9 DEF vars
<1> QED
  BY <1>2, <1>3, <1>4, <1>5, <1>6, <1>7, <1>8, <1>9, FailureInv DEF Next

\* Objects are well formed and in step, and a copy never has the NULL pointer
\* that a failed encapsulate leaves, in every reachable state.
THEOREM InductiveInvariant == Spec => []Inv
<1>1. Init => Inv
  <2> SUFFICES ASSUME Init PROVE Inv
    OBVIOUS
  <2>1. ma = Gone("none") /\ cp = Gone("none") /\ oom = 0 /\ cp.st # "live"
    BY DEF Init, Gone
  <2>2. Good(ma, oom) /\ Good(cp, oom)
    BY <2>1, GoodGone
  <2> QED
    BY <2>1, <2>2 DEF Inv
<1>2. Inv /\ [Next]_vars => Inv'
  BY StepInv
<1> QED
  BY <1>1, <1>2, PTL DEF Spec

\* Text and bytes stay in step through every sequence of multi_address_new,
\* encapsulate, decapsulate, copy and free, whatever the strings are and
\* wherever an allocation fails: no operation changes one without the other.
THEOREM TextAndBytesInStep == Spec => []Consistent
<1>1. Inv => Consistent
  BY Zenon DEF Inv, Good, InStep, Lists, Consistent
<1> QED
  BY <1>1, InductiveInvariant, PTL

\* The first hit is at position n + 1 if the needle, one token, stands there
\* and at no position before.
LEMMA FirstHit ==
  ASSUME NEW s \in Seq(Token), NEW t, NEW n \in Nat, n < Len(s), s[n + 1] = t,
         \A i \in 1 .. n : s[i] # t
  PROVE  Occurs(s, <<t>>) # {} /\ Min(Occurs(s, <<t>>)) = n + 1
<1> DEFINE O == Occurs(s, <<t>>)
<1>1. O = { i \in 1 .. Len(s) : s[i] = t }
  <2>1. ASSUME NEW i \in 1 .. Len(s) PROVE SubSeq(s, i, i) = <<s[i]>>
    <3>1. s[i] \in Token /\ i \in Int /\ \A k \in i .. i : s[k] \in Token
      OBVIOUS
    <3>2. SubSeq(s, i, i) \in Seq(Token) /\ Len(SubSeq(s, i, i)) = 1 /\ SubSeq(s, i, i)[1] = s[i]
      BY <3>1, SubSeqProperties
    <3>3. <<s[i]>> \in Seq(Token) /\ Len(<<s[i]>>) = 1 /\ <<s[i]>>[1] = s[i]
      BY <3>1
    <3>4. \A k \in 1 .. Len(SubSeq(s, i, i)) : SubSeq(s, i, i)[k] = <<s[i]>>[k]
      BY <3>2, <3>3
    <3> QED
      BY Zenon, <3>2, <3>3, <3>4, SeqEqual
  <2>2. Len(<<t>>) = 1
    OBVIOUS
  <2>3. O = { i \in 1 .. Len(s) : SubSeq(s, i, i) = <<t>> }
    BY <2>2 DEF Occurs
  <2>4. \A x : <<x>> = <<t>> <=> x = t
    OBVIOUS
  <2> QED
    BY Zenon, <2>1, <2>3, <2>4
<1> HIDE DEF O
<1>2. n + 1 \in O /\ O \in SUBSET Nat
  BY <1>1
<1>3. Min(O) \in O /\ Min(O) \in Nat /\ Min(O) <= n + 1
  BY <1>2, LeastElement
<1>4. Min(O) \notin 1 .. n
  BY <1>1, <1>3
<1>5. Min(O) \in 1 .. Len(s)
  BY <1>1, <1>3
<1> QED
  BY <1>2, <1>3, <1>4, <1>5 DEF O

\* Cutting the joined text at the added protocol gives back the text before.
CutsTo(j, t, s) ==
  LET spaced == ReplaceAll(j, Slash, Space)
      hits   == Occurs(spaced, <<t>>)
  IN  hits # {} /\ ReplaceAll(SubSeq(spaced, 1, Min(hits) - 1), Space, Slash) = s

LEMMA CutBack ==
  ASSUME NEW s \in Seq(Token), NEW y \in Seq(Token), y # <<>>,
         NEW t, t = y[1], t # Slash, t # Space, t \notin Range(s), Space \notin Range(s)
  PROVE  CutsTo(s \o y, t, s)
<1> DEFINE j == s \o y
           spaced == ReplaceAll(j, Slash, Space)
           hits == Occurs(spaced, <<t>>)
           n == Len(s)
<1>1. /\ j \in Seq(Token) /\ Len(j) = n + Len(y) /\ n \in Nat /\ Len(y) \in Nat /\ Len(y) > 0
      /\ \A i \in 1 .. n : j[i] = s[i]
  OBVIOUS
<1>2. j[n + 1] = t
  OBVIOUS
<1> HIDE DEF j
<1>3. /\ spaced \in Seq(Token) /\ Len(spaced) = Len(j)
      /\ \A i \in 1 .. Len(j) : spaced[i] = IF j[i] = Slash THEN Space ELSE j[i]
  BY <1>1, Replaced, Separators
<1> HIDE DEF spaced
<1>4. \A i \in 1 .. n : s[i] # t /\ s[i] # Space
  BY DEF Range
<1>5. \A i \in 1 .. n : spaced[i] # t /\ spaced[i] = IF s[i] = Slash THEN Space ELSE s[i]
  BY <1>1, <1>3, <1>4
<1>6. spaced[n + 1] = t /\ n < Len(spaced)
  BY <1>1, <1>2, <1>3
<1>7. hits # {} /\ Min(hits) = n + 1
  BY Zenon, <1>1, <1>3, <1>5, <1>6, FirstHit
<1> DEFINE cut == SubSeq(spaced, 1, n)
<1>8. Min(hits) - 1 = n
  BY <1>1, <1>7
<1>9. cut \in Seq(Token) /\ Len(cut) = n /\ \A i \in 1 .. n : cut[i] = spaced[i]
  BY <1>1, <1>3, <1>6
<1> HIDE DEF cut, n
<1>10. /\ ReplaceAll(cut, Space, Slash) \in Seq(Token)
       /\ Len(ReplaceAll(cut, Space, Slash)) = n
       /\ \A i \in 1 .. n : ReplaceAll(cut, Space, Slash)[i] = IF cut[i] = Space THEN Slash ELSE cut[i]
  BY <1>9, Replaced, Separators
<1>11. \A i \in 1 .. n : ReplaceAll(cut, Space, Slash)[i] = s[i]
  BY <1>4, <1>5, <1>9, <1>10
<1>12. ReplaceAll(cut, Space, Slash) = s
  BY <1>10, <1>11, SeqEqual DEF n
<1> QED
  BY <1>7, <1>8, <1>12 DEF cut, spaced, j, CutsTo

\* multi_address_decapsulate undoes multi_address_encapsulate in every
\* reachable state: text and bytes are those of before.
THEOREM DecapsulateUndoes == Spec => []EncapsulateUndone
<1>1. Inv => EncapsulateUndone
  <2> SUFFICES ASSUME Inv, NEW x \in Additions,
                      Usable(ma), string_to_bytes(ma.string) = {ma.bytes}, Len(x) > 1,
                      Space \notin {x[2]} \cup Range(ma.string), x[2] \notin Range(ma.string),
                      Encapsulated(ma, x).st = "live"
               PROVE  Decapsulated(Encapsulated(ma, x), <<x[2]>>) = ma
    BY DEF EncapsulateUndone
  <2> DEFINE s == ma.string
             y == Tail(x)
             e == Encapsulated(ma, x)
  <2>1. Object(ma) /\ s \in Seq(Token) /\ ma.st = "live"
    BY DEF Inv, Good, Object, Usable
  <2>2. x \in Seq(Token) /\ y \in Seq(Token) /\ y # <<>> /\ y[1] = x[2]
    <3>1. x \in Seq(Token) /\ x # <<>>
      BY ArgumentsTyped, AdditionAssumption
    <3>2. y \in Seq(Token) /\ Len(y) = Len(x) - 1 /\ \A i \in 1 .. Len(y) : y[i] = x[i + 1]
      BY <3>1, HeadTailProperties
    <3> HIDE DEF y
    <3>3. Len(y) > 0 /\ y # <<>> /\ 1 \in 1 .. Len(y)
      BY <3>1, <3>2
    <3> QED
      BY <3>1, <3>2, <3>3
  <2>3. s # <<>> /\ Head(s) = Slash
    BY DEF string_to_bytes
  <2>4. x[2] # Slash /\ x[2] # Space
    <3>1. Slash \in Range(s)
      BY <2>1, <2>3 DEF Range
    <3> QED
      BY <3>1
  <2>5. e = Converted(s \o y) /\ s \o y \in Seq(Token)
    BY <2>1, <2>2 DEF Encapsulated
  <2>6. e.string = s \o y
    <3>1. e.st = "live"
      OBVIOUS
    <3>2. string_to_bytes(s \o y) # {}
      BY <2>5, <3>1 DEF Converted, Gone
    <3> QED
      BY <2>5, <3>2 DEF Converted, Live
  <2> HIDE DEF e
  <2>7. Decapsulated(e, <<x[2]>>) = Converted(s)
    <3>1. Space \notin Range(s) /\ x[2] \notin Range(s)
      OBVIOUS
    <3>2. CutsTo(e.string, x[2], s)
      BY Zenon, <2>1, <2>2, <2>4, <2>6, <3>1, CutBack
    <3> QED
      BY <3>2 DEF Decapsulated, CutsTo
  <2>8. Converted(s) = Live(s, ma.bytes)
    BY <2>1, GoodConverted
  <2>9. Live(s, ma.bytes) = ma
    BY <2>1 DEF Live, Object
  <2> QED
    BY <2>7, <2>8, <2>9 DEF e
<1> QED
  BY <1>1, InductiveInvariant, PTL
=============================================================================
