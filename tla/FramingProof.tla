----------------------------- MODULE FramingProof -----------------------------
(***************************************************************************)
(* Theorems about Framing, for any messages, any size of the length prefix *)
(* and of the buffer: what the CBOR decoders make of what the encoders     *)
(* wrote, and that a peer that sends request by request has its messages   *)
(* received in order.                                                      *)
(***************************************************************************)
EXTENDS Framing, SequenceTheorems, TLAPS

\* The bytes s are in b from position p on, as far as b goes.
At(b, p, s) == \A k \in 1 .. Len(s) : p - 1 + k <= Len(b) => b[p - 1 + k] = s[k]

\* The head of an item is in b at position p, as far as b goes, and where it ends.
Written(b, p, major, n) ==
  /\ b \in Seq(Nat) /\ p \in Nat \ {0} /\ major \in 0 .. 7 /\ n \in Nat
  /\ At(b, p, encode_number(major, n))
EndOf(p, major, n) == p + Len(encode_number(major, n))

\* The number of two bytes.
Pair(x, y) == 256 * x + y

\* The byte at position p of b starts an item.
Starts(b, p, major, info) ==
  /\ b \in Seq(Nat) /\ p \in 1 .. Len(b) /\ major \in 0 .. 7 /\ info \in 0 .. 31
  /\ b[p] = 32 * major + info

Item(major, n, end) == [major |-> major, n |-> n, end |-> end]
-----------------------------------------------------------------------------
LEMMA AtConcat ==
  ASSUME NEW b, NEW p \in Nat \ {0}, NEW s \in Seq(Nat), NEW t \in Seq(Nat),
         At(b, p, s \o t)
  PROVE  At(b, p, s) /\ At(b, p + Len(s), t)
<1>1. /\ Len(s \o t) = Len(s) + Len(t)
      /\ \A k \in 1 .. Len(s) : (s \o t)[k] = s[k]
      /\ \A k \in 1 .. Len(t) : (s \o t)[Len(s) + k] = t[k]
  BY ConcatProperties
<1>2. ASSUME NEW k \in 1 .. Len(s), p - 1 + k <= Len(b)
      PROVE  b[p - 1 + k] = s[k]
  <2>1. k \in 1 .. Len(s \o t)
    BY <1>1
  <2> QED
    BY <1>1, <1>2, <2>1 DEF At
<1>3. ASSUME NEW k \in 1 .. Len(t), p + Len(s) - 1 + k <= Len(b)
      PROVE  b[p + Len(s) - 1 + k] = t[k]
  <2>1. Len(s) + k \in 1 .. Len(s \o t) /\ p - 1 + (Len(s) + k) = p + Len(s) - 1 + k
    BY <1>1
  <2>2. b[p - 1 + (Len(s) + k)] = (s \o t)[Len(s) + k]
    BY Zenon, <1>3, <2>1 DEF At
  <2> QED
    BY <1>1, <2>1, <2>2
<1> QED
  BY <1>2, <1>3 DEF At

LEMMA NumberBytes ==
  ASSUME NEW major \in 0 .. 7, NEW n \in Nat
  PROVE  /\ encode_number(major, n) \in Seq(Nat)
         /\ Len(encode_number(major, n)) \in 1 .. 3
  BY DEF encode_number

LEMMA FirstByte ==
  ASSUME NEW b, NEW p, NEW major, NEW info, Starts(b, p, major, info)
  PROVE  /\ b[p] % 32 = info /\ b[p] \div 32 = major
         /\ b \in Seq(Nat) /\ p \in Nat /\ Len(b) \in Nat /\ ~(p > Len(b))
  BY DEF Starts

\* The three forms of a head that preparse_value takes.
LEMMA OneByte ==
  ASSUME NEW b, NEW p, NEW major, NEW n \in 0 .. 23, Starts(b, p, major, n)
  PROVE  preparse_value(b, p) = {Item(major, n, p + 1)}
<1>1. /\ b[p] % 32 = n /\ b[p] \div 32 = major
      /\ b \in Seq(Nat) /\ p \in Nat /\ Len(b) \in Nat /\ ~(p > Len(b))
  BY FirstByte
<1>2. ~(n > 25) /\ n < 24 /\ ~(p + 0 > Len(b)) /\ p + 0 + 1 = p + 1
  BY <1>1
<1> QED
  BY Zenon, <1>1, <1>2 DEF preparse_value, Item

LEMMA TwoBytes ==
  ASSUME NEW b, NEW p, NEW major, Starts(b, p, major, 24)
  PROVE  preparse_value(b, p) =
           IF p + 1 > Len(b) THEN {} ELSE {Item(major, b[p + 1], p + 2)}
<1>1. /\ b[p] % 32 = 24 /\ b[p] \div 32 = major
      /\ b \in Seq(Nat) /\ p \in Nat /\ Len(b) \in Nat /\ ~(p > Len(b))
  BY FirstByte
<1>2. /\ ~(24 > 25) /\ ~(24 < 24) /\ 1 # 0 /\ p + 1 + 1 = p + 2
  BY <1>1
<1> QED
  BY Zenon, <1>1, <1>2 DEF preparse_value, Item

LEMMA ThreeBytes ==
  ASSUME NEW b, NEW p, NEW major, Starts(b, p, major, 25)
  PROVE  preparse_value(b, p) =
           IF p + 2 > Len(b) THEN {} ELSE {Item(major, Pair(b[p + 1], b[p + 2]), p + 3)}
<1>1. /\ b[p] % 32 = 25 /\ b[p] \div 32 = major
      /\ b \in Seq(Nat) /\ p \in Nat /\ Len(b) \in Nat /\ ~(p > Len(b))
  BY FirstByte
<1>2. /\ ~(25 > 25) /\ ~(25 < 24) /\ 25 # 24 /\ 2 # 0 /\ 2 # 1 /\ p + 2 + 1 = p + 3
  BY <1>1
<1> QED
  BY ZenonT(30), <1>1, <1>2 DEF preparse_value, Item, Pair

\* preparse_value reads back the head that encode_number wrote, unless it is cut off.
LEMMA HeadRead ==
  ASSUME NEW major, NEW n, NEW b, NEW p, Written(b, p, major, n)
  PROVE  /\ EndOf(p, major, n) <= Len(b) + 1 =>
              preparse_value(b, p) = {Item(major, n, EndOf(p, major, n))}
         /\ EndOf(p, major, n) > Len(b) + 1 => preparse_value(b, p) = {}
<1> SUFFICES LET end == p + Len(encode_number(major, n))
             IN  /\ end <= Len(b) + 1 => preparse_value(b, p) = {Item(major, n, end)}
                 /\ end > Len(b) + 1 => preparse_value(b, p) = {}
  BY DEF EndOf
<1>0. /\ b \in Seq(Nat) /\ p \in Nat \ {0} /\ major \in 0 .. 7 /\ n \in Nat
      /\ At(b, p, encode_number(major, n))
  BY DEF Written
<1> USE <1>0
<1>1. CASE p > Len(b)
  <2>1. preparse_value(b, p) = {}
    BY <1>1 DEF preparse_value
  <2>2. PICK l \in 1 .. 3 : Len(encode_number(major, n)) = l
    BY Zenon, NumberBytes
  <2>3. ~(p + l <= Len(b) + 1)
    BY <1>1
  <2> QED
    BY Zenon, <2>1, <2>2, <2>3
<1>2. CASE p <= Len(b) /\ n < 24
  <2>1. encode_number(major, n) = <<32 * major + n>>
    BY <1>2 DEF encode_number
  <2>2. b[p] = 32 * major + n /\ p \in 1 .. Len(b) /\ n \in 0 .. 23
    BY <1>2, <2>1 DEF At
  <2>3. Starts(b, p, major, n)
    BY <2>2 DEF Starts
  <2>4. preparse_value(b, p) = {Item(major, n, p + 1)}
    BY Zenon, <2>2, <2>3, OneByte
  <2> QED
    BY <1>2, <2>1, <2>4
<1>3. CASE p <= Len(b) /\ n \in 24 .. 255
  <2>1. encode_number(major, n) = <<32 * major + 24, n>>
    BY <1>3 DEF encode_number
  <2>2. b[p] = 32 * major + 24 /\ (p + 1 <= Len(b) => b[p + 1] = n)
    <3> DEFINE e == encode_number(major, n)
    <3>1. Len(e) = 2 /\ e[1] = 32 * major + 24 /\ e[2] = n
      BY <2>1
    <3> HIDE DEF e
    <3>2. At(b, p, e)
      BY DEF e
    <3> QED
      BY <1>3, <3>1, <3>2 DEF At
  <2>3. /\ p + 1 <= Len(b) => preparse_value(b, p) = {Item(major, n, p + 2)}
        /\ p + 1 > Len(b) => preparse_value(b, p) = {}
    <3>1. Starts(b, p, major, 24)
      BY <1>3, <2>2 DEF Starts
    <3>2. preparse_value(b, p) = IF p + 1 > Len(b) THEN {} ELSE {Item(major, b[p + 1], p + 2)}
      BY Zenon, <3>1, TwoBytes
    <3>3. p + 1 <= Len(b) => ~(p + 1 > Len(b))
      OBVIOUS
    <3> QED
      BY Zenon, <2>2, <3>2, <3>3
  <2> QED
    BY <1>3, <2>1, <2>3
<1>4. CASE p <= Len(b) /\ n >= 256
  <2>1. encode_number(major, n) = <<32 * major + 25, n \div 256, n % 256>>
    BY <1>4 DEF encode_number
  <2>2. /\ b[p] = 32 * major + 25
        /\ p + 1 <= Len(b) => b[p + 1] = n \div 256
        /\ p + 2 <= Len(b) => b[p + 2] = n % 256
    <3> DEFINE e == encode_number(major, n)
    <3>1. Len(e) = 3 /\ e[1] = 32 * major + 25 /\ e[2] = n \div 256 /\ e[3] = n % 256
      BY <2>1
    <3> HIDE DEF e
    <3>2. At(b, p, e)
      BY DEF e
    <3>3. \A k \in 1 .. 3 : p - 1 + k <= Len(b) => b[p - 1 + k] = e[k]
      BY Zenon, <3>1, <3>2 DEF At
    <3>4. /\ p <= Len(b) => b[p - 1 + 1] = e[1]
          /\ p + 1 <= Len(b) => b[p - 1 + 2] = e[2]
          /\ p + 2 <= Len(b) => b[p - 1 + 3] = e[3]
      BY <3>3
    <3> QED
      BY <1>4, <3>1, <3>4
  <2>3. 256 * (n \div 256) + (n % 256) = n
    OBVIOUS
  <2>4. /\ p + 2 <= Len(b) => preparse_value(b, p) = {Item(major, n, p + 3)}
        /\ p + 2 > Len(b) => preparse_value(b, p) = {}
    <3>1. p \in 1 .. Len(b)
      BY <1>4
    <3>2. preparse_value(b, p) =
            IF p + 2 > Len(b) THEN {} ELSE {Item(major, Pair(b[p + 1], b[p + 2]), p + 3)}
      <4>1. Starts(b, p, major, 25)
        BY <2>2, <3>1 DEF Starts
      <4> QED
        BY Zenon, <4>1, ThreeBytes
    <3>3. p + 2 <= Len(b) => Pair(b[p + 1], b[p + 2]) = n
      BY <2>2, <2>3, <3>1 DEF Pair
    <3>4. p + 2 <= Len(b) => ~(p + 2 > Len(b))
      OBVIOUS
    <3> QED
      BY Zenon, <3>2, <3>3, <3>4
  <2>5. Len(encode_number(major, n)) = 3
    BY <2>1
  <2>6. /\ p + 3 <= Len(b) + 1 => p + 2 <= Len(b)
        /\ p + 3 > Len(b) + 1 => p + 2 > Len(b)
    OBVIOUS
  <2> QED
    BY Zenon, <2>4, <2>5, <2>6
<1> QED
  BY <1>1, <1>2, <1>3, <1>4

\* An item of the given types, if there is one, is what was written.
LEMMA ItemIs ==
  ASSUME NEW major, NEW n, NEW b, NEW p, Written(b, p, major, n), NEW majors
  PROVE  ItemOf(b, p, majors) \subseteq {Item(major, n, EndOf(p, major, n))}
<1>1. EndOf(p, major, n) <= Len(b) + 1 \/ EndOf(p, major, n) > Len(b) + 1
  <2>1. PICK l \in 1 .. 3 : EndOf(p, major, n) = p + l
    BY Zenon, NumberBytes DEF Written, EndOf
  <2> QED
    BY <2>1 DEF Written
<1>2. preparse_value(b, p) \subseteq {Item(major, n, EndOf(p, major, n))}
  BY Zenon, <1>1, HeadRead
<1> QED
  BY Zenon, <1>2 DEF ItemOf

\* It is there when it was not cut off, is of the right type, and no simple value.
LEMMA ItemIn ==
  ASSUME NEW major, NEW n, NEW b, NEW p, Written(b, p, major, n),
         EndOf(p, major, n) <= Len(b) + 1, NEW majors, major \in majors, major # Simple
  PROVE  ItemOf(b, p, majors) = {Item(major, n, EndOf(p, major, n))}
<1> DEFINE i == Item(major, n, EndOf(p, major, n))
<1>1. preparse_value(b, p) = {i}
  BY Zenon, HeadRead
<1>2. i.major = major
  BY DEF Item
<1> HIDE DEF i
<1>3. ItemOf(b, p, majors) = {i}
  BY Zenon, <1>1, <1>2 DEF ItemOf
<1> QED
  BY <1>3 DEF i

\* Behind an item that is the only one possible, and behind one that is there.
LEMMA FollowingIs ==
  ASSUME NEW b, NEW major, NEW n, NEW p, NEW items, items \subseteq {Item(major, n, p)}, NEW majors
  PROVE  Following(b, items, majors) \subseteq ItemOf(b, p, majors)
<1>1. Item(major, n, p).end = p
  BY DEF Item
<1> QED
  BY Zenon, <1>1 DEF Following

LEMMA FollowingIn ==
  ASSUME NEW b, NEW item, NEW majors
  PROVE  Following(b, {item}, majors) = ItemOf(b, item.end, majors)
  BY Zenon DEF Following

\* A byte string that is all there is read whole.
LEMMA StringRead ==
  ASSUME NEW b \in Seq(Nat), NEW s \in Seq(Nat), NEW p \in Nat \ {0},
         At(b, p, s), p + Len(s) - 1 <= Len(b)
  PROVE  SubSeq(b, p, p + Len(s) - 1) = s
<1> DEFINE c == SubSeq(b, p, p + Len(s) - 1)
<1>1. c \in Seq(Nat) /\ Len(c) = Len(s) /\ \A k \in 1 .. Len(s) : c[k] = b[p - 1 + k]
  BY SubSeqProperties
<1>2. ASSUME NEW k \in 1 .. Len(s) PROVE b[p - 1 + k] = s[k]
  <2>1. p - 1 + k <= Len(b)
    OBVIOUS
  <2> QED
    BY Zenon, <2>1 DEF At
<1> HIDE DEF c
<1>3. c = s
  BY Zenon, <1>1, <1>2, SeqEqual
<1> QED
  BY <1>3 DEF c

LEMMA AtThree ==
  ASSUME NEW b, NEW s \in Seq(Nat), NEW t \in Seq(Nat), NEW u \in Seq(Nat)
  PROVE  /\ s \o t \o u \in Seq(Nat) /\ Len(s \o t \o u) = Len(s) + Len(t) + Len(u)
         /\ At(b, 1, s \o t \o u) =>
              /\ At(b, 1, s) /\ At(b, 1 + Len(s), t) /\ At(b, 1 + Len(s) + Len(t), u)
<1>1. s \o t \in Seq(Nat) /\ Len(s \o t) = Len(s) + Len(t)
  BY ConcatProperties
<1>2. s \o t \o u \in Seq(Nat) /\ Len(s \o t \o u) = Len(s) + Len(t) + Len(u)
  BY <1>1, ConcatProperties
<1>3. ASSUME At(b, 1, s \o t \o u)
      PROVE  At(b, 1, s) /\ At(b, 1 + Len(s), t) /\ At(b, 1 + Len(s) + Len(t), u)
  <2>1. At(b, 1, s \o t) /\ At(b, 1 + Len(s \o t), u)
    <3>1. 1 \in Nat \ {0}
      OBVIOUS
    <3> QED
      BY Zenon, <1>1, <1>3, <3>1, AtConcat
  <2>2. At(b, 1, s) /\ At(b, 1 + Len(s), t)
    BY <2>1, AtConcat
  <2>3. 1 + Len(s \o t) = 1 + Len(s) + Len(t)
    BY <1>1
  <2> QED
    BY <2>1, <2>2, <2>3
<1> QED
  BY <1>2, <1>3

\* cbor_decode_message_t makes of the encoding of m, or of a part of it that was
\* received, the message m or nothing, and nothing if a byte is missing.
LEMMA MessageRead ==
  ASSUME NEW m \in [type : Nat, data : Seq(Nat)], NEW b \in Seq(Nat),
         At(b, 1, cbor_encode_message_t(m))
  PROVE  /\ cbor_encode_message_t(m) \in Seq(Nat)
         /\ cbor_decode_message_t(b) \subseteq {m}
         /\ Len(b) < Len(cbor_encode_message_t(m)) => cbor_decode_message_t(b) = {}
<1> DEFINE n == Len(m.data)
           e1 == encode_number(Array, 3)
           e2 == encode_number(Simple, m.type)
           e3 == encode_number(Unsigned, n)
           e4 == encode_number(ByteString, n)
           p2 == EndOf(1, Array, 3)
           p3 == EndOf(p2, Simple, m.type)
           p4 == EndOf(p3, Unsigned, n)
           p5 == EndOf(p4, ByteString, n)
<1>1. n \in Nat /\ m.type \in Nat /\ m.data \in Seq(Nat) /\ m = [type |-> m.type, data |-> m.data]
  OBVIOUS
<1>2. /\ {Array, Simple, Unsigned, ByteString} \subseteq 0 .. 7 /\ 3 \in Nat
      /\ Array \in 0 .. 7 /\ Simple \in 0 .. 7 /\ Unsigned \in 0 .. 7 /\ ByteString \in 0 .. 7
  BY DEF Array, Simple, Unsigned, ByteString
<1> HIDE DEF n
<1>3. /\ e1 \in Seq(Nat) /\ e2 \in Seq(Nat) /\ e3 \in Seq(Nat) /\ e4 \in Seq(Nat)
      /\ Len(e1) \in 1 .. 3 /\ Len(e2) \in 1 .. 3 /\ Len(e3) \in 1 .. 3 /\ Len(e4) \in 1 .. 3
  BY Zenon, <1>1, <1>2, NumberBytes
<1>4. /\ cbor_encode_message_t(m) = (e1 \o e2 \o e3) \o (e4 \o m.data)
      /\ p2 = 1 + Len(e1) /\ p3 = p2 + Len(e2) /\ p4 = p3 + Len(e3) /\ p5 = p4 + Len(e4)
  BY Zenon DEF cbor_encode_message_t, encode_string, n, EndOf
<1> HIDE DEF e1, e2, e3, e4, p2, p3, p4, p5
<1>5. /\ e4 \o m.data \in Seq(Nat) /\ Len(e4 \o m.data) = Len(e4) + n
      /\ e1 \o e2 \o e3 \in Seq(Nat) /\ Len(e1 \o e2 \o e3) = Len(e1) + Len(e2) + Len(e3)
  BY <1>1, <1>3, ConcatProperties, AtThree DEF n
<1>6. /\ p2 \in Nat \ {0} /\ p3 \in Nat \ {0} /\ p4 \in Nat \ {0} /\ p5 \in Nat \ {0}
      /\ 1 \in Nat \ {0} /\ 1 + Len(e1 \o e2 \o e3) = p4 /\ p3 = 1 + Len(e1) + Len(e2)
  <2>1. PICK l1 \in 1 .. 3, l2 \in 1 .. 3, l3 \in 1 .. 3, l4 \in 1 .. 3 :
          Len(e1) = l1 /\ Len(e2) = l2 /\ Len(e3) = l3 /\ Len(e4) = l4
    BY Zenon, <1>3
  <2>2. /\ p2 = 1 + l1 /\ p3 = p2 + l2 /\ p4 = p3 + l3 /\ p5 = p4 + l4
        /\ Len(e1 \o e2 \o e3) = l1 + l2 + l3
    BY Zenon, <1>4, <1>5, <2>1
  <2> QED
    BY <2>1, <2>2
<1>7. /\ cbor_encode_message_t(m) \in Seq(Nat)
      /\ Len(cbor_encode_message_t(m)) = p5 - 1 + n
  <2>1. /\ cbor_encode_message_t(m) \in Seq(Nat)
        /\ Len(cbor_encode_message_t(m)) = Len(e1 \o e2 \o e3) + Len(e4 \o m.data)
    BY <1>4, <1>5, ConcatProperties
  <2> QED
    BY <1>1, <1>3, <1>4, <1>5, <2>1
<1>8. At(b, 1, e1) /\ At(b, p2, e2) /\ At(b, p3, e3) /\ At(b, p4, e4) /\ At(b, p5, m.data)
  <2>1. At(b, 1, e1 \o e2 \o e3) /\ At(b, 1 + Len(e1 \o e2 \o e3), e4 \o m.data)
    <3>1. At(b, 1, (e1 \o e2 \o e3) \o (e4 \o m.data))
      BY Zenon, <1>4
    <3>2. e1 \o e2 \o e3 \in Seq(Nat) /\ e4 \o m.data \in Seq(Nat) /\ 1 \in Nat \ {0}
      BY Zenon, <1>5, <1>6
    <3> QED
      BY Zenon, <3>1, <3>2, AtConcat
  <2>2. At(b, 1, e1) /\ At(b, 1 + Len(e1), e2) /\ At(b, 1 + Len(e1) + Len(e2), e3)
    BY Zenon, <1>3, <2>1, AtThree
  <2>3. At(b, p4, e4 \o m.data)
    BY Zenon, <1>6, <2>1
  <2>4. At(b, p4, e4) /\ At(b, p4 + Len(e4), m.data)
    <3>1. e4 \in Seq(Nat) /\ m.data \in Seq(Nat) /\ p4 \in Nat \ {0}
      BY Zenon, <1>1, <1>3, <1>6
    <3> QED
      BY Zenon, <2>3, <3>1, AtConcat
  <2> QED
    BY Zenon, <1>4, <1>6, <2>2, <2>4
<1>9. /\ Written(b, 1, Array, 3) /\ Written(b, p2, Simple, m.type)
      /\ Written(b, p3, Unsigned, n) /\ Written(b, p4, ByteString, n)
  BY Zenon, <1>1, <1>2, <1>6, <1>8 DEF Written, e1, e2, e3, e4
<1> DEFINE array == {i \in ItemOf(b, 1, {Array}) : i.n = 3}
           type == Following(b, array, {Simple})
           len == Following(b, type, {Unsigned, Negative})
           head == Following(b, len, {ByteString})
<1>10. array \subseteq {Item(Array, 3, p2)}
  BY Zenon, <1>9, ItemIs DEF p2
<1>11. type \subseteq {Item(Simple, m.type, p3)}
  <2>1. type \subseteq ItemOf(b, p2, {Simple})
    BY Zenon, <1>10, FollowingIs
  <2> QED
    BY Zenon, <1>9, <2>1, ItemIs DEF p3
<1>12. len \subseteq {Item(Unsigned, n, p4)}
  <2>1. len \subseteq ItemOf(b, p3, {Unsigned, Negative})
    BY Zenon, <1>11, FollowingIs
  <2> QED
    BY Zenon, <1>9, <2>1, ItemIs DEF p4
<1>13. head \subseteq {Item(ByteString, n, p5)}
  <2>1. head \subseteq ItemOf(b, p4, {ByteString})
    BY Zenon, <1>12, FollowingIs
  <2> QED
    BY Zenon, <1>9, <2>1, ItemIs DEF p5
<1> HIDE DEF array, type, len, head
<1>14. cbor_decode_message_t(b) =
         {[type |-> i.n, data |-> d.s] : i \in type, d \in copy_byte_string(b, len, Len(b))}
  BY DEF cbor_decode_message_t, array, type, len
<1>15. ASSUME NEW d \in copy_byte_string(b, len, Len(b))
       PROVE  d.s = m.data /\ p5 + n - 1 <= Len(b)
  <2>1. PICK h \in head : /\ h.end + h.n - 1 <= Len(b)
                          /\ d = [s |-> SubSeq(b, h.end, h.end + h.n - 1), end |-> h.end + h.n]
    BY Zenon DEF copy_byte_string, head
  <2>2. h.n = n /\ h.end = p5
    BY <1>13, <2>1 DEF Item
  <2>3. p5 + n - 1 <= Len(b) /\ d.s = SubSeq(b, p5, p5 + n - 1)
    BY Zenon, <2>1, <2>2
  <2>4. SubSeq(b, p5, p5 + n - 1) = m.data
    BY <1>1, <1>6, <1>8, <2>3, StringRead DEF n
  <2> QED
    BY <2>3, <2>4
<1>16. ASSUME NEW i \in type PROVE i.n = m.type
  BY <1>11 DEF Item
<1>17. cbor_decode_message_t(b) \subseteq {m}
  <2> SUFFICES ASSUME NEW x \in cbor_decode_message_t(b) PROVE x = m
    OBVIOUS
  <2>1. PICK i \in type, d \in copy_byte_string(b, len, Len(b)) : x = [type |-> i.n, data |-> d.s]
    BY <1>14
  <2> QED
    BY Zenon, <1>1, <1>15, <1>16, <2>1
<1>18. ASSUME Len(b) < Len(cbor_encode_message_t(m)) PROVE copy_byte_string(b, len, Len(b)) = {}
  <2>1. ~(p5 + n - 1 <= Len(b))
    BY <1>1, <1>6, <1>7, <1>18
  <2> QED
    BY Zenon, <2>1, <1>15
<1>19. Len(b) < Len(cbor_encode_message_t(m)) => cbor_decode_message_t(b) = {}
  BY <1>14, <1>18
<1> QED
  BY <1>7, <1>17, <1>19

\* A whole byte string is in b at position p, and where it ends.
StringEnd(p, s) == p + Len(encode_string(s))
StringIn(b, p, s) ==
  /\ b \in Seq(Nat) /\ p \in Nat \ {0} /\ s \in Seq(Nat)
  /\ At(b, p, encode_string(s)) /\ StringEnd(p, s) <= Len(b) + 1

\* A byte string behind an item is copied if the buffer is large enough.
LEMMA CopyIn ==
  ASSUME NEW b, NEW s, NEW p, StringIn(b, p, s), NEW item, item.end = p, NEW max, Len(s) <= max
  PROVE  copy_byte_string(b, {item}, max) = {[s |-> s, end |-> StringEnd(p, s)]}
<1> DEFINE e == encode_number(ByteString, Len(s))
           q == EndOf(p, ByteString, Len(s))
           i == Item(ByteString, Len(s), q)
<1>1. /\ b \in Seq(Nat) /\ p \in Nat \ {0} /\ s \in Seq(Nat)
      /\ At(b, p, encode_string(s)) /\ StringEnd(p, s) <= Len(b) + 1
      /\ ByteString # Simple /\ ByteString \in 0 .. 7 /\ Len(s) \in Nat
  BY DEF StringIn, ByteString, Simple
<1>2. e \in Seq(Nat) /\ Len(e) \in 1 .. 3
  BY Zenon, <1>1, NumberBytes
<1>3. encode_string(s) = e \o s /\ q = p + Len(e)
  BY DEF encode_string, EndOf
<1> HIDE DEF e, q
<1>4. StringEnd(p, s) = p + (Len(e) + Len(s))
  BY <1>1, <1>2, <1>3, ConcatProperties DEF StringEnd
<1>5. At(b, p, e) /\ At(b, q, s)
  <2>1. At(b, p, e \o s)
    BY <1>1, <1>3
  <2>2. At(b, p, e) /\ At(b, p + Len(e), s)
    BY Zenon, <1>1, <1>2, <2>1, AtConcat
  <2> QED
    BY <1>3, <2>2
<1>6. q \in Nat \ {0} /\ q <= Len(b) + 1 /\ q + Len(s) - 1 <= Len(b) /\ q + Len(s) = StringEnd(p, s)
  BY <1>1, <1>2, <1>3, <1>4
<1>7. Written(b, p, ByteString, Len(s))
  BY <1>1, <1>5 DEF Written, e
<1>8. ItemOf(b, p, {ByteString}) = {i}
  <2>1. EndOf(p, ByteString, Len(s)) <= Len(b) + 1
    BY Zenon, <1>6 DEF q
  <2>2. ByteString \in {ByteString}
    OBVIOUS
  <2> QED
    BY <1>1, <1>7, <2>1, <2>2, ItemIn DEF q
<1>9. Following(b, {item}, {ByteString}) = {i}
  BY Zenon, <1>8, FollowingIn
<1>10. SubSeq(b, q, q + Len(s) - 1) = s
  BY <1>1, <1>5, <1>6, StringRead
<1>11. i.n = Len(s) /\ i.end = q
  BY DEF Item
<1> HIDE DEF i
<1>12. {h \in Following(b, {item}, {ByteString}) : h.end + h.n - 1 <= Len(b) /\ h.n <= max} = {i}
  BY Zenon, <1>6, <1>9, <1>11
<1> QED
  BY Zenon, <1>6, <1>10, <1>11, <1>12 DEF copy_byte_string

\* cbor_decode_hello_t undoes cbor_encode_hello_t.
LEMMA HelloRead ==
  ASSUME NEW h \in [peer_id : Seq(Nat), public_key : Seq(Nat)]
  PROVE  cbor_decode_hello_t(cbor_encode_hello_t(h)) = {h}
<1> DEFINE id == h.peer_id
           key == h.public_key
           e1 == encode_number(Array, 4)
           e2 == encode_number(Unsigned, Len(id))
           e3 == encode_number(Unsigned, Len(key))
           s4 == encode_string(id)
           s5 == encode_string(key)
           b == cbor_encode_hello_t(h)
           p2 == EndOf(1, Array, 4)
           p3 == EndOf(p2, Unsigned, Len(id))
           p4 == EndOf(p3, Unsigned, Len(key))
           p5 == StringEnd(p4, id)
           p6 == StringEnd(p5, key)
<1>1. id \in Seq(Nat) /\ key \in Seq(Nat) /\ h = [peer_id |-> id, public_key |-> key]
  OBVIOUS
<1> HIDE DEF id, key
<1>2. /\ Array # Simple /\ Unsigned # Simple /\ ByteString \in 0 .. 7
      /\ Array \in 0 .. 7 /\ Unsigned \in 0 .. 7 /\ 1 \in Nat \ {0}
      /\ 4 \in Nat /\ Len(id) \in Nat /\ Len(key) \in Nat
  BY <1>1 DEF Array, Unsigned, ByteString, Simple
<1>3. /\ e1 \in Seq(Nat) /\ e2 \in Seq(Nat) /\ e3 \in Seq(Nat)
      /\ Len(e1) \in 1 .. 3 /\ Len(e2) \in 1 .. 3 /\ Len(e3) \in 1 .. 3
  BY Zenon, <1>2, NumberBytes
<1>4. s4 \in Seq(Nat) /\ s5 \in Seq(Nat)
  <2>1. /\ encode_number(ByteString, Len(id)) \in Seq(Nat)
        /\ encode_number(ByteString, Len(key)) \in Seq(Nat)
    BY Zenon, <1>2, NumberBytes
  <2> QED
    BY Zenon, <1>1, <2>1, ConcatProperties DEF encode_string
<1>5. /\ b = (e1 \o e2 \o e3) \o s4 \o s5
      /\ p2 = 1 + Len(e1) /\ p3 = p2 + Len(e2) /\ p4 = p3 + Len(e3)
      /\ p5 = p4 + Len(s4) /\ p6 = p5 + Len(s5)
  BY Zenon DEF cbor_encode_hello_t, EndOf, StringEnd, id, key
<1> HIDE DEF e1, e2, e3, s4, s5, b, p2, p3, p4, p5, p6
<1>6. e1 \o e2 \o e3 \in Seq(Nat) /\ Len(e1 \o e2 \o e3) = Len(e1) + Len(e2) + Len(e3)
  BY <1>3, AtThree
<1>7. b \in Seq(Nat) /\ Len(b) = Len(e1) + Len(e2) + Len(e3) + Len(s4) + Len(s5)
  <2>1. /\ (e1 \o e2 \o e3) \o s4 \o s5 \in Seq(Nat)
        /\ Len((e1 \o e2 \o e3) \o s4 \o s5) = Len(e1 \o e2 \o e3) + Len(s4) + Len(s5)
    BY <1>4, <1>6, AtThree
  <2> QED
    BY Zenon, <1>5, <1>6, <2>1
<1>8. /\ Len(e1) \in Nat /\ Len(e2) \in Nat /\ Len(e3) \in Nat /\ Len(s4) \in Nat /\ Len(s5) \in Nat
      /\ Len(b) \in Nat
  BY <1>3, <1>4, <1>7
<1>9. /\ p2 \in Nat \ {0} /\ p3 \in Nat \ {0} /\ p4 \in Nat \ {0} /\ p5 \in Nat \ {0}
      /\ 1 + Len(e1 \o e2 \o e3) = p4 /\ p3 = 1 + Len(e1) + Len(e2)
      /\ p5 = 1 + Len(e1 \o e2 \o e3) + Len(s4)
  <2>1. PICK l1 \in Nat, l2 \in Nat, l3 \in Nat, l4 \in Nat :
          Len(e1) = l1 /\ Len(e2) = l2 /\ Len(e3) = l3 /\ Len(s4) = l4
    BY Zenon, <1>8
  <2> QED
    BY <1>5, <1>6, <2>1
<1>10. /\ p2 <= Len(b) + 1 /\ p3 <= Len(b) + 1 /\ p4 <= Len(b) + 1 /\ p5 <= Len(b) + 1
       /\ p6 <= Len(b) + 1
  <2>1. PICK l1 \in Nat, l2 \in Nat, l3 \in Nat, l4 \in Nat, l5 \in Nat :
          Len(e1) = l1 /\ Len(e2) = l2 /\ Len(e3) = l3 /\ Len(s4) = l4 /\ Len(s5) = l5
    BY Zenon, <1>8
  <2> QED
    BY <1>5, <1>7, <2>1
<1>11. At(b, 1, (e1 \o e2 \o e3) \o s4 \o s5)
  <2>1. At(b, 1, b)
    BY <1>7 DEF At
  <2> QED
    BY <1>5, <2>1
<1>12. At(b, 1, e1 \o e2 \o e3) /\ At(b, p4, s4) /\ At(b, p5, s5)
  <2>1. /\ At(b, 1, e1 \o e2 \o e3) /\ At(b, 1 + Len(e1 \o e2 \o e3), s4)
        /\ At(b, 1 + Len(e1 \o e2 \o e3) + Len(s4), s5)
    BY Zenon, <1>4, <1>6, <1>11, AtThree
  <2> QED
    BY Zenon, <1>9, <2>1
<1>13. At(b, 1, e1) /\ At(b, p2, e2) /\ At(b, p3, e3)
  <2>1. At(b, 1, e1) /\ At(b, 1 + Len(e1), e2) /\ At(b, 1 + Len(e1) + Len(e2), e3)
    BY Zenon, <1>3, <1>12, AtThree
  <2> QED
    BY Zenon, <1>5, <1>9, <2>1
<1>14. /\ Written(b, 1, Array, 4) /\ Written(b, p2, Unsigned, Len(id))
       /\ Written(b, p3, Unsigned, Len(key))
  BY Zenon, <1>2, <1>7, <1>9, <1>13 DEF Written, e1, e2, e3
<1>15. StringIn(b, p4, id) /\ StringIn(b, p5, key)
  BY Zenon, <1>1, <1>7, <1>9, <1>10, <1>12 DEF StringIn, s4, s5, p5, p6
<1>16. Array \in {Array} /\ Unsigned \in {Unsigned, Negative}
  OBVIOUS
<1>17. ItemOf(b, 1, {Array}) = {Item(Array, 4, p2)}
  BY <1>2, <1>10, <1>14, <1>16, ItemIn DEF p2
<1>18. ItemOf(b, p2, {Unsigned, Negative}) = {Item(Unsigned, Len(id), p3)}
  BY <1>2, <1>10, <1>14, <1>16, ItemIn DEF p3
<1>19. ItemOf(b, p3, {Unsigned, Negative}) = {Item(Unsigned, Len(key), p4)}
  BY <1>2, <1>10, <1>14, <1>16, ItemIn DEF p4
<1> DEFINE array == {i \in ItemOf(b, 1, {Array}) : i.n = 4}
           id_len == Following(b, array, {Unsigned, Negative})
           key_len == Following(b, id_len, {Unsigned, Negative})
           i4 == UNION {copy_byte_string(b, key_len, l.n) : l \in id_len}
           i5 == UNION {copy_byte_string(b, i4, l.n) : l \in key_len}
           r4 == [s |-> id, end |-> p5]
           r5 == [s |-> key, end |-> p6]
<1>20. /\ Item(Array, 4, p2).n = 4 /\ Item(Array, 4, p2).end = p2
       /\ Item(Unsigned, Len(id), p3).n = Len(id) /\ Item(Unsigned, Len(id), p3).end = p3
       /\ Item(Unsigned, Len(key), p4).n = Len(key) /\ Item(Unsigned, Len(key), p4).end = p4
       /\ r4.end = p5 /\ r4.s = id /\ r5.s = key
  BY DEF Item
<1>21. cbor_decode_hello_t(b) = {[peer_id |-> i.s, public_key |-> k.s] : i \in i4, k \in i5}
  BY DEF cbor_decode_hello_t
<1> HIDE DEF array, id_len, key_len, i4, i5, r4, r5
<1>22. array = {Item(Array, 4, p2)}
  BY Zenon, <1>17, <1>20 DEF array
<1>23. id_len = {Item(Unsigned, Len(id), p3)}
  <2>1. id_len = ItemOf(b, Item(Array, 4, p2).end, {Unsigned, Negative})
    BY <1>22, FollowingIn DEF id_len
  <2> QED
    BY Zenon, <1>18, <1>20, <2>1
<1>24. key_len = {Item(Unsigned, Len(key), p4)}
  <2>1. key_len = ItemOf(b, Item(Unsigned, Len(id), p3).end, {Unsigned, Negative})
    BY <1>23, FollowingIn DEF key_len
  <2> QED
    BY Zenon, <1>19, <1>20, <2>1
<1>25. Len(id) <= Len(id) /\ Len(key) <= Len(key)
  BY <1>2
<1>26. copy_byte_string(b, key_len, Len(id)) = {r4}
  BY <1>15, <1>20, <1>24, <1>25, CopyIn DEF p5, r4
<1>27. i4 = {r4}
  BY Zenon, <1>20, <1>23, <1>26 DEF i4
<1>28. copy_byte_string(b, i4, Len(key)) = {r5}
  BY <1>15, <1>20, <1>25, <1>27, CopyIn DEF p6, r5
<1>29. i5 = {r5}
  BY Zenon, <1>20, <1>24, <1>28 DEF i5
<1>30. cbor_decode_hello_t(b) = {[peer_id |-> r4.s, public_key |-> r5.s]}
  BY <1>21, <1>27, <1>29
<1> QED
  BY Zenon, <1>1, <1>20, <1>30 DEF b
-----------------------------------------------------------------------------
\* Bytes a + 1 to w of frame i.
Part(i, a, w) == [k \in 1 .. w - a |-> <<i, a + k>>]

LEMMA PartLength ==
  ASSUME NEW i, NEW a \in Nat, NEW w \in Nat, a <= w
  PROVE  Part(i, a, w) \in Seq({i} \X Nat) /\ Len(Part(i, a, w)) = w - a
  BY DEF Part

LEMMA FirstPart ==
  ASSUME NEW i, NEW w \in Nat
  PROVE  Len(Part(i, 0, w)) = w
  BY DEF Part

LEMMA PartByte ==
  ASSUME NEW i, NEW a, NEW w, NEW k \in 1 .. w - a
  PROVE  Part(i, a, w)[k] = <<i, a + k>>
  BY Zenon DEF Part

LEMMA PartEmpty ==
  ASSUME NEW i, NEW a \in Nat
  PROVE  Part(i, a, a) = <<>>
<1>1. a <= a /\ a - a = 0
  OBVIOUS
<1>2. Part(i, a, a) \in Seq({i} \X Nat) /\ Len(Part(i, a, a)) = 0
  BY Zenon, <1>1, PartLength
<1> QED
  BY <1>2, EmptySeq

Ordered(a, v, w) == a \in Nat /\ v \in Nat /\ w \in Nat /\ a <= v /\ v <= w

LEMMA PartConcat ==
  ASSUME NEW i, NEW a, NEW v, NEW w, Ordered(a, v, w)
  PROVE  Part(i, a, v) \o Part(i, v, w) = Part(i, a, w)
<1> DEFINE S == {i} \X Nat
           c == Part(i, a, v) \o Part(i, v, w)
<1> USE DEF Ordered
<1>0. a <= w
  OBVIOUS
<1>1. /\ Part(i, a, v) \in Seq(S) /\ Len(Part(i, a, v)) = v - a
      /\ Part(i, v, w) \in Seq(S) /\ Len(Part(i, v, w)) = w - v
      /\ Part(i, a, w) \in Seq(S) /\ Len(Part(i, a, w)) = w - a
  BY Zenon, <1>0, PartLength
<1> HIDE DEF S
<1>2. c \in Seq(S) /\ Len(c) = w - a
  <2>1. (v - a) + (w - v) = w - a
    OBVIOUS
  <2> QED
    BY Zenon, <1>1, <2>1, ConcatProperties
<1>3. ASSUME NEW k \in 1 .. w - a PROVE c[k] = Part(i, a, w)[k]
  <2>1. CASE k <= v - a
    <3>1. k \in 1 .. v - a /\ k \in 1 .. Len(Part(i, a, v))
      BY <1>1, <2>1
    <3>2. c[k] = Part(i, a, v)[k]
      BY <1>1, <3>1, ConcatProperties
    <3>3. Part(i, a, v)[k] = <<i, a + k>>
      BY Zenon, <3>1, PartByte
    <3>4. Part(i, a, w)[k] = <<i, a + k>>
      BY Zenon, PartByte
    <3> QED
      BY Zenon, <3>2, <3>3, <3>4
  <2>2. CASE k > v - a
    <3> DEFINE l == k - (v - a)
    <3>1. l \in 1 .. w - v /\ v + l = a + k /\ k = (v - a) + l
      BY <2>2
    <3> HIDE DEF l
    <3>2. l \in 1 .. Len(Part(i, v, w)) /\ c[Len(Part(i, a, v)) + l] = Part(i, v, w)[l]
      <4>1. l \in 1 .. Len(Part(i, v, w))
        BY Zenon, <1>1, <3>1
      <4>2. \A j \in 1 .. Len(Part(i, v, w)) : c[Len(Part(i, a, v)) + j] = Part(i, v, w)[j]
        BY <1>1, ConcatProperties
      <4> QED
        BY Zenon, <4>1, <4>2
    <3>3. Part(i, v, w)[l] = <<i, v + l>>
      BY Zenon, <3>1, PartByte
    <3>4. Part(i, a, w)[k] = <<i, a + k>>
      BY Zenon, PartByte
    <3> QED
      BY Zenon, <1>1, <3>1, <3>2, <3>3, <3>4
  <2>3. k <= v - a \/ k > v - a
    OBVIOUS
  <2> QED
    BY Zenon, <2>1, <2>2, <2>3
<1> HIDE DEF c
<1>4. c = Part(i, a, w)
  BY <1>1, <1>2, <1>3, SeqEqual
<1> QED
  BY <1>4 DEF c

\* Positions p to q of that part are the bytes u + 1 to v of the frame.
Inside(a, w, p, q, u, v) ==
  Ordered(a, u, v) /\ Ordered(u, v, w) /\ p = (u - a) + 1 /\ q = v - a

LEMMA PartOfPart ==
  ASSUME NEW i, NEW a, NEW w, NEW p, NEW q, NEW u, NEW v, Inside(a, w, p, q, u, v)
  PROVE  SubSeq(Part(i, a, w), p, q) = Part(i, u, v)
<1> USE DEF Inside, Ordered
<1> DEFINE S == {i} \X Nat
           c == SubSeq(Part(i, a, w), p, q)
<1>0. a <= w
  OBVIOUS
<1>1. /\ Part(i, a, w) \in Seq(S) /\ Len(Part(i, a, w)) = w - a
      /\ Part(i, u, v) \in Seq(S) /\ Len(Part(i, u, v)) = v - u
  BY Zenon, <1>0, PartLength
<1> HIDE DEF S
<1>2. c \in Seq(S) /\ Len(c) = v - u /\ \A k \in 1 .. v - u : c[k] = Part(i, a, w)[(u - a) + k]
  <2> DEFINE s == Part(i, a, w)
  <2>1. /\ s \in Seq(S) /\ p \in 1 .. Len(s) + 1 /\ q \in 0 .. Len(s)
        /\ q - p + 1 = v - u /\ \A k \in 1 .. v - u : p + k - 1 = (u - a) + k
    BY <1>1
  <2> HIDE DEF s
  <2>2. c = SubSeq(s, p, q)
    BY DEF s
  <2>3. c \in Seq(S) /\ Len(c) = v - u /\ \A k \in 1 .. v - u : c[k] = s[p + k - 1]
    BY <2>1, <2>2, SubSeqProperties
  <2> QED
    BY <2>1, <2>3 DEF s
<1>3. ASSUME NEW k \in 1 .. v - u PROVE c[k] = Part(i, u, v)[k]
  <2>1. (u - a) + k \in 1 .. w - a /\ a + ((u - a) + k) = u + k
    OBVIOUS
  <2>2. Part(i, a, w)[(u - a) + k] = <<i, a + ((u - a) + k)>> /\ Part(i, u, v)[k] = <<i, u + k>>
    BY Zenon, <2>1, PartByte
  <2> QED
    BY Zenon, <1>2, <2>1, <2>2
<1> HIDE DEF c
<1>4. c = Part(i, u, v)
  BY <1>1, <1>2, <1>3, SeqEqual
<1> QED
  BY <1>4 DEF c

\* The frame of a message that was sent.
LEMMA SizeNat ==
  ASSUME NEW i \in Messages
  PROVE  /\ Sent[i] \in [type : Nat, data : Seq(Nat)]
         /\ Encoded[i] = cbor_encode_message_t(Sent[i])
         /\ Encoded[i] \in Seq(Nat) /\ Size(i) \in Nat
<1>1. Sent[i] \in [type : Nat, data : Seq(0 .. 255)]
  <2>1. i \in 1 .. Len(Sent) /\ Sent \in Seq([type : Nat, data : Seq(0 .. 255)])
    BY FramingAssumption DEF Messages
  <2> QED
    BY Zenon, <2>1, ElementOfSeq
<1>2. Sent[i] \in [type : Nat, data : Seq(Nat)]
  <2>1. Sent[i].type \in Nat /\ Sent[i].data \in Seq(0 .. 255)
    BY <1>1
  <2>2. 0 .. 255 \subseteq Nat
    OBVIOUS
  <2>3. Sent[i].data \in Seq(Nat)
    BY Zenon, <2>1, <2>2, SeqMonotonic
  <2> QED
    BY <1>1, <2>1, <2>3
<1>3. Encoded[i] = cbor_encode_message_t(Sent[i])
  BY DEF Encoded
<1>4. At(<<>>, 1, cbor_encode_message_t(Sent[i]))  /\ <<>> \in Seq(Nat)
  BY DEF At
<1>5. cbor_encode_message_t(Sent[i]) \in Seq(Nat)
  BY Zenon, <1>2, <1>4, MessageRead
<1> QED
  BY <1>2, <1>3, <1>5 DEF Size

LEMMA FrameParts ==
  ASSUME NEW i \in Messages
  PROVE  Header(i) = Part(i, 0, IntBytes) /\ Body(i) = Part(i, IntBytes, IntBytes + Size(i))
<1>1. Header(i) = Part(i, 0, IntBytes)
  BY FramingAssumption DEF Header, Part
<1>2. (IntBytes + Size(i)) - IntBytes = Size(i)
  BY FramingAssumption, SizeNat
<1> DEFINE n == (IntBytes + Size(i)) - IntBytes
<1>3. Part(i, IntBytes, IntBytes + Size(i)) = [k \in 1 .. n |-> <<i, IntBytes + k>>]
  BY DEF Part
<1> HIDE DEF n
<1>4. n = Size(i)
  BY <1>2 DEF n
<1> QED
  BY Zenon, <1>1, <1>3, <1>4 DEF Body

LEMMA BodyPrefix ==
  ASSUME NEW i \in Messages, NEW n \in 1 .. Size(i)
  PROVE  SubSeq(Body(i), 1, n) = Part(i, IntBytes, IntBytes + n)
<1>1. IntBytes \in Nat /\ Size(i) \in Nat
  BY FramingAssumption, SizeNat
<1>2. Inside(IntBytes, IntBytes + Size(i), 1, n, IntBytes, IntBytes + n)
  BY <1>1 DEF Inside, Ordered
<1>3. SubSeq(Part(i, IntBytes, IntBytes + Size(i)), 1, n) = Part(i, IntBytes, IntBytes + n)
  BY <1>1, <1>2, PartOfPart
<1> QED
  BY Zenon, <1>3, FrameParts

\* What handle_receive makes of the first n bytes of the body of a message.
LEMMA BodyDecoded ==
  ASSUME NEW i \in Messages, NEW n \in 1 .. Size(i),
         NEW d \in Decoded(Part(i, IntBytes, IntBytes + n))
  PROVE  d = {} \/ (d = {Sent[i]} /\ n = Size(i))
<1> DEFINE b == Part(i, IntBytes, IntBytes + n)
           v == [k \in DOMAIN b |-> Value(b[k])]
<1>1. IntBytes \in Nat \ {0} /\ Size(i) \in Nat
  BY FramingAssumption, SizeNat
<1>2. b \in Seq({i} \X Nat) /\ Len(b) = n /\ \A k \in 1 .. n : b[k] = <<i, IntBytes + k>>
  <2>1. (IntBytes + n) - IntBytes = n /\ IntBytes + n \in Nat /\ IntBytes <= IntBytes + n
    BY <1>1
  <2>2. b \in Seq({i} \X Nat) /\ Len(b) = n
    BY Zenon, <1>1, <2>1, PartLength
  <2>3. ASSUME NEW k \in 1 .. n PROVE b[k] = <<i, IntBytes + k>>
    <3>1. k \in 1 .. (IntBytes + n) - IntBytes
      BY <2>1
    <3> QED
      BY Zenon, <3>1, PartByte
  <2> QED
    BY Zenon, <2>2, <2>3
<1>0. d \in Decoded(b)
  OBVIOUS
<1> HIDE DEF b
<1>3. DOMAIN b = 1 .. n /\ b[1][2] = IntBytes + 1
  BY <1>1, <1>2
<1>4. \A k \in 1 .. n : Value(b[k]) = Encoded[i][k]
  <2> SUFFICES ASSUME NEW k \in 1 .. n PROVE Value(b[k]) = Encoded[i][k]
    OBVIOUS
  <2>1. ~(IntBytes + k <= IntBytes) /\ (IntBytes + k) - IntBytes = k
    BY <1>1
  <2>2. b[k][1] = i /\ b[k][2] = IntBytes + k
    BY <1>2
  <2> QED
    BY Zenon, <2>1, <2>2 DEF Value
<1>5. v = [k \in 1 .. n |-> Encoded[i][k]]
  BY <1>3, <1>4
<1>6. Encoded[i] \in Seq(Nat) /\ Len(Encoded[i]) = Size(i)
  BY SizeNat DEF Size
<1>7. v \in Seq(Nat) /\ Len(v) = n /\ \A k \in 1 .. n : v[k] = Encoded[i][k]
  <2>1. n \in Nat /\ \A k \in 1 .. n : Encoded[i][k] \in Nat
    BY <1>1, <1>6
  <2> HIDE DEF v
  <2> QED
    BY <1>5, <2>1
<1>8. At(v, 1, Encoded[i])
  BY <1>6, <1>7 DEF At
<1>9. d = {} \/ d = cbor_decode_message_t(v)
  BY Zenon, <1>0, <1>3 DEF Decoded
<1> HIDE DEF v
<1>10. /\ cbor_decode_message_t(v) \subseteq {Sent[i]}
       /\ n < Size(i) => cbor_decode_message_t(v) = {}
  BY <1>6, <1>7, <1>8, SizeNat, MessageRead
<1>11. n < Size(i) \/ n = Size(i)
  BY <1>1
<1> QED
  BY Zenon, <1>9, <1>10, <1>11
-----------------------------------------------------------------------------
(* The inductive invariant, for a peer that sends request by request.       *)

\* The message that is received next.
Current == Len(received) + 1

\* handle_send has written w bytes of the current frame, which is the only one
\* on its way, and handle_receive has read r of them.
Writing(w) ==
  \/ spc = "idle" /\ next = Current /\ w = 0
  \/ spc = "int" /\ next = Current /\ next \in Messages /\ left \in 1 .. IntBytes /\ w = IntBytes - left
  \/ spc = "body" /\ next = Current /\ next \in Messages /\ w = IntBytes
  \/ spc = "idle" /\ next = Current + 1 /\ w > IntBytes
  \/ spc = "closed"

Reading(r) ==
  \/ rpc \in {"int", "recv"} /\ r < IntBytes /\ got = Part(Current, 0, r)
  \/ rpc = "body" /\ r = IntBytes /\ got = <<>>

Transfer(r, w) ==
  /\ r <= w /\ stream = Part(Current, r, w)
  /\ w > 0 => Current \in Messages /\ w <= IntBytes + Size(Current)
  /\ Reading(r)
  /\ Writing(w)

Delivered == \E n \in 0 .. Len(Sent) : received = SubSeq(Sent, 1, n)

Inv ==
  /\ Delivered
  /\ rpc # "closed" => \E r \in Nat, w \in Nat : Transfer(r, w)

LEMMA CurrentNat ==
  ASSUME Delivered
  PROVE  Current \in Nat \ {0} /\ Len(received) \in Nat
<1>1. PICK n \in 0 .. Len(Sent) : received = SubSeq(Sent, 1, n)
  BY DEF Delivered
<1>2. Len(received) = n
  BY <1>1, FramingAssumption
<1> QED
  BY <1>2, FramingAssumption DEF Current

LEMMA InitInv ==
  ASSUME Init
  PROVE  Inv
<1>1. Delivered
  <2>1. 0 \in 0 .. Len(Sent) /\ SubSeq(Sent, 1, 0) = <<>>
    BY FramingAssumption
  <2> QED
    BY <2>1 DEF Init, Delivered
<1>2. Current = 1
  BY DEF Init, Current
<1>3. Part(1, 0, 0) = <<>>
  BY PartEmpty
<1>4. Reading(0) /\ Writing(0)
  BY <1>2, <1>3, FramingAssumption DEF Init, Reading, Writing
<1>5. Transfer(0, 0)
  BY <1>2, <1>3, <1>4 DEF Init, Transfer
<1> QED
  BY <1>1, <1>5 DEF Inv

\* A step of the sender keeps what was read and extends what was written.
LEMMA SenderInv ==
  ASSUME ~Pipelined, Delivered, rpc # "closed", NEW r \in Nat, NEW w \in Nat, Transfer(r, w),
         Sender
  PROVE  \E x \in Nat : Transfer(r, x)'
<1> USE FramingAssumption
<1>0. Current \in Nat \ {0}
  BY CurrentNat
<1>1. ASSUME UNCHANGED <<rpc, got, received>> PROVE Current' = Current /\ (Reading(r) => Reading(r)')
  BY <1>1 DEF Current, Reading
<1>2. CASE handle_send
  <2>1. r = 0 /\ w = 0
    <3>1. Len(Part(Current, r, w)) = w - r /\ (r < IntBytes => Len(Part(Current, 0, r)) = r)
      <4>1. r <= w /\ 0 <= r /\ 0 \in Nat /\ r - 0 = r
        BY DEF Transfer
      <4> QED
        BY Zenon, <4>1, PartLength
    <3> QED
      BY <1>2, <3>1 DEF handle_send, CaughtUp, Transfer, Reading
  <2>2. next = Current
    BY <1>2, <2>1 DEF handle_send, Transfer, Writing
  <2>3. Writing(w)'
    BY <1>1, <1>2, <2>1, <2>2 DEF handle_send, Writing, receiver, Messages
  <2>4. Transfer(r, w)'
    BY <1>1, <1>2, <2>3 DEF handle_send, Transfer, receiver, Size, Encoded, Messages
  <2> QED
    BY <2>4
<1>3. CASE SendFails \/ CloseSender
  <2>1. Writing(w)'
    BY <1>3 DEF SendFails, CloseSender, Writing
  <2>2. Transfer(r, w)'
    BY <1>1, <1>3, <2>1 DEF SendFails, CloseSender, Transfer, receiver, Size, Encoded, Messages
  <2> QED
    BY <2>2
<1>4. ASSUME NEW n \in 1 .. IntBytes, send_int_tcp(n)
      PROVE  \E x \in Nat : Transfer(r, x)'
  <2>1. next = Current /\ next \in Messages /\ left \in 1 .. IntBytes /\ w = IntBytes - left
    BY <1>4 DEF send_int_tcp, Transfer, Writing
  <2>2. n <= left /\ w + n \in Nat /\ w + n <= IntBytes /\ w <= w + n /\ r <= w
    BY <1>4, <2>1 DEF send_int_tcp, Transfer
  <2>3. stream' = Part(Current, r, w + n)
    <3>1. SubSeq(Header(next), IntBytes - left + 1, IntBytes - left + n) = Part(Current, w, w + n)
      <4>1. Header(next) = Part(Current, 0, IntBytes)
        BY <2>1, FrameParts
      <4>2. Inside(0, IntBytes, IntBytes - left + 1, IntBytes - left + n, w, w + n)
        BY <2>1, <2>2 DEF Inside, Ordered
      <4> QED
        BY <4>1, <4>2, PartOfPart
    <3>2. stream' = Part(Current, r, w) \o Part(Current, w, w + n)
      BY Zenon, <1>4, <3>1 DEF send_int_tcp, Transfer
    <3>3. Ordered(r, w, w + n)
      BY <2>2 DEF Ordered
    <3> QED
      BY <3>2, <3>3, PartConcat
  <2>4. UNCHANGED <<next, rpc, got, received>> /\ left' = left - n
        /\ spc' = IF left' = 0 THEN "body" ELSE "int"
    BY <1>4 DEF send_int_tcp, receiver
  <2>5. Writing(w + n)'
    BY <1>1, <2>1, <2>2, <2>4 DEF Writing, Messages
  <2>6. Size(Current) \in Nat
    BY <2>1, SizeNat
  <2>7. Transfer(r, w + n)'
    BY <1>1, <2>1, <2>2, <2>3, <2>4, <2>5, <2>6 DEF Transfer, Size, Encoded, Messages
  <2> QED
    BY <2>2, <2>7
<1>5. ASSUME NEW n \in UNION {1 .. Size(i) : i \in Messages}, SendBody(n)
      PROVE  \E x \in Nat : Transfer(r, x)'
  <2>1. next = Current /\ next \in Messages /\ w = IntBytes /\ Size(next) \in Nat
    BY <1>5, SizeNat DEF SendBody, Transfer, Writing
  <2>2. n \in Nat \ {0}
    <3>1. PICK i \in Messages : n \in 1 .. Size(i)
      BY <1>5
    <3> QED
      BY <3>1, SizeNat
  <2>3. n <= Size(next) /\ w + n \in Nat /\ w <= w + n /\ w + n > IntBytes /\ r <= w
        /\ w + n <= IntBytes + Size(Current)
    BY <1>5, <2>1, <2>2 DEF SendBody, Transfer
  <2>4. stream' = Part(Current, r, w + n)
    <3>1. SubSeq(Body(next), 1, n) = Part(Current, w, w + n)
      BY <2>1, <2>2, <2>3, BodyPrefix
    <3>2. stream' = Part(Current, r, w) \o Part(Current, w, w + n)
      BY Zenon, <1>5, <3>1 DEF SendBody, Transfer
    <3>3. Ordered(r, w, w + n)
      BY <2>3 DEF Ordered
    <3> QED
      BY Zenon, <3>2, <3>3, PartConcat
  <2>5. UNCHANGED <<rpc, got, received>> /\ spc' = "idle" /\ next' = next + 1
    BY <1>5 DEF SendBody, receiver
  <2>6. Writing(w + n)'
    BY <1>1, <2>1, <2>3, <2>5 DEF Writing
  <2>7. Transfer(r, w + n)'
    BY <1>1, <2>1, <2>3, <2>4, <2>5, <2>6 DEF Transfer, Size, Encoded, Messages
  <2> QED
    BY <2>3, <2>7
<1> QED
  BY <1>2, <1>3, <1>4, <1>5 DEF Sender

\* What is left of the frame when n more bytes were read.
LEMMA ReadOn ==
  ASSUME Delivered, NEW r \in Nat, NEW w \in Nat, Transfer(r, w),
         NEW n \in Nat \ {0}, n <= Len(stream)
  PROVE  /\ Current \in Messages /\ Size(Current) \in Nat
         /\ r + n \in Nat /\ r + n <= w /\ w <= IntBytes + Size(Current)
         /\ SubSeq(stream, 1, n) = Part(Current, r, r + n)
         /\ SubSeq(stream, n + 1, Len(stream)) = Part(Current, r + n, w)
<1>1. r <= w /\ stream = Part(Current, r, w)
  BY DEF Transfer
<1>2. Len(stream) = w - r
  BY Zenon, <1>1, PartLength
<1>3. r + n \in Nat /\ r + n <= w /\ w > 0
  BY <1>1, <1>2
<1>4. Current \in Messages /\ w <= IntBytes + Size(Current)
  BY <1>3 DEF Transfer
<1>5. SubSeq(stream, 1, n) = Part(Current, r, r + n)
  <2>1. Inside(r, w, 1, n, r, r + n)
    BY <1>1, <1>3 DEF Inside, Ordered
  <2> QED
    BY <1>1, <2>1, PartOfPart
<1>6. SubSeq(stream, n + 1, Len(stream)) = Part(Current, r + n, w)
  <2>1. Inside(r, w, n + 1, Len(stream), r + n, w)
    BY <1>1, <1>2, <1>3 DEF Inside, Ordered
  <2> QED
    BY <1>1, <2>1, PartOfPart
<1> QED
  BY Zenon, <1>3, <1>4, <1>5, <1>6, SizeNat

\* receive_int_tcp reads on in the length, or ends with it.
LEMMA IntInv ==
  ASSUME Delivered, NEW r \in Nat, NEW w \in Nat, Transfer(r, w),
         NEW n \in 1 .. IntBytes, receive_int_tcp(n)
  PROVE  rpc' # "closed" => \E x \in Nat : Transfer(x, w)'
<1> USE FramingAssumption
<1> SUFFICES ASSUME rpc' # "closed" PROVE Transfer(r + n, w)'
  OBVIOUS
<1>1. rpc = "recv" /\ n <= Len(stream) /\ n <= IntBytes - Len(got) /\ r < IntBytes
      /\ got = Part(Current, 0, r)
  BY DEF receive_int_tcp, ReceiveInt, Transfer, Reading
<1>2. /\ Current \in Messages /\ Size(Current) \in Nat /\ r + n \in Nat
      /\ r + n <= w /\ w <= IntBytes + Size(Current)
      /\ SubSeq(stream, 1, n) = Part(Current, r, r + n)
      /\ SubSeq(stream, n + 1, Len(stream)) = Part(Current, r + n, w)
  BY <1>1, ReadOn
<1> DEFINE b == got \o SubSeq(stream, 1, n)
<1>3. b = Part(Current, 0, r + n) /\ Len(b) = r + n /\ r + n <= IntBytes
  <2>1. 0 \in Nat /\ 0 <= r /\ r <= r + n /\ 0 <= r + n /\ (r + n) - 0 = r + n /\ r - 0 = r
    BY <1>2
  <2>2. b = Part(Current, 0, r + n)
    <3>1. Ordered(0, r, r + n)
      BY <1>2, <2>1 DEF Ordered
    <3>2. b = Part(Current, 0, r) \o Part(Current, r, r + n)
      BY Zenon, <1>1, <1>2
    <3> QED
      BY Zenon, <3>1, <3>2, PartConcat
  <2>3. Len(Part(Current, 0, r + n)) = r + n /\ Len(Part(Current, 0, r)) = r
    BY Zenon, <1>2, FirstPart
  <2>4. Len(b) = r + n /\ Len(got) = r
    BY Zenon, <1>1, <2>2, <2>3
  <2>5. n <= IntBytes - r
    BY Zenon, <1>1, <2>4
  <2>6. r + n <= IntBytes
    BY <2>5
  <2> QED
    BY Zenon, <2>2, <2>4, <2>6
<1>4. stream' = Part(Current, r + n, w) /\ UNCHANGED <<spc, next, left, received>>
  BY <1>2 DEF receive_int_tcp, ReceiveInt, sender
<1> HIDE DEF b
<1>5. IF Len(b) < IntBytes THEN got' = b /\ rpc' = "int" ELSE got' = <<>> /\ TestSize(b)
  BY DEF receive_int_tcp, ReceiveInt, b
<1>6. Current' = Current
  BY <1>4 DEF Current
<1>7. Reading(r + n)'
  <2>1. CASE r + n < IntBytes
    BY <1>3, <1>5, <1>6, <2>1 DEF Reading
  <2>2. CASE r + n = IntBytes
    BY <1>3, <1>5, <1>6, <2>2 DEF Reading, TestSize
  <2> QED
    BY <1>2, <1>3, <2>1, <2>2
<1>8. Writing(w)'
  BY <1>4, <1>6 DEF Transfer, Writing, Messages
<1> QED
  BY <1>2, <1>4, <1>6, <1>7, <1>8 DEF Transfer, Size, Encoded, Messages

LEMMA Longer ==
  ASSUME NEW k \in Nat, k + 1 \in 1 .. Len(Sent)
  PROVE  /\ Append(SubSeq(Sent, 1, k), Sent[k + 1]) = SubSeq(Sent, 1, k + 1)
         /\ Len(SubSeq(Sent, 1, k + 1)) = k + 1 /\ Len(Sent) \in Nat
<1> DEFINE S == [type : Nat, data : Seq(0 .. 255)]
<1>1. Sent \in Seq(S)
  BY FramingAssumption
<1> HIDE DEF S
<1> QED
  BY <1>1

\* handle_receive returns the current message, whole, or closes.
LEMMA BodyInv ==
  ASSUME Delivered, NEW r \in Nat, NEW w \in Nat, Transfer(r, w),
         NEW n \in 1 .. MaxSize, ReceiveBody(n)
  PROVE  Inv'
<1> USE FramingAssumption
<1>1. rpc = "body" /\ n <= Len(stream) /\ r = IntBytes /\ got = <<>>
  BY DEF ReceiveBody, Transfer, Reading
<1>2. /\ Current \in Messages /\ Size(Current) \in Nat /\ r + n \in Nat
      /\ r + n <= w /\ w <= IntBytes + Size(Current)
      /\ SubSeq(stream, 1, n) = Part(Current, r, r + n)
      /\ SubSeq(stream, n + 1, Len(stream)) = Part(Current, r + n, w)
  BY <1>1, ReadOn
<1>3. PICK d \in Decoded(Part(Current, IntBytes, IntBytes + n)) :
        \/ d = {} /\ rpc' = "closed" /\ UNCHANGED received
        \/ \E m \in d : rpc' = "int" /\ received' = Append(received, m)
  BY Zenon, <1>1, <1>2 DEF ReceiveBody
<1>4. n \in 1 .. Size(Current)
  BY <1>1, <1>2
<1>5. d = {} \/ (d = {Sent[Current]} /\ n = Size(Current))
  BY <1>2, <1>4, BodyDecoded
<1>6. CASE d = {}
  BY Zenon, <1>3, <1>6 DEF Inv, Delivered
<1>7. CASE d = {Sent[Current]} /\ n = Size(Current)
  <2>1. rpc' = "int" /\ received' = Append(received, Sent[Current])
    BY Zenon, <1>3, <1>7
  <2>2. PICK k \in 0 .. Len(Sent) : received = SubSeq(Sent, 1, k)
    BY DEF Delivered
  <2>3. Len(received) = k /\ Current = k + 1 /\ k + 1 \in 1 .. Len(Sent)
    <3> DEFINE S == [type : Nat, data : Seq(0 .. 255)]
    <3>1. Sent \in Seq(S)
      OBVIOUS
    <3> HIDE DEF S
    <3>2. Len(received) = k
      BY <2>2, <3>1
    <3> QED
      BY <1>2, <3>1, <3>2 DEF Current, Messages
  <2>4. received' = SubSeq(Sent, 1, k + 1)
    <3>1. k \in Nat
      OBVIOUS
    <3> QED
      BY Zenon, <2>1, <2>2, <2>3, <3>1, Longer
  <2>5. Delivered' /\ Current' = Current + 1
    <3>1. Len(Sent) \in Nat /\ Len(SubSeq(Sent, 1, k + 1)) = k + 1
      BY <2>3, Longer
    <3>2. k + 1 \in 0 .. Len(Sent)
      BY <2>3, <3>1
    <3> QED
      BY Zenon, <2>3, <2>4, <3>1, <3>2 DEF Delivered, Current
  <2>6. /\ w = r + n /\ stream' = SubSeq(stream, n + 1, Len(stream)) /\ got' = <<>>
        /\ UNCHANGED <<spc, next, left>>
    BY <1>1, <1>2, <1>7 DEF ReceiveBody, sender
  <2>7. stream' = <<>>
    BY Zenon, <1>2, <2>6, PartEmpty
  <2>8. Part(Current', 0, 0) = <<>>
    BY PartEmpty
  <2>9. Reading(0)'
    BY <2>1, <2>6, <2>8 DEF Reading
  <2>10. Writing(0)'
    <3>1. w > IntBytes
      BY <1>1, <2>6
    <3>2. Current \in Nat
      BY <2>3
    <3> QED
      BY <2>5, <2>6, <3>1, <3>2 DEF Transfer, Writing
  <2>11. Transfer(0, 0)'
    BY <2>7, <2>8, <2>9, <2>10 DEF Transfer
  <2> QED
    BY <2>5, <2>11 DEF Inv
<1> QED
  BY <1>5, <1>6, <1>7

\* The steps of the receiver that take nothing from the stream.
LEMMA OthersInv ==
  ASSUME Delivered, NEW r \in Nat, NEW w \in Nat, Transfer(r, w), rpc # "closed",
         UNCHANGED <<sender, stream, got, received>>,
         rpc' \in {rpc, "closed"} \/ (rpc \in {"int", "recv"} /\ rpc' \in {"int", "recv"})
  PROVE  rpc' # "closed" => Transfer(r, w)'
<1> SUFFICES ASSUME rpc' # "closed" PROVE Transfer(r, w)'
  OBVIOUS
<1>1. Current' = Current
  BY DEF Current
<1>2. Reading(r)'
  BY <1>1 DEF Reading, Transfer
<1>3. Writing(w)'
  BY <1>1 DEF Writing, Transfer, sender, Messages
<1> QED
  BY <1>1, <1>2, <1>3 DEF Transfer, Size, Encoded, Messages

LEMMA StepInv ==
  ASSUME ~Pipelined, Inv, [Next]_vars
  PROVE  Inv'
<1>1. Delivered
  BY DEF Inv
<1>2. CASE rpc = "closed"
  <2>1. UNCHANGED <<rpc, received>>
    BY <1>2 DEF Next, Sender, Receiver, vars, receiver, handle_send, SendFails, CloseSender,
        send_int_tcp, SendBody, receive_int_tcp, ReceiveInt, IntRetries, TestShutdown,
        PeerClosed, ReceiveBody, BodyFails, signal_shutdown, Finished
  <2> QED
    BY <1>1, <1>2, <2>1 DEF Inv, Delivered
<1>3. CASE rpc # "closed"
  <2>0. PICK r \in Nat, w \in Nat : Transfer(r, w)
    BY <1>3 DEF Inv
  <2>1. CASE Sender
    <3>1. \E x \in Nat : Transfer(r, x)'
      BY <1>1, <1>3, <2>0, <2>1, SenderInv
    <3>2. UNCHANGED received
      BY <2>1 DEF Sender, handle_send, SendFails, CloseSender, send_int_tcp, SendBody, receiver
    <3> QED
      BY <1>1, <3>1, <3>2 DEF Inv, Delivered
  <2>2. ASSUME NEW n \in 1 .. IntBytes, receive_int_tcp(n) PROVE Inv'
    <3>1. rpc' # "closed" => \E x \in Nat : Transfer(x, w)'
      BY <1>1, <2>0, <2>2, IntInv
    <3>2. UNCHANGED received
      BY <2>2 DEF receive_int_tcp, ReceiveInt
    <3> QED
      BY <1>1, <3>1, <3>2 DEF Inv, Delivered
  <2>3. ASSUME NEW n \in 1 .. MaxSize, ReceiveBody(n) PROVE Inv'
    BY <1>1, <2>0, <2>3, BodyInv
  <2>4. CASE \/ \E e \in Retry : IntRetries(e)
             \/ TestShutdown \/ PeerClosed \/ BodyFails \/ signal_shutdown \/ Finished
             \/ UNCHANGED vars
    <3>1. /\ UNCHANGED <<sender, stream, got, received>>
          /\ rpc' \in {rpc, "closed"} \/ (rpc \in {"int", "recv"} /\ rpc' \in {"int", "recv"})
      BY <2>4 DEF IntRetries, TestShutdown, PeerClosed, BodyFails, signal_shutdown, Finished,
          vars, receiver
    <3>2. rpc' # "closed" => Transfer(r, w)'
      BY <1>1, <1>3, <2>0, <3>1, OthersInv
    <3> QED
      BY Zenon, <1>1, <3>1, <3>2 DEF Inv, Delivered
  <2> QED
    BY <2>1, <2>2, <2>3, <2>4 DEF Next, Receiver
<1> QED
  BY <1>2, <1>3

\* A peer that sends each message after the one before it was handled has at
\* most one frame on its way, and handle_receive stands at a known byte of it
\* (Inv): wherever send and recv cut a length or a body, whatever fails, whenever
\* do_shutdown is set.
THEOREM InductiveInvariant ==
  ASSUME ~Pipelined
  PROVE  Spec => []Inv
<1>1. Init => Inv
  BY InitInv
<1>2. Inv /\ [Next]_vars => Inv'
  BY StepInv
<1> QED
  BY <1>1, <1>2, PTL DEF Spec

\* handle_receive returns the messages that were sent, in order, none twice and
\* none left out.
THEOREM ReceivedInOrder ==
  Spec => []InOrder
<1>1. CASE Pipelined
  <2>1. InOrder
    BY <1>1 DEF InOrder
  <2> QED
    BY <2>1, PTL
<1>2. CASE ~Pipelined
  <2>1. Spec => []Inv
    BY <1>2, InductiveInvariant
  <2>2. Inv => InOrder
    BY DEF Inv, Delivered, InOrder
  <2> QED
    BY <2>1, <2>2, PTL
<1> QED
  BY <1>1, <1>2

\* A hello that was received is decoded by cbor_decode_hello_t to the peer id and
\* the public key it was made of.
THEOREM HelloArrives ==
  ASSUME ~Pipelined
  PROVE  Spec => []HelloDelivered
<1>1. Inv => HelloDelivered
  <2> SUFFICES ASSUME Inv, NEW k \in DOMAIN received, NEW h \in Hellos, NEW initiate \in BOOLEAN,
                      Sent[k] = message_hello_t_to_message_t(h, initiate)
               PROVE  cbor_decode_hello_t(received[k].data) = {h}
    BY DEF HelloDelivered
  <2>1. received[k] = Sent[k]
    <3>1. PICK n \in 0 .. Len(Sent) : received = SubSeq(Sent, 1, n)
      BY DEF Inv, Delivered
    <3> DEFINE S == [type : Nat, data : Seq(0 .. 255)]
    <3>2. Sent \in Seq(S)
      BY FramingAssumption
    <3> HIDE DEF S
    <3> QED
      BY <3>1, <3>2
  <2>2. received[k].data = cbor_encode_hello_t(h)
    BY <2>1 DEF message_hello_t_to_message_t
  <2>3. h \in [peer_id : Seq(Nat), public_key : Seq(Nat)]
    <3>1. /\ h.peer_id \in Seq(0 .. 255) /\ h.public_key \in Seq(0 .. 255)
          /\ h = [peer_id |-> h.peer_id, public_key |-> h.public_key]
      BY FramingAssumption
    <3>2. 0 .. 255 \subseteq Nat
      OBVIOUS
    <3>3. h.peer_id \in Seq(Nat) /\ h.public_key \in Seq(Nat)
      BY Zenon, <3>1, <3>2, SeqMonotonic
    <3> QED
      BY <3>1, <3>3
  <2> QED
    BY <2>2, <2>3, HelloRead
<1> QED
  BY <1>1, InductiveInvariant, PTL
====
