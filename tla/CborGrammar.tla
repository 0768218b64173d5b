----------------------------- MODULE CborGrammar -----------------------------
(***************************************************************************)
(* Which byte sequences are CBOR, by the grammar of RFC 7049 and without   *)
(* iterators: the reference for the parser and for the encoder.            *)
(***************************************************************************)
EXTENDS CborText

\* Not an item: the bytes end too early, are in error, or exceed what the parser takes.
Eof == 0
Bad == -1
Large == -2
Deep == -3

\* The end of the item that starts at p, containers at most d deep, or what is wrong.
RECURSIVE ItemEnd(_, _, _), ItemsEnd(_, _, _, _), UntilBreak(_, _, _, _), ChunksEnd(_, _, _)
\* On from where an item ends, if it is one.
OnEnd(q, F(_)) == IF q <= 0 THEN q ELSE F(q)
\* With the number n in the head, from q on.
CountedEnd(b, q, major, info, n, d) ==
  CASE major \in {0, 1} -> q
    [] major \in {2, 3} -> IF q + n - 1 > Len(b) THEN Eof ELSE q + n
    [] major \in {4, 5} ->
         IF d = 0 THEN Deep
         ELSE IF n >= UINT32_MAX \/ (major = 5 /\ 2 * n > UINT32_MAX) THEN Large
         ELSE ItemsEnd(b, q, (major - 3) * n, d - 1)
    [] major = 6 -> ItemEnd(b, q, d)
    [] major = 7 -> IF info = 24 /\ n < 32 THEN Bad ELSE q
\* With a head of k more bytes.
HeadedEnd(b, p, major, info, k, d) ==
  CASE info \in 28..30 \/ (info = 31 /\ major \notin 2..5) -> Bad
    [] info = 31 /\ major \in {2, 3} -> ChunksEnd(b, p + 1, major)
    [] info = 31 /\ major \in {4, 5} ->
         IF d = 0 THEN Deep ELSE UntilBreak(b, p + 1, IF major = 4 THEN 1 ELSE 2, d - 1)
    [] info < 28 /\ p + k > Len(b) -> Eof
    [] info < 28 /\ p + k <= Len(b) ->
         CountedEnd(b, p + 1 + k, major, info,
           IF k = 0 THEN info ELSE FoldLeft(LAMBDA v, x : 256 * v + x, 0, SubSeq(b, p + 1, p + k)), d)
ItemEnd(b, p, d) ==
  IF p > Len(b) THEN Eof
  ELSE HeadedEnd(b, p, b[p] \div 32, b[p] % 32, IF b[p] % 32 < 24 THEN 0 ELSE 2 ^ ((b[p] % 32) - 24), d)
\* n items one after the other.
ItemsEnd(b, p, n, d) ==
  IF n = 0 THEN p ELSE OnEnd(ItemEnd(b, p, d), LAMBDA q : ItemsEnd(b, q, n - 1, d))
\* Any number of groups of items, up to a break.
UntilBreak(b, p, group, d) ==
  IF p <= Len(b) /\ b[p] = 255 THEN p + 1
  ELSE OnEnd(ItemsEnd(b, p, group, d), LAMBDA q : UntilBreak(b, q, group, d))
\* The definite strings of an indefinite one.
ChunksEnd(b, p, major) ==
  IF p > Len(b) THEN Eof
  ELSE IF b[p] = 255 THEN p + 1
  ELSE IF b[p] \div 32 # major \/ b[p] % 32 > 27 THEN Bad
  ELSE OnEnd(ItemEnd(b, p, 0), LAMBDA q : ChunksEnd(b, q, major))

\* What is wrong, by the error the parser gives.
ErrorClass(err) ==
  CASE err = "UnexpectedEOF" -> Eof
    [] err = "DataTooLarge" -> Large
    [] err = "NestingTooDeep" -> Deep
    [] OTHER -> Bad

\* The bytes of the definite string at p, and of any string.
DefiniteAt(b, p) == SubSeq(b, p + 1 + BytesNeeded(b[p] % 32), ItemEnd(b, p, 0) - 1)

RECURSIVE ChunksAt(_, _)
ChunksAt(b, p) ==
  IF b[p] = 255 THEN <<>> ELSE DefiniteAt(b, p) \o ChunksAt(b, ItemEnd(b, p, 0))

StringAt(b, p) == IF b[p] % 32 = 31 THEN ChunksAt(b, p + 1) ELSE DefiniteAt(b, p)

\* The number in the head at p, and the places of the items of the container at p.
NumberAt(b, p) ==
  LET k == BytesNeeded(b[p] % 32) IN IF k = 0 THEN b[p] % 32 ELSE BigEndian(b, p + 1, k)

RECURSIVE PlacesFrom(_, _, _)
PlacesFrom(b, p, n) ==
  IF n = 0 \/ b[p] = 255 THEN <<>> ELSE <<p>> \o PlacesFrom(b, ItemEnd(b, p, Len(b)), n - 1)
Places(b, p) ==
  IF b[p] % 32 = 31 THEN PlacesFrom(b, p + 1, Len(b))
  ELSE IF NumberAt(b, p) = 0 THEN <<>>
  ELSE PlacesFrom(b, p + 1 + BytesNeeded(b[p] % 32), ((b[p] \div 32) - 3) * NumberAt(b, p))
ItemsAt(b, p) == Range(Places(b, p))

\* The item at p and the items inside it, tagged items and tags too.
RECURSIVE Inside(_, _)
Inside(b, p) ==
  {p} \cup (CASE b[p] \div 32 \in {4, 5} -> UNION {Inside(b, q) : q \in ItemsAt(b, p)}
              [] b[p] \div 32 = 6 -> Inside(b, p + 1 + BytesNeeded(b[p] % 32))
              [] OTHER -> {})

\* The shortest form of the item at p: every head as short as its number allows, every
\* length in front.
ShortHead(major, n) == IF n < 24 THEN <<32 * major + n>>
                       ELSE IF n < 256 THEN <<32 * major + 24, n>>
                       ELSE <<32 * major + 25, n \div 256, n % 256>>
ShortString(major, s) == ShortHead(major, Len(s)) \o s
RECURSIVE Shortest(_, _)
ShortItems(b, major, places) ==
  ShortHead(major, Len(places) \div (major - 3)) \o FlattenSeq([i \in DOMAIN places |-> Shortest(b, places[i])])
Shortest(b, p) ==
  CASE b[p] \div 32 \in {0, 1} -> ShortHead(b[p] \div 32, NumberAt(b, p))
    [] b[p] \div 32 \in {2, 3} -> ShortString(b[p] \div 32, StringAt(b, p))
    [] b[p] \div 32 \in {4, 5} -> ShortItems(b, b[p] \div 32, Places(b, p))
    [] b[p] \div 32 = 6 -> ShortHead(6, NumberAt(b, p)) \o Shortest(b, p + 1 + BytesNeeded(b[p] % 32))
    [] b[p] \div 32 = 7 -> SubSeq(b, p, ItemEnd(b, p, 0) - 1)

\* Unicode's table of well-formed byte sequences: one character.
Trail == 128..191
Utf8Forms ==
  {<<0..127>>, <<194..223, Trail>>, <<{224}, 160..191, Trail>>, <<(225..236) \cup {238, 239}, Trail, Trail>>,
   <<{237}, 128..159, Trail>>, <<{240}, 144..191, Trail, Trail>>, <<241..243, Trail, Trail, Trail>>,
   <<{244}, 128..143, Trail, Trail>>}
RECURSIVE IsUtf8(_)
IsUtf8(s) ==
  \/ s = <<>>
  \/ \E f \in Utf8Forms : /\ Len(f) <= Len(s)
                          /\ \A i \in DOMAIN f : s[i] \in f[i]
                          /\ IsUtf8(SubSeq(s, Len(f) + 1, Len(s)))

\* Every piece of the text at p by itself.
TextIsUtf8(b, p) ==
  LET chunks == IF b[p] % 32 = 31 THEN PlacesFrom(b, p + 1, Len(b)) ELSE <<p>>
  IN  \A i \in DOMAIN chunks : IsUtf8(DefiniteAt(b, chunks[i]))

\* Containers and tags around the innermost item.
RECURSIVE Nesting(_, _)
Nesting(b, p) ==
  CASE b[p] \div 32 \in {4, 5} -> 1 + Max({0} \cup {Nesting(b, q) : q \in ItemsAt(b, p)})
    [] b[p] \div 32 = 6 -> 1 + Nesting(b, p + 1 + BytesNeeded(b[p] % 32))
    [] OTHER -> 0

\* The keys of the map at p, and the canonical order: the shorter first, then by bytes.
KeysAt(b, p) ==
  LET places == Places(b, p)
  IN  [i \in 1..(Len(places) \div 2) |->
         SubSeq(b, places[2 * i - 1], ItemEnd(b, places[2 * i - 1], Len(b)) - 1)]
Before(k1, k2) ==
  \/ Len(k1) < Len(k2)
  \/ /\ Len(k1) = Len(k2)
     /\ \E i \in DOMAIN k1 : k1[i] < k2[i] /\ \A j \in 1..i - 1 : k1[j] = k2[j]

\* The bits of s, its digits to the base 2^w, and text as UTF-16, one token for each
\* character or number.
Bit(s, k) == IF (k \div 8) + 1 \in DOMAIN s THEN (s[(k \div 8) + 1] \div (2 ^ (7 - (k % 8)))) % 2 ELSE 0
Digits(s, w) ==
  [j \in 1..((8 * Len(s) + w - 1) \div w) |->
     FoldLeft(LAMBDA n, i : 2 * n + Bit(s, w * (j - 1) + i - 1), 0, [i \in 1..w |-> i])]
Padded(digits) == digits \o [i \in 1..(3 - ((Len(digits) + 3) % 4)) |-> 64]
BytesAs(s, notation) ==
  <<<<notation, CASE notation = "base16" -> Digits(s, 4)
                  [] notation = "base64" -> Padded(Digits(s, 6))
                  [] OTHER -> Digits(s, 6)>>>>
Hexadecimal(digits) == [i \in DOMAIN digits |-> <<"x", digits[i]>>]
RECURSIVE Utf16(_)
Utf16Token(n, uc) ==
  IF n = 4 THEN <<<<"u", 55296 + ((uc - 65536) \div 1024)>>, <<"u", 56320 + ((uc - 65536) % 1024)>>>>
  ELSE IF uc \in 32..126 \ {34, 92} THEN <<<<"c", uc>>>>
  ELSE IF uc \in {8, 9, 10, 12, 13, 34, 92} THEN <<<<"escape", uc>>>>
  ELSE <<<<"u", uc>>>>
\* The character of n bytes at the front, and the rest.
Utf16From(s, n) ==
  Utf16Token(n, FoldLeft(LAMBDA u, x : 64 * u + (x - 128), s[1], SubSeq(s, 2, n))
                - <<0, 192 * 64, 224 * 4096, 240 * 262144>>[n])
  \o Utf16(SubSeq(s, n + 1, Len(s)))
Utf16(s) ==
  IF s = <<>> THEN <<>>
  ELSE Utf16From(s, CHOOSE k \in 1..4 : \E f \in Utf8Forms :
                      Len(f) = k /\ k <= Len(s) /\ \A i \in DOMAIN f : s[i] \in f[i])

\* The text of the item at p.
Between(tokens, sep) ==
  FlattenSeq([i \in DOMAIN tokens |-> IF i = 1 THEN tokens[i] ELSE sep[i] \o tokens[i]])
ScalarAt(b, p) ==
  LET major == b[p] \div 32
      n == NumberAt(b, p)
  IN  CASE major = 0 -> <<"num", n>>
        [] major = 1 -> <<"num", -1 - n>>
        [] b[p] \in {244, 245} -> <<"bool", b[p] = 245>>
        [] b[p] = 246 -> <<"Null">>
        [] b[p] = 247 -> <<"Undefined">>
        [] b[p] = 249 -> <<"half", n>>
        [] OTHER -> <<"simple", n>>
\* With a mark behind every head that is longer than it need be.
MarkAt(b, p) ==
  IF b[p] % 32 = 31 THEN <<<<"_">>>>
  ELSE IF BytesNeeded(b[p] % 32) + 1 > Len(ShortHead(0, NumberAt(b, p)))
    THEN <<<<"_", (b[p] % 32) - 24>>>> ELSE <<>>
Brackets(major, inner) ==
  IF major = 4 THEN <<<<"[">>>> \o inner \o <<<<"]">>>> ELSE <<<<"{">>>> \o inner \o <<<<"}">>>>
RECURSIVE PrettyAt(_, _)
PrettyItems(b, major, places) ==
  Between([i \in DOMAIN places |-> PrettyAt(b, places[i])],
          [i \in DOMAIN places |-> <<<<IF major = 5 /\ i % 2 = 0 THEN ":" ELSE ",">>>>])
PrettyAt(b, p) ==
  CASE b[p] \div 32 \in {0, 1} -> <<ScalarAt(b, p)>> \o MarkAt(b, p)
    [] b[p] \div 32 = 2 -> <<<<"h", Hexadecimal(Digits(StringAt(b, p), 4))>>>> \o MarkAt(b, p)
    [] b[p] \div 32 = 3 -> <<<<"text", Utf16(StringAt(b, p))>>>> \o MarkAt(b, p)
    [] b[p] \div 32 \in {4, 5} ->
         Brackets(b[p] \div 32, MarkAt(b, p) \o PrettyItems(b, b[p] \div 32, Places(b, p)))
    [] b[p] \div 32 = 6 -> <<<<"tag", NumberAt(b, p)>>>> \o MarkAt(b, p) \o <<<<"(">>>>
                           \o PrettyAt(b, p + 1 + BytesNeeded(b[p] % 32)) \o <<<<")">>>>
    [] b[p] \div 32 = 7 -> <<ScalarAt(b, p)>>
RECURSIVE JsonAt(_, _)
JsonItems(b, major, places) ==
  Between([i \in DOMAIN places |->
             IF major = 5 /\ i % 2 = 1 THEN <<<<"key", StringAt(b, places[i])>>>> ELSE JsonAt(b, places[i])],
          [i \in DOMAIN places |-> IF major = 5 /\ i % 2 = 0 THEN <<>> ELSE <<<<",">>>>])
\* The item at q behind the tag n.
JsonTagged(b, q, n) ==
  IF b[q] \div 32 # 2 THEN JsonAt(b, q)
  ELSE BytesAs(StringAt(b, q), CASE n = 3 -> "~base64url" [] n = 22 -> "base64" [] n = 23 -> "base16"
                                 [] OTHER -> "base64url")
JsonAt(b, p) ==
  CASE b[p] \div 32 = 2 -> BytesAs(StringAt(b, p), "base64url")
    [] b[p] \div 32 = 3 -> <<<<"text", StringAt(b, p)>>>>
    [] b[p] \div 32 \in {4, 5} -> Brackets(b[p] \div 32, JsonItems(b, b[p] \div 32, Places(b, p)))
    [] b[p] \div 32 = 6 -> JsonTagged(b, p + 1 + BytesNeeded(b[p] % 32), NumberAt(b, p))
    [] OTHER -> <<ScalarAt(b, p)>>
====
