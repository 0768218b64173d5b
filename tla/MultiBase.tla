------------------------------ MODULE MultiBase ------------------------------
(***************************************************************************)
(* Bytes as text: src/multibase/multibase.c over src/encoding/base16.c,      *)
(* base32.c and base64.c, and the base32 text of an id in src/cid/cid.c.     *)
(* Bytes are sequences of numbers below 256, texts sequences of characters.  *)
(* `max' is the size of the caller's buffer.  A conversion that can fail     *)
(* returns {} or the set of its one result.  base32.c is modelled the way    *)
(* the library calls it, with no decoding context.                           *)
(***************************************************************************)
EXTENDS Cid

Hex == <<"0", "1", "2", "3", "4", "5", "6", "7", "8", "9", "a", "b", "c", "d", "e", "f">>

Upper == <<"A", "B", "C", "D", "E", "F", "G", "H", "I", "J", "K", "L", "M",
           "N", "O", "P", "Q", "R", "S", "T", "U", "V", "W", "X", "Y", "Z">>

Lower == <<"a", "b", "c", "d", "e", "f", "g", "h", "i", "j", "k", "l", "m",
           "n", "o", "p", "q", "r", "s", "t", "u", "v", "w", "x", "y", "z">>

\* The alphabet, and the number of a character in it (the code's table holds
\* -1 for a character that is not in the alphabet).
b32str == Upper \o <<"2", "3", "4", "5", "6", "7">>

Alphabet64 == Upper \o Lower \o SubSeq(Hex, 1, 10) \o <<"+", "/">>

NumberIn(alphabet, c) ==
  LET at == { i \in DOMAIN alphabet : alphabet[i] = c }
  IN  IF at = {} THEN -1 ELSE Min(at) - 1

b32(c) == NumberIn(b32str, c)

isbase32(c) == b32(c) >= 0

Ceil(n, k) == (n + (k - 1)) \div k

\* The `count' bits from bit `first' on (counted from 0, the highest of a cell
\* first) of cells of `width' bits; zeros behind the last cell.  At most two
\* cells are crossed when count <= width, three otherwise.
Bits(cells, width, first, count) ==
  LET Cell(i)   == IF i < Len(cells) THEN cells[i + 1] ELSE 0
      at        == first \div width
      skip      == first % width
      three     == (Cell(at) * 2^width + Cell(at + 1)) * 2^width + Cell(at + 2)
  IN  (three \div 2^(3 * width - skip - count)) % 2^count

\* Whole groups of characters, filled up with "=".
Padded(text, group) ==
  text \o [i \in 1 .. (group * Ceil(Len(text), group)) - Len(text) |-> "="]

Truncated(s, max) == SubSeq(s, 1, Min({max, Len(s)}))

-----------------------------------------------------------------------------
(* base16: sprintf with %02x, and sscanf with %2hhx, which leaves the zero   *)
(* where it finds no digit.  The decoder does not report a length.           *)

libp2p_encoding_base16_encode(bs, max) ==
  IF max < 2 * Len(bs) THEN {}
  ELSE { [i \in 1 .. 2 * Len(bs) |-> Hex[Bits(bs, 8, 4 * (i - 1), 4) + 1]] }

libp2p_encoding_base16_decode(text, max) ==
  LET D(i) == NumberIn(Hex, text[i])
      Read(i) == IF D(i) < 0 THEN 0
                 ELSE IF D(i + 1) < 0 THEN D(i) ELSE 16 * D(i) + D(i + 1)
  IN  IF max < Len(text) \div 2 THEN {}
      ELSE { [i \in 1 .. max |-> IF i <= Len(text) \div 2 THEN Read(2 * i - 1) ELSE 0] }

-----------------------------------------------------------------------------
(* base32: five bytes are eight characters of five bits.                     *)

\* Mutant: no padding behind the last character.
base32_encode_Unpadded(bs, max) ==
  Truncated([i \in 1 .. Ceil(8 * Len(bs), 5) |-> b32str[Bits(bs, 8, 5 * (i - 1), 5) + 1]], max)

\* As many characters as fit.
base32_encode(bs, max) ==
  LET digits == [i \in 1 .. Ceil(8 * Len(bs), 5) |-> b32str[Bits(bs, 8, 5 * (i - 1), 5) + 1]]
  IN  Truncated(Padded(digits, 8), max)

libp2p_encoding_base32_encode(bs, max) == base32_encode(bs, max)

\* The characters that have to be there for each byte of a group of eight.
Stages == <<1 .. 2, 3 .. 4, 5 .. 5, 6 .. 7, 8 .. 8>>

\* One group: the bytes before the first stage that ends it, and whether it is
\* ended by padding up to the eighth character or not at all.
decode_8(in) ==
  LET ends == Min({6} \cup { s \in 1 .. 5 : \E c \in Stages[s] : ~isbase32(in[c]) })
      digits == [c \in 1 .. 8 |-> IF isbase32(in[c]) THEN b32(in[c]) ELSE 0]
  IN  [ok    |-> ends = 6 \/ (ends > 1 /\ \A c \in Min(Stages[ends]) .. 8 : in[c] = "="),
       bytes |-> [i \in 1 .. ends - 1 |-> Bits(digits, 5, 8 * (i - 1), 8)]]

\* Groups are decoded up to the first that is not whole or not well formed.
base32_decode_ctx(text, max) ==
  LET Group(k) == decode_8(SubSeq(text, 8 * k - 7, 8 * k))
      whole    == Len(text) \div 8
      good     == Max({ k \in 0 .. whole : \A j \in 1 .. k : Group(j).ok })
      read     == FlattenSeq([k \in 1 .. Min({good + 1, whole}) |-> Group(k).bytes])
  IN  [ok |-> Len(text) = 8 * good, bytes |-> Truncated(read, max)]

libp2p_encoding_base32_decode(text, max) ==
  LET res == base32_decode_ctx(text, max) IN IF res.ok THEN {res.bytes} ELSE {}

libp2p_encoding_base32_encode_size(n) == ((16 * n) \div 10) + 8

libp2p_encoding_base32_decode_size(n) == 5 * (n \div 8) + 5

-----------------------------------------------------------------------------
(* base64 is mbedtls: three bytes are four characters of six bits, and the   *)
(* encoder wants room for a terminating zero.                                *)

mbedtls_base64_encode(bs, max) ==
  LET digits == [i \in 1 .. Ceil(8 * Len(bs), 6) |-> Alphabet64[Bits(bs, 8, 6 * (i - 1), 6) + 1]]
      text   == Padded(digits, 4)
  IN  IF bs # <<>> /\ max < Len(text) + 1 THEN {} ELSE {text}

mbedtls_base64_decode(text, max) ==
  LET digits == [i \in DOMAIN SelectSeq(text, LAMBDA c : c # "=") |-> NumberIn(Alphabet64, text[i])]
      size   == (6 * Len(digits)) \div 8
  IN  IF (\E i \in DOMAIN digits : digits[i] < 0) \/ max < size THEN {}
      ELSE { [i \in 1 .. size |-> Bits(digits, 6, 8 * (i - 1), 8)] }

libp2p_encoding_base64_encode_size(n) == ((n \div 3) + (IF n % 3 # 0 THEN 1 ELSE 0)) * 4 + 1

libp2p_encoding_base64_decode_size(n) == Ceil(6 * n, 8)

-----------------------------------------------------------------------------
(* multibase: the text behind a character that names the base.               *)

MULTIBASE_BASE16 == "f"
MULTIBASE_BASE32 == "b"
MULTIBASE_BASE64 == "m"

\* A text that fills the buffer leaves no room for the base.
multibase_encode(base, bs, max) ==
  LET texts == CASE base = MULTIBASE_BASE16 -> libp2p_encoding_base16_encode(bs, max)
                 [] base = MULTIBASE_BASE32 -> {libp2p_encoding_base32_encode(bs, max)}
                 [] base = MULTIBASE_BASE64 -> mbedtls_base64_encode(bs, max)
                 [] OTHER -> {}
  IN  { <<base>> \o text : text \in { t \in texts : Len(t) < max } }

multibase_encode_size(base, n) ==
  CASE base = MULTIBASE_BASE16 -> 2 * n + 1
    [] base = MULTIBASE_BASE32 -> libp2p_encoding_base32_encode_size(n) + 1
    [] base = MULTIBASE_BASE64 -> libp2p_encoding_base64_encode_size(n) + 1
    [] OTHER -> 0

multibase_decode(text, max) ==
  CASE text[1] = MULTIBASE_BASE16 -> libp2p_encoding_base16_decode(Tail(text), max)
    [] text[1] = MULTIBASE_BASE32 -> libp2p_encoding_base32_decode(Tail(text), max)
    [] text[1] = MULTIBASE_BASE64 -> mbedtls_base64_decode(Tail(text), max)
    [] OTHER -> {}

multibase_decode_size(base, n) ==
  CASE base = MULTIBASE_BASE16 -> n \div 2
    [] base = MULTIBASE_BASE32 -> libp2p_encoding_base32_decode_size(n)
    [] base = MULTIBASE_BASE64 -> libp2p_encoding_base64_decode_size(n)
    [] OTHER -> 0

-----------------------------------------------------------------------------
(* The text of an id.                                                        *)

ipfs_cid_to_string(cid) ==
  libp2p_encoding_base32_encode(cid.hash,
                                libp2p_encoding_base32_encode_size(Len(cid.hash)) + 1)

ipfs_cid_hash_to_base32(hash, max) ==
  { libp2p_encoding_base32_encode(mh, max) :
      mh \in { h \in mh_new(MH_H_SHA2_256, hash) :
                 libp2p_encoding_base32_encode_size(Len(hash) + 2) <= max } }
=============================================================================
