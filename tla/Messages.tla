------------------------------- MODULE Messages -------------------------------
(***************************************************************************)
(* The CBOR encoding of RPC messages (network/messages.c, encoding/cbor.c  *)
(* and the part of tinycbor they call).  A byte is a number below 256, a   *)
(* message_t the record of its type and its data, a message_hello_t the    *)
(* record of its peer id and its public key.                               *)
(*                                                                         *)
(* A decoder returns {} for NULL and otherwise the set of its one result.  *)
(* It is given what the encoder has made, cut short or continued by other  *)
(* bytes, so that no item lacks a length or has one above 16 bits, and no  *)
(* array has more elements than are read.                                  *)
(***************************************************************************)
EXTENDS Naturals, Sequences

\* enum MESSAGE_TYPES, the ones that are told apart here.
HELLO_INT == 6
HELLO_FIN == 7
ARBITRARY == 99

\* Major types of CBOR.
Unsigned == 0
Negative == 1
ByteString == 2
Array == 4
Simple == 7

\* The head of an item: its type and a number below 2^16, in one, two or three
\* bytes.  A message that needs more is longer than any buffer.
encode_number(major, n) ==
  IF n < 24 THEN <<32 * major + n>>
  ELSE IF n < 256 THEN <<32 * major + 24, n>>
  ELSE <<32 * major + 25, n \div 256, n % 256>>

encode_string(s) == encode_number(ByteString, Len(s)) \o s

\* The item at position p of b: its type, its number and where it ends.
preparse_value(b, p) ==
  LET info == b[p] % 32
      more == IF info < 24 THEN 0 ELSE IF info = 24 THEN 1 ELSE 2
  IN  IF p > Len(b) \/ info > 25 \/ p + more > Len(b) THEN {}
      ELSE {[major |-> b[p] \div 32,
             n |-> IF more = 0 THEN info
                   ELSE IF more = 1 THEN b[p + 1] ELSE 256 * b[p + 1] + b[p + 2],
             end |-> p + more + 1]}

\* An item of one of these types; a simple value is none of false, true, null
\* and undefined, and in two bytes it is at least 32.
ItemOf(b, p, majors) ==
  {i \in preparse_value(b, p) :
     /\ i.major \in majors
     /\ i.major = Simple => IF i.end = p + 1 THEN i.n < 20 ELSE i.end = p + 2 /\ i.n >= 32}

\* The item behind another one, which may not be there.
Following(b, item, majors) == UNION {ItemOf(b, i.end, majors) : i \in item}

\* The byte string behind an item, all of it, if it fits in max bytes.
copy_byte_string(b, item, max) ==
  {[s |-> SubSeq(b, i.end, i.end + i.n - 1), end |-> i.end + i.n] :
     i \in {h \in Following(b, item, {ByteString}) :
             h.end + h.n - 1 <= Len(b) /\ h.n <= max}}
-----------------------------------------------------------------------------
\* Mutant: the two lengths change places.
cbor_encode_hello_t_Swapped(h) ==
  encode_number(Array, 4) \o encode_number(Unsigned, Len(h.public_key))
    \o encode_number(Unsigned, Len(h.peer_id))
    \o encode_string(h.peer_id) \o encode_string(h.public_key)

cbor_encode_hello_t(h) ==
  encode_number(Array, 4) \o encode_number(Unsigned, Len(h.peer_id))
    \o encode_number(Unsigned, Len(h.public_key))
    \o encode_string(h.peer_id) \o encode_string(h.public_key)

\* The two lengths only size the buffers that the strings are copied to.
cbor_decode_hello_t(b) ==
  LET array   == {i \in ItemOf(b, 1, {Array}) : i.n = 4}
      id_len  == Following(b, array, {Unsigned, Negative})
      key_len == Following(b, id_len, {Unsigned, Negative})
      id      == UNION {copy_byte_string(b, key_len, l.n) : l \in id_len}
      key     == UNION {copy_byte_string(b, id, l.n) : l \in key_len}
  IN  {[peer_id |-> i.s, public_key |-> k.s] : i \in id, k \in key}

message_hello_t_to_message_t(h, initiate) ==
  [type |-> IF initiate THEN HELLO_INT ELSE HELLO_FIN, data |-> cbor_encode_hello_t(h)]

cbor_encode_message_t(m) ==
  encode_number(Array, 3) \o encode_number(Simple, m.type)
    \o encode_number(Unsigned, Len(m.data)) \o encode_string(m.data)

\* The length is read and not looked at; what follows the message neither.
cbor_decode_message_t(b) ==
  LET array == {i \in ItemOf(b, 1, {Array}) : i.n = 3}
      type  == Following(b, array, {Simple})
      len   == Following(b, type, {Unsigned, Negative})
      data  == copy_byte_string(b, len, Len(b))
  IN  {[type |-> i.n, data |-> d.s] : i \in type, d \in data}
====
