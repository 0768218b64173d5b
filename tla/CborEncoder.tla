----------------------------- MODULE CborEncoder -----------------------------
(***************************************************************************)
(* The encoder of tinycbor (cborencoder.c).  The bytes behind data.ptr are *)
(* the memory of a sequence mem; an encoder is the record of its end (NULL *)
(* once the buffer has overflowed, or if there never was one), of data     *)
(* (the position it writes at, or in the same union the number of bytes it *)
(* lacks), of the items remaining and of its flags.  An operation returns  *)
(* its error, the encoder and the memory.                                  *)
(***************************************************************************)
EXTENDS Integers, Sequences

\* The largest value of a size_t.
CONSTANT SIZE_MAX

NULL == -1
IndefiniteLength == SIZE_MAX
EncNoError == "NoError"

cbor_encoder_init(size) ==
  [data |-> 0, end |-> size, remaining |-> 2, flags |-> {}]

extra_bytes_needed(enc) == IF enc.end = NULL THEN enc.data ELSE 0

\* Mutant: the bytes that still found room are counted as lacking.
append_to_buffer_AllLacking(enc, mem, bytes) ==
  LET room == IF enc.end = NULL THEN -enc.data ELSE enc.end - enc.data
      lacking == IF enc.end = NULL THEN enc.data + Len(bytes) ELSE Len(bytes)
  IN  IF room < Len(bytes)
      THEN [e |-> "OutOfMemory", enc |-> [enc EXCEPT !.end = NULL, !.data = lacking], mem |-> mem]
      ELSE [e |-> EncNoError, enc |-> [enc EXCEPT !.data = @ + Len(bytes)], mem |-> mem \o bytes]

\* With would_overflow and advance_ptr: from the first bytes that find no room on,
\* bytes are only counted.
append_to_buffer(enc, mem, bytes) ==
  LET room == IF enc.end = NULL THEN -enc.data ELSE enc.end - enc.data
      lacking == IF enc.end = NULL THEN enc.data + Len(bytes) ELSE Len(bytes) - room
  IN  IF room < Len(bytes)
      THEN [e |-> "OutOfMemory", enc |-> [enc EXCEPT !.end = NULL, !.data = lacking], mem |-> mem]
      ELSE [e |-> EncNoError, enc |-> [enc EXCEPT !.data = @ + Len(bytes)], mem |-> mem \o bytes]

\* Mutant: 24 is put into the head itself.
ItemHead_OffByOne(major, n) ==
  IF n <= 24 THEN <<32 * major + n>> ELSE <<32 * major + 24, n>>

\* The head of an item in its shortest form: put16 for two bytes; no number of the
\* model needs more.
ItemHead(major, n) ==
  IF n < 24 THEN <<32 * major + n>>
  ELSE IF n < 256 THEN <<32 * major + 24, n>>
  ELSE <<32 * major + 25, n \div 256, n % 256>>

encode_number_no_update(enc, mem, major, n) == append_to_buffer(enc, mem, ItemHead(major, n))

saturated_decrement(enc) == [enc EXCEPT !.remaining = IF @ > 0 THEN @ - 1 ELSE 0]

encode_number(enc, mem, major, n) ==
  encode_number_no_update(saturated_decrement(enc), mem, major, n)

cbor_encode_int(enc, mem, v) ==
  IF v < 0 THEN encode_number(enc, mem, 1, -v - 1) ELSE encode_number(enc, mem, 0, v)

cbor_encode_simple_value(enc, mem, v) ==
  IF v \in 25..31 THEN [e |-> "IllegalSimpleType", enc |-> enc, mem |-> mem]
  ELSE encode_number(enc, mem, 7, v)

\* A half-precision number, of the two bytes given.
cbor_encode_floating_point(enc, mem, bytes) ==
  append_to_buffer(saturated_decrement(enc), mem, <<32 * 7 + 25>> \o bytes)

cbor_encode_tag(enc, mem, tag) == encode_number_no_update(enc, mem, 6, tag)

\* The bytes follow the head also when there was no room for the head, to be counted.
encode_string(enc, mem, major, s) ==
  LET head == encode_number(enc, mem, major, Len(s))
  IN  append_to_buffer(head.enc, head.mem, s)

\* Mutant: the values of a map are not added to the items expected.
create_container_KeysOnly(enc, mem, major, length) ==
  LET indefinite == length = IndefiniteLength
      inner == [enc EXCEPT !.remaining = IF indefinite THEN 0 ELSE length + 1,
                           !.flags = (IF major = 5 THEN {"ContainerIsMap"} ELSE {})
                                       \cup (IF indefinite THEN {"UnknownLength"} ELSE {})]
      r == IF indefinite THEN append_to_buffer(inner, mem, <<32 * major + 31>>)
           ELSE encode_number_no_update(inner, mem, major, length)
  IN  [e |-> r.e, enc |-> saturated_decrement(enc), inner |-> r.enc, mem |-> r.mem]

\* length + 1 wraps to zero for an indefinite length.
create_container(enc, mem, major, length) ==
  LET indefinite == length = IndefiniteLength
      items == IF major = 5 THEN 2 * length ELSE length
      inner == [enc EXCEPT !.remaining = IF indefinite THEN 0 ELSE items + 1,
                           !.flags = (IF major = 5 THEN {"ContainerIsMap"} ELSE {})
                                       \cup (IF indefinite THEN {"UnknownLength"} ELSE {})]
      r == IF indefinite THEN append_to_buffer(inner, mem, <<32 * major + 31>>)
           ELSE encode_number_no_update(inner, mem, major, length)
  IN  [e |-> r.e, enc |-> saturated_decrement(enc), inner |-> r.enc, mem |-> r.mem]

\* cbor_encoder_create_array and cbor_encoder_create_map.
TooManyPairs(major, length) ==
  major = 5 /\ length # IndefiniteLength /\ length > SIZE_MAX \div 2

\* The container's encoder hands its place over to the one around it.
close_container(enc, mem, inner) ==
  LET back == [enc EXCEPT !.data = inner.data, !.end = inner.end]
      items == IF inner.remaining = 1 THEN EncNoError
               ELSE IF inner.remaining = 0 THEN "TooManyItems" ELSE "TooFewItems"
  IN  IF "UnknownLength" \in inner.flags THEN append_to_buffer(back, mem, <<255>>)
      ELSE [e |-> IF items = EncNoError /\ back.end = NULL THEN "OutOfMemory" ELSE items,
            enc |-> back, mem |-> mem]
====
