----------------------------- MODULE CborParser -----------------------------
(***************************************************************************)
(* The streaming parser of tinycbor (cborparser.c and the inline functions *)
(* of cbor.h).  A buffer b is a sequence of bytes; an iterator, CborValue, *)
(* is the record of the position ptr it stands at, the number of items     *)
(* remaining in its container, the type, the flags and the number extra of *)
(* the item there.  A function that may fail returns the record of its     *)
(* error e and of what it leaves in the iterator, it.                      *)
(***************************************************************************)
EXTENDS Integers, Sequences, SequencesExt

\* The largest value of a uint32_t, which also stands for a container of unknown
\* length, and CBOR_PARSER_MAX_RECURSIONS.
CONSTANTS UINT32_MAX, MaxRecursions

NoError == "NoError"
BreakByte == 255

Ok(it) == [e |-> NoError, it |-> it]
Fail(err, it) == [e |-> err, it |-> it]
\* With the result of a check, which may be NoError.
Checked(err, it) == [e |-> err, it |-> it]

\* Number of bytes that follow a head with this additional information.
BytesNeeded(info) == IF info < 24 THEN 0 ELSE 2 ^ (info - 24)

\* get16, get32, get64: big-endian, k bytes from p on.
BigEndian(b, p, k) == FoldLeft(LAMBDA n, x : 256 * n + x, 0, SubSeq(b, p, p + k - 1))

\* The number in the head at p and the position behind the head.
extract_number(b, p) ==
  IF b[p] % 32 > 27 THEN [e |-> "IllegalNumber", n |-> 0, p |-> p + 1]
  ELSE IF BytesNeeded(b[p] % 32) > Len(b) - p THEN [e |-> "UnexpectedEOF", n |-> 0, p |-> p + 1]
  ELSE [e |-> NoError, p |-> p + 1 + BytesNeeded(b[p] % 32),
        n |-> IF b[p] % 32 < 24 THEN b[p] % 32 ELSE BigEndian(b, p + 1, BytesNeeded(b[p] % 32))]

\* The types, by the major type; those of major type 7 by their information.
MajorTypes == <<"Integer", "Integer", "Byte", "Text", "Array", "Map", "Tag", "Simple">>
MajorOf(byte) == byte \div 32
TypeOf(major, info) ==
  IF major # 7 THEN MajorTypes[major + 1]
  ELSE CASE info \in {20, 21} -> "Boolean"
         [] info = 22 -> "Null"
         [] info = 23 -> "Undefined"
         [] info = 25 -> "Half"
         [] info = 26 -> "Float"
         [] info = 27 -> "Double"
         [] OTHER -> "Simple"

is_fixed_type(type) == type \notin {"Text", "Byte", "Array", "Map"}
is_container(it) == it.type \in {"Array", "Map"}
is_string(it) == it.type \in {"Byte", "Text"}
is_length_known(it) == "UnknownLength" \notin it.flags
at_end(it) == it.remaining = 0

\* A simple value of two bytes that has one of one byte is none.
CheckSimple(major, info, read) ==
  IF major = 7 /\ info = 24 /\ read.extra < 32
  THEN Fail("IllegalSimpleType", [read EXCEPT !.type = "Invalid"]) ELSE Ok(read)

\* The number behind a head that has room for it.  The flag bit 2 says of an integer
\* that it is negative and of a string that its chunks are being visited.
ReadNumber(b, head, major, info) ==
  CheckSimple(major, info,
    [head EXCEPT !.type = TypeOf(major, info),
                 !.flags = @ \cup {f \in {"IntegerValueTooLarge"} : info \in {26, 27}}
                             \cup {f \in {"Bit2"} : major = 1},
                 !.extra = IF info = 20 /\ major = 7 THEN 0
                           ELSE IF info = 24 \/ (info = 25 /\ major # 7)
                                THEN BigEndian(b, head.ptr + 1, BytesNeeded(info)) ELSE info])

ReadHead(b, head, major, info) ==
  IF info \in 28..30
    THEN Fail(IF major = 7 THEN "UnknownType" ELSE "IllegalNumber", head)
  ELSE IF info = 31
    THEN IF is_fixed_type(head.type)
         THEN Fail(IF major = 7 THEN "UnexpectedBreak" ELSE "IllegalNumber", head)
         ELSE Ok([head EXCEPT !.flags = @ \cup {"UnknownLength"}])
  ELSE IF BytesNeeded(info) + 1 > Len(b) + 1 - head.ptr THEN Fail("UnexpectedEOF", head)
  ELSE ReadNumber(b, head, major, info)

\* Reads the head of the item at ptr.
preparse_value(b, it) ==
  IF it.ptr > Len(b) THEN Fail("UnexpectedEOF", [it EXCEPT !.type = "Invalid"])
  ELSE ReadHead(b, [it EXCEPT !.type = MajorTypes[MajorOf(b[it.ptr]) + 1],
                              !.flags = @ \cap {"ContainerIsMap", "NextIsMapKey"},
                              !.extra = b[it.ptr] % 32],
                MajorOf(b[it.ptr]), b[it.ptr] % 32)

preparse_next_value_nodecrement(b, it) ==
  IF it.remaining = UINT32_MAX /\ it.ptr <= Len(b) /\ b[it.ptr] = BreakByte
  THEN IF {"ContainerIsMap", "NextIsMapKey"} \subseteq it.flags \/ it.type = "Tag"
       THEN Fail("UnexpectedBreak", it)
       ELSE Ok([it EXCEPT !.ptr = @ + 1, !.type = "Invalid", !.remaining = 0])
  ELSE preparse_value(b, it)

\* Mutant: a tag counts as an item of its container.
preparse_next_value_TagsCount(b, it) ==
  IF it.remaining = 1 THEN Ok([it EXCEPT !.remaining = 0, !.type = "Invalid"])
  ELSE preparse_next_value_nodecrement(b,
         [it EXCEPT !.remaining = IF @ = UINT32_MAX THEN @ ELSE @ - 1,
                    !.flags = SymDiff(@, {"NextIsMapKey"})])

\* To the next item of the container.  A tag is no item of its own.
preparse_next_value(b, it) ==
  IF it.type # "Tag" /\ it.remaining = 1 THEN Ok([it EXCEPT !.remaining = 0, !.type = "Invalid"])
  ELSE preparse_next_value_nodecrement(b,
         IF it.type = "Tag" THEN it
         ELSE [it EXCEPT !.remaining = IF @ = UINT32_MAX THEN @ ELSE @ - 1,
                         !.flags = SymDiff(@, {"NextIsMapKey"})])

\* Past a head, which preparse_value has read without an error.
advance_internal(b, it) ==
  preparse_next_value(b, [it EXCEPT !.ptr = extract_number(b, it.ptr).p])

cbor_parser_init(b) ==
  preparse_value(b, [ptr |-> 1, remaining |-> 1, type |-> "Invalid", flags |-> {}, extra |-> 0])
-----------------------------------------------------------------------------
(* Numbers.  A value of 32 or 64 bits is read from the buffer again.       *)

extract_int64_helper(b, it) ==
  IF "IntegerValueTooLarge" \in it.flags
  THEN BigEndian(b, it.ptr + 1, BytesNeeded(b[it.ptr] % 32)) ELSE it.extra

Signed(it, v) == IF "Bit2" \in it.flags THEN -v - 1 ELSE v

\* cbor_value_get_int64_checked and cbor_value_get_int_checked, for a type whose
\* largest value is max: {} is DataTooLarge.
get_checked(b, it, max) ==
  {Signed(it, v) : v \in {extract_int64_helper(b, it)} \cap 0..max}
-----------------------------------------------------------------------------
(* Strings, whole or in chunks.                                            *)

prepare_string_iteration(it) ==
  IF is_length_known(it) THEN it
  ELSE [it EXCEPT !.ptr = @ + 1, !.flags = @ \cup {"Bit2"}]

cbor_value_prepare_string_iteration(b, it) ==
  LET next == prepare_string_iteration(it)
  IN  IF next.ptr > Len(b) THEN Fail("UnexpectedEOF", next) ELSE Ok(next)

\* The result of get_string_chunk: on an error, behind the string, on a chunk.
NoChunk(r) == [e |-> r.e, it |-> r.it, chunk |-> {}]
ChunkOf(b, at, len) ==
  IF len.e # NoError THEN NoChunk(Fail(len.e, at))
  ELSE IF len.n > Len(b) + 1 - len.p THEN NoChunk(Fail("UnexpectedEOF", at))
  ELSE [e |-> NoError, chunk |-> {SubSeq(b, len.p, len.p + len.n - 1)},
        it |-> [at EXCEPT !.ptr = len.p + len.n, !.flags = @ \cup {"Bit2"}]]
EndOfString(b, at) == NoChunk(preparse_next_value(b, at))
ChunkAt(b, at) ==
  IF at.ptr > Len(b) THEN NoChunk(Fail("UnexpectedEOF", at))
  ELSE IF b[at.ptr] = BreakByte THEN EndOfString(b, [at EXCEPT !.ptr = @ + 1])
  ELSE IF MajorTypes[MajorOf(b[at.ptr]) + 1] # at.type THEN NoChunk(Fail("IllegalType", at))
  ELSE ChunkOf(b, at, extract_number(b, at.ptr))

\* The next chunk of a string, {} once there is none and the iterator has left the
\* string: four states, for a length known or not, before the first chunk or after.
get_string_chunk(b, it) ==
  IF "Bit2" \in it.flags /\ is_length_known(it) THEN EndOfString(b, it)
  ELSE ChunkAt(b, IF "Bit2" \in it.flags THEN it ELSE prepare_string_iteration(it))

\* iterate_string_chunks: all of the string, and the iterator behind it; r is the
\* last chunk.
RECURSIVE Iterated(_, _, _)
Iterated(b, r, total) ==
  IF r.e # NoError \/ r.chunk = {} THEN [e |-> r.e, it |-> r.it, s |-> total]
  ELSE Iterated(b, get_string_chunk(b, r.it), total \o (CHOOSE c \in r.chunk : TRUE))
iterate_string_chunks(b, it) == Iterated(b, get_string_chunk(b, it), <<>>)

\* Mutant: a string that just fits is refused.
Copied_NoRoom(r, buflen) ==
  [e |-> IF r.e = NoError /\ Len(r.s) >= buflen THEN "OutOfMemory" ELSE r.e,
   it |-> r.it, len |-> Len(r.s), s |-> IF Len(r.s) < buflen THEN r.s ELSE <<>>]

\* With room for buflen bytes; the result is the whole length in either case.
Copied(r, buflen) ==
  [e |-> IF r.e = NoError /\ Len(r.s) > buflen THEN "OutOfMemory" ELSE r.e,
   it |-> r.it, len |-> Len(r.s), s |-> IF Len(r.s) <= buflen THEN r.s ELSE <<>>]
copy_string(b, it, buflen) == Copied(iterate_string_chunks(b, it), buflen)
-----------------------------------------------------------------------------
(* Containers.                                                             *)

\* The first of so many items, at p, of the container it.
FirstItem(b, it, p, items) ==
  preparse_next_value_nodecrement(b,
    [it EXCEPT !.flags = {f \in {"ContainerIsMap"} : it.type = "Map"}, !.remaining = items, !.ptr = p])

\* Mutant: the keys of a map are counted, and not its values.
EnterCounted_KeysOnly(b, it, len) ==
  IF len.n >= UINT32_MAX THEN Fail("DataTooLarge", it)
  ELSE IF len.n = 0 THEN Ok([it EXCEPT !.ptr = len.p, !.remaining = 0, !.type = "Invalid"])
  ELSE FirstItem(b, it, len.p, len.n)

EnterCounted(b, it, len) ==
  IF len.n > (IF it.type = "Map" THEN UINT32_MAX \div 2 ELSE UINT32_MAX - 1)
    THEN Fail("DataTooLarge", it)
  ELSE IF len.n = 0 THEN Ok([it EXCEPT !.ptr = len.p, !.remaining = 0, !.type = "Invalid"])
  ELSE FirstItem(b, it, len.p, IF it.type = "Map" THEN 2 * len.n ELSE len.n)

enter_container(b, it) ==
  IF is_length_known(it) THEN EnterCounted(b, it, extract_number(b, it.ptr))
  ELSE FirstItem(b, it, it.ptr + 1, UINT32_MAX)

leave_container(b, it, recursed) == preparse_next_value(b, [it EXCEPT !.ptr = recursed.ptr])

cbor_value_advance_fixed(b, it) ==
  IF at_end(it) THEN Fail("AdvancePastEOF", it) ELSE advance_internal(b, it)

Behind(r) == [e |-> r.e, it |-> r.it]
\* On with F, unless a call has failed.
OnOk(r, F(_)) == IF r.e # NoError THEN r ELSE F(r.it)

RECURSIVE skip_tag(_, _)
skip_tag(b, it) ==
  IF it.type # "Tag" THEN Ok(it)
  ELSE OnOk(cbor_value_advance_fixed(b, it), LAMBDA i : skip_tag(b, i))

\* Behind a container, from the end of its items; an error leaves the iterator alone.
LeaveAt(b, it, end) == IF end.e # NoError THEN Fail(end.e, it) ELSE leave_container(b, it, end.it)

\* With the loop over the items of a container.
RECURSIVE advance_recursive(_, _, _), AdvanceToEnd(_, _, _)
advance_recursive(b, it, level) ==
  IF is_fixed_type(it.type) THEN advance_internal(b, it)
  ELSE IF is_string(it) THEN Behind(iterate_string_chunks(b, it))
  ELSE IF level = 0 THEN Fail("NestingTooDeep", it)
  ELSE LeaveAt(b, it, OnOk(enter_container(b, it), LAMBDA i : AdvanceToEnd(b, i, level - 1)))
AdvanceToEnd(b, it, level) ==
  IF at_end(it) THEN Ok(it)
  ELSE OnOk(advance_recursive(b, it, level), LAMBDA i : AdvanceToEnd(b, i, level))

cbor_value_advance(b, it) ==
  IF at_end(it) THEN Fail("AdvancePastEOF", it) ELSE advance_recursive(b, it, MaxRecursions)

\* The same in map_find_value, where the iterator is made invalid on an error.
OrInvalid(r, F(_)) == IF r.e # NoError THEN Fail(r.e, [r.it EXCEPT !.type = "Invalid"]) ELSE F(r.it)

\* The value behind the first key that is this text, an invalid item if there is none:
\* on from the value of another key, from a key of text, from any key.
RECURSIVE FindFrom(_, _, _)
FindPastValue(b, it, key) ==
  OrInvalid(skip_tag(b, it), LAMBDA value :
    OrInvalid(cbor_value_advance(b, value), LAMBDA next : FindFrom(b, next, key)))
FindPastText(b, text, key) ==
  IF text.e = NoError /\ text.s = key THEN preparse_value(b, text.it)
  ELSE OrInvalid(Behind(text), LAMBDA it : FindPastValue(b, it, key))
FindFrom(b, element, key) ==
  IF at_end(element) THEN Ok([element EXCEPT !.type = "Invalid"])
  ELSE OrInvalid(skip_tag(b, element), LAMBDA it :
         IF it.type = "Text" THEN FindPastText(b, iterate_string_chunks(b, it), key)
         ELSE OrInvalid(cbor_value_advance(b, it), LAMBDA next : FindPastValue(b, next, key)))

map_find_value(b, map, key) == OrInvalid(enter_container(b, map), LAMBDA first : FindFrom(b, first, key))
====
