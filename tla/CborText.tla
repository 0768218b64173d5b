------------------------------ MODULE CborText ------------------------------
(***************************************************************************)
(* CBOR as text: the diagnostic notation of cborpretty.c and the JSON of   *)
(* cbortojson.c.  The text is a sequence of tokens: brackets, separators,  *)
(* numbers, and strings with the notation they are written in.  Writing to *)
(* the stream does not fail; the metadata of AddMetadata is left out.      *)
(***************************************************************************)
EXTENDS CborValidation

Text(e, it, out) == [e |-> e, it |-> it, out |-> out]
\* What was written when a call of the parser returned.
Said(r, out) == Text(r.e, r.it, out)

The(S) == CHOOSE x \in S : TRUE

\* Mutant: 24 is taken for a number that fits into the head.
resolve_indicator_OffByOne(b, p, flags) ==
  LET r == extract_number(b, p)
      expected == IF r.n > 255 THEN 25 ELSE IF r.n > 24 THEN 24 ELSE 23
  IN  IF b[p] % 32 < 24 THEN {<<>>}
      ELSE IF b[p] % 32 = 31 THEN {<<<<"_">>>>}
      ELSE IF "IndicateOverlongNumbers" \notin flags \/ expected = b[p] % 32 THEN {<<>>}
      ELSE {<<<<"_", (b[p] % 32) - 24>>>>}

\* "_" for an indefinite length, "_" and n for a head of 2^n bytes that need not be so
\* long, nothing for any other; {} is NULL.
resolve_indicator(b, p, flags) ==
  LET info == b[p] % 32
      r == extract_number(b, p)
      expected == IF r.n > 255 THEN 25 ELSE IF r.n >= 24 THEN 24 ELSE 23
  IN  IF p > Len(b) THEN {}
      ELSE IF info < 24 THEN {<<>>}
      ELSE IF "IndicateIndeterminateLength" \in flags /\ info = 31 THEN {<<<<"_">>>>}
      ELSE IF "IndicateOverlongNumbers" \notin flags THEN {<<>>}
      ELSE IF r.e # NoError THEN {}
      ELSE {IF expected = info THEN <<>> ELSE <<<<"_", info - 24>>>>}

get_indicator(b, it, flags) == The(resolve_indicator(b, it.ptr, flags))

\* UTF-8 as escaped UTF-16: characters, characters behind a backslash, and numbers;
\* {} if it is none.
Escaped(uc) ==
  IF uc \in 32..126 \ {34, 92} THEN <<<<"c", uc>>>>
  ELSE IF uc \in {34, 92, 8, 12, 10, 13, 9} THEN <<<<"escape", uc>>>>
  ELSE IF uc > 65535 THEN <<<<"u", (uc \div 1024) + 55232>>, <<"u", (uc % 1024) + 56320>>>>
  ELSE <<<<"u", uc>>>>
RECURSIVE utf8EscapedDump(_, _)
DumpAfter(s, r, done) ==
  IF r.n = 0 THEN {} ELSE utf8EscapedDump(SubSeq(s, r.n + 1, Len(s)), done \o Escaped(r.uc))
utf8EscapedDump(s, done) == IF s = <<>> THEN {done} ELSE DumpAfter(s, get_utf8(s), done)

\* Bytes in hexadecimal notation.
hexDump(s) == FlattenSeq([i \in DOMAIN s |-> <<<<"x", s[i] \div 16>>, <<"x", s[i] % 16>>>>])

\* A string, its chunks one after the other or each by itself.
RECURSIVE ChunksToPretty(_, _, _, _, _, _)
\* With the text of a chunk, dump; it is behind the chunk.
DumpToPretty(b, it, kind, flags, all, mark, fragments, dump) ==
  IF dump = {} THEN Text("InvalidUtf8TextString", it, <<>>)
  ELSE IF ~fragments THEN ChunksToPretty(b, it, kind, flags, all \o The(dump), mark)
  ELSE [ChunksToPretty(b, it, kind, flags, all, mark) EXCEPT !.out = <<<<kind, The(dump)>>>> \o The(mark) \o @]
\* With the next chunk, r.
ChunkToPretty(b, r, kind, flags, all, mark, fragments) ==
  IF r.e # NoError THEN Said(r, <<>>)
  ELSE IF r.chunk = {} THEN Said(r, IF fragments THEN <<>> ELSE <<<<kind, all>>>> \o The(mark))
  ELSE DumpToPretty(b, r.it, kind, flags, all, mark, fragments,
                    IF kind = "text" THEN utf8EscapedDump(The(r.chunk), <<>>) ELSE {hexDump(The(r.chunk))})
InFragments(it, flags) == "ShowStringFragments" \in flags /\ ~is_length_known(it)
ChunksToPretty(b, it, kind, flags, all, indicator) ==
  ChunkToPretty(b, get_string_chunk(b, it), kind, flags, all,
                IF InFragments(it, flags) \/ indicator = {} THEN resolve_indicator(b, it.ptr, flags) ELSE indicator,
                InFragments(it, flags))

string_to_pretty(b, it, flags) ==
  LET Chunks(i) == ChunksToPretty(b, i, IF it.type = "Text" THEN "text" ELSE "h", flags, <<>>, {})
  IN  IF ~InFragments(it, flags) THEN Chunks(it)
      ELSE OnOk(Said(cbor_value_prepare_string_iteration(b, it), <<>>),
                LAMBDA i : [Chunks(i) EXCEPT !.out = <<<<"(_">>>> \o @ \o <<<<")">>>>])

\* An item that is neither a string nor a container nor a tag.
Scalar(b, it) ==
  CASE it.type = "Integer" -> <<"num", Signed(it, extract_int64_helper(b, it))>>
    [] it.type = "Simple" -> <<"simple", it.extra>>
    [] it.type = "Boolean" -> <<"bool", it.extra # 0>>
    [] it.type = "Half" -> <<"half", BigEndian(b, it.ptr + 1, 2)>>
    [] OTHER -> <<it.type>>

Open(type) == <<IF type = "Array" THEN "[" ELSE "{">>
Shut(type) == <<IF type = "Array" THEN "]" ELSE "}">>
Limit == <<<<"too deep">>>>

RECURSIVE value_to_pretty(_, _, _, _), container_to_pretty(_, _, _, _, _)
\* The text of the first, then that of the second, which starts where the first ends.
Then(r, F(_)) ==
  IF r.e # NoError THEN r
  ELSE [F(r.it) EXCEPT !.out = r.out \o @]

container_to_pretty(b, it, type, flags, left) ==
  LET Item(i) == value_to_pretty(b, i, flags, left)
      Value(i) == IF type = "Array" THEN Text(NoError, i, <<>>)
                  ELSE Then(Text(NoError, i, <<<<":">>>>), Item)
      Rest(i) == IF at_end(i) THEN Text(NoError, i, <<>>)
                 ELSE Then(Text(NoError, i, <<<<",">>>>),
                           LAMBDA j : container_to_pretty(b, j, type, flags, left))
  IN  IF left = 0 THEN Text(NoError, it, Limit)
      ELSE IF at_end(it) THEN Text(NoError, it, <<>>)
      ELSE Then(Then(Item(it), Value), Rest)

\* Beyond the limit a container is left at once; that it has come to its end is
\* an assertion of cbor_value_leave_container.
LeaveToPretty(b, it, mark, items) ==
  IF items.e # NoError THEN items
  ELSE IF items.it.type # "Invalid" THEN Text("Assertion", items.it, items.out)
  ELSE Said(leave_container(b, it, items.it), <<Open(it.type)>> \o mark \o items.out \o <<Shut(it.type)>>)

\* The item behind a tag.
TaggedToPretty(b, it, flags, left) ==
  IF left = 0 THEN Text(NoError, it, Limit) ELSE value_to_pretty(b, it, flags, left - 1)

value_to_pretty(b, it, flags, left) ==
  IF is_container(it)
    THEN LeaveToPretty(b, it, get_indicator(b, it, flags),
           OnOk(Said(enter_container(b, it), <<>>),
                LAMBDA first : container_to_pretty(b, first, it.type, flags, left - 1)))
  ELSE IF is_string(it) THEN string_to_pretty(b, it, flags)
  ELSE IF it.type = "Tag"
    THEN OnOk(Said(cbor_value_advance_fixed(b, it), <<>>), LAMBDA tagged :
           [TaggedToPretty(b, tagged, flags, left) EXCEPT
              !.out = <<<<"tag", extract_int64_helper(b, it)>>>> \o get_indicator(b, it, flags)
                      \o <<<<"(">>>> \o @ \o <<<<")">>>>])
  ELSE IF it.type = "Invalid" THEN Text("UnknownType", it, <<>>)
  ELSE Said(cbor_value_advance_fixed(b, it),
            <<Scalar(b, it)>> \o (IF it.type = "Integer" THEN get_indicator(b, it, flags) ELSE <<>>))

cbor_value_to_pretty(b, it, flags) == value_to_pretty(b, it, flags, MaxRecursions)
-----------------------------------------------------------------------------
(* JSON.                                                                   *)

\* _cbor_value_dup_string: the length first, then a copy of that many bytes and one
\* for the end.
DupText(b, it, len) ==
  IF len.e # NoError THEN Said(len, <<>>)
  ELSE LET r == copy_string(b, it, len.len + 1) IN Said(r, r.s)
dup_text_string(b, it) == DupText(b, it, copy_string(b, it, Len(b)))

\* What is written of a string that could be read.
OnText(r, F(_)) == Said(r, IF r.e = NoError THEN F(r.out) ELSE <<>>)

\* The last of the tags and what is behind them.
RECURSIVE find_tagged_type(_, _, _)
find_tagged_type(b, it, tag) ==
  IF it.type # "Tag" THEN [e |-> NoError, it |-> it, tag |-> tag]
  ELSE OnOk(cbor_value_advance_fixed(b, it),
            LAMBDA tagged : find_tagged_type(b, tagged, extract_int64_helper(b, it)))

\* Byte strings, by the tag they have: bignums, base64 and base16.
Notation(tag, flags) ==
  IF "ByteStringsToBase64Url" \in flags THEN "base64url"
  ELSE CASE tag = 3 -> "~base64url" [] tag = 22 -> "base64" [] tag = 23 -> "base16"
         [] OTHER -> "base64url"

\* A buffer of len + 1 bytes with the string at its tail end and a NUL behind it, in
\* which the string is converted where it is.  A digit k is the byte Digit(k).
Digit(k) == 1000 + k
TailEnd(s, len) ==
  [k \in 0..len |-> IF k < len /\ k >= len - Len(s) THEN s[k - (len - Len(s)) + 1] ELSE 0]
\* The digits before the NUL.
CString(buffer) ==
  LET nul == CHOOSE k \in DOMAIN buffer : buffer[k] = 0 /\ \A j \in 0..k - 1 : buffer[j] # 0
  IN  [i \in 1..nul |-> buffer[i - 1] - 1000]
Write(buffer, at, s) ==
  [k \in DOMAIN buffer |-> IF k >= at /\ k < at + Len(s) THEN s[k - at + 1] ELSE buffer[k]]

dump_bytestring_base16(s) ==
  LET n == Len(s)
      Step(buffer, i) ==
        Write(buffer, 2 * i, <<Digit(buffer[n + i] \div 16), Digit(buffer[n + i] % 16)>>)
  IN  CString(FoldLeft(Step, TailEnd(s, 2 * n), [i \in 1..n |-> i - 1]))

\* filler is the 65th character: a digit, or NUL.
generic_dump_base64(s, filler) ==
  LET n == Len(s)
      len == ((n + 5) \div 3) * 4
      in == len - n
      Sixes(val) == [j \in 1..4 |-> Digit((val \div (2 ^ (24 - 6 * j))) % 64)]
      Step(buffer, g) ==
        LET i == in + 3 * g
        IN  Write(buffer, 4 * g, Sixes(65536 * buffer[i] + 256 * buffer[i + 1] + buffer[i + 2]))
      groups == n \div 3
      left == n - 3 * groups
      whole == FoldLeft(Step, TailEnd(s, len), [g \in 1..groups |-> g - 1])
      rest == LET i == in + 3 * groups IN Sixes(65536 * whole[i] + 256 * whole[i + 1])
  IN  CString(IF left = 0 THEN Write(whole, 4 * groups, <<0>>)
              ELSE Write(whole, 4 * groups,
                         <<rest[1], rest[2], IF left = 2 THEN rest[3] ELSE filler, filler, 0>>))

DumpBytes(s, notation) ==
  CASE notation = "base16" -> dump_bytestring_base16(s)
    [] notation = "base64" -> generic_dump_base64(s, Digit(64))
    [] OTHER -> generic_dump_base64(s, 0)
bytestring_to_json(b, it, notation) ==
  OnText(dup_text_string(b, it), LAMBDA s : <<<<notation, DumpBytes(s, notation)>>>>)

RECURSIVE value_to_json(_, _, _), container_to_json(_, _, _, _)
KeyToJson(b, it, flags) ==
  IF it.type = "Text" THEN OnText(dup_text_string(b, it), LAMBDA s : <<<<"key", s>>>>)
  ELSE IF "StringifyMapKeys" \in flags
    THEN [cbor_value_to_pretty(b, it, {"IndicateIndeterminateLength"}) EXCEPT !.out = <<<<"dump">>>> \o @]
  ELSE Text("JsonObjectKeyNotString", it, <<>>)
\* array_to_json and map_to_json.
container_to_json(b, it, type, flags) ==
  LET Item(i) == value_to_json(b, i, flags)
      Rest(i) == IF at_end(i) THEN Text(NoError, i, <<>>)
                 ELSE Then(Text(NoError, i, <<<<",">>>>),
                           LAMBDA j : container_to_json(b, j, type, flags))
  IN  IF at_end(it) THEN Text(NoError, it, <<>>)
      ELSE Then(IF type = "Array" THEN Item(it) ELSE Then(KeyToJson(b, it, flags), Item), Rest)

LeaveToJson(b, it, items) ==
  IF items.e # NoError THEN items
  ELSE Said(leave_container(b, it, items.it), <<Open(it.type)>> \o items.out \o <<Shut(it.type)>>)

\* Of tagged_value_to_json: r is the item behind the tags, and the last of them.
UntaggedToJson(b, r, flags) ==
  IF r.e # NoError THEN Said(r, <<>>)
  ELSE IF r.it.type = "Byte" THEN bytestring_to_json(b, r.it, Notation(r.tag, flags))
  ELSE value_to_json(b, r.it, flags)

\* With tagged_value_to_json.
value_to_json(b, it, flags) ==
  IF is_container(it)
    THEN LeaveToJson(b, it, OnOk(Said(enter_container(b, it), <<>>),
                                 LAMBDA first : container_to_json(b, first, it.type, flags)))
  ELSE IF it.type = "Byte" THEN bytestring_to_json(b, it, "base64url")
  ELSE IF it.type = "Text" THEN OnText(dup_text_string(b, it), LAMBDA s : <<<<"text", s>>>>)
  ELSE IF it.type = "Tag" /\ "TagsToObjects" \in flags
    THEN OnOk(Said(cbor_value_advance_fixed(b, it), <<>>), LAMBDA tagged :
           [value_to_json(b, tagged, flags) EXCEPT
              !.out = <<<<"{">>, <<"tag", extract_int64_helper(b, it)>>>> \o @ \o <<<<"}">>>>])
  ELSE IF it.type = "Tag" THEN UntaggedToJson(b, find_tagged_type(b, it, 0), flags)
  ELSE IF it.type = "Invalid" THEN Text("UnknownType", it, <<>>)
  ELSE Said(cbor_value_advance_fixed(b, it), <<Scalar(b, it)>>)
====
