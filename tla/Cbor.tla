-------------------------------- MODULE Cbor --------------------------------
(***************************************************************************)
(* A program that uses tinycbor: it encodes one item, call by call, into a *)
(* buffer that may be too small, and then walks over the bytes with a      *)
(* stack of iterators; or it walks over bytes that come from elsewhere.    *)
(* The order of the calls is the program's; what it owes the library is in *)
(* the guards (the assertions of the parser), what it owes CBOR in the     *)
(* variable sound.                                                         *)
(***************************************************************************)
EXTENDS CborGrammar, CborEncoder

CONSTANTS
  Buffers,        \* byte sequences to be walked over
  Sizes,          \* sizes of the buffer encoded into; NULL for none at all
  Lengths,        \* announced lengths of containers
  MaxBytes,       \* bound on the bytes encoded
  MaxDepth        \* bound on the containers open at a time

VARIABLES
  phase,   \* "encode" or "walk"
  encs,    \* the open encoders, the innermost last
  mem,     \* the bytes written
  full,    \* the bytes an encoder without a limit had written
  opened,  \* for each open container what was announced and what was encoded in it
  result,  \* the error of the last call of the encoder
  size,    \* of the buffer
  sound,   \* the program has kept to CBOR where the encoder does not check
  buf,     \* the bytes walked over
  its,     \* the iterators, the innermost last
  text,    \* the string last begun: where, what its chunks have brought, all of them?
  err      \* the error that ended the walk

evars == <<encs, mem, full, opened, result, size, sound>>
wvars == <<buf, its, text, err>>
vars == <<phase, evars, wvars>>

NoText == [from |-> 0, s |-> <<>>, all |-> FALSE]
Root == <<[major |-> 4, length |-> 1, items |-> 0, tagged |-> FALSE]>>
Rest == [ptr |-> 1, remaining |-> 0, type |-> "Invalid", flags |-> {}, extra |-> 0]

Init ==
  /\ \/ /\ phase = "walk"
        /\ buf \in Buffers
        /\ its = <<cbor_parser_init(buf).it>>
        /\ err = cbor_parser_init(buf).e
        /\ size = 0
        /\ encs = <<>>
     \/ /\ phase = "encode"
        /\ buf = <<>> /\ its = <<Rest>> /\ err = NoError
        /\ size \in Sizes
        /\ encs = <<cbor_encoder_init(size)>>
  /\ mem = <<>> /\ full = <<>> /\ result = NoError
  /\ opened = Root
  /\ sound = TRUE
  /\ text = NoText
-----------------------------------------------------------------------------
(* Encoding.                                                               *)

Enc == encs[Len(encs)]
Top == opened[Len(opened)]
Count(tagged) == [Top EXCEPT !.items = IF tagged THEN @ ELSE @ + 1, !.tagged = tagged]

\* A call that appends these bytes when there is room for them.
Encoded(r, bytes, tagged) ==
  /\ phase = "encode"
  /\ Len(full) + Len(bytes) <= MaxBytes
  /\ encs' = [encs EXCEPT ![Len(encs)] = r.enc]
  /\ mem' = r.mem
  /\ full' = full \o bytes
  /\ result' = r.e
  /\ opened' = [opened EXCEPT ![Len(opened)] = Count(tagged)]
  /\ UNCHANGED <<phase, size, sound, wvars>>

EncodeInt(v) ==
  Encoded(cbor_encode_int(Enc, mem, v), IF v < 0 THEN ItemHead(1, -v - 1) ELSE ItemHead(0, v), FALSE)
EncodeSimple(v) == Encoded(cbor_encode_simple_value(Enc, mem, v), ItemHead(7, v), FALSE)
EncodeHalf(h) == Encoded(cbor_encode_floating_point(Enc, mem, h), <<249>> \o h, FALSE)
EncodeTag(t) == Encoded(cbor_encode_tag(Enc, mem, t), ItemHead(6, t), TRUE)
EncodeString(major, s) ==
  Encoded(encode_string(Enc, mem, major, s), ItemHead(major, Len(s)) \o s, FALSE)

\* A simple value that is none is refused, and nothing changes.
EncodeRefused ==
  /\ phase = "encode"
  /\ LET r == cbor_encode_simple_value(Enc, mem, 31)
     IN  /\ result' = r.e
         /\ encs' = [encs EXCEPT ![Len(encs)] = r.enc]
         /\ mem' = r.mem
  /\ UNCHANGED <<phase, full, opened, size, sound, wvars>>

Create(major, length) ==
  /\ phase = "encode"
  /\ Len(encs) <= MaxDepth
  /\ ~TooManyPairs(major, length)
  /\ LET r == create_container(Enc, mem, major, length)
         bytes == IF length = IndefiniteLength THEN <<32 * major + 31>> ELSE ItemHead(major, length)
     IN  /\ Len(full) + Len(bytes) <= MaxBytes
         /\ encs' = Append([encs EXCEPT ![Len(encs)] = r.enc], r.inner)
         /\ mem' = r.mem
         /\ full' = full \o bytes
         /\ result' = r.e
  /\ opened' = Append([opened EXCEPT ![Len(opened)] = Count(FALSE)],
                      [major |-> major, length |-> length, items |-> 0, tagged |-> FALSE])
  /\ UNCHANGED <<phase, size, sound, wvars>>

CreateRefused(length) ==
  /\ phase = "encode"
  /\ TooManyPairs(5, length)
  /\ result' = "DataTooLarge"
  /\ UNCHANGED <<phase, encs, mem, full, opened, size, sound, wvars>>

\* Items expected of a container of definite length.
Expected(o) == IF o.major = 5 THEN 2 * o.length ELSE o.length
Definite(o) == o.length # IndefiniteLength

Close ==
  /\ phase = "encode" /\ Len(encs) > 1
  /\ LET r == close_container(encs[Len(encs) - 1], mem, Enc)
     IN  /\ encs' = [Front(encs) EXCEPT ![Len(encs) - 1] = r.enc]
         /\ mem' = r.mem
         /\ result' = r.e
  /\ full' = IF Definite(Top) THEN full ELSE full \o <<255>>
  /\ opened' = Front(opened)
  /\ sound' = /\ sound /\ ~Top.tagged
              /\ IF Definite(Top) THEN Top.items = Expected(Top)
                 ELSE Top.major = 5 => Top.items % 2 = 0
  /\ UNCHANGED <<phase, size, wvars>>

\* One item is complete and fits: the encoder is done and it is walked over.
Complete == phase = "encode" /\ Len(encs) = 1 /\ opened[1].items = 1 /\ ~opened[1].tagged
Parse ==
  /\ Complete /\ Enc.end # NULL
  /\ phase' = "walk"
  /\ buf' = mem
  /\ its' = <<cbor_parser_init(mem).it>>
  /\ err' = cbor_parser_init(mem).e
  /\ encs' = <<>> /\ mem' = <<>> /\ full' = <<>> /\ opened' = Root
  /\ result' = NoError /\ size' = 0 /\ sound' = TRUE
  /\ UNCHANGED text
-----------------------------------------------------------------------------
(* Walking.  An iterator on which a call has failed is used no more.       *)

It == its[Len(its)]
InString == is_string(It) /\ "Bit2" \in It.flags
Walking == phase = "walk" /\ err = NoError
OnItem == Walking /\ It.type # "Invalid" /\ ~InString

Stepped(r) ==
  /\ its' = [its EXCEPT ![Len(its)] = r.it]
  /\ err' = r.e
  /\ UNCHANGED <<phase, evars, buf>>

Advance == OnItem /\ Stepped(cbor_value_advance(buf, It)) /\ UNCHANGED text
AdvanceFixed ==
  OnItem /\ is_fixed_type(It.type) /\ Stepped(cbor_value_advance_fixed(buf, It)) /\ UNCHANGED text
SkipTag == OnItem /\ Stepped(skip_tag(buf, It)) /\ UNCHANGED text

Enter ==
  /\ OnItem /\ is_container(It)
  /\ LET r == enter_container(buf, It)
     IN  its' = Append(its, r.it) /\ err' = r.e
  /\ UNCHANGED <<phase, evars, buf, text>>

Leave ==
  /\ Walking /\ Len(its) > 1 /\ at_end(It)
  /\ LET r == leave_container(buf, its[Len(its) - 1], It)
     IN  its' = [Front(its) EXCEPT ![Len(its) - 1] = r.it] /\ err' = r.e
  /\ UNCHANGED <<phase, evars, buf, text>>

NextChunk ==
  /\ Walking /\ is_string(It)
  /\ LET r == get_string_chunk(buf, It)
         before == IF InString THEN text ELSE [NoText EXCEPT !.from = It.ptr]
     IN  /\ Stepped(r)
         /\ text' = [before EXCEPT !.s = FlattenSeq(<<@>> \o SetToSeq(r.chunk)),
                                   !.all = r.e = NoError /\ r.chunk = {}]

Encode ==
  \/ EncodeInt(-25) \/ EncodeSimple(32) \/ EncodeHalf(<<126, 0>>) \/ EncodeTag(1)
  \/ EncodeString(3, <<97>>) \/ EncodeString(2, <<>>)
  \/ EncodeRefused
  \/ \E major \in {4, 5}, length \in Lengths : Create(major, length)
  \/ \E length \in Lengths : CreateRefused(length)
  \/ Close
Next ==
  \/ Encode \/ Parse
  \/ Advance \/ AdvanceFixed \/ SkipTag \/ Enter \/ Leave \/ NextChunk

Spec == Init /\ [][Next]_vars
-----------------------------------------------------------------------------
\* However the calls are mixed (advance over an item, enter and leave it, take a
\* string chunk by chunk, skip tags), a walk that ends has come to where the item ends
\* by the grammar, and one that fails does so on bytes that are no item, for the
\* reason that comes first in them (cborparser.c keeps only counts and flags).
WalkExact ==
  phase = "walk" =>
    LET end == ItemEnd(buf, 1, Len(buf))
    IN  /\ err \notin {NoError, "NestingTooDeep"} => ErrorClass(err) = end
        /\ err = "NestingTooDeep" => ItemEnd(buf, 1, MaxRecursions) = Deep
        /\ err = NoError /\ Len(its) = 1 /\ at_end(It) => It.ptr = end

\* The chunks of a string are the string, in whatever pieces it was sent; copied
\* into a buffer it is there whole or its length is reported; an integer is converted
\* to a narrower type exactly if it is in its range, which is not symmetric.
ValuesExact ==
  /\ text.all => text.s = StringAt(buf, text.from)
  /\ OnItem /\ is_string(It) => \A room \in 0..2 :
       LET r == copy_string(buf, It, room)
           s == StringAt(buf, It.ptr)
       IN  ItemEnd(buf, It.ptr, 0) > 0 /\ r.e \in {NoError, "OutOfMemory"} =>
             /\ r.len = Len(s)
             /\ r.s = IF Len(s) <= room THEN s ELSE <<>>
             /\ (r.e = NoError) = (Len(s) <= room)
  /\ OnItem /\ It.type = "Integer" => \A max \in {0, 24, 255} :
       LET n == NumberAt(buf, It.ptr)
       IN  get_checked(buf, It, max) = {IF buf[It.ptr] \div 32 = 1 THEN -n - 1 ELSE n} \cap (-max - 1)..max

\* Without its tags the key at p, and the value of the first pair from p on, of n
\* items, whose key is this text; 0 if there is none.
RECURSIVE Untagged(_, _), ValueOf(_, _, _, _)
Untagged(b, p) == IF b[p] \div 32 = 6 THEN Untagged(b, extract_number(b, p).p) ELSE p
ValueOf(b, p, n, key) ==
  IF n = 0 \/ b[p] = 255 THEN 0
  ELSE LET k == Untagged(b, p)
           value == ItemEnd(b, k, Len(b))
       IN  IF b[k] \div 32 = 3 /\ StringAt(b, k) = key THEN value
           ELSE ValueOf(b, ItemEnd(b, value, Len(b)), n - 2, key)

\* A key is found in a map exactly if it is there, at the value of its first
\* occurrence, tagged keys and keys of other types among them (map_find_value).
FindExact ==
  OnItem /\ It.type = "Map" /\ ItemEnd(buf, It.ptr, MaxRecursions) > 0 =>
    \A key \in {<<>>, <<97>>, <<1>>} :
      LET r == map_find_value(buf, It, key)
          inside == enter_container(buf, It).it
          place == ValueOf(buf, inside.ptr, inside.remaining, key)
      IN  /\ r.e = NoError
          /\ IF at_end(inside) \/ place = 0 THEN r.it.type = "Invalid" ELSE r.it.ptr = place

\* Reading: the walk, the values read on it and the keys found on it are those of
\* the bytes (cborparser.c).
ParserExact == WalkExact /\ ValuesExact /\ FindExact

\* At the first item, and all of the item is CBOR, not nested too deeply.
AtStart == OnItem /\ Len(its) = 1 /\ It.ptr = 1 /\ It.type # "Invalid" /\ text = NoText
End == ItemEnd(buf, 1, Len(buf))
Valid == End > 0 /\ Nesting(buf, 1) < MaxRecursions
OfMajor(major) == {p \in Inside(buf, 1) : buf[p] \div 32 = major}

\* What can be told apart by the grammar of CBOR and by its canonical form is
\* told apart by validation: the first without flags, the second with those for the
\* shortest heads, definite lengths, unique and sorted keys of text (cborvalidation.c
\* finds it with the iterators and by comparing heads).
ValidateExact ==
  AtStart =>
    LET strict == {"ShortestIntegrals", "MapKeysAreString", "NoTags", "Utf8"} \cup MapKeysAreUnique
        basic == cbor_value_validate(buf, It, {})
    IN  /\ (basic.e = NoError) = Valid
        /\ Valid =>
             /\ basic.it.ptr = End
             /\ (cbor_value_validate(buf, It, strict).e = NoError) =
                  /\ Shortest(buf, 1) = SubSeq(buf, 1, End - 1)
                  /\ OfMajor(6) = {}
                  /\ \A p \in OfMajor(3) : TextIsUtf8(buf, p)
                  /\ \A p \in OfMajor(5) : LET keys == KeysAt(buf, p) IN
                       /\ \A i \in DOMAIN keys : keys[i][1] \div 32 = 3
                       /\ \A i \in 1..Len(keys) - 1 : Before(keys[i], keys[i + 1])

\* The text of an item is complete and well bracketed, marks exactly the heads that
\* are longer than they need be, and leaves the iterator behind the item, as does its
\* JSON, unless text is not UTF-8 or a key is not text.
TextExact ==
  AtStart /\ Valid =>
    LET pretty == cbor_value_to_pretty(buf, It, {"IndicateIndeterminateLength", "IndicateOverlongNumbers"})
        json == value_to_json(buf, It, {})
        textkeys == \A p \in OfMajor(5) : \A i \in DOMAIN KeysAt(buf, p) : KeysAt(buf, p)[i][1] \div 32 = 3
    IN  /\ IF \A p \in OfMajor(3) : TextIsUtf8(buf, p)
             THEN /\ pretty.e = NoError /\ pretty.it.ptr = End
                  /\ pretty.out = PrettyAt(buf, 1)
             ELSE pretty.e = "InvalidUtf8TextString"
        /\ IF textkeys THEN json.e = NoError /\ json.it.ptr = End /\ json.out = JsonAt(buf, 1)
           ELSE json.e = "JsonObjectKeyNotString"

\* What overflows is counted: the bytes written are those that were to be written as
\* long as they all fit, and then the encoder knows how many more it takes, through
\* any nesting of containers (append_to_buffer, create_container, close_container).
BytesCounted ==
  phase = "encode" =>
    LET room == IF size = NULL THEN 0 ELSE size
    IN  /\ IsPrefix(mem, full)
        /\ Len(mem) <= room
        /\ IF Enc.end = NULL THEN extra_bytes_needed(Enc) = Len(full) - room
           ELSE mem = full /\ Enc.data = Len(full)

\* Of a container that was announced with a length the encoder knows, whatever was
\* encoded in it and however it was nested, if it got as many items.
ItemsCounted ==
  [][Close /\ Definite(Top) =>
       LET wrong == IF Top.items > Expected(Top) THEN "TooManyItems"
                    ELSE IF Top.items < Expected(Top) THEN "TooFewItems" ELSE NoError
       IN  result' = IF wrong = NoError /\ Enc.end = NULL THEN "OutOfMemory" ELSE wrong]_vars

\* What a program encodes that completes its pairs and its tags is one item of CBOR.
OutputIsItem ==
  Complete /\ sound /\ Enc.end # NULL => ItemEnd(mem, 1, Len(mem)) = Len(mem) + 1

\* Writing: bytes and items are counted through every overflow and nesting, and what
\* fits is one item (cborencoder.c).
EncoderExact == [](BytesCounted /\ OutputIsItem) /\ ItemsCounted
====
