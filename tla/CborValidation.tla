--------------------------- MODULE CborValidation ---------------------------
(***************************************************************************)
(* Validation of CBOR beyond its grammar (cborvalidation.c, utf8_p.h):     *)
(* shortest heads, definite lengths, sorted maps, strings of UTF-8, tags   *)
(* used with the types they are for.  The flags are a set of bits.  No     *)
(* number has more than 16 bits, no floating-point number either.          *)
(***************************************************************************)
EXTENDS CborParser

\* The flags of CborValidationFlags that have several bits; the others are one bit.
MapIsSorted == {"Sorted", "NoIndeterminateLength"}
MapKeysAreUnique == {"Unique"} \cup MapIsSorted
NoUnknownSimpleTypes == {"SimpleTypes", "SimpleTypesSA"}
NoUnknownTagsSR == {"TagsSR", "TagsSA"}
NoUnknownTags == {"Tags"} \cup NoUnknownTagsSR

\* knownTagData: tag and types; all types for the last.
ArrayTags == {4, 5, 16, 17, 18, 96, 97, 98}
knownTagData(tag) ==
  CASE tag \in {0} \cup 32..36 -> {{"Text"}}
    [] tag = 1 -> {{"Integer"}}
    [] tag \in {2, 3, 24} -> {{"Byte"}}
    [] tag \in ArrayTags -> {{"Array"}}
    [] tag \in 21..23 -> {{"Byte", "Array", "Map"}}
    [] tag = 55799 -> {{}}
    [] OTHER -> {}

\* One character at the start of s: how many bytes it has, 0 if it is none, and
\* its code.
get_utf8(s) ==
  LET c == s[1]
      n == IF c < 128 THEN 1 ELSE IF c < 224 THEN 2 ELSE IF c < 240 THEN 3 ELSE 4
      least == <<0, 128, 2048, 65536>>[n]
      lead == <<c, c % 32, c % 16, c % 8>>[n]
      uc == FoldLeft(LAMBDA u, x : 64 * u + (x % 64), lead, SubSeq(s, 2, n))
  IN  IF \/ c \in 128..193 \/ c > 244
         \/ n > Len(s)
         \/ \E i \in 2..n : s[i] \div 64 # 2
         \/ uc < least \/ uc \in 55296..57343 \/ uc > 1114111
      THEN [n |-> 0, uc |-> -1] ELSE [n |-> n, uc |-> uc]

RECURSIVE validate_utf8_string(_)
Utf8After(s, n) == IF n = 0 THEN "InvalidUtf8TextString" ELSE validate_utf8_string(SubSeq(s, n + 1, Len(s)))
validate_utf8_string(s) == IF s = <<>> THEN NoError ELSE Utf8After(s, get_utf8(s).n)

validate_simple_type(n, flags) ==
  IF IF n < 32 THEN "SimpleTypesSA" \in flags ELSE NoUnknownSimpleTypes \subseteq flags
  THEN "UnknownSimpleType" ELSE NoError

\* Is the head at the iterator the shortest for its number?
validate_number(b, it, type, flags) ==
  LET r == extract_number(b, it.ptr)
      needed == IF r.n > 255 THEN 2 ELSE IF r.n >= 24 THEN 1 ELSE 0
  IN  IF "ShortestIntegrals" \notin flags \/ type \in {"Half", "Float", "Double"} THEN NoError
      ELSE IF r.e # NoError THEN r.e
      ELSE IF needed < r.p - it.ptr - 1 THEN "OverlongEncoding" ELSE NoError

\* A half-precision number, of the two bytes behind the head.
validate_floating_point(b, it, flags) ==
  LET bits == BigEndian(b, it.ptr + 1, 2)
      finite == (bits \div 1024) % 32 # 31
      canonical == {31744, 32256, 64512}
  IN  IF ~finite /\ "FiniteFloatingPoint" \in flags THEN "ExcludedValue"
      ELSE IF ~finite /\ "ShortestFloatingPoint" \in flags /\ bits \notin canonical
        THEN "ImproperValue" ELSE NoError

\* The key from p to before q is not behind the one from p2 to before q2: by the
\* numbers in their heads, then by their bytes, then by their lengths.
CompareKeys(b, p, q, p2, q2) ==
  LET n == extract_number(b, p).n
      n2 == extract_number(b, p2).n
      short == IF q - p <= q2 - p2 THEN q - p ELSE q2 - p2
      differ == {i \in 0..short - 1 : b[p + i] # b[p2 + i]}
      first == CHOOSE i \in differ : \A j \in differ : i <= j
  IN  IF n # n2 THEN n - n2
      ELSE IF differ # {} THEN b[p + first] - b[p2 + first]
      ELSE (q - p) - (q2 - p2)

\* Mutant: equal keys are not looked for.
OrderError_Twice(c, flags) == IF c > 0 THEN "MapNotSorted" ELSE NoError

OrderError(c, flags) ==
  IF c > 0 THEN "MapNotSorted"
  ELSE IF c = 0 /\ MapKeysAreUnique \subseteq flags THEN "MapKeysNotUnique" ELSE NoError

TagError(type, tag, flags) ==
  LET known == knownTagData(tag)
      unknown == known = {} /\ \/ "TagsSA" \in flags /\ tag < 24
                               \/ NoUnknownTagsSR \subseteq flags /\ tag < 256
                               \/ NoUnknownTags \subseteq flags
  IN  IF "NoTags" \in flags THEN "ExcludedType"
      ELSE IF unknown THEN "UnknownTag"
      ELSE IF "TagUse" \in flags /\ \E t \in known : t # {} /\ type \notin t
        THEN "InappropriateTagForType" ELSE NoError

\* The chunks of a string, heads and characters; r is the chunk whose head is at it.
RECURSIVE ValidateChunks(_, _, _, _)
ValidateChunk(b, it, r, type, flags) ==
  IF r.e # NoError \/ r.chunk = {} THEN Behind(r)
  ELSE OnOk(Checked(validate_number(b, it, type, flags), it), LAMBDA head :
         OnOk(Checked(IF type = "Text" /\ "Utf8" \in flags
                      THEN validate_utf8_string(CHOOSE c \in r.chunk : TRUE) ELSE NoError, r.it),
              LAMBDA next : ValidateChunks(b, next, type, flags)))
ValidateChunks(b, it, type, flags) == ValidateChunk(b, it, get_string_chunk(b, it), type, flags)

\* Of a key, before it is validated: is it text, with or without tags?
KeyError(b, it, type, flags) ==
  LET r == skip_tag(b, it)
  IN  IF type # "Map" \/ "MapKeysAreString" \notin flags THEN NoError
      ELSE IF r.e # NoError THEN r.e
      ELSE IF r.it.type # "Text" THEN "MapKeyNotString" ELSE NoError

\* Of a key from p to before q: is it behind the previous one, if there is one?
KeyOrderError(b, p, q, flags, previous) ==
  IF flags \cap MapIsSorted = {} \/ previous = {} THEN NoError
  ELSE LET k == CHOOSE k \in previous : TRUE IN OrderError(CompareKeys(b, k[1], k[2], p, q), flags)

\* Of the length or the number in a head.
HeadError(b, it, flags) ==
  IF is_length_known(it) THEN validate_number(b, it, it.type, flags)
  ELSE IF "NoIndeterminateLength" \in flags THEN "UnknownLength" ELSE NoError

\* Of an item that is neither a string nor a container nor a tag.
FixedError(b, it, flags) ==
  CASE it.type = "Simple" -> validate_simple_type(it.extra, flags)
    [] it.type = "Undefined" /\ "NoUndefined" \in flags -> "ExcludedType"
    [] it.type = "Half" -> validate_floating_point(b, it, flags)
    [] it.type = "Invalid" -> "UnknownType"
    [] OTHER -> NoError

\* validate_container: previous is {} or the one key before, from where to where.
RECURSIVE validate_value(_, _, _, _), validate_container(_, _, _, _, _, _)
validate_container(b, it, type, flags, left, previous) ==
  IF left = 0 THEN Fail("NestingTooDeep", it)
  ELSE IF at_end(it) THEN Ok(it)
  ELSE OnOk(Checked(KeyError(b, it, type, flags), it), LAMBDA key :
    OnOk(validate_value(b, key, flags, left), LAMBDA behind :
      IF type # "Map" THEN validate_container(b, behind, type, flags, left, {})
      ELSE OnOk(Checked(KeyOrderError(b, it.ptr, behind.ptr, flags, previous), behind), LAMBDA value :
        OnOk(validate_value(b, value, flags, left), LAMBDA next :
          validate_container(b, next, type, flags, left, {<<it.ptr, behind.ptr>>})))))

\* The item behind a tag, which is at it.
validate_tag(b, it, tagged, flags, left) ==
  IF left = 0 THEN Fail("NestingTooDeep", tagged)
  ELSE OnOk(Checked(TagError(tagged.type, extract_int64_helper(b, it), flags), tagged),
            LAMBDA item : validate_value(b, item, flags, left))

\* What follows the check of the head.
validate_rest(b, it, flags, left) ==
  IF is_container(it)
    THEN OnOk(OnOk(enter_container(b, it),
                   LAMBDA first : validate_container(b, first, it.type, flags, left - 1, {})),
              LAMBDA end : leave_container(b, it, end))
  ELSE IF is_string(it)
    THEN OnOk(cbor_value_prepare_string_iteration(b, it),
              LAMBDA chunk : ValidateChunks(b, chunk, it.type, flags))
  ELSE IF it.type = "Tag"
    THEN OnOk(cbor_value_advance_fixed(b, it), LAMBDA tagged : validate_tag(b, it, tagged, flags, left - 1))
  ELSE OnOk(Checked(FixedError(b, it, flags), it), LAMBDA item : cbor_value_advance_fixed(b, item))
validate_value(b, it, flags, left) ==
  OnOk(Checked(HeadError(b, it, flags), it), LAMBDA item : validate_rest(b, item, flags, left))

\* The end of the data is looked for at the iterator given, before it has moved.
cbor_value_validate(b, it, flags) ==
  OnOk(validate_value(b, it, flags, MaxRecursions), LAMBDA end :
    Checked(IF "CompleteData" \in flags /\ it.ptr # Len(b) + 1 THEN "GarbageAtEnd" ELSE NoError, end))
====
