------------------------------ MODULE MultiAddr ------------------------------
(***************************************************************************)
(* Multiaddresses (src/multiaddr): one object of type struct multi_address, *)
(* holding the same address twice, as text (`string') and as bytes, and a   *)
(* second object made by multi_address_copy.  The operations keep the two   *)
(* representations in step by converting again after every change.          *)
(*                                                                          *)
(* Text is a sequence of tokens.  A token is a slash, a space, a protocol   *)
(* name, a dotted IPv4 address (its four octets), a decimal number, a       *)
(* base32 peer id (the bytes it encodes) or Undef, text that the C code     *)
(* leaves undefined.  Two tokens with no slash between them are one word.   *)
(* Bytes are numbers below 256; hexadecimal digits, which the code uses on  *)
(* the way, always come in pairs (Int_To_Hex) and are not kept.             *)
(***************************************************************************)
EXTENDS Sequences, FiniteSetsExt

CONSTANTS Strings,    \* arguments of multi_address_new_from_string
          Additions,  \* arguments of multi_address_encapsulate
          Needles,    \* arguments of multi_address_decapsulate (whole tokens)
          Loaded,     \* lengths of a protocol list that ran out of memory
          MaxLen,     \* bound: longest string, in tokens
          MaxOom      \* bound: failing allocations

VARIABLES ma,    \* the address operated on
          cp,    \* its copy
          oom    \* allocations that have failed

vars == <<ma, cp, oom>>

Slash   == <<"/">>
Space   == <<" ">>
Undef   == <<"undef">>
P(name) == <<"proto", name>>
Ip(o)   == <<"ip", o>>
Port(n) == <<"port", n>>
Id(b)   == <<"id", b>>

\* An argument of encapsulate begins with a slash: without one the code copies
\* the old string into a buffer one byte too short.
ASSUME AdditionAssumption == \A x \in Additions : x # <<>> /\ Head(x) = Slash

\* A string is a sequence of tokens, and what an IPv4 address or a peer id
\* stands for is a sequence of bytes.
ASSUME TextAssumption ==
  \A s \in Strings \cup Additions \cup Needles :
    /\ s \in Seq(Range(s))
    /\ \A t \in Range(s) : t[1] \in {"ip", "id"} => t[2] \in Seq(0 .. 255)

-----------------------------------------------------------------------------
(* The table of protocols: name, code and size in bits (-1: prefixed).      *)

load_protocols ==
  << <<"ip4", 4, 32>>, <<"ip6", 41, 128>>, <<"tcp", 6, 16>>, <<"udp", 17, 16>>,
     <<"dccp", 33, 16>>, <<"sctp", 132, 16>>, <<"udt", 301, 0>>,
     <<"utp", 302, 0>>, <<"ipfs", 42, -1>>, <<"http", 480, 0>>,
     <<"https", 443, 0>>, <<"ws", 477, 0>>, <<"onion", 444, 10>>,
     <<"libp2p-webrtc-star", 275, 0>> >>

\* The list ends where an allocation failed.
ASSUME LoadedAssumption == Loaded \subseteq 0 .. Len(load_protocols)

proto_with_name(head, w) == { p \in Range(head) : w = <<P(p[1])>> }

\* A list that ran out of memory while it was loaded is shorter, and nobody
\* looks at what load_protocols returned.
proto_with_deccode(head, c) == { p \in Range(head) : p[2] = c }

-----------------------------------------------------------------------------
(* From text to bytes.  A conversion returns {} when it fails and otherwise *)
(* the set of its one result.                                               *)

\* The number as bytes, most significant first, without leading zero bytes.
Int_To_Hex(bs) ==
  LET nonzero == { i \in DOMAIN bs : bs[i] # 0 }
  IN  IF nonzero = {} THEN <<0>> ELSE SubSeq(bs, Min(nonzero), Len(bs))

\* The text from position i up to the next slash.
UpToSlash(s, i) ==
  SubSeq(s, i, Min({ j \in i .. Len(s) + 1 : j > Len(s) \/ s[j] = Slash }) - 1)

\* The words strtok_r finds: slashes separate them, and none is empty.
Starts(s) == { i \in 1 .. Len(s) : s[i] # Slash /\ (i > 1 => s[i - 1] = Slash) }
Words(s) ==
  [k \in 1 .. Cardinality(Starts(s)) |->
     UpToSlash(s, CHOOSE i \in Starts(s) : Cardinality({ j \in Starts(s) : j <= i }) = k)]

\* atoi: the digits the word begins with.
Atoi(w) == CASE w # <<>> /\ w[1][1] = "port" -> w[1][2]
             [] w # <<>> /\ w[1][1] = "ip"   -> w[1][2][1]
             [] OTHER                        -> 0

\* One byte of prefix, bit 7 always set: the number of hex digits of the id.
Num_To_HexVar_32(b) == 128 + ((2 * Len(b)) % 128)

Ip4Bytes(w)  == { Int_To_Hex(t[2]) : t \in { u \in Range(w) : w = <<u>> /\ u[1] = "ip" } }
PortBytes(w) == { <<n \div 256, n % 256>> : n \in {Atoi(w)} \cap 1 .. 256 * 256 - 1 }
IpfsBytes(w) == { <<Num_To_HexVar_32(t[2])>> \o t[2] :
                    t \in { u \in Range(w) : w = <<u>> /\ u[1] = "id" } }

address_string_to_bytes(name, w) ==
  CASE name = "ip4"             -> Ip4Bytes(w)
    [] name \in {"tcp", "udp"} -> PortBytes(w)
    [] name = "ipfs"            -> IpfsBytes(w)
    [] OTHER                    -> {}

\* Words alternate between protocol and address; the last address may be missing.
WordBytes(ws, i) ==
  IF i % 2 = 1
  THEN { Int_To_Hex(<<p[2] \div 256, p[2] % 256>>) :
           p \in proto_with_name(load_protocols, ws[i]) }
  ELSE UNION { address_string_to_bytes(p[1], ws[i]) :
                 p \in proto_with_name(load_protocols, ws[i - 1]) }

Joined(ws) ==
  LET Upto[i \in 0 .. Len(ws)] ==
        IF i = 0 THEN <<>> ELSE Upto[i - 1] \o (CHOOSE b \in WordBytes(ws, i) : TRUE)
  IN  Upto[Len(ws)]

string_to_bytes(s) ==
  LET ws == Words(s)
  IN  IF s # <<>> /\ Head(s) = Slash /\ \A i \in DOMAIN ws : WordBytes(ws, i) # {}
      THEN {Joined(ws)} ELSE {}

-----------------------------------------------------------------------------
(* From bytes to text.                                                      *)

\* The number that the bytes stand for, most significant first.
Hex_To_Int(bs) ==
  LET Upto[i \in 0 .. Len(bs)] == IF i = 0 THEN 0 ELSE 256 * Upto[i - 1] + bs[i]
  IN  Upto[Len(bs)]

\* int2ip of up to four bytes: a shorter number has zero octets in front.
int2ip(bs) == Ip([k \in 1 .. 4 - Len(bs) |-> 0] \o bs)

\* Mutant: the low byte first.
PortText_LowFirst(bs) == Port(Hex_To_Int([i \in DOMAIN bs |-> bs[Len(bs) + 1 - i]]))

\* A port is printed into five characters, so only four digits fit.
PortText(bs) == IF Hex_To_Int(bs) > 9999 THEN Undef ELSE Port(Hex_To_Int(bs))

\* An id is printed into as many characters as it has hex digits; base32 needs
\* eight characters for five bytes, and one more must be left for the NUL.
IdText(bs) == IF 2 * Len(bs) > 8 * ((Len(bs) + 4) \div 5) THEN Id(bs) ELSE Undef

\* A field that the bytes end in is read up to the NUL behind the last hex digit.
Field(bs, i, n) == SubSeq(bs, i, Min({i + n - 1, Len(bs)}))
Address(name, f) == CASE name = "ip4" -> <<int2ip(f)>>
                      [] name \in {"tcp", "udp"} -> <<PortText(f)>>
                      [] OTHER -> <<>>
IdSize(bs, i) == IF i > Len(bs) THEN 0 ELSE (bs[i] % 128) \div 2

\* From the byte at position i on, where rest[j] is the text from position j
\* on.  An id ends the conversion, and so does an unknown code.
FieldsFrom(bs, head, rest, i) ==
  LET ps == proto_with_deccode(head, bs[i])
      p  == CHOOSE q \in ps : TRUE
      next == i + 1 + p[3] \div 8
  IN  IF ps = {} THEN <<>>
      ELSE <<Slash, P(p[1]), Slash>> \o
           IF p[1] = "ipfs" THEN <<IdText(Field(bs, i + 2, IdSize(bs, i + 1)))>>
           ELSE Address(p[1], Field(bs, i + 1, p[3] \div 8)) \o
                IF next > Len(bs) THEN <<>> ELSE rest[next]

bytes_to_string(bs, head) ==
  LET From[i \in 1 .. Len(bs)] == FieldsFrom(bs, head, From, i)
  IN  (IF bs = <<>> THEN <<>> ELSE From[1]) \o <<Slash>>

-----------------------------------------------------------------------------
(* Reading the text.                                                        *)

Occurs(s, sub) == { i \in 1 .. Len(s) - Len(sub) + 1 :
                      SubSeq(s, i, i + Len(sub) - 1) = sub }

\* The text between "/name/" and the next slash: the first one in the string.
After(s, name) ==
  LET hits == Occurs(s, <<Slash, P(name), Slash>>)
  IN  IF hits = {} THEN {} ELSE { UpToSlash(s, Min(hits) + 3) }

multi_address_get_ip_address(a) ==
  IF /\ \E name \in {"ip4", "ip6"} : 1 \in Occurs(a.string, <<Slash, P(name), Slash>>)
     /\ After(a.string, "tcp") \cup After(a.string, "udp") # {}
  THEN After(a.string, a.string[2][2]) ELSE {}

multi_address_get_ip_port(a) ==
  LET w == IF After(a.string, "tcp") # {} THEN After(a.string, "tcp")
                                          ELSE After(a.string, "udp")
  IN  IF w = {} THEN -1 ELSE Atoi(CHOOSE x \in w : TRUE)

multi_address_get_peer_id(a) == After(a.string, "ipfs") \ {<<>>}

\* Mutant: only the sizes are compared.
multi_address_compare_Sizes(a, b) == Len(b.bytes) - Len(a.bytes)

multi_address_compare(a, b) ==
  LET differ == { i \in DOMAIN a.bytes : a.bytes[i] # b.bytes[i] }
  IN  IF Len(a.bytes) # Len(b.bytes) THEN Len(b.bytes) - Len(a.bytes)
      ELSE IF differ = {} THEN 0
      ELSE b.bytes[Min(differ)] - a.bytes[Min(differ)]
-----------------------------------------------------------------------------
(* The objects.  "freed" is an object an operation has freed under its       *)
(* caller's hands, "corrupt" the process after freeing an address that was   *)
(* never assigned.                                                           *)

NoBytes  == <<-1>>      \* the pointer is NULL and bsize is 0
Garbage  == <<-2>>      \* neither the pointer nor bsize was ever assigned

Gone(st)   == [st |-> st, string |-> <<>>, bytes |-> NoBytes]
Live(s, b) == [st |-> "live", string |-> s, bytes |-> b]

Init == ma = Gone("none") /\ cp = Gone("none") /\ oom = 0

Up == cp.st # "corrupt"

\* Every operation needs text the code has defined.
Usable(a) == Up /\ a.st = "live" /\ Undef \notin Range(a.string)

\* The object with its bytes computed again from its text; freed if that fails.
Converted(s) ==
  LET r == string_to_bytes(s)
  IN  IF r = {} THEN Gone("freed") ELSE Live(s, CHOOSE b \in r : TRUE)

Oom == oom < MaxOom /\ oom' = oom + 1

multi_address_new_from_string(s) ==
  /\ Up /\ ma.st # "live"
  /\ ma' = IF string_to_bytes(s) = {} THEN Gone("none") ELSE Converted(s)
  /\ UNCHANGED <<cp, oom>>

multi_address_new_from_bytes(bs) ==
  /\ Up /\ ma.st # "live"
  /\ ma' = Live(bytes_to_string(bs, load_protocols), bs)
  /\ UNCHANGED <<cp, oom>>

\* string + 1: the text is appended without its first slash.
Encapsulated(a, x) == Converted(a.string \o Tail(x))

multi_address_encapsulate(x) ==
  /\ Usable(ma) /\ Len(ma.string) + Len(x) <= MaxLen
  /\ ma' = Encapsulated(ma, x)
  /\ UNCHANGED <<cp, oom>>

\* Mutant: the text is cut and the bytes are left as they were.
Decapsulated_KeepsBytes(a, needle) ==
  LET hits == Occurs(a.string, needle)
  IN  IF hits = {} THEN a ELSE [a EXCEPT !.string = SubSeq(@, 1, Min(hits) - 1)]

\* Mutant: the text is cut behind the needle's first token.
Decapsulated_KeepsName(a, needle) ==
  LET hits == Occurs(a.string, needle)
  IN  IF hits = {} THEN a ELSE Converted(SubSeq(a.string, 1, Min(hits)))

ReplaceAll(s, old, new) == [i \in 1 .. Len(s) |-> IF s[i] = old THEN new ELSE s[i]]

\* The needle is looked for after every slash has become a space, and the
\* spaces become slashes again only if it was found.
Decapsulated(a, needle) ==
  LET spaced == ReplaceAll(a.string, Slash, Space)
      hits   == Occurs(spaced, needle)
  IN  IF hits = {} THEN [a EXCEPT !.string = spaced]
      ELSE Converted(ReplaceAll(SubSeq(spaced, 1, Min(hits) - 1), Space, Slash))

multi_address_decapsulate(needle) ==
  /\ Usable(ma)
  /\ ma' = Decapsulated(ma, needle)
  /\ UNCHANGED <<cp, oom>>

\* Without bytes the copy's fields bytes and bsize stay as malloc left them.
multi_address_copy ==
  /\ Usable(ma) /\ cp.st # "live"
  /\ cp' = [ma EXCEPT !.bytes = IF @ \in {NoBytes, <<>>} THEN Garbage ELSE @]
  /\ UNCHANGED <<ma, oom>>

multi_address_free_ma ==
  /\ Up /\ ma.st = "live" /\ ma' = Gone("none")
  /\ UNCHANGED <<cp, oom>>

\* Freeing a pointer that was never assigned: harmless if it happens to be
\* NULL, otherwise the end of the process.
multi_address_free_cp ==
  /\ cp.st = "live"
  /\ cp' \in {Gone("none")} \cup (IF cp.bytes = Garbage THEN {Gone("corrupt")} ELSE {})
  /\ UNCHANGED <<ma, oom>>

\* Bytes to decode: those of some string, or those of the copy.
ByteInputs == (UNION { string_to_bytes(s) : s \in Strings }) \cup
              (IF cp.st = "live" /\ cp.bytes # Garbage THEN {cp.bytes} ELSE {})

\* An allocation fails where the code tests for it: the constructors and the
\* copy return NULL, encapsulate gives up after dropping the bytes (and
\* returns 1) or frees the object, decapsulate frees it.  Bytes are decoded
\* with the protocols that were loaded before the failure.
AllocationFails ==
  /\ Up /\ Oom
  /\ \/ ma.st # "live" /\ ma' = Gone("none") /\ UNCHANGED cp
     \/ Usable(ma) /\ cp.st # "live" /\ cp' = Gone("none") /\ UNCHANGED ma
     \/ Usable(ma) /\ ma' = [ma EXCEPT !.bytes = NoBytes] /\ UNCHANGED cp
     \/ Usable(ma) /\ ma' = Gone("freed") /\ UNCHANGED cp
     \/ /\ ma.st # "live" /\ UNCHANGED cp
        /\ \E bs \in ByteInputs, k \in Loaded :
             ma' = Live(bytes_to_string(bs, SubSeq(load_protocols, 1, k)), bs)

Next ==
  \/ \E s \in Strings : multi_address_new_from_string(s)
  \/ \E bs \in ByteInputs : multi_address_new_from_bytes(bs)
  \/ \E x \in Additions : multi_address_encapsulate(x)
  \/ \E n \in Needles : multi_address_decapsulate(n)
  \/ multi_address_copy \/ multi_address_free_ma \/ multi_address_free_cp
  \/ AllocationFails

Spec == Init /\ [][Next]_vars

-----------------------------------------------------------------------------
\* What the decoder can give back: pairs of words, the ip with a nonzero first
\* octet, the port of at most four digits, the id (last) of fewer than 64 bytes.
Plain(s) ==
  LET ws == Words(s)
      Pair(n, t, last) ==
        \/ n = P("ip4") /\ t[1] = "ip" /\ t[2][1] # 0
        \/ n \in {P("tcp"), P("udp")} /\ t[1] = "port" /\ t[2] \in 1 .. 9999
        \/ n = P("ipfs") /\ last /\ t[1] = "id" /\ Len(t[2]) < 64 /\ IdText(t[2]) # Undef
  IN  /\ Len(ws) % 2 = 0
      /\ \A i \in DOMAIN ws : Len(ws[i]) = 1
      /\ \A i \in 1 .. Len(ws) \div 2 :
           Pair(ws[2 * i - 1][1], ws[2 * i][1], 2 * i = Len(ws))

Defined(a) == a.st = "live" /\ a.bytes \notin {NoBytes, Garbage}
PlainAddr(a) == Defined(a) /\ Plain(a.string) /\ string_to_bytes(a.string) = {a.bytes}
Decoded(a) == Live(bytes_to_string(a.bytes, load_protocols), a.bytes)

\* Text and bytes of an address stay in step through every sequence of calls:
\* one is what the other converts to (with the protocols that could be loaded),
\* unless a decapsulate that found nothing has left spaces in the text.
Consistent ==
  \A a \in {ma, cp} :
    Defined(a) /\ Space \notin Range(a.string) =>
      \/ string_to_bytes(a.string) = {a.bytes}
      \/ \E k \in {Len(load_protocols)} \cup (IF oom = 0 THEN {} ELSE Loaded) :
           a.string = bytes_to_string(a.bytes, SubSeq(load_protocols, 1, k))

\* Sending the bytes of a plain address and decoding them on the other side
\* gives the same words, and the same IP address, port and peer id when read;
\* multi_address_compare calls two plain addresses equal exactly if they have
\* the same words, however the two were made.
RoundTrip ==
  PlainAddr(ma) =>
    LET d == Decoded(ma)
    IN  /\ PlainAddr(cp) =>
             (multi_address_compare(ma, cp) = 0 <=> Words(ma.string) = Words(cp.string))
        /\ Words(d.string) = Words(ma.string)
        /\ multi_address_get_ip_address(d) = multi_address_get_ip_address(ma)
        /\ multi_address_get_ip_port(d) = multi_address_get_ip_port(ma)
        /\ multi_address_get_peer_id(d) = multi_address_get_peer_id(ma)

\* Decapsulating the protocol that was just encapsulated gives back text and
\* bytes, if the address did not already contain that protocol (or a space,
\* which decapsulate would turn into a slash).
EncapsulateUndone ==
  \A x \in Additions :
    LET n == <<x[2]>>
        e == Encapsulated(ma, x)
    IN  /\ Usable(ma) /\ string_to_bytes(ma.string) = {ma.bytes}
        /\ Len(x) > 1 /\ Space \notin {x[2]} \cup Range(ma.string)
        /\ x[2] \notin Range(ma.string) /\ e.st = "live"
        => Decapsulated(e, n) = ma
=============================================================================
