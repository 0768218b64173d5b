--------------------------------- MODULE Cid ---------------------------------
(***************************************************************************)
(* Content ids (src/cid/cid.c) and the encodings they use: base-128 varints, *)
(* protobuf fields and multihashes.  A Cid is [version, codec, hash]; bytes  *)
(* are sequences of numbers below 256.  A conversion that can fail returns   *)
(* {} or the set of its one result.                                          *)
(***************************************************************************)
EXTENDS Integers, SequencesExt

CID_DAG_PROTOBUF == 112
MH_H_SHA2_256    == 18

\* Conversion to the C type char, which is signed: ipfs_cid_new takes the codec
\* in one, and ipfs_cid_protobuf_decode keeps it in one.
Char(n) == ((n + 128) % 256) - 128

ipfs_cid_new(version, hash, codec) ==
  [version |-> version, codec |-> Char(codec), hash |-> hash]

-----------------------------------------------------------------------------
(* Varints: seven bits a byte, the lowest first, bit 7 set on all but the    *)
(* last.  A negative number is encoded as the 64-bit number it converts to:  *)
(* between -128 and -1 all bits from the eighth on are ones.                 *)

varint_encode(n) ==
  LET Enc[m \in Nat] ==
        IF m < 128 THEN <<m>> ELSE <<128 + (m % 128)>> \o Enc[m \div 128]
  IN  IF n >= 0 THEN Enc[n]
      ELSE <<128 + (n % 128)>> \o [i \in 1 .. 8 |-> 255] \o <<1>>

\* The bytes of the varint that bs begins with.
VarintLen(bs) == Min({ i \in DOMAIN bs : bs[i] < 128 })

\* Mutant: the highest bits first.
varint_decode_HighFirst(bs) ==
  FoldLeft(LAMBDA a, b : 128 * a + (b % 128), 0, SubSeq(bs, 1, Min({2, VarintLen(bs)})))

\* Of a number longer than 28 bits only the two lowest bytes are kept here,
\* as its sign and its lowest bits: the code keeps less of it.
varint_decode(bs) ==
  LET n == IF VarintLen(bs) > 4 THEN 2 ELSE VarintLen(bs)
      value == FoldLeft(LAMBDA a, b : 128 * a + (b % 128), 0, Reverse(SubSeq(bs, 1, n)))
  IN  IF VarintLen(bs) > 4 THEN value - 16384 ELSE value

After(bs, n) == SubSeq(bs, n + 1, Len(bs))

-----------------------------------------------------------------------------
(* Protobuf: a field is its number and wire type, then its value.            *)

WIRETYPE_VARINT           == 0
WIRETYPE_LENGTH_DELIMITED == 2

protobuf_encode_varint(field, n) ==
  varint_encode(8 * field + WIRETYPE_VARINT) \o varint_encode(n)

protobuf_encode_length_delimited(field, bs) ==
  varint_encode(8 * field + WIRETYPE_LENGTH_DELIMITED) \o varint_encode(Len(bs)) \o bs

ipfs_cid_protobuf_encode(cid) ==
  protobuf_encode_varint(1, cid.version) \o
  protobuf_encode_varint(2, cid.codec) \o
  protobuf_encode_length_delimited(3, cid.hash)

protobuf_decode_field_and_type(bs) == varint_decode(bs) \div 8

protobuf_decode_length_delimited(bs) ==
  SubSeq(bs, VarintLen(bs) + 1, VarintLen(bs) + varint_decode(bs))

\* The fields ipfs_cid_protobuf_decode finds; of an unknown one it skips only
\* the number and type.
Fields(bs) ==
  LET From[pos \in 0 .. Len(bs)] ==
        LET field == protobuf_decode_field_and_type(After(bs, pos))
            at    == pos + VarintLen(After(bs, pos))
            rest  == After(bs, at)
            next  == at + VarintLen(rest)
            hash  == protobuf_decode_length_delimited(rest)
        IN  IF pos = Len(bs) THEN <<>>
            ELSE CASE field \in {1, 2} ->
                        <<[no |-> field, n |-> varint_decode(rest)]>> \o From[next]
                   [] field = 3 -> <<[no |-> 3, bs |-> hash]>> \o From[next + Len(hash)]
                   [] OTHER -> From[at]
  IN  From[0]

DecodeField(cid, f) ==
  CASE f.no = 1 -> [cid EXCEPT !.version = f.n]
    [] f.no = 2 -> [cid EXCEPT !.codec = Char(f.n)]
    [] f.no = 3 -> [cid EXCEPT !.hash = f.bs]

ipfs_cid_protobuf_decode(bs) ==
  LET read == FoldLeft(DecodeField, ipfs_cid_new(0, <<>>, 0), Fields(bs))
  IN  ipfs_cid_new(read.version, read.hash, read.codec)

-----------------------------------------------------------------------------
(* Multihashes: code, length, digest.                                        *)

mh_new(code, digest) ==
  IF code >= 128 \/ Len(digest) > 127 THEN {} ELSE { <<code, Len(digest)>> \o digest }

check_multihash(mh) == Len(mh) >= 3 /\ mh[1] < 128 /\ mh[2] \in 1 .. 127

\* The digest is as long as the second byte says, whatever follows.
mh_multihash_digest(mh) ==
  IF check_multihash(mh) THEN { SubSeq(mh, 3, Min({mh[2] + 2, Len(mh)})) } ELSE {}

\* From bytes: a sha2-256 multihash (version 0), or version, codec and the rest.
\* Here the codec is not squeezed into a char.
ipfs_cid_cast(bs) ==
  IF Len(bs) = 34 /\ bs[1] = MH_H_SHA2_256 /\ bs[2] = 32
  THEN { [version |-> 0, codec |-> CID_DAG_PROTOBUF, hash |-> h] : h \in mh_multihash_digest(bs) }
  ELSE LET version == varint_decode(bs)
           rest    == After(bs, VarintLen(bs))
       IN  IF version \notin {0, 1} THEN {}
           ELSE { [version |-> version, codec |-> varint_decode(rest),
                   hash |-> After(rest, VarintLen(rest))] }

-----------------------------------------------------------------------------
\* Negative if a is the greater one, positive if b is.
ipfs_cid_compare(a, b) ==
  LET differ == { i \in DOMAIN a.hash : a.hash[i] # b.hash[i] }
  IN  IF a.version # b.version THEN b.version - a.version
      ELSE IF a.codec # b.codec THEN b.codec - a.codec
      ELSE IF Len(a.hash) # Len(b.hash) THEN Len(b.hash) - Len(a.hash)
      ELSE IF differ = {} THEN 0 ELSE b.hash[Min(differ)] - a.hash[Min(differ)]
=============================================================================
