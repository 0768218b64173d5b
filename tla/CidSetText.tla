----------------------------- MODULE CidSetText -----------------------------
(***************************************************************************)
(* The ids that a CidSet holds, sent as bytes and printed as text.          *)
(***************************************************************************)
EXTENDS CidSet, MultiBase

CONSTANT MaxText    \* bound: bytes of a hash that are turned into text

\* An id in the set survives being sent: protobuf bytes decode to the same id,
\* its multihash to the same digest, and the bytes of a version 1 id are cast
\* to it if its codec fits seven bits; and ipfs_cid_compare tells it from every
\* other id.
CodecExact ==
  \A c \in expected :
    /\ \A d \in Cids : ipfs_cid_compare(c, d) = 0 <=> c = d
    /\ ipfs_cid_protobuf_decode(ipfs_cid_protobuf_encode(c)) = c
    /\ c.hash # <<>> => \A mh \in mh_new(MH_H_SHA2_256, c.hash) :
                          mh_multihash_digest(mh) = {c.hash}
    /\ c.version = 1 /\ c.codec >= 0 =>
         ipfs_cid_cast(varint_encode(1) \o varint_encode(c.codec) \o c.hash) = {c}

\* The first bytes of an id's hash, and its multihash, as text: with the buffer
\* the library's size functions ask for the text is complete and decodes to the
\* same bytes; with a smaller one multibase_encode fails or gives the same text.
TextOf == [c \in Cids |->
  /\ libp2p_encoding_base32_decode(ipfs_cid_to_string(c), Len(c.hash)) = {c.hash}
  /\ \A n \in 0 .. Min({MaxText, Len(c.hash)}) :
       LET bs == SubSeq(c.hash, 1, n)
       IN  /\ \A mh \in mh_new(MH_H_SHA2_256, bs) :
                \E text \in ipfs_cid_hash_to_base32(bs, libp2p_encoding_base32_encode_size(n + 2)) :
                  libp2p_encoding_base32_decode(text, n + 2) = {mh}
           /\ \A base \in {MULTIBASE_BASE16, MULTIBASE_BASE32, MULTIBASE_BASE64} :
                LET size == multibase_encode_size(base, n)
                IN  \E text \in multibase_encode(base, bs, size) :
                      /\ multibase_decode(text, multibase_decode_size(base, Len(text))) = {bs}
                      /\ \A max \in 1 .. size : multibase_encode(base, bs, max) \subseteq {text}]

\* The ids in the set can be printed and read back in each of the three bases
\* (src/multibase, src/encoding).
TextReadBack == \A c \in expected : TextOf[c]
=============================================================================
