------------------------------ MODULE KeyCalls ------------------------------
(***************************************************************************)
(* The functions around keys (src/crypto), as steps of Calls.  The object  *)
(* "pk" is an ecdsa_private_key_t, "pk.pk" and "pk.ecdsa" its contexts; a  *)
(* key p of type public_key_t has its data, d; "eph" is an ephemeral key.  *)
(***************************************************************************)
EXTENDS Calls

PrivateKey == {"pk.pk", "pk.ecdsa", "pk"}
Random == {"drbg", "entropy"}
Ephemeral == {"eph", "eph.public", "eph.ctx", "eph.bytes", "eph.shared"}
Pid == {"pid", "pid.data"}

libp2p_crypto_ecdsa_free == <<Use({"pk"}), Free(PrivateKey)>>

\* A context is left to itself if the key cannot be parsed or taken over.
libp2p_crypto_ecdsa_pem_to_private_key ==
  <<Have("pk.pk"), Have("pk.ecdsa"),
    Call({"pk.pk"}, {}), Call({"pk.pk", "pk.ecdsa"}, {}),
    Get("pk", {"pk.pk", "pk.ecdsa"})>>

\* Mutant: one context is forgotten.
keypair_generation_Kept ==
  <<Have("drbg"), Have("entropy"), Have("pair"),
    Call(Random, {}), Call({"pair", "drbg"}, {}), Call({"pair"}, {}), Free({"pair"}), Free({"drbg"})>>
  \o libp2p_crypto_ecdsa_pem_to_private_key

libp2p_crypto_ecdsa_keypair_generation ==
  <<Have("drbg"), Have("entropy"), Have("pair"),
    Call(Random, {}), Call({"pair", "drbg"}, {}), Call({"pair"}, {}),
    Free({"pair"}), Free({"drbg"}), Free({"entropy"})>>
  \o libp2p_crypto_ecdsa_pem_to_private_key

assert_new_ecdsa_private_key == <<Insist({}), Have("pk.pk"), Have("pk.ecdsa"), Have("pk")>>

\* Mutant: the branch of a good write closes the file, and so does the end.
private_key_save_Twice ==
  <<Call({"pk"}, {}), Get("fd", {}), Call({"fd"}, {"fd"}), Free({"fd"}), Free({"fd"})>>

libp2p_crypto_ecdsa_private_key_save ==
  <<Call({"pk"}, {}), Get("fd", {}), Call({"fd"}, {"fd"}), Free({"fd"})>>

libp2p_crypto_ecdsa_private_key_from_file ==
  <<Get("fd", {}), Call({"fd"}, {}), Free({"fd"})>> \o libp2p_crypto_ecdsa_pem_to_private_key

libp2p_crypto_ecdsa_private_key_to_pem == <<Call({"pk"}, {}), Get("pem", {})>>

libp2p_crypto_public_key_new(p) == <<Get(p, {})>>
libp2p_crypto_public_key_free(p, d) == <<Use({p}), Free({d, p})>>
libp2p_crypto_private_key_new == <<Get("key", {})>>
libp2p_crypto_private_key_free == <<Free({"key.data", "key"})>>
libp2p_crypto_private_key_copy == <<Use({"source", "key"}), Get("key.data", {})>>

libp2p_crypto_ecdsa_keypair_public(p, d) ==
  <<Call({"pk"}, {}), Get(d, {})>> \o Within(libp2p_crypto_public_key_new(p), {d})

\* mh_new, multibase_encode, then the result.
libp2p_new_peer_id ==
  <<Call({}, {}), Call({}, {}), Get("pid", {}), Get("pid.data", {"pid"})>>
libp2p_new_peer_id_sha256 == libp2p_new_peer_id
libp2p_peer_id_free == <<Use({"pid"}), Free(Pid)>>

\* The public key p, d is left if there is no memory for the hash.
libp2p_crypto_ecdsa_keypair_peerid(p, d) ==
  libp2p_crypto_ecdsa_keypair_public(p, d)
  \o <<Get("hash", {}), Use({p, "hash"})>>
  \o Within(libp2p_new_peer_id, {p, d, "hash"})
  \o libp2p_crypto_public_key_free(p, d) \o <<Free({"hash"})>>

new_cbor_encoded_data == <<Get("cbor", {}), Get("cbor.data", {"cbor"})>>
free_cbor_encoded_data == <<Use({"cbor"}), Free({"cbor.data", "cbor"})>>

\* Five calls of the encoder, on a buffer of the stack.
libp2p_crypto_public_key_cbor_encode ==
  [i \in 1..5 |-> Call({"pub", "pub.data"}, {})] \o new_cbor_encoded_data
\* Thirteen calls and tests of the decoder.
libp2p_crypto_public_key_cbor_decode ==
  [i \in 1..13 |-> Call({"cbor", "cbor.data"}, {})] \o <<Get("pub", {}), Get("pub.data", {"pub"})>>

libp2p_crypto_ephemeral_stretched_key_new == <<Get("stretched", {})>>
libp2p_crypto_ephemeral_stretched_key_free ==
  <<Free({"stretched.cipher", "stretched.iv", "stretched.mac", "stretched"})>>
libp2p_crypto_ephemeral_key_new == <<Get("eph", {}), Get("eph.public", {"eph"})>>
libp2p_crypto_ephemeral_key_free == <<Free(Ephemeral)>>

\* The key is the caller's from the start, whatever fails afterwards.
libp2p_crypto_ephemeral_keypair_generate ==
  libp2p_crypto_ephemeral_key_new
  \o <<Have("eph.ctx"), Have("entropy"), Have("drbg"),
       Call(Random, Random), Call({"eph.ctx"}, Random),
       Maybe("eph.bytes"), Call({"eph.ctx", "eph.bytes", "drbg"}, Random),
       Free(Random)>>

libp2p_crypto_ephemeral_generate_shared_secret ==
  <<Have("entropy"), Have("drbg"), Call(Random, {}), Call({"eph.ctx"}, {}),
    Maybe("eph.shared"), Call({"eph.ctx", "eph.shared", "drbg"}, {})>>

libp2p_crypto_aes_key_generate == <<Have("entropy"), Have("drbg"), Call(Random, {}), Call({"drbg"}, {})>>

\* A size that is no multiple of 16 grows by its remainder: cbc accepts the sum only
\* if the remainder was 8; else free is given the caller's variable.
libp2p_crypto_aes_encrypt(size) ==
  LET new_size == size + (size % 16)
  IN  <<Have("aes"), Get("padded", {}), Maybe("out")>>
      \o (IF new_size % 16 = 0 THEN <<Use({"padded", "out"}), Free({"padded"})>>
          ELSE <<Free({"padded"}), Use({"not allocated"})>>)
libp2p_crypto_aes_decrypt == <<Have("aes"), Maybe("out"), Call({"out"}, {})>>
====
