------------------------------- MODULE MCCbor -------------------------------
(***************************************************************************)
(* Cbor on all buffers of up to two bytes of an alphabet in which every    *)
(* kind of head is, on those of three and four bytes behind a head that    *)
(* has something behind it, and on what the encoder makes.                 *)
(***************************************************************************)
EXTENDS Cbor

\* 1, uint8, reserved, byte string, text, their indefinite forms, array and map of
\* one, indefinite, an array too large, a tag, a simple value of two bytes, break.
Alphabet == {1, 24, 28, 65, 95, 97, 127, 129, 159, 161, 191, 134, 164, 193, 248, 255}
Structure == {1, 97, 127, 129, 159, 161, 191, 193, 255}

\* Maps of two keys, equal ones, overlong ones, numbers; text of every kind of
\* character and what is near to it; numbers at the limits of a head.
Keys == {<<96>>, <<97, 1>>, <<97, 97>>, <<1>>, <<24, 24>>, <<120, 1, 97>>, <<98, 0, 0>>}
Maps == {<<162>> \o k1 \o <<1>> \o k2 \o <<1>> : k1 \in Keys, k2 \in Keys}
Chars == {<<127>>, <<128>>, <<194, 128>>, <<193, 191>>, <<195>>, <<224, 160, 128>>, <<224, 159, 191>>,
          <<237, 159, 191>>, <<237, 160, 128>>, <<239, 191, 191>>, <<240, 144, 128, 128>>,
          <<240, 143, 191, 191>>, <<244, 143, 191, 191>>, <<244, 144, 128, 128>>, <<245, 128, 128, 128>>}
\* Byte strings of all lengths modulo 3, with the tags that choose a notation.
Bytes == {<<tag, 64 + n>> \o [i \in 1..n |-> (91 * i) % 256] : tag \in {195, 196, 214, 215}, n \in 0..8}
Texts == {<<96 + Len(c)>> \o c : c \in Chars} \cup {<<98, c, 92>> : c \in 7..13} \cup {<<127, 97, 194, 97, 128, 255>>}
Numbers == {<<24, 23>>, <<24, 24>>, <<25, 0, 255>>, <<25, 1, 0>>, <<56, 24>>, <<88, 1, 0>>, <<152, 0>>}

\* Four bytes behind a head that has something behind it.
Nested == {b \in [1..4 -> Structure] : b[1] \notin {1, 97, 255}}
MCBuffers ==
  UNION {[1..n -> Alphabet] : n \in 0..2} \cup {b \in [1..3 -> Alphabet] : b[1] \notin {1, 28, 134, 164, 255}}
  \cup Nested \cup Maps \cup Texts \cup Numbers \cup Bytes
MCSizes == {NULL, 2, 8}
MCLengths == {0, 1, 5, 9}
====
