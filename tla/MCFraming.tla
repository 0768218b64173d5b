------------------------------ MODULE MCFraming ------------------------------
(* An instance of Framing for TLC. *)
EXTENDS Framing

MCHello == [peer_id |-> <<131, 2>>, public_key |-> <<66>>]
MCHellos == {MCHello}

\* A hello, a message without data and one that is too long.
MCSent ==
  << message_hello_t_to_message_t(MCHello, TRUE),
     [type |-> ARBITRARY, data |-> <<>>],
     [type |-> ARBITRARY, data |-> [i \in 1 .. MaxSize - 5 |-> i]] >>
====
