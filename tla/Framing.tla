------------------------------- MODULE Framing -------------------------------
(***************************************************************************)
(* Messages over one direction of a TCP connection: handle_send and        *)
(* handle_receive of network/messages.c, send_int_tcp and receive_int_tcp  *)
(* of network/utils.c, called by a peer and by the loop of                 *)
(* handle_inbound_rpc (network/socket_server.c).                           *)
(*                                                                         *)
(* A message is its number; its frame is IntBytes bytes of length followed *)
(* by its CBOR encoding (Messages).  A byte in the stream is the pair      *)
(* <<message, position>>, so that the model can tell where in a frame a    *)
(* read has started; Value is what it holds.  TCP keeps the order of the   *)
(* bytes and forgets the boundaries between sends.                         *)
(***************************************************************************)
EXTENDS Messages

CONSTANTS
  IntBytes,     \* sizeof(int32_t)
  MaxSize,      \* MAX_RPC_MSG_SIZE_KB, the limit on a message and the buffer
  Sent,         \* Sent[i]: message i, a message_t
  Hellos,       \* the message_hello_t that some of them are made of
  Pipelined,    \* may a message be sent before the previous one was handled?
  RecvTimeout,  \* is SO_RCVTIMEO set on the receiving socket?
  Junk          \* a message nobody sent

ASSUME FramingAssumption ==
  /\ IntBytes \in Nat \ {0} /\ MaxSize \in Nat \ {0}
  /\ Sent \in Seq([type : Nat, data : Seq(0 .. 255)])
  /\ Hellos \subseteq [peer_id : Seq(0 .. 255), public_key : Seq(0 .. 255)]
  /\ {Pipelined, RecvTimeout} \subseteq BOOLEAN
  /\ Junk \notin Nat

VARIABLES
  spc,       \* the sender: "idle", "int", "body" (inside handle_send), "closed"
  next,      \* the message the sender is at
  left,      \* bytes of the length it has still to send
  stream,    \* bytes sent and not yet received
  rpc,       \* the receiver: "int" (about to call recv for the length), "recv"
             \* (inside that call), "body" (inside the other one), "closed"
  got,       \* the bytes of the length received so far
  errno,     \* errno of the receiving thread
  shutdown,  \* do_shutdown
  received   \* the messages handle_receive has returned

sender == <<spc, next, left>>
receiver == <<rpc, got, errno, received>>
vars == <<sender, stream, receiver, shutdown>>

Messages == DOMAIN Sent
Encoded == [i \in Messages |-> cbor_encode_message_t(Sent[i])]
Size(i) == Len(Encoded[i])
Retry == {"EAGAIN", "EINTR"}
Errno == Retry \cup {"other"}

Header(i) == [k \in 1 .. IntBytes |-> <<i, k>>]
Body(i) == [k \in 1 .. Size(i) |-> <<i, IntBytes + k>>]
LengthByte(i, k) == (Size(i) \div 256 ^ (IntBytes - k)) % 256
Value(x) ==
  IF x[2] <= IntBytes THEN LengthByte(x[1], x[2]) ELSE Encoded[x[1]][x[2] - IntBytes]

\* The lengths ntohl may yield for the bytes b: any number if they are not
\* the length of a message.
Lengths(b) ==
  IF \E i \in Messages : b = Header(i)
  THEN {Size(i) : i \in {j \in Messages : b = Header(j)}}
  ELSE {0, 1, MaxSize}

\* What handle_receive may return for the bytes b: NULL, {}, also when memory
\* runs out.  Bytes from the middle of a frame may happen to be well-formed.
Decoded(b) ==
  {{}, IF b[1][2] = IntBytes + 1 THEN cbor_decode_message_t([k \in DOMAIN b |-> Value(b[k])])
       ELSE {Junk}}
-----------------------------------------------------------------------------
\* A pool thread may bring an errno from the connection it served before.
Init ==
  /\ spc = "idle" /\ next = 1 /\ left = 0
  /\ stream = <<>>
  /\ rpc = "int" /\ got = <<>>
  /\ errno \in Errno
  /\ shutdown = FALSE
  /\ received = <<>>

(* ----------------------------- handle_send ----------------------------- *)

\* Has the peer's last message been handled?
CaughtUp == stream = <<>> /\ rpc \in {"int", "recv"} /\ got = <<>>

handle_send ==
  /\ spc = "idle" /\ next \in Messages
  /\ Pipelined \/ CaughtUp
  /\ spc' = "int" /\ left' = IntBytes
  /\ UNCHANGED <<next, stream, receiver, shutdown>>

\* send takes n bytes of the length; the loop goes on until none is left.
send_int_tcp(n) ==
  /\ spc = "int" /\ n <= left
  /\ stream' = stream \o SubSeq(Header(next), IntBytes - left + 1, IntBytes - left + n)
  /\ left' = left - n
  /\ spc' = IF left' = 0 THEN "body" ELSE "int"
  /\ UNCHANGED <<next, receiver, shutdown>>

\* One send for the body.  Interrupted, it takes fewer bytes, which
\* recv_or_send_failed does not report.
SendBody(n) ==
  /\ spc = "body" /\ n <= Size(next)
  /\ stream' = stream \o SubSeq(Body(next), 1, n)
  /\ spc' = "idle" /\ next' = next + 1
  /\ UNCHANGED <<left, receiver, shutdown>>

\* A send reports an error, or do_shutdown is set in the sender: handle_send
\* returns -1 and its caller closes the connection.
SendFails ==
  /\ spc \in {"int", "body"}
  /\ spc' = "closed"
  /\ UNCHANGED <<next, left, stream, receiver, shutdown>>

CloseSender ==
  /\ spc = "idle"
  /\ spc' = "closed"
  /\ UNCHANGED <<next, left, stream, receiver, shutdown>>

(* --------------------------- receive_int_tcp --------------------------- *)

\* Mutant: do_shutdown is not tested.
TestShutdown_Never ==
  /\ rpc = "int"
  /\ rpc' = "recv"
  /\ UNCHANGED <<sender, stream, got, errno, shutdown, received>>

\* do_shutdown is tested by handle_inbound_rpc before each message and by
\* receive_int_tcp before each recv.
TestShutdown ==
  /\ rpc = "int"
  /\ rpc' = IF shutdown THEN "closed" ELSE "recv"
  /\ UNCHANGED <<sender, stream, got, errno, shutdown, received>>

\* The int is complete: b.  handle_receive tests it before it reads on.
TestSize(b) ==
  \E n \in Lengths(b) :
    rpc' = IF n > 0 /\ n < MaxSize THEN "body" ELSE "closed"

\* recv returns n of the bytes that are missing; full is the length at which
\* the int is complete.
ReceiveInt(n, full) ==
  /\ rpc = "recv"
  /\ n <= Len(stream) /\ n <= IntBytes - Len(got)
  /\ stream' = SubSeq(stream, n + 1, Len(stream))
  /\ LET b == got \o SubSeq(stream, 1, n)
     IN  IF Len(b) < full
         THEN got' = b /\ rpc' = "int"
         ELSE got' = <<>> /\ TestSize(b)
  /\ UNCHANGED <<sender, errno, shutdown, received>>

receive_int_tcp(n) == ReceiveInt(n, IntBytes)

\* recv returns -1 with nothing to read: the receive timeout has passed, or a
\* signal was caught.  The loop tries again.
IntRetries(e) ==
  /\ rpc = "recv" /\ stream = <<>> /\ spc # "closed"
  /\ e = "EAGAIN" => RecvTimeout
  /\ errno' = e
  /\ rpc' = "int"
  /\ UNCHANGED <<sender, stream, got, shutdown, received>>

\* Mutant: a recv of zero bytes is no error.
PeerClosed_Ignored ==
  /\ rpc = "recv" /\ stream = <<>> /\ spc = "closed"
  /\ rpc' = "int"
  /\ UNCHANGED <<sender, stream, got, errno, shutdown, received>>

\* The peer has closed: recv returns 0, which leaves errno alone.  With an
\* errno that asks for a retry the loop tries again, and again.
PeerClosed ==
  /\ rpc = "recv" /\ stream = <<>> /\ spc = "closed"
  /\ rpc' = IF errno \in Retry THEN "int" ELSE "closed"
  /\ UNCHANGED <<sender, stream, got, errno, shutdown, received>>

(* ---------------------------- handle_receive --------------------------- *)

\* Mutant: a message that cannot be decoded is skipped.
ReceiveBody_Skips(n) ==
  /\ rpc = "body"
  /\ n <= Len(stream) /\ n <= MaxSize
  /\ stream' = SubSeq(stream, n + 1, Len(stream))
  /\ \E d \in Decoded(SubSeq(stream, 1, n)) :
       \/ d = {} /\ UNCHANGED received
       \/ \E m \in d : received' = Append(received, m)
  /\ rpc' = "int"
  /\ UNCHANGED <<sender, got, errno, shutdown>>

\* One recv, of as many bytes as the buffer takes, is decoded.  Without a
\* message handle_inbound_rpc closes the connection.
ReceiveBody(n) ==
  /\ rpc = "body"
  /\ n <= Len(stream) /\ n <= MaxSize
  /\ stream' = SubSeq(stream, n + 1, Len(stream))
  /\ \E d \in Decoded(SubSeq(stream, 1, n)) :
       \/ d = {} /\ rpc' = "closed" /\ UNCHANGED received
       \/ \E m \in d : rpc' = "int" /\ received' = Append(received, m)
  /\ UNCHANGED <<sender, got, errno, shutdown>>

\* That recv fails: the peer has closed (0), the timeout has passed or a
\* signal was caught (-1).
BodyFails ==
  /\ rpc = "body" /\ stream = <<>>
  /\ rpc' = "closed"
  /\ errno' \in IF spc = "closed" THEN {errno, "other"}
                ELSE {"EINTR"} \cup (IF RecvTimeout THEN {"EAGAIN"} ELSE {})
  /\ UNCHANGED <<sender, stream, got, shutdown, received>>

signal_shutdown ==
  /\ ~shutdown
  /\ shutdown' = TRUE
  /\ UNCHANGED <<sender, stream, receiver>>

Finished == rpc = "closed" /\ spc = "closed" /\ UNCHANGED vars
-----------------------------------------------------------------------------
Sender ==
  \/ handle_send \/ SendFails \/ CloseSender
  \/ \E n \in 1 .. IntBytes : send_int_tcp(n)
  \/ \E n \in UNION {1 .. Size(i) : i \in Messages} : SendBody(n)

Receiver ==
  \/ \E n \in 1 .. IntBytes : receive_int_tcp(n)
  \/ \E e \in Retry : IntRetries(e)
  \/ TestShutdown \/ PeerClosed
  \/ \E n \in 1 .. MaxSize : ReceiveBody(n)
  \/ BodyFails

Next == Sender \/ Receiver \/ signal_shutdown \/ Finished

\* The receiving thread is scheduled and its recv returns when it may.
Fairness == WF_vars(Receiver)

Spec == Init /\ [][Next]_vars
FairSpec == Spec /\ Fairness
-----------------------------------------------------------------------------
\* handle_receive returns the messages in the order they were sent, none
\* twice, none left out and none that was never sent, when each message is
\* sent after the one before it was handled: whatever recv and send cut off.
InOrder == ~Pipelined => \E n \in 0 .. Len(Sent) : received = SubSeq(Sent, 1, n)

\* A hello arrives with the peer id and the public key it was made of:
\* cbor_decode_hello_t undoes cbor_encode_hello_t for what handle_receive has
\* returned, of several messages each time the right one.
HelloDelivered ==
  \A k \in DOMAIN received, h \in Hellos, initiate \in BOOLEAN :
    Sent[k] = message_hello_t_to_message_t(h, initiate) /\ received[k] # Junk =>
      cbor_decode_hello_t(received[k].data) = {h}

\* The receiving task ends after signal_shutdown, also while its peer stays
\* silent (a receive timeout is set), and after the peer has closed, unless
\* the thread has an errno that asks for a retry.
ReceiveEnds ==
  /\ RecvTimeout /\ shutdown ~> rpc = "closed"
  /\ spc = "closed" ~> rpc = "closed" \/ errno \in Retry
====
