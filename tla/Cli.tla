-------------------------------- MODULE Cli --------------------------------
(***************************************************************************)
(* The program (src/cli): main parses its arguments with ArgParse and then *)
(* runs one command, whose steps, and those of main around it, are taken   *)
(* by Calls.  A thread may also call one function of the library.          *)
(***************************************************************************)
EXTENDS ArgParse, ProgramCalls

CONSTANTS
  Main,               \* the thread of main
  MAX_COMMAND_ARGS,
  Sizes,              \* sizes of texts to encrypt
  Users               \* what the threads call when there is no command line

VARIABLES
  fn,      \* the function each thread runs
  ran,     \* the command that was executed
  resp     \* what main returns

cliVars == <<vars, callVars, fn, ran, resp>>

None == "none"
Fn(given_, code_, result, kept) == [given |-> given_, code |-> code_, result |-> result, kept |-> kept]
Public == {"pub", "pub.data"}
Cbor == {"cbor", "cbor.data"}

\* The functions a thread may call: what the caller gives, the steps, what it has
\* when they have succeeded, and what of that it can reach when they have not.
Keys ==
  [pem_to_private_key |-> Fn({}, libp2p_crypto_ecdsa_pem_to_private_key, PrivateKey, {}),
   keypair_generation |-> Fn({}, libp2p_crypto_ecdsa_keypair_generation, PrivateKey, {}),
   assert_new |-> Fn({}, assert_new_ecdsa_private_key, PrivateKey, {}),
   ecdsa_free |-> Fn(PrivateKey, libp2p_crypto_ecdsa_free, {}, {}),
   save |-> Fn(PrivateKey, libp2p_crypto_ecdsa_private_key_save, PrivateKey, {}),
   from_file |-> Fn({}, libp2p_crypto_ecdsa_private_key_from_file, PrivateKey, {}),
   to_pem |-> Fn(PrivateKey, libp2p_crypto_ecdsa_private_key_to_pem, PrivateKey \cup {"pem"}, {}),
   keypair_public |-> Fn(PrivateKey, libp2p_crypto_ecdsa_keypair_public("pub", "pub.data"), PrivateKey \cup Public, {}),
   keypair_peerid |-> Fn(PrivateKey, libp2p_crypto_ecdsa_keypair_peerid("pub", "pub.data"), PrivateKey \cup Pid, {}),
   private_new |-> Fn({}, libp2p_crypto_private_key_new, {"key"}, {}),
   private_copy |-> Fn({"source", "key"}, libp2p_crypto_private_key_copy, {"source", "key", "key.data"}, {}),
   private_free |-> Fn({"key", "key.data"}, libp2p_crypto_private_key_free, {}, {}),
   public_free |-> Fn(Public, libp2p_crypto_public_key_free("pub", "pub.data"), {}, {}),
   cbor_encode |-> Fn(Public, libp2p_crypto_public_key_cbor_encode, Public \cup Cbor, {}),
   cbor_decode |-> Fn(Cbor, libp2p_crypto_public_key_cbor_decode, Public \cup Cbor, {}),
   cbor_free |-> Fn(Cbor, free_cbor_encoded_data, {}, {}),
   new_peer_id |-> Fn({}, libp2p_new_peer_id_sha256, Pid, {}),
   peer_id_free |-> Fn(Pid, libp2p_peer_id_free, {}, {})]

Others ==
  [stretched_new |-> Fn({}, libp2p_crypto_ephemeral_stretched_key_new, {"stretched"}, {}),
   stretched_free |-> Fn({"stretched", "stretched.iv"}, libp2p_crypto_ephemeral_stretched_key_free, {}, {}),
   ephemeral_generate |->
     Fn({}, libp2p_crypto_ephemeral_keypair_generate, Ephemeral \ {"eph.shared"}, Ephemeral),
   ephemeral_free |-> Fn(Ephemeral, libp2p_crypto_ephemeral_key_free, {}, {}),
   shared_secret |->
     Fn(Ephemeral \ {"eph.shared"}, libp2p_crypto_ephemeral_generate_shared_secret, Ephemeral, {"eph.shared"}),
   aes_key |-> Fn({}, libp2p_crypto_aes_key_generate, {}, {}),
   decrypt |-> Fn({}, libp2p_crypto_aes_decrypt, {"out"}, {"out"}),
   file_logger |-> Fn({}, new_file_logger, {"logger", "file logger", "log fd"}, {}),
   clear_file_logger |-> Fn({"logger", "file logger", "log fd"}, clear_file_logger, {}, {}),
   write_file_log |-> Fn({}, write_file_log, {}, {}),
   log |-> Fn({}, log_func(FALSE, FALSE), {}, {}),
   log_to_file |-> Fn({}, log_func(TRUE, FALSE), {}, {}),
   logf |-> Fn({}, logf_func(FALSE, FALSE), {}, {}),
   write_colored |-> Fn({}, write_colored, {}, {}),
   log_silent |-> Fn({}, log_func(FALSE, TRUE), {}, {}),
   new_socket |-> Fn({"logger"}, get_new_socket(1, FALSE, TRUE), {"logger", "socket"}, {})]

Encrypt(size) == Fn({}, libp2p_crypto_aes_encrypt(size), {"out"}, {"out"})

MainFn == Fn({"table"}, <<>>, {}, {})
Idle == Fn({}, <<>>, {}, {})

\* The argtable of main: its own entries, then those of setup_args.
Tcp == 1
Udp == 2
Pem == 3
Help == 4
Command == 8
CliTable ==
  <<NewEntry("str", {}, <<"listen-address-tcp">>, 0, 1), NewEntry("str", {}, <<"listen-address-udp">>, 0, 1),
    NewEntry("str", {}, <<"pem-file-path">>, 0, 1), NewEntry("lit", {}, <<"help">>, 0, 1),
    NewEntry("lit", {}, <<"version">>, 0, 1), NewEntry("file", {}, <<"file">>, 0, 10),
    NewEntry("file", {}, <<"output">>, 0, 1), NewEntry("str", {"c"}, <<"command">>, 0, 1)>>

\* The program starts, or threads call functions of the library.
CliInit ==
  /\ \/ Init /\ fn = [t \in Threads |-> IF t = Main THEN MainFn ELSE Idle]
     \/ /\ table = <<>> /\ argv = <<>> /\ posix = FALSE /\ pc = "off" /\ g = Fresh /\ stored = <<>>
        /\ errors = <<>> /\ tabindex = 1 /\ tentative = NULL /\ parses = <<>>
        /\ fn \in Users
  /\ code = [t \in Threads |-> fn[t].code]
  /\ live = [t \in Threads |-> fn[t].given]
  /\ after = [t \in Threads |-> <<>>]
  /\ gone = [t \in Threads |-> {}]
  /\ failed = [t \in Threads |-> FALSE]
  /\ status = [t \in Threads |-> IF fn[t].code = <<>> THEN "idle" ELSE "running"]
  /\ holder = NoThread
  /\ ran = None /\ resp = {}

\* The value of an option of main that is given at most once.
Value(t) == IF stored[t] = <<>> THEN <<>> ELSE stored[t][1]
Given(t) == stored[t] # <<>>

Handlers == <<"start-socket-server", "test-socket-server", "gen-key">>
HandlersOf(name) == {i \in DOMAIN Handlers : <<Handlers[i]>> = name}

\* Without an object main goes to EXIT, where the object is used.
new_command_object ==
  IF argc > MAX_COMMAND_ARGS THEN <<Use({"cmd"})>>
  ELSE <<Maybe("cmd"), Use({"cmd"}), Maybe("cmd.argv"), Use({"cmd.argv"})>>

\* One handler after the other, without a look at the result of malloc.
load_command == [i \in DOMAIN Handlers |-> Maybe(Handlers[i])]

\* The names are compared up to the one that is meant.
execute(name) ==
  LET found == HandlersOf(name)
      last == IF found = {} THEN Len(Handlers) ELSE CHOOSE i \in found : TRUE
  IN  [i \in 1..last |-> Use({Handlers[i]})]
      \o FlattenSeq(SetToSeq({callback(Handlers[i], Given(Pem), Given(Tcp), Given(Udp)) : i \in found}))

free_command_object == <<Free({Handlers[i] : i \in DOMAIN Handlers}), Free({"cmd.argv"}), Free({"cmd"})>>
arg_freetable == <<Free({"table"})>>

\* Mutant: an error of the arguments is reported and the command is run.
parse_args_Lenient ==
  IF Given(Help) THEN -2 ELSE IF errors # <<>> /\ ~Given(Command) THEN -1 ELSE 0

parse_args == IF Given(Help) THEN -2 ELSE IF errors # <<>> THEN -1 ELSE 0

Parsed == table = CliTable /\ pc = "parsed" /\ status[Main] = "idle"
MainRuns(steps, tail, r) ==
  /\ code' = [code EXCEPT ![Main] = steps]
  /\ after' = [after EXCEPT ![Main] = tail]
  /\ status' = [status EXCEPT ![Main] = IF steps = <<>> THEN "ended" ELSE "running"]
  /\ resp' = {r}
  /\ UNCHANGED <<vars, live, gone, failed, holder, fn>>

MainEnds ==
  /\ Parsed
  /\ \/ parse_args = -2 /\ MainRuns(<<>>, <<>>, 0)
     \/ parse_args = -1 /\ MainRuns(arg_freetable, <<>>, -1)
     \/ parse_args = 0 /\ argc = 1 /\ MainRuns(arg_freetable, <<>>, 0)
  /\ UNCHANGED ran

MainExecutes ==
  /\ Parsed /\ parse_args = 0 /\ argc > 1
  /\ ran' = IF HandlersOf(Value(Command)) = {} THEN None ELSE Value(Command)[1]
  /\ MainRuns(new_command_object \o load_command \o execute(Value(Command)),
              free_command_object \o arg_freetable,
              IF HandlersOf(Value(Command)) = {} THEN -1 ELSE 0)

Parsing == ArgNext /\ (ParseAgain => table # CliTable) /\ UNCHANGED <<callVars, fn, ran, resp>>
Thread(t) == CallStep(t) /\ UNCHANGED <<vars, fn, ran, resp>>

Next == Parsing \/ MainEnds \/ MainExecutes \/ \E t \in Threads : Thread(t)
CliSpec == CliInit /\ [][Next]_cliVars /\ \A t \in Threads : WF_cliVars(Thread(t))
-----------------------------------------------------------------------------
Ended(t) == status[t] = "ended"

\* Whatever fails, no function uses what it has not got or releases what it has
\* released, except: after an allocation whose result is not looked at, when a text of a
\* size that 8 does not divide is encrypted (aes.c:57, 74), when main has more arguments
\* than a command object holds, and when test-socket-server has no tcp address to
\* connect to (main.c:139).
UndefinedOnly ==
  \A t \in Threads : status[t] = "undefined" =>
    \/ failed[t]
    \/ \E n \in Sizes : n % 8 # 0 /\ fn[t] = Encrypt(n)
    \/ t = Main /\ (argc > MAX_COMMAND_ARGS \/ (ran = "test-socket-server" /\ ~Given(Tcp)))

\* What the code of a function never releases: the contexts of random numbers and of aes,
\* whether it succeeds or not, and on its error paths the contexts of a key that is not
\* made, a file that cannot be read, the public key of a peer id, a socket.
NeverFreed(f) ==
  {o \in Random : f \in {Others.aes_key, Others.shared_secret}}
  \cup {o \in {"aes"} : f = Others.decrypt \/ \E n \in Sizes : f = Encrypt(n)}
LeftBehind(f) ==
  NeverFreed(f)
  \cup {o \in {"pk.pk", "pk.ecdsa"} : f \in {Keys.pem_to_private_key, Keys.from_file, Keys.keypair_generation}}
  \cup {o \in Random \cup {"pair"} : f = Keys.keypair_generation}
  \cup {o \in {"fd"} : f = Keys.from_file}
  \cup {o \in Public : f = Keys.keypair_peerid}
  \cup {o \in {"socket"} : f = Others.new_socket}

\* A function that succeeds leaves its caller with its result and what the caller gave,
\* and main with nothing, but for NeverFreed and for the argtable after --help.
SuccessBalanced ==
  \A t \in Threads : Ended(t) /\ ~failed[t] =>
    /\ fn[t].result \subseteq live[t]
    /\ live[t] \ fn[t].result \subseteq
         NeverFreed(fn[t]) \cup {o \in {"table"} : fn[t] = MainFn /\ Given(Help)}

\* A function that fails has released nothing of its caller's, and of its own leaves only
\* what the caller can reach and its objects of LeftBehind.
FailureClean ==
  \A t \in Threads : Ended(t) /\ failed[t] /\ fn[t] # MainFn =>
    /\ fn[t].given \subseteq live[t]
    /\ live[t] \subseteq fn[t].given \cup fn[t].kept \cup LeftBehind(fn[t])

\* A function that ends, on whatever path, holds what its result promises.
CallsBalanced == SuccessBalanced /\ FailureClean

\* A command that starts is the one named by the only -c or --command of the arguments,
\* they hold no error, and neither --help nor too few of them were given.
RunsOnlyAsked ==
  ran # None =>
    LET options == Split(Tail(argv)).options
        Asks(i) == \/ i > 1 /\ options[i] = <<ran>> /\ options[i - 1] = <<"-", "c">>
                   \/ i > 1 /\ options[i] = <<ran>> /\ Len(options[i - 1]) = 3
                      /\ MatchLong(table, options[i - 1][3]) = {Command}
                   \/ options[i] \in {<<"-", "c", ran>>, <<"-", "-", "command", "=", ran>>}
        help == {i \in DOMAIN options : options[i] = <<"-", "-", "help">>}
    IN  /\ errors = <<>> /\ resp = {0}
        /\ \A i \in help : i > 1 /\ TakesNext(options[i - 1])
        /\ \E i \in DOMAIN options : Asks(i)

\* A thread that logs gets its line out, or fails, unless a thread has returned from the
\* logger with the mutex locked because it had no memory for its line (logger.c:160-163).
LogLineEnds ==
  \A t \in Threads :
    Running(t) ~> (~Running(t) \/ \E u \in Threads : holder = u /\ ~Running(u) /\ failed[u])
====
