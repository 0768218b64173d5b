---------------------------- MODULE ProgramCalls ----------------------------
(***************************************************************************)
(* The logger (thirdparty/logger), the sockets as they are made            *)
(* (src/network) and the commands of the program (src/cli/main.c), as      *)
(* steps of Calls.                                                         *)
(***************************************************************************)
EXTENDS KeyCalls

new_thread_logger == <<Get("logger", {})>>
clear_thread_logger == <<Free({"logger"})>>

\* Mutant: the thread logger is left when the file cannot be opened.
new_file_logger_Kept == new_thread_logger \o <<Get("file logger", {"logger"}), Get("log fd", {"file logger"})>>

new_file_logger == new_thread_logger \o <<Get("file logger", {"logger"}), Get("log fd", {"file logger", "logger"})>>
clear_file_logger == <<Use({"file logger"}), Free({"log fd"}), Free({"logger"}), Free({"file logger"})>>

write_file_log == <<Get("line", {}), Call({"line"}, {"line"}), Free({"line"})>>

\* Mutant: the mutex is given back only if the line goes to no file.
log_level_Locked(file) ==
  <<Lock, Get("msg", {})>> \o (IF file THEN <<Use({"msg"})>> ELSE <<Use({"msg"}), Unlock>>) \o <<Free({"msg"})>>

\* info_log, warn_log, error_log and debug_log; what write_file_log returns is not
\* looked at.  Without memory for the line the function returns with the mutex locked.
log_level(file) ==
  <<Lock, Get("msg", {})>> \o (IF file THEN <<Maybe("line"), Free({"line"})>> ELSE <<>>)
  \o <<Use({"msg"}), Unlock, Free({"msg"})>>

get_time_string == <<Get("time", {})>>

\* Without debug a line of that level stops before the mutex.
log_func(file, silent) ==
  get_time_string \o (IF silent THEN <<>> ELSE Within(log_level(file), {"time"})) \o <<Free({"time"})>>

\* The line is put together on the stack, and given to free if that fails.
logf_func(file, silent) == <<Maybe("text"), Use({"text"}), Free({"text"})>> \o log_func(file, silent)

write_colored == <<Get("colored", {}), Call({"colored"}, {"colored"}), Free({"colored"})>>

\* A socket whose options cannot be set or that cannot be bound is left open.
get_new_socket(opts, is_client, is_tcp) ==
  <<Use({"logger"}), Get("socket", {})>>
  \o [i \in 1..opts |-> Call({"socket"}, {})]
  \o (IF ~is_client THEN <<Call({"socket"}, {})>>
      ELSE IF is_tcp THEN <<Call({"socket"}, {"socket"})>> ELSE <<>>)

\* What getaddrinfo leaves behind when it fails is released all the same.
new_socket_client(is_tcp) ==
  <<Call({"tcp"}, {}), Maybe("info"), Use({"info"})>>
  \o Within(get_new_socket(0, TRUE, is_tcp), {"info"})
  \o <<Get("client", {})>>

new_socket_server_config == <<Get("config", {}), Maybe("addrs")>>
Config == {"tcp", "addrs", "config"}

\* The socket is left open if listen fails, for it is not in the set yet, and if there
\* is no memory for the server, for the loop ends before the highest number.
new_socket_server ==
  <<Get("info", {})>> \o Within(get_new_socket(0, FALSE, TRUE), {"info"})
  \o <<Call({"socket"}, {"info"}), Free({"info"}), Get("server", {}), Get("store", {"server", "socket"})>>
  \o Within(libp2p_crypto_ecdsa_private_key_from_file, {"store", "server", "socket"})
  \o Within(libp2p_crypto_ecdsa_keypair_public("pub", "pub.data"), {"store", "server", "socket"} \cup PrivateKey)
  \o Within(libp2p_crypto_ecdsa_keypair_peerid("pub2", "pub2.data"),
            {"store", "server", "socket", "pub", "pub.data"} \cup PrivateKey)
  \o <<Maybe("thpool")>>

free_socket_server ==
  <<Use({"logger", "server"}), Free({"socket"}), Free({"thpool"}), Free({"store"})>>
  \o libp2p_crypto_ecdsa_free \o libp2p_crypto_public_key_free("pub", "pub.data")
  \o libp2p_peer_id_free \o clear_thread_logger \o <<Free({"server"})>>

gen_key_callback(pem) ==
  IF ~pem THEN <<>> ELSE assert_new_ecdsa_private_key \o <<Use({"pk"})>> \o libp2p_crypto_ecdsa_free

\* Early returns keep most of what is held; without a tcp address there is no client to close.
test_server_callback(tcp, udp) ==
  (IF tcp THEN <<Get("tcp", {})>> ELSE <<>>) \o (IF udp THEN <<Get("udp", {})>> ELSE <<>>)
  \o IF ~tcp /\ ~udp THEN <<>>
     ELSE <<Maybe("logger"), Get("msg", {}), Maybe("msg.data"), Use({"msg.data"})>>
          \o (IF tcp THEN Within(new_socket_client(TRUE), {"tcp", "udp", "logger"})
                          \o <<Call({"client", "msg"}, {}), Get("reply", {}), Free({"reply"})>>
              ELSE <<>>)
          \o <<Free({"tcp"}), Free({"udp"}), Free({"logger"}), Use({"client"}),
               Free({"socket"}), Free({"info"}), Free({"client"}), Free({"msg.data", "msg"})>>

start_server_callback(pem) ==
  IF ~pem THEN <<>>
  ELSE new_socket_server_config
       \o <<Use({"addrs"}), Get("tcp", Config), Get("logger", Config)>>
       \o Within(new_socket_server, Config \cup {"logger"})
       \o <<Free(Config), Use({"thpool"})>> \o free_socket_server

callback(name, pem, tcp, udp) ==
  CASE name = "start-socket-server" -> start_server_callback(pem)
    [] name = "test-socket-server" -> test_server_callback(tcp, udp)
    [] name = "gen-key" -> gen_key_callback(pem)
====
