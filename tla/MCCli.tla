------------------------------- MODULE MCCli -------------------------------
(***************************************************************************)
(* Small instances of the program: command lines, texts of numbers and the *)
(* functions that threads call.                                            *)
(***************************************************************************)
EXTENDS Cli

Num(sign, inner, prefix, val, suffix) ==
  [sign |-> sign, inner |-> inner, prefix |-> prefix, val |-> val, suffix |-> suffix]
MCNumbers ==
  LET n == {<<"2">>, <<"-", "2", "K">>, <<"0x9">>, <<"3KB">>, <<"1Q">>}
  IN  [v \in n |->
        CASE v = <<"2">> -> Num(1, 1, "", 2, "") [] v = <<"-", "2", "K">> -> Num(-1, 1, "", 2, "KB")
          [] v = <<"0x9">> -> Num(1, 1, "X", 9, "") [] v = <<"3KB">> -> Num(1, 1, "", 3, "KB")
          [] v = <<"1Q">> -> Num(1, 1, "", 1, "Q")]

Names == {"version", "verbose", "num"} \cup {CliTable[t].long[1] : t \in DOMAIN CliTable}
MCAbbreviations ==
  {<<"ver", "version">>, <<"ver", "verbose">>, <<"com", "command">>} \cup ({""} \X Names)

\* Two options, one of them with two names, and two entries without options.
OtherTable ==
  <<NewEntry("lit", {"v"}, <<"verbose", "version">>, 0, 1), NewEntry("int", {"n"}, <<"num">>, 0, 2),
    NewEntry("int", {}, <<>>, 1, 1), NewEntry("file", {}, <<>>, 0, 2)>>

UpTo(words, n) == UNION {{<<<<"p">>>> \o s : s \in [1..m -> words]} : m \in 0..n}
\* Every kind of argument, and longer ones of the kinds that getopt moves.
Words ==
  {<<"-", "v">>, <<"-", "v", "n", "2">>, <<"-", "n">>, <<"-", "x", "v">>, <<"-", "-", "ver">>,
   <<"-", "-", "num">>, <<"-", "-", "num", "=">>, <<"-", "-", "verbose", "=", "2">>,
   <<"-", "-">>, <<"-">>, <<"2">>, <<"-", "2", "K">>, <<"0x9">>, <<"3KB">>, <<"1Q">>,
   <<"a", "/", ".", "b">>, <<"a", ".", "b", ".">>}
Moved == {<<"-", "v">>, <<"-", "n">>, <<"-", "-">>, <<"2">>}
CliWords ==
  {<<"-", "c">>, <<"-", "-", "com">>, <<"gen-key">>, <<"-", "-", "command", "=", "test-socket-server">>,
   <<"-", "c", "start-socket-server">>, <<"-", "-", "help">>, <<"-", "-", "listen-address-udp", "=", "a">>,
   <<"-", "-", "listen-address-tcp", "=", "a">>, <<"-", "-", "pem-file-path", "=", "a">>}
MCCommandLines ==
  ({OtherTable} \X ({<<>>} \cup UpTo(Words, 3) \cup UpTo(Moved, 5))) \cup ({CliTable} \X UpTo(CliWords, 3))

\* One function, or two that share the mutex of the logger.
MCSizes == {0, 5, 8, 16, 24}
Calling == {Keys[f] : f \in DOMAIN Keys} \cup {Others[f] : f \in DOMAIN Others} \cup {Encrypt(n) : n \in MCSizes}
Logging == {Others.log, Others.log_to_file, Others.log_silent}
MCUsers ==
  {[t \in Threads |-> IF t = Main THEN f ELSE Idle] : f \in Calling}
  \cup [Threads -> Logging]
====
