----------------------------- MODULE ServersPool -----------------------------
(***************************************************************************)
(* The servers of Servers use their thread pools within what JobPool, and  *)
(* so ThreadPool, promises: what Servers assumes of a pool holds of the    *)
(* pool of thread_pool.c.                                                  *)
(***************************************************************************)
EXTENDS Servers

InPC(s, pcs) == {e \in EndsOf(s) : pc[e] \in pcs}

\* The pool of server s, whose jobs are the tasks for its connection ends.
Pool(s) == INSTANCE JobPool WITH
  Jobs <- EndsOf(s),
  Size <- NumThreads,
  life <- CASE phase[s] = "down" -> "init"
            [] phase[s] = "failed" -> "null"
            [] phase[s] = "serving" -> "open"
            [] OTHER -> phase[s],
  fresh <- InPC(s, {"none", "connected", "backlog", "reset"}),
  queue <- queue[s],
  running <- Active(s),
  done <- InPC(s, {"closed"}),
  dropped <- InPC(s, {"dropped"})

\* Whatever a server does to its pool (new_socket_server, the accept loop,
\* socket_server_send, free_socket_server) is a step of the promised pool,
\* until the process ends.
UsesPool ==
  /\ \A s \in Hosts : Pool(s)!Init
  /\ [][\A s \in Hosts : [Pool(s)!Next]_(Pool(s)!vars) \/ phase'[s] = "killed"]_vars
====
