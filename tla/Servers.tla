------------------------------- MODULE Servers -------------------------------
(***************************************************************************)
(* Socket servers that connect to each other (network/socket_server.c):    *)
(* start, the accept loop, socket_server_send, the task handle_inbound_rpc *)
(* with the hello exchange, and shutdown.  Each server is a process of its *)
(* own, which lives on after free_socket_server.                           *)
(*                                                                         *)
(* The parts a server is built of appear by what their modules show: the   *)
(* pool runs tasks in the order they were added, NumThreads at a time      *)
(* (JobPool); an insert looks a peer up in one step and stores it in a     *)
(* later one (PeerStore); a message arrives whole and in order, or the     *)
(* task ends, and messages that were not waited for may be lost with the   *)
(* one before them (Framing).                                              *)
(***************************************************************************)
EXTENDS Naturals, Sequences, FiniteSets

CONSTANTS
  Hosts,        \* the servers
  Conns,        \* bound: the connections ever made, each by socket_server_send
  From, To,     \* From[c] connects to To[c]
  Requests,     \* Requests[c]: the message types socket_server_send may send on c
  NumThreads,   \* config->num_threads
  MaxPeers,     \* config->max_peers
  RecvTimeout,  \* config->recv_timeout_sec > 0
  MaxFault,     \* bound: allocations, sends and receives that fail
  None

ASSUME ServersAssumption ==
  /\ From \in [Conns -> Hosts] /\ To \in [Conns -> Hosts]
  /\ IsFiniteSet(Hosts) /\ IsFiniteSet(Conns)
  /\ NumThreads \in Nat \ {0} /\ MaxPeers \in Nat \ {0} /\ MaxFault \in Nat
  /\ RecvTimeout \in BOOLEAN
  /\ Requests \in [Conns -> SUBSET {"INT", "FIN", "START", "BEGIN", "ARBITRARY"}]
  /\ None \notin {"INT", "FIN", "START", "BEGIN", "ARBITRARY"}

VARIABLES
  phase,     \* phase[s]: "down", "failed", "serving", "closing", "freed", "killed"
  shutdown,  \* shutdown[s]: do_shutdown of its process
  known,     \* known[s]: the peers in its peer store
  queue,     \* queue[s]: connection ends waiting for a thread of its pool
  pc,        \* pc[e]: what has become of connection end e
  cur,       \* cur[e]: the message the task of e is handling
  chan,      \* chan[e]: messages sent to e and not yet read
  req,       \* history: req[c], the message socket_server_send has sent on c
  faults     \* faults still to happen

vars == <<phase, shutdown, known, queue, pc, cur, chan, req, faults>>

\* A connection has two ends, <<c, "out">> at From[c] and <<c, "in">> at To[c].
Ends == Conns \X {"out", "in"}
Owner(e) == IF e[2] = "out" THEN From[e[1]] ELSE To[e[1]]
Other(e) == <<e[1], IF e[2] = "out" THEN "in" ELSE "out">>
EndsOf(s) == {e \in Ends : Owner(e) = s}

Messages == {"INT", "FIN", "START", "BEGIN", "ARBITRARY"}

\* Ends with a task that runs, and ends that have no socket (any more).  An
\* end is "reset" when it is closed without ever having been a task, and
\* "dropped" when its socket stays open with nobody to read from it.
ActivePC == {"loop", "recv", "have", "store", "reply", "begin"}
ShutPC == {"none", "reset", "closed"}
EndPC == {"connected", "backlog", "queued", "dropped"} \cup ActivePC \cup ShutPC

Active(s) == {e \in EndsOf(s) : pc[e] \in ActivePC}
IsOpen(e) == pc[e] \notin ShutPC

Fault == faults > 0 /\ faults' = faults - 1
-----------------------------------------------------------------------------
Init ==
  /\ phase = [s \in Hosts |-> "down"]
  /\ shutdown = [s \in Hosts |-> FALSE]
  /\ known = [s \in Hosts |-> {}]
  /\ queue = [s \in Hosts |-> <<>>]
  /\ pc = [e \in Ends |-> "none"]
  /\ cur = [e \in Ends |-> None]
  /\ chan = [e \in Ends |-> <<>>]
  /\ req = [c \in Conns |-> None]
  /\ faults = MaxFault

(* ------------------------- the life of a server ------------------------ *)

\* new_socket_server returns a server, which is started, or NULL.
new_socket_server(s) ==
  /\ phase[s] = "down"
  /\ \/ phase' = [phase EXCEPT ![s] = "serving"] /\ UNCHANGED faults
     \/ phase' = [phase EXCEPT ![s] = "failed"] /\ Fault
  /\ UNCHANGED <<shutdown, known, queue, pc, cur, chan, req>>

signal_shutdown(s) ==
  /\ phase[s] \in {"serving", "closing"} /\ ~shutdown[s]
  /\ shutdown' = [shutdown EXCEPT ![s] = TRUE]
  /\ UNCHANGED <<phase, known, queue, pc, cur, chan, req, faults>>

\* start_socket_server returns when it sees do_shutdown, or when select fails.
\* free_socket_server, which follows, closes the listening sockets, which
\* resets what was not accepted, and calls thpool_destroy.  The program calls
\* it when no call of socket_server_send is in progress.
free_socket_server(s) ==
  /\ phase[s] = "serving"
  /\ \A e \in EndsOf(s) : pc[e] # "connected"
  /\ \/ shutdown[s] /\ UNCHANGED faults
     \/ Fault
  /\ phase' = [phase EXCEPT ![s] = "closing"]
  /\ pc' = [e \in Ends |-> IF e \in EndsOf(s) /\ pc[e] = "backlog" THEN "reset" ELSE pc[e]]
  /\ UNCHANGED <<shutdown, known, queue, cur, chan, req>>

\* Mutant: free_socket_server does not wait for the pool's tasks.
DestroyReturns_AtOnce(s) ==
  /\ phase[s] = "closing"
  /\ phase' = [phase EXCEPT ![s] = "freed"]
  /\ pc' = [e \in Ends |-> IF e \in EndsOf(s) /\ pc[e] = "queued" THEN "dropped" ELSE pc[e]]
  /\ queue' = [queue EXCEPT ![s] = <<>>]
  /\ known' = [known EXCEPT ![s] = {}]
  /\ UNCHANGED <<shutdown, cur, chan, req, faults>>

\* thpool_destroy returns when no task runs; the queued ones are discarded,
\* their sockets with them.  Then the peer store is freed.
DestroyReturns(s) ==
  /\ phase[s] = "closing" /\ Active(s) = {}
  /\ phase' = [phase EXCEPT ![s] = "freed"]
  /\ pc' = [e \in Ends |-> IF e \in EndsOf(s) /\ pc[e] = "queued" THEN "dropped" ELSE pc[e]]
  /\ queue' = [queue EXCEPT ![s] = <<>>]
  /\ known' = [known EXCEPT ![s] = {}]
  /\ UNCHANGED <<shutdown, cur, chan, req, faults>>

(* -------------------------- making connections ------------------------- *)

\* thpool_add_work for end e; when it fails nobody notices.
AddWork(e) ==
  LET s == Owner(e)
  IN  \/ /\ queue' = [queue EXCEPT ![s] = Append(@, e)]
         /\ pc' = [pc EXCEPT ![e] = "queued"]
         /\ UNCHANGED faults
      \/ /\ Fault
         /\ pc' = [pc EXCEPT ![e] = "dropped"]
         /\ UNCHANGED queue

\* socket_server_send up to new_socket_client: the connection is in the
\* backlog of a server that listens.
Connect(c) ==
  LET out == <<c, "out">>
  IN  /\ pc[out] = "none" /\ phase[From[c]] = "serving" /\ phase[To[c]] = "serving"
      /\ pc' = [pc EXCEPT ![out] = "connected", ![Other(out)] = "backlog"]
      /\ UNCHANGED <<phase, shutdown, known, queue, cur, chan, req, faults>>

\* An allocation fails: socket_server_send closes the connection.
ConnectFails(c) ==
  /\ pc[<<c, "out">>] = "connected" /\ Fault
  /\ pc' = [pc EXCEPT ![<<c, "out">>] = "reset"]
  /\ UNCHANGED <<phase, shutdown, known, queue, cur, chan, req>>

\* handle_send: m arrives at end e when it is open, or is sent for nothing.
\* send_int_tcp sends nothing any more when do_shutdown is set.
Send(e, m) == chan' = IF IsOpen(e) THEN [chan EXCEPT ![e] = Append(@, m)] ELSE chan

\* The rest of it: the message is sent, whether or not that works, and a task
\* will read the answers.
socket_server_send(c, m) ==
  /\ pc[<<c, "out">>] = "connected"
  /\ IF shutdown[From[c]] THEN UNCHANGED <<req, chan>>
     ELSE req' = [req EXCEPT ![c] = m] /\ Send(<<c, "in">>, m)
  /\ AddWork(<<c, "out">>)
  /\ UNCHANGED <<phase, shutdown, known, cur>>

\* start_socket_server accepts a connection and adds a task for it.
Accept(c) ==
  /\ pc[<<c, "in">>] = "backlog" /\ phase[To[c]] = "serving"
  /\ AddWork(<<c, "in">>)
  /\ UNCHANGED <<phase, shutdown, known, cur, chan, req>>

\* Allocations that fail: without conn_handle_data_t the socket is closed,
\* without client_conn_t it is forgotten.
AcceptFails(c) ==
  /\ pc[<<c, "in">>] = "backlog" /\ phase[To[c]] = "serving"
  /\ Fault
  /\ \E how \in {"reset", "dropped"} : pc' = [pc EXCEPT ![<<c, "in">>] = how]
  /\ UNCHANGED <<phase, shutdown, known, queue, cur, chan, req>>

(* ------------------------- handle_inbound_rpc -------------------------- *)

\* A thread of the pool takes the next task.  A thread that is on its way to
\* the queue does so also when the pool is being destroyed.
TaskStart(s) ==
  /\ queue[s] # <<>> /\ Cardinality(Active(s)) < NumThreads
  /\ queue' = [queue EXCEPT ![s] = Tail(@)]
  /\ pc' = [pc EXCEPT ![Head(queue[s])] = "loop"]
  /\ UNCHANGED <<phase, shutdown, known, cur, chan, req, faults>>

Goto(e, l) == pc' = [pc EXCEPT ![e] = l]

\* RETURN: the socket is closed; what was not read is lost.
Return(e) ==
  /\ Goto(e, "closed")
  /\ chan' = [chan EXCEPT ![e] = <<>>]
  /\ cur' = [cur EXCEPT ![e] = None]
  /\ UNCHANGED <<phase, shutdown, known, queue, req>>

\* Mutant: do_shutdown is not tested.
LoopTest_Never(e) ==
  /\ pc[e] = "loop"
  /\ Goto(e, "recv")
  /\ UNCHANGED <<phase, shutdown, known, queue, cur, chan, req, faults>>

\* do_shutdown is tested before each message, and again by receive_int_tcp.
LoopTest(e) ==
  /\ pc[e] = "loop"
  /\ \/ shutdown[Owner(e)] /\ Return(e) /\ UNCHANGED faults
     \/ /\ ~shutdown[Owner(e)]
        /\ Goto(e, "recv")
        /\ UNCHANGED <<phase, shutdown, known, queue, cur, chan, req, faults>>

\* Where the switch on the type of a message leads.
Handler(m) == IF m \in {"INT", "FIN"} THEN "have" ELSE IF m = "START" THEN "begin" ELSE "loop"

\* handle_receive returns the next message; others that have arrived may be
\* read, and thrown away, with it.
Receive(e) ==
  /\ pc[e] = "recv"
  /\ \E n \in 1 .. Len(chan[e]) :
       /\ cur' = [cur EXCEPT ![e] = IF Handler(Head(chan[e])) = "loop" THEN None ELSE Head(chan[e])]
       /\ chan' = [chan EXCEPT ![e] = SubSeq(@, n + 1, Len(@))]
       /\ Goto(e, Handler(Head(chan[e])))
  /\ UNCHANGED <<phase, shutdown, known, queue, req, faults>>

\* It returns NULL: the message arrived in pieces or memory ran out.
ReceiveFails(e) ==
  /\ pc[e] = "recv" /\ chan[e] # <<>>
  /\ Fault /\ Return(e)

\* Accepted sockets have the listening socket's receive timeout, the sockets
\* of socket_server_send have none.  receive_int_tcp tries again.
Timeout(e) ==
  /\ pc[e] = "recv" /\ chan[e] = <<>> /\ IsOpen(Other(e))
  /\ RecvTimeout /\ e[2] = "in"
  /\ Goto(e, "loop")
  /\ UNCHANGED <<phase, shutdown, known, queue, cur, chan, req, faults>>

\* The other end was closed: NULL, or another try when a stale errno asks for
\* one (Framing).
PeerClosed(e) ==
  /\ pc[e] = "recv" /\ chan[e] = <<>> /\ ~IsOpen(Other(e))
  /\ \/ Return(e) /\ UNCHANGED faults
     \/ /\ Goto(e, "loop")
        /\ UNCHANGED <<phase, shutdown, known, queue, cur, chan, req, faults>>

(* ------------------------ handle_hello_protocol ------------------------ *)

\* The peer is the server at the other end, whose id and key the message has.
Peer(e) == Owner(Other(e))

\* peerstore_insert_peer up to peerstore_have_peer: false ends the task, also
\* when it means that the peer is known.
HelloHave(e) ==
  /\ pc[e] = "have"
  /\ LET s == Owner(e)
     IN  IF Cardinality(known[s]) = MaxPeers \/ Peer(e) \in known[s]
         THEN Return(e) /\ UNCHANGED faults
         ELSE /\ Goto(e, "store")
              /\ UNCHANGED <<phase, shutdown, known, queue, cur, chan, req, faults>>

\* HELLO_FIN is not answered.
AfterStore(e) ==
  IF cur[e] = "INT" THEN Goto(e, "reply") /\ UNCHANGED cur
  ELSE Goto(e, "loop") /\ cur' = [cur EXCEPT ![e] = None]

\* Mutant: the answer is sent although nothing was stored.
HelloStore_Skipped(e) ==
  /\ pc[e] = "store"
  /\ AfterStore(e)
  /\ UNCHANGED <<phase, shutdown, known, queue, chan, req, faults>>

\* The peer is stored.
HelloStore(e) ==
  /\ pc[e] = "store"
  /\ known' = [known EXCEPT ![Owner(e)] = @ \cup {Peer(e)}]
  /\ AfterStore(e)
  /\ UNCHANGED <<phase, shutdown, queue, chan, req, faults>>

\* handle_send of the answer m: HELLO_FIN, or BEGIN_ECDH from
\* negotiate_secure_connection.
SendAnswer(e, at, m) ==
  /\ pc[e] = at /\ ~shutdown[Owner(e)]
  /\ Send(Other(e), m)
  /\ Goto(e, "loop")
  /\ cur' = [cur EXCEPT ![e] = None]
  /\ UNCHANGED <<phase, shutdown, known, queue, req, faults>>

\* Mutant: HELLO_INT is not answered.
HelloReply_Silent(e) ==
  /\ pc[e] = "reply"
  /\ Goto(e, "loop")
  /\ cur' = [cur EXCEPT ![e] = None]
  /\ UNCHANGED <<phase, shutdown, known, queue, chan, req, faults>>

HelloReply(e) == SendAnswer(e, "reply", "FIN")

negotiate_secure_connection(e) == SendAnswer(e, "begin", "BEGIN")

\* Decoding, storing or answering fails.
HandlerFails(e) ==
  /\ pc[e] \in {"have", "store", "reply", "begin"}
  /\ Fault /\ Return(e)

\* do_shutdown is set, or the other end is closed and send reports it.
SendFails(e) ==
  /\ pc[e] \in {"reply", "begin"}
  /\ shutdown[Owner(e)] \/ ~IsOpen(Other(e))
  /\ Return(e) /\ UNCHANGED faults

\* The second send of a message, to an end that was closed and has said so
\* since the first, raises SIGPIPE.  Nothing ignores or handles that signal:
\* it ends the process, and all its sockets are closed.
SendKills(e) ==
  LET s == Owner(e)
  IN  /\ pc[e] \in {"connected", "reply", "begin"}
      /\ ~shutdown[s] /\ ~IsOpen(Other(e))
      /\ phase' = [phase EXCEPT ![s] = "killed"]
      /\ known' = [known EXCEPT ![s] = {}]
      /\ queue' = [queue EXCEPT ![s] = <<>>]
      /\ pc' = [x \in Ends |-> IF x \in EndsOf(s) THEN "closed" ELSE pc[x]]
      /\ cur' = [x \in Ends |-> IF x \in EndsOf(s) THEN None ELSE cur[x]]
      /\ chan' = [x \in Ends |-> IF x \in EndsOf(s) THEN <<>> ELSE chan[x]]
      /\ UNCHANGED <<shutdown, req, faults>>

\* Every server has ended.
Finished == (\A s \in Hosts : phase[s] \in {"freed", "failed", "killed"}) /\ UNCHANGED vars
-----------------------------------------------------------------------------
Task(e) ==
  \/ LoopTest(e) \/ Receive(e) \/ Timeout(e) \/ PeerClosed(e)
  \/ HelloHave(e) \/ HelloStore(e) \/ HelloReply(e)
  \/ negotiate_secure_connection(e) \/ SendFails(e)

Stop(s) == free_socket_server(s) \/ DestroyReturns(s)

Next ==
  \/ \E s \in Hosts : new_socket_server(s) \/ signal_shutdown(s) \/ Stop(s) \/ TaskStart(s)
  \/ \E c \in Conns : \/ Connect(c) \/ ConnectFails(c) \/ Accept(c) \/ AcceptFails(c)
                      \/ \E m \in Requests[c] : socket_server_send(c, m)
  \/ \E e \in Ends : Task(e) \/ ReceiveFails(e) \/ HandlerFails(e) \/ SendKills(e)
  \/ Finished

\* Threads are scheduled, the pool starts tasks (JobPool), the accept loop
\* gets round to every waiting connection, and a call of socket_server_send
\* or free_socket_server that was begun goes on.
Fairness ==
  /\ \A e \in Ends : WF_vars(Task(e))
  /\ \A s \in Hosts : WF_vars(phase[s] = "serving" /\ TaskStart(s))
                       /\ WF_vars(shutdown[s] /\ free_socket_server(s)) /\ WF_vars(DestroyReturns(s))
  /\ \A c \in Conns : WF_vars(Accept(c)) /\ WF_vars(\E m \in Requests[c] : socket_server_send(c, m))

Spec == Init /\ [][Next]_vars
FairSpec == Spec /\ Fairness
-----------------------------------------------------------------------------
TypeOK ==
  /\ phase \in [Hosts -> {"down", "failed", "serving", "closing", "freed", "killed"}]
  /\ shutdown \in [Hosts -> BOOLEAN]
  /\ known \in [Hosts -> SUBSET Hosts]
  /\ queue \in [Hosts -> Seq(Ends)]
  /\ pc \in [Ends -> EndPC]
  /\ cur \in [Ends -> Messages \cup {None}]
  /\ chan \in [Ends -> Seq(Messages)]
  /\ req \in [Conns -> Messages \cup {None}]
  /\ faults \in Nat

InRange(q) == {q[i] : i \in DOMAIN q}

\* HELLO_FIN is a receipt (handle_hello_protocol): whoever has one under way
\* or in hand is in the peer store of the server that sent it, unless that
\* server has been freed, or its process has ended, since.
FinMeansStored ==
  \A e \in Ends :
    "FIN" \in InRange(chan[e]) \cup {cur[e]} =>
      Owner(e) \in known[Peer(e)] \/ phase[Peer(e)] \in {"freed", "killed"}

\* A server uses memory that free_socket_server has freed in no task: when
\* it is freed no task runs, none is queued and none will be.
NoTaskAfterFree ==
  \A s \in Hosts : phase[s] = "freed" =>
    Active(s) = {} /\ queue[s] = <<>> /\ \A e \in EndsOf(s) : pc[e] # "connected"

\* Something has happened that the hello exchange does not survive: a fault,
\* a server on its way out, a full peer store, or more connection ends at a
\* server than its pool has threads.
Disturbed ==
  \/ faults < MaxFault
  \/ \E s \in Hosts : \/ phase[s] # "serving" \/ shutdown[s]
                      \/ Cardinality(known[s]) >= MaxPeers
                      \/ Cardinality({e \in EndsOf(s) : pc[e] # "none"}) > NumThreads

\* A HELLO_INT sent by socket_server_send makes both servers known to each
\* other, also when both send one at the same time.
HelloCompletes ==
  \A c \in Conns :
    req[c] = "INT" ~> \/ From[c] \in known[To[c]] /\ To[c] \in known[From[c]]
                      \/ Disturbed

\* A task that socket_server_send has started waits for a peer that neither
\* sends nor closes: its socket has no receive timeout.
WaitsForPeer(s) ==
  \E c \in Conns :
    From[c] = s /\ pc[<<c, "out">>] = "recv" /\ chan[<<c, "out">>] = <<>> /\ IsOpen(<<c, "in">>)

\* A server that is told to shut down gets through free_socket_server, unless
\* a task that waits for a peer holds it up for good: no accepted connection
\* can, and none of its tasks can because it waits for another one.
ShutdownCompletes ==
  \A s \in Hosts : (shutdown[s] ~> phase[s] \in {"freed", "killed"}) \/ <>[]WaitsForPeer(s)

\* When all servers are told to shut down, every free_socket_server returns.
AllShutDown ==
  (\A s \in Hosts : shutdown[s]) ~> (\A s \in Hosts : phase[s] \in {"freed", "killed"})
====
