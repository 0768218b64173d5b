----------------------------- MODULE ServersProof -----------------------------
(***************************************************************************)
(* Theorems about Servers, for any number of servers, connections, threads *)
(* and faults.                                                             *)
(***************************************************************************)
EXTENDS Servers, TLAPS

\* The queue of a pool holds ends of its own server, each once, and exactly
\* marked so.
QueueInv ==
  \A s \in Hosts :
    /\ \A i \in DOMAIN queue[s] : queue[s][i] \in EndsOf(s) /\ pc[queue[s][i]] = "queued"
    /\ \A i, j \in DOMAIN queue[s] : queue[s][i] = queue[s][j] => i = j

\* socket_server_send is called on a server that serves; what is not yet
\* connected has no task.
ConnInv ==
  /\ \A e \in Ends : pc[e] = "connected" => phase[Owner(e)] = "serving"
  /\ \A c \in Conns : pc[<<c, "out">>] = "none" => pc[<<c, "in">>] \in {"none", "closed"}

\* A task that is about to answer HELLO_INT has stored the peer.
ReplyInv == \A e \in Ends : pc[e] = "reply" => Peer(e) \in known[Owner(e)]

TaskInv == TypeOK /\ QueueInv /\ ConnInv /\ ReplyInv /\ NoTaskAfterFree
-----------------------------------------------------------------------------
LEMMA EndFacts ==
  /\ \A e \in Ends : /\ Other(e) \in Ends /\ Other(Other(e)) = e
                     /\ Owner(e) \in Hosts /\ Peer(e) \in Hosts
                     /\ Peer(Other(e)) = Owner(e) /\ Owner(Other(e)) = Peer(e)
  /\ \A c \in Conns : /\ <<c, "out">> \in Ends /\ <<c, "in">> \in Ends
                      /\ <<c, "out">> # <<c, "in">>
                      /\ Other(<<c, "out">>) = <<c, "in">>
                      /\ Owner(<<c, "out">>) = From[c] /\ Owner(<<c, "in">>) = To[c]
<1>1. \A e \in Ends : \E c \in Conns : e = <<c, "out">> \/ e = <<c, "in">>
  BY DEF Ends
<1>2. \A c \in Conns : /\ <<c, "out">> \in Ends /\ <<c, "in">> \in Ends
                       /\ <<c, "out">> # <<c, "in">>
                       /\ Other(<<c, "out">>) = <<c, "in">>
                       /\ Other(<<c, "in">>) = <<c, "out">>
                       /\ Owner(<<c, "out">>) = From[c] /\ Owner(<<c, "in">>) = To[c]
                       /\ From[c] \in Hosts /\ To[c] \in Hosts
  BY ServersAssumption DEF Ends, Other, Owner
<1>3. \A e \in Ends : /\ Other(e) \in Ends /\ Other(Other(e)) = e
                      /\ Owner(e) \in Hosts /\ Owner(Other(e)) \in Hosts
  <2> SUFFICES ASSUME NEW e \in Ends
               PROVE  /\ Other(e) \in Ends /\ Other(Other(e)) = e
                      /\ Owner(e) \in Hosts /\ Owner(Other(e)) \in Hosts
    OBVIOUS
  <2>1. PICK c \in Conns : e = <<c, "out">> \/ e = <<c, "in">>
    BY <1>1
  <2> QED
    BY Zenon, <1>2, <2>1
<1> QED
  BY <1>2, <1>3 DEF Peer

\* What reading and writing do to the messages under way.
LEMMA Unread ==
  ASSUME NEW q \in Seq(Messages), NEW n \in 1 .. Len(q)
  PROVE  /\ SubSeq(q, n + 1, Len(q)) \in Seq(Messages)
         /\ InRange(SubSeq(q, n + 1, Len(q))) \subseteq InRange(q)
         /\ Head(q) \in Messages /\ Head(q) \in InRange(q)
<1>1. Len(q) \in Nat /\ \A i \in 1 .. Len(q) : q[i] \in Messages
  OBVIOUS
<1>2. SubSeq(q, n + 1, Len(q)) \in Seq(Messages)
  BY <1>1
<1>3. InRange(SubSeq(q, n + 1, Len(q))) \subseteq InRange(q)
  BY <1>1 DEF InRange
<1>4. Head(q) = q[1] /\ 1 \in DOMAIN q
  BY <1>1
<1> QED
  BY <1>1, <1>2, <1>3, <1>4 DEF InRange

LEMMA Written ==
  ASSUME NEW q \in Seq(Messages), NEW m \in Messages
  PROVE  Append(q, m) \in Seq(Messages) /\ InRange(Append(q, m)) \subseteq InRange(q) \cup {m}
<1>1. Append(q, m) \in Seq(Messages) /\ Len(Append(q, m)) = Len(q) + 1 /\ Len(q) \in Nat
  OBVIOUS
<1>2. \A i \in 1 .. Len(q) + 1 : \/ i \in 1 .. Len(q) /\ Append(q, m)[i] = q[i]
                                \/ Append(q, m)[i] = m
  OBVIOUS
<1> QED
  BY <1>1, <1>2 DEF InRange

LEMMA InitTaskInv == Init => TaskInv /\ FinMeansStored
<1> SUFFICES ASSUME Init PROVE TaskInv /\ FinMeansStored
  OBVIOUS
<1> USE DEF Init
<1>1. TypeOK
  BY ServersAssumption DEF TypeOK, EndPC, ShutPC, Messages
<1>2. QueueInv /\ ReplyInv
  BY EndFacts DEF QueueInv, ReplyInv
<1>3. ConnInv
  BY EndFacts DEF ConnInv
<1>4. NoTaskAfterFree
  BY EndFacts DEF NoTaskAfterFree, EndsOf
<1>5. FinMeansStored
  BY ServersAssumption, EndFacts DEF FinMeansStored, InRange
<1> QED
  BY <1>1, <1>2, <1>3, <1>4, <1>5 DEF TaskInv
-----------------------------------------------------------------------------
\* What a step of the task of end e does.
TaskEffect(e) ==
  /\ pc[e] \in ActivePC
  /\ \E l \in ActivePC \cup {"closed"} :
       pc' = [pc EXCEPT ![e] = l] /\ (l = "reply" => Peer(e) \in known'[Owner(e)])
  /\ UNCHANGED <<phase, shutdown, queue, req>>
  /\ known' \in [Hosts -> SUBSET Hosts] /\ \A s \in Hosts : known[s] \subseteq known'[s]
  /\ cur' \in [Ends -> Messages \cup {None}]
  /\ chan' \in [Ends -> Seq(Messages)]
  /\ faults' \in Nat

\* No HELLO_FIN comes into being unless the peer is stored.
FinEffect ==
  \A x \in Ends : "FIN" \in InRange(chan'[x]) \cup {cur'[x]} =>
    "FIN" \in InRange(chan[x]) \cup {cur[x]} \/ Owner(x) \in known'[Peer(x)]

\* Servers keep what they know as long as they are not freed or killed.
LEMMA FinKept ==
  ASSUME TypeOK, FinMeansStored, FinEffect,
         \A s \in Hosts : \/ phase'[s] \in {"freed", "killed"}
                          \/ known[s] \subseteq known'[s] /\ phase[s] \notin {"freed", "killed"}
  PROVE  FinMeansStored'
  BY EndFacts DEF FinMeansStored, FinEffect

LEMMA TaskKeeps ==
  ASSUME NEW e \in Ends, TaskInv, TaskEffect(e)
  PROVE  TaskInv'
<1>1. TypeOK /\ QueueInv /\ ConnInv /\ ReplyInv /\ NoTaskAfterFree
  BY DEF TaskInv
<1>2. PICK l \in ActivePC \cup {"closed"} :
        pc' = [pc EXCEPT ![e] = l] /\ (l = "reply" => Peer(e) \in known'[Owner(e)])
  BY Zenon DEF TaskEffect
<1>3. /\ pc[e] \in ActivePC /\ l \notin {"connected", "queued", "none"}
      /\ phase' = phase /\ queue' = queue /\ \A s \in Hosts : known[s] \subseteq known'[s]
  BY DEF TaskEffect, ActivePC
<1>4. TypeOK'
  BY <1>1, <1>2 DEF TaskEffect, TypeOK, EndPC, ActivePC, ShutPC
<1>5. QueueInv'
  BY <1>1, <1>2, <1>3 DEF TypeOK, QueueInv, EndsOf, ActivePC
<1>6. ConnInv'
  <2>1. \A x \in Ends : pc'[x] = "connected" => phase'[Owner(x)] = "serving"
    BY <1>1, <1>2, <1>3 DEF TypeOK, ConnInv
  <2>2. \A c \in Conns : pc'[<<c, "out">>] = "none" => pc'[<<c, "in">>] \in {"none", "closed"}
    BY <1>1, <1>2, <1>3, EndFacts DEF TypeOK, ConnInv, ActivePC
  <2> QED
    BY <2>1, <2>2 DEF ConnInv
<1>7. ReplyInv'
  BY <1>1, <1>2, <1>3, EndFacts DEF TypeOK, ReplyInv
<1>8. NoTaskAfterFree'
  <2>1. phase[Owner(e)] # "freed"
    BY <1>1, <1>3, EndFacts DEF NoTaskAfterFree, Active, EndsOf
  <2> QED
    BY <1>1, <1>2, <1>3, <2>1 DEF TypeOK, NoTaskAfterFree, Active, EndsOf
<1> QED
  BY <1>4, <1>5, <1>6, <1>7, <1>8 DEF TaskInv
-----------------------------------------------------------------------------
\* RETURN ends a task.
LEMMA Returns ==
  ASSUME NEW e \in Ends, TypeOK, pc[e] \in ActivePC, Return(e), UNCHANGED faults \/ Fault
  PROVE  TaskEffect(e) /\ FinEffect
<1>1. faults' \in Nat
  BY DEF TypeOK, Fault
<1>2. /\ chan' = [chan EXCEPT ![e] = <<>>] /\ cur' = [cur EXCEPT ![e] = None]
      /\ pc' = [pc EXCEPT ![e] = "closed"]
      /\ UNCHANGED <<phase, shutdown, known, queue, req>>
  BY DEF Return, Goto
<1>3. TaskEffect(e)
  <2>1. chan' \in [Ends -> Seq(Messages)] /\ cur' \in [Ends -> Messages \cup {None}]
    BY <1>2 DEF TypeOK
  <2>2. \E l \in ActivePC \cup {"closed"} :
          pc' = [pc EXCEPT ![e] = l] /\ (l = "reply" => Peer(e) \in known'[Owner(e)])
    <3>1. "closed" \in ActivePC \cup {"closed"}
      BY DEF ActivePC
    <3> WITNESS "closed" \in ActivePC \cup {"closed"}
    <3> QED
      BY <1>2
  <2>3. known' \in [Hosts -> SUBSET Hosts] /\ \A s \in Hosts : known[s] \subseteq known'[s]
    BY <1>2 DEF TypeOK
  <2> QED
    BY Zenon, <1>1, <1>2, <2>1, <2>2, <2>3 DEF TaskEffect
<1>4. FinEffect
  BY <1>2, ServersAssumption DEF FinEffect, TypeOK, InRange
<1> QED
  BY <1>3, <1>4

\* A message is sent, or not because the other end is closed.
LEMMA Sends ==
  ASSUME TypeOK, NEW x \in Ends, NEW m \in Messages, Send(x, m)
  PROVE  /\ chan' \in [Ends -> Seq(Messages)]
         /\ \A y \in Ends : \/ InRange(chan'[y]) \subseteq InRange(chan[y])
                            \/ y = x /\ InRange(chan'[y]) \subseteq InRange(chan[y]) \cup {m}
<1>1. Append(chan[x], m) \in Seq(Messages)
      /\ InRange(Append(chan[x], m)) \subseteq InRange(chan[x]) \cup {m}
  BY Written DEF TypeOK
<1>2. CASE IsOpen(x)
  BY <1>1, <1>2 DEF Send, TypeOK
<1>3. CASE ~IsOpen(x)
  BY <1>3 DEF Send, TypeOK
<1> QED
  BY Zenon, <1>2, <1>3

LEMMA Answers ==
  ASSUME NEW e \in Ends, TypeOK, NEW m \in Messages, NEW at \in ActivePC, SendAnswer(e, at, m),
         m = "FIN" => Peer(e) \in known[Owner(e)]
  PROVE  TaskEffect(e) /\ FinEffect
<1>1. /\ pc' = [pc EXCEPT ![e] = "loop"] /\ cur' = [cur EXCEPT ![e] = None] /\ pc[e] \in ActivePC
      /\ UNCHANGED <<phase, shutdown, known, queue, req, faults>>
  BY DEF SendAnswer, Goto
<1>2. /\ chan' \in [Ends -> Seq(Messages)]
      /\ \A y \in Ends : \/ InRange(chan'[y]) \subseteq InRange(chan[y])
                         \/ y = Other(e) /\ InRange(chan'[y]) \subseteq InRange(chan[y]) \cup {m}
  BY Zenon, Sends, EndFacts DEF SendAnswer
<1>3. TaskEffect(e)
  <2>1. cur' \in [Ends -> Messages \cup {None}] /\ "loop" \in ActivePC
    BY <1>1 DEF TypeOK, ActivePC
  <2>2. \E l \in ActivePC \cup {"closed"} :
          pc' = [pc EXCEPT ![e] = l] /\ (l = "reply" => Peer(e) \in known'[Owner(e)])
    <3>1. "loop" \in ActivePC \cup {"closed"}
      BY DEF ActivePC
    <3> WITNESS "loop" \in ActivePC \cup {"closed"}
    <3> QED
      BY <1>1
  <2>3. /\ known' \in [Hosts -> SUBSET Hosts] /\ \A s \in Hosts : known[s] \subseteq known'[s]
        /\ faults' \in Nat
    BY <1>1 DEF TypeOK
  <2> QED
    BY Zenon, <1>1, <1>2, <2>1, <2>2, <2>3 DEF TaskEffect
<1>4. FinEffect
  <2> SUFFICES ASSUME NEW x \in Ends, "FIN" \in InRange(chan'[x]) \cup {cur'[x]}
               PROVE  "FIN" \in InRange(chan[x]) \cup {cur[x]} \/ Owner(x) \in known'[Peer(x)]
    BY DEF FinEffect
  <2>1. CASE "FIN" = cur'[x]
    BY <1>1, <2>1, ServersAssumption DEF TypeOK
  <2>2. CASE "FIN" \in InRange(chan'[x])
    BY Zenon, <1>1, <1>2, <2>2, EndFacts
  <2> QED
    BY <2>1, <2>2
<1> QED
  BY <1>3, <1>4

\* handle_receive hands a message to the task.
LEMMA Receives ==
  ASSUME NEW e \in Ends, TypeOK, Receive(e)
  PROVE  TaskEffect(e) /\ FinEffect
<1>1. PICK n \in 1 .. Len(chan[e]) :
        /\ cur' = [cur EXCEPT ![e] = IF Handler(Head(chan[e])) = "loop" THEN None ELSE Head(chan[e])]
        /\ chan' = [chan EXCEPT ![e] = SubSeq(@, n + 1, Len(@))]
        /\ pc' = [pc EXCEPT ![e] = Handler(Head(chan[e]))]
  BY Zenon DEF Receive, Goto
<1>2. pc[e] = "recv" /\ UNCHANGED <<phase, shutdown, known, queue, req, faults>>
  BY DEF Receive
<1>3. /\ chan[e] \in Seq(Messages) /\ SubSeq(chan[e], n + 1, Len(chan[e])) \in Seq(Messages)
      /\ InRange(SubSeq(chan[e], n + 1, Len(chan[e]))) \subseteq InRange(chan[e])
      /\ Head(chan[e]) \in Messages /\ Head(chan[e]) \in InRange(chan[e])
  BY Unread DEF TypeOK
<1>4. Handler(Head(chan[e])) \in ActivePC \ {"reply"}
  BY DEF Handler, ActivePC
<1>5. TaskEffect(e)
  BY Zenon, <1>1, <1>2, <1>3, <1>4 DEF TaskEffect, TypeOK, ActivePC
<1>6. FinEffect
  BY <1>1, <1>3, ServersAssumption DEF FinEffect, TypeOK
<1> QED
  BY <1>5, <1>6

\* The peer is looked up, and stored.
LEMMA Stores ==
  ASSUME NEW e \in Ends, TypeOK, HelloStore(e)
  PROVE  TaskEffect(e) /\ FinEffect
<1>1. /\ pc[e] = "store" /\ known' = [known EXCEPT ![Owner(e)] = @ \cup {Peer(e)}] /\ AfterStore(e)
      /\ UNCHANGED <<phase, shutdown, queue, chan, req, faults>>
  BY DEF HelloStore
<1>2. /\ known' \in [Hosts -> SUBSET Hosts] /\ \A s \in Hosts : known[s] \subseteq known'[s]
      /\ Peer(e) \in known'[Owner(e)]
  BY <1>1, EndFacts DEF TypeOK
<1>3. /\ \E l \in {"reply", "loop"} : pc' = [pc EXCEPT ![e] = l]
      /\ cur' = cur \/ cur' = [cur EXCEPT ![e] = None]
  BY <1>1 DEF AfterStore, Goto
<1>4. TaskEffect(e)
  BY Zenon, <1>1, <1>2, <1>3 DEF TaskEffect, TypeOK, ActivePC
<1>5. FinEffect
  BY <1>1, <1>3, ServersAssumption DEF FinEffect, TypeOK
<1> QED
  BY <1>4, <1>5

\* Steps that only move the task on.
LEMMA Moves ==
  ASSUME NEW e \in Ends, TypeOK, pc[e] \in ActivePC, NEW l \in ActivePC \ {"reply"}, Goto(e, l),
         UNCHANGED <<phase, shutdown, known, queue, cur, chan, req, faults>>
  PROVE  TaskEffect(e) /\ FinEffect
<1>1. TaskEffect(e)
  BY Zenon DEF TaskEffect, TypeOK, Goto
<1>2. FinEffect
  BY DEF FinEffect
<1> QED
  BY <1>1, <1>2

LEMMA TaskSteps ==
  ASSUME NEW e \in Ends, TaskInv, Task(e) \/ ReceiveFails(e) \/ HandlerFails(e)
  PROVE  TaskEffect(e) /\ FinEffect
<1>1. TypeOK /\ ReplyInv
  BY DEF TaskInv
<1>2. CASE LoopTest(e)
  BY <1>1, <1>2, Returns, Moves DEF LoopTest, ActivePC
<1>3. CASE Receive(e)
  BY <1>1, <1>3, Receives
<1>4. CASE Timeout(e)
  BY <1>1, <1>4, Moves DEF Timeout, ActivePC
<1>5. CASE PeerClosed(e)
  BY <1>1, <1>5, Returns, Moves DEF PeerClosed, ActivePC
<1>6. CASE HelloHave(e)
  BY <1>1, <1>6, Returns, Moves DEF HelloHave, ActivePC
<1>7. CASE HelloStore(e)
  BY <1>1, <1>7, Stores
<1>8. CASE HelloReply(e)
  <2>1. Peer(e) \in known[Owner(e)] /\ "FIN" \in Messages /\ "reply" \in ActivePC
    BY <1>1, <1>8 DEF HelloReply, SendAnswer, ReplyInv, Messages, ActivePC
  <2> QED
    BY <1>1, <1>8, <2>1, Answers DEF HelloReply
<1>9. CASE negotiate_secure_connection(e)
  <2>1. "BEGIN" # "FIN" /\ "BEGIN" \in Messages /\ "begin" \in ActivePC
    BY DEF Messages, ActivePC
  <2> QED
    BY <1>1, <1>9, <2>1, Answers DEF negotiate_secure_connection
<1>10. CASE SendFails(e) \/ ReceiveFails(e) \/ HandlerFails(e)
  BY <1>1, <1>10, Returns DEF SendFails, ReceiveFails, HandlerFails, ActivePC
<1> QED
  BY <1>2, <1>3, <1>4, <1>5, <1>6, <1>7, <1>8, <1>9, <1>10 DEF Task
-----------------------------------------------------------------------------
\* thpool_add_work on a server that serves, for an end that is not a task.
LEMMA AddWorkKeeps ==
  ASSUME NEW e \in Ends, TaskInv, pc[e] \in {"connected", "backlog"}, phase[Owner(e)] = "serving",
         AddWork(e), UNCHANGED <<phase, shutdown, known, cur>>,
         chan' \in [Ends -> Seq(Messages)], req' \in [Conns -> Messages \cup {None}]
  PROVE  TaskInv'
<1>1. TypeOK /\ QueueInv /\ ConnInv /\ ReplyInv /\ NoTaskAfterFree
  BY DEF TaskInv
<1>s. Owner(e) \in Hosts /\ e \in EndsOf(Owner(e)) /\ queue[Owner(e)] \in Seq(Ends)
  BY <1>1, EndFacts DEF TypeOK, EndsOf
<1>2. /\ faults' \in Nat /\ queue' \in [Hosts -> Seq(Ends)]
      /\ \A s \in Hosts : \/ queue'[s] = queue[s]
                          \/ s = Owner(e) /\ queue'[s] = Append(queue[s], e) /\ pc'[e] = "queued"
  <2>1. CASE /\ queue' = [queue EXCEPT ![Owner(e)] = Append(@, e)]
             /\ pc' = [pc EXCEPT ![e] = "queued"] /\ UNCHANGED faults
    <3>1. Append(queue[Owner(e)], e) \in Seq(Ends)
      BY <1>s
    <3>2. faults' \in Nat /\ queue' \in [Hosts -> Seq(Ends)] /\ pc'[e] = "queued"
      BY <1>1, <1>s, <2>1, <3>1 DEF TypeOK
    <3>3. \A s \in Hosts : queue'[s] = IF s = Owner(e) THEN Append(queue[s], e) ELSE queue[s]
      BY <1>1, <1>s, <2>1 DEF TypeOK
    <3> QED
      BY <3>2, <3>3
  <2>2. CASE Fault /\ pc' = [pc EXCEPT ![e] = "dropped"] /\ UNCHANGED queue
    <3>1. faults' \in Nat
      BY <1>1, <2>2 DEF TypeOK, Fault
    <3>2. queue' \in [Hosts -> Seq(Ends)]
      BY <1>1, <2>2 DEF TypeOK
    <3> QED
      BY <2>2, <3>1, <3>2
  <2> QED
    BY <2>1, <2>2 DEF AddWork
<1>3. /\ \A x \in Ends \ {e} : pc'[x] = pc[x]
      /\ pc' \in [Ends -> EndPC] /\ pc'[e] \in {"queued", "dropped"}
  BY Zenon, <1>1 DEF AddWork, TypeOK, EndPC
<1>4. TypeOK'
  BY <1>1, <1>2, <1>3 DEF TypeOK
<1>5. QueueInv'
  <2> SUFFICES ASSUME NEW s \in Hosts
               PROVE  /\ \A i \in DOMAIN queue'[s] :
                           queue'[s][i] \in EndsOf(s) /\ pc'[queue'[s][i]] = "queued"
                      /\ \A i, j \in DOMAIN queue'[s] : queue'[s][i] = queue'[s][j] => i = j
    BY DEF QueueInv, EndsOf
  <2>1. /\ queue[s] \in Seq(Ends) /\ EndsOf(s) \subseteq Ends
        /\ \A i \in DOMAIN queue[s] : /\ queue[s][i] \in EndsOf(s) /\ queue[s][i] # e
                                      /\ pc'[queue[s][i]] = "queued"
        /\ \A i, j \in DOMAIN queue[s] : queue[s][i] = queue[s][j] => i = j
    BY <1>1, <1>3 DEF TypeOK, QueueInv, EndsOf
  <2>2. CASE queue'[s] = queue[s]
    BY <2>1, <2>2
  <2>3. CASE s = Owner(e) /\ queue'[s] = Append(queue[s], e) /\ pc'[e] = "queued"
    BY <1>s, <2>1, <2>3
  <2> QED
    BY <1>2, <2>2, <2>3
<1>6. ConnInv'
  <2>1. \A x \in Ends : pc'[x] = "connected" => phase'[Owner(x)] = "serving"
    BY <1>1, <1>3 DEF ConnInv
  <2>2. \A c \in Conns : pc'[<<c, "out">>] = "none" => pc'[<<c, "in">>] \in {"none", "closed"}
    BY Zenon, <1>1, <1>3, EndFacts DEF ConnInv
  <2> QED
    BY <2>1, <2>2 DEF ConnInv
<1>7. ReplyInv'
  BY Zenon, <1>1, <1>3 DEF ReplyInv
<1>8. NoTaskAfterFree'
  <2> SUFFICES ASSUME NEW s \in Hosts, phase'[s] = "freed"
               PROVE  Active(s)' = {} /\ queue'[s] = <<>> /\ \A x \in EndsOf(s) : pc'[x] # "connected"
    BY DEF NoTaskAfterFree, EndsOf
  <2>1. s # Owner(e) /\ Active(s) = {} /\ queue[s] = <<>> /\ \A x \in EndsOf(s) : pc[x] # "connected"
    BY <1>1 DEF NoTaskAfterFree
  <2> QED
    BY Zenon, <1>2, <1>3, <2>1 DEF Active, EndsOf
<1> QED
  BY <1>4, <1>5, <1>6, <1>7, <1>8 DEF TaskInv

LEMMA ConnectSteps ==
  ASSUME NEW c \in Conns, TaskInv, Connect(c) \/ ConnectFails(c) \/ AcceptFails(c)
  PROVE  TaskInv'
<1>1. TypeOK /\ QueueInv /\ ConnInv /\ ReplyInv /\ NoTaskAfterFree
  BY DEF TaskInv
<1> DEFINE out == <<c, "out">>
           in == <<c, "in">>
<1>e. /\ out \in Ends /\ in \in Ends /\ out # in /\ Other(out) = in
      /\ Owner(out) = From[c] /\ Owner(in) = To[c]
  BY EndFacts
<1>2. UNCHANGED <<phase, shutdown, known, queue, cur, chan, req>> /\ faults' \in Nat
  <2>1. faults \in Nat /\ (faults' = faults \/ Fault)
    BY <1>1 DEF Connect, ConnectFails, AcceptFails, TypeOK
  <2>2. faults' \in Nat
    BY <2>1 DEF Fault
  <2> QED
    BY <2>2 DEF Connect, ConnectFails, AcceptFails
<1>3. /\ pc' \in [Ends -> EndPC] /\ \A x \in Ends \ {out, in} : pc'[x] = pc[x]
      /\ \/ /\ pc[out] = "none" /\ pc[in] \in {"none", "closed"} /\ phase[Owner(out)] = "serving"
            /\ pc'[out] = "connected" /\ pc'[in] = "backlog"
         \/ pc[out] = "connected" /\ pc'[out] = "reset" /\ pc'[in] = pc[in]
         \/ pc[in] = "backlog" /\ pc'[in] \in {"reset", "dropped"} /\ pc'[out] = pc[out]
  <2>1. CASE Connect(c)
    <3>1. /\ pc[out] = "none" /\ phase[Owner(out)] = "serving"
          /\ pc' = [pc EXCEPT ![out] = "connected", ![in] = "backlog"]
      BY Zenon, <1>e, <2>1 DEF Connect
    <3> HIDE DEF out, in
    <3>2. pc[in] \in {"none", "closed"}
      BY <1>1, <3>1 DEF ConnInv, out, in
    <3> QED
      BY Zenon, <1>1, <1>e, <3>1, <3>2 DEF TypeOK, EndPC
  <2>2. CASE ConnectFails(c)
    <3>1. pc[out] = "connected" /\ pc' = [pc EXCEPT ![out] = "reset"]
      BY <2>2 DEF ConnectFails
    <3> HIDE DEF out, in
    <3> QED
      BY <1>1, <1>e, <3>1 DEF TypeOK, EndPC, ShutPC
  <2>3. CASE AcceptFails(c)
    <3>1. pc[in] = "backlog" /\ \E how \in {"reset", "dropped"} : pc' = [pc EXCEPT ![in] = how]
      BY Zenon, <2>3 DEF AcceptFails
    <3> HIDE DEF out, in
    <3> QED
      BY <1>1, <1>e, <3>1 DEF TypeOK, EndPC, ShutPC
  <2> QED
    BY <2>1, <2>2, <2>3
<1>f. \A d \in Conns : d # c => <<d, "out">> \notin {out, in} /\ <<d, "in">> \notin {out, in}
  BY DEF Ends
<1> HIDE DEF out, in
<1>4. TypeOK'
  BY <1>1, <1>2, <1>3 DEF TypeOK
<1>5. QueueInv'
  BY <1>1, <1>2, <1>3 DEF QueueInv, EndsOf
<1>6. ConnInv'
  <2>1. \A x \in Ends : pc'[x] = "connected" => phase'[Owner(x)] = "serving"
    BY <1>1, <1>2, <1>3 DEF ConnInv
  <2>2. \A d \in Conns : pc'[<<d, "out">>] = "none" => pc'[<<d, "in">>] \in {"none", "closed"}
    <3> SUFFICES ASSUME NEW d \in Conns, pc'[<<d, "out">>] = "none"
                 PROVE  pc'[<<d, "in">>] \in {"none", "closed"}
      OBVIOUS
    <3>1. CASE d = c
      BY <1>1, <1>3, <3>1 DEF ConnInv, out, in
    <3>2. CASE d # c
      BY <1>1, <1>3, <1>f, <3>2, EndFacts DEF ConnInv
    <3> QED
      BY <3>1, <3>2
  <2> QED
    BY <2>1, <2>2 DEF ConnInv
<1>7. ReplyInv'
  BY <1>1, <1>2, <1>3 DEF ReplyInv
<1>8. NoTaskAfterFree'
  BY <1>1, <1>2, <1>3 DEF NoTaskAfterFree, Active, EndsOf, ActivePC
<1> QED
  BY <1>4, <1>5, <1>6, <1>7, <1>8 DEF TaskInv

LEMMA LifeSteps ==
  ASSUME NEW h \in Hosts, TaskInv, new_socket_server(h) \/ signal_shutdown(h)
  PROVE  TaskInv'
<1>1. TypeOK /\ QueueInv /\ ConnInv /\ ReplyInv /\ NoTaskAfterFree
  BY DEF TaskInv
<1>2. /\ UNCHANGED <<known, queue, pc, cur, chan, req>>
      /\ \A s \in Hosts : phase'[s] = phase[s] \/ (phase[s] = "down" /\ phase'[s] \in {"serving", "failed"})
  BY <1>1 DEF new_socket_server, signal_shutdown, TypeOK
<1>3. TypeOK'
  <2>1. phase' \in [Hosts -> {"down", "failed", "serving", "closing", "freed", "killed"}]
    BY Zenon, <1>1 DEF new_socket_server, signal_shutdown, TypeOK
  <2>2. shutdown' \in [Hosts -> BOOLEAN]
    BY Zenon, <1>1 DEF new_socket_server, signal_shutdown, TypeOK
  <2>3. faults' \in Nat
    BY <1>1 DEF new_socket_server, signal_shutdown, TypeOK, Fault
  <2> QED
    BY <1>1, <1>2, <2>1, <2>2, <2>3 DEF TypeOK
<1>4. QueueInv' /\ ReplyInv'
  BY <1>1, <1>2 DEF QueueInv, ReplyInv, EndsOf
<1>5. ConnInv'
  <2>1. \A e \in Ends : pc'[e] = "connected" => phase'[Owner(e)] = "serving"
    <3>1. \A e \in Ends : pc[e] = "connected" => phase[Owner(e)] = "serving" /\ Owner(e) \in Hosts
      BY <1>1, EndFacts DEF ConnInv
    <3>2. \A s \in Hosts : phase[s] = "serving" => phase'[s] = "serving"
      BY <1>2
    <3> QED
      BY <1>2, <3>1, <3>2
  <2>2. \A c \in Conns : pc[<<c, "out">>] = "none" => pc[<<c, "in">>] \in {"none", "closed"}
    BY <1>1 DEF ConnInv
  <2>3. pc' = pc
    BY <1>2
  <2> QED
    BY <2>1, <2>2, <2>3 DEF ConnInv
<1>6. NoTaskAfterFree'
  BY <1>1, <1>2 DEF NoTaskAfterFree, Active, EndsOf
<1> QED
  BY <1>3, <1>4, <1>5, <1>6 DEF TaskInv

LEMMA FreeStep ==
  ASSUME NEW h \in Hosts, TaskInv, free_socket_server(h)
  PROVE  TaskInv'
<1>1. TypeOK /\ QueueInv /\ ConnInv /\ ReplyInv /\ NoTaskAfterFree
  BY DEF TaskInv
<1>2. /\ UNCHANGED <<shutdown, known, queue, cur, chan, req>> /\ faults' \in Nat
      /\ phase' = [phase EXCEPT ![h] = "closing"]
      /\ \A e \in Ends : pc[e] = "connected" => Owner(e) # h
  BY <1>1 DEF free_socket_server, TypeOK, Fault, EndsOf
<1>3. /\ pc' \in [Ends -> EndPC]
      /\ \A e \in Ends : pc'[e] = pc[e] \/ (pc[e] = "backlog" /\ pc'[e] = "reset")
  BY <1>1 DEF free_socket_server, TypeOK, EndPC, ShutPC
<1>4. TypeOK'
  BY <1>1, <1>2, <1>3 DEF TypeOK
<1>5. QueueInv' /\ ReplyInv'
  <2>1. ReplyInv'
    BY <1>1, <1>2, <1>3 DEF ReplyInv
  <2>2. \A e \in Ends : pc[e] = "queued" => pc'[e] = "queued"
    BY <1>3
  <2>3. \A s \in Hosts : \A i \in DOMAIN queue[s] : pc'[queue[s][i]] = "queued"
    BY <1>1, <2>2 DEF QueueInv, EndsOf
  <2> QED
    BY <1>1, <1>2, <2>1, <2>3 DEF QueueInv, EndsOf
<1>6. ConnInv'
  <2>0. \A s \in Hosts : s # h => phase'[s] = phase[s]
    BY <1>1, <1>2 DEF TypeOK
  <2>1. \A e \in Ends : pc'[e] = "connected" => phase'[Owner(e)] = "serving"
    <3>1. \A e \in Ends : pc'[e] = "connected" => phase[Owner(e)] = "serving" /\ Owner(e) # h
      BY <1>1, <1>2, <1>3 DEF ConnInv
    <3> QED
      BY <2>0, <3>1, EndFacts
  <2>2. \A c \in Conns : pc'[<<c, "out">>] = "none" => pc'[<<c, "in">>] \in {"none", "closed"}
    BY <1>1, <1>3, EndFacts DEF ConnInv
  <2> QED
    BY <2>1, <2>2 DEF ConnInv
<1>7. NoTaskAfterFree'
  BY <1>1, <1>2, <1>3 DEF NoTaskAfterFree, Active, EndsOf, TypeOK, ActivePC
<1> QED
  BY <1>4, <1>5, <1>6, <1>7 DEF TaskInv

LEMMA DestroyStep ==
  ASSUME NEW h \in Hosts, TaskInv, DestroyReturns(h)
  PROVE  TaskInv'
<1>1. TypeOK /\ QueueInv /\ ConnInv /\ ReplyInv /\ NoTaskAfterFree
  BY DEF TaskInv
<1>2. /\ UNCHANGED <<shutdown, cur, chan, req, faults>> /\ phase[h] = "closing" /\ Active(h) = {}
      /\ phase' = [phase EXCEPT ![h] = "freed"]
      /\ queue' = [queue EXCEPT ![h] = <<>>] /\ known' = [known EXCEPT ![h] = {}]
      /\ \A e \in Ends : Owner(e) = h => pc[e] \notin ActivePC
  BY DEF DestroyReturns, Active, EndsOf
<1>3. /\ pc' \in [Ends -> EndPC]
      /\ \A e \in Ends : pc'[e] = pc[e] \/ (Owner(e) = h /\ pc[e] = "queued" /\ pc'[e] = "dropped")
  BY <1>1 DEF DestroyReturns, TypeOK, EndPC, EndsOf
<1>4. TypeOK'
  <2>1. queue' \in [Hosts -> Seq(Ends)] /\ known' \in [Hosts -> SUBSET Hosts]
    BY <1>1, <1>2 DEF TypeOK
  <2>2. phase' \in [Hosts -> {"down", "failed", "serving", "closing", "freed", "killed"}]
    BY <1>1, <1>2 DEF TypeOK
  <2> QED
    BY <1>1, <1>2, <1>3, <2>1, <2>2 DEF TypeOK
<1>5. QueueInv'
  <2> SUFFICES ASSUME NEW s \in Hosts
               PROVE  /\ \A i \in DOMAIN queue'[s] :
                           queue'[s][i] \in EndsOf(s) /\ pc'[queue'[s][i]] = "queued"
                      /\ \A i, j \in DOMAIN queue'[s] : queue'[s][i] = queue'[s][j] => i = j
    BY DEF QueueInv, EndsOf
  <2>1. CASE s = h
    BY <1>1, <1>2, <2>1 DEF TypeOK
  <2>2. CASE s # h
    BY <1>1, <1>2, <1>3, <2>2 DEF QueueInv, EndsOf, TypeOK
  <2> QED
    BY <2>1, <2>2
<1>0. \A s \in Hosts : s # h => phase'[s] = phase[s] /\ known'[s] = known[s]
  BY <1>1, <1>2 DEF TypeOK
<1>6. ConnInv'
  <2>1. \A e \in Ends : pc'[e] = "connected" => phase'[Owner(e)] = "serving"
    <3>1. \A e \in Ends : pc'[e] = "connected" => phase[Owner(e)] = "serving"
      BY <1>1, <1>3 DEF ConnInv
    <3> QED
      BY <1>0, <1>2, <3>1, EndFacts
  <2>2. \A c \in Conns : pc'[<<c, "out">>] = "none" => pc'[<<c, "in">>] \in {"none", "closed"}
    BY <1>1, <1>3, EndFacts DEF ConnInv
  <2> QED
    BY <2>1, <2>2 DEF ConnInv
<1>7. ReplyInv'
  <2>1. \A e \in Ends : pc'[e] = "reply" => Owner(e) # h /\ Peer(e) \in known[Owner(e)]
    BY <1>1, <1>2, <1>3 DEF ReplyInv, ActivePC
  <2> QED
    BY <1>0, <2>1, EndFacts DEF ReplyInv
<1>8. NoTaskAfterFree'
  <2> SUFFICES ASSUME NEW s \in Hosts, phase'[s] = "freed"
               PROVE  Active(s)' = {} /\ queue'[s] = <<>> /\ \A x \in EndsOf(s) : pc'[x] # "connected"
    BY DEF NoTaskAfterFree, EndsOf
  <2>1. CASE s = h
    BY Zenon, <1>1, <1>2, <1>3, <2>1 DEF Active, EndsOf, TypeOK, ActivePC, ConnInv
  <2>2. CASE s # h
    BY <1>1, <1>2, <1>3, <2>2 DEF NoTaskAfterFree, Active, EndsOf, TypeOK, ActivePC
  <2> QED
    BY <2>1, <2>2
<1> QED
  BY <1>4, <1>5, <1>6, <1>7, <1>8 DEF TaskInv

LEMMA TaskStartStep ==
  ASSUME NEW h \in Hosts, TaskInv, TaskStart(h)
  PROVE  TaskInv'
<1>1. TypeOK /\ QueueInv /\ ConnInv /\ ReplyInv /\ NoTaskAfterFree
  BY DEF TaskInv
<1> DEFINE q == queue[h]
           first == Head(queue[h])
<1>2. /\ UNCHANGED <<phase, shutdown, known, cur, chan, req, faults>> /\ q # <<>>
      /\ queue' = [queue EXCEPT ![h] = Tail(q)] /\ pc' = [pc EXCEPT ![first] = "loop"]
  BY DEF TaskStart
<1>3. /\ q \in Seq(Ends) /\ Tail(q) \in Seq(Ends) /\ first = q[1] /\ 1 \in DOMAIN q
      /\ \A i \in DOMAIN Tail(q) : i + 1 \in DOMAIN q /\ Tail(q)[i] = q[i + 1] /\ i \in Nat /\ i >= 1
  BY <1>1, <1>2 DEF TypeOK
<1>4. first \in Ends /\ Owner(first) = h /\ pc[first] = "queued" /\ phase[h] # "freed"
  BY <1>1, <1>2, <1>3 DEF QueueInv, EndsOf, NoTaskAfterFree
<1> HIDE DEF q, first
<1>5. pc' \in [Ends -> EndPC] /\ pc'[first] = "loop" /\ \A x \in Ends \ {first} : pc'[x] = pc[x]
  BY <1>1, <1>2, <1>4 DEF TypeOK, EndPC, ActivePC
<1>6. TypeOK'
  BY <1>1, <1>2, <1>3, <1>5 DEF TypeOK
<1>7. QueueInv'
  <2> SUFFICES ASSUME NEW s \in Hosts
               PROVE  /\ \A i \in DOMAIN queue'[s] :
                           queue'[s][i] \in EndsOf(s) /\ pc'[queue'[s][i]] = "queued"
                      /\ \A i, j \in DOMAIN queue'[s] : queue'[s][i] = queue'[s][j] => i = j
    BY DEF QueueInv, EndsOf
  <2>1. CASE s = h
    <3>1. queue'[s] = Tail(q)
      BY <1>1, <1>2, <2>1 DEF TypeOK
    <3>2. /\ \A i \in DOMAIN q : q[i] \in EndsOf(s) /\ pc[q[i]] = "queued" /\ q[i] \in Ends
          /\ \A i, j \in DOMAIN q : q[i] = q[j] => i = j
      BY <1>1, <2>1 DEF QueueInv, EndsOf, q
    <3>3. \A i \in DOMAIN Tail(q) : Tail(q)[i] # first
      BY <1>3, <3>2
    <3>4. \A i \in DOMAIN Tail(q) :
            Tail(q)[i] \in EndsOf(s) /\ pc[Tail(q)[i]] = "queued" /\ Tail(q)[i] \in Ends
      BY <1>3, <3>2
    <3>5. \A i, j \in DOMAIN Tail(q) : Tail(q)[i] = Tail(q)[j] => i = j
      BY <1>3, <3>2
    <3>6. \A i \in DOMAIN Tail(q) : pc'[Tail(q)[i]] = "queued"
      BY <1>5, <3>3, <3>4
    <3> QED
      BY Zenon, <3>1, <3>4, <3>5, <3>6
  <2>2. CASE s # h
    <3>1. queue'[s] = queue[s]
      BY <1>1, <1>2, <2>2 DEF TypeOK
    <3>2. \A i \in DOMAIN queue[s] : queue[s][i] # first /\ queue[s][i] \in Ends
      BY <1>1, <1>4, <2>2 DEF QueueInv, EndsOf
    <3> QED
      BY <1>1, <1>5, <3>1, <3>2 DEF QueueInv
  <2> QED
    BY <2>1, <2>2
<1>8. ConnInv'
  <2>1. \A e \in Ends : pc'[e] = "connected" => phase'[Owner(e)] = "serving"
    BY <1>1, <1>2, <1>5 DEF ConnInv
  <2>2. \A c \in Conns : pc'[<<c, "out">>] = "none" => pc'[<<c, "in">>] \in {"none", "closed"}
    BY <1>1, <1>4, <1>5, EndFacts DEF ConnInv
  <2> QED
    BY <2>1, <2>2 DEF ConnInv
<1>9. ReplyInv'
  BY <1>1, <1>2, <1>5 DEF ReplyInv
<1>10. NoTaskAfterFree'
  BY <1>1, <1>2, <1>4, <1>5 DEF NoTaskAfterFree, Active, EndsOf, TypeOK, ActivePC
<1> QED
  BY <1>6, <1>7, <1>8, <1>9, <1>10 DEF TaskInv

LEMMA KillStep ==
  ASSUME NEW e \in Ends, TaskInv, SendKills(e)
  PROVE  TaskInv'
<1>1. TypeOK /\ QueueInv /\ ConnInv /\ ReplyInv /\ NoTaskAfterFree
  BY DEF TaskInv
<1> DEFINE h == Owner(e)
<1>h. h \in Hosts
  BY EndFacts
<1>2. /\ UNCHANGED <<shutdown, req, faults>> /\ phase' = [phase EXCEPT ![h] = "killed"]
      /\ queue' = [queue EXCEPT ![h] = <<>>] /\ known' = [known EXCEPT ![h] = {}]
  BY DEF SendKills
<1> HIDE DEF h
<1>3. /\ pc' \in [Ends -> EndPC]
      /\ \A x \in Ends : pc'[x] = IF Owner(x) = h THEN "closed" ELSE pc[x]
  BY <1>1 DEF SendKills, TypeOK, EndPC, ShutPC, EndsOf, h
<1>4. TypeOK'
  <2>1. queue' \in [Hosts -> Seq(Ends)] /\ known' \in [Hosts -> SUBSET Hosts]
    <3>1. queue' \in [Hosts -> Seq(Ends)]
      BY <1>1, <1>2, <1>h DEF TypeOK
    <3>2. known' \in [Hosts -> SUBSET Hosts]
      BY <1>1, <1>2, <1>h DEF TypeOK
    <3> QED
      BY <3>1, <3>2
  <2>2. phase' \in [Hosts -> {"down", "failed", "serving", "closing", "freed", "killed"}]
    BY Zenon, <1>1, <1>2 DEF TypeOK
  <2>3. cur' \in [Ends -> Messages \cup {None}] /\ chan' \in [Ends -> Seq(Messages)]
    <3>1. /\ cur' = [x \in Ends |-> IF x \in EndsOf(h) THEN None ELSE cur[x]]
          /\ chan' = [x \in Ends |-> IF x \in EndsOf(h) THEN <<>> ELSE chan[x]]
      BY DEF SendKills, h
    <3> QED
      BY <1>1, <3>1 DEF TypeOK
  <2> QED
    BY <1>1, <1>2, <1>3, <2>1, <2>2, <2>3 DEF TypeOK
<1>5. QueueInv'
  <2> SUFFICES ASSUME NEW s \in Hosts
               PROVE  /\ \A i \in DOMAIN queue'[s] :
                           queue'[s][i] \in EndsOf(s) /\ pc'[queue'[s][i]] = "queued"
                      /\ \A i, j \in DOMAIN queue'[s] : queue'[s][i] = queue'[s][j] => i = j
    BY DEF QueueInv, EndsOf
  <2>1. CASE s = h
    BY <1>1, <1>2, <2>1 DEF TypeOK
  <2>2. CASE s # h
    BY <1>1, <1>2, <1>3, <2>2 DEF QueueInv, EndsOf, TypeOK
  <2> QED
    BY <2>1, <2>2
<1>6. ConnInv'
  <2>1. \A x \in Ends : pc'[x] = "connected" => phase'[Owner(x)] = "serving"
    BY <1>1, <1>2, <1>3, EndFacts DEF ConnInv, TypeOK
  <2>2. \A c \in Conns : pc'[<<c, "out">>] = "none" => pc'[<<c, "in">>] \in {"none", "closed"}
    BY <1>1, <1>3, EndFacts DEF ConnInv
  <2> QED
    BY <2>1, <2>2 DEF ConnInv
<1>7. ReplyInv'
  BY <1>1, <1>2, <1>3, EndFacts DEF ReplyInv, TypeOK
<1>8. NoTaskAfterFree'
  BY <1>1, <1>2, <1>3 DEF NoTaskAfterFree, Active, EndsOf, TypeOK
<1> QED
  BY <1>4, <1>5, <1>6, <1>7, <1>8 DEF TaskInv

LEMMA SendStep ==
  ASSUME NEW c \in Conns, NEW m \in Requests[c], TaskInv, socket_server_send(c, m)
  PROVE  TaskInv'
<1>1. TypeOK /\ ConnInv
  BY DEF TaskInv
<1>2. m \in Messages
  BY ServersAssumption DEF Messages
<1>3. <<c, "out">> \in Ends /\ <<c, "in">> \in Ends
  BY EndFacts
<1>4. chan' \in [Ends -> Seq(Messages)]
  BY <1>1, <1>2, <1>3, Sends DEF socket_server_send, TypeOK
<1>5. req' \in [Conns -> Messages \cup {None}]
  BY <1>1, <1>2 DEF socket_server_send, TypeOK
<1>6. pc[<<c, "out">>] = "connected" /\ phase[Owner(<<c, "out">>)] = "serving"
  BY <1>1, <1>3 DEF socket_server_send, ConnInv
<1> QED
  BY <1>3, <1>4, <1>5, <1>6, AddWorkKeeps DEF socket_server_send

LEMMA AcceptStep ==
  ASSUME NEW c \in Conns, TaskInv, Accept(c)
  PROVE  TaskInv'
<1>1. /\ <<c, "in">> \in Ends /\ pc[<<c, "in">>] = "backlog"
      /\ phase[Owner(<<c, "in">>)] = "serving"
  BY Zenon, EndFacts DEF Accept
<1>2. chan' \in [Ends -> Seq(Messages)] /\ req' \in [Conns -> Messages \cup {None}]
  BY DEF Accept, TaskInv, TypeOK
<1> QED
  BY <1>1, <1>2, AddWorkKeeps DEF Accept
-----------------------------------------------------------------------------
LEMMA TaskInvStep == TaskInv /\ [Next]_vars => TaskInv'
<1> SUFFICES ASSUME TaskInv, [Next]_vars PROVE TaskInv'
  OBVIOUS
<1>1. CASE \E s \in Hosts : new_socket_server(s) \/ signal_shutdown(s) \/ Stop(s) \/ TaskStart(s)
  BY <1>1, LifeSteps, FreeStep, DestroyStep, TaskStartStep DEF Stop
<1>2. CASE \E c \in Conns : \/ Connect(c) \/ ConnectFails(c) \/ Accept(c) \/ AcceptFails(c)
                            \/ \E m \in Requests[c] : socket_server_send(c, m)
  BY <1>2, ConnectSteps, AcceptStep, SendStep
<1>3. CASE \E e \in Ends : Task(e) \/ ReceiveFails(e) \/ HandlerFails(e) \/ SendKills(e)
  BY <1>3, TaskSteps, TaskKeeps, KillStep
<1>4. CASE UNCHANGED vars
  BY <1>4 DEF vars, TaskInv, TypeOK, QueueInv, ConnInv, ReplyInv, NoTaskAfterFree, Active, EndsOf
<1> QED
  BY <1>1, <1>2, <1>3, <1>4 DEF Next, Finished

\* When no program sends HELLO_FIN itself, every step keeps FinMeansStored.
LEMMA FinStep ==
  ASSUME \A c \in Conns : "FIN" \notin Requests[c], TaskInv, FinMeansStored, [Next]_vars
  PROVE  FinMeansStored'
<1>1. TypeOK
  BY DEF TaskInv
<1> DEFINE Kept == \A s \in Hosts :
                     \/ phase'[s] \in {"freed", "killed"}
                     \/ known[s] \subseteq known'[s] /\ phase[s] \notin {"freed", "killed"}
<1>2. CASE \E s \in Hosts : \/ new_socket_server(s) \/ signal_shutdown(s)
                            \/ free_socket_server(s) \/ DestroyReturns(s) \/ TaskStart(s)
  <2>1. PICK s \in Hosts : \/ new_socket_server(s) \/ signal_shutdown(s)
                           \/ free_socket_server(s) \/ DestroyReturns(s) \/ TaskStart(s)
    BY <1>2
  <2>2. chan' = chan /\ cur' = cur
    BY <2>1 DEF new_socket_server, signal_shutdown, free_socket_server, DestroyReturns, TaskStart
  <2>3. Kept
    BY SMTT(20), <1>1, <2>1 DEF TypeOK, new_socket_server, signal_shutdown, free_socket_server,
       DestroyReturns, TaskStart
  <2>4. FinEffect
    BY <2>2 DEF FinEffect
  <2> QED
    BY <1>1, <2>3, <2>4, FinKept
<1>3. CASE \E c \in Conns : \/ Connect(c) \/ ConnectFails(c) \/ Accept(c) \/ AcceptFails(c)
  <2>1. UNCHANGED <<phase, known, cur, chan>>
    BY <1>3 DEF Connect, ConnectFails, Accept, AcceptFails
  <2> QED
    BY Zenon, <2>1 DEF FinMeansStored
<1>4. CASE \E c \in Conns : \E m \in Requests[c] : socket_server_send(c, m)
  <2>0. PICK c \in Conns : \E m \in Requests[c] : socket_server_send(c, m)
    BY <1>4
  <2>1. PICK m \in Requests[c] : socket_server_send(c, m)
    BY <2>0
  <2>2. m \in Messages /\ m # "FIN" /\ <<c, "in">> \in Ends
    BY Zenon, ServersAssumption, EndFacts DEF Messages
  <2>3. UNCHANGED <<phase, known, cur>> /\ (chan' = chan \/ Send(<<c, "in">>, m))
    BY <2>1 DEF socket_server_send
  <2>4. FinEffect
    <3>1. \A y \in Ends : InRange(chan'[y]) \subseteq InRange(chan[y]) \cup {m}
      <4>1. CASE chan' = chan
        BY <4>1
      <4>2. CASE Send(<<c, "in">>, m)
        BY Zenon, <1>1, <2>2, <4>2, Sends
      <4> QED
        BY <2>3, <4>1, <4>2
    <3> QED
      BY <2>2, <2>3, <3>1 DEF FinEffect
  <2> QED
    BY <2>3, <2>4 DEF FinMeansStored, FinEffect
<1>5. CASE \E e \in Ends : Task(e) \/ ReceiveFails(e) \/ HandlerFails(e)
  <2>1. PICK e \in Ends : TaskEffect(e) /\ FinEffect
    BY <1>5, TaskSteps
  <2> QED
    BY <1>1, <2>1, FinKept DEF TaskEffect, FinMeansStored
<1>6. CASE \E e \in Ends : SendKills(e)
  <2>1. PICK e \in Ends : SendKills(e)
    BY <1>6
  <2>2. Kept
    BY <1>1, <2>1, EndFacts DEF SendKills, TypeOK
  <2>3. FinEffect
    <3>1. \A x \in Ends : (chan'[x] = chan[x] /\ cur'[x] = cur[x])
                         \/ (chan'[x] = <<>> /\ cur'[x] = None)
      BY Zenon, <2>1 DEF SendKills
    <3>2. InRange(<<>>) = {} /\ "FIN" # None
      BY ServersAssumption DEF InRange, Messages
    <3> QED
      BY <3>1, <3>2 DEF FinEffect
  <2> QED
    BY <1>1, <2>2, <2>3, FinKept
<1>7. CASE UNCHANGED vars
  BY <1>7 DEF vars, FinMeansStored
<1> QED
  BY <1>2, <1>3, <1>4, <1>5, <1>6, <1>7 DEF Next, Stop, Finished

\* TaskInv holds in every reachable state of the servers.
THEOREM TaskInvariant == Spec => []TaskInv
<1>1. Init => TaskInv
  BY InitTaskInv
<1> QED
  BY <1>1, TaskInvStep, PTL DEF Spec

\* The variables of the servers keep their types.
THEOREM TypeCorrect == Spec => []TypeOK
<1>1. TaskInv => TypeOK
  BY DEF TaskInv
<1> QED
  BY <1>1, TaskInvariant, PTL

\* When free_socket_server has freed a server, no task of it runs, none is
\* queued in its pool and none will be added.
THEOREM TasksEndBeforeFree == Spec => []NoTaskAfterFree
<1>1. TaskInv => NoTaskAfterFree
  BY DEF TaskInv
<1> QED
  BY <1>1, TaskInvariant, PTL

\* HELLO_FIN is a receipt: as long as it comes from handle_hello_protocol only
\* (no program sends one with socket_server_send), who gets it is in the peer
\* store of the server that sent it, whatever fails and whoever shuts down.
THEOREM FinIsReceipt ==
  ASSUME \A c \in Conns : "FIN" \notin Requests[c]
  PROVE  Spec => []FinMeansStored
<1>1. Init => TaskInv /\ FinMeansStored
  BY InitTaskInv
<1>2. TaskInv /\ FinMeansStored /\ [Next]_vars => (TaskInv /\ FinMeansStored)'
  BY TaskInvStep, FinStep
<1> QED
  BY <1>1, <1>2, PTL DEF Spec
====
