---------------------------- MODULE ServersPoolProof ----------------------------
(***************************************************************************)
(* The servers use their pools as JobPool promises, for any number of      *)
(* servers, connections, threads and faults.                               *)
(***************************************************************************)
EXTENDS ServersPool, ServersProof

\* What is marked as queued is in the queue; a server that is connected to has
\* not seen the connection, unless its process has ended.
MarkInv ==
  /\ \A e \in Ends : pc[e] = "queued" => \E i \in DOMAIN queue[Owner(e)] : queue[Owner(e)][i] = e
  /\ \A c \in Conns : pc[<<c, "out">>] = "none" => pc[<<c, "in">>] = "none" \/ phase[To[c]] = "killed"

\* A step of the pool of s, or the end of its process.
PoolStep(s) == [Pool(s)!Next]_(Pool(s)!vars) \/ phase'[s] = "killed"

FreshPC == {"none", "connected", "backlog", "reset"}
-----------------------------------------------------------------------------
\* The instances of JobPool count the way FiniteSets does.
LEMMA SameCardinality == \A s : \A S : Pool(s)!Cardinality(S) = Cardinality(S)
  BY DEF Pool!Cardinality, Cardinality

\* Steps in which no end changes from one of the sets of a pool to another.
LEMMA Unmoved ==
  ASSUME NEW s \in Hosts,
         \A e \in EndsOf(s) : \/ pc'[e] = pc[e]
                              \/ pc[e] \in FreshPC /\ pc'[e] \in FreshPC
                              \/ pc[e] \in ActivePC /\ pc'[e] \in ActivePC
  PROVE  /\ UNCHANGED InPC(s, FreshPC) /\ UNCHANGED Active(s)
         /\ UNCHANGED InPC(s, {"closed"}) /\ UNCHANGED InPC(s, {"dropped"})
<1>1. FreshPC \cap ActivePC = {} /\ {"closed", "dropped"} \cap (FreshPC \cup ActivePC) = {}
  BY DEF FreshPC, ActivePC
<1>2. EndsOf(s)' = EndsOf(s)
  BY DEF EndsOf, Ends, Owner
<1> QED
  BY <1>1, <1>2 DEF InPC, Active, EndsOf

LEMMA PoolStutters ==
  ASSUME NEW s \in Hosts, phase'[s] = phase[s], queue'[s] = queue[s],
         \A e \in EndsOf(s) : \/ pc'[e] = pc[e]
                              \/ pc[e] \in FreshPC /\ pc'[e] \in FreshPC
                              \/ pc[e] \in ActivePC /\ pc'[e] \in ActivePC
  PROVE  PoolStep(s)
<1>1. /\ UNCHANGED InPC(s, FreshPC) /\ UNCHANGED Active(s)
      /\ UNCHANGED InPC(s, {"closed"}) /\ UNCHANGED InPC(s, {"dropped"})
  BY Unmoved
<1> QED
  BY <1>1 DEF PoolStep, Pool!vars, FreshPC

\* The servers' pools begin as JobPool does.
LEMMA PoolInit == Init => \A s \in Hosts : Pool(s)!Init
<1> SUFFICES ASSUME Init, NEW s \in Hosts PROVE Pool(s)!Init
  OBVIOUS
<1> QED
  BY DEF Init, Pool!Init, InPC, Active, ActivePC, EndsOf
-----------------------------------------------------------------------------
(* One end moves from one of the sets of its pool to another.              *)

LEMMA PoolAdds ==
  ASSUME NEW s \in Hosts, NEW e \in EndsOf(s), phase[s] = "serving", phase'[s] = "serving",
         pc[e] \in FreshPC, \A x \in EndsOf(s) \ {e} : pc'[x] = pc[x],
         \/ pc'[e] = "queued" /\ queue'[s] = Append(queue[s], e)
         \/ pc'[e] = "dropped" /\ queue'[s] = queue[s]
  PROVE  PoolStep(s)
<1>1. EndsOf(s)' = EndsOf(s) /\ e \notin InPC(s, {"dropped"}) /\ e \in InPC(s, FreshPC)
  BY DEF EndsOf, Ends, Owner, InPC, FreshPC
<1>2. /\ InPC(s, FreshPC)' = InPC(s, FreshPC) \ {e}
      /\ UNCHANGED Active(s) /\ UNCHANGED InPC(s, {"closed"})
  BY <1>1 DEF InPC, Active, FreshPC, ActivePC
<1>3. CASE pc'[e] = "queued" /\ queue'[s] = Append(queue[s], e)
  <2>1. UNCHANGED InPC(s, {"dropped"})
    BY <1>1, <1>3 DEF InPC, FreshPC
  <2>2. Pool(s)!Add(e)
    BY <1>1, <1>2, <1>3, <2>1 DEF Pool!Add, Pool!MayAdd, FreshPC
  <2> QED
    BY <2>2 DEF PoolStep, Pool!Next
<1>4. CASE pc'[e] = "dropped" /\ queue'[s] = queue[s]
  <2>1. InPC(s, {"dropped"})' = InPC(s, {"dropped"}) \cup {e}
    BY <1>1, <1>4 DEF InPC, FreshPC
  <2>2. Pool(s)!Refuse(e)
    BY <1>1, <1>2, <1>4, <2>1 DEF Pool!Refuse, Pool!MayAdd, FreshPC
  <2> QED
    BY <2>2 DEF PoolStep, Pool!Next
<1> QED
  BY <1>3, <1>4

LEMMA PoolFinishes ==
  ASSUME NEW s \in Hosts, NEW e \in EndsOf(s), phase'[s] = phase[s], queue'[s] = queue[s],
         pc[e] \in ActivePC, pc'[e] = "closed", \A x \in EndsOf(s) \ {e} : pc'[x] = pc[x]
  PROVE  PoolStep(s)
<1>1. EndsOf(s)' = EndsOf(s)
  BY DEF EndsOf, Ends, Owner
<1>2. /\ e \in Active(s) /\ Active(s)' = Active(s) \ {e}
      /\ InPC(s, {"closed"})' = InPC(s, {"closed"}) \cup {e}
  BY <1>1 DEF InPC, Active, ActivePC
<1>3. UNCHANGED InPC(s, FreshPC) /\ UNCHANGED InPC(s, {"dropped"})
  BY <1>1 DEF InPC, FreshPC, ActivePC
<1>4. Pool(s)!Finish(e)
  BY <1>2, <1>3 DEF Pool!Finish, FreshPC
<1> QED
  BY <1>4 DEF PoolStep, Pool!Next

\* Steps of a task.
LEMMA TaskUsesPool ==
  ASSUME NEW e \in Ends, TaskInv, MarkInv, TaskEffect(e)
  PROVE  MarkInv' /\ \A s \in Hosts : PoolStep(s)
<1>1. TypeOK
  BY DEF TaskInv
<1>2. PICK l \in ActivePC \cup {"closed"} : pc' = [pc EXCEPT ![e] = l]
  BY Zenon DEF TaskEffect
<1>3. /\ pc[e] \in ActivePC /\ phase' = phase /\ queue' = queue /\ pc'[e] = l
      /\ \A x \in Ends \ {e} : pc'[x] = pc[x]
  BY <1>1, <1>2 DEF TaskEffect, TypeOK
<1>4. MarkInv'
  BY <1>3, EndFacts DEF MarkInv, ActivePC
<1>5. ASSUME NEW s \in Hosts PROVE PoolStep(s)
  <2>1. CASE l \in ActivePC \/ e \notin EndsOf(s)
    BY <1>3, <2>1, PoolStutters DEF EndsOf
  <2>2. CASE l = "closed" /\ e \in EndsOf(s)
    BY <1>3, <2>2, PoolFinishes DEF EndsOf
  <2> QED
    BY <2>1, <2>2
<1> QED
  BY <1>4, <1>5

\* thpool_add_work, done by socket_server_send and by the accept loop.
LEMMA AddWorkUsesPool ==
  ASSUME NEW e \in Ends, TaskInv, MarkInv, pc[e] \in {"connected", "backlog"},
         phase[Owner(e)] = "serving", AddWork(e), UNCHANGED phase
  PROVE  MarkInv' /\ \A s \in Hosts : PoolStep(s)
<1>1. TypeOK /\ Owner(e) \in Hosts /\ e \in EndsOf(Owner(e)) /\ queue[Owner(e)] \in Seq(Ends)
  BY EndFacts DEF TaskInv, TypeOK, EndsOf
<1>2. /\ \A x \in Ends \ {e} : pc'[x] = pc[x]
      /\ \A s \in Hosts \ {Owner(e)} : queue'[s] = queue[s]
      /\ \/ pc'[e] = "queued" /\ queue'[Owner(e)] = Append(queue[Owner(e)], e)
         \/ pc'[e] = "dropped" /\ queue'[Owner(e)] = queue[Owner(e)]
  BY <1>1 DEF AddWork, TypeOK
<1>3. \A i \in DOMAIN queue[Owner(e)] :
        i \in DOMAIN queue'[Owner(e)] /\ queue'[Owner(e)][i] = queue[Owner(e)][i]
  BY <1>1, <1>2
<1>4. pc'[e] = "queued" => \E i \in DOMAIN queue'[Owner(e)] : queue'[Owner(e)][i] = e
  <2> SUFFICES ASSUME pc'[e] = "queued"
               PROVE  \E i \in DOMAIN queue'[Owner(e)] : queue'[Owner(e)][i] = e
    OBVIOUS
  <2>1. queue'[Owner(e)] = Append(queue[Owner(e)], e)
    BY <1>2
  <2>2. Len(queue[Owner(e)]) + 1 \in DOMAIN queue'[Owner(e)]
        /\ queue'[Owner(e)][Len(queue[Owner(e)]) + 1] = e
    BY <1>1, <2>1
  <2> QED
    BY <2>2
<1>5. MarkInv'
  <2>1. ASSUME NEW x \in Ends, pc'[x] = "queued"
        PROVE  \E i \in DOMAIN queue'[Owner(x)] : queue'[Owner(x)][i] = x
    <3>1. CASE x = e
      BY <1>4, <2>1, <3>1
    <3>2. CASE x # e
      <4>1. PICK i \in DOMAIN queue[Owner(x)] : queue[Owner(x)][i] = x
        BY <1>2, <2>1, <3>2 DEF MarkInv
      <4>2. Owner(x) \in Hosts
        BY EndFacts
      <4> QED
        BY <1>2, <1>3, <4>1, <4>2
    <3> QED
      BY <3>1, <3>2
  <2>2. \A c \in Conns : pc'[<<c, "out">>] = "none" => pc'[<<c, "in">>] = "none" \/ phase'[To[c]] = "killed"
    BY <1>2, EndFacts DEF MarkInv
  <2> QED
    BY <2>1, <2>2 DEF MarkInv
<1>6. ASSUME NEW s \in Hosts PROVE PoolStep(s)
  <2>1. CASE s = Owner(e)
    <3>1. pc[e] \in FreshPC
      BY DEF FreshPC
    <3>2. EndsOf(s) \subseteq Ends
      BY DEF EndsOf
    <3> QED
      BY <1>1, <1>2, <2>1, <3>1, <3>2, PoolAdds
  <2>2. CASE s # Owner(e)
    <3>1. \A x \in EndsOf(s) : pc'[x] = pc[x]
      BY <1>2, <2>2 DEF EndsOf
    <3> QED
      BY <1>2, <2>2, <3>1, PoolStutters
  <2> QED
    BY <2>1, <2>2
<1> QED
  BY <1>5, <1>6

\* Connections that are made, and lost before they have a task.
LEMMA ConnectUsesPool ==
  ASSUME NEW c \in Conns, TaskInv, MarkInv, Connect(c) \/ ConnectFails(c) \/ AcceptFails(c)
  PROVE  MarkInv' /\ \A s \in Hosts : PoolStep(s)
<1> DEFINE out == <<c, "out">>
           in == <<c, "in">>
<1>1. TypeOK /\ UNCHANGED <<phase, queue>>
  BY DEF TaskInv, Connect, ConnectFails, AcceptFails
<1>2. /\ out \in Ends /\ in \in Ends /\ out # in /\ Other(out) = in /\ Owner(in) = To[c]
      /\ Owner(in) \in Hosts
  BY EndFacts
<1>3. \A d \in Conns : d # c => <<d, "out">> \in Ends \ {out, in} /\ <<d, "in">> \in Ends \ {out, in}
  BY DEF Ends
<1>4. CASE Connect(c)
  <2>1. /\ pc[out] = "none" /\ phase[To[c]] = "serving"
        /\ pc' = [pc EXCEPT ![out] = "connected", ![in] = "backlog"]
    BY Zenon, <1>2, <1>4 DEF Connect
  <2>2. pc[in] = "none"
    BY <2>1 DEF MarkInv
  <2>3. pc'[out] = "connected" /\ pc'[in] = "backlog" /\ \A x \in Ends \ {out, in} : pc'[x] = pc[x]
    BY <1>1, <1>2, <2>1 DEF TypeOK
  <2> HIDE DEF out, in
  <2>4. MarkInv'
    <3>1. \A x \in Ends : pc'[x] = "queued" => pc[x] = "queued"
      BY <1>2, <2>3
    <3>2. \A d \in Conns : pc'[<<d, "out">>] = "none" => pc'[<<d, "in">>] = "none" \/ phase'[To[d]] = "killed"
      BY <1>1, <1>3, <2>3 DEF MarkInv, out, in
    <3> QED
      BY <1>1, <3>1, <3>2 DEF MarkInv
  <2>5. ASSUME NEW s \in Hosts PROVE PoolStep(s)
    <3>1. \A x \in EndsOf(s) : pc'[x] = pc[x] \/ (pc[x] \in FreshPC /\ pc'[x] \in FreshPC)
      BY Zenon, <2>1, <2>2, <2>3 DEF EndsOf, FreshPC
    <3> QED
      BY <1>1, <3>1, PoolStutters
  <2> QED
    BY <2>4, <2>5
<1>5. CASE ConnectFails(c)
  <2>1. pc[out] = "connected" /\ pc'[out] = "reset" /\ \A x \in Ends \ {out} : pc'[x] = pc[x]
    BY <1>1, <1>2, <1>5 DEF TypeOK, ConnectFails
  <2> HIDE DEF out, in
  <2>2. MarkInv'
    <3>1. \A x \in Ends : pc'[x] = "queued" => pc[x] = "queued"
      BY <1>2, <2>1
    <3>2. \A d \in Conns : pc'[<<d, "out">>] = "none" => pc'[<<d, "in">>] = "none" \/ phase'[To[d]] = "killed"
      BY <1>1, <1>3, <2>1 DEF MarkInv, out, in
    <3> QED
      BY <1>1, <3>1, <3>2 DEF MarkInv
  <2>3. ASSUME NEW s \in Hosts PROVE PoolStep(s)
    <3>1. \A x \in EndsOf(s) : pc'[x] = pc[x] \/ (pc[x] \in FreshPC /\ pc'[x] \in FreshPC)
      BY <2>1 DEF EndsOf, FreshPC
    <3> QED
      BY <1>1, <3>1, PoolStutters
  <2> QED
    BY <2>2, <2>3
<1>6. CASE AcceptFails(c)
  <2>1. /\ pc[in] = "backlog" /\ pc'[in] \in {"reset", "dropped"} /\ phase[Owner(in)] = "serving"
        /\ \A x \in Ends \ {in} : pc'[x] = pc[x]
    BY <1>1, <1>2, <1>6 DEF TypeOK, AcceptFails
  <2> HIDE DEF out, in
  <2>2. MarkInv'
    <3>1. \A x \in Ends : pc'[x] = "queued" => pc[x] = "queued"
      BY <1>2, <2>1
    <3>2. \A d \in Conns : pc'[<<d, "out">>] = "none" => pc'[<<d, "in">>] = "none" \/ phase'[To[d]] = "killed"
      <4>1. pc[out] # "none"
        BY <1>2, <2>1 DEF MarkInv, out, in
      <4> QED
        BY <1>1, <1>2, <1>3, <2>1, <4>1 DEF MarkInv, out, in
    <3> QED
      BY <1>1, <3>1, <3>2 DEF MarkInv
  <2>3. ASSUME NEW s \in Hosts PROVE PoolStep(s)
    <3>1. CASE pc'[in] = "reset" \/ s # Owner(in)
      <4>1. \A x \in EndsOf(s) : pc'[x] = pc[x] \/ (pc[x] \in FreshPC /\ pc'[x] \in FreshPC)
        BY <2>1, <3>1 DEF EndsOf, FreshPC
      <4> QED
        BY <1>1, <4>1, PoolStutters
    <3>2. CASE pc'[in] = "dropped" /\ s = Owner(in)
      <4>1. /\ in \in EndsOf(s) /\ pc[in] \in FreshPC /\ phase[s] = "serving" /\ phase'[s] = "serving"
            /\ queue'[s] = queue[s] /\ \A x \in EndsOf(s) \ {in} : pc'[x] = pc[x]
        BY <1>1, <1>2, <2>1, <3>2 DEF EndsOf, FreshPC
      <4> QED
        BY <3>2, <4>1, PoolAdds
    <3> QED
      BY <2>1, <3>1, <3>2
  <2> QED
    BY <2>2, <2>3
<1> QED
  BY <1>4, <1>5, <1>6

\* The start of a server, and the signal.
LEMMA LifeUsesPool ==
  ASSUME NEW h \in Hosts, TaskInv, MarkInv, new_socket_server(h) \/ signal_shutdown(h)
  PROVE  MarkInv' /\ \A s \in Hosts : PoolStep(s)
<1>1. TypeOK /\ UNCHANGED <<queue, pc>>
  BY DEF TaskInv, new_socket_server, signal_shutdown
<1>2. \A s \in Hosts : \/ phase'[s] = phase[s]
                       \/ phase[s] = "down" /\ phase'[s] \in {"serving", "failed"}
  BY <1>1 DEF new_socket_server, signal_shutdown, TypeOK
<1>3. MarkInv'
  BY <1>1, <1>2, ServersAssumption DEF MarkInv
<1>4. ASSUME NEW s \in Hosts PROVE PoolStep(s)
  <2>1. CASE phase'[s] = phase[s]
    BY <1>1, <2>1, PoolStutters
  <2>2. CASE phase[s] = "down" /\ phase'[s] \in {"serving", "failed"}
    <3>1. /\ UNCHANGED InPC(s, FreshPC) /\ UNCHANGED Active(s)
          /\ UNCHANGED InPC(s, {"closed"}) /\ UNCHANGED InPC(s, {"dropped"})
      BY <1>1, Unmoved
    <3>2. Pool(s)!Open
      BY <1>1, <2>2, <3>1 DEF Pool!Open, FreshPC
    <3> QED
      BY <3>2 DEF PoolStep, Pool!Next
  <2> QED
    BY <1>2, <2>1, <2>2
<1> QED
  BY <1>3, <1>4

\* free_socket_server up to thpool_destroy.
LEMMA FreeUsesPool ==
  ASSUME NEW h \in Hosts, TaskInv, MarkInv, free_socket_server(h)
  PROVE  MarkInv' /\ \A s \in Hosts : PoolStep(s)
<1>1. TypeOK /\ queue' = queue /\ phase[h] = "serving" /\ phase' = [phase EXCEPT ![h] = "closing"]
  BY DEF TaskInv, free_socket_server
<1>2. \A e \in Ends : pc'[e] = pc[e] \/ (pc[e] = "backlog" /\ pc'[e] = "reset")
  BY <1>1 DEF free_socket_server, TypeOK
<1>3. phase'[h] = "closing" /\ \A s \in Hosts \ {h} : phase'[s] = phase[s]
  BY <1>1 DEF TypeOK
<1>4. MarkInv'
  <2>1. \A c \in Conns : pc'[<<c, "out">>] = "none" => pc'[<<c, "in">>] = "none" \/ phase'[To[c]] = "killed"
    <3> SUFFICES ASSUME NEW c \in Conns, pc'[<<c, "out">>] = "none"
                 PROVE  pc'[<<c, "in">>] = "none" \/ phase'[To[c]] = "killed"
      OBVIOUS
    <3>1. pc[<<c, "in">>] = "none" \/ phase[To[c]] = "killed"
      BY <1>2, EndFacts DEF MarkInv
    <3>2. To[c] \in Hosts /\ <<c, "in">> \in Ends
      BY ServersAssumption, EndFacts
    <3> QED
      BY <1>1, <1>2, <1>3, <3>1, <3>2
  <2>2. \A e \in Ends : pc'[e] = "queued" => pc[e] = "queued"
    BY <1>2
  <2> QED
    BY <1>1, <2>1, <2>2 DEF MarkInv
<1>5. ASSUME NEW s \in Hosts PROVE PoolStep(s)
  <2>1. \A x \in EndsOf(s) : pc'[x] = pc[x] \/ (pc[x] \in FreshPC /\ pc'[x] \in FreshPC)
    BY <1>2 DEF EndsOf, FreshPC
  <2>2. CASE s # h
    BY <1>1, <1>3, <2>1, <2>2, PoolStutters
  <2>3. CASE s = h
    <3>1. /\ UNCHANGED InPC(s, FreshPC) /\ UNCHANGED Active(s)
          /\ UNCHANGED InPC(s, {"closed"}) /\ UNCHANGED InPC(s, {"dropped"})
      BY <2>1, Unmoved
    <3>2. Pool(s)!Close
      BY <1>1, <1>3, <2>3, <3>1 DEF Pool!Close, FreshPC
    <3> QED
      BY <3>2 DEF PoolStep, Pool!Next
  <2> QED
    BY <2>2, <2>3
<1> QED
  BY <1>4, <1>5

\* thpool_destroy returns: what is queued is discarded.
LEMMA DestroyUsesPool ==
  ASSUME NEW h \in Hosts, TaskInv, MarkInv, DestroyReturns(h)
  PROVE  MarkInv' /\ \A s \in Hosts : PoolStep(s)
<1>1. /\ TypeOK /\ QueueInv /\ phase[h] = "closing" /\ Active(h) = {}
      /\ phase' = [phase EXCEPT ![h] = "freed"] /\ queue' = [queue EXCEPT ![h] = <<>>]
  BY DEF TaskInv, DestroyReturns
<1>2. /\ phase'[h] = "freed" /\ queue'[h] = <<>>
      /\ \A s \in Hosts \ {h} : phase'[s] = phase[s] /\ queue'[s] = queue[s]
  BY <1>1 DEF TypeOK
<1>3. \A e \in Ends : pc'[e] = IF Owner(e) = h /\ pc[e] = "queued" THEN "dropped" ELSE pc[e]
  BY DEF DestroyReturns, EndsOf
<1>4. MarkInv'
  <2>1. \A e \in Ends : pc'[e] = "queued" => pc[e] = "queued" /\ Owner(e) \in Hosts \ {h}
    BY <1>3, EndFacts
  <2>2. \A c \in Conns : pc'[<<c, "out">>] = "none" => pc'[<<c, "in">>] = "none" \/ phase'[To[c]] = "killed"
    <3> SUFFICES ASSUME NEW c \in Conns, pc'[<<c, "out">>] = "none"
                 PROVE  pc'[<<c, "in">>] = "none" \/ phase'[To[c]] = "killed"
      OBVIOUS
    <3>1. pc[<<c, "in">>] = "none" \/ phase[To[c]] = "killed"
      BY <1>3, EndFacts DEF MarkInv
    <3>2. To[c] \in Hosts /\ <<c, "in">> \in Ends
      BY ServersAssumption, EndFacts
    <3> QED
      BY <1>1, <1>2, <1>3, <3>1, <3>2
  <2> QED
    BY <1>2, <2>1, <2>2 DEF MarkInv
<1>5. ASSUME NEW s \in Hosts PROVE PoolStep(s)
  <2>1. CASE s # h
    <3>1. \A x \in EndsOf(s) : pc'[x] = pc[x]
      BY <1>3, <2>1 DEF EndsOf
    <3> QED
      BY <1>2, <2>1, <3>1, PoolStutters
  <2>2. CASE s = h
    <3>1. EndsOf(s)' = EndsOf(s)
      BY DEF EndsOf, Ends, Owner
    <3>2. \A x \in EndsOf(s) : pc'[x] = IF pc[x] = "queued" THEN "dropped" ELSE pc[x]
      BY <1>3, <2>2 DEF EndsOf
    <3>3. UNCHANGED InPC(s, FreshPC) /\ UNCHANGED Active(s) /\ UNCHANGED InPC(s, {"closed"})
      BY <3>1, <3>2 DEF InPC, Active, FreshPC, ActivePC
    <3>4. {queue[s][i] : i \in DOMAIN queue[s]} = {x \in EndsOf(s) : pc[x] = "queued"}
      <4>1. \A x \in EndsOf(s) : pc[x] = "queued" => \E i \in DOMAIN queue[s] : queue[s][i] = x
        BY DEF MarkInv, EndsOf
      <4>2. \A i \in DOMAIN queue[s] : queue[s][i] \in EndsOf(s) /\ pc[queue[s][i]] = "queued"
        BY <1>1 DEF QueueInv
      <4> QED
        BY <4>1, <4>2
    <3>5. InPC(s, {"dropped"})' = InPC(s, {"dropped"}) \cup {x \in EndsOf(s) : pc[x] = "queued"}
      BY <3>1, <3>2 DEF InPC
    <3>6. Pool(s)!Free
      BY <1>1, <1>2, <2>2, <3>3, <3>4, <3>5 DEF Pool!Free, FreshPC
    <3> QED
      BY <3>6 DEF PoolStep, Pool!Next
  <2> QED
    BY <2>1, <2>2
<1> QED
  BY <1>4, <1>5

\* A thread takes the next task.
LEMMA StartUsesPool ==
  ASSUME NEW h \in Hosts, TaskInv, MarkInv, TaskStart(h)
  PROVE  MarkInv' /\ \A s \in Hosts : PoolStep(s)
<1> DEFINE q == queue[h]
           first == Head(queue[h])
<1>1. /\ TypeOK /\ QueueInv /\ phase' = phase /\ q # <<>> /\ Cardinality(Active(h)) < NumThreads
      /\ queue' = [queue EXCEPT ![h] = Tail(q)] /\ pc' = [pc EXCEPT ![first] = "loop"]
  BY DEF TaskInv, TaskStart
<1>2. /\ q \in Seq(Ends) /\ first = q[1] /\ 1 \in DOMAIN q
      /\ queue'[h] = Tail(q) /\ \A s \in Hosts \ {h} : queue'[s] = queue[s]
  <2>1. q \in Seq(Ends) /\ q # <<>>
    BY <1>1 DEF TypeOK
  <2>2. first = q[1] /\ 1 \in DOMAIN q
    BY <2>1
  <2>3. queue'[h] = Tail(q) /\ \A s \in Hosts \ {h} : queue'[s] = queue[s]
    BY Zenon, <1>1 DEF TypeOK
  <2> QED
    BY <2>1, <2>2, <2>3
<1>3. first \in Ends /\ first \in EndsOf(h) /\ Owner(first) = h /\ pc[first] = "queued"
  BY <1>1, <1>2 DEF QueueInv, EndsOf
<1>4. pc'[first] = "loop" /\ \A x \in Ends \ {first} : pc'[x] = pc[x]
  BY <1>1, <1>3 DEF TypeOK
<1>5. \A i \in DOMAIN q : q[i] # first => i - 1 \in DOMAIN Tail(q) /\ Tail(q)[i - 1] = q[i]
  <2>1. \A i \in DOMAIN q : i # 1 => i - 1 \in DOMAIN Tail(q) /\ Tail(q)[i - 1] = q[i]
    BY <1>1, <1>2
  <2> QED
    BY <1>2, <2>1
<1> HIDE DEF q, first
<1>6. MarkInv'
  <2>1. ASSUME NEW e \in Ends, pc'[e] = "queued"
        PROVE  \E i \in DOMAIN queue'[Owner(e)] : queue'[Owner(e)][i] = e
    <3>1. e # first /\ Owner(e) \in Hosts /\ \E i \in DOMAIN queue[Owner(e)] : queue[Owner(e)][i] = e
      BY <1>4, <2>1, EndFacts DEF MarkInv
    <3>2. CASE Owner(e) # h
      BY <1>2, <3>1, <3>2
    <3>3. CASE Owner(e) = h
      <4>1. PICK i \in DOMAIN q : q[i] = e
        BY <3>1, <3>3 DEF q
      <4>2. i - 1 \in DOMAIN Tail(q) /\ Tail(q)[i - 1] = e
        BY <1>5, <3>1, <4>1
      <4>3. queue'[Owner(e)] = Tail(q)
        BY <1>2, <3>3
      <4> QED
        BY Zenon, <4>2, <4>3
    <3> QED
      BY <3>2, <3>3
  <2>2. \A c \in Conns : pc'[<<c, "out">>] = "none" => pc'[<<c, "in">>] = "none" \/ phase'[To[c]] = "killed"
    BY <1>1, <1>3, <1>4, EndFacts DEF MarkInv
  <2> QED
    BY <2>1, <2>2 DEF MarkInv
<1>7. ASSUME NEW s \in Hosts PROVE PoolStep(s)
  <2>1. CASE s # h
    <3>1. \A x \in EndsOf(s) : pc'[x] = pc[x]
      BY <1>3, <1>4, <2>1 DEF EndsOf
    <3> QED
      BY <1>1, <1>2, <2>1, <3>1, PoolStutters
  <2>2. CASE s = h
    <3>1. EndsOf(s)' = EndsOf(s) /\ \A x \in EndsOf(s) \ {first} : pc'[x] = pc[x]
      BY <1>4 DEF EndsOf, Ends, Owner
    <3>2. /\ UNCHANGED InPC(s, FreshPC) /\ UNCHANGED InPC(s, {"closed"})
          /\ UNCHANGED InPC(s, {"dropped"})
      BY <1>3, <1>4, <3>1 DEF InPC, FreshPC
    <3>3. Active(s)' = Active(s) \cup {first}
      BY <1>3, <1>4, <2>2, <3>1 DEF Active, ActivePC
    <3>4. Pool(s)!Cardinality(Active(s)) < NumThreads
      BY <1>1, <2>2, SameCardinality
    <3>5. Pool(s)!Start
      BY <1>1, <1>2, <2>2, <3>2, <3>3, <3>4 DEF Pool!Start, FreshPC, q, first
    <3> QED
      BY <3>5 DEF PoolStep, Pool!Next
  <2> QED
    BY <2>1, <2>2
<1> QED
  BY <1>6, <1>7

\* SIGPIPE: the process ends, and its pool with it.
LEMMA KillUsesPool ==
  ASSUME NEW e \in Ends, TaskInv, MarkInv, SendKills(e)
  PROVE  MarkInv' /\ \A s \in Hosts : PoolStep(s)
<1> DEFINE h == Owner(e)
<1>1. /\ TypeOK /\ h \in Hosts /\ phase' = [phase EXCEPT ![h] = "killed"]
      /\ queue' = [queue EXCEPT ![h] = <<>>]
  BY EndFacts DEF TaskInv, SendKills
<1>2. \A x \in Ends : pc'[x] = IF Owner(x) = h THEN "closed" ELSE pc[x]
  BY DEF SendKills, EndsOf
<1> HIDE DEF h
<1>3. phase'[h] = "killed" /\ \A s \in Hosts \ {h} : phase'[s] = phase[s] /\ queue'[s] = queue[s]
  BY <1>1 DEF TypeOK
<1>4. MarkInv'
  <2>1. \A x \in Ends : pc'[x] = "queued" => pc[x] = "queued" /\ Owner(x) \in Hosts \ {h}
    BY <1>2, EndFacts
  <2>2. ASSUME NEW c \in Conns, pc'[<<c, "out">>] = "none"
        PROVE  pc'[<<c, "in">>] = "none" \/ phase'[To[c]] = "killed"
    <3>1. pc[<<c, "in">>] = "none" \/ phase[To[c]] = "killed"
      BY <1>2, <2>2, EndFacts DEF MarkInv
    <3>2. To[c] \in Hosts /\ <<c, "in">> \in Ends /\ Owner(<<c, "in">>) = To[c]
      BY Zenon, ServersAssumption, EndFacts
    <3> QED
      BY <1>2, <1>3, <3>1, <3>2
  <2> QED
    BY <1>3, <2>1, <2>2 DEF MarkInv
<1>5. ASSUME NEW s \in Hosts PROVE PoolStep(s)
  <2>1. CASE s = h
    BY <1>3, <2>1 DEF PoolStep
  <2>2. CASE s # h
    <3>1. \A x \in EndsOf(s) : pc'[x] = pc[x]
      BY <1>2, <2>2 DEF EndsOf
    <3> QED
      BY <1>3, <2>2, <3>1, PoolStutters
  <2> QED
    BY <2>1, <2>2
<1> QED
  BY <1>4, <1>5
-----------------------------------------------------------------------------
LEMMA StepUsesPool ==
  ASSUME TaskInv, MarkInv, [Next]_vars
  PROVE  MarkInv' /\ \A s \in Hosts : PoolStep(s)
<1>1. CASE \E s \in Hosts : new_socket_server(s) \/ signal_shutdown(s) \/ Stop(s) \/ TaskStart(s)
  BY <1>1, LifeUsesPool, FreeUsesPool, DestroyUsesPool, StartUsesPool DEF Stop
<1>2. CASE \E c \in Conns : Connect(c) \/ ConnectFails(c) \/ AcceptFails(c)
  BY <1>2, ConnectUsesPool
<1>3. CASE \E c \in Conns : Accept(c) \/ \E m \in Requests[c] : socket_server_send(c, m)
  <2>1. PICK c \in Conns : Accept(c) \/ \E m \in Requests[c] : socket_server_send(c, m)
    BY <1>3
  <2>2. /\ <<c, "in">> \in Ends /\ <<c, "out">> \in Ends /\ Owner(<<c, "in">>) = To[c]
        /\ ConnInv
    BY EndFacts DEF TaskInv
  <2>3. CASE Accept(c)
    BY <2>2, <2>3, AddWorkUsesPool DEF Accept
  <2>4. CASE \E m \in Requests[c] : socket_server_send(c, m)
    <3>1. /\ pc[<<c, "out">>] = "connected" /\ AddWork(<<c, "out">>) /\ UNCHANGED phase
          /\ phase[Owner(<<c, "out">>)] = "serving"
      BY <2>2, <2>4 DEF socket_server_send, ConnInv
    <3> QED
      BY <2>2, <3>1, AddWorkUsesPool
  <2> QED
    BY <2>1, <2>3, <2>4
<1>4. CASE \E e \in Ends : Task(e) \/ ReceiveFails(e) \/ HandlerFails(e)
  BY <1>4, TaskSteps, TaskUsesPool
<1>5. CASE \E e \in Ends : SendKills(e)
  BY <1>5, KillUsesPool
<1>6. CASE UNCHANGED vars
  <2>1. UNCHANGED <<phase, queue, pc>>
    BY <1>6 DEF vars
  <2>2. MarkInv'
    BY <2>1 DEF MarkInv
  <2> QED
    BY <2>1, <2>2, PoolStutters
<1> QED
  BY <1>1, <1>2, <1>3, <1>4, <1>5, <1>6 DEF Next, Finished

\* Whatever the servers do to their pools (new_socket_server, the accept loop,
\* socket_server_send, handle_inbound_rpc, free_socket_server), in any order
\* and with any faults, is what JobPool promises to carry out.
THEOREM ServersUsePool == Spec => UsesPool
<1>1. Init => MarkInv /\ \A s \in Hosts : Pool(s)!Init
  <2>1. Init => (\A e \in Ends : pc[e] = "none")
    BY DEF Init
  <2>2. Init => MarkInv
    BY Zenon, <2>1, EndFacts DEF MarkInv
  <2> QED
    BY <2>2, PoolInit
<1>2. TaskInv /\ MarkInv /\ [Next]_vars =>
        /\ MarkInv'
        /\ [\A s \in Hosts : [Pool(s)!Next]_(Pool(s)!vars) \/ phase'[s] = "killed"]_vars
  BY StepUsesPool DEF PoolStep
<1> QED
  BY <1>1, <1>2, TaskInvariant, PTL DEF Spec, UsesPool
====
