------------------------- MODULE ThreadPoolProof -------------------------
(***************************************************************************)
(* Theorems about ThreadPool, for any number of threads, clients and jobs: *)
(* the inductive invariant, the steps of the workers and the calls of the  *)
(* pool, which keep it, and what follows from it.                          *)
(***************************************************************************)
EXTENDS ThreadPool, FiniteSetTheorems, TLAPS

AliveSet == {t \in Threads : pc[t] \in AlivePC}
WorkingSet == {t \in Threads : pc[t] \in WorkingPC}

\* The two counters count.
CountInv ==
  /\ alive = Cardinality(AliveSet)
  /\ working = Cardinality(WorkingSet)

\* Who holds a mutex, and who may be pushing.
LockInv ==
  /\ \A t \in Threads : pc[t] = "post" => rwmutex = t
  /\ \A t \in Threads : arg[t] # None => pc[t] = "run"
  /\ \A t \in Threads : pc[t] = "unlock" <=> thcount_lock = t
  /\ \A c \in Clients : cpc[c] = "lenzero" <=> thcount_lock = c
  /\ \A c \in Callers : rwmutex = c => arg[c] # None \/ (c \in Threads /\ pc[c] = "post")

\* A worker has a job exactly between jobqueue_pull and the job's end.
JobInv == \A t \in Threads : job[t] # None <=> pc[t] \in {"post", "run"}

\* What the pool's phase says about its threads and clients.
LifeInv ==
  /\ life \notin {"init", "null"} => \A t \in Threads : pc[t] \notin {"start", "failed"}
  /\ life # "open" => \A c \in Clients : cpc[c] = "idle" /\ arg[c] = None
  /\ life = "freed" => queue = <<>> /\ \A t \in Threads : pc[t] \in {"unlock", "gone"}

\* Where the jobs are that a caller of thpool_wait waits for.
DueInv ==
  \A c \in Clients :
    /\ cpc[c] = "idle" => due[c] = {}
    /\ due[c] \subseteq done \cup JobsIn(queue) \cup Running
    /\ cpc[c] = "lenzero" => due[c] \subseteq done \cup Running

\* What holds whatever becomes of the globals threads_keepalive and
\* threads_on_hold, and with it what holds while only this pool sets them.
SafeInv == TypeOK /\ CountInv /\ LockInv /\ JobInv /\ LifeInv /\ DueInv
IInv == SafeInv /\ WorkConserving
-----------------------------------------------------------------------------
LEMMA AliveSetFinite == IsFiniteSet(AliveSet) /\ IsFiniteSet(WorkingSet)
  BY FS_Subset, ThreadPoolAssumption DEF AliveSet, WorkingSet

LEMMA InitIInv == Init => IInv
<1> SUFFICES ASSUME Init PROVE IInv
  OBVIOUS
<1> USE ThreadPoolAssumption DEF Init
<1>1. TypeOK
  <2>1. budget \in [Bounds -> Nat]
    BY DEF Bounds, Limit
  <2>2. queue \in Seq(Jobs)
    OBVIOUS
  <2>3. pc \in [Threads -> ThreadPC] /\ cpc \in [Clients -> ClientPC]
    BY DEF ThreadPC, ClientPC
  <2> QED
    BY Zenon, <2>1, <2>2, <2>3 DEF TypeOK, Callers
<1>2. CountInv
  <2>1. AliveSet = {} /\ WorkingSet = {}
    BY DEF AliveSet, WorkingSet, AlivePC, WorkingPC
  <2> QED
    BY <2>1, FS_EmptySet DEF CountInv
<1>3. LockInv /\ JobInv
  BY DEF LockInv, JobInv, Callers
<1>4. LifeInv /\ DueInv
  <2>1. LifeInv
    BY DEF LifeInv, Callers
  <2> QED
    BY <2>1 DEF DueInv
<1>5. WorkConserving
  BY DEF WorkConserving, Blocked
<1> QED
  BY <1>1, <1>2, <1>3, <1>4, <1>5 DEF IInv, SafeInv

\* What a post does to the program counters: at most a sleeper is woken.
LEMMA BsemPostWakes ==
  ASSUME NEW p \in [Threads -> ThreadPC], bsem_post(p)
  PROVE  /\ v' = 1
         /\ pc' \in [Threads -> ThreadPC]
         /\ \A u \in Threads : pc'[u] = p[u] \/ (p[u] = "blocked" /\ pc'[u] = "wait")
         /\ Blocked(pc') # {} => \E u \in Threads : pc'[u] = "wait"
<1>1. CASE Blocked(p) = {}
  BY <1>1 DEF bsem_post, Blocked
<1>2. CASE Blocked(p) # {}
  <2>1. PICK t \in Blocked(p) : pc' = [p EXCEPT ![t] = "wait"]
    BY <1>2 DEF bsem_post
  <2> QED
    BY <2>1 DEF bsem_post, Blocked, ThreadPC, AlivePC
<1> QED
  BY <1>1, <1>2


\* What jobqueue_pull and jobqueue_push do to the set of queued jobs.
LEMMA EmptyQueue == ASSUME NEW q \in Seq(Jobs), Len(q) = 0 PROVE q = <<>>
  OBVIOUS

LEMMA PulledQueue ==
  ASSUME NEW q \in Seq(Jobs), q # <<>>
  PROVE  /\ Head(q) \in Jobs /\ Tail(q) \in Seq(Jobs)
         /\ JobsIn(q) \subseteq JobsIn(Tail(q)) \cup {Head(q)}
         /\ Len(q) > 1 <=> Tail(q) # <<>>
<1>1. /\ Head(q) \in Jobs /\ Tail(q) \in Seq(Jobs)
      /\ Len(q) \in Nat \ {0} /\ Len(Tail(q)) = Len(q) - 1
  OBVIOUS
<1>2. JobsIn(q) \subseteq JobsIn(Tail(q)) \cup {Head(q)}
  <2> SUFFICES ASSUME NEW i \in DOMAIN q, i # 1
               PROVE  q[i] \in JobsIn(Tail(q))
    BY DEF JobsIn
  <2>1. i - 1 \in DOMAIN Tail(q) /\ Tail(q)[i - 1] = q[i]
    BY <1>1
  <2> QED
    BY <2>1 DEF JobsIn
<1>3. Len(q) > 1 <=> Tail(q) # <<>>
  <2>1. Len(Tail(q)) = 0 <=> Tail(q) = <<>>
    BY Zenon, <1>1, EmptyQueue
  <2> QED
    BY <1>1, <2>1
<1> QED
  BY <1>1, <1>2, <1>3

LEMMA PushedQueue ==
  ASSUME NEW q \in Seq(Jobs), NEW j \in Jobs
  PROVE  /\ Append(q, j) \in Seq(Jobs) /\ Append(q, j) # <<>>
         /\ JobsIn(q) \subseteq JobsIn(Append(q, j))
<1>1. /\ Append(q, j) \in Seq(Jobs) /\ Append(q, j) # <<>>
      /\ \A i \in 1 .. Len(q) : Append(q, j)[i] = q[i]
      /\ Len(Append(q, j)) = Len(q) + 1 /\ Len(q) \in Nat
  OBVIOUS
<1>2. DOMAIN q = 1 .. Len(q) /\ DOMAIN Append(q, j) = 1 .. (Len(q) + 1)
  BY <1>1
<1> QED
  BY <1>1, <1>2 DEF JobsIn

LEMMA QueuedJobs == ASSUME NEW q \in Seq(Jobs) PROVE JobsIn(q) \subseteq Jobs
  BY DEF JobsIn

LEMMA SpendType ==
  ASSUME NEW b \in Bounds, budget \in [Bounds -> Nat], Spend(b)
  PROVE  budget' \in [Bounds -> Nat]
<1>1. budget[b] - 1 \in Nat
  BY DEF Spend
<1> QED
  BY <1>1 DEF Spend

\* Frames: what each conjunct of the invariant depends on.
LEMMA CountFrame ==
  ASSUME CountInv, UNCHANGED <<pc, alive, working>> PROVE CountInv'
<1>1. AliveSet' = AliveSet /\ WorkingSet' = WorkingSet
  BY DEF AliveSet, WorkingSet
<1> QED
  BY <1>1 DEF CountInv

LEMMA LockFrame ==
  ASSUME LockInv, UNCHANGED <<pc, arg, cpc, thcount_lock, rwmutex>> PROVE LockInv'
  BY DEF LockInv

\* LockInv is kept as well by moves between program counters it says nothing of.
LEMMA LockMoves ==
  ASSUME LockInv, UNCHANGED <<arg, thcount_lock, rwmutex>>,
         \A u \in Threads : \/ pc'[u] = pc[u]
                            \/ /\ pc[u] \notin {"post", "unlock"} /\ arg[u] = None
                               /\ pc'[u] \notin {"post", "unlock"},
         \A c \in Clients : cpc'[c] = "lenzero" <=> cpc[c] = "lenzero"
  PROVE  LockInv'
<1>1. \A u \in Threads : pc'[u] = "post" => rwmutex' = u
  BY DEF LockInv
<1>2. \A u \in Threads : arg'[u] # None => pc'[u] = "run"
  BY DEF LockInv
<1>3. \A u \in Threads : pc'[u] = "unlock" <=> thcount_lock' = u
  BY DEF LockInv
<1>4. \A c \in Clients : cpc'[c] = "lenzero" <=> thcount_lock' = c
  BY DEF LockInv
<1>5. \A c \in Callers : rwmutex' = c => arg'[c] # None \/ (c \in Threads /\ pc'[c] = "post")
  BY DEF LockInv
<1> QED
  BY <1>1, <1>2, <1>3, <1>4, <1>5 DEF LockInv

LEMMA JobFrame == ASSUME JobInv, UNCHANGED <<pc, job>> PROVE JobInv'
  BY DEF JobInv

LEMMA LifeFrame ==
  ASSUME LifeInv, UNCHANGED <<life, pc, cpc, arg, queue>> PROVE LifeInv'
  BY DEF LifeInv

LEMMA DueFrame ==
  ASSUME DueInv, UNCHANGED <<cpc, due, done, queue, job>> PROVE DueInv'
<1>1. JobsIn(queue') = JobsIn(queue) /\ Running' = Running
  BY DEF JobsIn, Running
<1> QED
  BY <1>1 DEF DueInv

LEMMA WorkFrame ==
  ASSUME WorkConserving, UNCHANGED <<keepalive, queue, rwmutex, v, pc>> PROVE WorkConserving'
<1>1. Blocked(pc') = Blocked(pc)
  BY DEF Blocked
<1> QED
  BY <1>1 DEF WorkConserving
-----------------------------------------------------------------------------
LEMMA IdleSteps ==
  ASSUME NEW t \in Threads, SafeInv,
         LoopTest(t) \/ KeepaliveTest(t) \/ bsem_wait(t) \/ SpuriousWakeup(t)
  PROVE  SafeInv' /\ (WorkConserving => WorkConserving')
<1>1. TypeOK /\ CountInv /\ LockInv /\ JobInv /\ LifeInv /\ DueInv
  BY DEF SafeInv
<1>2. UNCHANGED <<keepalive, onhold, life, job, alive, working, thcount_lock, queue,
                  rwmutex, arg, cpc, sig, held, fresh, done, dropped, due, budget>>
  BY DEF LoopTest, KeepaliveTest, bsem_wait, SpuriousWakeup, process, counters, jobq,
     calls, hist, holdVars
<1>3. TypeOK'
  <2>1. pc' \in [Threads -> ThreadPC]
    BY <1>1, <1>2 DEF TypeOK, LoopTest, KeepaliveTest, bsem_wait, SpuriousWakeup, ThreadPC, AlivePC,
       WorkingPC
  <2>2. v' \in {0, 1}
    BY <1>1, <1>2 DEF TypeOK, LoopTest, KeepaliveTest, bsem_wait, SpuriousWakeup
  <2> QED
    BY <1>1, <1>2, <2>1, <2>2 DEF TypeOK
<1>p. /\ pc[t] \in {"loop", "wait", "blocked", "check"}
      /\ pc'[t] \in {"loop", "wait", "blocked", "check", "inc", "exit"}
      /\ \A u \in Threads : u # t => pc'[u] = pc[u]
  BY <1>1 DEF TypeOK, LoopTest, KeepaliveTest, bsem_wait, SpuriousWakeup
<1>4. CountInv'
  <2>1. AliveSet' = AliveSet /\ WorkingSet' = WorkingSet
    BY <1>p DEF AliveSet, WorkingSet, AlivePC, WorkingPC
  <2> QED
    BY <1>1, <1>2, <2>1 DEF CountInv
<1>5. LockInv'
  <2>1. arg[t] = None
    BY <1>1, <1>p DEF LockInv
  <2> QED
    BY <1>1, <1>2, <1>p, <2>1, LockMoves
<1>6. JobInv'
  BY <1>1, <1>2, <1>p DEF JobInv
<1>7. LifeInv'
  BY <1>1, <1>2, <1>p DEF LifeInv
<1>8. WorkConserving => WorkConserving'
  <2>1. CASE LoopTest(t)
    BY <1>1, <1>2, <1>p, <2>1 DEF TypeOK, WorkConserving, Blocked, LoopTest
  <2>2. CASE KeepaliveTest(t)
    BY <1>1, <1>2, <1>p, <2>2 DEF TypeOK, WorkConserving, Blocked, KeepaliveTest
  <2>3. CASE bsem_wait(t)
    BY <1>1, <1>2, <1>p, <2>3 DEF TypeOK, WorkConserving, Blocked, bsem_wait
  <2>4. CASE SpuriousWakeup(t)
    BY <1>1, <1>2, <1>p, <2>4 DEF TypeOK, WorkConserving, Blocked, SpuriousWakeup
  <2> QED
    BY <2>1, <2>2, <2>3, <2>4
<1>9. DueInv'
  BY <1>1, <1>2, DueFrame
<1> QED
  BY <1>3, <1>4, <1>5, <1>6, <1>7, <1>8, <1>9 DEF SafeInv

LEMMA StartWorkingStep ==
  ASSUME NEW t \in Threads, SafeInv,
         StartWorking(t)
  PROVE  SafeInv' /\ (WorkConserving => WorkConserving')
<1>1. TypeOK /\ CountInv /\ LockInv /\ JobInv /\ LifeInv /\ DueInv
  BY DEF SafeInv
<1>2. UNCHANGED <<keepalive, onhold, life, job, alive, thcount_lock, queue, rwmutex,
                  v, arg, cpc, sig, held, fresh, done, dropped, due, budget>>
  BY DEF StartWorking, process, counters, jobq, calls, hist, holdVars
<1>p. /\ pc[t] = "inc" /\ pc'[t] = "pull"
      /\ \A u \in Threads : u # t => pc'[u] = pc[u]
  BY <1>1 DEF TypeOK, StartWorking
<1>0. CountInv' /\ working' \in Nat
  <2>1. WorkingSet' = WorkingSet \cup {t} /\ t \notin WorkingSet /\ AliveSet' = AliveSet
    BY <1>p DEF AliveSet, WorkingSet, AlivePC, WorkingPC
  <2>2. Cardinality(WorkingSet \cup {t}) = Cardinality(WorkingSet) + 1 /\ Cardinality(WorkingSet \cup {t}) \in Nat
    BY <2>1, AliveSetFinite, FS_AddElement, FS_CardinalityType
  <2> QED
    BY <1>1, <1>2, <2>1, <2>2 DEF CountInv, StartWorking
<1>3. TypeOK'
  <2>1. pc' \in [Threads -> ThreadPC]
    BY <1>1, <1>2 DEF TypeOK, StartWorking, ThreadPC, AlivePC, WorkingPC
  <2>2. working' \in Nat
    BY <1>0
  <2> QED
    BY <1>1, <1>2, <2>1, <2>2 DEF TypeOK
<1>4. LockInv'
  <2>1. arg[t] = None
    BY <1>1, <1>p DEF LockInv
  <2> QED
    BY <1>1, <1>2, <1>p, <2>1, LockMoves
<1>5. JobInv'
  BY <1>1, <1>2, <1>p DEF JobInv
<1>6. LifeInv'
  BY <1>1, <1>2, <1>p DEF LifeInv
<1>7. WorkConserving => WorkConserving'
  BY <1>2, <1>p DEF WorkConserving, Blocked
<1>8. DueInv'
  BY <1>1, <1>2, DueFrame
<1> QED
  BY <1>3, <1>0, <1>4, <1>5, <1>6, <1>7, <1>8 DEF SafeInv

LEMMA StopWorkingStep ==
  ASSUME NEW t \in Threads, SafeInv,
         StopWorking(t)
  PROVE  SafeInv' /\ (WorkConserving => WorkConserving')
<1>1. TypeOK /\ CountInv /\ LockInv /\ JobInv /\ LifeInv /\ DueInv
  BY DEF SafeInv
<1>2. UNCHANGED <<keepalive, onhold, life, job, alive, thcount_lock, queue, rwmutex,
                  v, arg, sig, held, fresh, done, dropped, due, budget>>
  BY DEF StopWorking, process, counters, jobq, calls, hist, holdVars
<1>p. /\ pc[t] = "dec" /\ pc'[t] = "loop"
      /\ \A u \in Threads : u # t => pc'[u] = pc[u]
  BY <1>1 DEF TypeOK, StopWorking
<1>0. CountInv' /\ working' \in Nat
  <2>1. WorkingSet' = WorkingSet \ {t} /\ t \in WorkingSet /\ AliveSet' = AliveSet
    BY <1>p DEF AliveSet, WorkingSet, AlivePC, WorkingPC
  <2>2. Cardinality(WorkingSet \ {t}) = Cardinality(WorkingSet) - 1 /\ Cardinality(WorkingSet \ {t}) \in Nat
    BY <2>1, AliveSetFinite, FS_RemoveElement, FS_CardinalityType
  <2> QED
    BY <1>1, <1>2, <2>1, <2>2 DEF CountInv, StopWorking
<1>3. TypeOK'
  <2>1. pc' \in [Threads -> ThreadPC]
    BY <1>1, <1>2 DEF TypeOK, StopWorking, ThreadPC, AlivePC, WorkingPC
  <2>2. working' \in Nat
    BY <1>0
  <2>3. cpc' \in [Clients -> ClientPC]
    BY <1>1, <1>2 DEF TypeOK, StopWorking, ClientPC
  <2> QED
    BY <1>1, <1>2, <2>1, <2>2, <2>3 DEF TypeOK
<1>c. \A c \in Clients : cpc'[c] = cpc[c] \/ (cpc[c] = "waiting" /\ cpc'[c] = "wait")
  BY <1>1 DEF TypeOK, StopWorking
<1>r. JobsIn(queue') = JobsIn(queue) /\ Running' = Running
  BY <1>2 DEF JobsIn, Running
<1>4. LockInv'
  <2>1. arg[t] = None
    BY <1>1, <1>p DEF LockInv
  <2> QED
    BY <1>1, <1>2, <1>p, <1>c, <2>1, LockMoves
<1>5. JobInv'
  BY <1>1, <1>2, <1>p DEF JobInv
<1>6. LifeInv'
  BY <1>1, <1>2, <1>p, <1>c DEF LifeInv
<1>7. DueInv'
  BY <1>1, <1>2, <1>c, <1>r DEF DueInv
<1>8. WorkConserving => WorkConserving'
  BY <1>2, <1>p DEF WorkConserving, Blocked
<1> QED
  BY <1>3, <1>0, <1>4, <1>5, <1>6, <1>7, <1>8 DEF SafeInv

LEMMA ThreadStartStep ==
  ASSUME NEW t \in Threads, SafeInv,
         ThreadStart(t)
  PROVE  SafeInv' /\ (WorkConserving => WorkConserving')
<1>1. TypeOK /\ CountInv /\ LockInv /\ JobInv /\ LifeInv /\ DueInv
  BY DEF SafeInv
<1>2. UNCHANGED <<keepalive, onhold, life, job, working, thcount_lock, queue,
                  rwmutex, v, arg, cpc, sig, held, fresh, done, dropped, due, budget>>
  BY DEF ThreadStart, process, counters, jobq, calls, hist, holdVars
<1>p. /\ pc[t] = "start" /\ pc'[t] = "loop"
      /\ \A u \in Threads : u # t => pc'[u] = pc[u]
      /\ life = "init"
  BY <1>1 DEF TypeOK, ThreadStart
<1>0. CountInv' /\ alive' \in Nat
  <2>1. AliveSet' = AliveSet \cup {t} /\ t \notin AliveSet /\ WorkingSet' = WorkingSet
    BY <1>p DEF AliveSet, WorkingSet, AlivePC, WorkingPC
  <2>2. Cardinality(AliveSet \cup {t}) = Cardinality(AliveSet) + 1 /\ Cardinality(AliveSet \cup {t}) \in Nat
    BY <2>1, AliveSetFinite, FS_AddElement, FS_CardinalityType
  <2> QED
    BY <1>1, <1>2, <2>1, <2>2 DEF CountInv, ThreadStart
<1>3. TypeOK'
  <2>1. pc' \in [Threads -> ThreadPC]
    BY <1>1, <1>2 DEF TypeOK, ThreadStart, ThreadPC, AlivePC, WorkingPC
  <2>2. alive' \in Nat
    BY <1>0
  <2> QED
    BY <1>1, <1>2, <2>1, <2>2 DEF TypeOK
<1>4. LockInv'
  <2>1. arg[t] = None
    BY <1>1, <1>p DEF LockInv
  <2> QED
    BY <1>1, <1>2, <1>p, <2>1, LockMoves
<1>5. JobInv'
  BY <1>1, <1>2, <1>p DEF JobInv
<1>6. LifeInv'
  BY <1>1, <1>2, <1>p DEF LifeInv
<1>7. WorkConserving => WorkConserving'
  BY <1>2, <1>p DEF WorkConserving, Blocked
<1>8. DueInv'
  BY <1>1, <1>2, DueFrame
<1> QED
  BY <1>3, <1>0, <1>4, <1>5, <1>6, <1>7, <1>8 DEF SafeInv

LEMMA ThreadExitStep ==
  ASSUME NEW t \in Threads, SafeInv,
         ThreadExit(t)
  PROVE  SafeInv' /\ (WorkConserving => WorkConserving')
<1>1. TypeOK /\ CountInv /\ LockInv /\ JobInv /\ LifeInv /\ DueInv
  BY DEF SafeInv
<1>2. UNCHANGED <<keepalive, onhold, life, job, working, queue, rwmutex, v, arg, cpc,
                  sig, held, fresh, done, dropped, due, budget>>
  BY DEF ThreadExit, process, counters, jobq, calls, hist, holdVars
<1>p. /\ pc[t] = "exit" /\ pc'[t] = "unlock"
      /\ \A u \in Threads : u # t => pc'[u] = pc[u]
      /\ thcount_lock = None /\ thcount_lock' = t
  BY <1>1 DEF TypeOK, ThreadExit
<1>0. CountInv' /\ alive' \in Nat
  <2>1. AliveSet' = AliveSet \ {t} /\ t \in AliveSet /\ WorkingSet' = WorkingSet
    BY <1>p DEF AliveSet, WorkingSet, AlivePC, WorkingPC
  <2>2. Cardinality(AliveSet \ {t}) = Cardinality(AliveSet) - 1 /\ Cardinality(AliveSet \ {t}) \in Nat
    BY <2>1, AliveSetFinite, FS_RemoveElement, FS_CardinalityType
  <2> QED
    BY <1>1, <1>2, <2>1, <2>2 DEF CountInv, ThreadExit
<1>3. TypeOK'
  <2>1. pc' \in [Threads -> ThreadPC]
    BY <1>1, <1>2 DEF TypeOK, ThreadExit, ThreadPC, AlivePC, WorkingPC
  <2>2. alive' \in Nat
    BY <1>0
  <2>3. thcount_lock' \in Callers \cup {None}
    BY <1>1, <1>2 DEF TypeOK, ThreadExit, Callers
  <2> QED
    BY <1>1, <1>2, <2>1, <2>2, <2>3 DEF TypeOK
<1>4. LockInv'
  <2>1. t \notin Clients /\ None \notin Threads \cup Clients
    BY ThreadPoolAssumption
  <2>2. \A u \in Threads : pc'[u] = "unlock" <=> thcount_lock' = u
    BY <1>1, <1>p, <2>1 DEF LockInv
  <2>3. \A c \in Clients : cpc'[c] = "lenzero" <=> thcount_lock' = c
    BY <1>1, <1>2, <1>p, <2>1 DEF LockInv
  <2>4. \A u \in Threads : /\ pc'[u] = "post" => rwmutex' = u
                           /\ arg'[u] # None => pc'[u] = "run"
    BY <1>1, <1>2, <1>p DEF LockInv
  <2>5. \A c \in Callers : rwmutex' = c => arg'[c] # None \/ (c \in Threads /\ pc'[c] = "post")
    BY <1>1, <1>2, <1>p DEF LockInv
  <2> QED
    BY <2>2, <2>3, <2>4, <2>5 DEF LockInv
<1>5. JobInv'
  BY <1>1, <1>2, <1>p DEF JobInv
<1>6. LifeInv'
  BY <1>1, <1>2, <1>p DEF LifeInv
<1>7. WorkConserving => WorkConserving'
  BY <1>2, <1>p DEF WorkConserving, Blocked
<1>8. DueInv'
  BY <1>1, <1>2, DueFrame
<1> QED
  BY <1>3, <1>0, <1>4, <1>5, <1>6, <1>7, <1>8 DEF SafeInv

LEMMA ThreadExitUnlockStep ==
  ASSUME NEW t \in Threads, SafeInv,
         ThreadExitUnlock(t)
  PROVE  SafeInv' /\ (WorkConserving => WorkConserving')
<1>1. TypeOK /\ CountInv /\ LockInv /\ JobInv /\ LifeInv /\ DueInv
  BY DEF SafeInv
<1>2. UNCHANGED <<keepalive, onhold, life, job, alive, working, queue, rwmutex, v,
                  arg, cpc, sig, held, fresh, done, dropped, due, budget>>
  BY DEF ThreadExitUnlock, process, counters, jobq, calls, hist, holdVars
<1>p. /\ pc[t] = "unlock" /\ pc'[t] = "gone"
      /\ \A u \in Threads : u # t => pc'[u] = pc[u]
      /\ thcount_lock' = None
  BY <1>1 DEF TypeOK, ThreadExitUnlock
<1>3. TypeOK'
  <2>1. pc' \in [Threads -> ThreadPC]
    BY <1>1, <1>2 DEF TypeOK, ThreadExitUnlock, ThreadPC, AlivePC, WorkingPC
  <2>2. thcount_lock' \in Callers \cup {None}
    BY <1>1, <1>2 DEF TypeOK, ThreadExitUnlock, Callers
  <2> QED
    BY <1>1, <1>2, <2>1, <2>2 DEF TypeOK
<1>4. CountInv'
  <2>1. AliveSet' = AliveSet /\ WorkingSet' = WorkingSet
    BY <1>p DEF AliveSet, WorkingSet, AlivePC, WorkingPC
  <2> QED
    BY <1>1, <1>2, <2>1 DEF CountInv
<1>5. LockInv'
  <2>1. t \notin Clients /\ None \notin Threads \cup Clients
    BY ThreadPoolAssumption
  <2>2. \A u \in Threads : pc'[u] = "unlock" <=> thcount_lock' = u
    BY <1>1, <1>p, <2>1 DEF LockInv
  <2>3. \A c \in Clients : cpc'[c] = "lenzero" <=> thcount_lock' = c
    BY <1>1, <1>2, <1>p, <2>1 DEF LockInv
  <2>4. \A u \in Threads : /\ pc'[u] = "post" => rwmutex' = u
                           /\ arg'[u] # None => pc'[u] = "run"
    BY <1>1, <1>2, <1>p DEF LockInv
  <2>5. \A c \in Callers : rwmutex' = c => arg'[c] # None \/ (c \in Threads /\ pc'[c] = "post")
    BY <1>1, <1>2, <1>p DEF LockInv
  <2> QED
    BY <2>2, <2>3, <2>4, <2>5 DEF LockInv
<1>6. JobInv'
  BY <1>1, <1>2, <1>p DEF JobInv
<1>7. LifeInv'
  BY <1>1, <1>2, <1>p DEF LifeInv
<1>8. WorkConserving => WorkConserving'
  BY <1>2, <1>p DEF WorkConserving, Blocked
<1>9. DueInv'
  BY <1>1, <1>2, DueFrame
<1> QED
  BY <1>3, <1>4, <1>5, <1>6, <1>7, <1>8, <1>9 DEF SafeInv

LEMMA ThreadInitFailsStep ==
  ASSUME NEW t \in Threads, SafeInv,
         ThreadInitFails(t)
  PROVE  SafeInv' /\ (WorkConserving => WorkConserving')
<1>1. TypeOK /\ CountInv /\ LockInv /\ JobInv /\ LifeInv /\ DueInv
  BY DEF SafeInv
<1>2. UNCHANGED <<keepalive, onhold, life, job, alive, working, thcount_lock, queue,
                  rwmutex, v, arg, cpc, sig, held, fresh, done, dropped, due>>
  BY DEF ThreadInitFails, Spend, process, counters, jobq, calls, hist, holdVars
<1>p. /\ pc[t] = "start" /\ pc'[t] = "failed"
      /\ \A u \in Threads : u # t => pc'[u] = pc[u]
      /\ life = "init"
  BY <1>1 DEF TypeOK, ThreadInitFails
<1>3. TypeOK'
  <2>1. pc' \in [Threads -> ThreadPC]
    BY <1>1, <1>2 DEF TypeOK, ThreadInitFails, Spend, ThreadPC, AlivePC, WorkingPC
  <2>2. budget' \in [Bounds -> Nat]
    BY <1>1, SpendType DEF TypeOK, ThreadInitFails, Bounds
  <2> QED
    BY <1>1, <1>2, <2>1, <2>2 DEF TypeOK
<1>4. CountInv'
  <2>1. AliveSet' = AliveSet /\ WorkingSet' = WorkingSet
    BY <1>p DEF AliveSet, WorkingSet, AlivePC, WorkingPC
  <2> QED
    BY <1>1, <1>2, <2>1 DEF CountInv
<1>5. LockInv'
  <2>1. arg[t] = None
    BY <1>1, <1>p DEF LockInv
  <2> QED
    BY <1>1, <1>2, <1>p, <2>1, LockMoves
<1>6. JobInv'
  BY <1>1, <1>2, <1>p DEF JobInv
<1>7. LifeInv'
  BY <1>1, <1>2, <1>p DEF LifeInv
<1>8. WorkConserving => WorkConserving'
  BY <1>2, <1>p DEF WorkConserving, Blocked
<1>9. DueInv'
  BY <1>1, <1>2, DueFrame
<1> QED
  BY <1>3, <1>4, <1>5, <1>6, <1>7, <1>8, <1>9 DEF SafeInv

LEMMA PullStep ==
  ASSUME NEW t \in Threads, SafeInv,
         jobqueue_pull(t)
  PROVE  SafeInv' /\ (WorkConserving => WorkConserving')
<1>1. TypeOK /\ CountInv /\ LockInv /\ JobInv /\ LifeInv /\ DueInv
  BY DEF SafeInv
<1>2. UNCHANGED <<keepalive, onhold, life, alive, working, thcount_lock, v, arg, cpc,
                  sig, held, fresh, done, dropped, due, budget>>
  BY DEF jobqueue_pull, TakeJob, process, counters, jobq, calls, hist, holdVars
<1>q. queue # <<>> => /\ Head(queue) \in Jobs /\ Tail(queue) \in Seq(Jobs)
                      /\ JobsIn(queue) \subseteq JobsIn(Tail(queue)) \cup {Head(queue)}
                      /\ Len(queue) > 1 <=> Tail(queue) # <<>>
  BY <1>1, PulledQueue DEF TypeOK
<1>e. CASE queue = <<>>
  <2>1. UNCHANGED <<job, queue, rwmutex>> /\ pc' = [pc EXCEPT ![t] = "dec"]
    BY <1>e DEF jobqueue_pull, TakeJob, jobq
  <2>2. /\ pc[t] = "pull" /\ pc'[t] = "dec"
        /\ \A u \in Threads : u # t => pc'[u] = pc[u]
    BY <1>1, <2>1 DEF TypeOK, jobqueue_pull, TakeJob
  <2>3. TypeOK'
    <3>1. pc' \in [Threads -> ThreadPC]
      BY <1>1, <2>1 DEF TypeOK, ThreadPC, AlivePC, WorkingPC
    <3> QED
      BY <1>1, <1>2, <2>1, <3>1 DEF TypeOK
  <2>4. CountInv'
    <3>1. AliveSet' = AliveSet /\ WorkingSet' = WorkingSet
      BY <2>2 DEF AliveSet, WorkingSet, AlivePC, WorkingPC
    <3> QED
      BY <1>1, <1>2, <3>1 DEF CountInv
  <2>5. LockInv' /\ JobInv' /\ LifeInv'
    <3>1. LockInv'
      <4>1. arg[t] = None
        BY <1>1, <2>2 DEF LockInv
      <4> QED
        BY <1>1, <1>2, <2>1, <2>2, <4>1, LockMoves
    <3>2. JobInv'
      BY <1>1, <2>1, <2>2 DEF JobInv
    <3>3. LifeInv'
      BY <1>1, <1>2, <2>1, <2>2 DEF LifeInv
    <3> QED
      BY <3>1, <3>2, <3>3
  <2>6. DueInv'
    BY <1>1, <1>2, <2>1, DueFrame
  <2>7. WorkConserving => WorkConserving'
    BY <1>2, <1>e, <2>1, <2>2 DEF WorkConserving, Blocked
  <2> QED
    BY <2>3, <2>4, <2>5, <2>6, <2>7 DEF SafeInv
<1>n. CASE queue # <<>>
  <2>1. /\ job' = [job EXCEPT ![t] = Head(queue)]
        /\ queue' = Tail(queue)
        /\ pc' = [pc EXCEPT ![t] = IF Len(queue) > 1 THEN "post" ELSE "run"]
        /\ rwmutex' = IF Len(queue) > 1 THEN t ELSE None
        /\ rwmutex = None /\ pc[t] = "pull"
    BY <1>n DEF jobqueue_pull, TakeJob
  <2>g. rwmutex = None /\ pc[t] = "pull"
    BY <2>1
  <2>2. Head(queue) \in Jobs /\ Head(queue) # None /\ Tail(queue) \in Seq(Jobs)
    BY <1>q, <1>n, ThreadPoolAssumption
  <2>3. TypeOK'
    <3>1. pc' \in [Threads -> ThreadPC]
      BY <1>1, <2>1 DEF TypeOK, ThreadPC, AlivePC, WorkingPC
    <3>2. job' \in [Threads -> Jobs \cup {None}]
      BY <1>1, <2>1, <2>2 DEF TypeOK
    <3>3. rwmutex' \in Callers \cup {None} /\ queue' \in Seq(Jobs)
      BY <2>1, <2>2 DEF Callers
    <3> QED
      BY <1>1, <1>2, <3>1, <3>2, <3>3 DEF TypeOK
  <2>p. /\ pc'[t] \in {"post", "run"}
        /\ pc'[t] = "post" <=> Len(queue) > 1
        /\ \A u \in Threads : u # t => pc'[u] = pc[u]
    BY <1>1, <2>1 DEF TypeOK
  <2>j. /\ job'[t] = Head(queue)
        /\ \A u \in Threads : u # t => job'[u] = job[u]
    BY <1>1, <2>1 DEF TypeOK
  <2>4. CountInv'
    <3>1. AliveSet' = AliveSet /\ WorkingSet' = WorkingSet
      BY <2>g, <2>p DEF AliveSet, WorkingSet, AlivePC, WorkingPC
    <3> QED
      BY <1>1, <1>2, <3>1 DEF CountInv
  <2>5. LockInv'
    <3>m. None \notin Threads /\ \A u \in Threads : pc[u] # "post"
      BY <1>1, <2>g, ThreadPoolAssumption DEF LockInv
    <3>1. \A u \in Threads : pc'[u] = "post" => rwmutex' = u
      BY <2>1, <2>p, <3>m
    <3>2. \A u \in Threads : arg'[u] # None => pc'[u] = "run"
      BY Zenon, <1>1, <1>2, <2>g, <2>p DEF LockInv
    <3>3. \A u \in Threads : pc'[u] = "unlock" <=> thcount_lock' = u
      BY <1>1, <1>2, <2>g, <2>p DEF LockInv
    <3>4. \A c \in Callers : rwmutex' = c => arg'[c] # None \/ (c \in Threads /\ pc'[c] = "post")
      BY <2>1, <2>p, ThreadPoolAssumption DEF Callers
    <3> QED
      BY <1>1, <1>2, <3>1, <3>2, <3>3, <3>4 DEF LockInv
  <2>6. JobInv'
    BY <1>1, <2>g, <2>2, <2>p, <2>j DEF JobInv
  <2>7. LifeInv'
    <3>1. life # "freed"
      BY <1>1, <1>n DEF LifeInv
    <3> QED
      BY <1>1, <1>2, <2>g, <2>p, <3>1 DEF LifeInv
  <2>8. DueInv'
    <3>1. Running' = Running \cup {Head(queue)}
      <4>1. job[t] = None
        BY <1>1, <2>1 DEF JobInv
      <4> QED
        BY <2>2, <2>j, <4>1 DEF Running
    <3>2. JobsIn(queue) \subseteq JobsIn(queue') \cup {Head(queue)}
      BY <1>q, <1>n, <2>1
    <3> QED
      BY <1>1, <1>2, <3>1, <3>2 DEF DueInv
  <2>9. WorkConserving => WorkConserving'
    <3> SUFFICES ASSUME WorkConserving PROVE WorkConserving'
      OBVIOUS
    <3>1. rwmutex' = None => queue' = <<>>
      BY <1>q, <1>n, <2>1, ThreadPoolAssumption
    <3>2. Blocked(pc') = Blocked(pc)
      BY <2>g, <2>p DEF Blocked
    <3>3. (\E u \in Threads : pc[u] = "wait") => (\E u \in Threads : pc'[u] = "wait")
      BY <2>g, <2>p
    <3> QED
      BY <1>2, <3>1, <3>2, <3>3 DEF WorkConserving
  <2> QED
    BY <2>3, <2>4, <2>5, <2>6, <2>7, <2>8, <2>9 DEF SafeInv
<1> QED
  BY <1>e, <1>n

LEMMA PullPostStep ==
  ASSUME NEW t \in Threads, SafeInv,
         PullPost(t)
  PROVE  SafeInv' /\ (WorkConserving => WorkConserving')
<1>1. TypeOK /\ CountInv /\ LockInv /\ JobInv /\ LifeInv /\ DueInv
  BY DEF SafeInv
<1>2. UNCHANGED <<keepalive, onhold, life, job, alive, working, thcount_lock, queue,
                  arg, cpc, sig, held, fresh, done, dropped, due, budget>>
  BY DEF PullPost, process, counters, jobq, calls, hist, holdVars
<1>p. /\ v' = 1 /\ pc' \in [Threads -> ThreadPC]
      /\ \A u \in Threads : \/ pc'[u] = [pc EXCEPT ![t] = "run"][u]
                            \/ [pc EXCEPT ![t] = "run"][u] = "blocked" /\ pc'[u] = "wait"
      /\ Blocked(pc') # {} => \E u \in Threads : pc'[u] = "wait"
  <2>1. [pc EXCEPT ![t] = "run"] \in [Threads -> ThreadPC] /\ bsem_post([pc EXCEPT ![t] = "run"])
    BY <1>1 DEF TypeOK, ThreadPC, AlivePC, WorkingPC, PullPost
  <2> QED
    BY Zenon, <2>1, BsemPostWakes
<1>r. /\ pc'[t] = "run" /\ pc[t] = "post" /\ rwmutex = t /\ rwmutex' = None
      /\ \A u \in Threads \ {t} : pc'[u] = pc[u] \/ (pc[u] = "blocked" /\ pc'[u] = "wait")
  <2>1. pc[t] = "post" /\ rwmutex' = None
    BY DEF PullPost
  <2>2. rwmutex = t
    BY <1>1, <2>1 DEF LockInv
  <2>3. pc \in [Threads -> ThreadPC]
    BY <1>1 DEF TypeOK
  <2> QED
    BY <1>p, <2>1, <2>2, <2>3
<1>3. TypeOK'
  <2>1. pc' \in [Threads -> ThreadPC]
    BY <1>p
  <2>2. rwmutex' \in Callers \cup {None}
    BY <1>r
  <2>3. v' \in {0, 1}
    BY <1>p
  <2> QED
    BY <1>1, <1>2, <2>1, <2>2, <2>3 DEF TypeOK
<1>4. CountInv'
  <2>1. AliveSet' = AliveSet /\ WorkingSet' = WorkingSet
    BY <1>r DEF AliveSet, WorkingSet, AlivePC, WorkingPC
  <2> QED
    BY <1>1, <1>2, <2>1 DEF CountInv
<1>5. LockInv'
  <2>1. \A u \in Threads : pc'[u] # "post"
    BY <1>1, <1>r DEF LockInv
  <2>2. \A u \in Threads : /\ arg'[u] # None => pc'[u] = "run"
                           /\ pc'[u] = "unlock" <=> thcount_lock' = u
    BY <1>1, <1>2, <1>r DEF LockInv
  <2> QED
    BY <1>1, <1>2, <1>r, <2>1, <2>2, ThreadPoolAssumption DEF LockInv, Callers
<1>6. JobInv'
  BY <1>1, <1>2, <1>r DEF JobInv
<1>7. LifeInv'
  BY <1>1, <1>2, <1>r DEF LifeInv
<1>8. WorkConserving => WorkConserving'
  BY <1>p DEF WorkConserving
<1>9. DueInv'
  BY <1>1, <1>2, DueFrame
<1> QED
  BY <1>3, <1>4, <1>5, <1>6, <1>7, <1>8, <1>9 DEF SafeInv

LEMMA FinishJobStep ==
  ASSUME NEW t \in Threads, SafeInv,
         FinishJob(t)
  PROVE  SafeInv' /\ (WorkConserving => WorkConserving')
<1>1. TypeOK /\ CountInv /\ LockInv /\ JobInv /\ LifeInv /\ DueInv
  BY DEF SafeInv
<1>2. UNCHANGED <<keepalive, onhold, life, alive, working, thcount_lock, queue,
                  rwmutex, v, arg, cpc, sig, held, fresh, dropped, due, budget>>
  BY DEF FinishJob, process, counters, jobq, calls, hist, holdVars
<1>p. /\ pc[t] = "run" /\ pc'[t] = "dec" /\ job'[t] = None /\ arg[t] = None
      /\ \A u \in Threads : u # t => pc'[u] = pc[u] /\ job'[u] = job[u]
  BY <1>1 DEF TypeOK, FinishJob
<1>3. TypeOK'
  <2>1. pc' \in [Threads -> ThreadPC]
    BY <1>1, <1>2 DEF TypeOK, FinishJob, ThreadPC, AlivePC, WorkingPC
  <2>2. job' \in [Threads -> Jobs \cup {None}]
    BY <1>1, <1>2 DEF TypeOK, FinishJob
  <2>3. done' \subseteq Jobs
    BY <1>1, <1>2 DEF TypeOK, FinishJob, JobInv
  <2> QED
    BY <1>1, <1>2, <2>1, <2>2, <2>3 DEF TypeOK
<1>4. CountInv'
  <2>1. AliveSet' = AliveSet /\ WorkingSet' = WorkingSet
    BY <1>p DEF AliveSet, WorkingSet, AlivePC, WorkingPC
  <2> QED
    BY <1>1, <1>2, <2>1 DEF CountInv
<1>5. LockInv'
  BY <1>1, <1>2, <1>p, LockMoves
<1>6. JobInv'
  BY <1>1, <1>p DEF JobInv
<1>7. LifeInv'
  BY <1>1, <1>2, <1>p DEF LifeInv
<1>8. DueInv'
  <2>1. Running \subseteq Running' \cup {job[t]} /\ done' = done \cup {job[t]}
    BY <1>p DEF Running, FinishJob
  <2> QED
    BY <1>1, <1>2, <2>1 DEF DueInv, JobsIn
<1>9. WorkConserving => WorkConserving'
  BY <1>2, <1>p DEF WorkConserving, Blocked
<1> QED
  BY <1>3, <1>4, <1>5, <1>6, <1>7, <1>8, <1>9 DEF SafeInv

-----------------------------------------------------------------------------
(* The calls of the pool.                                                   *)

LEMMA PushStep ==
  ASSUME NEW c \in Callers, SafeInv,
         jobqueue_push(c)
  PROVE  SafeInv' /\ (WorkConserving => WorkConserving')
<1>1. TypeOK /\ CountInv /\ LockInv /\ JobInv /\ LifeInv /\ DueInv
  BY DEF SafeInv
<1>2. UNCHANGED <<keepalive, onhold, life, pc, job, alive, working, thcount_lock, v,
                  arg, cpc, sig, held, fresh, done, dropped, due, budget>>
  BY DEF jobqueue_push, process, counters, jobq, calls, hist, holdVars
<1>q. /\ queue' \in Seq(Jobs) /\ queue' # <<>>
      /\ JobsIn(queue) \subseteq JobsIn(queue')
  <2>1. arg[c] \in Jobs /\ queue' = Append(queue, arg[c])
    BY <1>1 DEF TypeOK, jobqueue_push
  <2> QED
    BY <1>1, <2>1, PushedQueue DEF TypeOK
<1>3. TypeOK'
  <2>1. queue' \in Seq(Jobs)
    BY <1>q
  <2>2. rwmutex' \in Callers \cup {None}
    BY <1>1, <1>2 DEF TypeOK, jobqueue_push, Callers
  <2> QED
    BY <1>1, <1>2, <2>1, <2>2 DEF TypeOK
<1>4. LockInv'
  BY ThreadPoolAssumption, <1>1, <1>2 DEF LockInv, TypeOK, Callers, jobqueue_push
<1>5. LifeInv'
  BY <1>1, <1>2 DEF LifeInv, LockInv, jobqueue_push, Callers
<1>6. DueInv'
  BY <1>1, <1>2, <1>q DEF DueInv, Running
<1>7. WorkConserving => WorkConserving'
  BY <1>1, <1>2, ThreadPoolAssumption DEF WorkConserving, Blocked, jobqueue_push, Callers
<1>8. CountInv' /\ JobInv'
  BY <1>1, <1>2, CountFrame, JobFrame
<1> QED
  BY <1>3, <1>4, <1>5, <1>6, <1>7, <1>8 DEF SafeInv

LEMMA PushPostStep ==
  ASSUME NEW c \in Callers, SafeInv,
         PushPost(c)
  PROVE  SafeInv' /\ (WorkConserving => WorkConserving')
<1>1. TypeOK /\ CountInv /\ LockInv /\ JobInv /\ LifeInv /\ DueInv
  BY DEF SafeInv
<1>2. UNCHANGED <<keepalive, onhold, life, job, alive, working, thcount_lock, queue,
                  cpc, sig, held, fresh, done, dropped, due, budget>>
  BY DEF PushPost, process, counters, jobq, calls, hist, holdVars
<1>p. /\ v' = 1 /\ pc' \in [Threads -> ThreadPC]
      /\ \A u \in Threads : \/ pc'[u] = pc[u]
                            \/ pc[u] = "blocked" /\ pc'[u] = "wait"
      /\ Blocked(pc') # {} => \E u \in Threads : pc'[u] = "wait"
  <2>1. pc \in [Threads -> ThreadPC] /\ bsem_post(pc)
    BY <1>1 DEF TypeOK, ThreadPC, AlivePC, WorkingPC, PushPost
  <2> QED
    BY <2>1, BsemPostWakes
<1>3. TypeOK'
  <2>1. pc' \in [Threads -> ThreadPC]
    BY <1>p
  <2>2. rwmutex' \in Callers \cup {None}
    BY <1>1, <1>2 DEF TypeOK, PushPost, Callers
  <2>3. v' \in {0, 1}
    BY <1>p
  <2>4. arg' \in [Callers -> Jobs \cup {None}]
    BY <1>1, <1>2 DEF TypeOK, PushPost, Callers
  <2> QED
    BY <1>1, <1>2, <2>1, <2>2, <2>3, <2>4 DEF TypeOK
<1>4. CountInv'
  <2>1. AliveSet' = AliveSet /\ WorkingSet' = WorkingSet
    BY <1>p DEF AliveSet, WorkingSet, AlivePC, WorkingPC
  <2> QED
    BY <1>1, <1>2, <2>1 DEF CountInv
<1>5. LockInv'
  <2>1. rwmutex = c /\ rwmutex' = None /\ arg[c] # None /\ arg' = [arg EXCEPT ![c] = None]
    BY DEF PushPost
  <2>2. \A u \in Threads : pc'[u] # "post"
    BY <1>1, <1>p, <2>1 DEF LockInv
  <2>3. \A u \in Threads : /\ arg'[u] # None => pc'[u] = "run"
                           /\ pc'[u] = "unlock" <=> thcount_lock' = u
    BY <1>1, <1>2, <1>p, <2>1 DEF LockInv, TypeOK, Callers
  <2> QED
    BY <1>1, <1>2, <2>1, <2>2, <2>3, ThreadPoolAssumption DEF LockInv, Callers
<1>6. JobInv'
  BY <1>1, <1>2, <1>p DEF JobInv
<1>7. LifeInv'
  BY SMTT(20), <1>1, <1>2, <1>p DEF LifeInv, TypeOK, PushPost, Callers
<1>8. WorkConserving => WorkConserving'
  BY <1>p DEF WorkConserving
<1>9. DueInv'
  BY <1>1, <1>2, DueFrame
<1> QED
  BY <1>3, <1>4, <1>5, <1>6, <1>7, <1>8, <1>9 DEF SafeInv

LEMMA AddSteps ==
  ASSUME NEW c \in Callers, NEW j \in Jobs, SafeInv,
         thpool_add_work(c, j) \/ AddWorkFails(c, j)
  PROVE  SafeInv' /\ (WorkConserving => WorkConserving')
<1>1. TypeOK /\ CountInv /\ LockInv /\ JobInv /\ LifeInv /\ DueInv
  BY DEF SafeInv
<1>2. UNCHANGED <<keepalive, onhold, life, pc, job, alive, working, thcount_lock,
                  queue, rwmutex, v, cpc, sig, held, done, due>>
  BY DEF thpool_add_work, AddWorkFails, MayCall, Spend, process, calls, hist, counters,
     jobq, holdVars
<1>3. TypeOK'
  <2>1. arg' \in [Callers -> Jobs \cup {None}]
    BY <1>1, <1>2 DEF TypeOK, thpool_add_work, AddWorkFails, MayCall, Spend, process, calls, hist,
       Callers
  <2>2. fresh' \subseteq Jobs
    BY <1>1, <1>2 DEF TypeOK, thpool_add_work, AddWorkFails, MayCall, Spend, process, calls, hist
  <2>3. dropped' \subseteq Jobs
    BY <1>1, <1>2 DEF TypeOK, thpool_add_work, AddWorkFails, MayCall, Spend, process, calls, hist
  <2>4. budget' \in [Bounds -> Nat]
    BY <1>1, SpendType DEF TypeOK, thpool_add_work, AddWorkFails, process, Bounds
  <2> QED
    BY <1>1, <1>2, <2>1, <2>2, <2>3, <2>4 DEF TypeOK
<1>a. \/ arg' = arg
      \/ MayCall(c) /\ arg' = [arg EXCEPT ![c] = j]
  BY DEF thpool_add_work, AddWorkFails, calls
<1>b. ASSUME MayCall(c), arg' = [arg EXCEPT ![c] = j]
      PROVE  LockInv' /\ LifeInv'
  <2>1. /\ arg'[c] = j /\ j # None
        /\ \A d \in Callers : d # c => arg'[d] = arg[d]
    BY <1>1, <1>b, ThreadPoolAssumption DEF TypeOK
  <2>2. c \in Threads => pc[c] = "run"
    BY <1>b, ThreadPoolAssumption DEF MayCall
  <2>3. \A t \in Threads : arg'[t] # None => pc'[t] = "run"
    BY <1>1, <1>2, <2>1, <2>2 DEF LockInv, Callers
  <2>4. \A d \in Callers : rwmutex' = d => arg'[d] # None \/ (d \in Threads /\ pc'[d] = "post")
    BY <1>1, <1>2, <2>1 DEF LockInv
  <2>5. LockInv'
    BY <1>1, <1>2, <2>3, <2>4 DEF LockInv
  <2>6. life # "open" => \A d \in Clients : cpc[d] = "idle" /\ arg'[d] = None
    BY <1>1, <1>b, <2>1, ThreadPoolAssumption DEF LifeInv, MayCall, Callers
  <2>7. LifeInv'
    BY <1>1, <1>2, <2>6 DEF LifeInv
  <2> QED
    BY <2>5, <2>7
<1>4. LockInv'
  BY <1>1, <1>2, <1>a, <1>b, LockFrame
<1>5. LifeInv'
  BY <1>1, <1>2, <1>a, <1>b, LifeFrame
<1>6. CountInv' /\ JobInv' /\ DueInv' /\ (WorkConserving => WorkConserving')
  BY <1>1, <1>2, CountFrame, JobFrame, DueFrame, WorkFrame
<1> QED
  BY <1>3, <1>4, <1>5, <1>6 DEF SafeInv

LEMMA WaitCallStep ==
  ASSUME NEW c \in Clients, SafeInv,
         thpool_wait(c)
  PROVE  SafeInv' /\ (WorkConserving => WorkConserving')
<1>1. TypeOK /\ CountInv /\ LockInv /\ JobInv /\ LifeInv /\ DueInv
  BY DEF SafeInv
<1>2. UNCHANGED <<keepalive, onhold, life, pc, job, alive, working, thcount_lock,
                  queue, rwmutex, v, arg, sig, held, fresh, done, dropped>>
  BY DEF thpool_wait, MayCall, Spend, process, counters, jobq, calls, hist, holdVars
<1>3. TypeOK'
  <2>1. cpc' \in [Clients -> ClientPC]
    BY <1>1, <1>2 DEF TypeOK, thpool_wait, MayCall, Spend, ClientPC
  <2>2. due' \in [Clients -> SUBSET Jobs]
    <3>1. JobsIn(queue) \cup Running \subseteq Jobs
      BY <1>1, QueuedJobs DEF TypeOK, Running
    <3> QED
      BY <1>1, <3>1 DEF TypeOK, thpool_wait
  <2>3. budget' \in [Bounds -> Nat]
    BY <1>1, SpendType DEF TypeOK, thpool_wait, Bounds
  <2> QED
    BY <1>1, <1>2, <2>1, <2>2, <2>3 DEF TypeOK
<1>a. /\ cpc[c] = "idle" /\ cpc'[c] = "wait" /\ life = "open"
      /\ \A d \in Clients : d # c => cpc'[d] = cpc[d]
  BY <1>1, ThreadPoolAssumption DEF TypeOK, thpool_wait, MayCall
<1>4. LockInv'
  BY <1>1, <1>2, <1>a, LockMoves
<1>5. LifeInv'
  BY <1>1, <1>2, <1>a DEF LifeInv
<1>6. DueInv'
  <2>1. JobsIn(queue') = JobsIn(queue) /\ Running' = Running
    BY <1>2 DEF JobsIn, Running
  <2>2. /\ due'[c] = JobsIn(queue) \cup Running
        /\ \A d \in Clients : d # c => due'[d] = due[d]
    BY <1>1 DEF TypeOK, thpool_wait
  <2> QED
    BY <1>1, <1>2, <1>a, <2>1, <2>2 DEF DueInv
<1>7. CountInv' /\ JobInv' /\ (WorkConserving => WorkConserving')
  BY <1>1, <1>2, CountFrame, JobFrame, WorkFrame
<1> QED
  BY <1>3, <1>4, <1>5, <1>6, <1>7 DEF SafeInv

LEMMA WaitSteps ==
  ASSUME NEW c \in Clients, SafeInv,
         WaitReadLen(c) \/ WaitReadWorking(c) \/ WaitSpuriousWakeup(c)
  PROVE  SafeInv' /\ (WorkConserving => WorkConserving')
<1>1. TypeOK /\ CountInv /\ LockInv /\ JobInv /\ LifeInv /\ DueInv
  BY DEF SafeInv
<1>2. UNCHANGED <<keepalive, onhold, life, pc, job, alive, working, queue, rwmutex,
                  v, arg, sig, held, fresh, done, dropped, budget>>
  BY DEF WaitReadLen, WaitReadWorking, WaitSpuriousWakeup, process, counters, jobq,
     calls, hist, holdVars
<1>3. TypeOK'
  <2>1. cpc' \in [Clients -> ClientPC]
    <3>1. CASE WaitReadLen(c)
      BY <1>1, <3>1 DEF TypeOK, WaitReadLen, ClientPC
    <3>2. CASE WaitReadWorking(c)
      BY Zenon, <1>1, <3>2 DEF TypeOK, WaitReadWorking, ClientPC
    <3>3. CASE WaitSpuriousWakeup(c)
      BY <1>1, <3>3 DEF TypeOK, WaitSpuriousWakeup, ClientPC
    <3> QED
      BY <3>1, <3>2, <3>3
  <2>2. due' \in [Clients -> SUBSET Jobs]
    BY <1>1, <1>2 DEF TypeOK, WaitReadLen, WaitReadWorking,
       WaitSpuriousWakeup, counters
  <2>3. thcount_lock' \in Callers \cup {None}
    BY <1>1, <1>2 DEF TypeOK, WaitReadLen, WaitReadWorking,
       WaitSpuriousWakeup, counters, Callers
  <2> QED
    BY <1>1, <1>2, <2>1, <2>2, <2>3 DEF TypeOK
<1>a. /\ cpc[c] # "idle" /\ \A d \in Clients : d # c => cpc'[d] = cpc[d]
      /\ \/ thcount_lock' = thcount_lock /\ cpc[c] # "lenzero" /\ cpc'[c] # "lenzero"
         \/ thcount_lock = None /\ thcount_lock' = c /\ cpc'[c] = "lenzero"
         \/ thcount_lock' = None /\ cpc[c] = "lenzero" /\ cpc'[c] # "lenzero"
  <2>1. CASE WaitReadLen(c)
    BY <1>1, <2>1 DEF TypeOK, WaitReadLen
  <2>2. CASE WaitReadWorking(c)
    BY <1>1, <2>2 DEF TypeOK, WaitReadWorking
  <2>3. CASE WaitSpuriousWakeup(c)
    BY <1>1, <2>3 DEF TypeOK, WaitSpuriousWakeup, counters
  <2> QED
    BY <2>1, <2>2, <2>3
<1>4. LockInv'
  <2>1. c \notin Threads /\ None \notin Callers
    BY ThreadPoolAssumption DEF Callers
  <2>2. \A t \in Threads : pc'[t] = "unlock" <=> thcount_lock' = t
    <3>1. \A t \in Threads : thcount_lock' = t <=> thcount_lock = t
      <4>1. cpc[c] = "lenzero" => thcount_lock = c
        BY <1>1 DEF LockInv
      <4> QED
        BY <1>a, <2>1, <4>1 DEF Callers
    <3> QED
      BY <1>1, <1>2, <3>1 DEF LockInv
  <2>3. \A d \in Clients : cpc'[d] = "lenzero" <=> thcount_lock' = d
    BY <1>1, <1>a, <2>1 DEF LockInv, Callers
  <2> QED
    BY <1>1, <1>2, <2>2, <2>3 DEF LockInv
<1>5. LifeInv'
  BY <1>1, <1>2, <1>a DEF LifeInv
<1>6. DueInv'
  <2>1. queue = <<>> => JobsIn(queue) = {}
    BY DEF JobsIn
  <2>2. JobsIn(queue') = JobsIn(queue) /\ Running' = Running
    BY <1>2 DEF JobsIn, Running
  <2>3. /\ cpc'[c] = "idle" => due'[c] = {}
        /\ cpc'[c] # "idle" => due'[c] = due[c]
        /\ cpc'[c] = "lenzero" => queue = <<>>
        /\ \A d \in Clients : d # c => due'[d] = due[d]
    <3>1. CASE WaitReadLen(c)
      BY <1>1, <3>1 DEF TypeOK, WaitReadLen
    <3>2. CASE WaitReadWorking(c)
      BY <1>1, <3>2 DEF TypeOK, WaitReadWorking
    <3>3. CASE WaitSpuriousWakeup(c)
      BY <1>1, <3>3 DEF TypeOK, WaitSpuriousWakeup
    <3> QED
      BY <3>1, <3>2, <3>3
  <2> QED
    BY <1>1, <1>2, <1>a, <2>1, <2>2, <2>3 DEF DueInv
<1>7. CountInv' /\ JobInv' /\ (WorkConserving => WorkConserving')
  BY <1>1, <1>2, CountFrame, JobFrame, WorkFrame
<1> QED
  BY <1>3, <1>4, <1>5, <1>6, <1>7 DEF SafeInv

LEMMA PauseSteps ==
  ASSUME NEW c \in Clients, SafeInv,
         thpool_pause(c) \/ thpool_resume(c)
  PROVE  SafeInv' /\ (WorkConserving => WorkConserving')
<1>1. TypeOK /\ CountInv /\ LockInv /\ JobInv /\ LifeInv /\ DueInv
  BY DEF SafeInv
<1>2. UNCHANGED <<keepalive, life, pc, job, alive, working, thcount_lock, queue,
                  rwmutex, v, arg, cpc, held, fresh, done, dropped, due>>
  BY DEF thpool_pause, thpool_resume, Spend, process, counters, jobq, calls, hist,
     holdVars
<1>3. TypeOK'
  <2>1. sig' \subseteq Threads
    BY <1>1, <1>2 DEF TypeOK, thpool_pause, thpool_resume, Spend
  <2>2. onhold' \in BOOLEAN
    BY Zenon, <1>1, <1>2 DEF TypeOK, thpool_pause, thpool_resume, Spend
  <2>3. budget' \in [Bounds -> Nat]
    BY <1>1, SpendType DEF TypeOK, thpool_pause, thpool_resume, Bounds
  <2> QED
    BY <1>1, <1>2, <2>1, <2>2, <2>3 DEF TypeOK
<1>4. CountInv' /\ LockInv' /\ JobInv'
  BY <1>1, <1>2, CountFrame, LockFrame, JobFrame
<1>5. LifeInv' /\ DueInv' /\ (WorkConserving => WorkConserving')
  BY <1>1, <1>2, LifeFrame, DueFrame, WorkFrame
<1> QED
  BY <1>3, <1>4, <1>5 DEF SafeInv

LEMMA HoldSteps ==
  ASSUME NEW t \in Threads, SafeInv,
         thread_hold(t) \/ HoldEnds(t)
  PROVE  SafeInv' /\ (WorkConserving => WorkConserving')
<1>1. TypeOK /\ CountInv /\ LockInv /\ JobInv /\ LifeInv /\ DueInv
  BY DEF SafeInv
<1>2. UNCHANGED <<keepalive, life, pc, job, alive, working, thcount_lock, queue,
                  rwmutex, v, arg, cpc, fresh, done, dropped, due, budget>>
  BY DEF thread_hold, HoldEnds, process, counters, jobq, calls, hist, holdVars
<1>3. TypeOK'
  <2>1. onhold' \in BOOLEAN
    BY Zenon, <1>1, <1>2 DEF TypeOK, thread_hold, HoldEnds
  <2>2. sig' \subseteq Threads
    BY <1>1, <1>2 DEF TypeOK, thread_hold, HoldEnds
  <2>3. held' \subseteq Threads
    BY <1>1, <1>2 DEF TypeOK, thread_hold, HoldEnds
  <2> QED
    BY <1>1, <1>2, <2>1, <2>2, <2>3 DEF TypeOK
<1>4. CountInv' /\ LockInv' /\ JobInv'
  BY <1>1, <1>2, CountFrame, LockFrame, JobFrame
<1>5. LifeInv' /\ DueInv' /\ (WorkConserving => WorkConserving')
  BY <1>1, <1>2, LifeFrame, DueFrame, WorkFrame
<1> QED
  BY <1>3, <1>4, <1>5 DEF SafeInv

LEMMA InitEndSteps ==
  ASSUME SafeInv,
         InitReturnsNull \/ InitReturns
  PROVE  SafeInv' /\ (WorkConserving => WorkConserving')
<1>1. TypeOK /\ CountInv /\ LockInv /\ JobInv /\ LifeInv /\ DueInv
  BY DEF SafeInv
<1>2. UNCHANGED <<keepalive, onhold, pc, job, alive, working, thcount_lock, queue,
                  rwmutex, v, arg, cpc, sig, held, fresh, done, dropped, due>>
  BY DEF InitReturnsNull, InitReturns, Spend, process, counters, jobq, calls, hist,
     holdVars
<1>3. TypeOK'
  <2>1. life' \in {"init", "null", "open", "closing", "freed"}
    BY <1>1, <1>2 DEF TypeOK, InitReturnsNull, InitReturns, Spend
  <2>2. budget' \in [Bounds -> Nat]
    BY <1>1, SpendType DEF TypeOK, InitReturnsNull, InitReturns, Bounds
  <2> QED
    BY <1>1, <1>2, <2>1, <2>2 DEF TypeOK
<1>4. LifeInv'
  <2>1. CASE InitReturns
    <3>1. AliveSet = Threads
      BY Zenon, <1>1, <2>1, FS_Subset, ThreadPoolAssumption DEF CountInv, AliveSet, InitReturns
    <3> QED
      BY <1>1, <1>2, <2>1, <3>1 DEF LifeInv, AliveSet, AlivePC, WorkingPC, InitReturns
  <2>2. CASE InitReturnsNull
    BY <1>1, <1>2, <2>2 DEF LifeInv, InitReturnsNull
  <2> QED
    BY <2>1, <2>2
<1>5. CountInv' /\ LockInv' /\ JobInv'
  BY <1>1, <1>2, CountFrame, LockFrame, JobFrame
<1>6. DueInv' /\ (WorkConserving => WorkConserving')
  BY <1>1, <1>2, DueFrame, WorkFrame
<1> QED
  BY <1>3, <1>4, <1>5, <1>6 DEF SafeInv

LEMMA DestroySteps ==
  ASSUME SafeInv,
         thpool_destroy \/ DestroyPoll
  PROVE  SafeInv' /\ (WorkConserving => WorkConserving')
<1>1. TypeOK /\ CountInv /\ LockInv /\ JobInv /\ LifeInv /\ DueInv
  BY DEF SafeInv
<1>2. UNCHANGED <<onhold, job, alive, working, thcount_lock, queue, rwmutex, arg,
                  cpc, sig, held, fresh, done, dropped, due, budget>>
  BY DEF thpool_destroy, DestroyPoll, bsem_post_all, process, counters, jobq, calls,
     hist, holdVars
<1>3. TypeOK'
  <2>1. keepalive' \in BOOLEAN
    BY Zenon, <1>1, <1>2 DEF TypeOK, thpool_destroy,
       DestroyPoll, bsem_post_all, process
  <2>2. life' \in {"init", "null", "open", "closing", "freed"}
    BY <1>1, <1>2 DEF TypeOK, thpool_destroy,
       DestroyPoll, bsem_post_all, process
  <2>3. pc' \in [Threads -> ThreadPC]
    BY <1>1, <1>2 DEF TypeOK, thpool_destroy,
       DestroyPoll, bsem_post_all, process, ThreadPC, AlivePC,
       WorkingPC
  <2>4. v' \in {0, 1}
    BY <1>1, <1>2 DEF TypeOK, thpool_destroy,
       DestroyPoll, bsem_post_all, process
  <2> QED
    BY <1>1, <1>2, <2>1, <2>2, <2>3, <2>4 DEF TypeOK
<1>4. CountInv'
  <2>1. AliveSet' = AliveSet /\ WorkingSet' = WorkingSet
    BY <1>1, <1>2 DEF TypeOK, AliveSet, WorkingSet, AlivePC, WorkingPC, thpool_destroy,
       DestroyPoll, bsem_post_all, process
  <2> QED
    BY <1>1, <1>2, <2>1 DEF CountInv
<1>a. \A u \in Threads : pc'[u] = pc[u] \/ (pc[u] = "blocked" /\ pc'[u] = "wait")
  BY DEF thpool_destroy, DestroyPoll, bsem_post_all
<1>5. LockInv'
  BY <1>1, <1>2, <1>a DEF LockInv
<1>6. JobInv'
  BY <1>1, <1>2, <1>a DEF JobInv
<1>7. LifeInv'
  <2>1. CASE thpool_destroy
    BY <1>1, <1>2, <2>1 DEF LifeInv, thpool_destroy
  <2>2. CASE DestroyPoll
    BY <1>1, <1>2, <1>a, <2>2 DEF LifeInv, DestroyPoll, process
  <2> QED
    BY <2>1, <2>2
<1>8. WorkConserving => WorkConserving'
  <2>1. CASE thpool_destroy
    BY <1>2, <2>1 DEF WorkConserving, Blocked, thpool_destroy
  <2>2. CASE DestroyPoll
    BY <2>2 DEF WorkConserving, Blocked, DestroyPoll, bsem_post_all
  <2> QED
    BY <2>1, <2>2
<1>9. DueInv'
  BY <1>1, <1>2, DueFrame
<1> QED
  BY <1>3, <1>4, <1>5, <1>6, <1>7, <1>8, <1>9 DEF SafeInv

LEMMA DestroyFreeStep ==
  ASSUME SafeInv,
         DestroyFree
  PROVE  SafeInv' /\ (WorkConserving => WorkConserving')
<1>1. TypeOK /\ CountInv /\ LockInv /\ JobInv /\ LifeInv /\ DueInv
  BY DEF SafeInv
<1>2. UNCHANGED <<keepalive, onhold, pc, job, alive, working, thcount_lock, rwmutex,
                  arg, cpc, sig, held, fresh, done, due, budget>>
  BY DEF DestroyFree, process, counters, jobq, calls, hist, holdVars
<1>3. TypeOK'
  <2>1. life' \in {"init", "null", "open", "closing", "freed"}
    BY <1>1, <1>2 DEF TypeOK, DestroyFree
  <2>2. queue' \in Seq(Jobs)
    BY DEF DestroyFree
  <2>3. v' \in {0, 1}
    BY <1>1, <1>2 DEF TypeOK, DestroyFree
  <2>4. dropped' \subseteq Jobs
    <3>1. JobsIn(queue) \subseteq Jobs
      BY <1>1, QueuedJobs DEF TypeOK
    <3> QED
      BY <1>1, <3>1 DEF TypeOK, DestroyFree
  <2> QED
    BY <1>1, <1>2, <2>1, <2>2, <2>3, <2>4 DEF TypeOK
<1>4. LifeInv'
  <2>1. AliveSet = {}
    BY <1>1, AliveSetFinite, FS_EmptySet DEF CountInv, DestroyFree
  <2> QED
    BY <1>1, <1>2, <2>1 DEF LifeInv, AliveSet, AlivePC, WorkingPC, ThreadPC, TypeOK, DestroyFree
<1>5. DueInv'
  BY <1>1, <1>2 DEF DueInv, LifeInv, DestroyFree
<1>6. WorkConserving => WorkConserving'
  BY ThreadPoolAssumption, <1>1, <1>2 DEF WorkConserving, TypeOK, Callers, Blocked, DestroyFree
<1>7. CountInv' /\ LockInv' /\ JobInv'
  BY <1>1, <1>2, CountFrame, LockFrame, JobFrame
<1> QED
  BY <1>3, <1>4, <1>5, <1>6, <1>7 DEF SafeInv

-----------------------------------------------------------------------------
\* Every step of the pool keeps SafeInv, and keeps WorkConserving.
LEMMA SafeStep ==
  ASSUME SafeInv, [Next]_vars
  PROVE  SafeInv' /\ (WorkConserving => WorkConserving')
<1>1. CASE \E t \in Threads : Worker(t) \/ HoldEnds(t) \/ ThreadInitFails(t)
  <2>1. PICK t \in Threads : Worker(t) \/ HoldEnds(t) \/ ThreadInitFails(t)
    BY <1>1
  <2>2. t \in Callers
    BY DEF Callers
  <2>3. CASE WorkerStep(t)
    BY <2>2, <2>3, IdleSteps, StartWorkingStep, StopWorkingStep, ThreadStartStep,
       ThreadExitStep, ThreadExitUnlockStep, PullStep, PullPostStep, FinishJobStep,
       PushStep, PushPostStep DEF WorkerStep
  <2>4. CASE SpuriousWakeup(t) \/ thread_hold(t) \/ HoldEnds(t) \/ ThreadInitFails(t)
    BY <2>4, IdleSteps, HoldSteps, ThreadInitFailsStep
  <2>5. CASE \E j \in Jobs : thpool_add_work(t, j) \/ AddWorkFails(t, j)
    BY <2>2, <2>5, AddSteps
  <2> QED
    BY <2>1, <2>3, <2>4, <2>5 DEF Worker
<1>2. CASE \E c \in Clients : Client(c)
  <2>1. PICK c \in Clients : Client(c)
    BY <1>2
  <2>2. c \in Callers
    BY DEF Callers
  <2> QED
    BY <2>1, <2>2, PushStep, PushPostStep, WaitSteps, WaitCallStep, AddSteps, PauseSteps
    DEF Client, ClientStep
<1>3. CASE InitReturnsNull \/ InitReturns \/ thpool_destroy \/ DestroyStep
  BY SMTT(30), <1>3, InitEndSteps, DestroySteps, DestroyFreeStep DEF DestroyStep
<1>4. CASE UNCHANGED vars
  <2>1. UNCHANGED <<keepalive, onhold, life, pc, job, alive, working, thcount_lock, queue,
                    rwmutex, v, arg, cpc, sig, held, fresh, done, dropped, due, budget>>
    BY <1>4 DEF vars, process, counters, jobq, calls, hist, holdVars
  <2>2. TypeOK /\ CountInv /\ LockInv /\ JobInv /\ LifeInv /\ DueInv
    BY DEF SafeInv
  <2>3. TypeOK'
    BY <2>1, <2>2 DEF TypeOK
  <2>4. CountInv' /\ LockInv' /\ JobInv'
    BY <2>1, <2>2, CountFrame, LockFrame, JobFrame
  <2>5. LifeInv' /\ DueInv' /\ (WorkConserving => WorkConserving')
    BY <2>1, <2>2, LifeFrame, DueFrame, WorkFrame
  <2> QED
    BY <2>3, <2>4, <2>5 DEF SafeInv
<1> QED
  BY <1>1, <1>2, <1>3, <1>4 DEF Next, InitStep, InitSpin, Finished

\* SafeInv is enough for thpool_wait and thpool_destroy.
LEMMA SafeWait == SafeInv => WaitReturnsAfterDueJobs
<1> SUFFICES ASSUME SafeInv, NEW c \in Clients, cpc[c] = "lenzero", working = 0
             PROVE  due[c] \subseteq done
  BY DEF WaitReturnsAfterDueJobs
<1>1. WorkingSet = {}
  BY Zenon, AliveSetFinite, FS_EmptySet DEF SafeInv, CountInv
<1>2. Running = {}
  BY <1>1 DEF SafeInv, JobInv, WorkingSet, WorkingPC, Running
<1> QED
  BY <1>2 DEF SafeInv, DueInv

LEMMA SafeFree == SafeInv => FreedOnlyWhenIdle
<1> SUFFICES ASSUME SafeInv, life = "freed"
             PROVE  /\ Running = {} /\ queue = <<>> /\ rwmutex = None
                    /\ \A t \in Threads : pc[t] \in {"unlock", "gone"}
  BY DEF FreedOnlyWhenIdle
<1>1. queue = <<>> /\ \A t \in Threads : pc[t] \in {"unlock", "gone"}
  BY DEF SafeInv, LifeInv
<1>2. Running = {}
  BY <1>1 DEF SafeInv, JobInv, Running
<1>3. rwmutex = None
  BY <1>1 DEF SafeInv, LockInv, LifeInv, TypeOK, Callers
<1> QED
  BY <1>1, <1>2, <1>3

\* IInv holds in every reachable state of the pool.
THEOREM InductiveInvariant == Spec => []IInv
<1>1. Init => IInv
  BY InitIInv
<1>2. IInv /\ [Next]_vars => IInv'
  BY SafeStep DEF IInv
<1> QED
  BY <1>1, <1>2, PTL DEF Spec

\* The variables of the pool keep their types; in particular
\* num_threads_alive and num_threads_working never drop below zero.
THEOREM TypeCorrect == Spec => []TypeOK
<1>1. IInv => TypeOK
  BY DEF IInv, SafeInv
<1> QED
  BY <1>1, InductiveInvariant, PTL

\* No wakeup is lost between jobqueue_push, jobqueue_pull and bsem_wait.
THEOREM NoLostWakeup == Spec => []WorkConserving
<1>1. IInv => WorkConserving
  BY DEF IInv
<1> QED
  BY <1>1, InductiveInvariant, PTL

\* thpool_wait returns only after every job that was queued or running when
\* it was called has returned.
THEOREM WaitIsSound == Spec => []WaitReturnsAfterDueJobs
<1>1. IInv => WaitReturnsAfterDueJobs
  BY SafeWait DEF IInv
<1> QED
  BY <1>1, InductiveInvariant, PTL

\* thpool_destroy frees the pool only when it is idle.
THEOREM FreeIsSound == Spec => []FreedOnlyWhenIdle
<1>1. IInv => FreedOnlyWhenIdle
  BY SafeFree DEF IInv
<1> QED
  BY <1>1, InductiveInvariant, PTL
====
