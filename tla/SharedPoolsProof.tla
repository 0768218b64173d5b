--------------------------- MODULE SharedPoolsProof ---------------------------
(***************************************************************************)
(* What the other pools of a process do to threads_keepalive and           *)
(* threads_on_hold costs a pool its progress, but not its safety.          *)
(* WorkConserving is what does not survive: while another pool's           *)
(* thpool_destroy has cleared threads_keepalive a worker may leave its     *)
(* loop with jobs queued, and another pool's thpool_init may then set      *)
(* threads_keepalive again.  SafeInv does without it, and is enough for    *)
(* what thread_pool.h promises: the pool implements JobPool.               *)
(***************************************************************************)
EXTENDS SharedPools, ThreadPoolPromise, ThreadPoolProof

LEMMA OtherPoolSteps ==
  ASSUME SafeInv, OtherPoolInit \/ OtherPoolDestroy
  PROVE  SafeInv'
<1>1. TypeOK /\ CountInv /\ LockInv /\ JobInv /\ LifeInv /\ DueInv
  BY DEF SafeInv
<1>2. UNCHANGED <<life, pc, job, alive, working, thcount_lock, queue, rwmutex, v, arg,
                  cpc, sig, held, fresh, done, dropped, due>>
  BY DEF OtherPoolInit, OtherPoolDestroy, Spend, counters, jobq, calls, hist, holdVars
<1>3. TypeOK'
  <2>1. keepalive' \in BOOLEAN /\ onhold' \in BOOLEAN
    BY Zenon, <1>1 DEF TypeOK, OtherPoolInit, OtherPoolDestroy, holdVars
  <2>2. budget' \in [Bounds -> Nat]
    BY <1>1 DEF TypeOK, OtherPoolInit, OtherPoolDestroy, Spend, Bounds
  <2> QED
    BY <1>1, <1>2, <2>1, <2>2 DEF TypeOK
<1>4. CountInv' /\ LockInv' /\ JobInv' /\ LifeInv' /\ DueInv'
  BY <1>1, <1>2 DEF CountInv, AliveSet, WorkingSet, LockInv, JobInv, LifeInv, DueInv, Running,
     JobsIn
<1> QED
  BY <1>3, <1>4 DEF SafeInv

\* SafeInv holds in every reachable state of a pool among others.
THEOREM SharedInvariant == SharedSpec => []SafeInv
<1>1. Init => SafeInv
  BY InitIInv DEF IInv
<1>2. SafeInv /\ [SharedNext]_vars => SafeInv'
  BY SafeStep, OtherPoolSteps DEF SharedNext
<1> QED
  BY <1>1, <1>2, PTL DEF SharedSpec

\* Whatever other pools are created and destroyed, thpool_wait returns only
\* after every job that was queued or running when it was called has returned.
THEOREM SharedWaitIsSound == SharedSpec => []WaitReturnsAfterDueJobs
<1>1. SafeInv => WaitReturnsAfterDueJobs
  BY SafeWait
<1> QED
  BY <1>1, SharedInvariant, PTL

\* Whatever other pools are created and destroyed, thpool_destroy frees the
\* pool only when it is idle.
THEOREM SharedFreeIsSound == SharedSpec => []FreedOnlyWhenIdle
<1>1. SafeInv => FreedOnlyWhenIdle
  BY SafeFree
<1> QED
  BY <1>1, SharedInvariant, PTL
-----------------------------------------------------------------------------
\* Every job is in one place only: not submitted, in the hands of one caller of
\* thpool_add_work, once in the queue, or with one worker.
PlaceInv ==
  /\ \A c \in Pushing : arg[c] \notin fresh
  /\ \A c, d \in Pushing : arg[c] = arg[d] => c = d
  /\ \A t, u \in Threads : job[t] = job[u] => t = u \/ job[t] = None
  /\ \A i, k \in DOMAIN queue : queue[i] = queue[k] => i = k
  /\ JobsIn(queue) \cap Running = {}
  /\ (fresh \cup PushedJobs) \cap (JobsIn(queue) \cup Running) = {}

\* A step of the promise, or one that the promise does not see.
PromiseStep == [Promise!Next]_(Promise!vars)

LEMMA QuietStep ==
  ASSUME PlaceInv, UNCHANGED <<life, fresh, arg, rwmutex, queue, job, done, dropped>>
  PROVE  PlaceInv' /\ PromiseStep
<1>1. Pushing' = Pushing /\ PushedJobs' = PushedJobs /\ Running' = Running
  BY DEF Pushing, PushedJobs, Running
<1>2. PlaceInv'
  BY <1>1 DEF PlaceInv, JobsIn
<1> QED
  BY <1>1, <1>2 DEF PromiseStep, Promise!vars

\* The globals of the other pools are not seen.
LEMMA OtherPoolQuiet ==
  ASSUME PlaceInv, OtherPoolInit \/ OtherPoolDestroy
  PROVE  PlaceInv' /\ PromiseStep
  BY QuietStep DEF OtherPoolInit, OtherPoolDestroy, counters, jobq, calls, hist

\* A job is submitted: it goes from fresh to its caller, which the promise
\* does not tell apart, or it is refused.
LEMMA AddWorkPromise ==
  ASSUME SafeInv, PlaceInv, NEW c \in Callers, NEW j \in Jobs, thpool_add_work(c, j)
  PROVE  PlaceInv' /\ PromiseStep
<1>1. /\ arg[c] = None /\ j \in fresh /\ fresh' = fresh \ {j}
      /\ arg' = [arg EXCEPT ![c] = j]
      /\ UNCHANGED <<life, queue, rwmutex, job, done, dropped>>
  BY DEF thpool_add_work, MayCall, process, jobq, hist
<1>2. arg \in [Callers -> Jobs \cup {None}] /\ j # None
  BY ThreadPoolAssumption DEF SafeInv, TypeOK
<1>3. rwmutex # c
  <2>1. ~(c \in Threads /\ pc[c] = "post")
    BY ThreadPoolAssumption DEF thpool_add_work, MayCall
  <2> QED
    BY <1>1, <2>1 DEF SafeInv, LockInv
<1>4. Pushing' = Pushing \cup {c} /\ c \notin Pushing
  BY <1>1, <1>2, <1>3 DEF Pushing
<1>5. \A d \in Pushing : d # c /\ d \in Callers /\ arg'[d] = arg[d]
  BY <1>1, <1>2, <1>4 DEF Pushing
<1>6. arg'[c] = j
  BY <1>1, <1>2
<1>7. PushedJobs' = PushedJobs \cup {j}
  BY <1>4, <1>5, <1>6 DEF PushedJobs
<1>8. Running' = Running
  BY <1>1 DEF Running
<1>9. fresh' \cup PushedJobs' = fresh \cup PushedJobs
  BY <1>1, <1>7
<1>10. PlaceInv'
  <2>1. \A d \in Pushing' : arg'[d] \notin fresh'
    BY <1>1, <1>4, <1>5, <1>6 DEF PlaceInv
  <2>2. \A d, e \in Pushing' : arg'[d] = arg'[e] => d = e
    BY <1>1, <1>4, <1>5, <1>6 DEF PlaceInv
  <2>3. JobsIn(queue)' = JobsIn(queue)
    BY <1>1 DEF JobsIn
  <2> QED
    BY <1>1, <1>8, <1>9, <2>1, <2>2, <2>3 DEF PlaceInv
<1> QED
  BY <1>1, <1>8, <1>9, <1>10 DEF PromiseStep, Promise!vars

\* Whoever submits a job may do so by the promise.
LEMMA MayCallMayAdd ==
  ASSUME SafeInv, NEW c \in Callers,
         MayCall(c) \/ arg[c] # None
  PROVE  Promise!MayAdd
<1>1. CASE c \in Threads /\ pc[c] = "run"
  <2>1. job[c] # None
    BY <1>1 DEF SafeInv, JobInv
  <2>2. job[c] \in Running
    BY <1>1, <2>1 DEF Running
  <2> QED
    BY <2>2 DEF Promise!MayAdd
<1>2. CASE c \in Clients /\ life = "open"
  BY <1>2 DEF Promise!MayAdd
<1>3. c \in Threads \/ c \in Clients
  BY DEF Callers
<1>4. c \in Threads => pc[c] = "run"
  BY ThreadPoolAssumption DEF MayCall, SafeInv, LockInv
<1>5. c \in Clients => life = "open"
  BY ThreadPoolAssumption DEF MayCall, SafeInv, LifeInv
<1> QED
  BY <1>1, <1>2, <1>3, <1>4, <1>5

LEMMA AddWorkFailsPromise ==
  ASSUME SafeInv, PlaceInv, NEW c \in Callers, NEW j \in Jobs, AddWorkFails(c, j)
  PROVE  PlaceInv' /\ PromiseStep
<1>1. /\ j \in fresh /\ fresh' = fresh \ {j} /\ dropped' = dropped \cup {j}
      /\ UNCHANGED <<life, queue, rwmutex, job, arg, done>>
  BY DEF AddWorkFails, jobq, calls
<1>2. Pushing' = Pushing /\ PushedJobs' = PushedJobs /\ Running' = Running
      /\ JobsIn(queue)' = JobsIn(queue)
  BY <1>1 DEF Pushing, PushedJobs, Running, JobsIn
<1>3. j \notin PushedJobs
  BY <1>1 DEF PlaceInv, PushedJobs
<1>4. fresh' \cup PushedJobs' = (fresh \cup PushedJobs) \ {j}
  BY <1>1, <1>2, <1>3
<1>5. PlaceInv'
  BY <1>1, <1>2 DEF PlaceInv
<1>6. Promise!MayAdd
  BY MayCallMayAdd DEF AddWorkFails
<1>7. Promise!Refuse(j)
  BY <1>1, <1>2, <1>4, <1>6 DEF Promise!Refuse
<1> QED
  BY <1>5, <1>7 DEF PromiseStep, Promise!Next

\* The facts about a queue of distinct jobs.
LEMMA AppendDistinct ==
  ASSUME NEW q \in Seq(Jobs), NEW j \in Jobs, j \notin JobsIn(q),
         \A i, k \in DOMAIN q : q[i] = q[k] => i = k
  PROVE  /\ JobsIn(Append(q, j)) = JobsIn(q) \cup {j}
         /\ \A i, k \in DOMAIN Append(q, j) : Append(q, j)[i] = Append(q, j)[k] => i = k
<1>1. /\ Len(q) \in Nat /\ DOMAIN q = 1 .. Len(q)
      /\ DOMAIN Append(q, j) = 1 .. (Len(q) + 1)
      /\ Append(q, j)[Len(q) + 1] = j
      /\ \A i \in 1 .. Len(q) : Append(q, j)[i] = q[i]
  OBVIOUS
<1>2. JobsIn(Append(q, j)) = JobsIn(q) \cup {j}
  BY <1>1 DEF JobsIn
<1>3. \A i \in 1 .. Len(q) : q[i] # j
  BY <1>1 DEF JobsIn
<1>4. \A i \in 1 .. (Len(q) + 1) : i \in 1 .. Len(q) \/ i = Len(q) + 1
  BY <1>1
<1> QED
  BY <1>1, <1>2, <1>3, <1>4

LEMMA TailDistinct ==
  ASSUME NEW q \in Seq(Jobs), q # <<>>,
         \A i, k \in DOMAIN q : q[i] = q[k] => i = k
  PROVE  /\ Head(q) \in JobsIn(q)
         /\ JobsIn(Tail(q)) = JobsIn(q) \ {Head(q)}
         /\ \A i, k \in DOMAIN Tail(q) : Tail(q)[i] = Tail(q)[k] => i = k
<1>1. /\ Len(q) \in Nat \ {0} /\ DOMAIN q = 1 .. Len(q)
      /\ DOMAIN Tail(q) = 1 .. (Len(q) - 1)
      /\ Head(q) = q[1]
      /\ \A i \in 1 .. (Len(q) - 1) : Tail(q)[i] = q[i + 1]
  OBVIOUS
<1>2. \A i \in 1 .. (Len(q) - 1) : i + 1 \in 1 .. Len(q) /\ i + 1 # 1
  BY <1>1
<1>3. \A i \in 1 .. Len(q) : i = 1 \/ i - 1 \in 1 .. (Len(q) - 1)
  BY <1>1
<1>4. Head(q) \in JobsIn(q)
  BY <1>1 DEF JobsIn
<1>5. JobsIn(Tail(q)) \subseteq JobsIn(q) \ {Head(q)}
  BY <1>1, <1>2 DEF JobsIn
<1>6. JobsIn(q) \ {Head(q)} \subseteq JobsIn(Tail(q))
  <2> SUFFICES ASSUME NEW i \in 1 .. Len(q), q[i] # q[1] PROVE q[i] \in JobsIn(Tail(q))
    BY <1>1 DEF JobsIn
  <2>1. i - 1 \in DOMAIN Tail(q) /\ Tail(q)[i - 1] = q[i]
    BY <1>1, <1>3
  <2> QED
    BY Zenon, <2>1 DEF JobsIn
<1>7. \A i, k \in DOMAIN Tail(q) : Tail(q)[i] = Tail(q)[k] => i = k
  BY <1>1, <1>2
<1> QED
  BY <1>4, <1>5, <1>6, <1>7

\* jobqueue_push links the job into the queue: this is when the promise counts
\* it as added.
LEMMA PushPromise ==
  ASSUME SafeInv, PlaceInv, NEW c \in Callers, jobqueue_push(c)
  PROVE  PlaceInv' /\ PromiseStep
<1>1. /\ arg[c] # None /\ rwmutex = None /\ rwmutex' = c
      /\ queue' = Append(queue, arg[c])
      /\ UNCHANGED <<life, fresh, arg, job, done, dropped>>
  BY DEF jobqueue_push, process, calls, hist
<1>2. PICK j \in Jobs : j = arg[c]
  BY <1>1 DEF SafeInv, TypeOK
<1>3. None \notin Callers /\ queue \in Seq(Jobs)
  BY ThreadPoolAssumption DEF Callers, SafeInv, TypeOK
<1>4. c \in Pushing /\ Pushing' = Pushing \ {c}
  BY <1>1, <1>3 DEF Pushing
<1>5. j \in PushedJobs /\ PushedJobs' = PushedJobs \ {j}
  BY <1>1, <1>2, <1>4 DEF PushedJobs, PlaceInv
<1>6. j \notin fresh
  BY <1>2, <1>4 DEF PlaceInv
<1>7. j \notin JobsIn(queue) /\ j \notin Running
  BY <1>5 DEF PlaceInv
<1>8. Running' = Running
  BY <1>1 DEF Running
<1>9. /\ JobsIn(queue') = JobsIn(queue) \cup {j}
      /\ \A i, k \in DOMAIN queue' : queue'[i] = queue'[k] => i = k
  BY <1>1, <1>2, <1>3, <1>7, AppendDistinct DEF PlaceInv
<1>10. fresh' \cup PushedJobs' = (fresh \cup PushedJobs) \ {j}
  BY <1>1, <1>5, <1>6
<1>11. PlaceInv'
  <2>1. \A d \in Pushing' : arg'[d] \notin fresh'
    BY <1>1, <1>4 DEF PlaceInv
  <2>2. \A d, e \in Pushing' : arg'[d] = arg'[e] => d = e
    BY <1>1, <1>4 DEF PlaceInv
  <2>3. JobsIn(queue') \cap Running' = {}
    BY <1>7, <1>8, <1>9 DEF PlaceInv
  <2>4. (fresh' \cup PushedJobs') \cap (JobsIn(queue') \cup Running') = {}
    BY <1>8, <1>9, <1>10 DEF PlaceInv
  <2>5. JobsIn(queue)' = JobsIn(queue')
    BY DEF JobsIn
  <2> QED
    BY <1>1, <1>9, <2>1, <2>2, <2>3, <2>4, <2>5 DEF PlaceInv
<1>12. Promise!MayAdd
  BY <1>1, MayCallMayAdd
<1>13. Promise!Add(j)
  BY <1>1, <1>2, <1>5, <1>8, <1>10, <1>12 DEF Promise!Add
<1> QED
  BY <1>11, <1>13 DEF PromiseStep, Promise!Next

\* Releasing rwmutex moves no job.
LEMMA PostPromise ==
  ASSUME SafeInv, PlaceInv, NEW c \in Callers,
         PushPost(c) \/ (c \in Threads /\ PullPost(c))
  PROVE  PlaceInv' /\ PromiseStep
<1>1. rwmutex = c /\ rwmutex' = None
  BY DEF PushPost, PullPost, SafeInv, LockInv
<1>2. UNCHANGED <<life, fresh, queue, job, done, dropped>>
  BY DEF PushPost, PullPost, process, hist
<1>3. arg'[c] = None /\ \A d \in Callers : d # c => arg'[d] = arg[d]
  BY DEF PushPost, PullPost, SafeInv, LockInv, TypeOK, calls
<1>4. Pushing' = Pushing /\ \A d \in Pushing : arg'[d] = arg[d]
  BY ThreadPoolAssumption, <1>1, <1>3 DEF Pushing, Callers
<1>5. PushedJobs' = PushedJobs /\ Running' = Running /\ JobsIn(queue)' = JobsIn(queue)
  BY <1>2, <1>4 DEF PushedJobs, Running, JobsIn
<1>6. PlaceInv'
  BY <1>2, <1>4, <1>5 DEF PlaceInv
<1> QED
  BY <1>2, <1>5, <1>6 DEF PromiseStep, Promise!vars

\* The instance of JobPool counts the way FiniteSets does.
LEMMA SameCount == \A S : Promise!Cardinality(S) = Cardinality(S)
  BY DEF Promise!Cardinality, Cardinality

\* While a worker has no job there is room for one.
LEMMA RoomForOne ==
  ASSUME job \in [Threads -> Jobs \cup {None}], NEW t \in Threads, job[t] = None
  PROVE  Promise!Cardinality(Running) < Cardinality(Threads)
<1> DEFINE Busy == {u \in Threads : job[u] # None}
           f == [u \in Busy |-> job[u]]
<1>1. IsFiniteSet(Threads)
  BY ThreadPoolAssumption
<1>2. /\ IsFiniteSet(Busy) /\ Cardinality(Busy) <= Cardinality(Threads)
      /\ Cardinality(Busy) # Cardinality(Threads)
  <2>1. Busy \in SUBSET Threads /\ Busy # Threads
    OBVIOUS
  <2> HIDE DEF Busy
  <2> QED
    BY <1>1, <2>1, FS_Subset
<1>3. f \in Surjection(Busy, Running)
  BY DEF Surjection, Running
<1>4. Cardinality(Running) <= Cardinality(Busy) /\ IsFiniteSet(Running)
  <2> HIDE DEF Busy, f
  <2> QED
    BY <1>2, <1>3, FS_Surjection
<1>5. Cardinality(Running) \in Nat /\ Cardinality(Busy) \in Nat /\ Cardinality(Threads) \in Nat
  BY <1>1, <1>2, <1>4, FS_CardinalityType
<1>6. Cardinality(Running) < Cardinality(Threads)
  BY <1>2, <1>4, <1>5
<1> QED
  BY <1>6, SameCount

\* jobqueue_pull starts the job at the head of the queue, or finds none.
LEMMA PullPromise ==
  ASSUME SafeInv, PlaceInv, NEW t \in Threads, jobqueue_pull(t)
  PROVE  PlaceInv' /\ PromiseStep
<1>1. /\ pc[t] = "pull" /\ rwmutex = None
      /\ UNCHANGED <<life, fresh, arg, done, dropped>>
  BY DEF jobqueue_pull, TakeJob, process, calls, hist
<1>2. CASE queue = <<>>
  <2>1. UNCHANGED <<job, queue, rwmutex>>
    BY <1>2 DEF jobqueue_pull, TakeJob, jobq
  <2> QED
    BY <1>1, <2>1, QuietStep
<1>3. CASE queue # <<>>
  <2>1. /\ job' = [job EXCEPT ![t] = Head(queue)] /\ queue' = Tail(queue)
        /\ rwmutex' \in {t, None}
    BY <1>3 DEF jobqueue_pull, TakeJob
  <2>2. /\ queue \in Seq(Jobs) /\ job \in [Threads -> Jobs \cup {None}]
        /\ job[t] = None /\ arg[t] = None
    BY <1>1 DEF SafeInv, TypeOK, JobInv, LockInv
  <2>3. /\ Head(queue) \in JobsIn(queue)
        /\ JobsIn(Tail(queue)) = JobsIn(queue) \ {Head(queue)}
        /\ \A i, k \in DOMAIN Tail(queue) : Tail(queue)[i] = Tail(queue)[k] => i = k
    BY <1>3, <2>2, TailDistinct DEF PlaceInv
  <2>4. PICK j \in Jobs : j = Head(queue)
    BY <1>3, <2>2, PulledQueue
  <2>5. j # None /\ j \notin Running
    BY ThreadPoolAssumption, <2>3, <2>4 DEF PlaceInv
  <2>6. job'[t] = j /\ \A u \in Threads : u # t => job'[u] = job[u]
    BY <2>1, <2>2, <2>4
  <2>7. Running' = Running \cup {j}
    BY <2>2, <2>5, <2>6 DEF Running
  <2>8. Pushing' = Pushing /\ PushedJobs' = PushedJobs
    <3>1. Pushing' = Pushing
      BY ThreadPoolAssumption, <1>1, <2>1, <2>2 DEF Pushing, Callers
    <3> QED
      BY <1>1, <3>1 DEF PushedJobs
  <2>9. JobsIn(queue)' = JobsIn(queue) \ {j}
    BY Zenon, <2>1, <2>3, <2>4 DEF JobsIn
  <2>10. PlaceInv'
    <3>1. \A u, w \in Threads : job'[u] = job'[w] => u = w \/ job'[u] = None
      <4>1. \A u \in Threads : job[u] # j
        BY <2>5 DEF Running
      <4> QED
        BY <2>6, <4>1 DEF PlaceInv
    <3>2. \A i, k \in DOMAIN queue' : queue'[i] = queue'[k] => i = k
      BY <2>1, <2>3
    <3>3. (JobsIn(queue) \cap Running)' = {}
      BY <2>7, <2>9 DEF PlaceInv
    <3>4. JobsIn(queue)' \cup Running' \subseteq JobsIn(queue) \cup Running
      BY <2>3, <2>4, <2>7, <2>9
    <3> QED
      BY <1>1, <2>8, <3>1, <3>2, <3>3, <3>4 DEF PlaceInv
  <2>11. Promise!Start
    BY <1>1, <1>3, <2>1, <2>2, <2>4, <2>7, <2>8, RoomForOne DEF Promise!Start
  <2> QED
    BY <2>10, <2>11 DEF PromiseStep, Promise!Next
<1> QED
  BY <1>2, <1>3

\* A worker ends the job that it alone has.
LEMMA FinishPromise ==
  ASSUME SafeInv, PlaceInv, NEW t \in Threads, FinishJob(t)
  PROVE  PlaceInv' /\ PromiseStep
<1>1. /\ pc[t] = "run" /\ done' = done \cup {job[t]} /\ job' = [job EXCEPT ![t] = None]
      /\ UNCHANGED <<life, fresh, arg, rwmutex, queue, dropped>>
  BY DEF FinishJob, process, calls, jobq
<1>2. job \in [Threads -> Jobs \cup {None}] /\ job[t] # None
  BY <1>1 DEF SafeInv, TypeOK, JobInv
<1>3. PICK j \in Jobs : j = job[t]
  BY <1>2
<1>4. job'[t] = None /\ \A u \in Threads : u # t => job'[u] = job[u]
  BY <1>1, <1>2
<1>5. j \in Running /\ Running' = Running \ {j}
  BY <1>2, <1>3, <1>4 DEF Running, PlaceInv
<1>6. Pushing' = Pushing /\ PushedJobs' = PushedJobs /\ JobsIn(queue)' = JobsIn(queue)
  BY <1>1 DEF Pushing, PushedJobs, JobsIn
<1>7. PlaceInv'
  <2>1. \A u, w \in Threads : job'[u] = job'[w] => u = w \/ job'[u] = None
    BY <1>4 DEF PlaceInv
  <2> QED
    BY <1>1, <1>5, <1>6, <2>1 DEF PlaceInv
<1>8. Promise!Finish(j)
  BY <1>1, <1>3, <1>5, <1>6 DEF Promise!Finish
<1> QED
  BY <1>7, <1>8 DEF PromiseStep, Promise!Next

\* thpool_init returns, thpool_destroy is called, and frees the pool.
LEMMA LifePromise ==
  ASSUME SafeInv, PlaceInv,
         InitReturnsNull \/ InitReturns \/ thpool_destroy \/ DestroyFree
  PROVE  PlaceInv' /\ PromiseStep
<1>1. UNCHANGED <<fresh, arg, rwmutex, job, done>>
  BY DEF InitReturnsNull, InitReturns, thpool_destroy, DestroyFree, jobq, calls, hist
<1>2. Pushing' = Pushing /\ PushedJobs' = PushedJobs /\ Running' = Running
  BY <1>1 DEF Pushing, PushedJobs, Running
<1>3. CASE InitReturnsNull \/ InitReturns \/ thpool_destroy
  <2>1. UNCHANGED <<queue, dropped>>
    BY <1>3 DEF InitReturnsNull, InitReturns, thpool_destroy, jobq, hist
  <2>2. PlaceInv'
    BY <1>1, <1>2, <2>1 DEF PlaceInv, JobsIn
  <2>3. Promise!Open \/ Promise!Close
    BY <1>1, <1>2, <1>3, <2>1 DEF InitReturnsNull, InitReturns, thpool_destroy,
       Promise!Open, Promise!Close
  <2> QED
    BY <2>2, <2>3 DEF PromiseStep, Promise!Next
<1>4. CASE DestroyFree
  <2>1. /\ life = "closing" /\ life' = "freed" /\ queue' = <<>>
        /\ dropped' = dropped \cup JobsIn(queue)
    BY <1>4 DEF DestroyFree
  <2>2. PlaceInv'
    BY <1>1, <1>2, <2>1 DEF PlaceInv, JobsIn
  <2>3. Running = {}
    <3>1. SafeInv'
      BY <1>4, DestroyFreeStep
    <3>2. Running' = {}
      BY <2>1, <3>1 DEF SafeInv, LifeInv, JobInv, Running
    <3> QED
      BY <1>2, <3>2
  <2>4. Promise!Free
    BY <1>1, <1>2, <2>1, <2>3 DEF Promise!Free, JobsIn
  <2> QED
    BY <2>2, <2>4 DEF PromiseStep, Promise!Next
<1> QED
  BY <1>3, <1>4

-----------------------------------------------------------------------------
\* Steps that move no job and do not change the phase of the pool.
LEMMA OtherSteps ==
  ASSUME PlaceInv,
         \/ \E t \in Threads :
              \/ ThreadStart(t) \/ LoopTest(t) \/ bsem_wait(t) \/ KeepaliveTest(t)
              \/ StartWorking(t) \/ StopWorking(t) \/ ThreadExit(t) \/ ThreadExitUnlock(t)
              \/ SpuriousWakeup(t) \/ thread_hold(t) \/ HoldEnds(t) \/ ThreadInitFails(t)
         \/ \E c \in Clients :
              \/ WaitReadLen(c) \/ WaitReadWorking(c) \/ WaitSpuriousWakeup(c)
              \/ thpool_wait(c) \/ thpool_pause(c) \/ thpool_resume(c)
         \/ DestroyPoll \/ UNCHANGED vars
  PROVE  PlaceInv' /\ PromiseStep
<1>1. UNCHANGED <<life, fresh, arg, rwmutex, queue, job, done, dropped>>
  BY Zenon DEF ThreadStart, LoopTest, bsem_wait, KeepaliveTest, StartWorking, StopWorking, ThreadExit,
     ThreadExitUnlock, SpuriousWakeup, thread_hold, HoldEnds, ThreadInitFails, WaitReadLen,
     WaitReadWorking, WaitSpuriousWakeup, thpool_wait, thpool_pause, thpool_resume, DestroyPoll,
     vars, process, jobq, calls, hist
<1> QED
  BY <1>1, QuietStep

LEMMA PromiseKept ==
  ASSUME SafeInv, PlaceInv, [SharedNext]_vars
  PROVE  PlaceInv' /\ PromiseStep
<1>1. CASE OtherPoolInit \/ OtherPoolDestroy
  BY <1>1, OtherPoolQuiet
<1>2. CASE UNCHANGED vars
  BY <1>2, OtherSteps
<1>3. ASSUME NEW t \in Threads, Worker(t) \/ HoldEnds(t) \/ ThreadInitFails(t)
      PROVE  PlaceInv' /\ PromiseStep
  <2>1. t \in Callers
    BY DEF Callers
  <2>2. CASE WorkerStep(t)
    BY <2>1, <2>2, OtherSteps, PullPromise, PostPromise, FinishPromise, PushPromise DEF WorkerStep
  <2>3. CASE SpuriousWakeup(t) \/ thread_hold(t) \/ HoldEnds(t) \/ ThreadInitFails(t)
    BY <2>3, OtherSteps
  <2>4. CASE \E j \in Jobs : thpool_add_work(t, j) \/ AddWorkFails(t, j)
    BY <2>1, <2>4, AddWorkPromise, AddWorkFailsPromise
  <2> QED
    BY <1>3, <2>2, <2>3, <2>4 DEF Worker
<1>4. ASSUME NEW c \in Clients, Client(c) PROVE PlaceInv' /\ PromiseStep
  <2>1. c \in Callers
    BY DEF Callers
  <2>2. CASE \E j \in Jobs : thpool_add_work(c, j) \/ AddWorkFails(c, j)
    BY <2>1, <2>2, AddWorkPromise, AddWorkFailsPromise
  <2>3. CASE jobqueue_push(c) \/ PushPost(c)
    BY <2>1, <2>3, PushPromise, PostPromise
  <2> QED
    BY <1>4, <2>2, <2>3, OtherSteps DEF Client, ClientStep
<1>5. CASE InitReturnsNull \/ InitReturns \/ thpool_destroy \/ DestroyFree
  BY <1>5, LifePromise
<1>6. CASE DestroyPoll
  BY <1>6, OtherSteps
<1> QED
  BY <1>1, <1>2, <1>3, <1>4, <1>5, <1>6
  DEF SharedNext, Next, InitStep, InitSpin, DestroyStep, Finished

\* A pool among others keeps the promise of thread_pool.h, whatever the other
\* pools do to threads_keepalive and threads_on_hold, and whatever allocations
\* fail: jobs start in the order in which jobqueue_push linked them, at most
\* one per worker runs, each is run once, and thpool_destroy waits for the
\* running jobs before it drops the queued ones.
THEOREM SharedPoolKeepsPromise == SharedSpec => Promise!Spec
<1>1. Init => PlaceInv
  <2> SUFFICES ASSUME Init PROVE PlaceInv
    OBVIOUS
  <2>1. Pushing = {} /\ Running = {} /\ JobsIn(queue) = {}
    BY DEF Init, Pushing, Running, JobsIn
  <2>2. DOMAIN queue = {} /\ \A t \in Threads : job[t] = None
    BY DEF Init
  <2> QED
    BY <2>1, <2>2 DEF PlaceInv
<1>2. Init => Promise!Init
  <2>1. ASSUME Init PROVE Pushing = {} /\ Running = {}
    BY <2>1 DEF Init, Pushing, Running
  <2> QED
    BY Zenon, <2>1 DEF Init, Promise!Init, PushedJobs
<1>3. SafeInv /\ PlaceInv /\ [SharedNext]_vars => PlaceInv' /\ [Promise!Next]_(Promise!vars)
  BY PromiseKept DEF PromiseStep
<1> QED
  BY <1>1, <1>2, <1>3, SharedInvariant, PTL DEF SharedSpec, Promise!Spec

\* The same of a pool that is alone in its process, as ThreadPool has it.
THEOREM PoolKeepsPromise == Spec => Promise!Spec
<1>1. [Next]_vars => [SharedNext]_vars
  BY DEF SharedNext
<1>2. Spec => SharedSpec
  BY <1>1, PTL DEF Spec, SharedSpec
<1> QED
  BY <1>2, SharedPoolKeepsPromise
====
