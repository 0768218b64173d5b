------------------------------ MODULE ThreadPool ------------------------------
(***************************************************************************)
(* The thread pool of thirdparty/thread_pool/thread_pool.c: worker threads *)
(* that sleep on a binary semaphore, a mutex-protected job queue, and the  *)
(* calls thpool_init, thpool_add_work, thpool_wait, thpool_pause,          *)
(* thpool_resume and thpool_destroy.                                       *)
(*                                                                         *)
(* Granularity.  A critical section is one step when everything it touches *)
(* is only ever touched under the same mutex.  It is several steps, with   *)
(* the mutex as a variable, where somebody looks in without the mutex:     *)
(*   - jobqueue_push and jobqueue_pull change len, which thpool_wait reads *)
(*     without rwmutex, before they post the semaphore;                    *)
(*   - thpool_wait reads len and then num_threads_working;                 *)
(*   - an exiting thread decrements num_threads_alive, which               *)
(*     thpool_destroy polls without the lock, before it unlocks.           *)
(***************************************************************************)
EXTENDS Naturals, Sequences, FiniteSets

CONSTANTS
  Threads,       \* the worker threads thpool_init is asked to create
  Clients,       \* threads of the program that call the pool
  Jobs,          \* bound: the jobs ever submitted
  None,          \* NULL
  MaxAllocFail,  \* bound: allocations (or thread creations) that fail
  MaxPause,      \* bound: calls of thpool_pause, each with one thpool_resume
  MaxWait,       \* bound: calls of thpool_wait
  MaxOther       \* bound: pools of the process created and destroyed besides
                 \* this one (module SharedPools)

ASSUME ThreadPoolAssumption ==
  /\ IsFiniteSet(Threads)
  /\ Threads \cap Clients = {}
  /\ None \notin Threads \cup Clients \cup Jobs
  /\ {MaxAllocFail, MaxPause, MaxWait, MaxOther} \subseteq Nat

VARIABLES
  keepalive,     \* threads_keepalive, global to every pool of the process
  onhold,        \* threads_on_hold, global as well
  life,          \* where the pool is between thpool_init and thpool_destroy
  pc,            \* pc[t]: where worker t is in thread_do
  job,           \* job[t]: the job worker t has taken from the queue
  alive,         \* num_threads_alive
  working,       \* num_threads_working
  thcount_lock,  \* holder of thcount_lock across a step, or None
  queue,         \* the job queue; len is Len(queue)
  rwmutex,       \* holder of jobqueue.rwmutex across a step, or None
  v,             \* value of the binary semaphore has_jobs
  arg,           \* arg[c]: the job caller c is pushing, or None
  cpc,           \* cpc[c]: where client c is in thpool_wait
  sig,           \* workers with a SIGUSR1 not yet delivered
  held,          \* workers inside the signal handler thread_hold
  fresh,         \* history: jobs not submitted yet
  done,          \* history: jobs whose function has returned
  dropped,       \* history: jobs refused, or discarded by thpool_destroy
  due,           \* history: due[c], the jobs thpool_wait has to wait for
  budget         \* what is left of the bounds

counters == <<alive, working, thcount_lock>>
jobq == <<queue, rwmutex>>
calls == <<arg, cpc, due>>
hist == <<fresh, done, dropped>>
holdVars == <<onhold, sig, held>>
process == <<keepalive, life, holdVars, budget>>
vars == <<process, pc, job, counters, jobq, v, calls, hist>>

Callers == Threads \cup Clients

\* Program counters at which a thread counts as working, and as alive.
WorkingPC == {"pull", "post", "run", "dec"}
AlivePC == {"loop", "wait", "blocked", "check", "inc", "exit"} \cup WorkingPC
ThreadPC == {"start", "failed", "unlock", "gone"} \cup AlivePC
ClientPC == {"idle", "wait", "lenzero", "waiting"}

JobsIn(s) == {s[i] : i \in DOMAIN s}
Running == {job[t] : t \in Threads} \ {None}

\* Callers of thpool_add_work whose job is not linked into the queue yet.
Pushing == {c \in Callers : arg[c] # None /\ rwmutex # c}
PushedJobs == {arg[c] : c \in Pushing}

Bounds == {"alloc", "pause", "resume", "wait", "init", "destroy"}
Limit(b) == CASE b = "alloc" -> MaxAllocFail
              [] b = "wait" -> MaxWait
              [] b \in {"pause", "resume"} -> MaxPause
              [] OTHER -> MaxOther
Spend(what) == budget[what] > 0 /\ budget' = [budget EXCEPT ![what] = @ - 1]
-----------------------------------------------------------------------------
Init ==
  /\ keepalive = TRUE /\ onhold = FALSE
  /\ life = "init"
  /\ pc = [t \in Threads |-> "start"]
  /\ job = [t \in Threads |-> None]
  /\ alive = 0 /\ working = 0
  /\ thcount_lock = None /\ rwmutex = None
  /\ queue = <<>> /\ v = 0
  /\ arg = [c \in Callers |-> None]
  /\ cpc = [c \in Clients |-> "idle"]
  /\ sig = {} /\ held = {}
  /\ fresh = Jobs /\ done = {} /\ dropped = {}
  /\ due = [c \in Clients |-> {}]
  /\ budget = [b \in Bounds |-> Limit(b)]

(* --------------------------- the semaphore ----------------------------- *)

Blocked(p) == {t \in Threads : p[t] = "blocked"}

\* bsem_post: v = 1 and pthread_cond_signal: one sleeper, if there is one,
\* goes back to the test of its loop.  p is pc as the caller leaves it.
bsem_post(p) ==
  /\ v' = 1
  /\ IF Blocked(p) = {} THEN pc' = p
     ELSE \E t \in Blocked(p) : pc' = [p EXCEPT ![t] = "wait"]

\* bsem_post_all: v = 1 and pthread_cond_broadcast.
bsem_post_all ==
  /\ v' = 1
  /\ pc' = [t \in Threads |-> IF pc[t] = "blocked" THEN "wait" ELSE pc[t]]

\* bsem_wait: take the semaphore, or sleep until signalled.
bsem_wait(t) ==
  /\ pc[t] = "wait"
  /\ v' = 0
  /\ pc' = [pc EXCEPT ![t] = IF v = 1 THEN "check" ELSE "blocked"]
  /\ UNCHANGED <<process, job, counters, jobq, calls, hist>>

\* POSIX lets pthread_cond_wait return without a signal.
SpuriousWakeup(t) ==
  /\ pc[t] = "blocked"
  /\ pc' = [pc EXCEPT ![t] = "wait"]
  /\ UNCHANGED <<process, job, counters, jobq, v, calls, hist>>

(* --------------------------- thpool_init ------------------------------- *)

\* One of the three allocations before the first thread is created fails:
\* thpool_init undoes what it did and returns NULL.
InitReturnsNull ==
  /\ life = "init" /\ \A t \in Threads : pc[t] = "start"
  /\ Spend("alloc")
  /\ life' = "null"
  /\ UNCHANGED <<keepalive, holdVars, pc, job, counters, jobq, v, calls, hist>>

\* thread_init could not allocate or create the thread: its result is ignored.
ThreadInitFails(t) ==
  /\ life = "init" /\ pc[t] = "start"
  /\ Spend("alloc")
  /\ pc' = [pc EXCEPT ![t] = "failed"]
  /\ UNCHANGED <<keepalive, life, holdVars, job, counters, jobq, v, calls, hist>>

\* thread_do up to its loop.
ThreadStart(t) ==
  /\ life = "init" /\ pc[t] = "start" /\ thcount_lock = None
  /\ alive' = alive + 1
  /\ pc' = [pc EXCEPT ![t] = "loop"]
  /\ UNCHANGED <<process, job, working, thcount_lock, jobq, v, calls, hist>>

\* while (num_threads_alive != num_threads) {}
InitSpin ==
  /\ life = "init"
  /\ alive # Cardinality(Threads)
  /\ UNCHANGED vars

InitReturns ==
  /\ life = "init"
  /\ alive = Cardinality(Threads)
  /\ life' = "open"
  /\ UNCHANGED <<keepalive, holdVars, budget, pc, job, counters, jobq, v, calls, hist>>

(* ---------------------------- thread_do -------------------------------- *)

\* while (threads_keepalive)
LoopTest(t) ==
  /\ pc[t] = "loop"
  /\ pc' = [pc EXCEPT ![t] = IF keepalive THEN "wait" ELSE "exit"]
  /\ UNCHANGED <<process, job, counters, jobq, v, calls, hist>>

\* if (threads_keepalive), after the semaphore was taken
KeepaliveTest(t) ==
  /\ pc[t] = "check"
  /\ pc' = [pc EXCEPT ![t] = IF keepalive THEN "inc" ELSE "loop"]
  /\ UNCHANGED <<process, job, counters, jobq, v, calls, hist>>

\* Mutant: the worker does not count itself as working.
StartWorking_NotCounted(t) ==
  /\ pc[t] = "inc"
  /\ pc' = [pc EXCEPT ![t] = "pull"]
  /\ UNCHANGED <<process, job, counters, jobq, v, calls, hist>>

StartWorking(t) ==
  /\ pc[t] = "inc" /\ thcount_lock = None
  /\ working' = working + 1
  /\ pc' = [pc EXCEPT ![t] = "pull"]
  /\ UNCHANGED <<process, job, alive, thcount_lock, jobq, v, calls, hist>>

\* Worker t takes job j under rwmutex and leaves the queue as rest; when it
\* still has to post the semaphore it keeps rwmutex until it has.
TakeJob(t, j, rest, repost) ==
  /\ pc[t] = "pull" /\ rwmutex = None
  /\ IF queue = <<>>
     THEN /\ pc' = [pc EXCEPT ![t] = "dec"]
          /\ UNCHANGED <<job, jobq>>
     ELSE /\ pc' = [pc EXCEPT ![t] = IF repost THEN "post" ELSE "run"]
          /\ job' = [job EXCEPT ![t] = j]
          /\ queue' = rest
          /\ rwmutex' = IF repost THEN t ELSE None
  /\ UNCHANGED <<process, counters, v, calls, hist>>

\* Mutants: no bsem_post when more jobs are queued; the newest job first.
jobqueue_pull_NoRepost(t) == TakeJob(t, Head(queue), Tail(queue), FALSE)
jobqueue_pull_Newest(t) ==
  TakeJob(t, queue[Len(queue)], SubSeq(queue, 1, Len(queue) - 1), Len(queue) > 1)

\* jobqueue_pull up to its bsem_post, which it calls when it leaves a job.
jobqueue_pull(t) == TakeJob(t, Head(queue), Tail(queue), Len(queue) > 1)

PullPost(t) ==
  /\ pc[t] = "post"
  /\ bsem_post([pc EXCEPT ![t] = "run"])
  /\ rwmutex' = None
  /\ UNCHANGED <<process, job, counters, queue, calls, hist>>

\* The job's function returns and the job is freed.
FinishJob(t) ==
  /\ pc[t] = "run" /\ arg[t] = None
  /\ done' = done \cup {job[t]}
  /\ job' = [job EXCEPT ![t] = None]
  /\ pc' = [pc EXCEPT ![t] = "dec"]
  /\ UNCHANGED <<process, counters, jobq, v, calls, fresh, dropped>>

\* Mutant: nobody tells thpool_wait.
StopWorking_NoSignal(t) ==
  /\ pc[t] = "dec" /\ thcount_lock = None
  /\ working' = working - 1
  /\ pc' = [pc EXCEPT ![t] = "loop"]
  /\ UNCHANGED <<process, job, alive, thcount_lock, jobq, v, calls, hist>>

\* num_threads_working--, and pthread_cond_signal(threads_all_idle) when it
\* reaches zero: one caller of thpool_wait, if there is one, tests again.
StopWorking(t) ==
  /\ pc[t] = "dec" /\ thcount_lock = None
  /\ working' = working - 1
  /\ pc' = [pc EXCEPT ![t] = "loop"]
  /\ LET sleepers == {c \in Clients : cpc[c] = "waiting"}
     IN  IF working' = 0 /\ sleepers # {}
         THEN \E c \in sleepers : cpc' = [cpc EXCEPT ![c] = "wait"]
         ELSE UNCHANGED cpc
  /\ UNCHANGED <<process, job, alive, thcount_lock, jobq, v, arg, due, hist>>

ThreadExit(t) ==
  /\ pc[t] = "exit" /\ thcount_lock = None
  /\ alive' = alive - 1
  /\ thcount_lock' = t
  /\ pc' = [pc EXCEPT ![t] = "unlock"]
  /\ UNCHANGED <<process, job, working, jobq, v, calls, hist>>

ThreadExitUnlock(t) ==
  /\ pc[t] = "unlock"
  /\ thcount_lock' = None
  /\ pc' = [pc EXCEPT ![t] = "gone"]
  /\ UNCHANGED <<process, job, alive, working, jobq, v, calls, hist>>

(* ------------------------- thpool_add_work ----------------------------- *)

\* Who may call: a client with no call pending, while the pool is open, and
\* a job, whose function may itself submit work (also during a destroy).
MayCall(c) ==
  /\ arg[c] = None
  /\ \/ c \in Clients /\ cpc[c] = "idle" /\ life = "open"
     \/ c \in Threads /\ pc[c] = "run"

thpool_add_work(c, j) ==
  /\ MayCall(c) /\ j \in fresh
  /\ fresh' = fresh \ {j}
  /\ arg' = [arg EXCEPT ![c] = j]
  /\ UNCHANGED <<process, pc, job, counters, jobq, v, cpc, due, done, dropped>>

\* malloc failed: -1, and the job is never queued.
AddWorkFails(c, j) ==
  /\ MayCall(c) /\ j \in fresh
  /\ Spend("alloc")
  /\ fresh' = fresh \ {j}
  /\ dropped' = dropped \cup {j}
  /\ UNCHANGED <<keepalive, life, holdVars, pc, job, counters, jobq, v, calls, done>>

\* jobqueue_push up to its bsem_post ...
jobqueue_push(c) ==
  /\ arg[c] # None /\ rwmutex = None
  /\ queue' = Append(queue, arg[c])
  /\ rwmutex' = c
  /\ UNCHANGED <<process, pc, job, counters, v, calls, hist>>

\* ... and from there to the return of thpool_add_work.
PushPost(c) ==
  /\ arg[c] # None /\ rwmutex = c
  /\ bsem_post(pc)
  /\ rwmutex' = None
  /\ arg' = [arg EXCEPT ![c] = None]
  /\ UNCHANGED <<process, job, counters, queue, cpc, due, hist>>

(* --------------------------- thpool_wait ------------------------------- *)

thpool_wait(c) ==
  /\ MayCall(c)
  /\ Spend("wait")
  /\ cpc' = [cpc EXCEPT ![c] = "wait"]
  /\ due' = [due EXCEPT ![c] = JobsIn(queue) \cup Running]
  /\ UNCHANGED <<keepalive, life, holdVars, pc, job, counters, jobq, v, arg, hist>>

\* Mutant: thpool_wait looks at num_threads_working only.
WaitReadLen_Skipped(c) ==
  /\ cpc[c] = "wait" /\ thcount_lock = None
  /\ cpc' = [cpc EXCEPT ![c] = "lenzero"]
  /\ thcount_lock' = c
  /\ UNCHANGED <<process, pc, job, alive, working, jobq, v, arg, due, hist>>

\* Take thcount_lock and read jobqueue.len, without rwmutex.
WaitReadLen(c) ==
  /\ cpc[c] = "wait" /\ thcount_lock = None
  /\ IF queue # <<>>
     THEN /\ cpc' = [cpc EXCEPT ![c] = "waiting"]
          /\ UNCHANGED thcount_lock
     ELSE /\ cpc' = [cpc EXCEPT ![c] = "lenzero"]
          /\ thcount_lock' = c
  /\ UNCHANGED <<process, pc, job, alive, working, jobq, v, arg, due, hist>>

\* Read num_threads_working; sleep or return, releasing thcount_lock.
WaitReadWorking(c) ==
  /\ cpc[c] = "lenzero"
  /\ thcount_lock' = None
  /\ IF working # 0
     THEN /\ cpc' = [cpc EXCEPT ![c] = "waiting"]
          /\ UNCHANGED due
     ELSE /\ cpc' = [cpc EXCEPT ![c] = "idle"]
          /\ due' = [due EXCEPT ![c] = {}]
  /\ UNCHANGED <<process, pc, job, alive, working, jobq, v, arg, hist>>

WaitSpuriousWakeup(c) ==
  /\ cpc[c] = "waiting"
  /\ cpc' = [cpc EXCEPT ![c] = "wait"]
  /\ UNCHANGED <<process, pc, job, counters, jobq, v, arg, due, hist>>

(* --------------------- thpool_pause, thpool_resume --------------------- *)

\* SIGUSR1 to each of the num_threads_alive threads.
thpool_pause(c) ==
  /\ MayCall(c)
  /\ Spend("pause")
  /\ sig' = {t \in Threads : pc[t] \in AlivePC}
  /\ UNCHANGED <<keepalive, life, onhold, held, pc, job, counters, jobq, v, calls, hist>>

thpool_resume(c) ==
  /\ MayCall(c)
  /\ budget["resume"] > budget["pause"]
  /\ Spend("resume")
  /\ onhold' = FALSE
  /\ UNCHANGED <<keepalive, life, sig, held, pc, job, counters, jobq, v, calls, hist>>

\* Delivery of SIGUSR1: the worker enters thread_hold, wherever it is.
thread_hold(t) ==
  /\ t \in sig /\ t \notin held
  /\ sig' = sig \ {t}
  /\ held' = held \cup {t}
  /\ onhold' = TRUE
  /\ UNCHANGED <<keepalive, life, budget, pc, job, counters, jobq, v, calls, hist>>

\* Mutant: the handler waits for the flag to be set.
HoldEnds_Inverted(t) ==
  /\ t \in held /\ onhold
  /\ held' = held \ {t}
  /\ UNCHANGED <<keepalive, life, onhold, sig, budget, pc, job, counters, jobq, v, calls, hist>>

\* The handler sees threads_on_hold = 0 and returns.
HoldEnds(t) ==
  /\ t \in held /\ ~onhold
  /\ held' = held \ {t}
  /\ UNCHANGED <<keepalive, life, onhold, sig, budget, pc, job, counters, jobq, v, calls, hist>>

(* -------------------------- thpool_destroy ----------------------------- *)

\* The caller owns the pool: no other client is inside a call, none follows.
thpool_destroy ==
  /\ life = "open"
  /\ \A c \in Clients : cpc[c] = "idle" /\ arg[c] = None
  /\ life' = "closing"
  /\ keepalive' = FALSE
  /\ UNCHANGED <<holdVars, budget, pc, job, counters, jobq, v, calls, hist>>

\* An iteration of either polling loop.
DestroyPoll ==
  /\ life = "closing" /\ alive # 0
  /\ bsem_post_all
  /\ UNCHANGED <<process, job, counters, jobq, calls, hist>>

\* Mutant: the pool is freed after the first polling loop, whoever is alive.
DestroyFree_Impatient ==
  /\ life = "closing"
  /\ life' = "freed"
  /\ dropped' = dropped \cup JobsIn(queue)
  /\ queue' = <<>>
  /\ v' = 0
  /\ UNCHANGED <<keepalive, holdVars, budget, pc, job, counters, rwmutex, calls, fresh, done>>

\* No thread is alive: jobqueue_clear discards what is queued, and the pool
\* is freed.
DestroyFree ==
  /\ life = "closing" /\ alive = 0
  /\ life' = "freed"
  /\ dropped' = dropped \cup JobsIn(queue)
  /\ queue' = <<>>
  /\ v' = 0
  /\ UNCHANGED <<keepalive, holdVars, budget, pc, job, counters, rwmutex, calls, fresh, done>>

\* The pool is no more and its last thread has left.
Finished ==
  /\ \/ life = "null"
     \/ life = "freed" /\ \A t \in Threads : pc[t] = "gone"
  /\ UNCHANGED vars
-----------------------------------------------------------------------------
\* Steps of worker t that it takes by itself, when it is not held.
WorkerStep(t) ==
  \/ ThreadStart(t) \/ LoopTest(t) \/ bsem_wait(t) \/ KeepaliveTest(t)
  \/ StartWorking(t) \/ jobqueue_pull(t) \/ PullPost(t) \/ FinishJob(t)
  \/ StopWorking(t) \/ ThreadExit(t) \/ ThreadExitUnlock(t)
  \/ jobqueue_push(t) \/ PushPost(t)

Worker(t) ==
  /\ t \notin held
  /\ \/ WorkerStep(t)
     \/ SpuriousWakeup(t)
     \/ thread_hold(t)
     \/ \E j \in Jobs : thpool_add_work(t, j) \/ AddWorkFails(t, j)

\* Steps that finish a call a client has made.
ClientStep(c) ==
  jobqueue_push(c) \/ PushPost(c) \/ WaitReadLen(c) \/ WaitReadWorking(c)

Client(c) ==
  \/ ClientStep(c)
  \/ WaitSpuriousWakeup(c)
  \/ \E j \in Jobs : thpool_add_work(c, j) \/ AddWorkFails(c, j)
  \/ thpool_wait(c) \/ thpool_pause(c) \/ thpool_resume(c)

InitStep == InitSpin \/ InitReturns
DestroyStep == DestroyPoll \/ DestroyFree

Next ==
  \/ \E t \in Threads : Worker(t) \/ HoldEnds(t) \/ ThreadInitFails(t)
  \/ \E c \in Clients : Client(c)
  \/ InitReturnsNull \/ InitStep
  \/ thpool_destroy \/ DestroyStep
  \/ Finished

\* The scheduler runs every thread, a mutex is granted to a thread that keeps
\* asking, a job's function returns; nobody is obliged to make a call.
Fairness ==
  /\ \A t \in Threads : /\ SF_vars(t \notin held /\ WorkerStep(t))
                        /\ WF_vars(thread_hold(t)) /\ WF_vars(HoldEnds(t))
  /\ \A c \in Clients : SF_vars(ClientStep(c))
  /\ WF_vars(InitReturns) /\ WF_vars(DestroyStep)

Spec == Init /\ [][Next]_vars
FairSpec == Spec /\ Fairness
-----------------------------------------------------------------------------
TypeOK ==
  /\ keepalive \in BOOLEAN /\ onhold \in BOOLEAN
  /\ life \in {"init", "null", "open", "closing", "freed"}
  /\ pc \in [Threads -> ThreadPC]
  /\ job \in [Threads -> Jobs \cup {None}]
  /\ alive \in Nat /\ working \in Nat
  /\ thcount_lock \in Callers \cup {None}
  /\ rwmutex \in Callers \cup {None}
  /\ queue \in Seq(Jobs)
  /\ v \in {0, 1}
  /\ arg \in [Callers -> Jobs \cup {None}]
  /\ cpc \in [Clients -> ClientPC]
  /\ sig \subseteq Threads /\ held \subseteq Threads
  /\ fresh \subseteq Jobs /\ done \subseteq Jobs /\ dropped \subseteq Jobs
  /\ due \in [Clients -> SUBSET Jobs]
  /\ budget \in [Bounds -> Nat]

\* No lost wakeup (bsem_wait, bsem_post and the repost in jobqueue_pull).
\* The semaphore is binary, so that several posts count as one.  Still, while
\* the pool runs and a job is queued with no push or pull in progress, either
\* the semaphore is up or a worker that took it is on its way to the queue;
\* and nobody sleeps on a raised semaphore unless a woken worker will test it.
WorkConserving ==
  /\ keepalive /\ queue # <<>> /\ rwmutex = None
       => v = 1 \/ \E t \in Threads : pc[t] \in {"check", "inc", "pull"}
  /\ v = 1 /\ Blocked(pc) # {} => \E t \in Threads : pc[t] = "wait"

\* When thpool_wait, holding thcount_lock after it has read an empty queue,
\* is about to return because num_threads_working is zero, every job that was
\* queued or running when it was called has returned, although len was read
\* without rwmutex and the two reads are not one step.
WaitReturnsAfterDueJobs ==
  \A c \in Clients :
    cpc[c] = "lenzero" /\ working = 0 => due[c] \subseteq done

\* thpool_destroy frees the pool only when every job that a worker had taken
\* has returned and no worker is inside the pool's loop.
FreedOnlyWhenIdle ==
  life = "freed" =>
    /\ Running = {} /\ queue = <<>> /\ rwmutex = None
    /\ \A t \in Threads : pc[t] \in {"unlock", "gone"}

\* A job that has been accepted is eventually run to its end or, when the
\* pool is being destroyed, dropped: no job is forgotten in the queue.
AcceptedJobsFinish ==
  \A j \in Jobs : j \notin fresh ~> j \in done \cup dropped

\* A call of thpool_wait returns once the pool has come to rest.
WaitReturns == \A c \in Clients : cpc[c] # "idle" ~> cpc[c] = "idle"

\* Calls come back.  thpool_init returns unless a thread_init has failed (its
\* result is ignored) or a worker has left its loop before all are alive, as
\* thpool_destroy of another pool makes it do.  thpool_add_work returns unless workers stay on hold for
\* ever (one of them may have been stopped with rwmutex).  thpool_resume
\* releases every thread when it is called after all the signals of
\* thpool_pause were delivered.
CallsReturn ==
  /\ life = "init" ~> life # "init" \/ \E t \in Threads : pc[t] \in {"failed", "exit", "unlock", "gone"}
  /\ <>[](held = {}) => \A c \in Callers : arg[c] # None ~> arg[c] = None
  /\ sig = {} /\ ~onhold ~> held = {} \/ sig # {}
====
