-------------------------------- MODULE JobPool --------------------------------
(***************************************************************************)
(* What the thread pool promises (thread_pool.h), without threads, locks   *)
(* or semaphore: jobs are started in the order in which they were added,   *)
(* at most Size of them run at a time, each is run once, and destroying    *)
(* the pool waits for the running jobs and drops the queued ones.          *)
(***************************************************************************)
EXTENDS Naturals, Sequences, FiniteSets

CONSTANTS Jobs, Size

VARIABLES life, fresh, queue, running, done, dropped

vars == <<life, fresh, queue, running, done, dropped>>

Init ==
  /\ life = "init"
  /\ fresh = Jobs
  /\ queue = <<>>
  /\ running = {} /\ done = {} /\ dropped = {}

\* Work comes from clients of an open pool, or from a running job.
MayAdd == life = "open" \/ running # {}

Open ==
  /\ life = "init"
  /\ life' \in {"open", "null"}
  /\ UNCHANGED <<fresh, queue, running, done, dropped>>

Add(j) ==
  /\ MayAdd /\ j \in fresh
  /\ fresh' = fresh \ {j}
  /\ queue' = Append(queue, j)
  /\ UNCHANGED <<life, running, done, dropped>>

Refuse(j) ==
  /\ MayAdd /\ j \in fresh
  /\ fresh' = fresh \ {j}
  /\ dropped' = dropped \cup {j}
  /\ UNCHANGED <<life, queue, running, done>>

Start ==
  /\ queue # <<>>
  /\ Cardinality(running) < Size
  /\ queue' = Tail(queue)
  /\ running' = running \cup {Head(queue)}
  /\ UNCHANGED <<life, fresh, done, dropped>>

Finish(j) ==
  /\ j \in running
  /\ running' = running \ {j}
  /\ done' = done \cup {j}
  /\ UNCHANGED <<life, fresh, queue, dropped>>

Close ==
  /\ life = "open"
  /\ life' = "closing"
  /\ UNCHANGED <<fresh, queue, running, done, dropped>>

Free ==
  /\ life = "closing" /\ running = {}
  /\ life' = "freed"
  /\ dropped' = dropped \cup {queue[i] : i \in DOMAIN queue}
  /\ queue' = <<>>
  /\ UNCHANGED <<fresh, running, done>>

Next ==
  \/ Open \/ Close \/ Free \/ Start
  \/ \E j \in Jobs : Add(j) \/ Refuse(j) \/ Finish(j)

\* A job is started when the pool is open and has room; a started job ends;
\* a pool that is being destroyed is freed.
Fairness ==
  /\ WF_vars(life = "open" /\ Start)
  /\ \A j \in Jobs : WF_vars(Finish(j))
  /\ WF_vars(Free)

Spec == Init /\ [][Next]_vars
FairSpec == Spec /\ Fairness
====
