------------------------------ MODULE SharedPools ------------------------------
(***************************************************************************)
(* threads_keepalive and threads_on_hold are globals of thread_pool.c, so  *)
(* every pool of a process shares them (each socket server has a pool).    *)
(* This module adds to a pool what thpool_init and thpool_destroy of the   *)
(* other pools of the process do to it.                                    *)
(***************************************************************************)
EXTENDS ThreadPool

\* thpool_init of another pool: threads_on_hold = 0; threads_keepalive = 1.
OtherPoolInit ==
  /\ Spend("init")
  /\ onhold' = FALSE
  /\ keepalive' = TRUE
  /\ UNCHANGED <<life, sig, held, pc, job, counters, jobq, v, calls, hist>>

\* thpool_destroy of another pool: threads_keepalive = 0.
OtherPoolDestroy ==
  /\ Spend("destroy")
  /\ keepalive' = FALSE
  /\ UNCHANGED <<life, holdVars, pc, job, counters, jobq, v, calls, hist>>

SharedNext == Next \/ OtherPoolInit \/ OtherPoolDestroy

SharedSpec == Init /\ [][SharedNext]_vars
SharedFairSpec == SharedSpec /\ Fairness
====
