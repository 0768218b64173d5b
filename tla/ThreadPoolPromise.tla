--------------------------- MODULE ThreadPoolPromise ---------------------------
(***************************************************************************)
(* ThreadPool implements JobPool.                                          *)
(***************************************************************************)
EXTENDS ThreadPool

\* The promise of thread_pool.h.  A job that is in the hands of a caller of
\* thpool_add_work, and not yet linked into the queue, is still fresh.
Promise == INSTANCE JobPool WITH
  Size <- Cardinality(Threads),
  running <- Running,
  fresh <- fresh \cup PushedJobs

\* The pool of thread_pool.c keeps the promise of thread_pool.h: jobs start in
\* FIFO order, at most one per worker runs, each runs once, and destroying
\* the pool waits for the running jobs.  As long as the pool is open, a queued
\* job is started when there is room, and thpool_destroy gets through.
KeepsFairPromise == Promise!FairSpec
====
