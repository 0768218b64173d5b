----------------------------- MODULE MCThreadPool -----------------------------
(* The instance of ThreadPool for TLC; the cfg gives all constants. *)
EXTENDS ThreadPoolPromise
====
