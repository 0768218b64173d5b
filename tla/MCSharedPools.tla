---------------------------- MODULE MCSharedPools ----------------------------
(* The instance of SharedPools for TLC; the cfg gives all constants. *)
EXTENDS SharedPools
====
