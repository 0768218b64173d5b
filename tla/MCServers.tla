------------------------------ MODULE MCServers ------------------------------
(* Instances of Servers for TLC: two servers that connect to each other. *)
EXTENDS ServersPool, TLC

CONSTANTS A, B, ab, ba

MCFrom == ab :> A @@ ba :> B
MCRequests == ab :> {"INT"} @@ ba :> {"INT", "START"}
MCTo == ab :> B @@ ba :> A
====
