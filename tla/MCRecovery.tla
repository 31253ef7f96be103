------------------------------ MODULE MCRecovery ------------------------------
(* An instance of Recovery for TLC. *)
EXTENDS Recovery, TLC

CONSTANTS k1, k2, d1, d2, x1, x2, c1

AllPeers == Control \cup Data \cup Client

(* Every data and client socket names the same connection id. *)
OneConnection == [p \in Data \cup Client |-> c1]
==============================================================================
