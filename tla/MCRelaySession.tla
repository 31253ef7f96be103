--------------------------- MODULE MCRelaySession ----------------------------
(* Instances of RelaySession for TLC. *)
EXTENDS RelaySession, TLC

CONSTANTS k1, k2, d1, d2, x1, x2, c1, c2

AllPeers == Control \cup Data \cup Client

(* Every data and client socket names the same connection id. *)
OneConnection == [p \in Data \cup Client |-> c1]

(* One connection id for each client. *)
ClientsApart == [p \in Data \cup Client |-> IF p \in {d1, x1} THEN c1 ELSE c2]

(* Both clients share c1, with d1 as its server; d2 serves c2. *)
ClientsTogether == [p \in Data \cup Client |-> IF p = d2 THEN c2 ELSE c1]

Symmetry == Permutations(Control) \cup Permutations(Data) \cup Permutations(Client)
ControlSymmetry == Permutations(Control)
ClientSymmetry  == Permutations(Client)
=============================================================================
