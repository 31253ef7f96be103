----------------------------- MODULE MCNodeRelay -----------------------------
(* Instances of NodeRelay for TLC. *)
EXTENDS NodeRelay, TLC

CONSTANTS a1, a2, b1, n1, n2, s1, s2, v1, v2, c1, c2

(* Two data channels for c1, one after the other, and one for c2. *)
TwoForC1 == [ch \in Channel |-> IF ch = b1 THEN c2 ELSE c1]

(* n1 is offered under both connection ids, under one with two auth values. *)
Offers ==
    [ch \in Channel |-> CASE ch = a1 -> [name : {n1}, auth : {NoAuth, s1}]
                          [] ch = a2 -> {}
                          [] ch = b1 -> {[name |-> n1, auth |-> s2]}]

(* A visitor stream of c2 asks for n1, one of c1 for n2; both present s1. *)
Visitors ==
    [v \in Visit |-> IF v = v1 THEN [on |-> b1, name |-> n1, auth |-> s1]
                               ELSE [on |-> a1, name |-> n2, auth |-> s1]]

(* A 2-role node that provides n2 itself. *)
OwnProvider == n2 :> s1
==============================================================================
