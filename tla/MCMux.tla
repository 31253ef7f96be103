-------------------------------- MODULE MCMux --------------------------------
(* Instances of Mux for TLC. *)
EXTENDS Mux, TLC

CONSTANTS n1, n2, a1, a2

(* One visit and one provider stream; one visit; one of each client. *)
OneEach == (a1 :> 1) @@ (n1 :> 1)
Visit == (a1 :> 1) @@ (n1 :> 0) @@ (n2 :> 0)
VisitEach == (a1 :> 1) @@ (a2 :> 1) @@ (n1 :> 0)

(* Payloads: from the visitor alone; two from it and one back from the first  *)
(* node mux; or one from every stream end.                                    *)
OneByVisitor == [s \in Stream |-> IF s.by = a1 /\ s.at = a1 THEN 1 ELSE 0]
TwoByVisitorOneBack == [s \in Stream |-> IF s.at = a1 THEN 2 ELSE IF s.at = n1 THEN 1 ELSE 0]
OneOfEach == [s \in Stream |-> 1]

(* Ends whose TCP connections may fail. *)
NodeEndOfVisit == {s \in Stream : s.at = n1 /\ s.by = a1}
AnyEnd == Stream
==============================================================================
