-------------------------------- MODULE Pipes ---------------------------------
(***************************************************************************)
(* What the mux promises of its streams (node-access-3role/src/mux.rs):    *)
(* each direction of a stream is a byte pipe of its own. What an end reads *)
(* is what one other end of the stream wrote, in order; it sees the end of *)
(* file only when that end has closed. Nothing is left out, except where   *)
(* the pipe is torn. A pipe may also fall silent for ever (a lost          *)
(* websocket).                                                             *)
(***************************************************************************)
EXTENDS Naturals, Sequences

CONSTANTS
    Stream,        \* stream ends
    AreEnds(_, _)  \* whether two are ends of one stream

VARIABLES
    wrote,       \* stream end -> how many payloads were written into it
    shut,        \* stream ends that write no more
    got,         \* stream end -> the payloads read from it, as
                 \* <<writer, number among the writer's>>
    ended,       \* stream ends that have seen the end
    torn         \* stream ends that may miss what was written for them

vars == <<wrote, shut, got, ended, torn>>

Init ==
    /\ wrote = [s \in Stream |-> 0]
    /\ shut = {}
    /\ got = [s \in Stream |-> <<>>]
    /\ ended = {}
    /\ torn = {}

Write(s) ==
    /\ s \notin shut
    /\ wrote' = [wrote EXCEPT ![s] = @ + 1]
    /\ UNCHANGED <<shut, got, ended, torn>>

Shut(s) ==
    /\ shut' = shut \cup {s}
    /\ UNCHANGED <<wrote, got, ended, torn>>

(* All that s has read comes from t. *)
ReadsFrom(s, t) == AreEnds(s, t) /\ \A k \in 1 .. Len(got[s]) : got[s][k][1] = t

(* The next payload of t for s, or a later one when s may miss some. *)
Read(s, t) ==
    /\ ReadsFrom(s, t)
    /\ \E n \in 1 .. wrote[t] :
          /\ \A k \in 1 .. Len(got[s]) : got[s][k][2] < n
          /\ n = Len(got[s]) + 1 \/ s \in torn
          /\ got' = [got EXCEPT ![s] = Append(@, <<t, n>>)]
    /\ UNCHANGED <<wrote, shut, ended, torn>>

End(s, t) ==
    /\ ReadsFrom(s, t)
    /\ t \in shut
    /\ Len(got[s]) = wrote[t] \/ s \in torn
    /\ ended' = ended \cup {s}
    /\ UNCHANGED <<wrote, shut, got, torn>>

(* Several pipes may tear at once. *)
Tear(S) ==
    /\ torn' = torn \cup S
    /\ UNCHANGED <<wrote, shut, got, ended>>

Next ==
    \/ \E s \in Stream : Write(s) \/ Shut(s)
    \/ \E s, t \in Stream : Read(s, t) \/ End(s, t)
    \/ \E S \in SUBSET Stream : Tear(S)

Spec == Init /\ [][Next]_vars
=============================================================================
