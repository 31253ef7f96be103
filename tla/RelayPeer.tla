------------------------------ MODULE RelayPeer ------------------------------
(***************************************************************************)
(* One WebSocket of the relay, as run_peer (relay/src/server.rs) drives it *)
(* and as the session (relay/src/session.rs) sees it: a read loop, a write *)
(* task, and between the session and the write task a bounded mpsc queue   *)
(* that is only ever filled with try_send.                                 *)
(*                                                                         *)
(* The module has no Init or Next of its own: RelaySession adds the        *)
(* routing tables and combines the two.                                    *)
(***************************************************************************)
EXTENDS Integers, Sequences, FiniteSets

CONSTANTS
    Peer,      \* sockets; each has a fresh PeerId, so each is used once
    MaxQueue,  \* RelayLimitsConfig.max_outbound_queue_messages
    LimitCode, \* the close codes for a socket that breaks a limit of its own
    Flaky      \* bound: sockets whose transport may fail while they are open

ASSUME PeerAssumption ==
    /\ MaxQueue \in Nat \ {0}
    /\ LimitCode \subseteq {1001, 1008, 1009}
    /\ Flaky \subseteq Peer

VARIABLES
    phase,     \* where run_peer stands: "absent" (not yet accepted), "open"
               \* (in its read loop), "ending" (left the loop, has not yet
               \* unregistered), "done"
    queue,     \* messages in the mpsc channel, the write task's end first
    writer,    \* write task: "running", "closing" (it has written a Close
               \* frame, after which every write fails), "stopped" (its
               \* receiver is dropped, so try_send returns Closed)
    slow,      \* sockets whose message was refused with Full and whose Close
               \* 1013 is still to be tried; the session lock is held meanwhile
    dropped    \* history: live sockets that lost a message to a full queue

peerVars == <<phase, queue, writer, slow, dropped>>

-----------------------------------------------------------------------------
(* Outbound messages. Text and binary payloads are opaque: a frame is known *)
(* by its sender and its number among the sender's frames.                  *)

CloseCode == {1001, 1008, 1009, 1011, 1012, 1013}

Close(code) == [type |-> "Close", code |-> code]
Frame(p, n) == [type |-> "Frame", from |-> p, n |-> n]
Pong        == [type |-> "Pong"]

IsClose(m) == m.type = "Close"
IsFrame(m) == m.type = "Frame"

PeerMessage == [type : {"Close"}, code : CloseCode]
          \cup [type : {"Frame"}, from : Peer, n : Nat]
          \cup [type : {"Pong"}]

-----------------------------------------------------------------------------
(* What a step sends: for each socket, the sequence of messages it offers.  *)

To(targets, m)     == [p \in Peer |-> IF p \in targets THEN <<m>> ELSE <<>>]
Batch(target, ms)  == [p \in Peer |-> IF p = target THEN ms ELSE <<>>]
Both(first, then)  == [p \in Peer |-> first[p] \o then[p]]
Silence            == [p \in Peer |-> <<>>]

(* try_send refuses what no longer fits. *)
Fill(q, ms) ==
    LET all == q \o ms
    IN  IF Len(all) <= MaxQueue THEN all ELSE SubSeq(all, 1, MaxQueue)

Overflowing(out) ==
    {p \in Peer : writer[p] # "stopped" /\ Len(queue[p] \o out[p]) > MaxQueue}

Offered(out) ==
    [p \in Peer |-> IF writer[p] = "stopped" THEN queue[p]
                                             ELSE Fill(queue[p], out[p])]

(* Offer `out`. The targets in `retried` are addressed with send_or_close,   *)
(* which answers Full with a Close 1013 in a second try_send; for the others *)
(* (close_handle, and run_peer's own Close) a refusal is ignored.            *)
Emit(out, retried) ==
    /\ queue' = Offered(out)
    /\ dropped' = dropped \cup Overflowing(out)
    /\ slow' = slow \cup (Overflowing(out) \cap retried)

(* The second try_send of send_or_close: the queue has room only if the     *)
(* write task took a message since the first one was refused.               *)
CloseSlow(p) ==
    /\ p \in slow
    /\ queue' = Offered(To({p}, Close(1013)))
    /\ slow' = slow \ {p}
    /\ UNCHANGED <<phase, writer, dropped>>

-----------------------------------------------------------------------------
(* The session's mutex: every handler runs under it from start to end, so a *)
(* handler is one step, but for the gap that `slow` stands for.             *)
Unlocked == slow = {}

(* run_peer up to its read loop: registered, write task spawned.  *)
Accept(p) ==
    /\ phase[p] = "absent"
    /\ phase' = [phase EXCEPT ![p] = "open"]
    /\ UNCHANGED writer

(* register returned an error: run_peer writes the Close itself and returns. *)
Refuse(p) ==
    /\ phase[p] = "absent"
    /\ phase' = [phase EXCEPT ![p] = "done"]
    /\ writer' = [writer EXCEPT ![p] = "stopped"]
    /\ UNCHANGED <<queue, slow, dropped>>

(* The read loop hands a message of p to the session. *)
Reading(p) == Unlocked /\ phase[p] = "open"

(* The read loop ends: a Close frame, an error or the end of the stream. *)
EndRemote(p) ==
    /\ phase[p] = "open"
    /\ phase' = [phase EXCEPT ![p] = "ending"]
    /\ UNCHANGED <<queue, writer, slow, dropped>>

(* The read loop ends by the relay's own decision: idle timeout (1001), rate  *)
(* window exceeded (1008), frame too large (1009). The Close is only offered  *)
(* to p's queue. This is outside the session lock.                            *)
EndLimit(p, code) ==
    /\ phase[p] = "open"
    /\ phase' = [phase EXCEPT ![p] = "ending"]
    /\ Emit(To({p}, Close(code)), {})
    /\ UNCHANGED writer

(* The last lines of run_peer, with the messages `out` that unregister offers *)
(* to other sockets: unregister, then write_task.abort(), which discards what *)
(* is still queued for p.                                                     *)
Finish(p, out, retried) ==
    /\ phase[p] = "ending"
    /\ phase' = [phase EXCEPT ![p] = "done"]
    /\ writer' = [writer EXCEPT ![p] = "stopped"]
    /\ queue' = [Offered(out) EXCEPT ![p] = <<>>]
    /\ dropped' = (dropped \cup Overflowing(out)) \ {p}
    /\ slow' = Overflowing(out) \cap retried

-----------------------------------------------------------------------------
(* The write task. *)

(* A message is taken from the queue and written to the socket. *)
WriterSend(p) ==
    /\ phase[p] \in {"open", "ending"}
    /\ writer[p] = "running"
    /\ queue[p] # <<>>
    /\ queue' = [queue EXCEPT ![p] = Tail(@)]
    /\ writer' = [writer EXCEPT ![p] = IF IsClose(Head(queue[p])) THEN "closing"
                                                                  ELSE "running"]
    /\ UNCHANGED <<phase, slow, dropped>>

(* A write fails: the transport is gone, as it is for any socket once its    *)
(* read loop has ended, or a Close has been written before. The task ends    *)
(* and drops the receiver with everything in it; the read loop does not      *)
(* notice.                                                                   *)
WriterFail(p) ==
    /\ phase[p] \in {"open", "ending"}
    /\ \/ writer[p] = "closing"
       \/ writer[p] = "running" /\ (p \in Flaky \/ phase[p] = "ending")
    /\ queue[p] # <<>>
    /\ queue' = [queue EXCEPT ![p] = <<>>]
    /\ writer' = [writer EXCEPT ![p] = "stopped"]
    /\ UNCHANGED <<phase, slow, dropped>>

-----------------------------------------------------------------------------
Live == {p \in Peer : phase[p] \in {"open", "ending"}}

(* p has been, or is about to be, told to close. *)
Closing(p) ==
    \/ writer[p] # "running"
    \/ \E i \in DOMAIN queue[p] : IsClose(queue[p][i])

PeerTypeOK(message) ==
    /\ phase \in [Peer -> {"absent", "open", "ending", "done"}]
    /\ queue \in [Peer -> Seq(message)]
    /\ writer \in [Peer -> {"running", "closing", "stopped"}]
    /\ slow \subseteq Peer
    /\ dropped \subseteq Peer

PeerInit ==
    /\ phase = [p \in Peer |-> "absent"]
    /\ queue = [p \in Peer |-> <<>>]
    /\ writer = [p \in Peer |-> "running"]
    /\ slow = {}
    /\ dropped = {}
=============================================================================
