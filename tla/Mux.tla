---------------------------------- MODULE Mux ---------------------------------
(***************************************************************************)
(* The stream multiplexer inside a data socket (mux.rs of the 3-role       *)
(* crate, which both programs use): its two loops, its table of streams,   *)
(* and what the users of a stream do with it: the pipes (tunnel.rs) that   *)
(* the programs put between a stream and a TCP connection.                 *)
(*                                                                         *)
(* All muxes here meet at the relay on one connection id. A client socket  *)
(* stays one mux of the access side for its life. Every time the node      *)
(* dials the id anew it starts a fresh mux, which counts its streams from  *)
(* the beginning, and the relay may still hold the socket of the one       *)
(* before. The relay passes a frame of a client on to the node mux that    *)
(* holds the server data slot, and a frame of any node mux to every        *)
(* client. While the slot is empty it buffers the clients' frames, and may *)
(* drop the oldest. It loses a frame for a socket whose queue is full.     *)
(***************************************************************************)
EXTENDS Naturals, Sequences, Functions

CONSTANTS
    Node,        \* the muxes of the server data sockets, one for each dial
    Access,      \* the muxes of the client sockets
    MaxOpens,    \* bound: mux -> how many streams it opens
    MaxWrites,   \* bound: stream end -> how many payloads are written into it
    Buffer,      \* PENDING_FRAME_LIMIT: frames the relay keeps for a node to come
    Hasty,       \* bound: stream ends whose users may drop them before both
                 \* directions have ended
    Faulty,      \* bound: muxes that may receive a frame which they cannot
                 \* decrypt or decode
    Cut,         \* bound: muxes whose websocket may end at any moment
    Slow         \* bound: muxes whose queue at the relay may be full

ASSUME MuxAssumption ==
    /\ Node \cap Access = {}
    /\ MaxOpens \in [Access \cup Node -> Nat]
    /\ Buffer \in Nat \ {0}
    /\ Faulty \subseteq Access \cup Node
    /\ Cut \subseteq Access \cup Node
    /\ Slow \subseteq Access \cup Node

End == Access \cup Node
Peers(e) == IF e \in Node THEN Access ELSE Node

(* A VirtualStream: the mux that holds it, the mux that opened the stream,    *)
(* and its number among that mux's streams. The ends of a stream share opener *)
(* and number; which node mux gets to hold the other end of a client's stream *)
(* is up to the relay.                                                        *)
Stream == UNION {[at : {b} \cup Peers(b), by : {b}, n : 1 .. MaxOpens[b]] : b \in End}

ASSUME StreamAssumption == MaxWrites \in [Stream -> Nat] /\ Hasty \subseteq Stream

AreEnds(s, t) == s.by = t.by /\ s.n = t.n /\ t.at \in Peers(s.at)

VARIABLES
    opened,      \* mux -> how many streams it has opened: gives next_stream_id
    streams,     \* the stream ends whose sender is in their mux's table
    removing,    \* dropped stream ends whose removal task has not run
    lent,        \* muxes with a clone of their handle in a task that will
                 \* open a stream
    outbound,    \* mux -> frames for its write loop
    inbox,       \* mux -> frames on their way from the relay to its read loop
    pending,     \* the clients' frames that the relay keeps for a node to come
    joined,      \* muxes whose socket has been registered at the relay
    left,        \* those whose socket has been unregistered again
    route,       \* the mux in the server data slot, if any, as a set
    torn,        \* history: stream ends for which a frame has been refused
    writing,     \* muxes whose write loop runs
    reading,     \* muxes whose read loop runs
    up,          \* muxes whose websocket has not ended
    owned,       \* muxes whose program still holds the MuxConnection
    phase,       \* stream end -> "none", "incoming" (not taken by the program
                 \* yet), "held", "dropped"
    sent_close,  \* the stream ends with that flag
    inbound,     \* stream end -> payloads received and not read yet
    wrote,       \* stream end -> how many payloads were written into it
    got,         \* stream end -> payloads read, as <<writer, number>>
    ended        \* stream ends that have read the end of file

table == <<opened, streams, removing, lent>>
wires == <<outbound, inbox, pending>>
relay == <<joined, left, route, torn>>
loops == <<writing, reading, up, owned>>
users == <<phase, sent_close, inbound, wrote, got, ended>>
vars == <<table, wires, relay, loops, users>>

(* The clients' sockets are registered. A node mux that is started later is   *)
(* one that has done nothing yet; one that is never started does nothing.     *)
Init ==
    /\ opened = [e \in End |-> 0]
    /\ streams = {}
    /\ removing = {}
    /\ lent = {}
    /\ outbound = [e \in End |-> <<>>]
    /\ inbox = [e \in End |-> <<>>]
    /\ pending = <<>>
    /\ joined = Access
    /\ left = {}
    /\ route = {}
    /\ torn = {}
    /\ writing = End
    /\ reading = End
    /\ up = End
    /\ owned = End
    /\ phase = [s \in Stream |-> "none"]
    /\ sent_close = {}
    /\ inbound = [s \in Stream |-> <<>>]
    /\ wrote = [s \in Stream |-> 0]
    /\ got = [s \in Stream |-> <<>>]
    /\ ended = {}

-----------------------------------------------------------------------------
(* Stream ids are odd on the access side and even on the node's.              *)
First(e) == IF e \in Node THEN 2 ELSE 1
Id(s) == First(s.by) + 2 * (s.n - 1)

(* A frame names its stream by Id(from). Who sent it, and its number among    *)
(* the frames of that stream end (an Open is 0, the first payload 1), are     *)
(* history.                                                                   *)
Frame(type, s, n) == [type |-> type, from |-> s, n |-> n]

Entries(e, id) == {s \in streams : s.at = e /\ Id(s) = id}

(* HashMap::insert replaces. *)
Inserted(s) == (streams \ Entries(s.at, Id(s))) \cup {s}

(* What a send through the mpsc channel of s's mux leaves in it. *)
Sent(s, frame) ==
    IF s.at \in writing THEN [outbound EXCEPT ![s.at] = Append(@, frame)] ELSE outbound

-----------------------------------------------------------------------------
(* The users of a mux and its streams *)

(* A TCP connection is accepted, or a visit has looked up its provider: a task *)
(* of its own gets a clone of the handle. At most one at a time.              *)
Lend(e) ==
    /\ e \in owned \ lent
    /\ opened[e] < MaxOpens[e]
    /\ lent' = lent \cup {e}
    /\ UNCHANGED <<opened, streams, removing, wires, relay, loops, users>>

(* Mutant of Open: the next stream gets the same id. *)
OpenSameId(e) ==
    LET s == [at |-> e, by |-> e, n |-> opened[e] + 1] IN
    /\ e \in lent
    /\ lent' = lent \ {e}
    /\ streams' = Inserted(s)
    /\ outbound' = Sent(s, Frame("Open", s, 0))
    /\ phase' = [phase EXCEPT ![s] = IF e \in writing THEN "held" ELSE "dropped"]
    /\ UNCHANGED <<opened, removing, inbox, pending, relay, loops, sent_close, inbound, wrote, got, ended>>

(* open_stream, which needs nothing but the handle. When the write loop has   *)
(* ended it fails, and what it inserted stays in the table.                   *)
Open(e) ==
    LET s == [at |-> e, by |-> e, n |-> opened[e] + 1] IN
    /\ e \in lent
    /\ lent' = lent \ {e}
    /\ opened' = [opened EXCEPT ![e] = @ + 1]
    /\ streams' = Inserted(s)
    /\ outbound' = Sent(s, Frame("Open", s, 0))
    /\ phase' = [phase EXCEPT ![s] = IF e \in writing THEN "held" ELSE "dropped"]
    /\ UNCHANGED <<removing, inbox, pending, relay, loops, sent_close, inbound, wrote, got, ended>>

(* poll_write; fails once the write loop has ended, which ends the pipe. *)
Write(s) ==
    /\ phase[s] = "held" /\ s \notin sent_close
    /\ s.at \in writing
    /\ wrote[s] < MaxWrites[s]
    /\ wrote' = [wrote EXCEPT ![s] = @ + 1]
    /\ outbound' = Sent(s, Frame("Data", s, wrote[s] + 1))
    /\ UNCHANGED <<table, inbox, pending, relay, loops, phase, sent_close, inbound, got, ended>>

(* Mutant of Shutdown: the peer is not told. *)
ShutdownSilently(s) ==
    /\ phase[s] = "held" /\ s \notin sent_close
    /\ sent_close' = sent_close \cup {s}
    /\ UNCHANGED <<table, wires, relay, loops, phase, inbound, wrote, got, ended>>

(* poll_shutdown: close_remote. Reads go on. *)
Shutdown(s) ==
    /\ phase[s] = "held" /\ s \notin sent_close
    /\ sent_close' = sent_close \cup {s}
    /\ outbound' = Sent(s, Frame("Close", s, wrote[s] + 1))
    /\ UNCHANGED <<table, inbox, pending, relay, loops, phase, inbound, wrote, got, ended>>

(* poll_read; how payloads are cut into reads is left out. *)
Read(s) ==
    /\ phase[s] = "held" /\ s \notin ended
    /\ inbound[s] # <<>>
    /\ got' = [got EXCEPT ![s] = Append(@, Head(inbound[s]))]
    /\ inbound' = [inbound EXCEPT ![s] = Tail(@)]
    /\ UNCHANGED <<table, wires, relay, loops, phase, sent_close, wrote, ended>>

(* poll_read finds the channel empty and without a sender. The sender is in   *)
(* the table, and nowhere else.                                               *)
ReadEnd(s) ==
    /\ phase[s] = "held" /\ s \notin ended
    /\ inbound[s] = <<>> /\ s \notin streams
    /\ ended' = ended \cup {s}
    /\ UNCHANGED <<table, wires, relay, loops, phase, sent_close, inbound, wrote, got>>

MayDrop(s) ==
    \/ s \in sent_close \cap ended
    \/ s \in Hasty
    \/ phase[s] = "incoming" /\ s.at \notin owned

(* Mutant of Drop: the entry is left to the peer's Close. *)
DropKeepingEntry(s) ==
    /\ phase[s] \in {"incoming", "held"}
    /\ MayDrop(s)
    /\ phase' = [phase EXCEPT ![s] = "dropped"]
    /\ outbound' = IF s \in sent_close THEN outbound ELSE Sent(s, Frame("Close", s, wrote[s] + 1))
    /\ sent_close' = sent_close \cup {s}
    /\ inbound' = [inbound EXCEPT ![s] = <<>>]
    /\ UNCHANGED <<table, inbox, pending, relay, loops, wrote, got, ended>>

(* The end of a pipe, at any moment: both directions are done, or one has     *)
(* failed. Or the program does not want an incoming stream. The sender leaves *)
(* the table in a task of its own.                                            *)
Drop(s) ==
    /\ phase[s] \in {"incoming", "held"}
    /\ MayDrop(s)
    /\ phase' = [phase EXCEPT ![s] = "dropped"]
    /\ outbound' = IF s \in sent_close THEN outbound ELSE Sent(s, Frame("Close", s, wrote[s] + 1))
    /\ sent_close' = sent_close \cup {s}
    /\ inbound' = [inbound EXCEPT ![s] = <<>>]
    /\ removing' = removing \cup {s}
    /\ UNCHANGED <<opened, streams, lent, inbox, pending, relay, loops, wrote, got, ended>>

(* By id: whoever has the id loses its sender. *)
Remove(s) ==
    /\ s \in removing
    /\ removing' = removing \ {s}
    /\ streams' = streams \ Entries(s.at, Id(s))
    /\ UNCHANGED <<opened, lent, wires, relay, loops, users>>

(* The program takes a stream out of the incoming channel. *)
Take(s) ==
    /\ phase[s] = "incoming" /\ s.at \in owned
    /\ phase' = [phase EXCEPT ![s] = "held"]
    /\ UNCHANGED <<table, wires, relay, loops, sent_close, inbound, wrote, got, ended>>

(* The program lets go of the connection when closed reports the end of the   *)
(* read loop, or when a control message cannot be sent.                       *)
Abandon(e) ==
    /\ e \in owned
    /\ e \notin reading \cap writing
    /\ owned' = owned \ {e}
    /\ UNCHANGED <<table, wires, relay, writing, reading, up, users>>

-----------------------------------------------------------------------------
(* write_loop, and the relay behind it *)

(* Mutant of Buffered: the newest frame comes first. *)
BufferedInFront(q, frame) == IF Len(q) < Buffer THEN <<frame>> \o q ELSE <<frame>> \o Tail(q)

(* buffer_pending_locked: the oldest frame goes when there are too many. *)
Buffered(q, frame) == IF Len(q) < Buffer THEN Append(q, frame) ELSE Append(Tail(q), frame)

(* Whom the relay forwards a frame of e to: to a registered socket, which may *)
(* have ended already.                                                        *)
Targets(e) == IF e \in Node THEN Access \ left ELSE route

(* The end that a frame about stream end t is meant for, at mux p. *)
EndAt(p, t) == [at |-> p, by |-> t.by, n |-> t.n]

(* forward_frame (or buffer_pending_locked) for the next frame of a socket,   *)
(* the one that has lost its slot included. A target whose queue is full      *)
(* loses it, and the Close it is offered as well, or only the frame.          *)
WriteFrame(e) ==
    LET f == Head(outbound[e]) IN
    /\ e \in writing \cap up \cap joined
    /\ outbound[e] # <<>>
    /\ outbound' = [outbound EXCEPT ![e] = Tail(@)]
    /\ pending' = IF e \in Access /\ route = {} THEN Buffered(pending, f) ELSE pending
    /\ \E full \in SUBSET (Targets(e) \cap Slow) :
          /\ inbox' = [p \in End |-> IF p \in (Targets(e) \cap up) \ full
                                        THEN Append(inbox[p], f) ELSE inbox[p]]
          /\ torn' = torn \cup (Stream \cap {EndAt(p, f.from) : p \in full})
    /\ UNCHANGED <<table, joined, left, route, loops, users>>

(* The first frame after the end of the websocket ends the loop. *)
WriteFails(e) ==
    /\ e \in writing \ up
    /\ outbound[e] # <<>>
    /\ writing' = writing \ {e}
    /\ outbound' = [outbound EXCEPT ![e] = <<>>]
    /\ UNCHANGED <<table, inbox, pending, relay, reading, up, owned, users>>

(* So does the last sender's end: the program's, the read loop's, those of    *)
(* clones of the handle and of the streams. The loop then closes the websocket. *)
WriterDone(e) ==
    /\ e \in writing \ (owned \cup reading \cup lent)
    /\ outbound[e] = <<>>
    /\ \A s \in Stream : s.at = e => phase[s] \in {"none", "dropped"}
    /\ writing' = writing \ {e}
    /\ up' = up \ {e}
    /\ UNCHANGED <<table, wires, relay, reading, owned, users>>

-----------------------------------------------------------------------------
(* read_loop *)

Received(e) ==
    /\ e \in reading
    /\ inbox[e] # <<>>
    /\ inbox' = [inbox EXCEPT ![e] = Tail(@)]

ReadOpen(e) ==
    LET f == Head(inbox[e])
        s == [at |-> e, by |-> f.from.by, n |-> f.from.n]
    IN  /\ Received(e) /\ f.type = "Open"
        /\ streams' = Inserted(s)
        /\ phase' = [phase EXCEPT ![s] = "incoming"]
        /\ UNCHANGED <<opened, removing, lent, outbound, pending, relay, loops, sent_close, inbound, wrote, got, ended>>

(* Data for an id without an entry is dropped; so is what the stream end, if  *)
(* it is gone already, will not read.                                         *)
ReadData(e) ==
    LET f == Head(inbox[e])
        to == {s \in Entries(e, Id(f.from)) : phase[s] # "dropped"}
    IN  /\ Received(e) /\ f.type = "Data"
        /\ inbound' = [s \in Stream |-> IF s \in to THEN Append(inbound[s], <<f.from, f.n>>)
                                                    ELSE inbound[s]]
        /\ UNCHANGED <<table, outbound, pending, relay, loops, phase, sent_close, wrote, got, ended>>

(* Mutant of ReadClose: what waits is thrown away. *)
ReadCloseAtOnce(e) ==
    LET f == Head(inbox[e])
        to == Entries(e, Id(f.from))
    IN  /\ Received(e) /\ f.type = "Close"
        /\ streams' = streams \ to
        /\ inbound' = [s \in Stream |-> IF s \in to THEN <<>> ELSE inbound[s]]
        /\ UNCHANGED <<opened, removing, lent, outbound, pending, relay, loops, phase, sent_close, wrote, got, ended>>

ReadClose(e) ==
    LET f == Head(inbox[e]) IN
    /\ Received(e) /\ f.type = "Close"
    /\ streams' = streams \ Entries(e, Id(f.from))
    /\ UNCHANGED <<opened, removing, lent, outbound, pending, relay, loops, users>>

(* The websocket has ended, or a frame cannot be decrypted or decoded. The    *)
(* table keeps its senders.                                                   *)
ReaderEnds(e) ==
    /\ e \in reading
    /\ e \in Faulty \/ e \notin up
    /\ reading' = reading \ {e}
    /\ inbox' = [inbox EXCEPT ![e] = <<>>]
    /\ UNCHANGED <<table, outbound, pending, relay, writing, up, owned, users>>

ReadStep(e) == ReadOpen(e) \/ ReadData(e) \/ ReadClose(e)

-----------------------------------------------------------------------------
(* The sockets at the relay *)

(* What is left of q when the frames at some places are taken out. *)
Subsequences(q) ==
    UNION {{[k \in 1 .. m |-> q[h[k]]] :
              h \in {g \in [1 .. m -> 1 .. Len(q)] : \A j, k \in 1 .. m : j < k => g[j] < g[k]}} :
           m \in 0 .. Len(q)}

(* The relay registers the socket of a node mux, apart from what the node     *)
(* does: it replaces the one in the slot and gets what is buffered, as far as *)
(* its queue takes it.                                                        *)
Register(i) ==
    /\ i \in Node \ joined
    /\ joined' = joined \cup {i}
    /\ route' = {i}
    /\ \E kept \in IF i \in Slow THEN Subsequences(pending) ELSE {pending} :
          /\ inbox' = [inbox EXCEPT ![i] = IF i \in up THEN kept ELSE <<>>]
          /\ torn' = torn \cup
                      (Stream \cap {EndAt(i, f.from) : f \in Range(pending) \ Range(kept)})
    /\ pending' = <<>>
    /\ UNCHANGED <<table, outbound, left, loops, users>>

(* The relay has told the socket of e to close: it has been replaced, or has  *)
(* no client left; a server data socket has gone; its queue was full.         *)
ToldToClose(e) ==
    \/ e \in (Node \cap joined) \ route
    \/ e \in Access /\ left \cap Node # {}
    \/ \E s \in torn : s.at = e

(* A websocket ends under its running loops: the relay closes it, or the      *)
(* network loses it, or it is idle, too fast or too slow. What is on its way  *)
(* may still arrive, or not (ReaderEnds).                                     *)
SocketEnds(e) ==
    /\ e \in up
    /\ e \in Cut \/ ToldToClose(e)
    /\ up' = up \ {e}
    /\ UNCHANGED <<table, wires, relay, writing, reading, owned, users>>

(* The relay notices, sooner or later: unregister. The last client takes the  *)
(* server data slot and the buffer along.                                     *)
Unregister(e) ==
    LET last == e \in Access /\ Access \subseteq left' IN
    /\ e \in joined \ (left \cup up)
    /\ left' = left \cup {e}
    /\ route' = IF last THEN {} ELSE route \ {e}
    /\ pending' = IF last THEN <<>> ELSE pending
    /\ UNCHANGED <<table, outbound, inbox, joined, torn, loops, users>>

-----------------------------------------------------------------------------
(* Every stream of the instance has come and gone, and no frame is left. *)
Finished ==
    /\ \A e \in End : e \in owned => opened[e] = MaxOpens[e]
    /\ \A s \in Stream : phase[s] \in {"none", "dropped"}
    /\ removing = {} /\ lent = {}
    /\ UNCHANGED vars

(* A stream that has been closed for writing and waits for ever: its partner  *)
(* never came to be, or the read loop has ended. The table holds its sender,  *)
(* so poll_read stays pending.                                                *)
Stranded(s) ==
    /\ phase[s] = "held" /\ s \in sent_close
    /\ inbound[s] = <<>> /\ s \in streams
    /\ s.at \notin reading \/ \A t \in Stream : AreEnds(s, t) => phase[t] = "none"
    /\ UNCHANGED vars

Next ==
    \/ \E e \in End :
          \/ Lend(e) \/ Open(e) \/ Abandon(e)
          \/ WriteFrame(e) \/ WriteFails(e) \/ WriterDone(e)
          \/ ReadStep(e) \/ ReaderEnds(e)
          \/ Register(e) \/ SocketEnds(e) \/ Unregister(e)
    \/ \E s \in Stream :
          \/ Take(s) \/ Write(s) \/ Shutdown(s) \/ Read(s) \/ ReadEnd(s)
          \/ Drop(s) \/ Remove(s) \/ Stranded(s)
    \/ Finished

Spec == Init /\ [][Next]_vars

(* The loops and the removal tasks run on, as long as the websocket takes and *)
(* gives frames. Nothing is assumed of the users of a stream.                 *)
Fairness ==
    /\ \A e \in End : WF_vars(WriteFrame(e)) /\ WF_vars(ReadStep(e))
    /\ \A s \in Stream : WF_vars(Remove(s))

FairSpec == Spec /\ Fairness

-----------------------------------------------------------------------------
FrameType == [type : {"Open", "Data", "Close"}, from : Stream, n : Nat]

(* Type invariant: what waits for a stream end are payloads, what waits for  *)
(* a loop are frames; no table has two entries for one id, nor one for a     *)
(* stream that its opener has not counted.                                   *)
TypeOK ==
    /\ opened \in [End -> Nat]
    /\ streams \subseteq Stream
    /\ \A s \in streams : s.n <= opened[s.by]
    /\ \A s, t \in streams : s.at = t.at /\ Id(s) = Id(t) => s = t
    /\ removing \subseteq Stream /\ lent \subseteq End
    /\ \A e \in lent : opened[e] < MaxOpens[e]
    /\ outbound \in [End -> Seq(FrameType)]
    /\ inbox \in [End -> Seq(FrameType)]
    /\ pending \in Seq(FrameType)
    /\ joined \subseteq End /\ left \subseteq joined \ up
    /\ route \subseteq Node /\ \A i, j \in route : i = j
    /\ torn \subseteq Stream
    /\ writing \subseteq End /\ reading \subseteq End /\ up \subseteq End /\ owned \subseteq End
    /\ phase \in [Stream -> {"none", "incoming", "held", "dropped"}]
    /\ sent_close \subseteq Stream
    /\ inbound \in [Stream -> Seq(Stream \X Nat)]
    /\ wrote \in [Stream -> Nat]
    /\ got \in [Stream -> Seq(Stream \X Nat)]
    /\ ended \subseteq Stream

(* What is read from a stream was written into a partner of it: payloads     *)
(* never end up in another TCP connection (ids and table lookups).           *)
StreamsIsolated ==
    \A s \in Stream : \A i \in 1 .. Len(got[s]) : AreEnds(s, got[s][i][1])

(* A sender in the table belongs to a stream that the program has or will be *)
(* given, or its removal is under way: no entry is left behind by a stream   *)
(* that is gone, except one that was opened after the end of the write loop  *)
(* (open_stream, Drop).                                                      *)
EntriesHaveOwners ==
    \A s \in streams :
        \/ phase[s] \in {"incoming", "held"}
        \/ s \in removing
        \/ s.at \notin writing

(* Each direction of a stream is a pipe: what comes out is what the other end *)
(* put in, in order, and the end comes after it, whatever is half-closed,     *)
(* dropped or lost with a websocket, and whichever node muxes replace one     *)
(* another. Nothing is missing, unless the relay refused a frame of the       *)
(* stream for a full queue (mux.rs, forward_frame).                           *)
Abstract == INSTANCE Pipes WITH shut <- sent_close
PipesKept == Abstract!Spec

(* Two muxes that the relay still connects in both directions. *)
Linked(e, p) ==
    /\ {e, p} \subseteq up \cap reading \cap writing
    /\ e \in route \/ p \in route

(* When an end has closed, by shutdown or by drop, the sender of the other    *)
(* end leaves the table in the end, so that it reads the end of file          *)
(* (close_remote, write_loop, read_loop): unless a loop or websocket of the   *)
(* two has ended, the node's mux has lost the slot, or the relay refused a    *)
(* frame of the stream, which may have been the Close.                        *)
ClosesArrive ==
    <>[](\A s, t \in Stream :
            AreEnds(s, t) /\ s \in sent_close =>
                t \notin streams \/ t \in torn \/ ~Linked(s.at, t.at))
=============================================================================
