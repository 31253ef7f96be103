---------------------------- MODULE RelaySession -----------------------------
(***************************************************************************)
(* One v2 session of the relay (RelaySession in relay/src/session.rs): a   *)
(* daemon's control socket, one server data socket and any number of       *)
(* client sockets per connection id, frames buffered until the server data *)
(* socket arrives, and one nudge task per client that resets an            *)
(* unresponsive control socket.                                            *)
(***************************************************************************)
EXTENDS RelayPeer
LOCAL INSTANCE Functions

CONSTANTS
    Control, Data, Client,   \* sockets by PeerKind
    NoPeer,                  \* an empty slot
    ConnId,                  \* connection ids
    ConnOf,                  \* the connection id a data or client socket names
    PendingLimit,            \* PENDING_FRAME_LIMIT
    MaxSockets,              \* max_sockets_per_session
    MaxClients,              \* max_clients_per_connection
    MaxFrames,               \* bound: frames sent by all sockets together
    MaxPings,                \* bound: pings received by the relay
    MaxNudges                \* bound: nudge tasks whose first delay elapses

ASSUME SessionAssumption ==
    /\ Peer = Control \cup Data \cup Client
    /\ Control \cap Data = {} /\ Control \cap Client = {} /\ Data \cap Client = {}
    /\ NoPeer \notin Peer
    /\ ConnOf \in [Data \cup Client -> ConnId]
    /\ PendingLimit \in Nat \ {0}
    /\ MaxSockets \in Nat /\ MaxClients \in Nat \ {0}
    /\ MaxFrames \in Nat /\ MaxPings \in Nat /\ MaxNudges \in Nat

VARIABLES
    server_control,   \* the control socket in its slot, or NoPeer
    server_data,      \* connection id -> server data socket, or NoPeer
    clients,          \* connection id -> set of client sockets
    pending,          \* connection id -> buffered client frames
    nudge,            \* client -> where its nudge task stands
    told,             \* history: control socket -> the connection ids that the
                      \* messages written to it so far add up to
    sent,             \* socket -> frames it has sent, for numbering them
    pings             \* pings received, for the bound MaxPings

routing == <<server_control, server_data, clients, pending>>
vars == <<peerVars, routing, nudge, told, sent, pings>>

-----------------------------------------------------------------------------
Sync(ids)       == [type |-> "Sync", ids |-> ids]
Connected(c)    == [type |-> "Connected", id |-> c]
Disconnected(c) == [type |-> "Disconnected", id |-> c]

Message == PeerMessage
      \cup [type : {"Sync"}, ids : SUBSET ConnId]
      \cup [type : {"Connected", "Disconnected"}, id : ConnId]

(* A task returns early ("done"), or at its end, after the reset ("spent"). *)
NudgeState ==
    {"none", "client1", "data1", "sync", "client2", "data2", "reset", "done", "spent"}

Init ==
    /\ PeerInit
    /\ server_control = NoPeer
    /\ server_data = [c \in ConnId |-> NoPeer]
    /\ clients = [c \in ConnId |-> {}]
    /\ pending = [c \in ConnId |-> <<>>]
    /\ nudge = [x \in Client |-> "none"]
    /\ told = [p \in Control |-> {}]
    /\ sent = [p \in Data \cup Client |-> 0]
    /\ pings = 0

-----------------------------------------------------------------------------
(* The sockets some slot of the session points to. *)
Routed ==
    ({server_control} \cup {server_data[c] : c \in ConnId}
        \cup UNION {clients[c] : c \in ConnId}) \ {NoPeer}

ConnectedIds == {c \in ConnId : clients[c] # {}}

HasRoomForOneMore == Cardinality(Routed) <= MaxSockets  \* mutant of HasRoom
HasRoom == Cardinality(Routed) < MaxSockets

(* Text notifications go to whichever control socket is in the slot. *)
ToControl(m) == To({server_control}, m)

(* A socket that takes a slot has the previous holder closed. *)
ReplacedSilently(old) == Silence  \* mutant of Replaced
Replaced(old) == To({old}, Close(1008))

(* A socket that leaves clears its slot only if it still holds it. *)
VacatedByAnyone(slot, p) == NoPeer  \* mutants of Vacated
NeverVacated(slot, p)    == slot
Vacated(slot, p) == IF slot = p THEN NoPeer ELSE slot

BufferedDroppingNewest(q, frame) ==  \* mutant of Buffered
    IF Len(q) < PendingLimit THEN Append(q, frame) ELSE q

Buffered(q, frame) ==
    LET all == Append(q, frame)
    IN  IF Len(all) <= PendingLimit THEN all ELSE Tail(all)

-----------------------------------------------------------------------------
(* register *)

RegisterRefused(p) ==
    /\ Unlocked
    /\ \/ ~HasRoom
       \/ p \in Client /\ Cardinality(clients[ConnOf[p]]) >= MaxClients
    /\ Refuse(p)
    /\ UNCHANGED <<routing, nudge, told, sent, pings>>

(* Mutant of RegisterControl: a new control socket is told nothing. *)
RegisterControlSilently(p) ==
    /\ Unlocked /\ HasRoom
    /\ Accept(p)
    /\ server_control' = p
    /\ Emit(Replaced(server_control), {})
    /\ UNCHANGED <<server_data, clients, pending, nudge, told, sent, pings>>

RegisterControl(p) ==
    /\ Unlocked /\ HasRoom
    /\ Accept(p)
    /\ server_control' = p
    /\ Emit(Both(Replaced(server_control), To({p}, Sync(ConnectedIds))), Peer \ {server_control})
    /\ UNCHANGED <<server_data, clients, pending, nudge, told, sent, pings>>

(* Mutant of RegisterServerData: the slot is not chosen by connection id. *)
RegisterServerDataEverywhere(p) ==
    /\ Unlocked /\ HasRoom
    /\ Accept(p)
    /\ server_data' = [c \in ConnId |-> p]
    /\ Emit(Silence, {})
    /\ UNCHANGED <<server_control, clients, pending, nudge, told, sent, pings>>

(* Mutant of RegisterServerData: the buffer is removed but not flushed. *)
RegisterServerDataUnflushed(p) ==
    LET c == ConnOf[p] IN
    /\ Unlocked /\ HasRoom
    /\ Accept(p)
    /\ server_data' = [server_data EXCEPT ![c] = p]
    /\ pending' = [pending EXCEPT ![c] = <<>>]
    /\ Emit(Replaced(server_data[c]), {})
    /\ UNCHANGED <<server_control, clients, nudge, told, sent, pings>>

(* The buffered frames are flushed before the write task exists, so what does *)
(* not fit is lost and the Close 1013 that answers it is lost with it.        *)
RegisterServerData(p) ==
    LET c == ConnOf[p] IN
    /\ Unlocked /\ HasRoom
    /\ Accept(p)
    /\ server_data' = [server_data EXCEPT ![c] = p]
    /\ pending' = [pending EXCEPT ![c] = <<>>]
    /\ Emit(Both(Replaced(server_data[c]), Batch(p, pending[c])), {})
    /\ UNCHANGED <<server_control, clients, nudge, told, sent, pings>>

RegisterClient(p) ==
    LET c == ConnOf[p] IN
    /\ Unlocked /\ HasRoom /\ Cardinality(clients[c]) < MaxClients
    /\ Accept(p)
    /\ clients' = [clients EXCEPT ![c] = @ \cup {p}]
    /\ nudge' = [nudge EXCEPT ![p] = "client1"]
    /\ Emit(ToControl(Connected(c)), Peer)
    /\ UNCHANGED <<server_control, server_data, pending, told, sent, pings>>

-----------------------------------------------------------------------------
(* handle_frame and handle_ping *)

NewFrame(p) ==
    /\ FoldFunction(+, 0, sent) < MaxFrames
    /\ sent' = [sent EXCEPT ![p] = @ + 1]

ForwardClientFrame(p) ==
    LET d == server_data[ConnOf[p]] IN
    /\ Reading(p) /\ NewFrame(p)
    /\ d # NoPeer
    /\ Emit(To({d}, Frame(p, sent[p] + 1)), Peer)
    /\ UNCHANGED <<phase, writer, routing, nudge, told, pings>>

BufferClientFrame(p) ==
    LET c == ConnOf[p] IN
    /\ Reading(p) /\ NewFrame(p)
    /\ server_data[c] = NoPeer
    /\ pending' = [pending EXCEPT ![c] = Buffered(@, Frame(p, sent[p] + 1))]
    /\ UNCHANGED <<peerVars, server_control, server_data, clients, nudge, told, pings>>

(* A replaced server data socket is still listened to. *)
ServerDataFrame(p) ==
    /\ Reading(p) /\ NewFrame(p)
    /\ Emit(To(clients[ConnOf[p]], Frame(p, sent[p] + 1)), Peer)
    /\ UNCHANGED <<phase, writer, routing, nudge, told, pings>>

NewPing ==
    /\ pings < MaxPings
    /\ pings' = pings + 1

(* A {"type":"ping"} text on the control channel. Any other text, any binary  *)
(* frame, and a ping of a replaced control socket change nothing.             *)
ControlPing(p) ==
    /\ Reading(p) /\ NewPing
    /\ server_control = p
    /\ Emit(To({p}, Pong), Peer)
    /\ UNCHANGED <<phase, writer, routing, nudge, told, sent>>

(* A WebSocket ping. The pong goes to the holder of the sender's slot, who is *)
(* someone else if the sender has been replaced.                              *)
SlotHolder(p) ==
    CASE p \in Control -> server_control
      [] p \in Data    -> server_data[ConnOf[p]]
      [] p \in Client  -> p

SocketPing(p) ==
    /\ Reading(p) /\ NewPing
    /\ Emit(To({SlotHolder(p)}, Pong), Peer)
    /\ UNCHANGED <<phase, writer, routing, nudge, told, sent>>

-----------------------------------------------------------------------------
(* unregister, and the end of run_peer *)

UnregisterControl(p) ==
    /\ Unlocked
    /\ Finish(p, Silence, {})
    /\ server_control' = Vacated(server_control, p)
    /\ told' = [told EXCEPT ![p] = {}]
    /\ UNCHANGED <<server_data, clients, pending, nudge, sent, pings>>

(* Mutant of UnregisterServerData: the clients are left waiting. *)
UnregisterServerDataQuietly(p) ==
    LET c == ConnOf[p] IN
    /\ Unlocked
    /\ Finish(p, Silence, {})
    /\ server_data' = [server_data EXCEPT ![c] = Vacated(@, p)]
    /\ UNCHANGED <<server_control, clients, pending, nudge, told, sent, pings>>

(* The clients are closed even if p no longer holds the slot. *)
UnregisterServerData(p) ==
    LET c == ConnOf[p] IN
    /\ Unlocked
    /\ Finish(p, To(clients[c], Close(1012)), {})
    /\ server_data' = [server_data EXCEPT ![c] = Vacated(@, p)]
    /\ UNCHANGED <<server_control, clients, pending, nudge, told, sent, pings>>

UnregisterClient(p) ==
    LET c == ConnOf[p] IN
    /\ Unlocked
    /\ clients[c] # {p}
    /\ Finish(p, Silence, {})
    /\ clients' = [clients EXCEPT ![c] = @ \ {p}]
    /\ UNCHANGED <<server_control, server_data, pending, nudge, told, sent, pings>>

(* Mutant of UnregisterLastClient: the buffer survives its clients. *)
UnregisterLastKeepingPending(p) ==
    LET c == ConnOf[p] IN
    /\ Unlocked
    /\ clients[c] = {p}
    /\ Finish(p, To({server_data[c]}, Close(1001)), {})
    /\ clients' = [clients EXCEPT ![c] = {}]
    /\ server_data' = [server_data EXCEPT ![c] = NoPeer]
    /\ UNCHANGED <<server_control, pending, nudge, told, sent, pings>>

UnregisterLastClient(p) ==
    LET c == ConnOf[p] IN
    /\ Unlocked
    /\ clients[c] = {p}
    /\ Finish(p, Both(To({server_data[c]}, Close(1001)), ToControl(Disconnected(c))),
              Peer \ {server_data[c]})
    /\ clients' = [clients EXCEPT ![c] = {}]
    /\ pending' = [pending EXCEPT ![c] = <<>>]
    /\ server_data' = [server_data EXCEPT ![c] = NoPeer]
    /\ UNCHANGED <<server_control, nudge, told, sent, pings>>

-----------------------------------------------------------------------------
(* nudge_or_reset_control: the task of client x, which only knows x's         *)
(* connection id. It takes the lock anew for every check, the sync and the    *)
(* reset; "client1" and "client2" are the sleeps with the check they end in.  *)

Goto(x, label) == nudge' = [nudge EXCEPT ![x] = label]

Woken == {y \in Client : nudge[y] \notin {"none", "client1"}}

NudgeHasClient(x) ==
    /\ Unlocked
    /\ \/ nudge[x] = "client1" /\ Cardinality(Woken) < MaxNudges
       \/ nudge[x] = "client2"
    /\ Goto(x, IF clients[ConnOf[x]] = {} THEN "done"
               ELSE IF nudge[x] = "client1" THEN "data1" ELSE "data2")
    /\ UNCHANGED <<peerVars, routing, told, sent, pings>>

NudgeHasServerData(x) ==
    /\ Unlocked
    /\ nudge[x] \in {"data1", "data2"}
    /\ Goto(x, IF server_data[ConnOf[x]] # NoPeer THEN "done"
               ELSE IF nudge[x] = "data1" THEN "sync" ELSE "reset")
    /\ UNCHANGED <<peerVars, routing, told, sent, pings>>

(* Mutant of NudgeSync: the sync names the waiting connection id only. *)
NudgeSyncOfOne(x) ==
    /\ Unlocked
    /\ nudge[x] = "sync"
    /\ Goto(x, "client2")
    /\ Emit(ToControl(Sync({ConnOf[x]})), Peer)
    /\ UNCHANGED <<phase, writer, routing, told, sent, pings>>

NudgeSync(x) ==
    /\ Unlocked
    /\ nudge[x] = "sync"
    /\ Goto(x, "client2")
    /\ Emit(ToControl(Sync(ConnectedIds)), Peer)
    /\ UNCHANGED <<phase, writer, routing, told, sent, pings>>

(* Mutant of NudgeReset: it nudges once more instead of closing. *)
NudgeAgain(x) ==
    /\ Unlocked
    /\ nudge[x] = "reset"
    /\ Goto(x, "spent")
    /\ Emit(ToControl(Sync(ConnectedIds)), Peer)
    /\ UNCHANGED <<phase, writer, routing, told, sent, pings>>

NudgeReset(x) ==
    /\ Unlocked
    /\ nudge[x] = "reset"
    /\ Goto(x, "spent")
    /\ Emit(ToControl(Close(1011)), {})
    /\ UNCHANGED <<phase, writer, routing, told, sent, pings>>

NudgeStep(x) ==
    NudgeHasClient(x) \/ NudgeHasServerData(x) \/ NudgeSync(x) \/ NudgeReset(x)

-----------------------------------------------------------------------------
(* The steps of a socket's own tasks. `told` records what the messages        *)
(* written to a control socket add up to: a sync names the connection ids     *)
(* that have clients, connected adds one and disconnected takes one away.     *)
(* (node-relay itself acts on the ids it hears of and only logs that one has  *)
(* left; see NodeRelay.)                                                      *)

Learn(ids, m) ==
    CASE m.type = "Sync"         -> m.ids
      [] m.type = "Connected"    -> ids \cup {m.id}
      [] m.type = "Disconnected" -> ids \ {m.id}
      [] OTHER                   -> ids

Write(p) ==
    /\ WriterSend(p)
    /\ told' = IF p \in Control THEN [told EXCEPT ![p] = Learn(@, Head(queue[p]))] ELSE told
    /\ UNCHANGED <<routing, nudge, sent, pings>>

SlowStep(p) ==
    /\ CloseSlow(p)
    /\ UNCHANGED <<routing, nudge, told, sent, pings>>

SocketStep(p) ==
    /\ \/ WriterFail(p)
       \/ EndRemote(p)
       \/ \E code \in LimitCode : EndLimit(p, code)
    /\ UNCHANGED <<routing, nudge, told, sent, pings>>

(* Every socket of the instance has come and gone. *)
Finished ==
    /\ \A p \in Peer : phase[p] = "done"
    /\ UNCHANGED vars

Next ==
    \/ \E p \in Peer : RegisterRefused(p) \/ SocketPing(p) \/ Write(p) \/ SlowStep(p) \/ SocketStep(p)
    \/ \E p \in Control : RegisterControl(p) \/ ControlPing(p) \/ UnregisterControl(p)
    \/ \E p \in Data : RegisterServerData(p) \/ ServerDataFrame(p) \/ UnregisterServerData(p)
    \/ \E p \in Client :
          \/ RegisterClient(p) \/ ForwardClientFrame(p) \/ BufferClientFrame(p)
          \/ UnregisterClient(p) \/ UnregisterLastClient(p)
          \/ NudgeStep(p)
    \/ Finished

Spec == Init /\ [][Next]_vars

(* The tasks of the relay itself run on: a nudge task is not starved of the   *)
(* session lock (tokio's Mutex is first come, first served), and a handler    *)
(* that holds the lock goes on to its end. Nothing is assumed of the sockets: *)
(* their peers may stop reading, or stay for ever.                            *)
Fairness ==
    /\ \A x \in Client : WF_vars(NudgeStep(x))
    /\ \A p \in Peer : WF_vars(SlowStep(p))

FairSpec == Spec /\ Fairness

-----------------------------------------------------------------------------
(* Type invariant: the tables hold sockets of the right kind and connection  *)
(* id, and the queues hold messages.                                         *)
TypeOK ==
    /\ PeerTypeOK(Message)
    /\ server_control \in Control \cup {NoPeer}
    /\ server_data \in [ConnId -> Data \cup {NoPeer}]
    /\ clients \in [ConnId -> SUBSET Client]
    /\ \A c \in ConnId :
          /\ server_data[c] # NoPeer => ConnOf[server_data[c]] = c
          /\ \A x \in clients[c] : ConnOf[x] = c
    /\ pending \in [ConnId -> Seq([type : {"Frame"}, from : Client, n : Nat])]
    /\ nudge \in [Client -> NudgeState]
    /\ told \in [Control -> SUBSET ConnId]
    /\ sent \in [Data \cup Client -> Nat]
    /\ pings \in Nat

(* A client frame is buffered only while its connection has clients and no   *)
(* server data socket, never more than PENDING_FRAME_LIMIT of them: nothing  *)
(* is left for a server that arrives after the clients are gone, and no new  *)
(* frame overtakes a buffered one (handle_frame, flush_pending_locked,       *)
(* unregister).                                                              *)
PendingSound ==
    \A c \in ConnId : pending[c] # <<>> =>
        /\ server_data[c] = NoPeer
        /\ clients[c] # {}
        /\ Len(pending[c]) <= PendingLimit

(* The slots point to sockets that run_peer has not finished with, and a     *)
(* client keeps its place until then: no frame is routed to, and no limit is *)
(* used up by, a socket that is gone, and no client is forgotten while its   *)
(* frames still come in (register, unregister).                              *)
RoutedIsLive == Routed \subseteq Live /\ Live \cap Client \subseteq Routed

(* A live socket that no slot points to any more has been told to close, or  *)
(* the Close was refused by its full queue: replacement (register) and the   *)
(* last client's leave (unregister) never forget one.                        *)
UnroutedIsClosing == \A p \in Live \ Routed : Closing(p) \/ p \in dropped

(* register admits no socket beyond the two limits.                          *)
WithinLimits ==
    /\ Cardinality(Routed) <= MaxSockets
    /\ \A c \in ConnId : Cardinality(clients[c]) <= MaxClients

FrameOf(m, s) == IsFrame(m) /\ m.from = s

Consecutive(q, s) ==
    \A i, j \in DOMAIN q : i < j /\ FrameOf(q[i], s) /\ FrameOf(q[j], s) =>
        \/ q[j].n = q[i].n + 1
        \/ \E l \in i + 1 .. j - 1 : FrameOf(q[l], s)

EndsWith(q, s, n) ==
    \A i \in DOMAIN q : FrameOf(q[i], s) =>
        \/ q[i].n = n
        \/ \E l \in i + 1 .. Len(q) : FrameOf(q[l], s)

(* What waits for a socket that never overflowed is, sender by sender, an    *)
(* uninterrupted run of the sender's frames in their order; what waits in    *)
(* the current server data socket's queue or in the pending buffer, if       *)
(* anything does, ends with the newest frame (handle_frame,                  *)
(* buffer_pending_locked, which drops the oldest, and flush_pending_locked). *)
(* Which frames may be missing altogether is what FramesGetThrough says.     *)
FramesInOrder ==
    /\ \A p \in Data \cup Client : p \in dropped \/
          \A s \in Data \cup Client : Consecutive(queue[p], s)
    /\ \A c \in ConnId, s \in Client :
          /\ Consecutive(pending[c], s)
          /\ EndsWith(pending[c], s, sent[s])
          /\ LET d == server_data[c] IN
                d # NoPeer /\ d \notin dropped => EndsWith(queue[d], s, sent[s])

(* A client's frame on its way to the server side stays on its way, in the   *)
(* pending buffer or in the queue of the current server data socket, until   *)
(* it is written to that socket, whoever registers, leaves, sends or nudges  *)
(* meanwhile. It gets lost only when the last client leaves, together with   *)
(* the server data socket it waits for (replaced, gone, or its write task    *)
(* stopped), as the oldest of a full buffer, or refused by a full queue: a   *)
(* hand-over from the buffer to a new server data socket loses none that     *)
(* fits (handle_frame, buffer_pending_locked, flush_pending_locked, register *)
(* and unregister).                                                          *)
Underway(f, c) ==
    \/ \E i \in DOMAIN pending[c] : pending[c][i] = f
    \/ server_data[c] # NoPeer
          /\ \E i \in DOMAIN queue[server_data[c]] : queue[server_data[c]][i] = f

WrittenTo(d, f) ==
    d # NoPeer /\ queue[d] # <<>> /\ f = Head(queue[d]) /\ queue'[d] = Tail(queue[d])

PushedOut(c, f) ==
    /\ server_data[c] = NoPeer /\ server_data'[c] = NoPeer
    /\ f = Head(pending[c]) /\ Len(pending'[c]) = PendingLimit

RefusedBy(d) == d # NoPeer /\ d \in dropped' /\ Len(queue'[d]) = MaxQueue

FramesGetThrough ==
    [][ \A x \in Client : \A n \in 1 .. sent'[x] :
            LET c == ConnOf[x]
                d == server_data[c]
                f == Frame(x, n)
            IN  Underway(f, c) \/ n > sent[x] =>
                    \/ Underway(f, c)'
                    \/ clients'[c] = {}
                    \/ d # NoPeer /\ (server_data'[c] # d \/ writer'[d] = "stopped")
                    \/ WrittenTo(d, f)
                    \/ PushedOut(c, f)
                    \/ RefusedBy(server_data'[c]) ]_vars

(* Frames never leave their connection, nor return to the side they came     *)
(* from: what waits for a server data socket was sent by a client of the     *)
(* same connection id, and the other way round; control sockets get none.    *)
FramesIsolated ==
    \A p \in Peer : \A i \in DOMAIN queue[p] : IsFrame(queue[p][i]) =>
        LET s == queue[p][i].from IN
            /\ (p \in Data /\ s \in Client) \/ (p \in Client /\ s \in Data)
            /\ ConnOf[s] = ConnOf[p]

(* What `ids` and then the messages in q add up to: what the last message    *)
(* that says anything about a connection id says.                            *)
Announces(m, c) == c \in Learn({}, m)
Withdraws(m, c) == c \notin Learn(ConnId, m)

View(ids, q) ==
    {c \in ConnId :
        \/ c \in ids /\ \A i \in DOMAIN q : ~Withdraws(q[i], c)
        \/ \E i \in DOMAIN q :
              Announces(q[i], c) /\ \A j \in i + 1 .. Len(q) : ~Withdraws(q[j], c)}

Announced(p) == View(told[p], queue[p])

(* The current control socket's initial sync and the notifications after it  *)
(* add up to exactly the connection ids that have clients, as long as it     *)
(* lost nothing and is not being closed (register, unregister, nudge).       *)
ControlView ==
    LET k == server_control IN
        k # NoPeer /\ k \notin dropped /\ ~Closing(k) => Announced(k) = ConnectedIds

(* A slot is emptied only when its own holder unregisters, or, for a server  *)
(* data slot, when the connection's last client leaves: the late teardown of *)
(* a replaced socket never evicts its successor (clear_if_same, unregister). *)
SlotsVacatedByHolder ==
    [][ /\ server_control # NoPeer /\ server_control' = NoPeer
              => phase'[server_control] = "done"
        /\ \A c \in ConnId : server_data[c] # NoPeer /\ server_data'[c] = NoPeer
              => \/ phase'[server_data[c]] = "done"
                 \/ clients[c] # {} /\ clients'[c] = {} ]_vars

(* A nudge task gives up early only for a client that needs no server data   *)
(* socket any more: a client that is there without one, though its task has  *)
(* returned before the reset, has been told to close, or its full queue      *)
(* refused the Close. So a server data socket that came and went between the *)
(* task's checks, or while the other clients of the id came and went, leaves *)
(* no client waiting unwatched (nudge_or_reset_control, unregister).         *)
NobodyAbandoned ==
    \A x \in Client :
        nudge[x] = "done" /\ x \in clients[ConnOf[x]] /\ server_data[ConnOf[x]] = NoPeer
            => Closing(x) \/ x \in dropped

(* A client that connects while control socket k is in its slot, and that    *)
(* stays without a server data socket, sees k told to close, unless k goes   *)
(* first or k's queue is full, whatever another client of the same id, its   *)
(* nudge task and the server data socket do in between                       *)
(* (nudge_or_reset_control).                                                 *)
ControlRecovery ==
    \A x \in Client, k \in Control :
        (x \in clients[ConnOf[x]] /\ nudge[x] = "client1" /\ server_control = k)
        ~> \/ clients[ConnOf[x]] = {}
           \/ server_data[ConnOf[x]] # NoPeer
           \/ server_control # k
           \/ Closing(k)
           \/ k \in dropped

-----------------------------------------------------------------------------
(* What the repository says and the code does not do. *)

(* IMPLEMENTATION_STATUS.md: "Slow-consumer fail-closed behavior on outbound *)
(* queue saturation": once a socket's full queue has refused a message, the  *)
(* socket is told to close (send_or_close).                                  *)
SlowConsumerFailsClosed == [][ \A p \in slow \ slow' : Closing(p)' ]_vars

(* REQ-012: the control socket is closed if it "remains unresponsive": when  *)
(* a nudge task resets it, the connection still waits for its server data    *)
(* socket (nudge_or_reset_control).                                          *)
ResetOnlyUnresponsive ==
    [][ \A x \in Client : nudge[x] = "reset" /\ nudge'[x] = "spent"
            => server_control = NoPeer \/ server_data[ConnOf[x]] = NoPeer ]_vars

(* REQ-015: "a maximum number of live sockets per (serverId, version)        *)
(* session" (register, count_live_sockets).                                  *)
LiveSocketsLimited == Cardinality(Live) <= MaxSockets
=============================================================================
