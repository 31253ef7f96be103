------------------------------- MODULE Recovery -------------------------------
(***************************************************************************)
(* The relay's session and the node it announces clients to, together:     *)
(* RelaySession with the control and server data sockets that NodeRelay    *)
(* dials. The node's dial (connect_async) and the relay's registration (the*)
(* task that on_upgrade starts) are steps of their own: the relay registers*)
(* a socket at any time after the node has begun to dial it, before or     *)
(* after the dial ends, and also when the dial has failed at the node. A   *)
(* message that is written and read is one step of both; what is on its way*)
(* between them counts as queued at the relay.                             *)
(*                                                                         *)
(* A node has one control loop and opens data channels when it hears of    *)
(* connection ids. Clients come and go by themselves; any socket may be    *)
(* lost, and the two sides may notice at different times.                  *)
(***************************************************************************)
EXTENDS RelaySession

CONSTANTS
    Lossy,       \* bound: sockets of the node that may be lost under either side
    Unreachable, \* bound: sockets of the node whose dial may fail at the node
    Here, Nobody \* NodeRelay's marks for what is not a data channel

ASSUME RecoveryAssumption ==
    /\ Lossy \subseteq Control \cup Data
    /\ Unreachable \subseteq Control \cup Data
    /\ Here \notin Data
    /\ Nobody \notin Data \cup {Here} \cup [connection_id : ConnId, mux : Data, auth : {"none"}]

VARIABLES
    link,   \* control socket -> where the node's control loop stands with it:
            \* "unused", "dialling", "up" (it reads from it), or "left"
    announced, active_connections, channel, online   \* as in NodeRelay

nodeVars == <<link, announced, active_connections, channel, online>>
allVars == <<vars, nodeVars>>

Attached == {k \in Control : link[k] = "up"}

(* The node without bindings and visits, which stay inside its data channels. *)
Served == INSTANCE NodeRelay WITH
    Channel <- Data, ConnOf <- [d \in Data |-> ConnOf[d]],
    Name <- {}, Auth <- {"none"}, NoAuth <- "none",
    Offer <- [d \in Data |-> {}], Visit <- {}, Request <- <<>>,
    LocalAuth <- <<>>, MaxBinds <- 0,
    control <- IF Attached = {} THEN "down" ELSE "up",
    providers <- <<>>, binds <- [d \in Data |-> <<>>],
    visit <- <<>>, target <- <<>>, acked <- [d \in Data |-> {}]

RecoveryInit ==
    /\ Init
    /\ link = [k \in Control |-> "unused"]
    /\ announced = {}
    /\ active_connections = {}
    /\ channel = [d \in Data |-> "unused"]
    /\ online = {}

-----------------------------------------------------------------------------
(* The node's control loop. A session that refuses the socket has the node    *)
(* connected all the same, and closes it.                                     *)

DialControl(k) ==
    /\ link[k] = "unused"
    /\ \A j \in Control : link[j] \in {"unused", "left"}
    /\ link' = [link EXCEPT ![k] = "dialling"]
    /\ UNCHANGED <<vars, announced, active_connections, channel, online>>

Attach(k) ==
    /\ link[k] = "dialling"
    /\ link' = [link EXCEPT ![k] = "up"]
    /\ Served!Connect
    /\ UNCHANGED vars

ControlDialFails(k) ==
    /\ k \in Unreachable
    /\ link[k] = "dialling"
    /\ link' = [link EXCEPT ![k] = "left"]
    /\ UNCHANGED <<vars, announced, active_connections, channel, online>>

(* The write task of a control socket writes, and the node reads. *)
Event(m) ==
    CASE m.type = "Sync"      -> m.ids
      [] m.type = "Connected" -> {m.id}
      [] OTHER                -> {}

Hear(k) ==
    /\ Write(k)
    /\ link[k] = "up"
    /\ IF IsClose(Head(queue[k]))
       THEN link' = [link EXCEPT ![k] = "left"] /\ Served!Disconnect
       ELSE UNCHANGED link /\ Served!ControlEvent(Event(Head(queue[k])))

(* The write task writes to a connection that the node has left. *)
HeardByNobody(k) ==
    /\ Write(k)
    /\ link[k] = "left"
    /\ UNCHANGED nodeVars

(* The node's end of the connection is lost, or the relay has ended it. *)
Detach(k) ==
    /\ link[k] = "up"
    /\ k \in Lossy \/ phase[k] = "done"
    /\ link' = [link EXCEPT ![k] = "left"]
    /\ Served!Disconnect
    /\ UNCHANGED vars

-----------------------------------------------------------------------------
(* The node's data channels *)

Start(d) ==
    /\ UNCHANGED <<vars, link>>
    /\ Served!StartConnection(d)

Ignore(c) ==
    /\ UNCHANGED <<vars, link>>
    /\ Served!AlreadyActive(c)

Dial(d, ok) ==
    /\ ok \/ d \in Unreachable
    /\ UNCHANGED <<vars, link>>
    /\ Served!Dial(d, ok)

(* The connection is lost, or the relay has closed it: here only Closes are   *)
(* written to data sockets, as no client sends a frame.                       *)
LoseData(d) ==
    /\ d \in Lossy \/ phase[d] = "done" \/ writer[d] # "running"
    /\ UNCHANGED <<vars, link>>
    /\ Served!SocketEnds(d)

Serve(d) ==
    /\ UNCHANGED <<vars, link>>
    /\ Served!Serve(d)

-----------------------------------------------------------------------------
(* What the relay and the clients do by themselves. *)

(* Nobody, or nobody in particular, is at the other end of p. *)
Gone(p) ==
    \/ p \in Client \cup Lossy
    \/ p \in Control /\ link[p] = "left"
    \/ p \in Data \ online /\ channel[p] # "connecting"

RelayStep ==
    /\ \/ \E p \in Peer : SlowStep(p) \/ (Gone(p) /\ SocketStep(p))
       \/ \E p \in Control :
             \/ link[p] # "unused" /\ (RegisterControl(p) \/ RegisterRefused(p))
             \/ UnregisterControl(p)
       \/ \E p \in Data :
             \/ channel[p] # "unused" /\ (RegisterServerData(p) \/ RegisterRefused(p))
             \/ Write(p) \/ UnregisterServerData(p)
       \/ \E p \in Client :
             \/ RegisterClient(p) \/ RegisterRefused(p) \/ Write(p)
             \/ UnregisterClient(p) \/ UnregisterLastClient(p)
             \/ NudgeStep(p)
    /\ UNCHANGED nodeVars

(* The instance has no socket left for the node's control loop, or for an id  *)
(* that is to be served; or its clients have come and gone.                   *)
Exhausted ==
    /\ \/ \A k \in Control : link[k] = "left"
       \/ \A x \in Client : phase[x] = "done"
       \/ \E c \in announced \ active_connections :
             \A d \in Data : ConnOf[d] = c => channel[d] # "unused"
    /\ UNCHANGED allVars

RecoveryNext ==
    \/ \E k \in Control :
          \/ DialControl(k) \/ Attach(k) \/ ControlDialFails(k)
          \/ Hear(k) \/ HeardByNobody(k) \/ Detach(k)
    \/ \E d \in Data :
          \/ Start(d) \/ (\E ok \in BOOLEAN : Dial(d, ok)) \/ LoseData(d) \/ Serve(d)
    \/ \E c \in ConnId : Ignore(c)
    \/ RelayStep
    \/ Exhausted

RecoverySpec == RecoveryInit /\ [][RecoveryNext]_allVars

-----------------------------------------------------------------------------
(* When a data socket takes the slot of another, the node is done with one   *)
(* of the two: it never has two data channels of its own compete for an id,  *)
(* neither when an announcement comes while the old channel is still there,  *)
(* nor when either side notices the end of a connection late                 *)
(* (start_connection, register). It may be the newcomer that the node is     *)
(* done with: the late registration of a dial that failed at the node takes  *)
(* the slot of the socket that serves.                                       *)
ReplacedWhenLeft ==
    [][ \A c \in ConnId :
            LET old == server_data[c]
                new == server_data'[c]
            IN  old # NoPeer /\ new \notin {old, NoPeer} =>
                    channel[old] = "done" \/ channel[new] = "done" ]_allVars

(* Every connection id that has clients is on its way to the node, or the    *)
(* node knows of it: it is about to start a data channel, has one, or has    *)
(* had one. No client is overlooked because it came between two control      *)
(* connections, during a dial or in the middle of a sync, unless the current *)
(* control socket has lost a message or is being closed (register,           *)
(* run_control, start_connection). The node does not come back to an id whose*)
(* announcement it ignored because of a data channel that has ended since.   *)
AnnouncementsTaken ==
    LET k == server_control IN
    k # NoPeer /\ k \notin dropped /\ ~Closing(k) /\ link[k] # "left" =>
        \A c \in ConnectedIds :
            \/ \E i \in DOMAIN queue[k] : c \in Event(queue[k][i])
            \/ c \in announced \cup active_connections
            \/ \E d \in Data : ConnOf[d] = c /\ channel[d] = "done"
=============================================================================
