----------------------------- MODULE RecoveryProofs -----------------------------
(* The relay's session and the node that serves it, together: the composition *)
(* is one of relay sessions and one of nodes, so that what is proved of each  *)
(* of them holds of the composition, and both are needed for what it adds.    *)
EXTENDS Recovery, RelaySessionFramesProofs

(* The theorems about NodeRelay, for the node of the composition. *)
Node == INSTANCE NodeRelayProofs WITH
    Channel <- Data, ConnOf <- [d \in Data |-> ConnOf[d]],
    Name <- {}, Auth <- {"none"}, NoAuth <- "none",
    Offer <- [d \in Data |-> {}], Visit <- {}, Request <- <<>>,
    LocalAuth <- <<>>, MaxBinds <- 0,
    control <- IF Attached = {} THEN "down" ELSE "up",
    providers <- <<>>, binds <- [d \in Data |-> <<>>],
    visit <- <<>>, target <- <<>>, acked <- [d \in Data |-> {}]

-----------------------------------------------------------------------------
(* Every step of the composition is one of the relay's session, or leaves it *)
(* alone.                                                                    *)
LEMMA StepIsSessionStep == [RecoveryNext]_allVars => [Next]_vars
<1> SUFFICES ASSUME [RecoveryNext]_allVars PROVE [Next]_vars
    OBVIOUS
<1> USE SocketTypes
<1>1. ASSUME NEW k \in Control, Hear(k) \/ HeardByNobody(k)
      PROVE  Next
      BY <1>1 DEF Hear, HeardByNobody, Next
<1>2. ASSUME NEW k \in Control,
             DialControl(k) \/ Attach(k) \/ ControlDialFails(k) \/ Detach(k)
      PROVE  UNCHANGED vars
      BY <1>2 DEF DialControl, Attach, ControlDialFails, Detach
<1>3. ASSUME NEW d \in Data, Start(d) \/ (\E ok \in BOOLEAN : Dial(d, ok)) \/ LoseData(d) \/ Serve(d)
      PROVE  UNCHANGED vars
      BY <1>3 DEF Start, Dial, LoseData, Serve
<1>4. ASSUME (\E c \in ConnId : Ignore(c)) \/ Exhausted
      PROVE  UNCHANGED vars
      BY <1>4 DEF Ignore, Exhausted, allVars
<1>5. ASSUME RelayStep
      PROVE  Next
      BY <1>5 DEF RelayStep, Next
<1>6. CASE UNCHANGED allVars
      BY <1>6 DEF allVars
<1> QED  BY <1>1, <1>2, <1>3, <1>4, <1>5, <1>6 DEF RecoveryNext

(* The relay's session is a RelaySession whatever the node does: all that is  *)
(* proved of RelaySession holds of it.                                        *)
THEOREM SessionIsKept == RecoverySpec => Spec
<1>1. RecoveryInit => Init
      BY DEF RecoveryInit
<1> QED  BY <1>1, StepIsSessionStep, PTL DEF RecoverySpec, Spec

-----------------------------------------------------------------------------
LEMMA EventType ==
    ASSUME NEW m \in Message
    PROVE  Event(m) \in SUBSET ConnId
BY DEF Event, Message, PeerMessage

(* What Recovery calls of the node is what the theorems are about. *)
LEMMA AsNode ==
    /\ Served!Connect => Node!Connect
    /\ Served!Disconnect => Node!Disconnect
    /\ \A ids : Served!ControlEvent(ids) => Node!ControlEvent(ids)
    /\ \A c : Served!AlreadyActive(c) => Node!AlreadyActive(c)
    /\ \A d : Served!StartConnection(d) => Node!StartConnection(d)
    /\ \A d, ok : Served!Dial(d, ok) => Node!Dial(d, ok)
    /\ \A d : Served!Serve(d) => Node!Serve(d)
    /\ \A d : Served!SocketEnds(d) => Node!SocketEnds(d)
<1> USE DEF Served!tables, Served!channelVars, Served!visitVars, Served!controlVars,
        Node!tables, Node!channelVars, Node!visitVars, Node!controlVars
<1>1. /\ Served!Connect => Node!Connect
      /\ Served!Disconnect => Node!Disconnect
      BY DEF Served!Connect, Node!Connect, Served!Disconnect, Node!Disconnect
<1>2. \A ids : Served!ControlEvent(ids) => Node!ControlEvent(ids)
      BY DEF Served!ControlEvent, Node!ControlEvent
<1>3. \A c : Served!AlreadyActive(c) => Node!AlreadyActive(c)
      BY DEF Served!AlreadyActive, Node!AlreadyActive
<1>4. ASSUME NEW d, Served!StartConnection(d)
      PROVE  Node!StartConnection(d)
      BY <1>4 DEF Served!StartConnection, Node!StartConnection, Served!Spawn, Node!Spawn
<1>5. ASSUME NEW d, NEW ok, Served!Dial(d, ok)
      PROVE  Node!Dial(d, ok)
      BY <1>5 DEF Served!Dial, Node!Dial
<1>6. ASSUME NEW d, Served!SocketEnds(d)
      PROVE  Node!SocketEnds(d)
      BY <1>6 DEF Served!SocketEnds, Node!SocketEnds
<1>7. ASSUME NEW d, Served!Serve(d)
      PROVE  Node!Serve(d)
      BY <1>7 DEF Served!Serve, Node!Serve, Served!BindAccepted, Node!BindAccepted,
            Served!BindRejected, Node!BindRejected, Served!ServeVisit, Node!ServeVisit,
            Served!MuxClosed, Node!MuxClosed, Served!Leave, Node!Leave,
            Served!TakeBind, Node!TakeBind, Served!Taken, Node!Taken,
            Served!Registered, Node!Registered, Served!Answered, Node!Answered,
            Served!Retained, Node!Retained
<1> QED  BY <1>1, <1>2, <1>3, <1>4, <1>5, <1>6, <1>7

(* Where the node's control loop stands with its control sockets. *)
LinkInv == link \in [Control -> {"unused", "dialling", "up", "left"}]

LEMMA StepLinkInv == LinkInv /\ [RecoveryNext]_allVars => LinkInv'
<1> SUFFICES ASSUME LinkInv, [RecoveryNext]_allVars PROVE LinkInv'
    OBVIOUS
<1>1. ASSUME NEW k \in Control,
             \/ DialControl(k) \/ Attach(k) \/ ControlDialFails(k)
             \/ Hear(k) \/ HeardByNobody(k) \/ Detach(k)
      PROVE  LinkInv'
      BY <1>1 DEF DialControl, Attach, ControlDialFails, Hear, HeardByNobody, Detach,
            nodeVars, LinkInv
<1>2. ASSUME \/ \E d \in Data : \/ Start(d) \/ (\E ok \in BOOLEAN : Dial(d, ok))
                               \/ LoseData(d) \/ Serve(d)
             \/ \E c \in ConnId : Ignore(c)
             \/ RelayStep \/ Exhausted \/ UNCHANGED allVars
      PROVE  UNCHANGED link
      BY <1>2 DEF Start, Dial, LoseData, Serve, Ignore, RelayStep, Exhausted, allVars, nodeVars
<1> QED  BY <1>1, <1>2 DEF RecoveryNext, LinkInv

(* Every step of the composition is one of the node, or leaves it alone. *)
LEMMA StepIsNodeStep ==
    TypeOK /\ LinkInv /\ [RecoveryNext]_allVars => [Node!Next]_Node!vars
<1> SUFFICES ASSUME TypeOK, LinkInv, [RecoveryNext]_allVars PROVE [Node!Next]_Node!vars
    OBVIOUS
<1> USE SocketTypes
<1>1. ASSUME Attached' = Attached, UNCHANGED <<announced, active_connections, channel, online>>
      PROVE  UNCHANGED Node!vars
      BY <1>1 DEF Node!vars, Node!controlVars, Node!tables, Node!channelVars, Node!visitVars
<1>2. ASSUME NEW k \in Control, Attach(k)
      PROVE  Node!Next
      BY <1>2, AsNode DEF Attach, Node!Next
<1>3. ASSUME NEW k \in Control, Hear(k)
      PROVE  Node!Next
  <2> DEFINE m == Head(queue[k])
  <2>1. CASE IsClose(m)
    <3>1. Served!Disconnect
          BY <1>3, <2>1 DEF Hear
    <3> QED  BY <3>1, AsNode DEF Node!Next
  <2>2. CASE ~IsClose(m)
    <3>1. m \in Message
          BY <1>3, HeadTailProperties DEF Hear, Write, WriterSend, TypeOK, PeerTypeOK
    <3>2. Event(m) \in SUBSET ConnId
          BY <3>1, EventType
    <3>3. Served!ControlEvent(Event(m))
          BY <1>3, <2>2 DEF Hear
    <3>4. Node!ControlEvent(Event(m))
          BY <3>3, AsNode
    <3> QED  BY <3>2, <3>4 DEF Node!Next
  <2> QED  BY <2>1, <2>2
<1>4. ASSUME NEW k \in Control, Detach(k)
      PROVE  Node!Next
      BY <1>4, AsNode DEF Detach, Node!Next
<1>5. ASSUME NEW d \in Data, Start(d) \/ Serve(d)
      PROVE  Node!Next
  <2>1. Served!StartConnection(d) \/ Served!Serve(d)
        BY <1>5 DEF Start, Serve
  <2>2. Node!StartConnection(d) \/ Node!Serve(d)
        BY <2>1, AsNode
  <2> QED  BY <2>2 DEF Node!Next
<1>6. ASSUME NEW c \in ConnId, Ignore(c)
      PROVE  Node!Next
      BY <1>6, AsNode DEF Ignore, Node!Next
<1>7. ASSUME NEW d \in Data, NEW ok \in BOOLEAN, Dial(d, ok)
      PROVE  Node!Next
  <2>1. Node!Dial(d, ok)
        BY <1>7, AsNode DEF Dial
  <2> QED  BY <2>1 DEF Node!Next
<1>8. ASSUME NEW d \in Data, LoseData(d)
      PROVE  Node!Next
  <2>1. Served!SocketEnds(d)
        BY <1>8 DEF LoseData
  <2>2. Node!SocketEnds(d)
        BY <2>1, AsNode
  <2> QED  BY <2>2 DEF Node!Next
<1>9. ASSUME NEW k \in Control, DialControl(k) \/ ControlDialFails(k)
      PROVE  UNCHANGED Node!vars
  <2>1. PICK l \in {"dialling", "left"} :
            link[k] # "up" /\ link' = [link EXCEPT ![k] = l]
        BY <1>9 DEF DialControl, ControlDialFails
  <2>2. \A j \in Control : link'[j] = "up" <=> link[j] = "up"
        BY <2>1 DEF LinkInv
  <2>3. Attached' = Attached
        BY <2>2 DEF Attached
  <2> QED  BY <1>1, <1>9, <2>3 DEF DialControl, ControlDialFails
<1>10. ASSUME \/ \E k \in Control : HeardByNobody(k)
              \/ RelayStep \/ Exhausted \/ UNCHANGED allVars
       PROVE  UNCHANGED Node!vars
  <2>1. UNCHANGED nodeVars
        BY <1>10 DEF HeardByNobody, RelayStep, Exhausted, allVars
  <2> QED  BY <1>1, <2>1 DEF nodeVars, Attached
<1> QED
    BY <1>2, <1>3, <1>4, <1>5, <1>6, <1>7, <1>8, <1>9, <1>10 DEF RecoveryNext

LEMMA InitIsNodeInit == RecoveryInit => Node!Init
BY DEF RecoveryInit, Node!Init, Attached

(* The node is a NodeRelay whatever the relay and the clients do: all that is *)
(* proved of NodeRelay holds of it.                                           *)
THEOREM NodeIsKept == RecoverySpec => Node!Spec
<1>1. Spec => []TypeOK
      BY TypeCorrect
<1>2. RecoveryInit => LinkInv
      BY DEF RecoveryInit, LinkInv
<1>3. RecoverySpec => []LinkInv
      BY <1>2, StepLinkInv, PTL DEF RecoverySpec
<1> QED
    BY <1>1, <1>3, SessionIsKept, InitIsNodeInit, StepIsNodeStep, PTL DEF RecoverySpec, Node!Spec

-----------------------------------------------------------------------------
(* The assumptions of NodeRelay follow from those of the composition. *)
LEMMA NodeAssumed == Node!NodeAssumption
BY SessionAssumption, RecoveryAssumption
DEF Node!NodeAssumption, Node!Binding, Node!LocalProvider, Node!Endpoint

(* A data socket that the node has not dialled yet is unknown to the relay.  *)
DialInv == \A d \in Data : channel[d] = "unused" => phase[d] = "absent"

LEMMA StepDialInv == TypeOK /\ Node!TypeOK /\ DialInv /\ [RecoveryNext]_allVars => DialInv'
<1> SUFFICES ASSUME TypeOK, Node!TypeOK, DialInv, [RecoveryNext]_allVars,
                    NEW d \in Data, channel'[d] = "unused"
             PROVE  phase'[d] = "absent"
    BY DEF DialInv
<1> USE SocketTypes
<1>0. /\ channel \in [Data -> {"unused", "connecting", "serving", "leaving", "done"}]
      /\ phase \in [Peer -> {"absent", "open", "ending", "done"}]
      BY DEF Node!TypeOK, TypeOK, PeerTypeOK
<1>1. ASSUME UNCHANGED channel
      PROVE  phase[d] = "absent" /\ channel[d] = "unused"
      BY <1>1 DEF DialInv
<1>2. ASSUME \/ \E k \in Control : Hear(k) \/ HeardByNobody(k) \/ DialControl(k) \/ Attach(k)
                                   \/ ControlDialFails(k) \/ Detach(k)
             \/ \E e \in Data : LoseData(e)
             \/ \E c \in ConnId : Ignore(c)
             \/ Exhausted \/ UNCHANGED allVars
      PROVE  phase'[d] = "absent"
  <2>1. UNCHANGED channel
        BY <1>2 DEF Hear, HeardByNobody, DialControl, Attach, ControlDialFails, Detach, LoseData,
              Ignore, Exhausted, allVars, nodeVars, Served!Connect, Served!Disconnect,
              Served!ControlEvent, Served!SocketEnds, Served!AlreadyActive, Served!channelVars
  <2>2. UNCHANGED phase
        BY <1>2 DEF Hear, HeardByNobody, DialControl, Attach, ControlDialFails, Detach, LoseData,
              Ignore, Exhausted, allVars, vars, peerVars, Write, WriterSend
  <2> QED  BY <1>1, <2>1, <2>2
<1>3. ASSUME NEW e \in Data, Start(e) \/ (\E ok \in BOOLEAN : Dial(e, ok)) \/ Serve(e)
      PROVE  phase'[d] = "absent"
  <2>1. \/ UNCHANGED channel
        \/ \E l \in {"connecting", "serving", "leaving", "done"} :
              channel' = [channel EXCEPT ![e] = l]
        BY <1>3 DEF Start, Dial, Serve, Served!StartConnection, Served!Spawn, Served!Dial,
              Served!Serve, Served!BindAccepted, Served!BindRejected, Served!MuxClosed, Served!Leave
  <2>2. channel[d] = "unused"
        BY <1>0, <2>1
  <2>3. UNCHANGED phase
        BY <1>3 DEF Start, Dial, Serve, vars, peerVars
  <2> QED  BY <2>2, <2>3 DEF DialInv
<1>4. ASSUME RelayStep
      PROVE  phase'[d] = "absent"
  <2>1. UNCHANGED channel
        BY <1>4 DEF RelayStep, nodeVars
  <2>2. phase[d] = "absent" /\ channel[d] = "unused"
        BY <1>1, <2>1
  <2>3. ASSUME NEW p \in Peer, SlowStep(p) \/ SocketStep(p) \/ Write(p)
        PROVE  phase'[d] = "absent"
        BY <1>0, <2>2, <2>3 DEF SlowStep, CloseSlow, SocketStep, WriterFail, EndRemote,
              EndLimit, Write, WriterSend
  <2>4. ASSUME NEW p \in Peer, p # d,
               \/ RegisterRefused(p)
               \/ p \in Control /\ (RegisterControl(p) \/ UnregisterControl(p))
               \/ p \in Data /\ (RegisterServerData(p) \/ UnregisterServerData(p))
               \/ p \in Client /\ (RegisterClient(p) \/ UnregisterClient(p)
                                     \/ UnregisterLastClient(p))
        PROVE  phase'[d] = "absent"
    <3>1. \E l \in {"open", "done"} : phase' = [phase EXCEPT ![p] = l]
          BY <2>4 DEF RegisterRefused, RegisterControl, UnregisterControl, RegisterServerData,
                UnregisterServerData, RegisterClient, UnregisterClient, UnregisterLastClient,
                Accept, Refuse, Finish
    <3> QED  BY <1>0, <2>2, <2>4, <3>1
  <2>5. ~UnregisterServerData(d)
        BY <2>2 DEF UnregisterServerData, Finish
  <2>6. ASSUME NEW p \in Client, NudgeStep(p)
        PROVE  phase'[d] = "absent"
        BY <2>2, <2>6 DEF NudgeStep, NudgeHasClient, NudgeHasServerData, NudgeSync, NudgeReset,
              peerVars
  <2>7. d \notin Control \cup Client
        BY SessionAssumption
  <2> QED  BY <1>4, <2>2, <2>3, <2>4, <2>5, <2>6, <2>7 DEF RelayStep
<1> QED
    BY <1>2, <1>3, <1>4 DEF RecoveryNext

(* The ids that the node knows of or has known of. *)
Known ==
    announced \cup active_connections \cup {ConnOf[d] : d \in {e \in Data : channel[e] = "done"}}

LEMMA StepKnown ==
    ASSUME Node!TypeOK, [RecoveryNext]_allVars, NEW c \in Known
    PROVE  c \in Known'
<1>0. channel \in [Data -> {"unused", "connecting", "serving", "leaving", "done"}]
      BY DEF Node!TypeOK
<1>1. ASSUME UNCHANGED <<announced, active_connections, channel>>
      PROVE  c \in Known'
      BY <1>1 DEF Known
<1>2. ASSUME announced = {}, UNCHANGED <<active_connections, channel>>
      PROVE  c \in Known'
      BY <1>2 DEF Known
<1>3. ASSUME NEW k \in Control,
             \/ DialControl(k) \/ Attach(k) \/ ControlDialFails(k)
             \/ Hear(k) \/ HeardByNobody(k) \/ Detach(k)
      PROVE  c \in Known'
      BY <1>1, <1>2, <1>3 DEF DialControl, Attach, ControlDialFails, Hear, HeardByNobody, Detach,
            nodeVars, Served!Connect, Served!Disconnect, Served!ControlEvent, Served!channelVars,
            Served!tables
<1>4. ASSUME NEW d \in Data, Start(d)
      PROVE  c \in Known'
  <2>1. /\ channel[d] = "unused" /\ channel' = [channel EXCEPT ![d] = "connecting"]
        /\ announced' = announced \ {ConnOf[d]}
        /\ active_connections' = active_connections \cup {ConnOf[d]}
        BY <1>4 DEF Start, Served!StartConnection, Served!Spawn
  <2>2. \A e \in Data : channel[e] = "done" => channel'[e] = "done"
        BY <1>0, <2>1
  <2> QED  BY <2>1, <2>2 DEF Known
<1>5. ASSUME NEW b \in ConnId, Ignore(b)
      PROVE  c \in Known'
      BY <1>5 DEF Ignore, Served!AlreadyActive, Served!channelVars, Served!tables, Known
<1>6. ASSUME NEW d \in Data, (\E ok \in BOOLEAN : Dial(d, ok)) \/ LoseData(d)
      PROVE  c \in Known'
  <2>1. /\ UNCHANGED <<announced, active_connections>>
        /\ \/ UNCHANGED channel
           \/ channel[d] = "connecting"
                 /\ \E l \in {"serving", "leaving"} : channel' = [channel EXCEPT ![d] = l]
        BY <1>6 DEF Dial, LoseData, Served!Dial, Served!SocketEnds, Served!controlVars, Served!tables
  <2>2. \A e \in Data : channel[e] = "done" => channel'[e] = "done"
        BY <1>0, <2>1
  <2> QED  BY <2>1, <2>2 DEF Known
<1>7. ASSUME NEW d \in Data, Serve(d)
      PROVE  c \in Known'
  <2>1. /\ UNCHANGED announced
        /\ \/ UNCHANGED <<active_connections, channel>>
           \/ /\ channel[d] = "serving" /\ channel' = [channel EXCEPT ![d] = "leaving"]
              /\ UNCHANGED active_connections
           \/ /\ channel' = [channel EXCEPT ![d] = "done"]
              /\ active_connections' = active_connections \ {ConnOf[d]}
        BY <1>7 DEF Serve, Served!Serve, Served!BindAccepted, Served!BindRejected,
              Served!ServeVisit, Served!MuxClosed, Served!Leave, Served!controlVars, Served!tables
  <2>2. \A e \in Data : channel[e] = "done" => channel'[e] = "done"
        BY <1>0, <2>1
  <2>3. active_connections' # active_connections => channel'[d] = "done"
        BY <1>0, <2>1
  <2> QED  BY <2>1, <2>2, <2>3 DEF Known
<1>8. ASSUME RelayStep \/ Exhausted \/ UNCHANGED allVars
      PROVE  c \in Known'
      BY <1>1, <1>8 DEF RelayStep, Exhausted, allVars, nodeVars
<1> QED  BY <1>3, <1>4, <1>5, <1>6, <1>7, <1>8 DEF RecoveryNext

(* The node knows of what it has been told. *)
ToldInv == \A k \in Control : link[k] # "left" => told[k] \subseteq Known

LEMMA StepToldInv ==
    TypeOK /\ LinkInv /\ Node!TypeOK /\ ToldInv /\ [RecoveryNext]_allVars => ToldInv'
<1> SUFFICES ASSUME TypeOK, LinkInv, Node!TypeOK, ToldInv, [RecoveryNext]_allVars,
                    NEW k \in Control, link'[k] # "left", NEW c \in told'[k]
             PROVE  c \in Known'
    BY DEF ToldInv
<1> USE SocketTypes
<1>1. link[k] # "left"
  <2>1. ASSUME NEW j \in Control,
               \/ DialControl(j) \/ Attach(j) \/ ControlDialFails(j)
               \/ Hear(j) \/ HeardByNobody(j) \/ Detach(j)
        PROVE  link[k] # "left"
        BY <2>1 DEF DialControl, Attach, ControlDialFails, Hear, HeardByNobody, Detach,
              nodeVars, LinkInv
  <2>2. ASSUME \/ \E d \in Data : \/ Start(d) \/ (\E ok \in BOOLEAN : Dial(d, ok))
                                 \/ LoseData(d) \/ Serve(d)
               \/ \E b \in ConnId : Ignore(b)
               \/ RelayStep \/ Exhausted \/ UNCHANGED allVars
        PROVE  UNCHANGED link
        BY <2>2 DEF Start, Dial, LoseData, Serve, Ignore, RelayStep, Exhausted, allVars, nodeVars
  <2> QED  BY <2>1, <2>2 DEF RecoveryNext
<1>2. CASE c \in told[k]
      BY <1>1, <1>2, StepKnown DEF ToldInv
<1>3. ASSUME c \notin told[k]
      PROVE  c \in Known'
  <2>1. Hear(k)
    <3>1. ASSUME NEW j \in Control, Hear(j) \/ HeardByNobody(j)
          PROVE  j = k /\ Hear(k)
      <4>1. told' = [told EXCEPT ![j] = Learn(@, Head(queue[j]))]
            BY <3>1 DEF Hear, HeardByNobody, Write
      <4>2. j = k
            BY <1>3, <4>1 DEF TypeOK
      <4> QED  BY <1>1, <3>1, <4>2 DEF HeardByNobody
    <3>2. ASSUME \/ \E j \in Control : \/ DialControl(j) \/ Attach(j)
                                       \/ ControlDialFails(j) \/ Detach(j)
                 \/ \E d \in Data : \/ Start(d) \/ (\E ok \in BOOLEAN : Dial(d, ok))
                                   \/ LoseData(d) \/ Serve(d)
                 \/ \E b \in ConnId : Ignore(b)
                 \/ Exhausted \/ UNCHANGED allVars
          PROVE  UNCHANGED told
          BY <3>2 DEF DialControl, Attach, ControlDialFails, Detach, Start, Dial, LoseData,
                Serve, Ignore, Exhausted, allVars, vars
    <3>3. ASSUME NEW p \in Peer,
                 \/ SlowStep(p) \/ SocketStep(p) \/ RegisterRefused(p)
                 \/ p \in Control /\ RegisterControl(p)
                 \/ p \in Data /\ (RegisterServerData(p) \/ UnregisterServerData(p))
                 \/ p \in Client /\ (RegisterClient(p) \/ UnregisterClient(p)
                                       \/ UnregisterLastClient(p) \/ NudgeStep(p))
                 \/ p \notin Control /\ Write(p)
          PROVE  UNCHANGED told
          BY <3>3 DEF SlowStep, SocketStep, RegisterRefused, RegisterControl, RegisterServerData,
                UnregisterServerData, RegisterClient, UnregisterClient, UnregisterLastClient,
                NudgeStep, NudgeHasClient, NudgeHasServerData, NudgeSync, NudgeReset, Write
    <3>4. ASSUME NEW p \in Control, UnregisterControl(p)
          PROVE  told'[k] \subseteq told[k]
          BY <3>4 DEF UnregisterControl, TypeOK
    <3>5. ASSUME RelayStep
          PROVE  told'[k] \subseteq told[k]
      <4>1. Data \cap Control = {} /\ Client \cap Control = {}
            BY SessionAssumption
      <4> QED  BY <3>3, <3>4, <3>5, <4>1 DEF RelayStep
    <3> QED  BY <1>3, <3>1, <3>2, <3>5 DEF RecoveryNext
  <2> DEFINE m == Head(queue[k])
  <2>2. c \in Learn(told[k], m)
        BY <2>1 DEF Hear, Write, TypeOK
  <2>3. c \in Event(m) /\ ~IsClose(m)
        BY <1>3, <2>2 DEF Learn, Event, IsClose
  <2>4. announced' = Event(m)
        BY <2>1, <2>3 DEF Hear, Served!ControlEvent
  <2> QED  BY <2>3, <2>4 DEF Known
<1> QED  BY <1>2, <1>3

(* All that the composition adds. *)
RecoveryInv ==
    /\ TypeOK /\ RoutingInv
    /\ Node!TypeOK /\ Node!OneChannelPerId
    /\ LinkInv /\ DialInv /\ ToldInv

LEMMA RecoveryInvHolds == RecoverySpec => []RecoveryInv
<1>1. RecoverySpec => [](TypeOK /\ RoutingInv)
      BY SessionIsKept, QueueInvariant, PTL
<1>2. Node!Spec => []Node!TypeOK
      BY NodeAssumed, Node!TypeCorrect
<1>3. Node!Spec => []Node!OneChannelPerId
      BY NodeAssumed, Node!ChannelsAreUnique
<1>4. RecoveryInit => LinkInv /\ DialInv /\ ToldInv
      BY SocketTypes DEF RecoveryInit, Init, PeerInit, LinkInv, DialInv, ToldInv
<1>5. RecoverySpec => []LinkInv
      BY <1>4, StepLinkInv, PTL DEF RecoverySpec
<1>6. RecoverySpec => []DialInv
      BY <1>1, <1>2, <1>4, NodeIsKept, StepDialInv, PTL DEF RecoverySpec
<1>7. RecoverySpec => []ToldInv
      BY <1>1, <1>2, <1>4, <1>5, NodeIsKept, StepToldInv, PTL DEF RecoverySpec
<1> QED  BY <1>1, <1>2, <1>3, <1>5, <1>6, <1>7, NodeIsKept, PTL DEF RecoveryInv

-----------------------------------------------------------------------------
(* Only a data socket that registers takes over a slot. *)
LEMMA TakenByRegister ==
    ASSUME TypeOK, [RecoveryNext]_allVars, NEW c \in ConnId,
           server_data'[c] \notin {server_data[c], NoPeer}
    PROVE  \E e \in Data : /\ ConnOf[e] = c
                          /\ server_data'[c] = e
                          /\ channel[e] # "unused"
<1> USE SocketTypes
<1>1. \E e \in Data : RegisterServerData(e) /\ channel[e] # "unused"
  <2>1. ASSUME UNCHANGED server_data
        PROVE  FALSE
        BY <2>1
  <2>2. ASSUME NEW p \in Peer,
               \/ RegisterRefused(p) \/ Write(p) \/ SlowStep(p) \/ SocketStep(p)
               \/ p \in Control /\ (RegisterControl(p) \/ UnregisterControl(p))
               \/ p \in Client /\ (RegisterClient(p) \/ UnregisterClient(p) \/ NudgeStep(p))
        PROVE  FALSE
        BY <2>1, <2>2
        DEF RegisterRefused, Write, SlowStep, SocketStep, RegisterControl, UnregisterControl,
            RegisterClient, UnregisterClient, NudgeStep, NudgeHasClient, NudgeHasServerData,
            NudgeSync, NudgeReset, routing
  <2>3. ASSUME NEW p \in Data, UnregisterServerData(p)
        PROVE  FALSE
        BY <2>3 DEF UnregisterServerData, Vacated, TypeOK
  <2>4. ASSUME NEW p \in Client, UnregisterLastClient(p)
        PROVE  FALSE
        BY <2>4 DEF UnregisterLastClient, TypeOK
  <2>5. ASSUME UNCHANGED vars
        PROVE  FALSE
        BY <2>1, <2>5 DEF vars, routing
  <2>6. ASSUME NEW k \in Control, Hear(k) \/ HeardByNobody(k)
        PROVE  FALSE
        BY <2>2, <2>6 DEF Hear, HeardByNobody
  <2>7. ASSUME \/ \E k \in Control : \/ DialControl(k) \/ Attach(k)
                                     \/ ControlDialFails(k) \/ Detach(k)
               \/ Exhausted \/ UNCHANGED allVars
               \/ \E d \in Data : \/ Start(d) \/ (\E ok \in BOOLEAN : Dial(d, ok))
                                 \/ LoseData(d) \/ Serve(d)
               \/ \E b \in ConnId : Ignore(b)
        PROVE  FALSE
        BY <2>5, <2>7 DEF DialControl, Attach, ControlDialFails, Detach, Exhausted, allVars,
              Start, Dial, LoseData, Serve, Ignore
  <2>8. ASSUME RelayStep
        PROVE  \E e \in Data : RegisterServerData(e) /\ channel[e] # "unused"
        BY <2>2, <2>3, <2>4, <2>8 DEF RelayStep
  <2> QED  BY <2>6, <2>7, <2>8 DEF RecoveryNext
<1>2. PICK e \in Data : RegisterServerData(e) /\ channel[e] # "unused"
      BY <1>1
<1>3. ConnOf[e] = c /\ server_data'[c] = e
      BY <1>2 DEF RegisterServerData, TypeOK
<1> QED  BY <1>2, <1>3

(* ReplacedWhenLeft of one step. *)
LeftWhenReplaced ==
    \A c \in ConnId :
        LET old == server_data[c]
            new == server_data'[c]
        IN  old # NoPeer /\ new \notin {old, NoPeer} =>
                channel[old] = "done" \/ channel[new] = "done"

LEMMA StepReplacedWhenLeft == RecoveryInv /\ [RecoveryNext]_allVars => LeftWhenReplaced
<1> SUFFICES ASSUME RecoveryInv, [RecoveryNext]_allVars,
                    NEW c \in ConnId,
                    server_data[c] # NoPeer,
                    server_data'[c] \notin {server_data[c], NoPeer}
             PROVE  channel[server_data[c]] = "done" \/ channel[server_data'[c]] = "done"
    BY DEF LeftWhenReplaced
<1> DEFINE d == server_data[c]
<1>1. PICK e \in Data : ConnOf[e] = c /\ server_data'[c] = e /\ channel[e] # "unused"
      BY TakenByRegister DEF RecoveryInv
<1>2. d \in Data /\ ConnOf[d] = c /\ d # e
      BY <1>1 DEF RecoveryInv, TypeOK
<1>3. ~(d \in Node!Running /\ e \in Node!Running)
      BY <1>1, <1>2 DEF RecoveryInv, Node!OneChannelPerId, Node!Running
<1>4. phase[d] # "absent"
      BY DEF RecoveryInv, RoutingInv, LiveRouting, Live
<1>5. channel[d] # "unused"
      BY <1>2, <1>4 DEF RecoveryInv, DialInv
<1>6. \A f \in Data : channel[f] \in {"unused", "connecting", "serving", "leaving", "done"}
      BY DEF RecoveryInv, Node!TypeOK
<1> QED  BY <1>1, <1>2, <1>3, <1>5, <1>6 DEF Node!Running

(* Of two data sockets of an id of which one replaces the other at the relay,*)
(* the node is done with at least one (ReplacedWhenLeft).                    *)
THEOREM ReplacementsAreSafe == RecoverySpec => ReplacedWhenLeft
<1>1. RecoveryInv /\ [RecoveryNext]_allVars => [LeftWhenReplaced]_allVars
      BY StepReplacedWhenLeft
<1>2. RecoverySpec => [][LeftWhenReplaced]_allVars
      BY <1>1, RecoveryInvHolds, PTL DEF RecoverySpec
<1> QED  BY <1>2 DEF ReplacedWhenLeft, LeftWhenReplaced

-----------------------------------------------------------------------------
(* What the messages to a control socket add up to, the node knows of or is  *)
(* about to be told.                                                         *)
LEMMA ViewIsTaken == TypeOK /\ ControlView /\ ToldInv => AnnouncementsTaken
<1> DEFINE k == server_control
<1> SUFFICES ASSUME TypeOK, ControlView, ToldInv,
                    k # NoPeer, k \notin dropped, ~Closing(k), link[k] # "left",
                    NEW c \in ConnectedIds
             PROVE  \/ \E i \in DOMAIN queue[k] : c \in Event(queue[k][i])
                    \/ c \in announced \cup active_connections
                    \/ \E d \in Data : ConnOf[d] = c /\ channel[d] = "done"
    BY DEF AnnouncementsTaken
<1>1. k \in Control
      BY DEF TypeOK
<1>2. c \in View(told[k], queue[k])
      BY DEF ControlView, Announced
<1> HIDE DEF k
<1>3. c \in told[k] \/ \E i \in DOMAIN queue[k] : Announces(queue[k][i], c)
      BY <1>2 DEF View
<1>4. CASE c \in told[k]
  <2>1. c \in Known
        BY <1>1, <1>4 DEF ToldInv
  <2> QED  BY <2>1 DEF Known
<1>5. ASSUME NEW i \in DOMAIN queue[k], Announces(queue[k][i], c)
      PROVE  c \in Event(queue[k][i])
      BY <1>5 DEF Announces, Learn, Event
<1> QED  BY <1>3, <1>4, <1>5

(* No announcement falls between two control connections: a connection id    *)
(* with clients is on its way to the node, or the node has taken it up       *)
(* (AnnouncementsTaken).                                                     *)
THEOREM AnnouncementsAreTaken == RecoverySpec => []AnnouncementsTaken
<1>1. RecoverySpec => []ControlView
      BY SessionIsKept, ControlViewIsExact, PTL
<1>2. RecoveryInv => TypeOK /\ ToldInv
      BY DEF RecoveryInv
<1> QED  BY <1>1, <1>2, RecoveryInvHolds, ViewIsTaken, PTL
=============================================================================
