-------------------------- MODULE RelaySessionProofs --------------------------
(* What holds of every session of the relay, whatever the sockets, the      *)
(* connection ids and the limits.                                           *)
EXTENDS RelaySession, RelayPeerProofs, FiniteSetTheorems

-----------------------------------------------------------------------------
(* The type invariant. *)

LEMMA MessageTypes ==
    /\ \A code \in CloseCode : Close(code) \in Message
    /\ Close(1001) \in Message /\ Close(1008) \in Message /\ Close(1011) \in Message
    /\ Close(1012) \in Message /\ Close(1013) \in Message
    /\ \A p \in Peer, n \in Nat : Frame(p, n) \in Message
    /\ Pong \in Message
    /\ \A ids \in SUBSET ConnId : Sync(ids) \in Message
    /\ \A c \in ConnId : Connected(c) \in Message /\ Disconnected(c) \in Message
BY DEF Message, PeerMessage, CloseCode, Close, Frame, Pong, Sync, Connected, Disconnected

LEMMA SocketTypes ==
    /\ \A p \in Data \cup Client : ConnOf[p] \in ConnId
    /\ Control \subseteq Peer /\ Data \subseteq Peer /\ Client \subseteq Peer
BY SessionAssumption

LEMMA ConnectedIdsType == ConnectedIds \in SUBSET ConnId
BY DEF ConnectedIds

LEMMA InitTypeOK == Init => TypeOK
<1> SUFFICES ASSUME Init PROVE TypeOK
    OBVIOUS
<1>1. PeerTypeOK(Message)
      BY EmptySeq DEF Init, PeerInit, PeerTypeOK
<1>2. pending \in [ConnId -> Seq([type : {"Frame"}, from : Client, n : Nat])]
      BY EmptySeq DEF Init
<1> QED
    BY <1>1, <1>2 DEF Init, TypeOK, NudgeState

(* The queues after an offer of messages, by Emit or by Finish. *)
LEMMA OfferedType ==
    ASSUME TypeOK, NEW out, \A p \in Peer : out[p] \in Seq(Message)
    PROVE  Offered(out) \in [Peer -> Seq(Message)]
<1> DEFINE M == [p \in Peer |-> Message]
<1>1. \A p \in Peer : queue[p] \in Seq(M[p]) /\ out[p] \in Seq(M[p])
      BY DEF TypeOK, PeerTypeOK
<1>2. \A p \in Peer : M[p] = Message
      OBVIOUS
<1> HIDE DEF M
<1>3. \A p \in Peer : Offered(out)[p] \in Seq(M[p])
      BY <1>1, OfferedRespects
<1> QED  BY <1>2, <1>3 DEF Offered

LEMMA ToOffered ==
    ASSUME NEW m \in Message, NEW targets
    PROVE  \A p \in Peer : To(targets, m)[p] \in Seq(Message)
BY OffersRespect

LEMMA BothOffered ==
    ASSUME NEW f, \A p \in Peer : f[p] \in Seq(Message),
           NEW g, \A p \in Peer : g[p] \in Seq(Message)
    PROVE  \A p \in Peer : Both(f, g)[p] \in Seq(Message)
BY OffersRespect

LEMMA EmitType ==
    ASSUME TypeOK, NEW out, \A p \in Peer : out[p] \in Seq(Message),
           NEW retried, Emit(out, retried)
    PROVE  queue' \in [Peer -> Seq(Message)] /\ dropped' \subseteq Peer /\ slow' \subseteq Peer
BY OfferedType DEF Emit, Overflowing, TypeOK, PeerTypeOK

LEMMA FinishType ==
    ASSUME TypeOK, NEW out, \A p \in Peer : out[p] \in Seq(Message),
           NEW retried, NEW p \in Peer, Finish(p, out, retried)
    PROVE  PeerTypeOK(Message)'
<1>1. queue' \in [Peer -> Seq(Message)]
      BY OfferedType, EmptySeq DEF Finish
<1> QED  BY <1>1 DEF Finish, Overflowing, TypeOK, PeerTypeOK

(* A frame that is sent, and the buffer it may go to. *)
LEMMA FrameType ==
    ASSUME TypeOK, NEW p \in Data \cup Client, NewFrame(p)
    PROVE  /\ Frame(p, sent[p] + 1) \in Message
           /\ p \in Client =>
                Frame(p, sent[p] + 1) \in [type : {"Frame"}, from : Client, n : Nat]
           /\ sent' \in [Data \cup Client -> Nat]
<1>1. sent[p] + 1 \in Nat
      BY DEF TypeOK
<1>2. Frame(p, sent[p] + 1) \in Message
      BY <1>1, MessageTypes, SocketTypes
<1>3. p \in Client => Frame(p, sent[p] + 1) \in [type : {"Frame"}, from : Client, n : Nat]
      BY <1>1 DEF Frame
<1>4. sent' \in [Data \cup Client -> Nat]
      BY <1>1 DEF TypeOK, NewFrame
<1> QED  BY <1>2, <1>3, <1>4

LEMMA BufferedType ==
    ASSUME NEW M, NEW q \in Seq(M), NEW m \in M
    PROVE  /\ Buffered(q, m) \in Seq(M)
           /\ Len(q) <= PendingLimit => Len(Buffered(q, m)) <= PendingLimit
<1>1. Append(q, m) \in Seq(M) /\ Append(q, m) # <<>> /\ Len(Append(q, m)) = Len(q) + 1
      BY AppendProperties
<1>2. Tail(Append(q, m)) \in Seq(M) /\ Len(Tail(Append(q, m))) = Len(q)
  <2>1. Tail(Append(q, m)) \in Seq(M) /\ Len(Tail(Append(q, m))) = Len(Append(q, m)) - 1
        BY <1>1, HeadTailProperties
  <2>2. Len(q) \in Nat
        BY LenProperties
  <2> QED  BY <1>1, <2>1, <2>2
<1> QED  BY <1>1, <1>2 DEF Buffered

(* A buffered frame is a message. *)
LEMMA PendingAreMessages ==
    ASSUME TypeOK, NEW c \in ConnId
    PROVE  pending[c] \in Seq(Message)
<1> DEFINE F == [type : {"Frame"}, from : Client, n : Nat]
<1>1. F \subseteq Message
      BY SocketTypes DEF Message, PeerMessage
<1>2. pending[c] \in Seq(F)
      BY DEF TypeOK
<1> HIDE DEF F
<1>3. \A s \in Seq(F) : s \in Seq(Message)
      BY <1>1
<1> QED  BY <1>2, <1>3

(* The socket's own steps: the read loop's end, the write task. *)
LEMMA SocketStepType ==
    ASSUME TypeOK, NEW p \in Peer, WriterFail(p) \/ CloseSlow(p) \/ EndRemote(p)
                                     \/ (\E code \in LimitCode : EndLimit(p, code))
    PROVE  PeerTypeOK(Message)'
<1>2. CASE WriterFail(p)
      BY <1>2, EmptySeq DEF WriterFail, TypeOK, PeerTypeOK
<1>3. CASE CloseSlow(p)
  <2> DEFINE out == To({p}, Close(1013))
  <2>1. \A q \in Peer : out[q] \in Seq(Message)
    <3>1. Close(1013) \in Message
          BY MessageTypes
    <3> QED  BY <3>1, ToOffered
  <2>2. queue' = Offered(out)
        BY <1>3 DEF CloseSlow
  <2> HIDE DEF out
  <2>3. queue' \in [Peer -> Seq(Message)]
        BY <2>1, <2>2, OfferedType
  <2>4. slow' \subseteq slow /\ UNCHANGED <<phase, writer, dropped>>
        BY <1>3 DEF CloseSlow
  <2>5. PeerTypeOK(Message)
        BY DEF TypeOK
  <2> QED  BY <2>3, <2>4, <2>5 DEF PeerTypeOK
<1>4. CASE EndRemote(p)
  <2>1. /\ phase' = [phase EXCEPT ![p] = "ending"]
        /\ UNCHANGED <<queue, writer, slow, dropped>>
        BY <1>4 DEF EndRemote
  <2>2. PeerTypeOK(Message)
        BY DEF TypeOK
  <2> QED  BY <2>1, <2>2 DEF PeerTypeOK
<1>5. ASSUME NEW code \in LimitCode, EndLimit(p, code)
      PROVE  PeerTypeOK(Message)'
  <2>1. Close(code) \in Message
        BY PeerAssumption, MessageTypes DEF CloseCode
  <2>2. \A q \in Peer : To({p}, Close(code))[q] \in Seq(Message)
        BY <2>1, ToOffered
  <2>3. Emit(To({p}, Close(code)), {})
        BY <1>5 DEF EndLimit
  <2>4. queue' \in [Peer -> Seq(Message)] /\ dropped' \subseteq Peer /\ slow' \subseteq Peer
        BY <2>2, <2>3, EmitType
  <2> QED  BY <1>5, <2>4 DEF EndLimit, TypeOK, PeerTypeOK
<1> QED  BY <1>2, <1>3, <1>4, <1>5

LEMMA WriteType ==
    ASSUME TypeOK, NEW p \in Peer, Write(p)
    PROVE  TypeOK'
<1>1. Head(queue[p]) \in Message /\ Tail(queue[p]) \in Seq(Message)
      BY HeadTailProperties DEF Write, WriterSend, TypeOK, PeerTypeOK
<1>2. PeerTypeOK(Message)'
      BY <1>1 DEF Write, WriterSend, TypeOK, PeerTypeOK
<1>3. \A ids \in SUBSET ConnId, m \in Message : Learn(ids, m) \in SUBSET ConnId
      BY DEF Learn, Message, PeerMessage
<1>4. told' \in [Control -> SUBSET ConnId]
      BY <1>1, <1>3 DEF Write, TypeOK
<1> QED  BY <1>2, <1>4 DEF Write, routing, TypeOK

LEMMA StepTypeOK == TypeOK /\ [Next]_vars => TypeOK'
<1> SUFFICES ASSUME TypeOK, [Next]_vars PROVE TypeOK'
    OBVIOUS
<1> DEFINE F == [type : {"Frame"}, from : Client, n : Nat]
<1>1. ASSUME NEW p \in Peer, RegisterRefused(p)
      PROVE  TypeOK'
  <2>1. PeerTypeOK(Message)'
        BY <1>1 DEF RegisterRefused, Refuse, TypeOK, PeerTypeOK
  <2> QED  BY <1>1, <2>1 DEF RegisterRefused, routing, TypeOK
<1>2. ASSUME NEW p \in Peer, SocketPing(p)
      PROVE  TypeOK'
  <2>1. \A q \in Peer : To({SlotHolder(p)}, Pong)[q] \in Seq(Message)
        BY MessageTypes, ToOffered
  <2>2. Emit(To({SlotHolder(p)}, Pong), Peer) /\ UNCHANGED <<phase, writer, routing, nudge, told, sent>>
        BY <1>2 DEF SocketPing
  <2>3. queue' \in [Peer -> Seq(Message)] /\ dropped' \subseteq Peer /\ slow' \subseteq Peer
        BY <2>1, <2>2, EmitType
  <2>4. pings' \in Nat
        BY <1>2 DEF SocketPing, NewPing, TypeOK
  <2> QED  BY <2>2, <2>3, <2>4 DEF routing, TypeOK, PeerTypeOK
<1>3. ASSUME NEW p \in Peer, Write(p)
      PROVE  TypeOK'
      BY <1>3, WriteType
<1>4. ASSUME NEW p \in Peer, SlowStep(p) \/ SocketStep(p)
      PROVE  TypeOK'
  <2>1. PeerTypeOK(Message)'
        BY <1>4, SocketStepType DEF SlowStep, SocketStep
  <2> QED  BY <1>4, <2>1 DEF SlowStep, SocketStep, routing, TypeOK
<1>5. ASSUME NEW p \in Control, RegisterControl(p)
      PROVE  TypeOK'
  <2> DEFINE out == Both(Replaced(server_control), To({p}, Sync(ConnectedIds)))
  <2>1. \A q \in Peer : Replaced(server_control)[q] \in Seq(Message)
    <3>1. Close(1008) \in Message
          BY MessageTypes
    <3> QED  BY <3>1, ToOffered DEF Replaced
  <2>2. \A q \in Peer : To({p}, Sync(ConnectedIds))[q] \in Seq(Message)
        BY MessageTypes, ConnectedIdsType, ToOffered
  <2>3. \A q \in Peer : out[q] \in Seq(Message)
        BY <2>1, <2>2, BothOffered
  <2>4. Emit(out, Peer \ {server_control})
        BY <1>5 DEF RegisterControl
  <2> HIDE DEF out
  <2>5. queue' \in [Peer -> Seq(Message)] /\ dropped' \subseteq Peer /\ slow' \subseteq Peer
        BY <2>3, <2>4, EmitType
  <2> QED  BY <1>5, <2>5 DEF RegisterControl, Accept, TypeOK, PeerTypeOK
<1>6. ASSUME NEW p \in Data, RegisterServerData(p)
      PROVE  TypeOK'
  <2> DEFINE c == ConnOf[p]
             out == Both(Replaced(server_data[c]), Batch(p, pending[c]))
  <2>1. c \in ConnId
        BY SocketTypes
  <2>2. \A q \in Peer : Replaced(server_data[c])[q] \in Seq(Message)
        BY MessageTypes, ToOffered DEF Replaced
  <2>3. \A q \in Peer : Batch(p, pending[c])[q] \in Seq(Message)
        BY <2>1, PendingAreMessages, OffersRespect
  <2>4. \A q \in Peer : out[q] \in Seq(Message)
        BY <2>2, <2>3, BothOffered
  <2>5. Emit(out, {})
        BY <1>6 DEF RegisterServerData
  <2> HIDE DEF out
  <2>6. queue' \in [Peer -> Seq(Message)] /\ dropped' \subseteq Peer /\ slow' \subseteq Peer
        BY <2>4, <2>5, EmitType
  <2>7. PeerTypeOK(Message)'
        BY <1>6, <2>6 DEF RegisterServerData, Accept, TypeOK, PeerTypeOK
  <2>8. pending' \in [ConnId -> Seq(F)]
        BY <1>6, <2>1, EmptySeq DEF RegisterServerData, TypeOK
  <2>9. /\ server_data' \in [ConnId -> Data \cup {NoPeer}]
        /\ \A b \in ConnId : server_data'[b] # NoPeer => ConnOf[server_data'[b]] = b
        BY <1>6, <2>1 DEF RegisterServerData, TypeOK
  <2> QED  BY <1>6, <2>7, <2>8, <2>9 DEF RegisterServerData, TypeOK
<1>7. ASSUME NEW p \in Client, RegisterClient(p)
      PROVE  TypeOK'
  <2>1. ConnOf[p] \in ConnId
        BY SocketTypes
  <2>2. \A q \in Peer : ToControl(Connected(ConnOf[p]))[q] \in Seq(Message)
        BY <2>1, MessageTypes, ToOffered DEF ToControl
  <2>3. Emit(ToControl(Connected(ConnOf[p])), Peer)
        BY <1>7 DEF RegisterClient
  <2>4. queue' \in [Peer -> Seq(Message)] /\ dropped' \subseteq Peer /\ slow' \subseteq Peer
        BY <2>2, <2>3, EmitType
  <2>5. PeerTypeOK(Message)'
        BY <1>7, <2>4 DEF RegisterClient, Accept, TypeOK, PeerTypeOK
  <2>6. /\ clients' \in [ConnId -> SUBSET Client]
        /\ \A c \in ConnId : \A x \in clients'[c] : ConnOf[x] = c
        BY <1>7, <2>1 DEF RegisterClient, TypeOK
  <2>7. nudge' \in [Client -> NudgeState]
        BY <1>7 DEF RegisterClient, TypeOK, NudgeState
  <2> QED  BY <1>7, <2>5, <2>6, <2>7 DEF RegisterClient, TypeOK
<1>8. ASSUME NEW p \in Control, ControlPing(p)
      PROVE  TypeOK'
  <2>1. \A q \in Peer : To({p}, Pong)[q] \in Seq(Message)
    <3>1. Pong \in Message
          BY MessageTypes
    <3> QED  BY <3>1, ToOffered
  <2>2. Emit(To({p}, Pong), Peer) /\ UNCHANGED <<phase, writer, routing, nudge, told, sent>>
        BY <1>8 DEF ControlPing
  <2>3. queue' \in [Peer -> Seq(Message)] /\ dropped' \subseteq Peer /\ slow' \subseteq Peer
        BY <2>1, <2>2, EmitType
  <2>4. pings' \in Nat
        BY <1>8 DEF ControlPing, NewPing, TypeOK
  <2> QED  BY <2>2, <2>3, <2>4 DEF routing, TypeOK, PeerTypeOK
<1>9. ASSUME NEW p \in Control, UnregisterControl(p)
      PROVE  TypeOK'
  <2>1. \A q \in Peer : Silence[q] \in Seq(Message)
        BY OffersRespect
  <2>2. PeerTypeOK(Message)'
        BY <1>9, <2>1, SocketTypes, FinishType DEF UnregisterControl
  <2> QED  BY <1>9, <2>2 DEF UnregisterControl, Vacated, TypeOK
<1>10. ASSUME NEW p \in Data, ServerDataFrame(p)
       PROVE  TypeOK'
  <2>1. \A q \in Peer : To(clients[ConnOf[p]], Frame(p, sent[p] + 1))[q] \in Seq(Message)
        BY <1>10, FrameType, ToOffered DEF ServerDataFrame
  <2>2. Emit(To(clients[ConnOf[p]], Frame(p, sent[p] + 1)), Peer)
        BY <1>10 DEF ServerDataFrame
  <2>3. queue' \in [Peer -> Seq(Message)] /\ dropped' \subseteq Peer /\ slow' \subseteq Peer
        BY <2>1, <2>2, EmitType
  <2>4. sent' \in [Data \cup Client -> Nat]
        BY <1>10, FrameType DEF ServerDataFrame
  <2> QED  BY <1>10, <2>3, <2>4 DEF ServerDataFrame, routing, TypeOK, PeerTypeOK
<1>11. ASSUME NEW p \in Data, UnregisterServerData(p)
       PROVE  TypeOK'
  <2>1. \A q \in Peer : To(clients[ConnOf[p]], Close(1012))[q] \in Seq(Message)
    <3>1. Close(1012) \in Message
          BY MessageTypes
    <3> QED  BY <3>1, ToOffered
  <2>2. PeerTypeOK(Message)'
        BY <1>11, <2>1, SocketTypes, FinishType DEF UnregisterServerData
  <2> QED  BY <1>11, <2>2 DEF UnregisterServerData, Vacated, TypeOK
<1>12. ASSUME NEW p \in Client, ForwardClientFrame(p)
       PROVE  TypeOK'
  <2>1. \A q \in Peer : To({server_data[ConnOf[p]]}, Frame(p, sent[p] + 1))[q] \in Seq(Message)
        BY <1>12, FrameType, ToOffered DEF ForwardClientFrame
  <2>2. Emit(To({server_data[ConnOf[p]]}, Frame(p, sent[p] + 1)), Peer)
        BY <1>12 DEF ForwardClientFrame
  <2>3. queue' \in [Peer -> Seq(Message)] /\ dropped' \subseteq Peer /\ slow' \subseteq Peer
        BY <2>1, <2>2, EmitType
  <2>4. sent' \in [Data \cup Client -> Nat]
        BY <1>12, FrameType DEF ForwardClientFrame
  <2> QED  BY <1>12, <2>3, <2>4 DEF ForwardClientFrame, routing, TypeOK, PeerTypeOK
<1>13. ASSUME NEW p \in Client, BufferClientFrame(p)
       PROVE  TypeOK'
  <2> DEFINE c == ConnOf[p]
  <2>1. c \in ConnId /\ pending[c] \in Seq(F)
        BY SocketTypes DEF TypeOK
  <2>2. Frame(p, sent[p] + 1) \in F /\ sent' \in [Data \cup Client -> Nat]
        BY <1>13, FrameType DEF BufferClientFrame
  <2>3. Buffered(pending[c], Frame(p, sent[p] + 1)) \in Seq(F)
    <3> HIDE DEF F
    <3> QED  BY <2>1, <2>2, BufferedType
  <2>4. pending' \in [ConnId -> Seq(F)]
        BY <1>13, <2>3 DEF BufferClientFrame, TypeOK
  <2> QED  BY <1>13, <2>2, <2>4 DEF BufferClientFrame, peerVars, TypeOK, PeerTypeOK
<1>14. ASSUME NEW p \in Client, UnregisterClient(p)
       PROVE  TypeOK'
  <2>1. \A q \in Peer : Silence[q] \in Seq(Message)
        BY OffersRespect
  <2>2. PeerTypeOK(Message)'
        BY <1>14, <2>1, SocketTypes, FinishType DEF UnregisterClient
  <2> QED  BY <1>14, <2>2 DEF UnregisterClient, TypeOK
<1>15. ASSUME NEW p \in Client, UnregisterLastClient(p)
       PROVE  TypeOK'
  <2> DEFINE c == ConnOf[p]
             toData == To({server_data[c]}, Close(1001))
             out == Both(toData, ToControl(Disconnected(c)))
  <2>1. c \in ConnId
        BY SocketTypes
  <2>2. \A q \in Peer : toData[q] \in Seq(Message)
    <3>1. Close(1001) \in Message
          BY MessageTypes
    <3> QED  BY <3>1, ToOffered
  <2>3. \A q \in Peer : ToControl(Disconnected(c))[q] \in Seq(Message)
        BY <2>1, MessageTypes, ToOffered DEF ToControl
  <2>4. \A q \in Peer : out[q] \in Seq(Message)
    <3> HIDE DEF toData
    <3> QED  BY <2>2, <2>3, BothOffered
  <2>5. Finish(p, out, Peer \ {server_data[c]})
        BY <1>15 DEF UnregisterLastClient
  <2> HIDE DEF out
  <2>6. PeerTypeOK(Message)'
        BY <2>4, <2>5, SocketTypes, FinishType
  <2>7. pending' \in [ConnId -> Seq(F)]
        BY <1>15, <2>1, EmptySeq DEF UnregisterLastClient, TypeOK
  <2>8. /\ clients' = [clients EXCEPT ![c] = {}]
        /\ server_data' = [server_data EXCEPT ![c] = NoPeer]
        /\ UNCHANGED <<server_control, nudge, told, sent, pings>>
        BY <1>15 DEF UnregisterLastClient
  <2> HIDE DEF c
  <2> QED  BY <2>1, <2>6, <2>7, <2>8 DEF TypeOK
<1>16. ASSUME NEW x \in Client, NudgeHasClient(x) \/ NudgeHasServerData(x)
       PROVE  TypeOK'
  <2>1. UNCHANGED <<peerVars, routing, told, sent, pings>>
        BY <1>16 DEF NudgeHasClient, NudgeHasServerData, peerVars
  <2>2. nudge' \in [Client -> NudgeState]
        BY <1>16 DEF NudgeHasClient, NudgeHasServerData, Goto, NudgeState, TypeOK
  <2> QED  BY <2>1, <2>2 DEF peerVars, routing, TypeOK, PeerTypeOK
<1>17. ASSUME NEW x \in Client, NudgeSync(x)
       PROVE  TypeOK'
  <2>1. \A q \in Peer : ToControl(Sync(ConnectedIds))[q] \in Seq(Message)
        BY MessageTypes, ConnectedIdsType, ToOffered DEF ToControl
  <2>2. Emit(ToControl(Sync(ConnectedIds)), Peer)
        BY <1>17 DEF NudgeSync
  <2>3. queue' \in [Peer -> Seq(Message)] /\ dropped' \subseteq Peer /\ slow' \subseteq Peer
        BY <2>1, <2>2, EmitType
  <2> QED  BY <1>17, <2>3 DEF NudgeSync, Goto, routing, NudgeState, TypeOK, PeerTypeOK
<1>18. ASSUME NEW x \in Client, NudgeReset(x)
       PROVE  TypeOK'
  <2>1. \A q \in Peer : ToControl(Close(1011))[q] \in Seq(Message)
        BY MessageTypes, ToOffered DEF ToControl
  <2>2. Emit(ToControl(Close(1011)), {})
        BY <1>18 DEF NudgeReset
  <2>3. queue' \in [Peer -> Seq(Message)] /\ dropped' \subseteq Peer /\ slow' \subseteq Peer
        BY <2>1, <2>2, EmitType
  <2> QED  BY <1>18, <2>3 DEF NudgeReset, Goto, routing, NudgeState, TypeOK, PeerTypeOK
<1>19. CASE UNCHANGED vars
       BY <1>19 DEF vars, peerVars, routing, TypeOK, PeerTypeOK
<1> QED
    BY <1>1, <1>2, <1>3, <1>4, <1>5, <1>6, <1>7, <1>8, <1>9, <1>10, <1>11, <1>12,
       <1>13, <1>14, <1>15, <1>16, <1>17, <1>18, <1>19
    DEF Next, NudgeStep, Finished

(* Every reachable state is well typed. *)
THEOREM TypeCorrect == Spec => []TypeOK
BY InitTypeOK, StepTypeOK, PTL DEF Spec

-----------------------------------------------------------------------------
(* Routing. The invariant of the theorem below is inductive together with   *)
(* TypeOK: that pending frames have clients needs every live client to be   *)
(* in `clients`, which in turn needs no socket to be routed before its      *)
(* registration or after its end.                                           *)
LiveRouting ==
    /\ server_control # NoPeer => server_control \in Live
    /\ \A c \in ConnId : server_data[c] # NoPeer => server_data[c] \in Live
    /\ \A c \in ConnId : clients[c] \subseteq Live
    /\ \A x \in Client : x \in Live => x \in clients[ConnOf[x]]

RoutingInv == LiveRouting /\ PendingSound

LEMMA InitRoutingInv == Init => RoutingInv
BY SocketTypes DEF Init, PeerInit, RoutingInv, LiveRouting, PendingSound, Live

(* The steps that leave the routing tables and the phases of the sockets alone *)
(* but for a socket that goes from open to ending.                             *)
LEMMA SameRouting ==
    ASSUME RoutingInv, UNCHANGED routing, Live' = Live
    PROVE  RoutingInv'
BY DEF RoutingInv, LiveRouting, PendingSound, routing

LEMMA StepRoutingInv == TypeOK /\ RoutingInv /\ [Next]_vars => RoutingInv'
<1> SUFFICES ASSUME TypeOK, RoutingInv, [Next]_vars PROVE RoutingInv'
    OBVIOUS
<1> USE SocketTypes
<1>1. ASSUME NEW p \in Peer, RegisterRefused(p)
      PROVE  RoutingInv'
  <2>1. Live' = Live /\ UNCHANGED routing
        BY <1>1 DEF RegisterRefused, Refuse, Live, TypeOK, PeerTypeOK
  <2> QED  BY <2>1, SameRouting
<1>2. ASSUME NEW p \in Peer,
             SocketPing(p) \/ Write(p) \/ SlowStep(p) \/ SocketStep(p)
      PROVE  RoutingInv'
  <2>1. UNCHANGED routing
        BY <1>2 DEF SocketPing, Write, SlowStep, SocketStep
  <2>2. UNCHANGED phase \/ (phase[p] = "open" /\ phase' = [phase EXCEPT ![p] = "ending"])
        BY <1>2 DEF SocketPing, Write, SlowStep, SocketStep, WriterSend, WriterFail,
                    CloseSlow, EndRemote, EndLimit
  <2>3. Live' = Live
        BY <2>2 DEF Live, TypeOK, PeerTypeOK
  <2> QED  BY <2>1, <2>3, SameRouting
<1>3. ASSUME NEW p \in Control, RegisterControl(p)
      PROVE  RoutingInv'
  <2>1. Live' = Live \cup {p}
        BY <1>3 DEF RegisterControl, Accept, Live, TypeOK, PeerTypeOK
  <2> QED  BY <1>3, <2>1, SessionAssumption
           DEF RegisterControl, RoutingInv, LiveRouting, PendingSound, TypeOK
<1>4. ASSUME NEW p \in Data, RegisterServerData(p)
      PROVE  RoutingInv'
  <2>1. Live' = Live \cup {p}
        BY <1>4 DEF RegisterServerData, Accept, Live, TypeOK, PeerTypeOK
  <2>2. p \notin Client
        BY SessionAssumption
  <2> QED  BY <1>4, <2>1, <2>2
           DEF RegisterServerData, RoutingInv, LiveRouting, PendingSound, TypeOK
<1>5. ASSUME NEW p \in Client, RegisterClient(p)
      PROVE  RoutingInv'
  <2>1. Live' = Live \cup {p}
        BY <1>5 DEF RegisterClient, Accept, Live, TypeOK, PeerTypeOK
  <2> QED  BY <1>5, <2>1
           DEF RegisterClient, RoutingInv, LiveRouting, PendingSound, TypeOK
<1>6. ASSUME NEW p \in Peer,
             \/ p \in Control /\ ControlPing(p)
             \/ p \in Data /\ ServerDataFrame(p)
             \/ p \in Client /\ ForwardClientFrame(p)
      PROVE  RoutingInv'
  <2>1. Live' = Live /\ UNCHANGED routing
        BY <1>6 DEF ControlPing, ServerDataFrame, ForwardClientFrame, Live
  <2> QED  BY <2>1, SameRouting
<1>7. ASSUME NEW p \in Client, BufferClientFrame(p)
      PROVE  RoutingInv'
  <2> DEFINE c == ConnOf[p]
             F == [type : {"Frame"}, from : Client, n : Nat]
  <2>1. UNCHANGED <<phase, server_control, server_data, clients>> /\ Live' = Live
        BY <1>7 DEF BufferClientFrame, peerVars, Live
  <2>2. clients[c] # {} /\ server_data[c] = NoPeer
        BY <1>7 DEF BufferClientFrame, Reading, RoutingInv, LiveRouting, Live
  <2>3. Len(pending'[c]) <= PendingLimit
    <3>1. pending[c] \in Seq(F) /\ Frame(p, sent[p] + 1) \in F
          BY <1>7, FrameType DEF BufferClientFrame, TypeOK
    <3>2. Len(pending[c]) <= PendingLimit
      <4>1. CASE pending[c] = <<>>
            BY <4>1, EmptySeq, SessionAssumption
      <4>2. CASE pending[c] # <<>>
            BY <4>2 DEF RoutingInv, PendingSound
      <4> QED  BY <4>1, <4>2
    <3>3. Len(Buffered(pending[c], Frame(p, sent[p] + 1))) <= PendingLimit
      <4> HIDE DEF F
      <4> QED  BY <3>1, <3>2, BufferedType
    <3> QED  BY <1>7, <3>3 DEF BufferClientFrame, TypeOK
  <2>4. \A b \in ConnId : b # c => pending'[b] = pending[b]
        BY <1>7 DEF BufferClientFrame, TypeOK
  <2>5. PendingSound'
        BY <2>1, <2>2, <2>3, <2>4 DEF RoutingInv, PendingSound
  <2> QED  BY <2>1, <2>5 DEF RoutingInv, LiveRouting
<1>8. ASSUME NEW p \in Control, UnregisterControl(p)
      PROVE  RoutingInv'
  <2>1. Live' = Live \ {p}
        BY <1>8 DEF UnregisterControl, Finish, Live, TypeOK, PeerTypeOK
  <2> QED  BY <1>8, <2>1, SessionAssumption
           DEF UnregisterControl, Vacated, RoutingInv, LiveRouting, PendingSound, TypeOK
<1>9. ASSUME NEW p \in Data, UnregisterServerData(p)
      PROVE  RoutingInv'
  <2>1. Live' = Live \ {p}
        BY <1>9 DEF UnregisterServerData, Finish, Live, TypeOK, PeerTypeOK
  <2>2. \A c \in ConnId : server_data'[c] # NoPeer =>
            server_data'[c] = server_data[c] /\ server_data[c] # p
        BY <1>9 DEF UnregisterServerData, Vacated, TypeOK
  <2>3. \A c \in ConnId : server_data[c] = NoPeer => server_data'[c] = NoPeer
        BY <1>9 DEF UnregisterServerData, Vacated, TypeOK
  <2>4. p \notin Client /\ p \notin Control
        BY SessionAssumption
  <2> QED  BY <1>9, <2>1, <2>2, <2>3, <2>4
           DEF UnregisterServerData, RoutingInv, LiveRouting, PendingSound, TypeOK
<1>10. ASSUME NEW p \in Client, UnregisterClient(p)
       PROVE  RoutingInv'
  <2>1. Live' = Live \ {p}
        BY <1>10 DEF UnregisterClient, Finish, Live, TypeOK, PeerTypeOK
  <2>2. p \in clients[ConnOf[p]]
        BY <1>10 DEF UnregisterClient, Finish, Live, RoutingInv, LiveRouting
  <2>3. clients'[ConnOf[p]] = clients[ConnOf[p]] \ {p} /\ clients'[ConnOf[p]] # {}
        BY <1>10, <2>2 DEF UnregisterClient, TypeOK
  <2> QED  BY <1>10, <2>1, <2>3, SessionAssumption
           DEF UnregisterClient, RoutingInv, LiveRouting, PendingSound, TypeOK
<1>11. ASSUME NEW p \in Client, UnregisterLastClient(p)
       PROVE  RoutingInv'
  <2>1. Live' = Live \ {p}
        BY <1>11 DEF UnregisterLastClient, Finish, Live, TypeOK, PeerTypeOK
  <2> QED  BY <1>11, <2>1, SessionAssumption
           DEF UnregisterLastClient, RoutingInv, LiveRouting, PendingSound, TypeOK
<1>12. ASSUME NEW x \in Client, NudgeStep(x)
       PROVE  RoutingInv'
  <2>1. Live' = Live /\ UNCHANGED routing
        BY <1>12 DEF NudgeStep, NudgeHasClient, NudgeHasServerData, NudgeSync, NudgeReset,
                     peerVars, Live
  <2> QED  BY <2>1, SameRouting
<1>13. CASE UNCHANGED vars
  <2>1. Live' = Live /\ UNCHANGED routing
        BY <1>13 DEF vars, peerVars, Live
  <2> QED  BY <2>1, SameRouting
<1> QED
    BY <1>1, <1>2, <1>3, <1>4, <1>5, <1>6, <1>7, <1>8, <1>9, <1>10, <1>11, <1>12, <1>13
    DEF Next, Finished

(* No client frame is kept for a connection without clients, nor past the   *)
(* arrival of its server data socket, nor beyond the bound (PendingSound).  *)
THEOREM PendingIsSound == Spec => []PendingSound
<1>1. Init => TypeOK /\ RoutingInv
      BY InitTypeOK, InitRoutingInv
<1>2. TypeOK /\ RoutingInv /\ [Next]_vars => (TypeOK /\ RoutingInv)'
      BY StepTypeOK, StepRoutingInv
<1>3. TypeOK /\ RoutingInv => PendingSound
      BY DEF RoutingInv
<1> QED  BY <1>1, <1>2, <1>3, PTL DEF Spec

(* The routing tables hold live sockets only, and every live client         *)
(* (RoutedIsLive).                                                          *)
THEOREM RoutingIsLive == Spec => []RoutedIsLive
<1>1. Init => TypeOK /\ RoutingInv
      BY InitTypeOK, InitRoutingInv
<1>2. TypeOK /\ RoutingInv /\ [Next]_vars => (TypeOK /\ RoutingInv)'
      BY StepTypeOK, StepRoutingInv
<1>3. TypeOK /\ RoutingInv => RoutedIsLive
  <2> SUFFICES ASSUME TypeOK, RoutingInv PROVE RoutedIsLive
      OBVIOUS
  <2>1. Routed \subseteq Live
        BY DEF RoutingInv, LiveRouting, Routed
  <2>2. \A x \in Client : x \in Live => x \in clients[ConnOf[x]] /\ x # NoPeer
        BY SessionAssumption DEF RoutingInv, LiveRouting
  <2>3. Live \cap Client \subseteq Routed
        BY <2>2, SocketTypes DEF Routed
  <2> QED  BY <2>1, <2>3 DEF RoutedIsLive
<1> QED  BY <1>1, <1>2, <1>3, PTL DEF Spec

-----------------------------------------------------------------------------
(* A slot is only ever emptied by its holder's own teardown or, for a server *)
(* data slot, by the leave of the connection's last client: no late teardown *)
(* evicts a successor (SlotsVacatedByHolder).                                *)
VacatedByHolder ==
    /\ server_control # NoPeer /\ server_control' = NoPeer
          => phase'[server_control] = "done"
    /\ \A c \in ConnId : server_data[c] # NoPeer /\ server_data'[c] = NoPeer
          => \/ phase'[server_data[c]] = "done"
             \/ clients[c] # {} /\ clients'[c] = {}

LEMMA StepVacatedByHolder == TypeOK /\ [Next]_vars => VacatedByHolder
<1> SUFFICES ASSUME TypeOK, [Next]_vars PROVE VacatedByHolder
    OBVIOUS
<1> USE SocketTypes DEF VacatedByHolder
<1>1. ASSUME UNCHANGED <<server_control, server_data>>
      PROVE  VacatedByHolder
      BY <1>1
<1>2. ASSUME NEW p \in Control, RegisterControl(p)
      PROVE  VacatedByHolder
      BY <1>2, SessionAssumption DEF RegisterControl
<1>3. ASSUME NEW p \in Data, RegisterServerData(p)
      PROVE  VacatedByHolder
      BY <1>3, SessionAssumption DEF RegisterServerData, TypeOK
<1>4. ASSUME NEW p \in Control, UnregisterControl(p)
      PROVE  VacatedByHolder
  <2>1. phase'[p] = "done"
        BY <1>4 DEF UnregisterControl, Finish, TypeOK, PeerTypeOK
  <2> QED  BY <1>4, <2>1 DEF UnregisterControl, Vacated
<1>5. ASSUME NEW p \in Data, UnregisterServerData(p)
      PROVE  VacatedByHolder
  <2>1. phase'[p] = "done"
        BY <1>5 DEF UnregisterServerData, Finish, TypeOK, PeerTypeOK
  <2> QED  BY <1>5, <2>1 DEF UnregisterServerData, Vacated, TypeOK
<1>6. ASSUME NEW p \in Client, UnregisterLastClient(p)
      PROVE  VacatedByHolder
  <2> DEFINE c == ConnOf[p]
  <2>1. clients[c] # {} /\ clients'[c] = {}
        BY <1>6 DEF UnregisterLastClient, TypeOK
  <2>2. \A b \in ConnId : b # c => server_data'[b] = server_data[b]
        BY <1>6 DEF UnregisterLastClient, TypeOK
  <2> QED  BY <1>6, <2>1, <2>2 DEF UnregisterLastClient
<1> QED
    BY <1>1, <1>2, <1>3, <1>4, <1>5, <1>6
    DEF Next, Finished, vars, routing, peerVars, RegisterRefused, SocketPing, Write,
        SlowStep, SocketStep, RegisterClient, ControlPing, ServerDataFrame,
        ForwardClientFrame, BufferClientFrame, UnregisterClient, NudgeStep,
        NudgeHasClient, NudgeHasServerData, NudgeSync, NudgeReset

THEOREM SlotsAreVacatedByHolder == Spec => SlotsVacatedByHolder
<1>1. TypeOK /\ [Next]_vars => [VacatedByHolder]_vars
      BY StepVacatedByHolder
<1>2. Spec => [][VacatedByHolder]_vars
      BY <1>1, InitTypeOK, StepTypeOK, PTL DEF Spec
<1> QED  BY <1>2 DEF SlotsVacatedByHolder, VacatedByHolder

-----------------------------------------------------------------------------
(* The limits. Routed is finite although Peer need not be.                  *)
LimitInv == IsFiniteSet(Routed) /\ WithinLimits

LEMMA InitLimitInv == Init => LimitInv
<1> SUFFICES ASSUME Init PROVE LimitInv
    OBVIOUS
<1>1. Routed = {}
      BY DEF Init, Routed
<1>2. \A c \in ConnId : clients[c] = {}
      BY DEF Init
<1>3. Cardinality({}) = 0 /\ IsFiniteSet({})
      BY FS_EmptySet
<1> QED  BY <1>1, <1>2, <1>3, SessionAssumption DEF LimitInv, WithinLimits

LEMMA ClientsAreRouted ==
    ASSUME TypeOK, NEW c \in ConnId
    PROVE  clients[c] \subseteq Routed
BY SessionAssumption DEF TypeOK, Routed

(* Nothing is admitted: the tables shrink or stay. *)
LEMMA ShrinkingKeepsLimits ==
    ASSUME LimitInv, TypeOK, Routed' \subseteq Routed,
           \A c \in ConnId : clients'[c] \subseteq clients[c]
    PROVE  LimitInv'
<1>1. IsFiniteSet(Routed') /\ Cardinality(Routed') <= Cardinality(Routed)
      BY FS_Subset DEF LimitInv
<1>2. Cardinality(Routed) \in Nat /\ Cardinality(Routed') \in Nat
      BY <1>1, FS_CardinalityType DEF LimitInv
<1>3. ASSUME NEW c \in ConnId
      PROVE  Cardinality(clients'[c]) <= MaxClients
  <2>1. IsFiniteSet(clients[c])
        BY ClientsAreRouted, FS_Subset DEF LimitInv
  <2>2. IsFiniteSet(clients'[c]) /\ Cardinality(clients'[c]) <= Cardinality(clients[c])
        BY <2>1, <1>3, FS_Subset
  <2>3. Cardinality(clients[c]) \in Nat /\ Cardinality(clients'[c]) \in Nat
        BY <2>1, <2>2, FS_CardinalityType
  <2> QED  BY <2>2, <2>3, SessionAssumption DEF LimitInv, WithinLimits
<1> QED  BY <1>1, <1>2, <1>3, SessionAssumption DEF LimitInv, WithinLimits

LEMMA AtMostOneMore ==
    ASSUME NEW S, IsFiniteSet(S), NEW x
    PROVE  /\ IsFiniteSet(S \cup {x})
           /\ Cardinality(S) \in Nat /\ Cardinality(S \cup {x}) \in Nat
           /\ Cardinality(S \cup {x}) <= Cardinality(S) + 1
<1>1. IsFiniteSet(S \cup {x})
      /\ Cardinality(S \cup {x}) = IF x \in S THEN Cardinality(S) ELSE Cardinality(S) + 1
      BY FS_AddElement
<1>2. Cardinality(S) \in Nat
      BY FS_CardinalityType
<1> QED  BY <1>1, <1>2

(* One socket is admitted under the session's limit. *)
LEMMA AdmittingKeepsLimit ==
    ASSUME LimitInv, HasRoom, NEW p, Routed' \subseteq Routed \cup {p}
    PROVE  IsFiniteSet(Routed') /\ Cardinality(Routed') <= MaxSockets
<1>1. IsFiniteSet(Routed \cup {p})
      /\ Cardinality(Routed \cup {p}) <= Cardinality(Routed) + 1
      BY AtMostOneMore DEF LimitInv
<1>2. IsFiniteSet(Routed') /\ Cardinality(Routed') <= Cardinality(Routed \cup {p})
      BY <1>1, FS_Subset
<1>3. /\ Cardinality(Routed) \in Nat /\ Cardinality(Routed') \in Nat
      /\ Cardinality(Routed \cup {p}) \in Nat
      BY <1>1, <1>2, FS_CardinalityType DEF LimitInv
<1> QED  BY <1>1, <1>2, <1>3, SessionAssumption DEF HasRoom

LEMMA StepLimitInv == TypeOK /\ LimitInv /\ [Next]_vars => LimitInv'
<1> SUFFICES ASSUME TypeOK, LimitInv, [Next]_vars PROVE LimitInv'
    OBVIOUS
<1> USE SocketTypes
<1>1. ASSUME UNCHANGED <<server_control, server_data, clients>>
      PROVE  LimitInv'
      BY <1>1, ShrinkingKeepsLimits DEF Routed
<1>2. ASSUME NEW p \in Control, RegisterControl(p)
      PROVE  LimitInv'
  <2>1. Routed' \subseteq Routed \cup {p} /\ HasRoom /\ UNCHANGED clients
        BY <1>2 DEF RegisterControl, Routed
  <2> QED  BY <2>1, AdmittingKeepsLimit DEF LimitInv, WithinLimits
<1>3. ASSUME NEW p \in Data, RegisterServerData(p)
      PROVE  LimitInv'
  <2>1. Routed' \subseteq Routed \cup {p} /\ HasRoom /\ UNCHANGED clients
        BY <1>3 DEF RegisterServerData, Routed, TypeOK
  <2> QED  BY <2>1, AdmittingKeepsLimit DEF LimitInv, WithinLimits
<1>4. ASSUME NEW p \in Client, RegisterClient(p)
      PROVE  LimitInv'
  <2> DEFINE c == ConnOf[p]
  <2>1. Routed' \subseteq Routed \cup {p} /\ HasRoom
        BY <1>4 DEF RegisterClient, Routed, TypeOK
  <2>2. IsFiniteSet(Routed') /\ Cardinality(Routed') <= MaxSockets
        BY <2>1, AdmittingKeepsLimit
  <2>3. Cardinality(clients'[c]) <= MaxClients
    <3>1. clients'[c] = clients[c] \cup {p} /\ Cardinality(clients[c]) < MaxClients
          BY <1>4 DEF RegisterClient, TypeOK
    <3>2. IsFiniteSet(clients[c])
          BY ClientsAreRouted, FS_Subset DEF LimitInv
    <3>3. /\ Cardinality(clients[c]) \in Nat /\ Cardinality(clients[c] \cup {p}) \in Nat
          /\ Cardinality(clients[c] \cup {p}) <= Cardinality(clients[c]) + 1
          BY <3>2, AtMostOneMore
    <3> QED  BY <3>1, <3>3, SessionAssumption
  <2>4. \A b \in ConnId : b # c => clients'[b] = clients[b]
        BY <1>4 DEF RegisterClient, TypeOK
  <2>5. \A b \in ConnId : Cardinality(clients'[b]) <= MaxClients
        BY <2>3, <2>4 DEF LimitInv, WithinLimits
  <2> QED  BY <2>2, <2>5 DEF LimitInv, WithinLimits
<1>5. ASSUME NEW p \in Control, UnregisterControl(p)
      PROVE  LimitInv'
  <2>1. Routed' \subseteq Routed /\ UNCHANGED clients
        BY <1>5 DEF UnregisterControl, Vacated, Routed
  <2> QED  BY <2>1, ShrinkingKeepsLimits
<1>6. ASSUME NEW p \in Data, UnregisterServerData(p)
      PROVE  LimitInv'
  <2>1. \A c \in ConnId : server_data'[c] \in {server_data[c], NoPeer}
        BY <1>6 DEF UnregisterServerData, Vacated, TypeOK
  <2>2. Routed' \subseteq Routed /\ UNCHANGED clients
        BY <1>6, <2>1 DEF UnregisterServerData, Routed
  <2> QED  BY <2>2, ShrinkingKeepsLimits
<1>7. ASSUME NEW p \in Client, UnregisterClient(p) \/ UnregisterLastClient(p)
      PROVE  LimitInv'
  <2>1. \A c \in ConnId : clients'[c] \subseteq clients[c]
                          /\ server_data'[c] \in {server_data[c], NoPeer}
        BY <1>7 DEF UnregisterClient, UnregisterLastClient, TypeOK
  <2>2. UNCHANGED server_control
        BY <1>7 DEF UnregisterClient, UnregisterLastClient
  <2>3. Routed' \subseteq Routed
        BY <2>1, <2>2 DEF Routed
  <2> QED  BY <2>1, <2>3, ShrinkingKeepsLimits
<1> QED
    BY <1>1, <1>2, <1>3, <1>4, <1>5, <1>6, <1>7
    DEF Next, Finished, vars, routing, peerVars, RegisterRefused, SocketPing, Write,
        SlowStep, SocketStep, ControlPing, ServerDataFrame, ForwardClientFrame,
        BufferClientFrame, NudgeStep, NudgeHasClient, NudgeHasServerData, NudgeSync,
        NudgeReset

(* The routing tables never hold more sockets than the session's limit, nor *)
(* more clients of a connection than theirs (WithinLimits).                 *)
THEOREM LimitsHold == Spec => []WithinLimits
<1>1. Init => TypeOK /\ LimitInv
      BY InitTypeOK, InitLimitInv
<1>2. TypeOK /\ LimitInv /\ [Next]_vars => (TypeOK /\ LimitInv)'
      BY StepTypeOK, StepLimitInv
<1>3. TypeOK /\ LimitInv => WithinLimits
      BY DEF LimitInv
<1> QED  BY <1>1, <1>2, <1>3, PTL DEF Spec
=============================================================================
