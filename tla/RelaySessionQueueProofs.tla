------------------------ MODULE RelaySessionQueueProofs ------------------------
(* What the sockets' outbound queues guarantee: a socket that no slot points *)
(* to any more has been told to close, and the control socket's notices add  *)
(* up to the connection ids that have clients.                               *)
EXTENDS RelaySessionProofs

(* The ways in which a step touches the queues. An offer (Emit) reaches only *)
(* sockets that are registered after it.                                     *)
Offering ==
    \E out \in [Peer -> Seq(Message)], retried \in SUBSET Peer :
        /\ Emit(out, retried)
        /\ UNCHANGED <<writer, told>>
        /\ \A q \in Peer : phase'[q] = "absent" => phase[q] = "absent" /\ out[q] = <<>>

Finishing ==
    \E p \in Peer, out \in [Peer -> Seq(Message)], retried \in SUBSET Peer :
        /\ Finish(p, out, retried)
        /\ \A q \in Peer : q = p \/ phase[q] = "absent" => out[q] = <<>>
        /\ \A k \in Control : k # p => told'[k] = told[k]

Leaving ==
    /\ UNCHANGED <<queue, slow, dropped, told>>
    /\ \A q \in Peer : \/ phase'[q] = phase[q] /\ writer'[q] = writer[q]
                       \/ phase'[q] = "ending" /\ writer'[q] = writer[q] /\ phase[q] = "open"
                       \/ phase'[q] = "done" /\ phase[q] = "absent"

QueueStep ==
    \/ Offering
    \/ Finishing
    \/ Leaving
    \/ \E p \in Peer : Write(p)
    \/ \E p \in Peer : WriterFail(p) /\ UNCHANGED told
    \/ \E p \in Peer : CloseSlow(p) /\ UNCHANGED told

LEMMA ToType ==
    ASSUME NEW m \in Message, NEW targets
    PROVE  To(targets, m) \in [Peer -> Seq(Message)]
BY ToOffered DEF To

LEMMA BothType ==
    ASSUME NEW f \in [Peer -> Seq(Message)], NEW g \in [Peer -> Seq(Message)]
    PROVE  Both(f, g) \in [Peer -> Seq(Message)]
BY BothOffered DEF Both

LEMMA Unaddressed ==
    /\ \A q \in Peer : Silence[q] = <<>>
    /\ \A targets, m : \A q \in Peer : q \notin targets => To(targets, m)[q] = <<>>
    /\ \A p, ms : \A q \in Peer : q # p => Batch(p, ms)[q] = <<>>
    /\ \A f, g : \A q \in Peer : f[q] = <<>> /\ g[q] = <<>> => Both(f, g)[q] = <<>>
<1>1. ASSUME NEW q \in Peer, NEW f, NEW g, f[q] = <<>>, g[q] = <<>>
      PROVE  Both(f, g)[q] = <<>>
  <2>1. <<>> \o <<>> = <<>>
        BY EmptySeq, ConcatEmptySeq
  <2> QED  BY <1>1, <2>1 DEF Both
<1> QED  BY <1>1 DEF Silence, To, Batch

LEMMA RoutedArePresent ==
    ASSUME RoutingInv, NEW q \in Peer, phase[q] \in {"absent", "done"}
    PROVE  /\ q # server_control
           /\ \A c \in ConnId : q # server_data[c] /\ q \notin clients[c]
BY SessionAssumption DEF RoutingInv, LiveRouting, Live

(* A notice to sockets that are present. *)
LEMMA NoticeIsOffering ==
    ASSUME NEW m \in Message, NEW targets, NEW retried \in SUBSET Peer,
           Emit(To(targets, m), retried), UNCHANGED <<writer, told>>,
           \A q \in Peer : phase'[q] = "absent" => phase[q] = "absent" /\ q \notin targets
    PROVE  Offering
<1>1. To(targets, m) \in [Peer -> Seq(Message)]
      BY ToType
<1>2. \A q \in Peer : phase'[q] = "absent" => To(targets, m)[q] = <<>>
      BY Unaddressed
<1> DEFINE out == To(targets, m)
<1> HIDE DEF out
<1>3. /\ out \in [Peer -> Seq(Message)] /\ Emit(out, retried)
      /\ \A q \in Peer : phase'[q] = "absent" => phase[q] = "absent" /\ out[q] = <<>>
      BY <1>1, <1>2 DEF out
<1> QED  BY <1>3 DEF Offering

LEMMA SilentFinish ==
    ASSUME NEW p \in Peer, Finish(p, Silence, {}),
           \A k \in Control : k # p => told'[k] = told[k]
    PROVE  Finishing
<1>1. Silence \in [Peer -> Seq(Message)] /\ \A q \in Peer : Silence[q] = <<>>
      BY EmptySeq DEF Silence
<1> DEFINE out == Silence
<1> HIDE DEF out
<1>2. /\ out \in [Peer -> Seq(Message)] /\ Finish(p, out, {})
      /\ \A q \in Peer : out[q] = <<>>
      BY <1>1 DEF out
<1> QED  BY <1>2 DEF Finishing

LEMMA StepQueues == TypeOK /\ RoutingInv /\ [Next]_vars => QueueStep
<1> SUFFICES ASSUME TypeOK, RoutingInv, [Next]_vars PROVE QueueStep
    OBVIOUS
<1> USE SocketTypes
<1>1. ASSUME NEW p \in Peer, RegisterRefused(p)
      PROVE  QueueStep
  <2>1. Leaving
        BY <1>1 DEF RegisterRefused, Refuse, Leaving, TypeOK, PeerTypeOK
  <2> QED  BY <2>1 DEF QueueStep
<1>2. ASSUME NEW p \in Peer, SocketPing(p)
      PROVE  QueueStep
  <2>1. \A q \in Peer : phase[q] = "absent" => q # SlotHolder(p)
        BY <1>2, RoutedArePresent, SessionAssumption DEF SocketPing, Reading, SlotHolder
  <2>2. Pong \in Message
        BY MessageTypes
  <2>3. Emit(To({SlotHolder(p)}, Pong), Peer) /\ UNCHANGED <<phase, writer, told>>
        BY <1>2 DEF SocketPing
  <2>4. Offering
        BY <2>1, <2>2, <2>3, NoticeIsOffering
  <2> QED  BY <2>4 DEF QueueStep
<1>3. ASSUME NEW p \in Peer, Write(p) \/ SlowStep(p)
      PROVE  QueueStep
      BY <1>3 DEF SlowStep, QueueStep
<1>4. ASSUME NEW p \in Peer, SocketStep(p)
      PROVE  QueueStep
  <2>1. CASE WriterFail(p)
        BY <1>4, <2>1 DEF SocketStep, QueueStep
  <2>2. CASE EndRemote(p)
    <3>1. Leaving
          BY <1>4, <2>2 DEF SocketStep, EndRemote, Leaving, TypeOK, PeerTypeOK
    <3> QED  BY <3>1 DEF QueueStep
  <2>3. ASSUME NEW code \in LimitCode, EndLimit(p, code)
        PROVE  QueueStep
    <3>1. Close(code) \in Message
          BY PeerAssumption, MessageTypes DEF CloseCode
    <3>2. Emit(To({p}, Close(code)), {}) /\ UNCHANGED <<writer, told>>
          BY <1>4, <2>3 DEF SocketStep, EndLimit
    <3>3. \A q \in Peer : phase'[q] = "absent" => phase[q] = "absent" /\ q \notin {p}
          BY <2>3 DEF EndLimit, TypeOK, PeerTypeOK
    <3>4. Offering
          BY <3>1, <3>2, <3>3, NoticeIsOffering
    <3> QED  BY <3>4 DEF QueueStep
  <2> QED  BY <1>4, <2>1, <2>2, <2>3 DEF SocketStep
<1>5. ASSUME NEW p \in Control, RegisterControl(p)
      PROVE  QueueStep
  <2> DEFINE old == Replaced(server_control)
             new == To({p}, Sync(ConnectedIds))
             out == Both(old, new)
             others == Peer \ {server_control}
  <2>1. old \in [Peer -> Seq(Message)]
        BY MessageTypes, ToType DEF Replaced
  <2>2. new \in [Peer -> Seq(Message)]
        BY MessageTypes, ConnectedIdsType, ToType
  <2>3. \A q \in Peer : phase'[q] = "absent" => phase[q] = "absent" /\ q # p
        BY <1>5 DEF RegisterControl, Accept, TypeOK, PeerTypeOK
  <2>4. \A q \in Peer : phase'[q] = "absent" => old[q] = <<>> /\ new[q] = <<>>
        BY <2>3, RoutedArePresent, Unaddressed DEF Replaced
  <2>5. Emit(out, others) /\ UNCHANGED <<writer, told>> /\ others \in SUBSET Peer
        BY <1>5 DEF RegisterControl, Accept
  <2> HIDE DEF old, new, others
  <2>6. out \in [Peer -> Seq(Message)]
        BY <2>1, <2>2, BothType
  <2>7. \A q \in Peer : phase'[q] = "absent" => out[q] = <<>>
        BY <2>4, Unaddressed
  <2> HIDE DEF out
  <2>8. Offering
        BY <2>3, <2>5, <2>6, <2>7 DEF Offering
  <2> QED  BY <2>8 DEF QueueStep
<1>6. ASSUME NEW p \in Data, RegisterServerData(p)
      PROVE  QueueStep
  <2> DEFINE c == ConnOf[p]
             old == Replaced(server_data[c])
             new == Batch(p, pending[c])
             out == Both(old, new)
  <2>1. old \in [Peer -> Seq(Message)]
        BY MessageTypes, ToType DEF Replaced
  <2>2. new \in [Peer -> Seq(Message)]
        BY PendingAreMessages, EmptySeq DEF Batch
  <2>3. \A q \in Peer : phase'[q] = "absent" => phase[q] = "absent" /\ q # p
        BY <1>6 DEF RegisterServerData, Accept, TypeOK, PeerTypeOK
  <2>4. \A q \in Peer : phase'[q] = "absent" => old[q] = <<>> /\ new[q] = <<>>
        BY <2>3, RoutedArePresent, Unaddressed DEF Replaced
  <2>5. Emit(out, {}) /\ UNCHANGED <<writer, told>>
        BY <1>6 DEF RegisterServerData, Accept
  <2> HIDE DEF old, new
  <2>6. out \in [Peer -> Seq(Message)]
        BY <2>1, <2>2, BothType
  <2>7. \A q \in Peer : phase'[q] = "absent" => out[q] = <<>>
        BY <2>4, Unaddressed
  <2> HIDE DEF out
  <2>8. Offering
        BY <2>3, <2>5, <2>6, <2>7 DEF Offering
  <2> QED  BY <2>8 DEF QueueStep
<1>7. ASSUME NEW p \in Client, RegisterClient(p)
      PROVE  QueueStep
  <2>1. Connected(ConnOf[p]) \in Message
        BY MessageTypes
  <2>2. \A q \in Peer : phase'[q] = "absent" => phase[q] = "absent" /\ q # server_control
        BY <1>7, RoutedArePresent DEF RegisterClient, Accept, TypeOK, PeerTypeOK
  <2>3. Emit(To({server_control}, Connected(ConnOf[p])), Peer) /\ UNCHANGED <<writer, told>>
        BY <1>7 DEF RegisterClient, Accept, ToControl
  <2>4. Offering
        BY <2>1, <2>2, <2>3, NoticeIsOffering
  <2> QED  BY <2>4 DEF QueueStep
<1>8. ASSUME NEW p \in Control, ControlPing(p)
      PROVE  QueueStep
  <2>1. Pong \in Message
        BY MessageTypes
  <2>2. Emit(To({p}, Pong), Peer) /\ UNCHANGED <<phase, writer, told>> /\ phase[p] = "open"
        BY <1>8 DEF ControlPing, Reading
  <2>3. Offering
        BY <2>1, <2>2, NoticeIsOffering
  <2> QED  BY <2>3 DEF QueueStep
<1>9. ASSUME NEW p \in Control, UnregisterControl(p)
      PROVE  QueueStep
  <2>1. Finish(p, Silence, {}) /\ \A k \in Control : k # p => told'[k] = told[k]
        BY <1>9 DEF UnregisterControl, TypeOK
  <2>2. Finishing
        BY <2>1, SilentFinish
  <2> QED  BY <2>2 DEF QueueStep
<1>10. ASSUME NEW p \in Data, ServerDataFrame(p)
       PROVE  QueueStep
  <2> DEFINE m == Frame(p, sent[p] + 1)
             targets == clients[ConnOf[p]]
  <2>1. m \in Message
        BY <1>10, FrameType DEF ServerDataFrame
  <2>2. \A q \in Peer : phase[q] = "absent" => q \notin targets
        BY RoutedArePresent
  <2>3. Emit(To(targets, m), Peer) /\ UNCHANGED <<phase, writer, told>>
        BY <1>10 DEF ServerDataFrame
  <2> HIDE DEF m, targets
  <2>4. Offering
        BY <2>1, <2>2, <2>3, NoticeIsOffering
  <2> QED  BY <2>4 DEF QueueStep
<1>11. ASSUME NEW p \in Data, UnregisterServerData(p)
       PROVE  QueueStep
  <2> DEFINE targets == clients[ConnOf[p]]
             out == To(targets, Close(1012))
  <2>1. Close(1012) \in Message
        BY MessageTypes
  <2>2. \A q \in Peer : q = p \/ phase[q] = "absent" => q \notin targets
        BY RoutedArePresent, SessionAssumption DEF TypeOK
  <2>3. Finish(p, out, {}) /\ UNCHANGED told
        BY <1>11 DEF UnregisterServerData
  <2> HIDE DEF targets
  <2>4. out \in [Peer -> Seq(Message)]
        BY <2>1, ToType
  <2>5. \A q \in Peer : q = p \/ phase[q] = "absent" => out[q] = <<>>
        BY <2>2, Unaddressed
  <2> HIDE DEF out
  <2>6. Finishing
        BY <2>3, <2>4, <2>5 DEF Finishing
  <2> QED  BY <2>6 DEF QueueStep
<1>12. ASSUME NEW p \in Client, ForwardClientFrame(p)
       PROVE  QueueStep
  <2> DEFINE m == Frame(p, sent[p] + 1)
             d == server_data[ConnOf[p]]
  <2>1. m \in Message
        BY <1>12, FrameType DEF ForwardClientFrame
  <2>2. \A q \in Peer : phase[q] = "absent" => q \notin {d}
        BY RoutedArePresent
  <2>3. Emit(To({d}, m), Peer) /\ UNCHANGED <<phase, writer, told>>
        BY <1>12 DEF ForwardClientFrame
  <2> HIDE DEF m, d
  <2>4. Offering
        BY <2>1, <2>2, <2>3, NoticeIsOffering
  <2> QED  BY <2>4 DEF QueueStep
<1>13. ASSUME NEW p \in Client, BufferClientFrame(p)
       PROVE  QueueStep
       BY <1>13 DEF BufferClientFrame, peerVars, Leaving, QueueStep
<1>14. ASSUME NEW p \in Client, UnregisterClient(p)
       PROVE  QueueStep
  <2>1. Finish(p, Silence, {}) /\ UNCHANGED told
        BY <1>14 DEF UnregisterClient
  <2>2. Finishing
        BY <2>1, SilentFinish
  <2> QED  BY <2>2 DEF QueueStep
<1>15. ASSUME NEW p \in Client, UnregisterLastClient(p)
       PROVE  QueueStep
  <2> DEFINE c == ConnOf[p]
             toData == To({server_data[c]}, Close(1001))
             toControl == ToControl(Disconnected(c))
             out == Both(toData, toControl)
             others == Peer \ {server_data[c]}
  <2>1. toData \in [Peer -> Seq(Message)] /\ toControl \in [Peer -> Seq(Message)]
        BY MessageTypes, ToType DEF ToControl
  <2>2. \A q \in Peer : q = p \/ phase[q] = "absent" =>
            q # server_data[c] /\ q # server_control
        BY RoutedArePresent, SessionAssumption DEF TypeOK
  <2>3. \A q \in Peer : q = p \/ phase[q] = "absent" =>
            toData[q] = <<>> /\ toControl[q] = <<>>
        BY <2>2, Unaddressed DEF ToControl
  <2>4. Finish(p, out, others) /\ UNCHANGED told /\ others \in SUBSET Peer
        BY <1>15 DEF UnregisterLastClient
  <2> HIDE DEF toData, toControl, others
  <2>5. out \in [Peer -> Seq(Message)]
        BY <2>1, BothType
  <2>6. \A q \in Peer : q = p \/ phase[q] = "absent" => out[q] = <<>>
        BY <2>3, Unaddressed
  <2> HIDE DEF out
  <2>7. Finishing
        BY <2>4, <2>5, <2>6 DEF Finishing
  <2> QED  BY <2>7 DEF QueueStep
<1>16. ASSUME NEW x \in Client, NudgeHasClient(x) \/ NudgeHasServerData(x)
       PROVE  QueueStep
       BY <1>16 DEF NudgeHasClient, NudgeHasServerData, peerVars, Leaving, QueueStep
<1>17. ASSUME NEW x \in Client, NudgeSync(x)
       PROVE  QueueStep
  <2>1. Sync(ConnectedIds) \in Message
        BY MessageTypes, ConnectedIdsType
  <2>2. \A q \in Peer : phase[q] = "absent" => q \notin {server_control}
        BY RoutedArePresent
  <2>3. /\ Emit(To({server_control}, Sync(ConnectedIds)), Peer)
        /\ UNCHANGED <<phase, writer, told>>
        BY <1>17 DEF NudgeSync, ToControl
  <2>4. Offering
        BY <2>1, <2>2, <2>3, NoticeIsOffering
  <2> QED  BY <2>4 DEF QueueStep
<1>18. ASSUME NEW x \in Client, NudgeReset(x)
       PROVE  QueueStep
  <2>1. Close(1011) \in Message
        BY MessageTypes
  <2>2. \A q \in Peer : phase[q] = "absent" => q \notin {server_control}
        BY RoutedArePresent
  <2>3. /\ Emit(To({server_control}, Close(1011)), {})
        /\ UNCHANGED <<phase, writer, told>>
        BY <1>18 DEF NudgeReset, ToControl
  <2>4. Offering
        BY <2>1, <2>2, <2>3, NoticeIsOffering
  <2> QED  BY <2>4 DEF QueueStep
<1>19. CASE UNCHANGED vars
       BY <1>19 DEF vars, peerVars, Leaving, QueueStep
<1> QED
    BY <1>1, <1>2, <1>3, <1>4, <1>5, <1>6, <1>7, <1>8, <1>9, <1>10, <1>11, <1>12,
       <1>13, <1>14, <1>15, <1>16, <1>17, <1>18, <1>19
    DEF Next, NudgeStep, Finished

-----------------------------------------------------------------------------
(* A queue never holds more than the channel's capacity and nothing once its *)
(* receiver is gone, the Close 1013 that is still to be tried is for a       *)
(* socket that has lost a message, and a socket not accepted yet has nothing *)
(* queued.                                                                   *)
Unused(p) ==
    /\ queue[p] = <<>> /\ writer[p] = "running" /\ p \notin dropped
    /\ p \in Control => told[p] = {}

QueueInv ==
    /\ \A p \in Peer : Len(queue[p]) <= MaxQueue
    /\ \A p \in Peer : writer[p] = "stopped" => queue[p] = <<>>
    /\ slow \subseteq dropped
    /\ \A p \in Peer : phase[p] = "absent" => Unused(p)

(* What one socket's queue holds after an offer. *)
LEMMA OfferedTo ==
    ASSUME TypeOK, QueueInv, NEW out \in [Peer -> Seq(Message)], NEW p \in Peer
    PROVE  /\ Len(Offered(out)[p]) <= MaxQueue
           /\ out[p] = <<>> => Offered(out)[p] = queue[p] /\ p \notin Overflowing(out)
           /\ p \notin Overflowing(out) /\ writer[p] # "stopped"
                  => Offered(out)[p] = queue[p] \o out[p]
<1>1. queue[p] \in Seq(Message) /\ out[p] \in Seq(Message) /\ Len(queue[p]) <= MaxQueue
      BY DEF TypeOK, PeerTypeOK, QueueInv
<1>2. Offered(out)[p] = IF writer[p] = "stopped" THEN queue[p] ELSE Fill(queue[p], out[p])
      BY DEF Offered
<1>3. Len(Fill(queue[p], out[p])) <= MaxQueue
      BY <1>1, FillProperties DEF Fill
<1>4. p \notin Overflowing(out) /\ writer[p] # "stopped"
          => Fill(queue[p], out[p]) = queue[p] \o out[p]
  <2>1. queue[p] \o out[p] \in Seq(Message)
        BY <1>1, ConcatProperties
  <2>2. Len(queue[p] \o out[p]) \in Nat /\ MaxQueue \in Nat
        BY <2>1, LenProperties, PeerAssumption
  <2> QED  BY <2>2 DEF Overflowing, Fill
<1>5. out[p] = <<>> => queue[p] \o out[p] = queue[p]
      BY <1>1, ConcatEmptySeq
<1>6. out[p] = <<>> => p \notin Overflowing(out)
  <2>1. Len(queue[p]) \in Nat /\ MaxQueue \in Nat
        BY <1>1, LenProperties, PeerAssumption
  <2> QED  BY <1>1, <1>5, <2>1 DEF Overflowing
<1> QED  BY <1>1, <1>2, <1>3, <1>4, <1>5, <1>6

LEMMA InitQueueInv == Init => QueueInv
<1> SUFFICES ASSUME Init PROVE QueueInv
    OBVIOUS
<1>1. \A p \in Peer : Len(queue[p]) <= MaxQueue
      BY EmptySeq, PeerAssumption DEF Init, PeerInit
<1> QED  BY <1>1 DEF Init, PeerInit, QueueInv, Unused

LEMMA StepQueueInv ==
    ASSUME TypeOK, QueueInv, QueueStep
    PROVE  QueueInv'
<1>1. CASE Offering
  <2> PICK out \in [Peer -> Seq(Message)], retried \in SUBSET Peer :
            /\ Emit(out, retried)
            /\ UNCHANGED <<writer, told>>
            /\ \A q \in Peer : phase'[q] = "absent" => phase[q] = "absent" /\ out[q] = <<>>
      BY <1>1 DEF Offering
  <2>1. \A p \in Peer : Len(queue'[p]) <= MaxQueue
        BY OfferedTo DEF Emit
  <2>2. slow' \subseteq dropped'
        BY DEF Emit, QueueInv
  <2>3. ASSUME NEW p \in Peer, phase'[p] = "absent"
        PROVE  Unused(p)'
    <3>1. queue'[p] = queue[p] /\ p \notin Overflowing(out)
          BY <2>3, OfferedTo DEF Emit
    <3> QED  BY <2>3, <3>1 DEF Emit, QueueInv, Unused
  <2>4. \A p \in Peer : writer'[p] = "stopped" => queue'[p] = <<>>
        BY DEF Emit, Offered, QueueInv
  <2> QED  BY <2>1, <2>2, <2>3, <2>4 DEF QueueInv
<1>2. CASE Finishing
  <2> PICK p \in Peer, out \in [Peer -> Seq(Message)], retried \in SUBSET Peer :
            /\ Finish(p, out, retried)
            /\ \A q \in Peer : q = p \/ phase[q] = "absent" => out[q] = <<>>
            /\ \A k \in Control : k # p => told'[k] = told[k]
      BY <1>2 DEF Finishing
  <2>1. \A q \in Peer : queue'[q] = IF q = p THEN <<>> ELSE Offered(out)[q]
        BY DEF Finish, Offered
  <2>2. \A q \in Peer : Len(queue'[q]) <= MaxQueue
    <3>1. Len(<<>>) <= MaxQueue
          BY EmptySeq, PeerAssumption
    <3>2. \A q \in Peer : Len(Offered(out)[q]) <= MaxQueue
          BY OfferedTo
    <3> QED  BY <2>1, <3>1, <3>2
  <2>3. slow' \subseteq dropped'
        BY OfferedTo DEF Finish, Overflowing
  <2>4. ASSUME NEW q \in Peer, phase'[q] = "absent"
        PROVE  Unused(q)'
    <3>1. q # p /\ phase[q] = "absent"
          BY <2>4 DEF Finish, TypeOK, PeerTypeOK
    <3>2. queue'[q] = queue[q] /\ q \notin Overflowing(out)
          BY <2>1, <3>1, OfferedTo
    <3> QED  BY <3>1, <3>2 DEF Finish, QueueInv, Unused, TypeOK, PeerTypeOK
  <2>5. \A q \in Peer : writer'[q] = "stopped" => queue'[q] = <<>>
        BY <2>1 DEF Finish, Offered, QueueInv, TypeOK, PeerTypeOK
  <2> QED  BY <2>2, <2>3, <2>4, <2>5 DEF QueueInv
<1>3. CASE Leaving
  <2>1. \A q \in Peer : phase'[q] = "absent" => phase[q] = "absent" /\ writer'[q] = writer[q]
        BY <1>3 DEF Leaving
  <2>2. \A q \in Peer : writer'[q] = "stopped" => queue'[q] = <<>>
        BY <1>3 DEF Leaving, QueueInv, Unused
  <2> QED  BY <1>3, <2>1, <2>2 DEF Leaving, QueueInv, Unused
<1>4. ASSUME NEW p \in Peer, Write(p)
      PROVE  QueueInv'
  <2>1. /\ queue[p] # <<>> /\ queue[p] \in Seq(Message) /\ Len(queue[p]) <= MaxQueue
        /\ queue' = [queue EXCEPT ![p] = Tail(@)] /\ phase[p] # "absent"
        BY <1>4 DEF Write, WriterSend, TypeOK, PeerTypeOK, QueueInv
  <2>2. Len(Tail(queue[p])) = Len(queue[p]) - 1 /\ Len(queue[p]) \in Nat
        BY <2>1, HeadTailProperties, LenProperties
  <2>3. \A q \in Peer : Len(queue'[q]) <= MaxQueue
    <3>1. \A q \in Peer : queue'[q] = IF q = p THEN Tail(queue[p]) ELSE queue[q]
          BY <2>1 DEF TypeOK, PeerTypeOK
    <3>2. Len(Tail(queue[p])) <= MaxQueue
          BY <2>1, <2>2, PeerAssumption
    <3> QED  BY <3>1, <3>2 DEF QueueInv
  <2>4. slow' \subseteq dropped'
        BY <1>4 DEF Write, WriterSend, QueueInv
  <2>5. ASSUME NEW q \in Peer, phase'[q] = "absent"
        PROVE  Unused(q)'
    <3>1. q # p /\ Unused(q)
          BY <1>4, <2>1, <2>5 DEF Write, WriterSend, QueueInv
    <3>2. queue'[q] = queue[q] /\ writer'[q] = writer[q] /\ dropped' = dropped
          BY <1>4, <3>1 DEF Write, WriterSend, TypeOK, PeerTypeOK
    <3>3. q \in Control => told'[q] = told[q]
          BY <1>4, <3>1 DEF Write, TypeOK
    <3> QED  BY <3>1, <3>2, <3>3 DEF Unused
  <2>6. \A q \in Peer : writer'[q] = "stopped" => queue'[q] = <<>>
        BY <1>4 DEF Write, WriterSend, QueueInv, TypeOK, PeerTypeOK
  <2> QED  BY <2>3, <2>4, <2>5, <2>6 DEF QueueInv
<1>5. ASSUME NEW p \in Peer, WriterFail(p), UNCHANGED told
      PROVE  QueueInv'
  <2>1. \A q \in Peer : queue'[q] = IF q = p THEN <<>> ELSE queue[q]
        BY <1>5 DEF WriterFail, TypeOK, PeerTypeOK
  <2>2. \A q \in Peer : Len(queue'[q]) <= MaxQueue
        BY <2>1, EmptySeq, PeerAssumption DEF QueueInv
  <2>3. \A q \in Peer : phase'[q] = "absent" => Unused(q)'
        BY <1>5, <2>1 DEF WriterFail, QueueInv, Unused, TypeOK, PeerTypeOK
  <2>4. \A q \in Peer : writer'[q] = "stopped" => queue'[q] = <<>>
        BY <1>5, <2>1 DEF WriterFail, QueueInv, TypeOK, PeerTypeOK
  <2> QED  BY <1>5, <2>2, <2>3, <2>4 DEF WriterFail, QueueInv
<1>6. ASSUME NEW p \in Peer, CloseSlow(p), UNCHANGED told
      PROVE  QueueInv'
  <2> DEFINE out == To({p}, Close(1013))
  <2>1. out \in [Peer -> Seq(Message)]
        BY MessageTypes, ToType
  <2>2. \A q \in Peer : q # p => out[q] = <<>>
        BY Unaddressed
  <2>3. queue' = Offered(out) /\ slow' \subseteq slow /\ UNCHANGED <<phase, writer, dropped>>
        BY <1>6 DEF CloseSlow
  <2>4. p \in dropped
        BY <1>6 DEF CloseSlow, QueueInv
  <2> HIDE DEF out
  <2>5. \A q \in Peer : Len(queue'[q]) <= MaxQueue
        BY <2>1, <2>3, OfferedTo
  <2>6. ASSUME NEW q \in Peer, phase'[q] = "absent"
        PROVE  Unused(q)'
    <3>1. Unused(q) /\ q # p
          BY <2>3, <2>4, <2>6 DEF QueueInv, Unused
    <3>2. queue'[q] = queue[q]
          BY <2>1, <2>2, <2>3, <3>1, OfferedTo
    <3> QED  BY <1>6, <2>3, <3>1, <3>2 DEF Unused
  <2>7. \A q \in Peer : writer'[q] = "stopped" => queue'[q] = <<>>
        BY <2>3 DEF Offered, QueueInv
  <2> QED  BY <2>3, <2>5, <2>6, <2>7 DEF QueueInv
<1> QED  BY <1>1, <1>2, <1>3, <1>4, <1>5, <1>6 DEF QueueStep

-----------------------------------------------------------------------------
(* Whoever has been told to close, or has lost a message, stays so until its *)
(* end.                                                                      *)
LEMMA CloseStaysQueued ==
    ASSUME NEW q \in Seq(Message), NEW ms \in Seq(Message),
           NEW i \in DOMAIN q, IsClose(q[i])
    PROVE  \E j \in DOMAIN (q \o ms) : IsClose((q \o ms)[j])
<1>1. Len(q) \in Nat /\ Len(ms) \in Nat /\ DOMAIN q = 1 .. Len(q)
      BY LenProperties
<1>2. /\ DOMAIN (q \o ms) = 1 .. Len(q) + Len(ms)
      /\ \A j \in 1 .. Len(q) + Len(ms) :
            (q \o ms)[j] = IF j <= Len(q) THEN q[j] ELSE ms[j - Len(q)]
      BY ConcatProperties, LenProperties
<1>3. i \in 1 .. Len(q) + Len(ms) /\ (q \o ms)[i] = q[i]
      BY <1>1, <1>2
<1> QED  BY <1>2, <1>3

LEMMA ClosingStays ==
    ASSUME TypeOK, QueueInv, QueueStep, NEW p \in Peer, phase'[p] \in {"open", "ending"},
           Closing(p) \/ p \in dropped
    PROVE  Closing(p)' \/ p \in dropped'
<1> USE DEF TypeOK, PeerTypeOK
<1>1. CASE Offering
  <2> PICK out \in [Peer -> Seq(Message)], retried \in SUBSET Peer :
            /\ Emit(out, retried)
            /\ UNCHANGED <<writer, told>>
      BY <1>1 DEF Offering
  <2>1. CASE p \in dropped \/ p \in Overflowing(out) \/ writer[p] # "running"
        BY <2>1 DEF Emit, Closing
  <2>2. CASE p \notin dropped /\ p \notin Overflowing(out) /\ writer[p] = "running"
    <3>1. queue'[p] = queue[p] \o out[p]
          BY <2>2, OfferedTo DEF Emit
    <3>2. PICK i \in DOMAIN queue[p] : IsClose(queue[p][i])
          BY <2>2 DEF Closing
    <3>3. \E j \in DOMAIN (queue[p] \o out[p]) : IsClose((queue[p] \o out[p])[j])
          BY <3>2, CloseStaysQueued
    <3> QED  BY <3>1, <3>3 DEF Closing
  <2> QED  BY <2>1, <2>2
<1>2. CASE Finishing
  <2> PICK r \in Peer, out \in [Peer -> Seq(Message)], retried \in SUBSET Peer :
            Finish(r, out, retried)
      BY <1>2 DEF Finishing
  <2>1. p # r
        BY DEF Finish
  <2>2. queue'[p] = Offered(out)[p] /\ writer'[p] = writer[p]
        BY <2>1 DEF Finish, Offered
  <2>3. CASE p \in dropped \/ p \in Overflowing(out) \/ writer[p] # "running"
        BY <2>1, <2>2, <2>3 DEF Finish, Closing
  <2>4. CASE p \notin dropped /\ p \notin Overflowing(out) /\ writer[p] = "running"
    <3>1. queue'[p] = queue[p] \o out[p]
          BY <2>2, <2>4, OfferedTo
    <3>2. PICK i \in DOMAIN queue[p] : IsClose(queue[p][i])
          BY <2>4 DEF Closing
    <3>3. \E j \in DOMAIN (queue[p] \o out[p]) : IsClose((queue[p] \o out[p])[j])
          BY <3>2, CloseStaysQueued
    <3> QED  BY <3>1, <3>3 DEF Closing
  <2> QED  BY <2>3, <2>4
<1>3. CASE Leaving
  <2>1. phase[p] # "absent"
        BY <1>3 DEF Leaving
  <2>2. writer'[p] = writer[p] /\ queue' = queue /\ dropped' = dropped
        BY <1>3, <2>1 DEF Leaving
  <2> QED  BY <2>2 DEF Closing
<1>4. ASSUME NEW r \in Peer, Write(r)
      PROVE  Closing(p)' \/ p \in dropped'
  <2>1. CASE p # r
    <3>1. queue'[p] = queue[p] /\ writer'[p] = writer[p] /\ dropped' = dropped
          BY <1>4, <2>1 DEF Write, WriterSend
    <3> QED  BY <3>1 DEF Closing
  <2>2. CASE p = r /\ (p \in dropped \/ IsClose(Head(queue[p])))
        BY <1>4, <2>2 DEF Write, WriterSend, Closing
  <2>3. CASE p = r /\ p \notin dropped /\ ~IsClose(Head(queue[p]))
    <3>1. /\ queue[p] # <<>> /\ queue[p] \in Seq(Message) /\ writer[p] = "running"
          /\ queue'[p] = Tail(queue[p])
          BY <1>4, <2>3 DEF Write, WriterSend
    <3>2. PICK i \in DOMAIN queue[p] : IsClose(queue[p][i])
          BY <2>3, <3>1 DEF Closing
    <3>3. i # 1
          BY <2>3, <3>2
    <3>4. i \in 2 .. Len(queue[p]) /\ Len(queue[p]) \in Nat
          BY <3>1, <3>2, <3>3, LenProperties
    <3>5. /\ Tail(queue[p]) \in Seq(Message)
          /\ Len(Tail(queue[p])) = Len(queue[p]) - 1
          /\ \A j \in 1 .. Len(Tail(queue[p])) : Tail(queue[p])[j] = queue[p][j + 1]
          BY <3>1, HeadTailProperties
    <3>6. i - 1 \in 1 .. Len(Tail(queue[p])) /\ Tail(queue[p])[i - 1] = queue[p][i]
          BY <3>4, <3>5
    <3>7. i - 1 \in DOMAIN Tail(queue[p])
          BY <3>5, <3>6, LenProperties
    <3> QED  BY <3>1, <3>2, <3>6, <3>7 DEF Closing
  <2> QED  BY <2>1, <2>2, <2>3
<1>5. ASSUME NEW r \in Peer, WriterFail(r)
      PROVE  Closing(p)' \/ p \in dropped'
  <2>1. CASE p = r
        BY <1>5, <2>1 DEF WriterFail, Closing
  <2>2. CASE p # r
    <3>1. queue'[p] = queue[p] /\ writer'[p] = writer[p] /\ dropped' = dropped
          BY <1>5, <2>2 DEF WriterFail
    <3> QED  BY <3>1 DEF Closing
  <2> QED  BY <2>1, <2>2
<1>6. ASSUME NEW r \in Peer, CloseSlow(r)
      PROVE  Closing(p)' \/ p \in dropped'
  <2>1. CASE p \in dropped
        BY <1>6, <2>1 DEF CloseSlow
  <2>2. CASE p \notin dropped
    <3> DEFINE out == To({r}, Close(1013))
    <3>1. p # r
          BY <1>6, <2>2 DEF CloseSlow, QueueInv
    <3>2. out \in [Peer -> Seq(Message)] /\ out[p] = <<>>
          BY <3>1, MessageTypes, ToType, Unaddressed
    <3>3. queue' = Offered(out) /\ UNCHANGED writer
          BY <1>6 DEF CloseSlow
    <3> HIDE DEF out
    <3>4. queue'[p] = queue[p]
          BY <3>2, <3>3, OfferedTo
    <3> QED  BY <2>2, <3>3, <3>4 DEF Closing
  <2> QED  BY <2>1, <2>2
<1> QED  BY <1>1, <1>2, <1>3, <1>4, <1>5, <1>6 DEF QueueStep

(* A socket to which a Close is offered has been told, or lost it. *)
LEMMA ToldToClose ==
    ASSUME TypeOK, QueueInv, NEW out \in [Peer -> Seq(Message)], NEW p \in Peer,
           NEW i \in DOMAIN out[p], IsClose(out[p][i]),
           queue'[p] = Offered(out)[p], writer'[p] = writer[p],
           p \in Overflowing(out) => p \in dropped'
    PROVE  Closing(p)' \/ p \in dropped'
<1>1. CASE writer[p] = "stopped" \/ p \in Overflowing(out)
      BY <1>1 DEF Closing
<1>2. CASE writer[p] # "stopped" /\ p \notin Overflowing(out)
  <2> DEFINE q == queue[p]
             ms == out[p]
  <2>1. queue'[p] = q \o ms
        BY <1>2, OfferedTo
  <2>2. q \in Seq(Message) /\ ms \in Seq(Message)
        BY DEF TypeOK, PeerTypeOK
  <2>3. i \in 1 .. Len(ms) /\ Len(q) \in Nat /\ Len(ms) \in Nat
        BY <2>2, LenProperties
  <2>4. /\ DOMAIN (q \o ms) = 1 .. Len(q) + Len(ms)
        /\ \A j \in 1 .. Len(q) + Len(ms) :
              (q \o ms)[j] = IF j <= Len(q) THEN q[j] ELSE ms[j - Len(q)]
        BY <2>2, ConcatProperties, LenProperties
  <2>5. Len(q) + i \in DOMAIN (q \o ms) /\ (q \o ms)[Len(q) + i] = ms[i]
        BY <2>3, <2>4
  <2> QED  BY <2>1, <2>5 DEF Closing
<1> QED  BY <1>1, <1>2

LEMMA CloseInFront ==
    ASSUME NEW code \in CloseCode, NEW ms \in Seq(Message)
    PROVE  /\ 1 \in DOMAIN (<<Close(code)>> \o ms)
           /\ IsClose((<<Close(code)>> \o ms)[1])
<1> DEFINE first == <<Close(code)>>
<1>1. Close(code) \in Message /\ IsClose(Close(code))
      BY MessageTypes DEF Close, IsClose
<1>2. first \in Seq(Message) /\ Len(first) = 1 /\ first[1] = Close(code)
      BY <1>1
<1>3. Len(ms) \in Nat
      BY LenProperties
<1> HIDE DEF first
<1>4. /\ first \o ms \in Seq(Message) /\ Len(first \o ms) = 1 + Len(ms)
      /\ (first \o ms)[1] = first[1]
  <2>1. /\ first \o ms \in Seq(Message) /\ Len(first \o ms) = Len(first) + Len(ms)
        /\ \A i \in 1 .. Len(first) + Len(ms) :
              (first \o ms)[i] = IF i <= Len(first) THEN first[i] ELSE ms[i - Len(first)]
        BY <1>2, ConcatProperties
  <2>2. 1 \in 1 .. Len(first) + Len(ms) /\ 1 <= Len(first)
        BY <1>2, <1>3
  <2> QED  BY <1>2, <2>1, <2>2
<1>5. 1 \in DOMAIN (first \o ms)
      BY <1>3, <1>4, LenProperties
<1> QED  BY <1>1, <1>2, <1>4, <1>5 DEF first

LEMMA StepUnroutedIsClosing ==
    TypeOK /\ RoutingInv /\ QueueInv /\ UnroutedIsClosing /\ [Next]_vars => UnroutedIsClosing'
<1> SUFFICES ASSUME TypeOK, RoutingInv, QueueInv, UnroutedIsClosing, [Next]_vars,
                    NEW p \in Peer, p \in Live', p \notin Routed'
             PROVE  Closing(p)' \/ p \in dropped'
    BY DEF UnroutedIsClosing, Live
<1> USE SocketTypes
<1>0. phase'[p] \in {"open", "ending"}
      BY DEF Live
<1>1. ASSUME p \in Live, p \notin Routed
      PROVE  Closing(p)' \/ p \in dropped'
      BY <1>0, <1>1, StepQueues, ClosingStays DEF UnroutedIsClosing
<1>2. ASSUME UNCHANGED <<server_control, server_data, clients>>, p \in Live
      PROVE  Closing(p)' \/ p \in dropped'
      BY <1>1, <1>2 DEF Routed
<1>3. ASSUME NEW r \in Peer,
             \/ RegisterRefused(r) \/ SocketPing(r) \/ Write(r) \/ SlowStep(r) \/ SocketStep(r)
             \/ r \in Control /\ ControlPing(r)
             \/ r \in Data /\ ServerDataFrame(r)
             \/ r \in Client /\ (ForwardClientFrame(r) \/ BufferClientFrame(r) \/ NudgeStep(r))
      PROVE  Closing(p)' \/ p \in dropped'
  <2>1. UNCHANGED <<server_control, server_data, clients>>
        BY <1>3 DEF RegisterRefused, SocketPing, Write, SlowStep, SocketStep, ControlPing,
              ServerDataFrame, ForwardClientFrame, BufferClientFrame, NudgeStep,
              NudgeHasClient, NudgeHasServerData, NudgeSync, NudgeReset, routing
  <2>2. \/ UNCHANGED phase
        \/ phase[r] = "open" /\ phase' = [phase EXCEPT ![r] = "ending"]
        \/ phase' = [phase EXCEPT ![r] = "done"]
        BY <1>3 DEF RegisterRefused, SocketPing, Write, SlowStep, SocketStep, ControlPing,
              ServerDataFrame, ForwardClientFrame, BufferClientFrame, NudgeStep,
              NudgeHasClient, NudgeHasServerData, NudgeSync, NudgeReset, peerVars,
              Refuse, WriterSend, WriterFail, CloseSlow, EndRemote, EndLimit
  <2>3. p \in Live
        BY <1>0, <2>2 DEF Live, TypeOK, PeerTypeOK
  <2> QED  BY <1>2, <2>1, <2>3
<1>4. ASSUME NEW r \in Control, RegisterControl(r)
      PROVE  Closing(p)' \/ p \in dropped'
  <2> DEFINE old == To({server_control}, Close(1008))
             new == To({r}, Sync(ConnectedIds))
             out == Both(old, new)
  <2>1. p # r /\ p # NoPeer
        BY <1>4, SessionAssumption DEF RegisterControl, Routed
  <2>2. p \in Live
        BY <1>0, <1>4, <2>1 DEF RegisterControl, Accept, Live, TypeOK, PeerTypeOK
  <2>3. CASE p # server_control
    <3>1. p \notin Routed
          BY <1>4, <2>1, <2>3 DEF RegisterControl, Routed
    <3> QED  BY <1>1, <2>2, <3>1
  <2>4. CASE p = server_control
    <3>1. old \in [Peer -> Seq(Message)] /\ new \in [Peer -> Seq(Message)]
          BY MessageTypes, ConnectedIdsType, ToType
    <3>2. 1008 \in CloseCode
          BY DEF CloseCode
    <3>3. 1 \in DOMAIN out[p] /\ IsClose(out[p][1])
      <4>1. new[p] \in Seq(Message)
        <5> HIDE DEF new
        <5> QED  BY <3>1
      <4>2. out[p] = <<Close(1008)>> \o new[p]
        <5> HIDE DEF new
        <5> QED  BY <2>4 DEF Both, To
      <4> HIDE DEF out, new
      <4> QED  BY <3>2, <4>1, <4>2, CloseInFront
    <3>4. queue' = Offered(out) /\ dropped' = dropped \cup Overflowing(out) /\ UNCHANGED writer
          BY <1>4 DEF RegisterControl, Accept, Emit, Replaced
    <3> HIDE DEF old, new
    <3>5. out \in [Peer -> Seq(Message)]
          BY <3>1, BothType
    <3> HIDE DEF out
    <3> QED  BY <3>3, <3>4, <3>5, ToldToClose
  <2> QED  BY <2>3, <2>4
<1>5. ASSUME NEW r \in Data, RegisterServerData(r)
      PROVE  Closing(p)' \/ p \in dropped'
  <2> DEFINE c == ConnOf[r]
             old == To({server_data[c]}, Close(1008))
             new == Batch(r, pending[c])
             out == Both(old, new)
  <2>1. p # r /\ p # NoPeer
        BY <1>5, SessionAssumption DEF RegisterServerData, Routed, TypeOK
  <2>2. p \in Live
        BY <1>0, <1>5, <2>1 DEF RegisterServerData, Accept, Live, TypeOK, PeerTypeOK
  <2>3. CASE p # server_data[c]
    <3>1. \A b \in ConnId : p # server_data[b]
          BY <1>5, <2>1, <2>3 DEF RegisterServerData, Routed, TypeOK
    <3>2. p \notin Routed
          BY <1>5, <2>1, <3>1 DEF RegisterServerData, Routed
    <3> QED  BY <1>1, <2>2, <3>2
  <2>4. CASE p = server_data[c]
    <3>1. old \in [Peer -> Seq(Message)]
          BY MessageTypes, ToType
    <3>2. new \in [Peer -> Seq(Message)]
          BY PendingAreMessages, EmptySeq DEF Batch
    <3>3. 1008 \in CloseCode
          BY DEF CloseCode
    <3>4. 1 \in DOMAIN out[p] /\ IsClose(out[p][1])
      <4>1. new[p] \in Seq(Message)
        <5> HIDE DEF new
        <5> QED  BY <3>2
      <4>2. out[p] = <<Close(1008)>> \o new[p]
        <5> HIDE DEF new
        <5> QED  BY <2>4 DEF Both, To
      <4> HIDE DEF out, new
      <4> QED  BY <3>3, <4>1, <4>2, CloseInFront
    <3>5. queue' = Offered(out) /\ dropped' = dropped \cup Overflowing(out) /\ UNCHANGED writer
          BY <1>5 DEF RegisterServerData, Accept, Emit, Replaced
    <3> HIDE DEF old, new
    <3>6. out \in [Peer -> Seq(Message)]
          BY <3>1, <3>2, BothType
    <3> HIDE DEF out
    <3> QED  BY <3>4, <3>5, <3>6, ToldToClose
  <2> QED  BY <2>3, <2>4
<1>6. ASSUME NEW r \in Client, RegisterClient(r)
      PROVE  Closing(p)' \/ p \in dropped'
  <2>1. clients'[ConnOf[r]] = clients[ConnOf[r]] \cup {r}
        BY <1>6 DEF RegisterClient, TypeOK
  <2>2. p # r /\ p # NoPeer
        BY <2>1, SessionAssumption DEF Routed
  <2>3. p \in Live
        BY <1>0, <1>6, <2>2 DEF RegisterClient, Accept, Live, TypeOK, PeerTypeOK
  <2>4. \A b \in ConnId : clients[b] \subseteq clients'[b]
        BY <1>6 DEF RegisterClient, TypeOK
  <2>5. p \notin Routed
        BY <1>6, <2>2, <2>4 DEF RegisterClient, Routed
  <2> QED  BY <1>1, <2>3, <2>5
<1>7. ASSUME NEW r \in Peer,
             \/ r \in Control /\ UnregisterControl(r)
             \/ r \in Data /\ UnregisterServerData(r)
             \/ r \in Client /\ (UnregisterClient(r) \/ UnregisterLastClient(r))
      PROVE  p # r /\ p \in Live
  <2>1. phase' = [phase EXCEPT ![r] = "done"]
        BY <1>7 DEF UnregisterControl, UnregisterServerData, UnregisterClient,
              UnregisterLastClient, Finish
  <2> QED  BY <1>0, <2>1 DEF Live, TypeOK, PeerTypeOK
<1>8. ASSUME NEW r \in Control, UnregisterControl(r)
      PROVE  Closing(p)' \/ p \in dropped'
  <2>1. p \notin Routed
        BY <1>7, <1>8, SessionAssumption DEF UnregisterControl, Vacated, Routed
  <2> QED  BY <1>1, <1>7, <1>8, <2>1
<1>9. ASSUME NEW r \in Data, UnregisterServerData(r)
      PROVE  Closing(p)' \/ p \in dropped'
  <2>1. \A b \in ConnId : server_data'[b] = server_data[b] \/ server_data[b] = r
        BY <1>9 DEF UnregisterServerData, Vacated, TypeOK
  <2>2. p \notin Routed
        BY <1>7, <1>9, <2>1, SessionAssumption DEF UnregisterServerData, Routed
  <2> QED  BY <1>1, <1>7, <1>9, <2>2
<1>10. ASSUME NEW r \in Client, UnregisterClient(r)
       PROVE  Closing(p)' \/ p \in dropped'
  <2>1. \A b \in ConnId : clients[b] \subseteq clients'[b] \cup {r}
        BY <1>10 DEF UnregisterClient, TypeOK
  <2>2. UNCHANGED <<server_control, server_data>> /\ p # r /\ p # NoPeer
        BY <1>7, <1>10, SessionAssumption DEF UnregisterClient
  <2>3. \A b \in ConnId : p \notin clients'[b]
        BY <2>2 DEF Routed
  <2>4. p \notin Routed
        BY <2>1, <2>2, <2>3 DEF Routed
  <2> QED  BY <1>1, <1>7, <1>10, <2>4
<1>11. ASSUME NEW r \in Client, UnregisterLastClient(r)
       PROVE  Closing(p)' \/ p \in dropped'
  <2> DEFINE c == ConnOf[r]
             toData == To({server_data[c]}, Close(1001))
             toControl == ToControl(Disconnected(c))
             out == Both(toData, toControl)
  <2>1. p # r /\ p \in Live
        BY <1>7, <1>11
  <2>2. CASE p # server_data[c]
    <3>1. /\ \A b \in ConnId : clients[b] \subseteq clients'[b] \cup {r}
          /\ \A b \in ConnId : server_data'[b] = server_data[b] \/ b = c
          BY <1>11 DEF UnregisterLastClient, TypeOK
    <3>2. p \notin Routed
          BY <1>11, <2>1, <2>2, <3>1, SessionAssumption DEF UnregisterLastClient, Routed
    <3> QED  BY <1>1, <2>1, <3>2
  <2>3. CASE p = server_data[c]
    <3>1. toData \in [Peer -> Seq(Message)] /\ toControl \in [Peer -> Seq(Message)]
          BY MessageTypes, ToType DEF ToControl
    <3>2. 1001 \in CloseCode
          BY DEF CloseCode
    <3>3. 1 \in DOMAIN out[p] /\ IsClose(out[p][1])
      <4>1. toControl[p] \in Seq(Message)
        <5> HIDE DEF toControl
        <5> QED  BY <3>1
      <4>2. out[p] = <<Close(1001)>> \o toControl[p]
        <5> HIDE DEF toControl
        <5> QED  BY <2>3 DEF Both, To
      <4> HIDE DEF out, toControl
      <4> QED  BY <3>2, <4>1, <4>2, CloseInFront
    <3>4. Finish(r, out, Peer \ {server_data[c]})
          BY <1>11 DEF UnregisterLastClient
    <3> HIDE DEF toData, toControl
    <3>5. out \in [Peer -> Seq(Message)]
          BY <3>1, BothType
    <3> HIDE DEF out
    <3>6. /\ queue'[p] = Offered(out)[p] /\ writer'[p] = writer[p]
          /\ p \in Overflowing(out) => p \in dropped'
          BY <2>1, <3>4 DEF Finish, Offered, TypeOK, PeerTypeOK
    <3> QED  BY <3>3, <3>5, <3>6, ToldToClose
  <2> QED  BY <2>2, <2>3
<1>12. CASE UNCHANGED vars
  <2>1. UNCHANGED <<server_control, server_data, clients>> /\ p \in Live
        BY <1>12 DEF vars, peerVars, routing, Live
  <2> QED  BY <1>2, <2>1
<1> QED
    BY <1>3, <1>4, <1>5, <1>6, <1>8, <1>9, <1>10, <1>11, <1>12 DEF Next, Finished

LEMMA QueueInvariant == Spec => [](TypeOK /\ RoutingInv /\ QueueInv)
<1>1. Init => TypeOK /\ RoutingInv /\ QueueInv
      BY InitTypeOK, InitRoutingInv, InitQueueInv
<1>2. TypeOK /\ RoutingInv /\ QueueInv /\ [Next]_vars => (TypeOK /\ RoutingInv /\ QueueInv)'
      BY StepTypeOK, StepRoutingInv, StepQueues, StepQueueInv
<1> QED  BY <1>1, <1>2, PTL DEF Spec

(* A live socket that has lost its slot to a successor, or its last client,  *)
(* has been told to close, unless its full queue refused that: replacement   *)
(* and teardown forget nobody (UnroutedIsClosing).                           *)
THEOREM UnroutedAreClosing == Spec => []UnroutedIsClosing
<1>1. Init => UnroutedIsClosing
      BY DEF Init, PeerInit, UnroutedIsClosing, Live
<1> QED  BY <1>1, QueueInvariant, StepUnroutedIsClosing, PTL DEF Spec

-----------------------------------------------------------------------------
(* A nudge task returns early only if its connection has no client or has a  *)
(* server data socket, and the slot of that socket is emptied only when all  *)
(* clients are told to close or have left.                                   *)
LEMMA StepReturned ==
    ASSUME TypeOK, [Next]_vars, NEW x \in Client
    PROVE  LET c == ConnOf[x] IN
           /\ nudge'[x] = "done" => \/ nudge[x] = "done"
                                   \/ clients'[c] = {}
                                   \/ server_data'[c] # NoPeer
           /\ x \in clients'[c] => x \in clients[c] \/ nudge'[x] = "client1"
           /\ server_data'[c] = NoPeer =>
                  \/ server_data[c] = NoPeer
                  \/ clients'[c] = {}
                  \/ \E r \in Data : ConnOf[r] = c /\ UnregisterServerData(r)
<1> DEFINE c == ConnOf[x]
<1> USE SocketTypes DEF TypeOK
<1>1. ASSUME NEW r \in Peer,
             \/ RegisterRefused(r) \/ SocketPing(r) \/ Write(r) \/ SlowStep(r) \/ SocketStep(r)
             \/ r \in Control /\ ControlPing(r)
             \/ r \in Data /\ ServerDataFrame(r)
             \/ r \in Client /\ (ForwardClientFrame(r) \/ BufferClientFrame(r))
      PROVE  UNCHANGED <<nudge, clients, server_data>>
      BY <1>1 DEF RegisterRefused, SocketPing, Write, SlowStep, SocketStep, ControlPing,
            ServerDataFrame, ForwardClientFrame, BufferClientFrame, routing
<1>2. ASSUME NEW r \in Control, RegisterControl(r) \/ UnregisterControl(r)
      PROVE  UNCHANGED <<nudge, clients, server_data>>
      BY <1>2 DEF RegisterControl, UnregisterControl
<1>3. ASSUME NEW r \in Data, RegisterServerData(r)
      PROVE  /\ UNCHANGED <<nudge, clients>>
             /\ server_data'[c] = NoPeer => server_data[c] = NoPeer
      BY <1>3, SessionAssumption DEF RegisterServerData
<1>4. ASSUME NEW r \in Client, RegisterClient(r)
      PROVE  /\ UNCHANGED server_data
             /\ nudge'[x] = "done" => nudge[x] = "done"
             /\ x \in clients'[c] => x \in clients[c] \/ nudge'[x] = "client1"
      BY <1>4 DEF RegisterClient
<1>5. ASSUME NEW r \in Data, UnregisterServerData(r)
      PROVE  /\ UNCHANGED <<nudge, clients>>
             /\ server_data'[c] = server_data[c] \/ ConnOf[r] = c
      BY <1>5 DEF UnregisterServerData
<1>6. ASSUME NEW r \in Client, UnregisterClient(r) \/ UnregisterLastClient(r)
      PROVE  /\ UNCHANGED nudge
             /\ clients'[c] \subseteq clients[c]
             /\ server_data'[c] = server_data[c] \/ clients'[c] = {}
  <2>1. CASE UnregisterClient(r)
        BY <2>1 DEF UnregisterClient
  <2>2. CASE UnregisterLastClient(r)
    <3>1. /\ clients' = [clients EXCEPT ![ConnOf[r]] = {}]
          /\ server_data' = [server_data EXCEPT ![ConnOf[r]] = NoPeer]
          /\ UNCHANGED nudge
          BY <2>2 DEF UnregisterLastClient
    <3> QED  BY <3>1
  <2> QED  BY <1>6, <2>1, <2>2
<1>7. ASSUME NEW r \in Client, NudgeStep(r)
      PROVE  /\ UNCHANGED <<clients, server_data>>
             /\ nudge'[x] = "done" => \/ nudge[x] = "done"
                                     \/ clients[c] = {}
                                     \/ server_data[c] # NoPeer
      BY <1>7 DEF NudgeStep, NudgeHasClient, NudgeHasServerData, NudgeSync, NudgeReset,
            Goto, routing
<1>8. UNCHANGED vars => UNCHANGED <<nudge, clients, server_data>>
      BY DEF vars, routing
<1> HIDE DEF TypeOK
<1>9. nudge'[x] = "done" => \/ nudge[x] = "done"
                            \/ clients'[c] = {}
                            \/ server_data'[c] # NoPeer
      BY <1>1, <1>2, <1>3, <1>4, <1>5, <1>6, <1>7, <1>8 DEF Next, Finished
<1>10. x \in clients'[c] => x \in clients[c] \/ nudge'[x] = "client1"
      BY <1>1, <1>2, <1>3, <1>4, <1>5, <1>6, <1>7, <1>8 DEF Next, Finished
<1>11. server_data'[c] = NoPeer =>
           \/ server_data[c] = NoPeer
           \/ clients'[c] = {}
           \/ \E r \in Data : ConnOf[r] = c /\ UnregisterServerData(r)
      BY <1>1, <1>2, <1>3, <1>4, <1>5, <1>6, <1>7, <1>8 DEF Next, Finished
<1> QED  BY <1>9, <1>10, <1>11

LEMMA StepNobodyAbandoned ==
    TypeOK /\ RoutingInv /\ QueueInv /\ NobodyAbandoned /\ [Next]_vars => NobodyAbandoned'
<1> SUFFICES ASSUME TypeOK, RoutingInv, QueueInv, NobodyAbandoned, [Next]_vars,
                    NEW x \in Client, nudge'[x] = "done",
                    x \in clients'[ConnOf[x]], server_data'[ConnOf[x]] = NoPeer
             PROVE  Closing(x)' \/ x \in dropped'
    BY DEF NobodyAbandoned
<1> USE SocketTypes
<1>1. phase'[x] \in {"open", "ending"}
      BY StepRoutingInv DEF RoutingInv, LiveRouting, Live
<1>2. /\ nudge[x] = "done" /\ x \in clients[ConnOf[x]]
      /\ \/ server_data[ConnOf[x]] = NoPeer
         \/ \E r \in Data : ConnOf[r] = ConnOf[x] /\ UnregisterServerData(r)
      BY StepReturned
<1>3. CASE server_data[ConnOf[x]] = NoPeer
      BY <1>1, <1>2, <1>3, StepQueues, ClosingStays DEF NobodyAbandoned
<1>4. ASSUME NEW r \in Data, ConnOf[r] = ConnOf[x], UnregisterServerData(r)
      PROVE  Closing(x)' \/ x \in dropped'
  <2> DEFINE out == To(clients[ConnOf[r]], Close(1012))
  <2>1. Finish(r, out, {}) /\ x # r
        BY <1>4, SessionAssumption DEF UnregisterServerData
  <2>2. out \in [Peer -> Seq(Message)]
        BY MessageTypes, ToType
  <2>3. out[x] = <<Close(1012)>> /\ IsClose(Close(1012))
        BY <1>2, <1>4 DEF To, Close, IsClose
  <2>4. 1 \in DOMAIN out[x] /\ IsClose(out[x][1])
    <3> HIDE DEF out
    <3> QED  BY <2>3
  <2>5. /\ queue'[x] = Offered(out)[x] /\ writer'[x] = writer[x]
        /\ x \in Overflowing(out) => x \in dropped'
        BY <2>1 DEF Finish, Offered, TypeOK, PeerTypeOK
  <2> HIDE DEF out
  <2> QED  BY <2>2, <2>4, <2>5, ToldToClose
<1> QED  BY <1>2, <1>3, <1>4

(* No client that is left without a server data socket is also left without  *)
(* its nudge task, unless it has been told to close or its full queue has    *)
(* refused that (NobodyAbandoned).                                           *)
THEOREM NobodyIsAbandoned == Spec => []NobodyAbandoned
<1>1. Init => NobodyAbandoned
      BY DEF Init, NobodyAbandoned
<1>2. TypeOK /\ RoutingInv /\ QueueInv /\ NobodyAbandoned /\ [Next]_vars => NobodyAbandoned'
      BY StepNobodyAbandoned
<1> QED  BY <1>1, <1>2, QueueInvariant, PTL DEF Spec

-----------------------------------------------------------------------------
(* What a queue of notices adds up to.                                       *)
LEMMA LearnIs ==
    ASSUME NEW ids \in SUBSET ConnId, NEW m \in Message, NEW c \in ConnId
    PROVE  c \in Learn(ids, m) <=> Announces(m, c) \/ (c \in ids /\ ~Withdraws(m, c))
BY DEF Learn, Announces, Withdraws, Message, PeerMessage

LEMMA ViewOfNothing ==
    ASSUME NEW ids \in SUBSET ConnId
    PROVE  View(ids, <<>>) = ids
<1>1. \A i \in DOMAIN <<>> : FALSE
      BY EmptySeq
<1> QED  BY <1>1 DEF View

LEMMA ViewOfMore ==
    ASSUME NEW ids \in SUBSET ConnId, NEW q \in Seq(Message), NEW m \in Message
    PROVE  View(ids, q \o <<m>>) = Learn(View(ids, q), m)
<1> DEFINE all == q \o <<m>>
           n == Len(q)
<1>1. n \in Nat /\ DOMAIN q = 1 .. n
      BY LenProperties
<1>2. all = Append(q, m)
      BY AppendIsConcat
<1>3. /\ all \in Seq(Message) /\ Len(all) = n + 1
      /\ \A i \in 1 .. n : all[i] = q[i]
      /\ all[n + 1] = m
      BY <1>2, AppendProperties
<1>4. DOMAIN all = 1 .. n + 1
      BY <1>3, LenProperties
<1> HIDE DEF all, n
<1>5. View(ids, q) \in SUBSET ConnId /\ Learn(View(ids, q), m) \in SUBSET ConnId
      BY DEF View, Learn, Message, PeerMessage
<1>6. ASSUME NEW c \in ConnId
      PROVE  c \in View(ids, all) <=> Announces(m, c) \/ (c \in View(ids, q) /\ ~Withdraws(m, c))
  <2> DEFINE Kept == c \in ids /\ \A i \in 1 .. n : ~Withdraws(q[i], c)
             Seen(i) == Announces(q[i], c) /\ \A j \in i + 1 .. n : ~Withdraws(q[j], c)
  <2>1. c \in View(ids, q) <=> Kept \/ \E i \in 1 .. n : Seen(i)
        BY <1>1 DEF View, n
  <2>2. (\A i \in DOMAIN all : ~Withdraws(all[i], c))
            <=> (\A i \in 1 .. n : ~Withdraws(q[i], c)) /\ ~Withdraws(m, c)
    <3>1. \A i \in 1 .. n + 1 : i \in 1 .. n \/ i = n + 1
          BY <1>1
    <3>2. n + 1 \in 1 .. n + 1 /\ \A i \in 1 .. n : i \in 1 .. n + 1
          BY <1>1
    <3> QED  BY <1>3, <1>4, <3>1, <3>2
  <2>3. ASSUME NEW i \in 1 .. n
        PROVE  (Announces(all[i], c) /\ \A j \in i + 1 .. n + 1 : ~Withdraws(all[j], c))
                   <=> Seen(i) /\ ~Withdraws(m, c)
    <3>1. \A j \in i + 1 .. n + 1 : j \in i + 1 .. n \/ j = n + 1
          BY <1>1
    <3>2. /\ n + 1 \in i + 1 .. n + 1
          /\ \A j \in i + 1 .. n : j \in i + 1 .. n + 1 /\ j \in 1 .. n
          BY <1>1
    <3> QED  BY <1>3, <3>1, <3>2
  <2>4. (Announces(all[n + 1], c) /\ \A j \in n + 1 + 1 .. n + 1 : ~Withdraws(all[j], c))
            <=> Announces(m, c)
    <3>1. \A j \in n + 1 + 1 .. n + 1 : FALSE
          BY <1>1
    <3> QED  BY <1>3, <3>1
  <2>5. (\E i \in DOMAIN all :
            Announces(all[i], c) /\ \A j \in i + 1 .. Len(all) : ~Withdraws(all[j], c))
            <=> Announces(m, c) \/ ((\E i \in 1 .. n : Seen(i)) /\ ~Withdraws(m, c))
    <3>1. DOMAIN all = (1 .. n) \cup {n + 1}
          BY <1>1, <1>4
    <3> HIDE DEF Seen
    <3> QED  BY <1>3, <2>3, <2>4, <3>1
  <2>6. c \in View(ids, all)
            <=> \/ c \in ids /\ \A i \in DOMAIN all : ~Withdraws(all[i], c)
                \/ \E i \in DOMAIN all :
                      Announces(all[i], c) /\ \A j \in i + 1 .. Len(all) : ~Withdraws(all[j], c)
        BY DEF View
  <2> HIDE DEF Seen
  <2> QED  BY <2>1, <2>2, <2>5, <2>6
<1>7. View(ids, all) \in SUBSET ConnId
      BY DEF View
<1>8. \A c \in ConnId : c \in View(ids, all) <=> c \in Learn(View(ids, q), m)
      BY <1>5, <1>6, LearnIs
<1> QED  BY <1>5, <1>7, <1>8 DEF all

LEMMA ViewOfRest ==
    ASSUME NEW ids \in SUBSET ConnId, NEW q \in Seq(Message), q # <<>>
    PROVE  View(Learn(ids, Head(q)), Tail(q)) = View(ids, q)
<1> DEFINE rest == Tail(q)
           m == Head(q)
           n == Len(rest)
<1>1. /\ rest \in Seq(Message) /\ m \in Message /\ m = q[1]
      /\ Len(q) = n + 1 /\ n \in Nat
      /\ DOMAIN rest = 1 .. n /\ DOMAIN q = 1 .. n + 1
      /\ \A i \in 1 .. n : rest[i] = q[i + 1]
  <2>1. /\ rest \in Seq(Message) /\ m \in Message /\ n = Len(q) - 1
        /\ \A i \in 1 .. n : rest[i] = q[i + 1]
        BY HeadTailProperties
  <2>2. n \in Nat /\ DOMAIN rest = 1 .. n /\ Len(q) \in Nat /\ DOMAIN q = 1 .. Len(q)
        BY <2>1, LenProperties
  <2>3. m = q[1]
        OBVIOUS
  <2> QED  BY <2>1, <2>2, <2>3
<1> HIDE DEF rest, m, n
<1>2. ASSUME NEW c \in ConnId
      PROVE  c \in View(Learn(ids, m), rest) <=> c \in View(ids, q)
  <2> DEFINE Seen(i) == Announces(q[i], c) /\ \A j \in i + 1 .. n + 1 : ~Withdraws(q[j], c)
             Silent(a) == \A j \in a .. n + 1 : ~Withdraws(q[j], c)
  <2>1. c \in View(ids, q) <=> (c \in ids /\ Silent(1)) \/ \E i \in 1 .. n + 1 : Seen(i)
        BY <1>1 DEF View
  <2>2. (\A i \in DOMAIN rest : ~Withdraws(rest[i], c)) <=> Silent(2)
    <3>1. \A j \in 2 .. n + 1 : j - 1 \in 1 .. n /\ (j - 1) + 1 = j
          BY <1>1
    <3>2. \A i \in 1 .. n : i + 1 \in 2 .. n + 1
          BY <1>1
    <3>3. ASSUME \A i \in 1 .. n : ~Withdraws(q[i + 1], c), NEW j \in 2 .. n + 1
          PROVE  ~Withdraws(q[j], c)
      <4>1. ~Withdraws(q[(j - 1) + 1], c)
            BY <3>1, <3>3
      <4> QED  BY <3>1, <4>1
    <3> QED  BY <1>1, <3>2, <3>3
  <2>3. ASSUME NEW i \in 1 .. n
        PROVE  (Announces(rest[i], c) /\ \A j \in i + 1 .. n : ~Withdraws(rest[j], c))
                   <=> Seen(i + 1)
    <3>1. \A j \in i + 2 .. n + 1 : j - 1 \in i + 1 .. n /\ (j - 1) + 1 = j /\ j - 1 \in 1 .. n
          BY <1>1
    <3>2. \A j \in i + 1 .. n : j + 1 \in i + 2 .. n + 1 /\ j \in 1 .. n
          BY <1>1
    <3>3. (\A j \in i + 1 .. n : ~Withdraws(rest[j], c))
              <=> \A j \in i + 2 .. n + 1 : ~Withdraws(q[j], c)
      <4>1. ASSUME \A j \in i + 1 .. n : ~Withdraws(rest[j], c), NEW j \in i + 2 .. n + 1
            PROVE  ~Withdraws(q[j], c)
        <5>1. ~Withdraws(rest[j - 1], c) /\ rest[j - 1] = q[(j - 1) + 1]
              BY <1>1, <3>1, <4>1
        <5> QED  BY <3>1, <5>1
      <4> QED  BY <1>1, <3>2, <4>1
    <3>4. (i + 1) + 1 = i + 2 /\ rest[i] = q[i + 1]
          BY <1>1
    <3> QED  BY <3>3, <3>4
  <2>4. (\E i \in DOMAIN rest :
            Announces(rest[i], c) /\ \A j \in i + 1 .. Len(rest) : ~Withdraws(rest[j], c))
            <=> \E i \in 1 .. n : Seen(i + 1)
    <3> HIDE DEF Seen
    <3> QED  BY <1>1, <2>3 DEF n
  <2>5. c \in View(Learn(ids, m), rest)
            <=> \/ c \in Learn(ids, m) /\ \A i \in DOMAIN rest : ~Withdraws(rest[i], c)
                \/ \E i \in DOMAIN rest :
                      Announces(rest[i], c) /\ \A j \in i + 1 .. Len(rest) : ~Withdraws(rest[j], c)
        BY DEF View
  <2>6. c \in Learn(ids, m) <=> Announces(m, c) \/ (c \in ids /\ ~Withdraws(m, c))
        BY <1>1, LearnIs
  <2>7. Seen(1) <=> Announces(m, c) /\ Silent(2)
        BY <1>1
  <2>8. Silent(1) <=> ~Withdraws(m, c) /\ Silent(2)
    <3>1. 1 .. n + 1 = {1} \cup (2 .. n + 1)
          BY <1>1
    <3> QED  BY <1>1, <3>1
  <2>9. (\E i \in 1 .. n + 1 : Seen(i)) <=> Seen(1) \/ \E i \in 1 .. n : Seen(i + 1)
    <3>1. \A i \in 1 .. n + 1 : i = 1 \/ (i - 1 \in 1 .. n /\ (i - 1) + 1 = i)
          BY <1>1
    <3>2. 1 \in 1 .. n + 1 /\ \A i \in 1 .. n : i + 1 \in 1 .. n + 1
          BY <1>1
    <3> HIDE DEF Seen
    <3>3. ASSUME NEW i \in 1 .. n + 1, Seen(i), i # 1
          PROVE  \E l \in 1 .. n : Seen(l + 1)
      <4>1. Seen((i - 1) + 1)
            BY <3>1, <3>3
      <4> QED  BY <3>1, <3>3, <4>1
    <3> QED  BY <3>2, <3>3
  <2> HIDE DEF Seen, Silent
  <2> QED  BY <2>1, <2>2, <2>4, <2>5, <2>6, <2>7, <2>8, <2>9
<1> QED  BY <1>2 DEF View, rest, m

(* A socket that takes what it is offered: its daemon learns just that. *)
LEMMA AnnouncedGrows ==
    ASSUME TypeOK, QueueInv, NEW out \in [Peer -> Seq(Message)], NEW k \in Control,
           writer[k] = "running", k \notin Overflowing(out),
           queue'[k] = Offered(out)[k], told'[k] = told[k]
    PROVE  /\ out[k] = <<>> => Announced(k)' = Announced(k)
           /\ \A m \in Message : out[k] = <<m>> => Announced(k)' = Learn(Announced(k), m)
<1> USE SocketTypes
<1>1. queue[k] \in Seq(Message) /\ told[k] \in SUBSET ConnId
      BY DEF TypeOK, PeerTypeOK
<1>2. out[k] = <<>> => queue'[k] = queue[k]
      BY OfferedTo
<1>3. queue'[k] = queue[k] \o out[k]
      BY OfferedTo
<1>4. Announced(k)' = View(told[k], queue'[k])
      BY DEF Announced
<1>5. ASSUME NEW m \in Message, out[k] = <<m>>
      PROVE  Announced(k)' = Learn(Announced(k), m)
      BY <1>1, <1>3, <1>4, <1>5, ViewOfMore DEF Announced
<1> QED  BY <1>2, <1>4, <1>5 DEF Announced

LEMMA LearnNotice ==
    /\ \A ids : Learn(ids, Pong) = ids
    /\ \A ids, new : Learn(ids, Sync(new)) = new
    /\ \A ids, c : Learn(ids, Connected(c)) = ids \cup {c}
    /\ \A ids, c : Learn(ids, Disconnected(c)) = ids \ {c}
BY DEF Learn, Pong, Sync, Connected, Disconnected

(* A new control socket is given the sync. *)
LEMMA NewControlView ==
    ASSUME TypeOK, RoutingInv, QueueInv, NEW r \in Control, RegisterControl(r),
           r \notin dropped'
    PROVE  Announced(r)' = ConnectedIds
<1> USE SocketTypes
<1> DEFINE m == Sync(ConnectedIds)
           old == Replaced(server_control)
           new == To({r}, m)
           out == Both(old, new)
<1>1. phase[r] = "absent" /\ UNCHANGED <<writer, told>>
      BY DEF RegisterControl, Accept
<1>2. m \in Message
      BY MessageTypes, ConnectedIdsType
<1>3. queue[r] = <<>> /\ writer[r] = "running" /\ told[r] = {}
      BY <1>1 DEF QueueInv, Unused
<1>4. r # server_control
      BY <1>1, RoutedArePresent
<1>5. old \in [Peer -> Seq(Message)] /\ new \in [Peer -> Seq(Message)]
      BY <1>2, MessageTypes, ToType DEF Replaced
<1>6. out \in [Peer -> Seq(Message)]
  <2> HIDE DEF old, new
  <2> QED  BY <1>5, BothType
<1>7. out[r] = <<m>>
  <2>1. old[r] = <<>> /\ new[r] = <<m>>
        BY <1>4 DEF Replaced, To
  <2>2. <<m>> \in Seq(Message)
        BY <1>2
  <2> HIDE DEF m, old, new
  <2>3. <<>> \o <<m>> = <<m>>
        BY <2>2, ConcatEmptySeq
  <2> QED  BY <2>1, <2>3 DEF Both
<1>8. queue' = Offered(out) /\ r \notin Overflowing(out)
      BY DEF RegisterControl, Emit
<1>9. Announced(r) = {}
      BY <1>3, ViewOfNothing DEF Announced
<1> HIDE DEF m, out
<1>10. Announced(r)' = Learn(Announced(r), m)
       BY <1>1, <1>2, <1>3, <1>6, <1>7, <1>8, AnnouncedGrows
<1> QED  BY <1>10, LearnNotice DEF m

LEMMA StepControlView ==
    TypeOK /\ RoutingInv /\ QueueInv /\ ControlView /\ [Next]_vars => ControlView'
<1> SUFFICES ASSUME TypeOK, RoutingInv, QueueInv, ControlView, [Next]_vars,
                    NEW k, k = server_control', k # NoPeer,
                    k \notin dropped', ~Closing(k)'
             PROVE  Announced(k)' = ConnectedIds'
    BY DEF ControlView
<1> USE SocketTypes
<1>1. TypeOK' /\ RoutingInv' /\ QueueStep
      BY StepTypeOK, StepRoutingInv, StepQueues
<1>2. k \in Control /\ k \in Peer /\ phase'[k] \in {"open", "ending"}
      BY <1>1 DEF TypeOK, RoutingInv, LiveRouting, Live
<1>3. k \notin dropped /\ ~Closing(k) /\ writer[k] = "running"
      BY <1>1, <1>2, ClosingStays DEF Closing
<1>4. ASSUME server_control = k
      PROVE  Announced(k) = ConnectedIds
      BY <1>3, <1>4 DEF ControlView
<1>5. k \notin Data /\ k \notin Client
      BY <1>2, SessionAssumption
<1>6. ASSUME server_control = k, queue'[k] = queue[k], told'[k] = told[k], UNCHANGED clients
      PROVE  Announced(k)' = ConnectedIds'
      BY <1>4, <1>6 DEF Announced, ConnectedIds
(* An offer that is no news to k. *)
<1>7. ASSUME NEW m \in Message, NEW targets, NEW retried, Emit(To(targets, m), retried),
             k \in targets => m = Pong,
             server_control = k, UNCHANGED <<told, clients>>
      PROVE  Announced(k)' = ConnectedIds'
  <2> DEFINE out == To(targets, m)
  <2>1. out \in [Peer -> Seq(Message)]
        BY ToType
  <2>2. out[k] = <<>> \/ out[k] = <<Pong>>
        BY <1>2, <1>7 DEF To
  <2>3. queue' = Offered(out) /\ k \notin Overflowing(out)
        BY <1>7 DEF Emit
  <2>4. Pong \in Message
        BY MessageTypes
  <2> HIDE DEF out
  <2>5. Announced(k)' = Announced(k) \/ Announced(k)' = Learn(Announced(k), Pong)
        BY <1>2, <1>3, <1>7, <2>1, <2>2, <2>3, <2>4, AnnouncedGrows
  <2> QED  BY <1>4, <1>7, <2>5, LearnNotice DEF ConnectedIds
(* The end of a socket that tells k nothing. *)
<1>8. ASSUME NEW p \in Peer, NEW out \in [Peer -> Seq(Message)], NEW retried,
             Finish(p, out, retried), out[k] = <<>>,
             server_control = k, told'[k] = told[k], ConnectedIds' = ConnectedIds
      PROVE  Announced(k)' = ConnectedIds'
  <2>1. p # k
        BY <1>2, <1>8 DEF Finish, TypeOK, PeerTypeOK
  <2>2. queue'[k] = Offered(out)[k]
        BY <1>2, <1>8, <2>1 DEF Finish, Offered
  <2>3. queue'[k] = queue[k]
        BY <1>2, <1>8, <2>2, OfferedTo
  <2> QED  BY <1>4, <1>8, <2>3 DEF Announced
<1>9. ASSUME NEW p \in Peer, RegisterRefused(p)
      PROVE  Announced(k)' = ConnectedIds'
      BY <1>6, <1>9 DEF RegisterRefused, Refuse, routing
<1>10. ASSUME NEW p \in Peer, SocketPing(p)
       PROVE  Announced(k)' = ConnectedIds'
  <2>1. /\ Emit(To({SlotHolder(p)}, Pong), Peer)
        /\ UNCHANGED <<told, clients>> /\ server_control = k
        BY <1>10 DEF SocketPing, routing
  <2>2. Pong \in Message
        BY MessageTypes
  <2> QED  BY <1>7, <2>1, <2>2
<1>11. ASSUME NEW p \in Peer, Write(p)
       PROVE  Announced(k)' = ConnectedIds'
  <2>1. server_control = k /\ UNCHANGED clients
        BY <1>11 DEF Write, routing
  <2>2. CASE p # k
    <3>1. queue'[k] = queue[k] /\ told'[k] = told[k]
          BY <1>2, <1>11, <2>2 DEF Write, WriterSend, TypeOK, PeerTypeOK
    <3> QED  BY <1>6, <2>1, <3>1
  <2>3. CASE p = k
    <3>1. /\ queue[k] \in Seq(Message) /\ queue[k] # <<>> /\ told[k] \in SUBSET ConnId
          /\ queue'[k] = Tail(queue[k])
          /\ told'[k] = Learn(told[k], Head(queue[k]))
          BY <1>2, <1>11, <2>3 DEF Write, WriterSend, TypeOK, PeerTypeOK
    <3>2. Announced(k)' = Announced(k)
          BY <3>1, ViewOfRest DEF Announced
    <3> QED  BY <1>4, <2>1, <3>2 DEF ConnectedIds
  <2> QED  BY <2>2, <2>3
<1>12. ASSUME NEW p \in Peer, SlowStep(p)
       PROVE  Announced(k)' = ConnectedIds'
  <2> DEFINE out == To({p}, Close(1013))
  <2>1. p # k
        BY <1>3, <1>12 DEF SlowStep, CloseSlow, QueueInv
  <2>2. out \in [Peer -> Seq(Message)] /\ out[k] = <<>>
        BY <1>2, <2>1, MessageTypes, ToType, Unaddressed
  <2>3. queue' = Offered(out) /\ UNCHANGED <<told, clients>> /\ server_control = k
        BY <1>12 DEF SlowStep, CloseSlow, routing
  <2> HIDE DEF out
  <2>4. queue'[k] = queue[k]
        BY <1>2, <2>2, <2>3, OfferedTo
  <2> QED  BY <1>6, <2>3, <2>4
<1>13. ASSUME NEW p \in Peer, SocketStep(p)
       PROVE  Announced(k)' = ConnectedIds'
  <2>1. server_control = k /\ UNCHANGED <<told, clients>>
        BY <1>13 DEF SocketStep, routing
  <2>2. CASE WriterFail(p)
    <3>1. p # k
          BY <1>2, <2>2 DEF WriterFail, Closing, TypeOK, PeerTypeOK
    <3>2. queue'[k] = queue[k]
          BY <1>2, <2>2, <3>1 DEF WriterFail, TypeOK, PeerTypeOK
    <3> QED  BY <1>6, <2>1, <3>2
  <2>3. CASE EndRemote(p)
        BY <1>6, <2>1, <2>3 DEF EndRemote
  <2>4. ASSUME NEW code \in LimitCode, EndLimit(p, code)
        PROVE  Announced(k)' = ConnectedIds'
    <3>1. Close(code) \in Message /\ IsClose(Close(code))
          BY PeerAssumption, MessageTypes DEF CloseCode, Close, IsClose
    <3>2. Emit(To({p}, Close(code)), {}) /\ UNCHANGED writer
          BY <2>4 DEF EndLimit
    <3>3. p # k
      <4> SUFFICES ASSUME p = k PROVE FALSE
          OBVIOUS
      <4> DEFINE out == To({p}, Close(code))
      <4>1. out \in [Peer -> Seq(Message)]
            BY <3>1, ToType
      <4>2. 1 \in DOMAIN out[k] /\ out[k][1] = Close(code)
            BY <1>2 DEF To
      <4>3. queue'[k] = Offered(out)[k] /\ dropped' = dropped \cup Overflowing(out)
            BY <3>2 DEF Emit
      <4> HIDE DEF out
      <4> QED  BY <1>2, <3>1, <3>2, <4>1, <4>2, <4>3, ToldToClose
    <3> QED  BY <1>7, <2>1, <3>1, <3>2, <3>3
  <2> QED  BY <1>13, <2>2, <2>3, <2>4 DEF SocketStep
<1>14. ASSUME NEW r \in Control, RegisterControl(r)
       PROVE  Announced(k)' = ConnectedIds'
  <2>1. k = r /\ ConnectedIds' = ConnectedIds
        BY <1>14 DEF RegisterControl, ConnectedIds
  <2> QED  BY <1>14, <2>1, NewControlView
<1>15. ASSUME NEW p \in Control, ControlPing(p)
       PROVE  Announced(k)' = ConnectedIds'
  <2>1. Emit(To({p}, Pong), Peer) /\ UNCHANGED <<told, clients>> /\ server_control = k
        BY <1>15 DEF ControlPing, routing
  <2>2. Pong \in Message
        BY MessageTypes
  <2> QED  BY <1>7, <2>1, <2>2
<1>16. ASSUME NEW p \in Control, UnregisterControl(p)
       PROVE  Announced(k)' = ConnectedIds'
  <2>1. server_control = k /\ p # k
        BY <1>16 DEF UnregisterControl, Vacated
  <2>2. Silence \in [Peer -> Seq(Message)] /\ Silence[k] = <<>>
        BY <1>2, EmptySeq DEF Silence
  <2>3. Finish(p, Silence, {}) /\ told'[k] = told[k] /\ ConnectedIds' = ConnectedIds
        BY <1>2, <1>16, <2>1 DEF UnregisterControl, ConnectedIds, TypeOK
  <2> QED  BY <1>8, <2>1, <2>2, <2>3
<1>17. ASSUME NEW p \in Data, RegisterServerData(p)
       PROVE  Announced(k)' = ConnectedIds'
  <2> DEFINE c == ConnOf[p]
             old == Replaced(server_data[c])
             new == Batch(p, pending[c])
             out == Both(old, new)
  <2>1. old \in [Peer -> Seq(Message)]
        BY MessageTypes, ToType DEF Replaced
  <2>2. new \in [Peer -> Seq(Message)]
        BY PendingAreMessages, EmptySeq DEF Batch
  <2>3. old[k] = <<>> /\ new[k] = <<>>
        BY <1>2, <1>5, Unaddressed DEF Replaced, TypeOK
  <2>4. queue' = Offered(out) /\ UNCHANGED <<told, clients>> /\ server_control = k
        BY <1>17 DEF RegisterServerData, Emit
  <2> HIDE DEF old, new
  <2>5. out \in [Peer -> Seq(Message)] /\ out[k] = <<>>
    <3>1. out \in [Peer -> Seq(Message)]
          BY <2>1, <2>2, BothType
    <3>2. out[k] = <<>>
          BY <1>2, <2>3, Unaddressed, Zenon
    <3> QED  BY <3>1, <3>2
  <2> HIDE DEF out
  <2>6. queue'[k] = queue[k]
        BY <1>2, <2>4, <2>5, OfferedTo
  <2> QED  BY <1>6, <2>4, <2>6
<1>18. ASSUME NEW p \in Data, ServerDataFrame(p)
       PROVE  Announced(k)' = ConnectedIds'
  <2> DEFINE m == Frame(p, sent[p] + 1)
             targets == clients[ConnOf[p]]
  <2>1. m \in Message
        BY <1>18, FrameType DEF ServerDataFrame
  <2>2. k \notin targets
        BY <1>5 DEF TypeOK
  <2>3. /\ Emit(To(targets, m), Peer)
        /\ UNCHANGED <<told, clients>> /\ server_control = k
        BY <1>18 DEF ServerDataFrame, routing
  <2> HIDE DEF m, targets
  <2> QED  BY <1>7, <2>1, <2>2, <2>3
<1>19. ASSUME NEW p \in Data, UnregisterServerData(p)
       PROVE  Announced(k)' = ConnectedIds'
  <2> DEFINE out == To(clients[ConnOf[p]], Close(1012))
  <2>1. k \notin clients[ConnOf[p]]
        BY <1>5 DEF TypeOK
  <2>2. out \in [Peer -> Seq(Message)] /\ out[k] = <<>>
        BY <1>2, <2>1, MessageTypes, ToType, Unaddressed
  <2>3. /\ Finish(p, out, {}) /\ UNCHANGED told /\ server_control = k
        /\ ConnectedIds' = ConnectedIds
        BY <1>19 DEF UnregisterServerData, ConnectedIds
  <2> HIDE DEF out
  <2> QED  BY <1>8, <2>2, <2>3
<1>20. ASSUME NEW p \in Client, RegisterClient(p)
       PROVE  Announced(k)' = ConnectedIds'
  <2> DEFINE c == ConnOf[p]
             m == Connected(c)
             out == ToControl(m)
  <2>1. m \in Message
        BY MessageTypes
  <2>2. out \in [Peer -> Seq(Message)]
        BY <2>1, ToType DEF ToControl
  <2>3. /\ queue' = Offered(out) /\ k \notin Overflowing(out)
        /\ UNCHANGED told /\ server_control = k
        BY <1>20 DEF RegisterClient, Emit
  <2>4. out[k] = <<m>>
        BY <1>2, <2>3 DEF ToControl, To
  <2>5. ConnectedIds' = ConnectedIds \cup {c}
    <3>1. c \in ConnId /\ clients' = [clients EXCEPT ![c] = @ \cup {p}]
          BY <1>20 DEF RegisterClient
    <3>2. /\ clients'[c] # {}
          /\ \A b \in ConnId : b # c => clients'[b] = clients[b]
          BY <3>1 DEF TypeOK
    <3> HIDE DEF c
    <3> QED  BY <3>1, <3>2 DEF ConnectedIds
  <2> HIDE DEF m, out
  <2>6. Announced(k)' = Learn(Announced(k), m)
        BY <1>2, <1>3, <2>1, <2>2, <2>3, <2>4, AnnouncedGrows
  <2> QED  BY <1>4, <2>3, <2>5, <2>6, LearnNotice DEF m
<1>21. ASSUME NEW p \in Client, ForwardClientFrame(p)
       PROVE  Announced(k)' = ConnectedIds'
  <2> DEFINE m == Frame(p, sent[p] + 1)
             d == server_data[ConnOf[p]]
  <2>1. m \in Message
        BY <1>21, FrameType DEF ForwardClientFrame
  <2>2. k \notin {d}
        BY <1>5, <1>21 DEF ForwardClientFrame, TypeOK
  <2>3. /\ Emit(To({d}, m), Peer)
        /\ UNCHANGED <<told, clients>> /\ server_control = k
        BY <1>21 DEF ForwardClientFrame, routing
  <2> HIDE DEF m, d
  <2> QED  BY <1>7, <2>1, <2>2, <2>3
<1>22. ASSUME NEW p \in Client, BufferClientFrame(p)
       PROVE  Announced(k)' = ConnectedIds'
       BY <1>6, <1>22 DEF BufferClientFrame, peerVars
<1>23. ASSUME NEW p \in Client, UnregisterClient(p)
       PROVE  Announced(k)' = ConnectedIds'
  <2>1. Silence \in [Peer -> Seq(Message)] /\ Silence[k] = <<>>
        BY <1>2, EmptySeq DEF Silence
  <2>2. Finish(p, Silence, {}) /\ UNCHANGED told /\ server_control = k
        BY <1>23 DEF UnregisterClient
  <2>3. p \in clients[ConnOf[p]] /\ clients[ConnOf[p]] # {p}
        BY <1>23 DEF UnregisterClient, Finish, RoutingInv, LiveRouting, Live
  <2>4. \A c \in ConnId : clients'[c] = {} <=> clients[c] = {}
        BY <1>23, <2>3 DEF UnregisterClient, TypeOK
  <2>5. ConnectedIds' = ConnectedIds
        BY <2>4 DEF ConnectedIds
  <2> QED  BY <1>8, <2>1, <2>2, <2>5
<1>24. ASSUME NEW p \in Client, UnregisterLastClient(p)
       PROVE  Announced(k)' = ConnectedIds'
  <2> DEFINE c == ConnOf[p]
             m == Disconnected(c)
             toData == To({server_data[c]}, Close(1001))
             toControl == ToControl(m)
             out == Both(toData, toControl)
             others == Peer \ {server_data[c]}
  <2>1. m \in Message
        BY MessageTypes
  <2>2. toData \in [Peer -> Seq(Message)] /\ toControl \in [Peer -> Seq(Message)]
        BY <2>1, MessageTypes, ToType DEF ToControl
  <2>3. /\ Finish(p, out, others) /\ UNCHANGED told /\ server_control = k /\ p # k
        BY <1>5, <1>24 DEF UnregisterLastClient
  <2>4. toData[k] = <<>> /\ toControl[k] = <<m>>
        BY <1>2, <1>5, <2>3 DEF ToControl, To, TypeOK
  <2>5. ConnectedIds' = ConnectedIds \ {c}
        BY <1>24 DEF UnregisterLastClient, ConnectedIds, TypeOK
  <2> HIDE DEF m, toData, toControl, others
  <2>6. <<>> \o <<m>> = <<m>>
    <3>1. <<m>> \in Seq(Message)
          BY <2>1
    <3> QED  BY <3>1, ConcatEmptySeq
  <2>7. out \in [Peer -> Seq(Message)] /\ out[k] = <<m>>
        BY <1>2, <2>2, <2>4, <2>6, BothType DEF Both
  <2> HIDE DEF out
  <2>8. queue'[k] = Offered(out)[k] /\ k \notin Overflowing(out)
        BY <1>2, <2>3 DEF Finish, Offered
  <2>9. Announced(k)' = Learn(Announced(k), m)
        BY <1>2, <1>3, <2>1, <2>3, <2>7, <2>8, AnnouncedGrows
  <2> QED  BY <1>4, <2>3, <2>5, <2>9, LearnNotice DEF m
<1>25. ASSUME NEW x \in Client, NudgeHasClient(x) \/ NudgeHasServerData(x)
       PROVE  Announced(k)' = ConnectedIds'
       BY <1>6, <1>25 DEF NudgeHasClient, NudgeHasServerData, peerVars, routing
<1>26. ASSUME NEW x \in Client, NudgeSync(x)
       PROVE  Announced(k)' = ConnectedIds'
  <2> DEFINE m == Sync(ConnectedIds)
             out == ToControl(m)
  <2>1. m \in Message
        BY MessageTypes, ConnectedIdsType
  <2>2. out \in [Peer -> Seq(Message)]
        BY <2>1, ToType DEF ToControl
  <2>3. /\ queue' = Offered(out) /\ k \notin Overflowing(out)
        /\ UNCHANGED told /\ server_control = k /\ ConnectedIds' = ConnectedIds
        BY <1>26 DEF NudgeSync, Emit, routing, ConnectedIds
  <2>4. out[k] = <<m>>
        BY <1>2, <2>3 DEF ToControl, To
  <2> HIDE DEF m, out
  <2>5. Announced(k)' = Learn(Announced(k), m)
        BY <1>2, <1>3, <2>1, <2>2, <2>3, <2>4, AnnouncedGrows
  <2> QED  BY <2>3, <2>5, LearnNotice DEF m
<1>27. ASSUME NEW x \in Client, NudgeReset(x)
       PROVE  FALSE
  <2> DEFINE out == ToControl(Close(1011))
  <2>1. Close(1011) \in Message /\ IsClose(Close(1011))
        BY MessageTypes DEF Close, IsClose
  <2>2. out \in [Peer -> Seq(Message)]
        BY <2>1, ToType DEF ToControl
  <2>3. /\ queue' = Offered(out) /\ dropped' = dropped \cup Overflowing(out)
        /\ UNCHANGED writer /\ server_control = k
        BY <1>27 DEF NudgeReset, Emit, routing
  <2>4. 1 \in DOMAIN out[k] /\ out[k][1] = Close(1011)
        BY <1>2, <2>3 DEF ToControl, To
  <2> HIDE DEF out
  <2>5. /\ 1 \in DOMAIN out[k] /\ IsClose(out[k][1])
        /\ queue'[k] = Offered(out)[k] /\ writer'[k] = writer[k]
        /\ k \in Overflowing(out) => k \in dropped'
        BY <2>1, <2>3, <2>4
  <2>6. Closing(k)' \/ k \in dropped'
        BY <1>2, <2>2, <2>5, ToldToClose
  <2> QED  BY <2>3, <2>6
<1>28. CASE UNCHANGED vars
       BY <1>6, <1>28 DEF vars, peerVars, routing
<1> QED
    BY <1>9, <1>10, <1>11, <1>12, <1>13, <1>14, <1>15, <1>16, <1>17, <1>18, <1>19,
       <1>20, <1>21, <1>22, <1>23, <1>24, <1>25, <1>26, <1>27, <1>28
    DEF Next, NudgeStep, Finished

(* The daemon that has read all that is queued for the current control       *)
(* socket knows exactly the connection ids that have clients, as long as     *)
(* that socket lost nothing and is not being closed (ControlView).           *)
THEOREM ControlViewIsExact == Spec => []ControlView
<1>1. Init => ControlView
      BY DEF Init, ControlView
<1> QED  BY <1>1, QueueInvariant, StepControlView, PTL DEF Spec
=============================================================================
