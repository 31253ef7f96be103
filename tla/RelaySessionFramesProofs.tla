----------------------- MODULE RelaySessionFramesProofs -----------------------
(* What the session guarantees of the frames it relays: they stay within     *)
(* their connection id and go from one side to the other, and they keep      *)
(* their order, through the pending buffer and across hand-overs.            *)
EXTENDS RelaySessionQueueProofs

(* The messages that may wait for each socket, and the frames that may wait  *)
(* in each pending buffer.                                                   *)
OtherSide(s, p) ==
    /\ (p \in Data /\ s \in Client) \/ (p \in Client /\ s \in Data)
    /\ ConnOf[s] = ConnOf[p]

Permitted == [p \in Peer |-> {m \in Message : IsFrame(m) => OtherSide(m.from, p)}]

ClientFrames ==
    [c \in ConnId |-> {m \in [type : {"Frame"}, from : Client, n : Nat] : ConnOf[m.from] = c}]

IsolationInv ==
    /\ \A p \in Peer : queue[p] \in Seq(Permitted[p])
    /\ \A c \in ConnId : pending[c] \in Seq(ClientFrames[c])

LEMMA PermittedNotices ==
    ASSUME NEW p \in Peer
    PROVE  /\ Pong \in Permitted[p]
           /\ Close(1001) \in Permitted[p] /\ Close(1008) \in Permitted[p]
           /\ Close(1009) \in Permitted[p] /\ Close(1011) \in Permitted[p]
           /\ Close(1012) \in Permitted[p] /\ Close(1013) \in Permitted[p]
           /\ \A ids \in SUBSET ConnId : Sync(ids) \in Permitted[p]
           /\ \A c \in ConnId : Connected(c) \in Permitted[p] /\ Disconnected(c) \in Permitted[p]
BY MessageTypes DEF Permitted, IsFrame, Message, PeerMessage, CloseCode, Close, Pong,
                    Sync, Connected, Disconnected

LEMMA PermittedFrames ==
    ASSUME NEW p \in Peer, NEW s \in Data \cup Client, NEW n \in Nat, OtherSide(s, p)
    PROVE  Frame(s, n) \in Permitted[p]
BY MessageTypes, SocketTypes DEF Permitted, IsFrame, Frame

LEMMA FlushedArePermitted ==
    ASSUME NEW p \in Data
    PROVE  Seq(ClientFrames[ConnOf[p]]) \subseteq Seq(Permitted[p])
<1>1. ClientFrames[ConnOf[p]] \subseteq Permitted[p]
  <2> SUFFICES ASSUME NEW m \in ClientFrames[ConnOf[p]] PROVE m \in Permitted[p]
      OBVIOUS
  <2>1. m \in [type : {"Frame"}, from : Client, n : Nat] /\ ConnOf[m.from] = ConnOf[p]
        BY SocketTypes DEF ClientFrames
  <2>2. m \in Message
        BY <2>1, SocketTypes DEF Message, PeerMessage
  <2> QED  BY <2>1, <2>2, SocketTypes DEF Permitted, OtherSide
<1> QED  BY <1>1

LEMMA InitIsolationInv == Init => IsolationInv
<1> SUFFICES ASSUME Init PROVE IsolationInv
    OBVIOUS
<1> QED  BY EmptySeq DEF Init, PeerInit, IsolationInv

(* A step that offers permitted messages by Emit, Finish or CloseSlow. *)
LEMMA OfferKeepsQueues ==
    ASSUME IsolationInv, NEW out, \A p \in Peer : out[p] \in Seq(Permitted[p])
    PROVE  \A p \in Peer : Offered(out)[p] \in Seq(Permitted[p])
<1>1. \A p \in Peer : queue[p] \in Seq(Permitted[p])
      BY DEF IsolationInv
<1> QED  BY <1>1, OfferedRespects

LEMMA PermittedTo ==
    ASSUME NEW targets, NEW m, \A p \in Peer : p \in targets => m \in Permitted[p]
    PROVE  \A p \in Peer : To(targets, m)[p] \in Seq(Permitted[p])
BY OffersRespect

LEMMA PermittedBoth ==
    ASSUME NEW f, \A p \in Peer : f[p] \in Seq(Permitted[p]),
           NEW g, \A p \in Peer : g[p] \in Seq(Permitted[p])
    PROVE  \A p \in Peer : Both(f, g)[p] \in Seq(Permitted[p])
BY OffersRespect

LEMMA FinishKeepsQueues ==
    ASSUME IsolationInv, NEW out, \A q \in Peer : out[q] \in Seq(Permitted[q]),
           NEW retried, NEW p \in Peer, Finish(p, out, retried)
    PROVE  \A q \in Peer : queue'[q] \in Seq(Permitted[q])
<1>1. \A q \in Peer : Offered(out)[q] \in Seq(Permitted[q])
      BY OfferKeepsQueues
<1>2. \A q \in Peer : queue'[q] = IF q = p THEN <<>> ELSE Offered(out)[q]
      BY DEF Finish, Offered
<1> QED  BY <1>1, <1>2, EmptySeq

(* Steps of a socket's own tasks. *)
LEMMA SocketKeepsQueues ==
    ASSUME TypeOK, IsolationInv, NEW p \in Peer,
           WriterSend(p) \/ WriterFail(p) \/ CloseSlow(p) \/ EndRemote(p)
               \/ (\E code \in LimitCode : EndLimit(p, code))
    PROVE  \A q \in Peer : queue'[q] \in Seq(Permitted[q])
<1>1. CASE WriterSend(p)
  <2>1. Tail(queue[p]) \in Seq(Permitted[p])
        BY <1>1, HeadTailProperties DEF WriterSend, IsolationInv
  <2> QED  BY <1>1, <2>1 DEF WriterSend, IsolationInv, TypeOK, PeerTypeOK
<1>2. CASE WriterFail(p)
      BY <1>2, EmptySeq DEF WriterFail, IsolationInv, TypeOK, PeerTypeOK
<1>3. CASE CloseSlow(p)
  <2> DEFINE out == To({p}, Close(1013))
  <2>1. \A q \in Peer : Close(1013) \in Permitted[q]
        BY PermittedNotices
  <2>2. \A q \in Peer : out[q] \in Seq(Permitted[q])
        BY <2>1, PermittedTo
  <2>3. queue' = Offered(out)
        BY <1>3 DEF CloseSlow
  <2> HIDE DEF out
  <2> QED  BY <2>2, <2>3, OfferKeepsQueues
<1>4. CASE EndRemote(p)
      BY <1>4 DEF EndRemote, IsolationInv
<1>5. ASSUME NEW code \in LimitCode, EndLimit(p, code)
      PROVE  \A q \in Peer : queue'[q] \in Seq(Permitted[q])
  <2>1. \A q \in Peer : Close(code) \in Permitted[q]
        BY PermittedNotices, PeerAssumption
  <2>2. \A q \in Peer : To({p}, Close(code))[q] \in Seq(Permitted[q])
        BY <2>1, PermittedTo
  <2>3. queue' = Offered(To({p}, Close(code)))
        BY <1>5 DEF EndLimit, Emit
  <2> QED  BY <2>2, <2>3, OfferKeepsQueues
<1> QED  BY <1>1, <1>2, <1>3, <1>4, <1>5

LEMMA StepIsolationInv == TypeOK /\ IsolationInv /\ [Next]_vars => IsolationInv'
<1> SUFFICES ASSUME TypeOK, IsolationInv, [Next]_vars PROVE IsolationInv'
    OBVIOUS
<1> USE SocketTypes
<1>1. ASSUME NEW p \in Peer, RegisterRefused(p)
      PROVE  IsolationInv'
      BY <1>1 DEF RegisterRefused, Refuse, routing, IsolationInv
<1>2. ASSUME NEW p \in Peer, SocketPing(p)
      PROVE  IsolationInv'
  <2>1. \A q \in Peer : To({SlotHolder(p)}, Pong)[q] \in Seq(Permitted[q])
        BY PermittedNotices, PermittedTo
  <2>2. queue' = Offered(To({SlotHolder(p)}, Pong)) /\ UNCHANGED pending
        BY <1>2 DEF SocketPing, Emit, routing
  <2> QED  BY <2>1, <2>2, OfferKeepsQueues DEF IsolationInv
<1>3. ASSUME NEW p \in Peer, Write(p) \/ SlowStep(p) \/ SocketStep(p)
      PROVE  IsolationInv'
  <2>1. \A q \in Peer : queue'[q] \in Seq(Permitted[q])
        BY <1>3, SocketKeepsQueues DEF Write, SlowStep, SocketStep
  <2>2. UNCHANGED pending
        BY <1>3 DEF Write, SlowStep, SocketStep, routing
  <2> QED  BY <2>1, <2>2 DEF IsolationInv
<1>4. ASSUME NEW p \in Control, RegisterControl(p)
      PROVE  IsolationInv'
  <2> DEFINE old == Replaced(server_control)
             new == To({p}, Sync(ConnectedIds))
  <2>1. \A q \in Peer : Close(1008) \in Permitted[q] /\ Sync(ConnectedIds) \in Permitted[q]
        BY PermittedNotices, ConnectedIdsType
  <2>2. \A q \in Peer : old[q] \in Seq(Permitted[q])
        BY <2>1, PermittedTo DEF Replaced
  <2>3. \A q \in Peer : new[q] \in Seq(Permitted[q])
        BY <2>1, PermittedTo
  <2>4. queue' = Offered(Both(old, new)) /\ UNCHANGED pending
        BY <1>4 DEF RegisterControl, Emit
  <2> HIDE DEF old, new
  <2>5. \A q \in Peer : Both(old, new)[q] \in Seq(Permitted[q])
        BY <2>2, <2>3, PermittedBoth
  <2> QED  BY <2>4, <2>5, OfferKeepsQueues DEF IsolationInv
<1>5. ASSUME NEW p \in Data, RegisterServerData(p)
      PROVE  IsolationInv'
  <2> DEFINE c == ConnOf[p]
             old == Replaced(server_data[c])
             new == Batch(p, pending[c])
  <2>1. \A q \in Peer : Close(1008) \in Permitted[q]
        BY PermittedNotices
  <2>2. \A q \in Peer : old[q] \in Seq(Permitted[q])
        BY <2>1, PermittedTo DEF Replaced
  <2>3. pending[c] \in Seq(Permitted[p])
        BY FlushedArePermitted DEF IsolationInv
  <2>4. \A q \in Peer : new[q] \in Seq(Permitted[q])
        BY <2>3, OffersRespect
  <2>5. queue' = Offered(Both(old, new))
        BY <1>5 DEF RegisterServerData, Emit
  <2>6. \A b \in ConnId : pending'[b] \in Seq(ClientFrames[b])
        BY <1>5, EmptySeq DEF RegisterServerData, IsolationInv, TypeOK
  <2> HIDE DEF old, new
  <2>7. \A q \in Peer : Both(old, new)[q] \in Seq(Permitted[q])
        BY <2>2, <2>4, PermittedBoth
  <2> QED  BY <2>5, <2>6, <2>7, OfferKeepsQueues DEF IsolationInv
<1>6. ASSUME NEW p \in Client, RegisterClient(p)
      PROVE  IsolationInv'
  <2>1. \A q \in Peer : ToControl(Connected(ConnOf[p]))[q] \in Seq(Permitted[q])
        BY PermittedNotices, PermittedTo DEF ToControl
  <2>2. queue' = Offered(ToControl(Connected(ConnOf[p]))) /\ UNCHANGED pending
        BY <1>6 DEF RegisterClient, Emit
  <2> QED  BY <2>1, <2>2, OfferKeepsQueues DEF IsolationInv
<1>7. ASSUME NEW p \in Control, ControlPing(p)
      PROVE  IsolationInv'
  <2>1. \A q \in Peer : To({p}, Pong)[q] \in Seq(Permitted[q])
        BY PermittedNotices, PermittedTo
  <2>2. queue' = Offered(To({p}, Pong)) /\ UNCHANGED pending
        BY <1>7 DEF ControlPing, Emit, routing
  <2> QED  BY <2>1, <2>2, OfferKeepsQueues DEF IsolationInv
<1>8. ASSUME NEW p \in Data, ServerDataFrame(p)
      PROVE  IsolationInv'
  <2> DEFINE f == Frame(p, sent[p] + 1)
  <2>1. sent[p] + 1 \in Nat
        BY DEF TypeOK
  <2>2. \A q \in Peer : q \in clients[ConnOf[p]] => OtherSide(p, q)
        BY DEF TypeOK, OtherSide
  <2>3. \A q \in Peer : q \in clients[ConnOf[p]] => f \in Permitted[q]
        BY <2>1, <2>2, PermittedFrames
  <2>4. \A q \in Peer : To(clients[ConnOf[p]], f)[q] \in Seq(Permitted[q])
        BY <2>3, PermittedTo
  <2>5. queue' = Offered(To(clients[ConnOf[p]], f)) /\ UNCHANGED pending
        BY <1>8 DEF ServerDataFrame, Emit, routing
  <2> QED  BY <2>4, <2>5, OfferKeepsQueues DEF IsolationInv
<1>9. ASSUME NEW p \in Client, ForwardClientFrame(p)
      PROVE  IsolationInv'
  <2> DEFINE f == Frame(p, sent[p] + 1)
             d == server_data[ConnOf[p]]
  <2>1. sent[p] + 1 \in Nat
        BY DEF TypeOK
  <2>2. d \in Data /\ OtherSide(p, d)
        BY <1>9 DEF ForwardClientFrame, TypeOK, OtherSide
  <2>3. \A q \in Peer : q \in {d} => f \in Permitted[q]
        BY <2>1, <2>2, PermittedFrames
  <2>4. \A q \in Peer : To({d}, f)[q] \in Seq(Permitted[q])
        BY <2>3, PermittedTo
  <2>5. queue' = Offered(To({d}, f)) /\ UNCHANGED pending
        BY <1>9 DEF ForwardClientFrame, Emit, routing
  <2> QED  BY <2>4, <2>5, OfferKeepsQueues DEF IsolationInv
<1>10. ASSUME NEW p \in Client, BufferClientFrame(p)
       PROVE  IsolationInv'
  <2> DEFINE c == ConnOf[p]
             f == Frame(p, sent[p] + 1)
  <2>1. f \in ClientFrames[c]
        BY <1>10, FrameType DEF BufferClientFrame, ClientFrames, Frame
  <2>2. Buffered(pending[c], f) \in Seq(ClientFrames[c])
        BY <2>1, BufferedType DEF IsolationInv
  <2>3. \A b \in ConnId : pending'[b] \in Seq(ClientFrames[b])
        BY <1>10, <2>2 DEF BufferClientFrame, IsolationInv, TypeOK
  <2>4. UNCHANGED queue
        BY <1>10 DEF BufferClientFrame, peerVars
  <2> QED  BY <2>3, <2>4 DEF IsolationInv
<1>11. ASSUME NEW p \in Peer,
              \/ p \in Control /\ UnregisterControl(p)
              \/ p \in Client /\ UnregisterClient(p)
       PROVE  IsolationInv'
  <2>1. \A q \in Peer : Silence[q] \in Seq(Permitted[q])
        BY OffersRespect
  <2>2. Finish(p, Silence, {}) /\ UNCHANGED pending
        BY <1>11 DEF UnregisterControl, UnregisterClient
  <2> QED  BY <2>1, <2>2, FinishKeepsQueues DEF IsolationInv
<1>12. ASSUME NEW p \in Data, UnregisterServerData(p)
       PROVE  IsolationInv'
  <2>1. \A q \in Peer : Close(1012) \in Permitted[q]
        BY PermittedNotices
  <2>2. \A q \in Peer : To(clients[ConnOf[p]], Close(1012))[q] \in Seq(Permitted[q])
        BY <2>1, PermittedTo
  <2>3. Finish(p, To(clients[ConnOf[p]], Close(1012)), {}) /\ UNCHANGED pending
        BY <1>12 DEF UnregisterServerData
  <2> QED  BY <2>2, <2>3, FinishKeepsQueues DEF IsolationInv
<1>13. ASSUME NEW p \in Client, UnregisterLastClient(p)
       PROVE  IsolationInv'
  <2> DEFINE c == ConnOf[p]
             toData == To({server_data[c]}, Close(1001))
             toControl == ToControl(Disconnected(c))
  <2>1. \A q \in Peer : Close(1001) \in Permitted[q] /\ Disconnected(c) \in Permitted[q]
        BY PermittedNotices
  <2>2. \A q \in Peer : toData[q] \in Seq(Permitted[q])
        BY <2>1, PermittedTo
  <2>3. \A q \in Peer : toControl[q] \in Seq(Permitted[q])
        BY <2>1, PermittedTo DEF ToControl
  <2>4. Finish(p, Both(toData, toControl), Peer \ {server_data[c]})
        BY <1>13 DEF UnregisterLastClient
  <2>5. \A b \in ConnId : pending'[b] \in Seq(ClientFrames[b])
        BY <1>13, EmptySeq DEF UnregisterLastClient, IsolationInv, TypeOK
  <2> HIDE DEF toData, toControl
  <2>6. \A q \in Peer : Both(toData, toControl)[q] \in Seq(Permitted[q])
        BY <2>2, <2>3, PermittedBoth
  <2>7. \A q \in Peer : queue'[q] \in Seq(Permitted[q])
        BY <2>4, <2>6, FinishKeepsQueues
  <2> QED  BY <2>5, <2>7 DEF IsolationInv
<1>14. ASSUME NEW x \in Client, NudgeHasClient(x) \/ NudgeHasServerData(x)
       PROVE  IsolationInv'
       BY <1>14 DEF NudgeHasClient, NudgeHasServerData, peerVars, routing, IsolationInv
<1>15. ASSUME NEW x \in Client, NudgeSync(x)
       PROVE  IsolationInv'
  <2>1. \A q \in Peer : ToControl(Sync(ConnectedIds))[q] \in Seq(Permitted[q])
        BY PermittedNotices, ConnectedIdsType, PermittedTo DEF ToControl
  <2>2. queue' = Offered(ToControl(Sync(ConnectedIds))) /\ UNCHANGED pending
        BY <1>15 DEF NudgeSync, Emit, routing
  <2> QED  BY <2>1, <2>2, OfferKeepsQueues DEF IsolationInv
<1>16. ASSUME NEW x \in Client, NudgeReset(x)
       PROVE  IsolationInv'
  <2>1. \A q \in Peer : Close(1011) \in Permitted[q]
        BY PermittedNotices
  <2>2. \A q \in Peer : ToControl(Close(1011))[q] \in Seq(Permitted[q])
        BY <2>1, PermittedTo DEF ToControl
  <2>3. queue' = Offered(ToControl(Close(1011))) /\ UNCHANGED pending
        BY <1>16 DEF NudgeReset, Emit, routing
  <2> QED  BY <2>2, <2>3, OfferKeepsQueues DEF IsolationInv
<1>17. CASE UNCHANGED vars
       BY <1>17 DEF vars, peerVars, routing, IsolationInv
<1> QED
    BY <1>1, <1>2, <1>3, <1>4, <1>5, <1>6, <1>7, <1>8, <1>9, <1>10, <1>11, <1>12,
       <1>13, <1>14, <1>15, <1>16, <1>17
    DEF Next, NudgeStep, Finished

(* No frame reaches a socket of another connection id, a socket of its      *)
(* sender's own side, or a control socket (FramesIsolated).                 *)
THEOREM FramesAreIsolated == Spec => []FramesIsolated
<1>1. Init => TypeOK /\ IsolationInv
      BY InitTypeOK, InitIsolationInv
<1>2. TypeOK /\ IsolationInv /\ [Next]_vars => (TypeOK /\ IsolationInv)'
      BY StepTypeOK, StepIsolationInv
<1>3. TypeOK /\ IsolationInv => FramesIsolated
  <2> SUFFICES ASSUME IsolationInv, NEW p \in Peer, NEW i \in DOMAIN queue[p],
                      IsFrame(queue[p][i])
               PROVE  OtherSide(queue[p][i].from, p)
      BY DEF FramesIsolated, OtherSide
  <2>1. i \in 1 .. Len(queue[p])
        BY LenProperties DEF IsolationInv
  <2>2. queue[p][i] \in Permitted[p]
        BY <2>1, ElementOfSeq DEF IsolationInv
  <2> QED  BY <2>2 DEF Permitted
<1> QED  BY <1>1, <1>2, <1>3, PTL DEF Spec

-----------------------------------------------------------------------------
(* Runs of a sender's frames in a queue.                                     *)
LEMMA FramesOfNobody ==
    ASSUME NEW q, NEW s, \A i \in DOMAIN q : ~FrameOf(q[i], s)
    PROVE  Consecutive(q, s) /\ \A n : EndsWith(q, s, n)
BY DEF Consecutive, EndsWith

LEMMA NothingQueued == \A s, n : Consecutive(<<>>, s) /\ EndsWith(<<>>, s, n)
<1>1. \A i \in DOMAIN <<>> : FALSE
      BY EmptySeq
<1> QED  BY <1>1, FramesOfNobody

LEMMA OthersAppended ==
    ASSUME NEW q \in Seq(Message), NEW ms \in Seq(Message), NEW s,
           \A i \in DOMAIN ms : ~FrameOf(ms[i], s)
    PROVE  /\ Consecutive(q, s) => Consecutive(q \o ms, s)
           /\ \A n : EndsWith(q, s, n) => EndsWith(q \o ms, s, n)
<1> DEFINE all == q \o ms
           size == Len(q)
           more == Len(ms)
<1>1. /\ size \in Nat /\ more \in Nat
      /\ DOMAIN q = 1 .. size /\ DOMAIN ms = 1 .. more
      /\ DOMAIN all = 1 .. size + more /\ Len(all) = size + more
      /\ \A i \in 1 .. size + more : all[i] = IF i <= size THEN q[i] ELSE ms[i - size]
      BY ConcatProperties, LenProperties
<1> HIDE DEF all, size, more
<1>2. \A i \in 1 .. size : i \in DOMAIN all /\ all[i] = q[i]
      BY <1>1
<1>3. ASSUME NEW i \in DOMAIN all, FrameOf(all[i], s)
      PROVE  i \in 1 .. size /\ all[i] = q[i]
  <2>1. CASE i <= size
        BY <1>1, <2>1
  <2>2. CASE ~(i <= size)
    <3>1. i - size \in 1 .. more /\ all[i] = ms[i - size]
          BY <1>1, <2>2
    <3> QED  BY <1>1, <1>3, <3>1
  <2> QED  BY <2>1, <2>2
<1>4. ASSUME Consecutive(q, s), NEW i \in DOMAIN all, NEW j \in DOMAIN all,
             i < j, FrameOf(all[i], s), FrameOf(all[j], s)
      PROVE  all[j].n = all[i].n + 1 \/ \E l \in i + 1 .. j - 1 : FrameOf(all[l], s)
  <2>1. i \in 1 .. size /\ j \in 1 .. size /\ all[i] = q[i] /\ all[j] = q[j]
        BY <1>3, <1>4
  <2>2. q[j].n = q[i].n + 1 \/ \E l \in i + 1 .. j - 1 : FrameOf(q[l], s)
        BY <1>1, <1>4, <2>1 DEF Consecutive
  <2>3. \A l \in i + 1 .. j - 1 : l \in 1 .. size
        BY <1>1, <2>1
  <2> QED  BY <1>2, <2>1, <2>2, <2>3
<1>5. ASSUME NEW n, EndsWith(q, s, n), NEW i \in DOMAIN all, FrameOf(all[i], s)
      PROVE  all[i].n = n \/ \E l \in i + 1 .. Len(all) : FrameOf(all[l], s)
  <2>1. i \in 1 .. size /\ all[i] = q[i]
        BY <1>3, <1>5
  <2>2. q[i].n = n \/ \E l \in i + 1 .. size : FrameOf(q[l], s)
        BY <1>1, <1>5, <2>1 DEF EndsWith, size
  <2>3. \A l \in i + 1 .. size : l \in 1 .. size /\ l \in i + 1 .. Len(all)
        BY <1>1, <2>1
  <2> QED  BY <1>2, <2>1, <2>2, <2>3
<1> QED  BY <1>4, <1>5 DEF Consecutive, EndsWith, all

LEMMA NextAppended ==
    ASSUME NEW q \in Seq(Message), NEW s \in Peer, NEW n \in Nat,
           Consecutive(q, s), EndsWith(q, s, n)
    PROVE  /\ Consecutive(q \o <<Frame(s, n + 1)>>, s)
           /\ EndsWith(q \o <<Frame(s, n + 1)>>, s, n + 1)
<1> DEFINE m == Frame(s, n + 1)
           all == q \o <<m>>
           size == Len(q)
<1>1. m \in Message /\ FrameOf(m, s) /\ m.n = n + 1
      BY MessageTypes DEF Frame, FrameOf, IsFrame
<1>2. /\ size \in Nat /\ DOMAIN q = 1 .. size
      /\ DOMAIN all = 1 .. size + 1 /\ Len(all) = size + 1
      /\ \A i \in 1 .. size : all[i] = q[i]
      /\ all[size + 1] = m
  <2> HIDE DEF m
  <2>1. all = Append(q, m)
        BY <1>1, AppendIsConcat
  <2>2. /\ all \in Seq(Message) /\ Len(all) = size + 1
        /\ \A i \in 1 .. size : all[i] = q[i]
        /\ all[size + 1] = m
        BY <1>1, <2>1, AppendProperties
  <2> QED  BY <2>2, LenProperties
<1> HIDE DEF m, all, size
<1>3. ASSUME NEW i \in DOMAIN all
      PROVE  i = size + 1 \/ (i \in 1 .. size /\ all[i] = q[i])
      BY <1>2
<1>4. ASSUME NEW i \in DOMAIN all, NEW j \in DOMAIN all,
             i < j, FrameOf(all[i], s), FrameOf(all[j], s)
      PROVE  all[j].n = all[i].n + 1 \/ \E l \in i + 1 .. j - 1 : FrameOf(all[l], s)
  <2>1. i \in 1 .. size /\ all[i] = q[i]
        BY <1>2, <1>4
  <2>2. CASE j = size + 1
    <3>1. q[i].n = n \/ \E l \in i + 1 .. size : FrameOf(q[l], s)
          BY <1>2, <1>4, <2>1 DEF EndsWith, size
    <3>2. \A l \in i + 1 .. size : l \in 1 .. size /\ l \in i + 1 .. j - 1
          BY <1>2, <2>1, <2>2
    <3> QED  BY <1>1, <1>2, <2>1, <2>2, <3>1, <3>2
  <2>3. CASE j # size + 1
    <3>1. j \in 1 .. size /\ all[j] = q[j]
          BY <1>3, <2>3
    <3>2. q[j].n = q[i].n + 1 \/ \E l \in i + 1 .. j - 1 : FrameOf(q[l], s)
          BY <1>2, <1>4, <2>1, <3>1 DEF Consecutive
    <3>3. \A l \in i + 1 .. j - 1 : l \in 1 .. size
          BY <1>2, <2>1, <3>1
    <3> QED  BY <1>2, <2>1, <3>1, <3>2, <3>3
  <2> QED  BY <2>2, <2>3
<1>5. ASSUME NEW i \in DOMAIN all, FrameOf(all[i], s)
      PROVE  all[i].n = n + 1 \/ \E l \in i + 1 .. Len(all) : FrameOf(all[l], s)
  <2>1. CASE i = size + 1
        BY <1>1, <1>2, <2>1
  <2>2. CASE i # size + 1
    <3>1. size + 1 \in i + 1 .. Len(all)
          BY <1>2, <2>2
    <3> QED  BY <1>1, <1>2, <3>1
  <2> QED  BY <2>1, <2>2
<1> QED  BY <1>4, <1>5 DEF Consecutive, EndsWith, all, m

LEMMA HeadRemoved ==
    ASSUME NEW q \in Seq(Message), q # <<>>, NEW s
    PROVE  /\ Consecutive(q, s) => Consecutive(Tail(q), s)
           /\ \A n : EndsWith(q, s, n) => EndsWith(Tail(q), s, n)
<1> DEFINE rest == Tail(q)
           size == Len(rest)
<1>1. /\ size \in Nat /\ Len(q) = size + 1
      /\ DOMAIN rest = 1 .. size /\ DOMAIN q = 1 .. size + 1
      /\ \A i \in 1 .. size : rest[i] = q[i + 1]
  <2>1. /\ rest \in Seq(Message) /\ size = Len(q) - 1
        /\ \A i \in 1 .. size : rest[i] = q[i + 1]
        BY HeadTailProperties
  <2>2. size \in Nat /\ DOMAIN rest = 1 .. size /\ Len(q) \in Nat /\ DOMAIN q = 1 .. Len(q)
        BY <2>1, LenProperties
  <2> QED  BY <2>1, <2>2
<1> HIDE DEF rest, size
<1>2. ASSUME NEW a \in Nat, NEW b \in Nat, b <= size + 1, a >= 1,
             \E l \in a + 1 .. b : FrameOf(q[l], s)
      PROVE  \E l \in a .. b - 1 : FrameOf(rest[l], s)
  <2>1. PICK l \in a + 1 .. b : FrameOf(q[l], s)
        BY <1>2
  <2>2. l - 1 \in a .. b - 1 /\ l - 1 \in 1 .. size /\ (l - 1) + 1 = l
        BY <1>1, <1>2
  <2>3. rest[l - 1] = q[l]
        BY <1>1, <2>2
  <2> QED  BY <2>1, <2>2, <2>3
<1>3. ASSUME Consecutive(q, s), NEW i \in DOMAIN rest, NEW j \in DOMAIN rest,
             i < j, FrameOf(rest[i], s), FrameOf(rest[j], s)
      PROVE  rest[j].n = rest[i].n + 1 \/ \E l \in i + 1 .. j - 1 : FrameOf(rest[l], s)
  <2>1. /\ i \in Nat /\ j \in Nat /\ i + 1 \in DOMAIN q /\ j + 1 \in DOMAIN q /\ i + 1 < j + 1
        /\ rest[i] = q[i + 1] /\ rest[j] = q[j + 1]
        BY <1>1, <1>3
  <2>2. \/ q[j + 1].n = q[i + 1].n + 1
        \/ \E l \in (i + 1) + 1 .. (j + 1) - 1 : FrameOf(q[l], s)
        BY <1>3, <2>1 DEF Consecutive
  <2>3. (j + 1) - 1 = j /\ j <= size + 1 /\ i + 1 \in Nat /\ i + 1 >= 1
        BY <1>1, <2>1
  <2> QED  BY <1>2, <2>1, <2>2, <2>3
<1>4. ASSUME NEW n, EndsWith(q, s, n), NEW i \in DOMAIN rest, FrameOf(rest[i], s)
      PROVE  rest[i].n = n \/ \E l \in i + 1 .. Len(rest) : FrameOf(rest[l], s)
  <2>1. i \in Nat /\ i + 1 \in DOMAIN q /\ rest[i] = q[i + 1]
        BY <1>1, <1>4
  <2>2. q[i + 1].n = n \/ \E l \in (i + 1) + 1 .. size + 1 : FrameOf(q[l], s)
        BY <1>1, <1>4, <2>1 DEF EndsWith
  <2>3. size + 1 \in Nat /\ size + 1 <= size + 1 /\ i + 1 \in Nat /\ i + 1 >= 1
        BY <1>1, <2>1
  <2>4. rest[i].n = n \/ \E l \in i + 1 .. (size + 1) - 1 : FrameOf(rest[l], s)
        BY <1>2, <2>1, <2>2, <2>3
  <2>5. (size + 1) - 1 = Len(rest)
        BY <1>1 DEF size
  <2> QED  BY <2>4, <2>5
<1> QED  BY <1>3, <1>4 DEF Consecutive, EndsWith, rest

LEMMA FrameBuffered ==
    ASSUME NEW q \in Seq(Message), NEW p \in Peer, NEW n \in Nat,
           Consecutive(q, p), EndsWith(q, p, n)
    PROVE  LET all == Buffered(q, Frame(p, n + 1)) IN
               /\ Consecutive(all, p) /\ EndsWith(all, p, n + 1)
               /\ \A s : s # p /\ Consecutive(q, s) => Consecutive(all, s)
               /\ \A s, k : s # p /\ EndsWith(q, s, k) => EndsWith(all, s, k)
<1> DEFINE m == Frame(p, n + 1)
           longer == q \o <<m>>
<1>1. m \in Message /\ m.from = p
      BY MessageTypes DEF Frame
<1>2. <<m>> \in Seq(Message) /\ \A i \in DOMAIN <<m>> : <<m>>[i] = m
  <2> HIDE DEF m
  <2> QED  BY <1>1
<1>3. Consecutive(longer, p) /\ EndsWith(longer, p, n + 1)
      BY NextAppended
<1>4. ASSUME NEW s, s # p
      PROVE  /\ Consecutive(q, s) => Consecutive(longer, s)
             /\ \A k : EndsWith(q, s, k) => EndsWith(longer, s, k)
  <2>1. \A i \in DOMAIN <<m>> : ~FrameOf(<<m>>[i], s)
        BY <1>1, <1>2, <1>4 DEF FrameOf
  <2> HIDE DEF m
  <2> QED  BY <1>2, <2>1, OthersAppended
<1> HIDE DEF m
<1>5. longer = Append(q, m) /\ longer \in Seq(Message) /\ longer # <<>>
      BY <1>1, AppendIsConcat, AppendProperties
<1> HIDE DEF longer
<1>6. Buffered(q, m) = longer \/ Buffered(q, m) = Tail(longer)
      BY <1>5 DEF Buffered
<1>7. \A s : /\ Consecutive(longer, s) => Consecutive(Tail(longer), s)
             /\ \A k : EndsWith(longer, s, k) => EndsWith(Tail(longer), s, k)
      BY <1>5, HeadRemoved
<1> QED  BY <1>3, <1>4, <1>6, <1>7 DEF m

-----------------------------------------------------------------------------
(* Order. FramesInOrder is inductive once it is known that what waits for a  *)
(* client also ends with the newest frame of its server data sockets: a new  *)
(* frame is appended to the queues of all clients of the connection. Nothing *)
(* of the kind holds of a replaced server data socket, to which no frame is  *)
(* appended any more.                                                        *)
ClientsUpToDate ==
    \A s \in Data : \A x \in clients[ConnOf[s]] :
        x \in dropped \/ EndsWith(queue[x], s, sent[s])

OrderInv == FramesInOrder /\ ClientsUpToDate

LEMMA InitOrderInv == Init => OrderInv
<1> SUFFICES ASSUME Init PROVE OrderInv
    OBVIOUS
<1> USE SocketTypes
<1>1. \A p \in Data \cup Client : queue[p] = <<>>
      BY DEF Init, PeerInit
<1>2. \A c \in ConnId : pending[c] = <<>> /\ server_data[c] = NoPeer /\ clients[c] = {}
      BY DEF Init
<1> QED  BY <1>1, <1>2, NothingQueued DEF OrderInv, FramesInOrder, ClientsUpToDate

(* A step that appends no frame to p's queue. *)
KeepsOrder(p) == p \notin dropped' =>
    \/ queue'[p] = <<>>
    \/ /\ p \notin dropped
       /\ \A s : Consecutive(queue[p], s) => Consecutive(queue'[p], s)
       /\ \A s, n : EndsWith(queue[p], s, n) => EndsWith(queue'[p], s, n)

Notice == {m \in Message : ~IsFrame(m)}

LEMMA Notices ==
    /\ Pong \in Notice
    /\ \A code \in CloseCode : Close(code) \in Notice
    /\ Close(1001) \in Notice /\ Close(1008) \in Notice /\ Close(1011) \in Notice
    /\ Close(1012) \in Notice /\ Close(1013) \in Notice
    /\ \A ids \in SUBSET ConnId : Sync(ids) \in Notice
    /\ \A c \in ConnId : Connected(c) \in Notice /\ Disconnected(c) \in Notice
BY MessageTypes DEF Notice, IsFrame, Pong, Close, Sync, Connected, Disconnected

LEMMA NoticesAreOffers ==
    /\ \A targets, m : m \in Notice => To(targets, m) \in [Peer -> Seq(Notice)]
    /\ \A f, g : f \in [Peer -> Seq(Notice)] /\ g \in [Peer -> Seq(Notice)]
            => Both(f, g) \in [Peer -> Seq(Notice)]
    /\ Silence \in [Peer -> Seq(Notice)]
<1>1. ASSUME NEW targets, NEW m \in Notice
      PROVE  To(targets, m) \in [Peer -> Seq(Notice)]
  <2>1. \A p \in Peer : To(targets, m)[p] \in Seq(Notice)
        BY OffersRespect
  <2> QED  BY <2>1 DEF To
<1>2. ASSUME NEW f \in [Peer -> Seq(Notice)], NEW g \in [Peer -> Seq(Notice)]
      PROVE  Both(f, g) \in [Peer -> Seq(Notice)]
  <2>1. \A p \in Peer : Both(f, g)[p] \in Seq(Notice)
        BY OffersRespect
  <2> QED  BY <2>1 DEF Both
<1>3. Silence \in [Peer -> Seq(Notice)]
      BY EmptySeq DEF Silence
<1> QED  BY <1>1, <1>2, <1>3

LEMMA NoticesOffered ==
    ASSUME TypeOK, QueueInv, NEW out \in [Peer -> Seq(Message)], NEW p \in Peer,
           out[p] \in Seq(Notice),
           queue'[p] = Offered(out)[p],
           p \notin dropped' => p \notin dropped /\ p \notin Overflowing(out)
    PROVE  KeepsOrder(p)
<1> SUFFICES ASSUME p \notin dropped PROVE KeepsOrder(p)
    BY DEF KeepsOrder
<1>1. CASE writer[p] = "stopped"
      BY <1>1 DEF Offered, KeepsOrder
<1>2. CASE writer[p] # "stopped" /\ p \notin Overflowing(out)
  <2>1. queue'[p] = queue[p] \o out[p]
        BY <1>2, OfferedTo
  <2>2. queue[p] \in Seq(Message) /\ out[p] \in Seq(Message)
        BY DEF TypeOK, PeerTypeOK
  <2>3. \A i \in DOMAIN out[p] : out[p][i] \in Notice
        BY LenProperties, ElementOfSeq
  <2>4. \A s : \A i \in DOMAIN out[p] : ~FrameOf(out[p][i], s)
        BY <2>3 DEF Notice, FrameOf
  <2>5. \A s : /\ Consecutive(queue[p], s) => Consecutive(queue'[p], s)
               /\ \A n : EndsWith(queue[p], s, n) => EndsWith(queue'[p], s, n)
        BY <2>1, <2>2, <2>4, OthersAppended
  <2> QED  BY <2>5 DEF KeepsOrder
<1> QED  BY <1>1, <1>2 DEF KeepsOrder

LEMMA NoticesAreMessages == [Peer -> Seq(Notice)] \subseteq [Peer -> Seq(Message)]
<1>1. Notice \subseteq Message
      BY DEF Notice
<1>2. \A q \in Seq(Notice) : q \in Seq(Message)
      BY <1>1
<1> QED  BY <1>2

LEMMA EmitKeepsOrder ==
    ASSUME TypeOK, QueueInv, NEW out \in [Peer -> Seq(Notice)], NEW retried,
           Emit(out, retried), NEW p \in Peer
    PROVE  KeepsOrder(p)
<1>1. out \in [Peer -> Seq(Message)]
      BY NoticesAreMessages
<1>2. queue' = Offered(out) /\ dropped' = dropped \cup Overflowing(out)
      BY DEF Emit
<1> QED  BY <1>1, <1>2, NoticesOffered

LEMMA FinishKeepsOrder ==
    ASSUME TypeOK, QueueInv, NEW out \in [Peer -> Seq(Notice)], NEW retried,
           NEW r \in Peer, Finish(r, out, retried), NEW p \in Peer
    PROVE  KeepsOrder(p)
<1>1. out \in [Peer -> Seq(Message)]
      BY NoticesAreMessages
<1>2. /\ queue'[p] = IF p = r THEN <<>> ELSE Offered(out)[p]
      /\ dropped' = (dropped \cup Overflowing(out)) \ {r}
      BY DEF Finish, Offered
<1>3. CASE p = r
      BY <1>2, <1>3 DEF KeepsOrder
<1>4. CASE p # r
      BY <1>1, <1>2, <1>4, NoticesOffered
<1> QED  BY <1>3, <1>4

(* Such a step keeps the order everywhere, unless it routes frames anew. *)
LEMMA NoticesKeepOrder ==
    ASSUME TypeOK, OrderInv, UNCHANGED sent,
           \A p \in Data \cup Client : KeepsOrder(p),
           \A c \in ConnId :
               /\ pending'[c] = pending[c] \/ pending'[c] = <<>>
               /\ server_data'[c] = server_data[c] \/ server_data'[c] = NoPeer
               /\ \A x \in clients'[c] : x \in clients[c] \/ queue'[x] = <<>>
    PROVE  OrderInv'
<1> USE SocketTypes
<1>1. ASSUME NEW p \in Data \cup Client, p \notin dropped', NEW s \in Data \cup Client
      PROVE  Consecutive(queue'[p], s)
      BY <1>1, NothingQueued DEF KeepsOrder, OrderInv, FramesInOrder
<1>2. ASSUME NEW c \in ConnId, NEW s \in Client
      PROVE  Consecutive(pending'[c], s) /\ EndsWith(pending'[c], s, sent'[s])
      BY NothingQueued DEF OrderInv, FramesInOrder
<1>3. ASSUME NEW c \in ConnId, NEW s \in Client,
             server_data'[c] # NoPeer, server_data'[c] \notin dropped'
      PROVE  EndsWith(queue'[server_data'[c]], s, sent'[s])
  <2>1. server_data'[c] = server_data[c] /\ server_data[c] \in Data
        BY <1>3 DEF TypeOK
  <2> QED  BY <1>3, <2>1, NothingQueued DEF KeepsOrder, OrderInv, FramesInOrder
<1>4. ASSUME NEW s \in Data, NEW x \in clients'[ConnOf[s]], x \notin dropped'
      PROVE  EndsWith(queue'[x], s, sent'[s])
  <2>1. CASE queue'[x] = <<>>
        BY <2>1, NothingQueued
  <2>2. CASE queue'[x] # <<>>
    <3>1. x \in clients[ConnOf[s]] /\ x \in Client
          BY <2>2 DEF TypeOK
    <3> QED  BY <1>4, <2>2, <3>1 DEF KeepsOrder, OrderInv, ClientsUpToDate
  <2> QED  BY <2>1, <2>2
<1> QED  BY <1>1, <1>2, <1>3, <1>4 DEF OrderInv, FramesInOrder, ClientsUpToDate

(* Whose frames are not in a queue or in a buffer. *)
LEMMA StrangersAbsent ==
    ASSUME IsolationInv, NEW s
    PROVE  /\ \A q \in Peer : ~OtherSide(s, q) =>
                  \A i \in DOMAIN queue[q] : ~FrameOf(queue[q][i], s)
           /\ \A c \in ConnId : ~(s \in Client /\ ConnOf[s] = c) =>
                  \A i \in DOMAIN pending[c] : ~FrameOf(pending[c][i], s)
<1>1. ASSUME NEW q \in Peer, NEW i \in DOMAIN queue[q], FrameOf(queue[q][i], s)
      PROVE  OtherSide(s, q)
  <2>1. queue[q] \in Seq(Permitted[q])
        BY DEF IsolationInv
  <2>2. queue[q][i] \in Permitted[q]
        BY <2>1, LenProperties, ElementOfSeq
  <2> QED  BY <1>1, <2>2 DEF Permitted, FrameOf
<1>2. ASSUME NEW c \in ConnId, NEW i \in DOMAIN pending[c], FrameOf(pending[c][i], s)
      PROVE  s \in Client /\ ConnOf[s] = c
  <2>1. pending[c] \in Seq(ClientFrames[c])
        BY DEF IsolationInv
  <2>2. pending[c][i] \in ClientFrames[c]
        BY <2>1, LenProperties, ElementOfSeq
  <2> QED  BY <1>2, <2>2 DEF ClientFrames, FrameOf
<1> QED  BY <1>1, <1>2

(* A frame offered to some sockets, as one of their queues sees it. *)
LEMMA FrameOffered ==
    ASSUME TypeOK, QueueInv, NEW p \in Data \cup Client, NewFrame(p), NEW targets,
           Emit(To(targets, Frame(p, sent[p] + 1)), Peer), NEW q \in Peer, q \notin dropped'
    PROVE  /\ q \notin dropped
           /\ q \notin targets => queue'[q] = queue[q]
           /\ \A s : s # p => /\ Consecutive(queue[q], s) => Consecutive(queue'[q], s)
                              /\ \A n : EndsWith(queue[q], s, n) => EndsWith(queue'[q], s, n)
           /\ q \in targets /\ Consecutive(queue[q], p) /\ EndsWith(queue[q], p, sent[p])
                  => Consecutive(queue'[q], p) /\ EndsWith(queue'[q], p, sent'[p])
<1> USE SocketTypes
<1> DEFINE m == Frame(p, sent[p] + 1)
           out == To(targets, m)
<1>1. m \in Message /\ m.from = p /\ sent[p] \in Nat /\ sent'[p] = sent[p] + 1 /\ p \in Peer
      BY FrameType DEF NewFrame, TypeOK, Frame
<1>2. out \in [Peer -> Seq(Message)] /\ out[q] = IF q \in targets THEN <<m>> ELSE <<>>
  <2> HIDE DEF m
  <2> QED  BY <1>1, ToType DEF To
<1>3. queue' = Offered(out) /\ dropped' = dropped \cup Overflowing(out)
      BY DEF Emit
<1>4. queue[q] \in Seq(Message)
      BY DEF TypeOK, PeerTypeOK
<1> HIDE DEF out
<1>5. q \notin dropped /\ q \notin Overflowing(out)
      BY <1>3
<1>6. q \notin targets => queue'[q] = queue[q]
      BY <1>2, <1>3, OfferedTo
<1>7. CASE writer[q] = "stopped"
  <2>1. queue'[q] = <<>> /\ queue[q] = <<>>
        BY <1>3, <1>7 DEF Offered, QueueInv
  <2> QED  BY <1>5, <2>1, NothingQueued
<1>8. CASE q \notin targets
      BY <1>5, <1>6, <1>8
<1>9. CASE q \in targets /\ writer[q] # "stopped"
  <2>1. queue'[q] = queue[q] \o <<m>>
        BY <1>2, <1>3, <1>5, <1>9, OfferedTo
  <2>2. <<m>> \in Seq(Message) /\ \A i \in DOMAIN <<m>> : <<m>>[i] = m
    <3> HIDE DEF m
    <3> QED  BY <1>1
  <2>3. ASSUME NEW s, s # p
        PROVE  /\ Consecutive(queue[q], s) => Consecutive(queue'[q], s)
               /\ \A n : EndsWith(queue[q], s, n) => EndsWith(queue'[q], s, n)
    <3>1. \A i \in DOMAIN <<m>> : ~FrameOf(<<m>>[i], s)
          BY <1>1, <2>2, <2>3 DEF FrameOf
    <3> HIDE DEF m
    <3> QED  BY <1>4, <2>1, <2>2, <3>1, OthersAppended
  <2>4. ASSUME Consecutive(queue[q], p), EndsWith(queue[q], p, sent[p])
        PROVE  Consecutive(queue'[q], p) /\ EndsWith(queue'[q], p, sent'[p])
        BY <1>1, <1>4, <2>1, <2>4, NextAppended
  <2> QED  BY <1>5, <1>9, <2>3, <2>4
<1> QED  BY <1>7, <1>8, <1>9

LEMMA ServerDataFrameInOrder ==
    ASSUME TypeOK, QueueInv, OrderInv, NEW p \in Data, ServerDataFrame(p)
    PROVE  OrderInv'
<1> USE SocketTypes
<1> DEFINE targets == clients[ConnOf[p]]
<1>1. /\ NewFrame(p) /\ Emit(To(targets, Frame(p, sent[p] + 1)), Peer)
      /\ UNCHANGED <<pending, server_data, clients>>
      BY DEF ServerDataFrame, routing
<1>2. \A s \in Data \cup Client : s # p => sent'[s] = sent[s]
      BY <1>1 DEF NewFrame, TypeOK
<1>3. targets \subseteq Client /\ p \notin Client
      BY SessionAssumption DEF TypeOK
<1>4. ASSUME NEW x \in targets, x \notin dropped'
      PROVE  Consecutive(queue'[x], p) /\ EndsWith(queue'[x], p, sent'[p])
  <2>1. x \in Peer /\ x \in Client
        BY <1>3
  <2>2. x \notin dropped
        BY <1>1, <1>4, <2>1, FrameOffered
  <2>3. Consecutive(queue[x], p) /\ EndsWith(queue[x], p, sent[p])
        BY <2>1, <2>2 DEF OrderInv, FramesInOrder, ClientsUpToDate
  <2> HIDE DEF targets
  <2> QED  BY <1>1, <1>4, <2>1, <2>3, FrameOffered
<1>5. ASSUME NEW q \in Data \cup Client, q \notin dropped', NEW s \in Data \cup Client
      PROVE  Consecutive(queue'[q], s)
  <2>1. q \notin dropped
        BY <1>1, <1>5, FrameOffered
  <2>2. Consecutive(queue[q], s)
        BY <2>1 DEF OrderInv, FramesInOrder
  <2>3. CASE s = p /\ q \in targets
        BY <1>4, <1>5, <2>3
  <2>4. CASE s # p \/ q \notin targets
        BY <1>1, <1>5, <2>2, <2>4, FrameOffered
  <2> QED  BY <2>3, <2>4
<1>6. ASSUME NEW c \in ConnId, NEW s \in Client
      PROVE  Consecutive(pending'[c], s) /\ EndsWith(pending'[c], s, sent'[s])
      BY <1>1, <1>2, <1>3 DEF OrderInv, FramesInOrder
<1>7. ASSUME NEW c \in ConnId, NEW s \in Client,
             server_data'[c] # NoPeer, server_data'[c] \notin dropped'
      PROVE  EndsWith(queue'[server_data'[c]], s, sent'[s])
  <2>1. server_data'[c] = server_data[c] /\ server_data[c] \in Data
        BY <1>1, <1>7 DEF TypeOK
  <2>2. server_data[c] \notin targets
        BY <1>3, <2>1, SessionAssumption
  <2>3. server_data[c] \notin dropped /\ queue'[server_data[c]] = queue[server_data[c]]
        BY <1>1, <1>7, <2>1, <2>2, FrameOffered
  <2> QED  BY <1>2, <1>3, <1>7, <2>1, <2>3 DEF OrderInv, FramesInOrder
<1>8. ASSUME NEW s \in Data, NEW x \in clients'[ConnOf[s]], x \notin dropped'
      PROVE  EndsWith(queue'[x], s, sent'[s])
  <2>1. x \in clients[ConnOf[s]] /\ x \in Peer
        BY <1>1 DEF TypeOK
  <2>2. CASE s = p
        BY <1>4, <1>8, <2>1, <2>2
  <2>3. CASE s # p
    <3>1. x \notin dropped
          BY <1>1, <1>8, <2>1, FrameOffered
    <3>2. EndsWith(queue[x], s, sent[s])
          BY <2>1, <3>1 DEF OrderInv, ClientsUpToDate
    <3>3. EndsWith(queue'[x], s, sent[s])
          BY <1>1, <1>8, <2>1, <2>3, <3>2, FrameOffered
    <3> QED  BY <1>2, <2>3, <3>3
  <2> QED  BY <2>2, <2>3
<1> QED  BY <1>5, <1>6, <1>7, <1>8 DEF OrderInv, FramesInOrder, ClientsUpToDate

LEMMA ForwardedFrameInOrder ==
    ASSUME TypeOK, RoutingInv, QueueInv, IsolationInv, OrderInv,
           NEW p \in Client, ForwardClientFrame(p)
    PROVE  OrderInv'
<1> USE SocketTypes
<1> DEFINE c == ConnOf[p]
           d == server_data[c]
<1>1. /\ NewFrame(p) /\ Emit(To({d}, Frame(p, sent[p] + 1)), Peer)
      /\ d # NoPeer /\ UNCHANGED <<pending, server_data, clients>>
      BY DEF ForwardClientFrame, routing
<1>2. \A s \in Data \cup Client : s # p => sent'[s] = sent[s]
      BY <1>1 DEF NewFrame, TypeOK
<1>3. d \in Data /\ d \notin Client /\ p \notin Data
      BY <1>1, SessionAssumption DEF TypeOK
<1>4. ASSUME d \notin dropped'
      PROVE  Consecutive(queue'[d], p) /\ EndsWith(queue'[d], p, sent'[p])
  <2>1. d \notin dropped
        BY <1>1, <1>3, <1>4, FrameOffered
  <2>2. Consecutive(queue[d], p) /\ EndsWith(queue[d], p, sent[p])
        BY <1>1, <1>3, <2>1 DEF OrderInv, FramesInOrder
  <2> HIDE DEF d
  <2> QED  BY <1>1, <1>3, <1>4, <2>2, FrameOffered
<1>5. ASSUME NEW q \in Data \cup Client, q \notin dropped', NEW s \in Data \cup Client
      PROVE  Consecutive(queue'[q], s)
  <2>1. q \notin dropped
        BY <1>1, <1>5, FrameOffered
  <2>2. Consecutive(queue[q], s)
        BY <2>1 DEF OrderInv, FramesInOrder
  <2>3. CASE s = p /\ q = d
        BY <1>4, <1>5, <2>3
  <2> HIDE DEF d
  <2>4. CASE s # p
        BY <1>1, <1>5, <2>2, <2>4, FrameOffered
  <2>5. CASE q # d
    <3>1. queue'[q] = queue[q]
          BY <1>1, <1>5, <2>5, FrameOffered
    <3> QED  BY <2>2, <3>1
  <2> QED  BY <2>3, <2>4, <2>5
<1>6. ASSUME NEW b \in ConnId, NEW s \in Client
      PROVE  Consecutive(pending'[b], s) /\ EndsWith(pending'[b], s, sent'[s])
  <2>1. pending'[b] = pending[b] /\ Consecutive(pending[b], s)
        BY <1>1 DEF OrderInv, FramesInOrder
  <2>2. CASE s # p
        BY <1>2, <2>1, <2>2 DEF OrderInv, FramesInOrder
  <2>3. CASE s = p /\ b = c
        BY <1>1, <2>1, <2>3, NothingQueued DEF RoutingInv, PendingSound
  <2>4. CASE s = p /\ b # c
        BY <2>1, <2>4, StrangersAbsent, FramesOfNobody
  <2> QED  BY <2>2, <2>3, <2>4
<1>7. ASSUME NEW b \in ConnId, NEW s \in Client,
             server_data'[b] # NoPeer, server_data'[b] \notin dropped'
      PROVE  EndsWith(queue'[server_data'[b]], s, sent'[s])
  <2> DEFINE e == server_data[b]
  <2>1. server_data'[b] = e /\ e \in Data /\ e \in Peer /\ ConnOf[e] = b /\ e # NoPeer
        BY <1>1, <1>7 DEF TypeOK
  <2>2. e \notin dropped
        BY <1>1, <1>7, <2>1, FrameOffered
  <2>3. EndsWith(queue[e], s, sent[s])
        BY <2>1, <2>2 DEF OrderInv, FramesInOrder
  <2>4. CASE s # p
    <3>1. EndsWith(queue'[e], s, sent[s])
          BY <1>1, <1>7, <2>1, <2>3, <2>4, FrameOffered
    <3> QED  BY <1>2, <2>1, <2>4, <3>1
  <2>5. CASE s = p /\ b = c
        BY <1>4, <1>7, <2>1, <2>5
  <2>6. CASE s = p /\ b # c
    <3>1. ~OtherSide(p, e)
          BY <2>1, <2>6 DEF OtherSide
    <3>2. queue'[e] = queue[e]
      <4>1. e # d
            BY <1>1, <2>1, <2>6 DEF TypeOK
      <4> HIDE DEF d, e
      <4> QED  BY <1>1, <1>7, <2>1, <4>1, FrameOffered
    <3>3. EndsWith(queue[e], p, sent'[p])
          BY <2>1, <3>1, StrangersAbsent, FramesOfNobody
    <3> QED  BY <2>1, <2>6, <3>2, <3>3
  <2> QED  BY <2>4, <2>5, <2>6
<1>8. ASSUME NEW s \in Data, NEW x \in clients'[ConnOf[s]], x \notin dropped'
      PROVE  EndsWith(queue'[x], s, sent'[s])
  <2>1. x \in clients[ConnOf[s]] /\ x \in Client /\ x \in Peer /\ x \notin {d}
        BY <1>1, <1>3 DEF TypeOK
  <2> HIDE DEF d
  <2>2. x \notin dropped /\ queue'[x] = queue[x]
        BY <1>1, <1>8, <2>1, FrameOffered
  <2> QED  BY <1>2, <1>3, <2>1, <2>2 DEF OrderInv, ClientsUpToDate
<1> QED  BY <1>5, <1>6, <1>7, <1>8 DEF OrderInv, FramesInOrder, ClientsUpToDate

LEMMA BufferedFrameInOrder ==
    ASSUME TypeOK, IsolationInv, OrderInv, NEW p \in Client, BufferClientFrame(p)
    PROVE  OrderInv'
<1> USE SocketTypes
<1> DEFINE c == ConnOf[p]
           m == Frame(p, sent[p] + 1)
<1>1. /\ NewFrame(p) /\ server_data[c] = NoPeer
      /\ pending' = [pending EXCEPT ![c] = Buffered(@, m)]
      /\ UNCHANGED <<queue, dropped, server_data, clients>>
      BY DEF BufferClientFrame, peerVars
<1>2. /\ sent'[p] = sent[p] + 1 /\ sent[p] \in Nat
      /\ \A s \in Data \cup Client : s # p => sent'[s] = sent[s]
      BY <1>1 DEF NewFrame, TypeOK
<1>3. p \notin Data /\ p \in Peer
      BY SessionAssumption
<1>4. ASSUME NEW b \in ConnId, NEW s \in Client
      PROVE  Consecutive(pending'[b], s) /\ EndsWith(pending'[b], s, sent'[s])
  <2>1. Consecutive(pending[b], s) /\ EndsWith(pending[b], s, sent[s])
        BY DEF OrderInv, FramesInOrder
  <2>2. CASE b = c
    <3>1. pending[c] \in Seq(Message) /\ pending'[b] = Buffered(pending[c], m)
          BY <1>1, <2>2, PendingAreMessages DEF TypeOK
    <3>2. Consecutive(pending[c], p) /\ EndsWith(pending[c], p, sent[p])
          BY DEF OrderInv, FramesInOrder
    <3>3. CASE s = p
          BY <1>2, <1>3, <3>1, <3>2, <3>3, FrameBuffered
    <3>4. CASE s # p
      <4>1. sent'[s] = sent[s]
            BY <1>2, <3>4
      <4> QED  BY <1>2, <1>3, <2>1, <2>2, <3>1, <3>2, <3>4, <4>1, FrameBuffered
    <3> QED  BY <3>3, <3>4
  <2>3. CASE b # c
    <3>1. pending'[b] = pending[b]
          BY <1>1, <2>3 DEF TypeOK
    <3>2. CASE s = p
          BY <2>3, <3>1, <3>2, StrangersAbsent, FramesOfNobody
    <3>3. CASE s # p
          BY <1>2, <2>1, <3>1, <3>3
    <3> QED  BY <3>2, <3>3
  <2> QED  BY <2>2, <2>3
<1>5. ASSUME NEW b \in ConnId, NEW s \in Client,
             server_data'[b] # NoPeer, server_data'[b] \notin dropped'
      PROVE  EndsWith(queue'[server_data'[b]], s, sent'[s])
  <2> DEFINE e == server_data[b]
  <2>1. server_data'[b] = e /\ e # NoPeer /\ e \notin dropped /\ queue' = queue /\ b # c
        BY <1>1, <1>5
  <2>2. e \in Peer /\ ConnOf[e] = b
        BY <2>1 DEF TypeOK
  <2>3. CASE s = p
    <3>1. ~OtherSide(p, e)
          BY <2>1, <2>2 DEF OtherSide
    <3> QED  BY <2>1, <2>2, <2>3, <3>1, StrangersAbsent, FramesOfNobody
  <2>4. CASE s # p
        BY <1>2, <2>1, <2>4 DEF OrderInv, FramesInOrder
  <2> QED  BY <2>3, <2>4
<1>6. \A q \in Data \cup Client : q \in dropped' \/
          \A s \in Data \cup Client : Consecutive(queue'[q], s)
      BY <1>1 DEF OrderInv, FramesInOrder
<1>7. ClientsUpToDate'
      BY <1>1, <1>2, <1>3 DEF OrderInv, ClientsUpToDate
<1> QED  BY <1>4, <1>5, <1>6, <1>7 DEF OrderInv, FramesInOrder

(* The hand-over: the new server data socket starts with the whole buffer. *)
LEMMA FlushedFramesInOrder ==
    ASSUME TypeOK, RoutingInv, QueueInv, IsolationInv, OrderInv,
           NEW p \in Data, RegisterServerData(p)
    PROVE  OrderInv'
<1> USE SocketTypes
<1> DEFINE c == ConnOf[p]
           old == Replaced(server_data[c])
           new == Batch(p, pending[c])
           out == Both(old, new)
<1>1. /\ phase[p] = "absent" /\ Emit(out, {})
      /\ server_data' = [server_data EXCEPT ![c] = p]
      /\ pending' = [pending EXCEPT ![c] = <<>>]
      /\ UNCHANGED <<clients, sent, writer>>
      BY DEF RegisterServerData, Accept
<1>2. queue[p] = <<>> /\ writer[p] = "running" /\ p # server_data[c]
      BY <1>1, RoutedArePresent DEF QueueInv, Unused
<1>3. pending[c] \in Seq(Message) /\ <<>> \in Seq(Notice)
      BY PendingAreMessages, EmptySeq
<1>4. out \in [Peer -> Seq(Message)]
  <2>1. old \in [Peer -> Seq(Message)]
        BY MessageTypes, ToType DEF Replaced
  <2>2. new \in [Peer -> Seq(Message)]
        BY <1>3, EmptySeq DEF Batch
  <2> HIDE DEF old, new
  <2> QED  BY <2>1, <2>2, BothType
<1>5. out[p] = pending[c]
  <2>1. old[p] = <<>> /\ new[p] = pending[c]
        BY <1>2 DEF Replaced, To, Batch
  <2> HIDE DEF old, new
  <2>2. <<>> \o pending[c] = pending[c]
        BY <1>3, ConcatEmptySeq
  <2> QED  BY <2>1, <2>2 DEF Both
<1>6. ASSUME NEW q \in Peer, q # p
      PROVE  out[q] \in Seq(Notice)
  <2>1. old \in [Peer -> Seq(Notice)]
        BY Notices, NoticesAreOffers DEF Replaced
  <2>2. new[q] \in Seq(Notice)
        BY <1>3, <1>6 DEF Batch
  <2> HIDE DEF old, new
  <2> QED  BY <2>1, <2>2, OffersRespect
<1>7. queue' = Offered(out) /\ dropped' = dropped \cup Overflowing(out)
      BY <1>1 DEF Emit
<1> HIDE DEF out
<1>8. ASSUME NEW q \in Peer, q # p
      PROVE  KeepsOrder(q)
      BY <1>4, <1>6, <1>7, <1>8, NoticesOffered
<1>9. ASSUME p \notin dropped'
      PROVE  queue'[p] = pending[c]
  <2>1. queue'[p] = <<>> \o pending[c]
        BY <1>2, <1>4, <1>5, <1>7, <1>9, OfferedTo
  <2> QED  BY <1>3, <2>1, ConcatEmptySeq
<1>10. ASSUME NEW q \in Data \cup Client, q \notin dropped', NEW s \in Data \cup Client
       PROVE  Consecutive(queue'[q], s)
  <2>1. CASE q # p
        BY <1>8, <1>10, <2>1, NothingQueued DEF KeepsOrder, OrderInv, FramesInOrder
  <2>2. CASE q = p /\ s \in Client
        BY <1>9, <1>10, <2>2 DEF OrderInv, FramesInOrder
  <2>3. CASE q = p /\ s \notin Client
        BY <1>9, <1>10, <2>3, StrangersAbsent, FramesOfNobody
  <2> QED  BY <2>1, <2>2, <2>3
<1>11. ASSUME NEW b \in ConnId, NEW s \in Client
       PROVE  Consecutive(pending'[b], s) /\ EndsWith(pending'[b], s, sent'[s])
  <2>1. pending'[b] = <<>> \/ pending'[b] = pending[b]
        BY <1>1 DEF TypeOK
  <2> QED  BY <1>1, <2>1, NothingQueued DEF OrderInv, FramesInOrder
<1>12. ASSUME NEW b \in ConnId, NEW s \in Client,
              server_data'[b] # NoPeer, server_data'[b] \notin dropped'
       PROVE  EndsWith(queue'[server_data'[b]], s, sent'[s])
  <2>1. CASE b = c
    <3>1. server_data'[b] = p
          BY <1>1, <2>1 DEF TypeOK
    <3> QED  BY <1>1, <1>9, <1>12, <3>1 DEF OrderInv, FramesInOrder
  <2>2. CASE b # c
    <3>1. server_data'[b] = server_data[b] /\ server_data[b] \in Data /\ server_data[b] # p
          BY <1>1, <1>12, <2>2, RoutedArePresent DEF TypeOK
    <3>2. KeepsOrder(server_data[b])
          BY <1>8, <3>1
    <3> QED  BY <1>1, <1>12, <3>1, <3>2, NothingQueued DEF KeepsOrder, OrderInv, FramesInOrder
  <2> QED  BY <2>1, <2>2
<1>13. ASSUME NEW s \in Data, NEW x \in clients'[ConnOf[s]], x \notin dropped'
       PROVE  EndsWith(queue'[x], s, sent'[s])
  <2>1. x \in clients[ConnOf[s]] /\ x \in Client /\ x # p
        BY <1>1, SessionAssumption DEF TypeOK
  <2>2. KeepsOrder(x)
        BY <1>8, <2>1
  <2> QED  BY <1>1, <1>13, <2>1, <2>2, NothingQueued DEF KeepsOrder, OrderInv, ClientsUpToDate
<1> QED  BY <1>10, <1>11, <1>12, <1>13 DEF OrderInv, FramesInOrder, ClientsUpToDate

LEMMA StepOrderInv ==
    TypeOK /\ RoutingInv /\ QueueInv /\ IsolationInv /\ OrderInv /\ [Next]_vars => OrderInv'
<1> SUFFICES ASSUME TypeOK, RoutingInv, QueueInv, IsolationInv, OrderInv, [Next]_vars
             PROVE  OrderInv'
    OBVIOUS
<1> USE SocketTypes
(* The steps that offer nothing but notices, and route no frame anew. *)
<1>1. ASSUME NEW out \in [Peer -> Seq(Notice)], NEW retried, Emit(out, retried),
             UNCHANGED <<sent, pending, server_data, clients>>
      PROVE  OrderInv'
      BY <1>1, EmitKeepsOrder, NoticesKeepOrder
<1>2. ASSUME UNCHANGED <<queue, dropped, sent, pending, server_data, clients>>
      PROVE  OrderInv'
      BY <1>2 DEF OrderInv, FramesInOrder, ClientsUpToDate
<1>3. ASSUME NEW out \in [Peer -> Seq(Notice)], NEW retried, NEW r \in Peer,
             Finish(r, out, retried), UNCHANGED sent,
             \A c \in ConnId :
                 /\ pending'[c] = pending[c] \/ pending'[c] = <<>>
                 /\ server_data'[c] = server_data[c] \/ server_data'[c] = NoPeer
                 /\ clients'[c] \subseteq clients[c]
      PROVE  OrderInv'
      BY <1>3, FinishKeepsOrder, NoticesKeepOrder
<1>4. ASSUME NEW p \in Peer, RegisterRefused(p)
      PROVE  OrderInv'
      BY <1>2, <1>4 DEF RegisterRefused, Refuse, routing
<1>5. ASSUME NEW p \in Peer, SocketPing(p)
      PROVE  OrderInv'
  <2> DEFINE out == To({SlotHolder(p)}, Pong)
  <2>1. out \in [Peer -> Seq(Notice)]
        BY Notices, NoticesAreOffers
  <2>2. Emit(out, Peer) /\ UNCHANGED <<sent, pending, server_data, clients>>
        BY <1>5 DEF SocketPing, routing
  <2> HIDE DEF out
  <2> QED  BY <1>1, <2>1, <2>2
<1>6. ASSUME NEW p \in Peer, Write(p)
      PROVE  OrderInv'
  <2>1. /\ queue[p] \in Seq(Message) /\ queue[p] # <<>>
        /\ \A q \in Peer : queue'[q] = IF q = p THEN Tail(queue[p]) ELSE queue[q]
        /\ UNCHANGED <<dropped, sent, pending, server_data, clients>>
        BY <1>6 DEF Write, WriterSend, routing, TypeOK, PeerTypeOK
  <2>2. \A s : /\ Consecutive(queue[p], s) => Consecutive(Tail(queue[p]), s)
               /\ \A n : EndsWith(queue[p], s, n) => EndsWith(Tail(queue[p]), s, n)
        BY <2>1, HeadRemoved
  <2>3. \A q \in Peer : KeepsOrder(q)
        BY <2>1, <2>2 DEF KeepsOrder
  <2> QED  BY <2>1, <2>3, NoticesKeepOrder
<1>7. ASSUME NEW p \in Peer, SlowStep(p)
      PROVE  OrderInv'
  <2> DEFINE out == To({p}, Close(1013))
  <2>1. out \in [Peer -> Seq(Notice)]
        BY Notices, NoticesAreOffers
  <2>2. /\ queue' = Offered(out) /\ UNCHANGED <<dropped, sent, pending, server_data, clients>>
        /\ p \in dropped
        BY <1>7 DEF SlowStep, CloseSlow, routing, QueueInv
  <2>3. \A q \in Peer : q # p => out[q] = <<>>
        BY Unaddressed
  <2> HIDE DEF out
  <2>4. out \in [Peer -> Seq(Message)]
        BY <2>1, NoticesAreMessages
  <2>5. \A q \in Peer : q # p => queue'[q] = queue[q]
        BY <2>2, <2>3, <2>4, OfferedTo
  <2>6. \A q \in Peer : KeepsOrder(q)
        BY <2>2, <2>5 DEF KeepsOrder
  <2> QED  BY <2>2, <2>6, NoticesKeepOrder
<1>8. ASSUME NEW p \in Peer, SocketStep(p)
      PROVE  OrderInv'
  <2>1. UNCHANGED <<sent, pending, server_data, clients>>
        BY <1>8 DEF SocketStep, routing
  <2>2. CASE WriterFail(p)
    <3>1. /\ \A q \in Peer : queue'[q] = IF q = p THEN <<>> ELSE queue[q]
          /\ dropped' = dropped
          BY <2>2 DEF WriterFail, TypeOK, PeerTypeOK
    <3>2. \A q \in Peer : KeepsOrder(q)
          BY <3>1 DEF KeepsOrder
    <3> QED  BY <2>1, <3>2, NoticesKeepOrder
  <2>3. CASE EndRemote(p)
        BY <1>2, <2>1, <2>3 DEF EndRemote
  <2>4. ASSUME NEW code \in LimitCode, EndLimit(p, code)
        PROVE  OrderInv'
    <3> DEFINE out == To({p}, Close(code))
    <3>1. code \in CloseCode
          BY PeerAssumption DEF CloseCode
    <3>2. out \in [Peer -> Seq(Notice)]
          BY <3>1, Notices, NoticesAreOffers
    <3>3. Emit(out, {})
          BY <2>4 DEF EndLimit
    <3> HIDE DEF out
    <3> QED  BY <1>1, <2>1, <3>2, <3>3
  <2> QED  BY <1>8, <2>2, <2>3, <2>4 DEF SocketStep
<1>9. ASSUME NEW p \in Control, RegisterControl(p)
      PROVE  OrderInv'
  <2> DEFINE old == Replaced(server_control)
             new == To({p}, Sync(ConnectedIds))
             out == Both(old, new)
             others == Peer \ {server_control}
  <2>1. old \in [Peer -> Seq(Notice)] /\ new \in [Peer -> Seq(Notice)]
        BY Notices, ConnectedIdsType, NoticesAreOffers DEF Replaced
  <2>2. Emit(out, others) /\ UNCHANGED <<sent, pending, server_data, clients>>
        BY <1>9 DEF RegisterControl
  <2> HIDE DEF old, new, others
  <2>3. out \in [Peer -> Seq(Notice)]
        BY <2>1, NoticesAreOffers
  <2> HIDE DEF out
  <2> QED  BY <1>1, <2>2, <2>3
<1>10. ASSUME NEW p \in Client, RegisterClient(p)
       PROVE  OrderInv'
  <2> DEFINE out == ToControl(Connected(ConnOf[p]))
  <2>1. out \in [Peer -> Seq(Notice)]
        BY Notices, NoticesAreOffers DEF ToControl
  <2>2. /\ Emit(out, Peer) /\ UNCHANGED <<sent, pending, server_data>>
        /\ \A c \in ConnId : clients'[c] \subseteq clients[c] \cup {p}
        BY <1>10 DEF RegisterClient, TypeOK
  <2>3. queue[p] = <<>> /\ p # server_control
        BY <1>10, RoutedArePresent DEF RegisterClient, Accept, QueueInv, Unused
  <2>4. out[p] = <<>> /\ queue' = Offered(out)
        BY <2>2, <2>3, Unaddressed DEF ToControl, Emit
  <2> HIDE DEF out
  <2>5. out \in [Peer -> Seq(Message)]
        BY <2>1, NoticesAreMessages
  <2>6. queue'[p] = <<>>
        BY <2>3, <2>4, <2>5, OfferedTo
  <2>7. \A q \in Peer : KeepsOrder(q)
        BY <2>1, <2>2, EmitKeepsOrder
  <2> QED  BY <2>2, <2>6, <2>7, NoticesKeepOrder
<1>11. ASSUME NEW p \in Control, ControlPing(p)
       PROVE  OrderInv'
  <2> DEFINE out == To({p}, Pong)
  <2>1. out \in [Peer -> Seq(Notice)]
        BY Notices, NoticesAreOffers
  <2>2. Emit(out, Peer) /\ UNCHANGED <<sent, pending, server_data, clients>>
        BY <1>11 DEF ControlPing, routing
  <2> HIDE DEF out
  <2> QED  BY <1>1, <2>1, <2>2
<1>12. ASSUME NEW p \in Peer,
              \/ p \in Control /\ UnregisterControl(p)
              \/ p \in Client /\ UnregisterClient(p)
       PROVE  OrderInv'
  <2>1. /\ Finish(p, Silence, {}) /\ UNCHANGED <<sent, pending, server_data>>
        /\ \A c \in ConnId : clients'[c] \subseteq clients[c]
        BY <1>12 DEF UnregisterControl, UnregisterClient, TypeOK
  <2>2. Silence \in [Peer -> Seq(Notice)]
        BY NoticesAreOffers
  <2> QED  BY <1>3, <2>1, <2>2
<1>13. ASSUME NEW p \in Data, UnregisterServerData(p)
       PROVE  OrderInv'
  <2> DEFINE out == To(clients[ConnOf[p]], Close(1012))
  <2>1. out \in [Peer -> Seq(Notice)]
        BY Notices, NoticesAreOffers
  <2>2. /\ Finish(p, out, {}) /\ UNCHANGED <<sent, pending, clients>>
        /\ \A c \in ConnId : server_data'[c] = server_data[c] \/ server_data'[c] = NoPeer
        BY <1>13 DEF UnregisterServerData, Vacated, TypeOK
  <2> HIDE DEF out
  <2> QED  BY <1>3, <2>1, <2>2
<1>14. ASSUME NEW p \in Client, UnregisterLastClient(p)
       PROVE  OrderInv'
  <2> DEFINE c == ConnOf[p]
             toData == To({server_data[c]}, Close(1001))
             toControl == ToControl(Disconnected(c))
             out == Both(toData, toControl)
             others == Peer \ {server_data[c]}
  <2>1. toData \in [Peer -> Seq(Notice)] /\ toControl \in [Peer -> Seq(Notice)]
        BY Notices, NoticesAreOffers DEF ToControl
  <2>2. /\ Finish(p, out, others) /\ UNCHANGED sent
        /\ \A b \in ConnId :
              /\ pending'[b] = pending[b] \/ pending'[b] = <<>>
              /\ server_data'[b] = server_data[b] \/ server_data'[b] = NoPeer
              /\ clients'[b] \subseteq clients[b]
        BY <1>14 DEF UnregisterLastClient, TypeOK
  <2> HIDE DEF toData, toControl, others
  <2>3. out \in [Peer -> Seq(Notice)]
        BY <2>1, NoticesAreOffers
  <2> HIDE DEF out
  <2> QED  BY <1>3, <2>2, <2>3
<1>15. ASSUME NEW x \in Client, NudgeHasClient(x) \/ NudgeHasServerData(x)
       PROVE  OrderInv'
       BY <1>2, <1>15 DEF NudgeHasClient, NudgeHasServerData, peerVars, routing
<1>16. ASSUME NEW x \in Client, NudgeSync(x)
       PROVE  OrderInv'
  <2> DEFINE out == ToControl(Sync(ConnectedIds))
  <2>1. out \in [Peer -> Seq(Notice)]
        BY Notices, ConnectedIdsType, NoticesAreOffers DEF ToControl
  <2>2. Emit(out, Peer) /\ UNCHANGED <<sent, pending, server_data, clients>>
        BY <1>16 DEF NudgeSync, routing
  <2> HIDE DEF out
  <2> QED  BY <1>1, <2>1, <2>2
<1>17. ASSUME NEW x \in Client, NudgeReset(x)
       PROVE  OrderInv'
  <2> DEFINE out == ToControl(Close(1011))
  <2>1. out \in [Peer -> Seq(Notice)]
        BY Notices, NoticesAreOffers DEF ToControl
  <2>2. Emit(out, {}) /\ UNCHANGED <<sent, pending, server_data, clients>>
        BY <1>17 DEF NudgeReset, routing
  <2> HIDE DEF out
  <2> QED  BY <1>1, <2>1, <2>2
<1>18. CASE UNCHANGED vars
       BY <1>2, <1>18 DEF vars, peerVars, routing
<1> QED
    BY <1>4, <1>5, <1>6, <1>7, <1>8, <1>9, <1>10, <1>11, <1>12, <1>13, <1>14, <1>15,
       <1>16, <1>17, <1>18, ServerDataFrameInOrder, ForwardedFrameInOrder,
       BufferedFrameInOrder, FlushedFramesInOrder
    DEF Next, NudgeStep, Finished

(* What waits for a socket that never overflowed is an uninterrupted run of  *)
(* each sender's frames in their order, also across a hand-over between      *)
(* server data sockets (FramesInOrder).                                      *)
THEOREM FramesKeepOrder == Spec => []FramesInOrder
<1>1. Init => IsolationInv /\ OrderInv
      BY InitIsolationInv, InitOrderInv
<1>2. TypeOK /\ RoutingInv /\ QueueInv /\ IsolationInv /\ OrderInv /\ [Next]_vars
          => (IsolationInv /\ OrderInv)'
      BY StepIsolationInv, StepOrderInv
<1>3. OrderInv => FramesInOrder
      BY DEF OrderInv
<1> QED  BY <1>1, <1>2, <1>3, QueueInvariant, PTL DEF Spec

-----------------------------------------------------------------------------
(* Loss. What waits in a queue stays there until it is written or the write  *)
(* task stops, and what waits in a buffer stays until the buffer is flushed. *)
LEMMA OfferedKeeps ==
    ASSUME TypeOK, QueueInv, NEW out \in [Peer -> Seq(Message)], NEW p \in Peer
    PROVE  /\ p \in Overflowing(out) => Len(Offered(out)[p]) = MaxQueue
           /\ \A i \in DOMAIN queue[p] :
                  i \in DOMAIN Offered(out)[p] /\ Offered(out)[p][i] = queue[p][i]
<1> DEFINE q == queue[p]
           ms == out[p]
           all == q \o ms
<1>1. q \in Seq(Message) /\ ms \in Seq(Message) /\ Len(q) <= MaxQueue
      BY DEF TypeOK, PeerTypeOK, QueueInv
<1>2. /\ Len(q) \in Nat /\ Len(ms) \in Nat /\ MaxQueue \in Nat /\ 1 <= MaxQueue
      /\ DOMAIN q = 1 .. Len(q)
      BY <1>1, LenProperties, PeerAssumption
<1>3. /\ all \in Seq(Message) /\ Len(all) = Len(q) + Len(ms) /\ DOMAIN all = 1 .. Len(all)
      /\ \A i \in 1 .. Len(q) + Len(ms) : all[i] = IF i <= Len(q) THEN q[i] ELSE ms[i - Len(q)]
      BY <1>1, ConcatProperties, LenProperties
<1>4. Offered(out)[p] = IF writer[p] = "stopped" THEN q ELSE Fill(q, ms)
      BY DEF Offered
<1> HIDE DEF q, ms, all
<1>5. CASE writer[p] = "stopped"
      BY <1>4, <1>5 DEF Overflowing, q
<1>6. CASE writer[p] # "stopped" /\ Len(all) <= MaxQueue
  <2>1. Offered(out)[p] = all
        BY <1>4, <1>6 DEF Fill, all
  <2>2. p \notin Overflowing(out)
        BY <1>2, <1>3, <1>6 DEF Overflowing, all, q, ms
  <2>3. \A i \in DOMAIN q : i \in DOMAIN all /\ all[i] = q[i]
        BY <1>2, <1>3
  <2> QED  BY <2>1, <2>2, <2>3 DEF q
<1>7. CASE writer[p] # "stopped" /\ ~(Len(all) <= MaxQueue)
  <2> DEFINE cut == SubSeq(all, 1, MaxQueue)
  <2>1. Offered(out)[p] = cut
        BY <1>4, <1>7 DEF Fill, all
  <2>2. \A i \in 1 .. MaxQueue : all[i] \in Message
        BY <1>2, <1>3, <1>7, ElementOfSeq
  <2>3. /\ cut \in Seq(Message) /\ Len(cut) = MaxQueue
        /\ \A i \in 1 .. MaxQueue : cut[i] = all[i]
        BY <1>2, <2>2, SubSeqProperties
  <2>4. DOMAIN cut = 1 .. MaxQueue
        BY <2>3, LenProperties
  <2> HIDE DEF cut
  <2>5. \A i \in DOMAIN q : i \in DOMAIN cut /\ cut[i] = q[i]
        BY <1>1, <1>2, <1>3, <2>3, <2>4 DEF q
  <2> QED  BY <2>1, <2>3, <2>5 DEF q
<1> QED  BY <1>5, <1>6, <1>7

LEMMA QueuedIsKept ==
    ASSUME TypeOK, QueueInv, QueueStep, NEW d \in Peer, d # NoPeer,
           NEW i \in DOMAIN queue[d]
    PROVE  \/ \E j \in DOMAIN queue'[d] : queue'[d][j] = queue[d][i]
           \/ writer'[d] = "stopped"
           \/ WrittenTo(d, queue[d][i])
<1>0. queue[d] \in Seq(Message) /\ queue \in [Peer -> Seq(Message)]
      /\ writer \in [Peer -> {"running", "closing", "stopped"}]
      BY DEF TypeOK, PeerTypeOK
<1>1. CASE Offering
  <2>1. PICK out \in [Peer -> Seq(Message)], retried \in SUBSET Peer : Emit(out, retried)
        BY <1>1 DEF Offering
  <2>2. queue' = Offered(out)
        BY <2>1 DEF Emit
  <2> QED  BY <2>2, OfferedKeeps
<1>2. CASE Finishing
  <2> PICK p \in Peer, out \in [Peer -> Seq(Message)], retried \in SUBSET Peer :
            Finish(p, out, retried)
      BY <1>2 DEF Finishing
  <2>1. CASE p = d
        BY <1>0, <2>1 DEF Finish
  <2>2. CASE p # d
    <3>1. queue'[d] = Offered(out)[d]
          BY <2>2 DEF Finish, Offered
    <3> QED  BY <3>1, OfferedKeeps
  <2> QED  BY <2>1, <2>2
<1>3. CASE Leaving
      BY <1>3 DEF Leaving
<1>4. ASSUME NEW p \in Peer, Write(p)
      PROVE  \/ \E j \in DOMAIN queue'[d] : queue'[d][j] = queue[d][i]
             \/ WrittenTo(d, queue[d][i])
  <2>1. queue' = [queue EXCEPT ![p] = Tail(@)] /\ queue[p] # <<>>
        BY <1>4 DEF Write, WriterSend
  <2>2. CASE p # d
        BY <1>0, <2>1, <2>2
  <2>3. CASE p = d /\ i = 1
    <3>1. Head(queue[d]) = queue[d][1]
          BY <1>0, <2>1, <2>3, HeadTailProperties
    <3>2. queue'[d] = Tail(queue[d])
          BY <1>0, <2>1, <2>3
    <3> QED  BY <2>1, <2>3, <3>1, <3>2 DEF WrittenTo
  <2>4. CASE p = d /\ i # 1
    <3>1. queue'[d] = Tail(queue[d]) /\ queue[d] # <<>>
          BY <1>0, <2>1, <2>4
    <3>2. /\ Tail(queue[d]) \in Seq(Message) /\ Len(Tail(queue[d])) = Len(queue[d]) - 1
          /\ \A j \in 1 .. Len(Tail(queue[d])) : Tail(queue[d])[j] = queue[d][j + 1]
          BY <1>0, <3>1, HeadTailProperties
    <3>3. i \in 2 .. Len(queue[d]) /\ Len(queue[d]) \in Nat
          BY <1>0, <2>4, LenProperties
    <3>4. i - 1 \in 1 .. Len(Tail(queue[d])) /\ Tail(queue[d])[i - 1] = queue[d][i]
          BY <3>2, <3>3
    <3>5. DOMAIN Tail(queue[d]) = 1 .. Len(Tail(queue[d]))
          BY <3>2, LenProperties
    <3> QED  BY <3>1, <3>4, <3>5
  <2> QED  BY <2>2, <2>3, <2>4
<1>5. ASSUME NEW p \in Peer, WriterFail(p)
      PROVE  queue'[d] = queue[d] \/ writer'[d] = "stopped"
      BY <1>0, <1>5 DEF WriterFail
<1>6. ASSUME NEW p \in Peer, CloseSlow(p)
      PROVE  \E j \in DOMAIN queue'[d] : queue'[d][j] = queue[d][i]
  <2> DEFINE out == To({p}, Close(1013))
  <2>1. out \in [Peer -> Seq(Message)]
        BY MessageTypes, ToType
  <2>2. queue' = Offered(out)
        BY <1>6 DEF CloseSlow
  <2> HIDE DEF out
  <2>3. i \in DOMAIN Offered(out)[d] /\ Offered(out)[d][i] = queue[d][i]
        BY <2>1, OfferedKeeps
  <2> QED  BY <2>2, <2>3
<1> QED  BY <1>1, <1>2, <1>3, <1>4, <1>5, <1>6 DEF QueueStep

(* What a full buffer gives up is its oldest frame. *)
LEMMA BufferedKeeps ==
    ASSUME NEW q \in Seq(Message), NEW m \in Message, Len(q) <= PendingLimit
    PROVE  LET all == Buffered(q, m) IN
           /\ \E j \in DOMAIN all : all[j] = m
           /\ \A i \in DOMAIN q :
                  \/ \E j \in DOMAIN all : all[j] = q[i]
                  \/ q[i] = Head(q) /\ Len(all) = PendingLimit
<1> DEFINE longer == Append(q, m)
           all == Buffered(q, m)
<1>1. /\ Len(q) \in Nat /\ DOMAIN q = 1 .. Len(q) /\ PendingLimit \in Nat /\ 1 <= PendingLimit
      BY LenProperties, SessionAssumption
<1>2. /\ longer \in Seq(Message) /\ longer # <<>> /\ Len(longer) = Len(q) + 1
      /\ \A i \in 1 .. Len(q) : longer[i] = q[i]
      /\ longer[Len(q) + 1] = m /\ DOMAIN longer = 1 .. Len(q) + 1
      BY AppendProperties, LenProperties
<1> HIDE DEF longer
<1>3. CASE Len(longer) <= PendingLimit
  <2>1. all = longer
        BY <1>3 DEF Buffered, longer
  <2> QED  BY <1>1, <1>2, <2>1
<1>4. CASE ~(Len(longer) <= PendingLimit)
  <2>1. all = Tail(longer)
        BY <1>4 DEF Buffered, longer
  <2>2. /\ all \in Seq(Message) /\ Len(all) = Len(q)
        /\ \A j \in 1 .. Len(q) : all[j] = longer[j + 1]
        BY <1>1, <1>2, <2>1, HeadTailProperties
  <2>3. Len(q) = PendingLimit
    <3>1. Len(longer) = Len(q) + 1
          BY <1>2
    <3>2. Len(q) \in Nat /\ PendingLimit \in Nat
          BY <1>1
    <3> HIDE DEF all
    <3> QED  BY <1>4, <3>1, <3>2
  <2>4. DOMAIN all = 1 .. Len(q)
        BY <2>2, LenProperties
  <2> HIDE DEF all
  <2>5. Len(q) \in DOMAIN all /\ all[Len(q)] = m
        BY <1>1, <1>2, <2>2, <2>3, <2>4
  <2>6. ASSUME NEW i \in DOMAIN q, i # 1
        PROVE  i - 1 \in DOMAIN all /\ all[i - 1] = q[i]
        BY <1>1, <1>2, <2>2, <2>4, <2>6
  <2>7. q[1] = Head(q)
        BY <1>1, <2>3, HeadTailProperties
  <2> QED  BY <2>2, <2>3, <2>5, <2>6, <2>7 DEF all
<1> QED  BY <1>3, <1>4

(* What a step does to the pending buffer of one connection. *)
PendingStep(c) ==
    \/ UNCHANGED <<pending[c], server_data[c]>>
    \/ clients'[c] = {}
    \/ server_data[c] # NoPeer
    \/ \E r \in Client : ConnOf[r] = c /\ BufferClientFrame(r)
    \/ \E r \in Data : ConnOf[r] = c /\ RegisterServerData(r)

LEMMA StepPending ==
    ASSUME TypeOK, [Next]_vars, NEW c \in ConnId
    PROVE  PendingStep(c)
<1> USE SocketTypes
<1>1. ASSUME NEW r \in Peer,
             \/ RegisterRefused(r) \/ SocketPing(r) \/ Write(r) \/ SlowStep(r) \/ SocketStep(r)
             \/ r \in Control /\ (ControlPing(r) \/ RegisterControl(r) \/ UnregisterControl(r))
             \/ r \in Data /\ ServerDataFrame(r)
             \/ r \in Client /\ (ForwardClientFrame(r) \/ RegisterClient(r) \/ UnregisterClient(r)
                                   \/ NudgeStep(r))
      PROVE  UNCHANGED <<pending, server_data>>
      BY <1>1 DEF RegisterRefused, SocketPing, Write, SlowStep, SocketStep, ControlPing,
            RegisterControl, UnregisterControl, ServerDataFrame, ForwardClientFrame,
            RegisterClient, UnregisterClient, NudgeStep, NudgeHasClient, NudgeHasServerData,
            NudgeSync, NudgeReset, routing
<1>2. ASSUME NEW r \in Data, RegisterServerData(r)
      PROVE  PendingStep(c)
      BY <1>2 DEF RegisterServerData, PendingStep, TypeOK
<1>3. ASSUME NEW r \in Client, BufferClientFrame(r)
      PROVE  PendingStep(c)
      BY <1>3 DEF BufferClientFrame, PendingStep, TypeOK
<1>4. ASSUME NEW r \in Data, UnregisterServerData(r)
      PROVE  PendingStep(c)
  <2>1. UNCHANGED pending /\ server_data' = [server_data EXCEPT ![ConnOf[r]] = Vacated(@, r)]
        BY <1>4 DEF UnregisterServerData
  <2>2. server_data'[c] = server_data[c] \/ server_data[c] = r
        BY <2>1 DEF Vacated, TypeOK
  <2> QED  BY <2>1, <2>2, SessionAssumption DEF PendingStep
<1>5. ASSUME NEW r \in Client, UnregisterLastClient(r)
      PROVE  PendingStep(c)
  <2>1. /\ clients' = [clients EXCEPT ![ConnOf[r]] = {}]
        /\ pending' = [pending EXCEPT ![ConnOf[r]] = <<>>]
        /\ server_data' = [server_data EXCEPT ![ConnOf[r]] = NoPeer]
        BY <1>5 DEF UnregisterLastClient
  <2> QED  BY <2>1 DEF PendingStep, TypeOK
<1>6. CASE UNCHANGED vars
      BY <1>6 DEF vars, routing, PendingStep
<1> QED
    BY <1>1, <1>2, <1>3, <1>4, <1>5, <1>6 DEF Next, Finished, PendingStep

(* How a step may part with a frame of connection c. *)
Kept(f, c) ==
    \/ Underway(f, c)'
    \/ clients'[c] = {}
    \/ server_data[c] # NoPeer
          /\ (server_data'[c] # server_data[c] \/ writer'[server_data[c]] = "stopped")
    \/ WrittenTo(server_data[c], f)
    \/ PushedOut(c, f)
    \/ RefusedBy(server_data'[c])

(* A frame that waits for the current server data socket. *)
LEMMA QueuedFrameKept ==
    ASSUME TypeOK, RoutingInv, QueueInv, [Next]_vars, NEW c \in ConnId, NEW f,
           server_data[c] # NoPeer, Underway(f, c)
    PROVE  Kept(f, c)
<1> DEFINE d == server_data[c]
<1>1. d \in Peer /\ d # NoPeer
      BY SocketTypes DEF TypeOK
<1>2. pending[c] = <<>>
      BY DEF RoutingInv, PendingSound
<1>3. PICK i \in DOMAIN queue[d] : queue[d][i] = f
      BY <1>2 DEF Underway
<1>4. QueueStep
      BY StepQueues
<1> HIDE DEF d
<1>5. \/ \E j \in DOMAIN queue'[d] : queue'[d][j] = f
      \/ writer'[d] = "stopped"
      \/ WrittenTo(d, f)
      BY <1>1, <1>3, <1>4, QueuedIsKept
<1>6. CASE server_data'[c] = d /\ \E j \in DOMAIN queue'[d] : queue'[d][j] = f
      BY <1>1, <1>6 DEF Kept, Underway, d
<1> QED  BY <1>1, <1>5, <1>6 DEF Kept, d

(* A frame that is flushed to a new server data socket. *)
LEMMA FlushedFrameKept ==
    ASSUME TypeOK, RoutingInv, QueueInv, NEW p \in Data, RegisterServerData(p),
           NEW f, NEW i \in DOMAIN pending[ConnOf[p]], pending[ConnOf[p]][i] = f
    PROVE  Kept(f, ConnOf[p])
<1> USE SocketTypes
<1> DEFINE c == ConnOf[p]
           old == Replaced(server_data[c])
           new == Batch(p, pending[c])
           out == Both(old, new)
<1>1. /\ phase[p] = "absent" /\ Emit(out, {})
      /\ server_data' = [server_data EXCEPT ![c] = p]
      /\ UNCHANGED writer
      BY DEF RegisterServerData, Accept
<1>2. queue[p] = <<>> /\ writer[p] = "running" /\ p # server_data[c]
      BY <1>1, RoutedArePresent DEF QueueInv, Unused
<1>3. pending[c] \in Seq(Message)
      BY PendingAreMessages
<1>4. out \in [Peer -> Seq(Message)]
  <2>1. old \in [Peer -> Seq(Message)]
        BY MessageTypes, ToType DEF Replaced
  <2>2. new \in [Peer -> Seq(Message)]
        BY <1>3, EmptySeq DEF Batch
  <2> HIDE DEF old, new
  <2> QED  BY <2>1, <2>2, BothType
<1>5. out[p] = pending[c]
  <2>1. old[p] = <<>> /\ new[p] = pending[c]
        BY <1>2 DEF Replaced, To, Batch
  <2> HIDE DEF old, new
  <2>2. <<>> \o pending[c] = pending[c]
        BY <1>3, ConcatEmptySeq
  <2> QED  BY <2>1, <2>2 DEF Both
<1>6. queue' = Offered(out) /\ dropped' = dropped \cup Overflowing(out)
      BY <1>1 DEF Emit
<1>7. server_data'[c] = p /\ p # NoPeer
      BY <1>1, SessionAssumption DEF TypeOK
<1> HIDE DEF out
<1>8. CASE p \in Overflowing(out)
  <2>1. Len(Offered(out)[p]) = MaxQueue
        BY <1>4, <1>8, OfferedKeeps
  <2> QED  BY <1>6, <1>7, <1>8, <2>1 DEF Kept, RefusedBy
<1>9. CASE p \notin Overflowing(out)
  <2>1. queue'[p] = <<>> \o pending[c]
        BY <1>2, <1>4, <1>5, <1>6, <1>9, OfferedTo
  <2>2. queue'[p] = pending[c]
        BY <1>3, <2>1, ConcatEmptySeq
  <2> QED  BY <1>7, <2>2 DEF Kept, Underway
<1> QED  BY <1>8, <1>9

(* A frame that is buffered while another one arrives, or that arrives. *)
LEMMA BufferedFrameKept ==
    ASSUME TypeOK, RoutingInv, NEW r \in Client, BufferClientFrame(r), NEW f,
           \/ f = Frame(r, sent[r] + 1)
           \/ \E i \in DOMAIN pending[ConnOf[r]] : pending[ConnOf[r]][i] = f
    PROVE  Kept(f, ConnOf[r])
<1> DEFINE c == ConnOf[r]
           m == Frame(r, sent[r] + 1)
           q == pending[c]
<1>1. /\ server_data[c] = NoPeer /\ server_data'[c] = NoPeer
      /\ pending' = [pending EXCEPT ![c] = Buffered(@, m)]
      BY DEF BufferClientFrame
<1>2. c \in ConnId /\ q \in Seq(Message) /\ m \in Message
  <2>1. sent[r] + 1 \in Nat /\ c \in ConnId /\ r \in Peer
        BY SocketTypes DEF TypeOK
  <2>2. q \in Seq(Message)
        BY <2>1, PendingAreMessages
  <2> QED  BY <2>1, <2>2, MessageTypes
<1>3. Len(q) <= PendingLimit
  <2>1. CASE q = <<>>
    <3>1. Len(q) = 0
          BY <2>1, EmptySeq
    <3> QED  BY <3>1, SessionAssumption
  <2>2. CASE q # <<>>
        BY <1>2, <2>2 DEF RoutingInv, PendingSound
  <2> QED  BY <2>1, <2>2
<1>4. pending'[c] = Buffered(q, m)
      BY <1>1, <1>2 DEF TypeOK
<1>5. f = m \/ \E i \in DOMAIN q : q[i] = f
      OBVIOUS
<1> HIDE DEF m, q, c
<1>6. /\ \E j \in DOMAIN Buffered(q, m) : Buffered(q, m)[j] = m
      /\ \A i \in DOMAIN q :
            \/ \E j \in DOMAIN Buffered(q, m) : Buffered(q, m)[j] = q[i]
            \/ q[i] = Head(q) /\ Len(Buffered(q, m)) = PendingLimit
      BY <1>2, <1>3, BufferedKeeps
<1>7. \/ \E j \in DOMAIN pending'[c] : pending'[c][j] = f
      \/ f = Head(q) /\ Len(pending'[c]) = PendingLimit
      BY <1>4, <1>5, <1>6
<1>8. CASE \E j \in DOMAIN pending'[c] : pending'[c][j] = f
      BY <1>8 DEF Kept, Underway, c
<1>9. CASE f = Head(q) /\ Len(pending'[c]) = PendingLimit
      BY <1>1, <1>9 DEF Kept, PushedOut, q, c
<1> QED  BY <1>7, <1>8, <1>9

(* A frame that is forwarded at once. *)
LEMMA ForwardedFrameKept ==
    ASSUME TypeOK, QueueInv, NEW p \in Client, ForwardClientFrame(p),
           NEW m, m = Frame(p, sent[p] + 1)
    PROVE  Kept(m, ConnOf[p])
<1> USE SocketTypes
<1> DEFINE c == ConnOf[p]
           d == server_data[c]
           out == To({d}, m)
<1>1. /\ Emit(out, Peer) /\ d # NoPeer /\ UNCHANGED <<server_data, writer>>
      BY DEF ForwardClientFrame, routing
<1>2. d \in Peer
      BY <1>1 DEF TypeOK
<1>3. m \in Message
  <2>1. sent[p] + 1 \in Nat
        BY DEF TypeOK
  <2> QED  BY <2>1, MessageTypes
<1>4. out \in [Peer -> Seq(Message)] /\ out[d] = <<m>>
  <2> HIDE DEF d
  <2> QED  BY <1>2, <1>3, ToType DEF To
<1>5. queue' = Offered(out) /\ dropped' = dropped \cup Overflowing(out)
      BY <1>1 DEF Emit
<1>6. server_data'[c] = d
      BY <1>1
<1> HIDE DEF out
<1>7. CASE writer[d] = "stopped"
      BY <1>1, <1>7 DEF Kept
<1>8. CASE d \in Overflowing(out)
  <2>1. Len(Offered(out)[d]) = MaxQueue
        BY <1>2, <1>4, <1>8, OfferedKeeps
  <2> QED  BY <1>1, <1>5, <1>6, <1>8, <2>1 DEF Kept, RefusedBy
<1>9. CASE writer[d] # "stopped" /\ d \notin Overflowing(out)
  <2>1. queue'[d] = queue[d] \o <<m>>
        BY <1>2, <1>4, <1>5, <1>9, OfferedTo
  <2>2. queue[d] \in Seq(Message) /\ <<m>> \in Seq(Message)
        BY <1>2, <1>3 DEF TypeOK, PeerTypeOK
  <2>3. Len(queue[d]) \in Nat /\ Len(<<m>>) = 1 /\ <<m>>[1] = m
        BY <2>2, LenProperties
  <2> HIDE DEF d
  <2>4. \E j \in DOMAIN queue'[d] : queue'[d][j] = m
    <3> DEFINE j == Len(queue[d]) + 1
    <3>1. Len(queue'[d]) = j /\ queue'[d] \in Seq(Message)
          BY <2>1, <2>2, <2>3, ConcatProperties
    <3>2. j \in DOMAIN queue'[d]
          BY <2>3, <3>1, LenProperties
    <3>3. queue'[d][j] = m
          BY <2>1, <2>2, <2>3, ConcatProperties
    <3> QED  BY <3>2, <3>3
  <2>5. server_data'[c] # NoPeer /\ \E j \in DOMAIN queue'[server_data'[c]] :
            queue'[server_data'[c]][j] = m
        BY <1>1, <1>6, <2>4
  <2> HIDE DEF c
  <2>6. Kept(m, c)
        BY <2>5 DEF Kept, Underway
  <2> QED  BY <2>6 DEF c
<1> QED  BY <1>7, <1>8, <1>9

(* Only handle_frame takes frames in. *)
LEMMA StepSent ==
    ASSUME TypeOK, [Next]_vars, NEW x \in Client
    PROVE  sent'[x] = sent[x] \/ ForwardClientFrame(x) \/ BufferClientFrame(x)
<1> USE SocketTypes
<1>1. ASSUME NEW r \in Peer,
             \/ RegisterRefused(r) \/ SocketPing(r) \/ Write(r) \/ SlowStep(r) \/ SocketStep(r)
             \/ r \in Control /\ (RegisterControl(r) \/ ControlPing(r) \/ UnregisterControl(r))
             \/ r \in Data /\ (RegisterServerData(r) \/ UnregisterServerData(r))
             \/ r \in Client /\ (RegisterClient(r) \/ UnregisterClient(r)
                                   \/ UnregisterLastClient(r) \/ NudgeStep(r))
      PROVE  UNCHANGED sent
      BY <1>1 DEF RegisterRefused, SocketPing, Write, SlowStep, SocketStep, RegisterControl,
            ControlPing, UnregisterControl, RegisterServerData, UnregisterServerData,
            RegisterClient, UnregisterClient, UnregisterLastClient, NudgeStep, NudgeHasClient,
            NudgeHasServerData, NudgeSync, NudgeReset
<1>2. ASSUME NEW r \in Data \cup Client, r # x,
             ServerDataFrame(r) \/ ForwardClientFrame(r) \/ BufferClientFrame(r)
      PROVE  sent'[x] = sent[x]
  <2>1. sent' = [sent EXCEPT ![r] = @ + 1]
        BY <1>2 DEF ServerDataFrame, ForwardClientFrame, BufferClientFrame, NewFrame
  <2> QED  BY <1>2, <2>1 DEF TypeOK
<1>3. CASE UNCHANGED vars
      BY <1>3 DEF vars
<1>4. \A r \in Data : r # x
      BY SessionAssumption
<1> QED  BY <1>1, <1>2, <1>3, <1>4 DEF Next, Finished

LEMMA StepFramesGetThrough ==
    ASSUME TypeOK, RoutingInv, QueueInv, [Next]_vars, NEW x \in Client, NEW n \in 1 .. sent'[x],
           Underway(Frame(x, n), ConnOf[x]) \/ n > sent[x]
    PROVE  Kept(Frame(x, n), ConnOf[x])
<1> DEFINE c == ConnOf[x]
           f == Frame(x, n)
<1>1. c \in ConnId
      BY SocketTypes
<1>2. CASE n > sent[x]
  <2>1. sent' = [sent EXCEPT ![x] = @ + 1] /\ (ForwardClientFrame(x) \/ BufferClientFrame(x))
    <3>1. sent'[x] # sent[x]
          BY <1>2 DEF TypeOK
    <3> QED  BY <3>1, StepSent DEF ForwardClientFrame, BufferClientFrame, NewFrame
  <2>2. n = sent[x] + 1
    <3>1. sent[x] \in Nat /\ sent'[x] = sent[x] + 1
          BY <2>1 DEF TypeOK
    <3> QED  BY <1>2, <3>1
  <2> QED  BY <2>1, <2>2, ForwardedFrameKept, BufferedFrameKept
<1> HIDE DEF f
<1>3. CASE Underway(f, c) /\ server_data[c] # NoPeer
      BY <1>1, <1>3, QueuedFrameKept DEF f
<1>4. CASE Underway(f, c) /\ server_data[c] = NoPeer
  <2>1. PICK i \in DOMAIN pending[c] : pending[c][i] = f
        BY <1>4 DEF Underway
  <2>2. CASE UNCHANGED <<pending[c], server_data[c]>>
        BY <2>1, <2>2 DEF Kept, Underway, f
  <2>3. CASE clients'[c] = {}
        BY <2>3 DEF Kept
  <2>4. ASSUME NEW r \in Client, ConnOf[r] = c, BufferClientFrame(r)
        PROVE  Kept(f, c)
        BY <2>1, <2>4, BufferedFrameKept
  <2>5. ASSUME NEW r \in Data, ConnOf[r] = c, RegisterServerData(r)
        PROVE  Kept(f, c)
        BY <2>1, <2>5, FlushedFrameKept
  <2> QED  BY <1>1, <1>4, <2>2, <2>3, <2>4, <2>5, StepPending DEF PendingStep, f
<1> QED  BY <1>2, <1>3, <1>4 DEF f

(* A client's frame gets through to the server data socket, unless it is     *)
(* lost in one of the ways the relay knows of (FramesGetThrough).            *)
THEOREM FramesAreNotLost == Spec => FramesGetThrough
<1> DEFINE GetThrough ==
        \A x \in Client : \A n \in 1 .. sent'[x] :
            Underway(Frame(x, n), ConnOf[x]) \/ n > sent[x] => Kept(Frame(x, n), ConnOf[x])
<1>1. TypeOK /\ RoutingInv /\ QueueInv /\ [Next]_vars => GetThrough
      BY StepFramesGetThrough
<1>2. GetThrough <=>
        \A x \in Client : \A n \in 1 .. sent'[x] :
            LET c == ConnOf[x]
                d == server_data[c]
                f == Frame(x, n)
            IN  Underway(f, c) \/ n > sent[x] =>
                    \/ Underway(f, c)'
                    \/ clients'[c] = {}
                    \/ d # NoPeer /\ (server_data'[c] # d \/ writer'[d] = "stopped")
                    \/ WrittenTo(d, f)
                    \/ PushedOut(c, f)
                    \/ RefusedBy(server_data'[c])
      BY DEF Kept
<1> QED  BY <1>1, <1>2, QueueInvariant, PTL DEF Spec, FramesGetThrough
=============================================================================
