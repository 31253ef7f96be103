--------------------------- MODULE NodeRelayProofs ----------------------------
(* Theorems about NodeRelay, for any number of connections, channels, names,  *)
(* auth values and visitor streams.                                           *)
EXTENDS NodeRelay, SequenceTheorems, TLAPS

LEMMA InitTypeOK == Init => TypeOK
BY EmptySeq, NodeAssumption DEF Init, TypeOK

LEMMA QueueTypes ==
    ASSUME NEW q \in Seq(Binding)
    PROVE  /\ q # <<>> => Head(q) \in Binding /\ Tail(q) \in Seq(Binding)
           /\ \A b \in Binding : Append(q, b) \in Seq(Binding)
BY HeadTailProperties, AppendProperties

LEMMA RegisteredType ==
    ASSUME NEW ch \in Channel, NEW auth \in Auth
    PROVE  /\ Registered(ch, auth) \in Endpoint
           /\ Registered(ch, auth) # Nobody
           /\ Registered(ch, auth).connection_id = ConnOf[ch]
           /\ Registered(ch, auth).mux = ch
           /\ Registered(ch, auth).auth = auth
BY NodeAssumption DEF Registered, Endpoint

LEMMA RetainedType ==
    ASSUME TypeOK, NEW c
    PROVE  /\ Retained(c) \in [Name -> Endpoint \cup {Nobody}]
           /\ \A n \in Name : Retained(c)[n] # Nobody
                => Retained(c)[n] = providers[n] /\ providers[n].connection_id # c
           /\ \A n \in Name : providers[n] # Nobody /\ providers[n].connection_id # c
                => Retained(c)[n] = providers[n]
BY DEF Retained, TypeOK

(* One step for each action. *)
LEMMA StepTypeOK == TypeOK /\ [Next]_vars => TypeOK'
  <1> SUFFICES ASSUME TypeOK, [Next]_vars PROVE TypeOK'
    OBVIOUS
  <1> USE NodeAssumption
  <1>1. ASSUME Connect \/ Disconnect PROVE TypeOK'
    BY <1>1 DEF TypeOK, Connect, Disconnect, controlVars, tables, channelVars, visitVars
  <1>2. ASSUME NEW ids \in SUBSET ConnId, ControlEvent(ids) PROVE TypeOK'
    BY <1>2 DEF TypeOK, ControlEvent, controlVars, tables, channelVars, visitVars
  <1>3. ASSUME NEW c \in ConnId, AlreadyActive(c) PROVE TypeOK'
    BY <1>3 DEF TypeOK, AlreadyActive, controlVars, tables, channelVars, visitVars
  <1>4. ASSUME NEW ch \in Channel, StartConnection(ch) PROVE TypeOK'
    BY <1>4 DEF TypeOK, StartConnection, Spawn, visitVars
  <1>5. ASSUME NEW ch \in Channel, NEW ok \in BOOLEAN, Dial(ch, ok) PROVE TypeOK'
    BY <1>5 DEF TypeOK, Dial, controlVars, tables, visitVars
  <1>6. ASSUME NEW ch \in Channel, BindAccepted(ch) PROVE TypeOK'
    <2> DEFINE b == Head(binds[ch])
    <2>1. b \in Binding /\ binds' \in [Channel -> Seq(Binding)]
      BY <1>6, QueueTypes DEF BindAccepted, TakeBind, TypeOK
    <2>2. b.name \in Name /\ b.auth \in Auth
      BY <2>1 DEF Binding
    <2> HIDE DEF b
    <2>3. providers' = [providers EXCEPT ![b.name] = Registered(ch, b.auth)]
      BY <1>6 DEF BindAccepted, b
    <2>4. /\ providers' \in [Name -> Endpoint \cup {Nobody}]
          /\ \A n \in Name : providers'[n] # Nobody
                => providers'[n].connection_id = ConnOf[providers'[n].mux]
      BY <2>2, <2>3, RegisteredType DEF TypeOK
    <2>5. acked' \in [Channel -> SUBSET (Name \X Auth)]
      BY <1>6, <2>2 DEF BindAccepted, Answered, TypeOK, b
    <2> QED
      BY <1>6, <2>1, <2>4, <2>5 DEF TypeOK, BindAccepted, controlVars, visitVars
  <1>7. ASSUME NEW ch \in Channel, BindRejected(ch) PROVE TypeOK'
    BY <1>7, QueueTypes
    DEF TypeOK, BindRejected, TakeBind, controlVars, tables, visitVars
  <1>8. ASSUME NEW v \in Visit, ServeVisit(v) PROVE TypeOK'
    BY <1>8 DEF TypeOK, ServeVisit, controlVars, tables, channelVars
  <1>9. ASSUME NEW ch \in Channel, MuxClosed(ch) PROVE TypeOK'
    BY <1>9, EmptySeq DEF TypeOK, MuxClosed, controlVars, tables
  <1>10. ASSUME NEW ch \in Channel, Leave(ch) PROVE TypeOK'
    BY <1>10, RetainedType DEF TypeOK, Leave, controlVars, visitVars
  <1>11. ASSUME NEW ch \in Channel, NEW b \in Binding, BindArrives(ch, b) PROVE TypeOK'
    BY <1>11, QueueTypes DEF TypeOK, BindArrives, controlVars, tables, visitVars
  <1>12. ASSUME NEW ch \in Channel, SocketEnds(ch) PROVE TypeOK'
    BY <1>12 DEF TypeOK, SocketEnds, controlVars, tables, visitVars
  <1>13. ASSUME NEW v \in Visit, VisitArrives(v) \/ TurnAway(v) \/ EndPipe(v) PROVE TypeOK'
    BY <1>13 DEF TypeOK, VisitArrives, TurnAway, EndPipe, controlVars, tables, channelVars
  <1>14. ASSUME NEW v \in Visit, LetIn(v) PROVE TypeOK'
    <2>1. Lookup(Request[v].name).to \in Channel \cup {Here, Nobody}
      BY DEF Lookup, TypeOK, Endpoint
    <2> QED
      BY <1>14, <2>1 DEF TypeOK, LetIn, controlVars, tables, channelVars
  <1>15. ASSUME NEW v \in Visit, NEW ok \in BOOLEAN, OpenTarget(v, ok) PROVE TypeOK'
    BY <1>15 DEF TypeOK, OpenTarget, controlVars, tables, channelVars
  <1>16. ASSUME UNCHANGED vars PROVE TypeOK'
    BY <1>16 DEF TypeOK, vars, controlVars, tables, channelVars, visitVars
  <1> QED
    BY <1>1, <1>2, <1>3, <1>4, <1>5, <1>6, <1>7, <1>8, <1>9, <1>10, <1>11, <1>12, <1>13,
       <1>14, <1>15, <1>16 DEF Next, Serve, Exhausted

(* Every reachable state is well typed, and an endpoint's connection id is    *)
(* that of its mux.                                                           *)
THEOREM TypeCorrect == Spec => []TypeOK
BY InitTypeOK, StepTypeOK, PTL DEF Spec

-----------------------------------------------------------------------------
(* The data channels. OneChannelPerId is inductive with the types; the others *)
(* need it, what a binding says of the acknowledgements, and that a channel   *)
(* has acknowledged nothing before it serves.                                 *)
BindingsAcked ==
    \A n \in Name : providers[n] # Nobody
        => <<n, providers[n].auth>> \in acked[providers[n].mux]

NewChannelsSilent ==
    \A ch \in Channel : channel[ch] \in {"unused", "connecting"} => acked[ch] = {}

ChannelInv ==
    /\ OneChannelPerId
    /\ BindingsServed
    /\ BindingsAcked
    /\ NewChannelsSilent
    /\ AckedStaysBound
    /\ VisitsReachProviders

LEMMA InitChannelInv == Init => ChannelInv
BY DEF Init, ChannelInv, OneChannelPerId, BindingsServed, BindingsAcked,
       NewChannelsSilent, AckedStaysBound, VisitsReachProviders, Running

(* Steps that leave the bindings alone, and the channels but for one that goes *)
(* on among the running ones without beginning to serve.                       *)
LEMMA SameChannels ==
    ASSUME TypeOK, ChannelInv, UNCHANGED <<tables, acked>>,
           \/ UNCHANGED channel
           \/ \E ch \in Channel :
                 /\ channel[ch] = "serving"
                 /\ channel' = [channel EXCEPT ![ch] = "leaving"]
    PROVE  OneChannelPerId' /\ BindingsServed' /\ BindingsAcked' /\ NewChannelsSilent'
              /\ AckedStaysBound'
  <1>1. Running' = Running
    BY DEF Running, TypeOK
  <1>2. OneChannelPerId'
    BY <1>1 DEF ChannelInv, OneChannelPerId, tables
  <1>3. BindingsServed' /\ BindingsAcked'
    BY DEF ChannelInv, BindingsServed, BindingsAcked, tables, TypeOK, Endpoint
  <1>4. NewChannelsSilent' /\ AckedStaysBound'
    BY DEF ChannelInv, NewChannelsSilent, AckedStaysBound, tables, TypeOK
  <1> QED
    BY <1>2, <1>3, <1>4

(* Visits that stay, are ended or are not let in yet, with acknowledgements   *)
(* that are never taken back.                                                 *)
LEMMA SameVisits ==
    ASSUME VisitsReachProviders, UNCHANGED target,
           \A ch \in Channel : acked[ch] \subseteq acked'[ch],
           \A v \in Visit : visit'[v] \in {"opening", "piped"}
               => visit[v] \in {"opening", "piped"}
    PROVE  VisitsReachProviders'
BY DEF VisitsReachProviders

LEMMA StepChannelInv == TypeOK /\ ChannelInv /\ [Next]_vars => ChannelInv'
  <1> SUFFICES ASSUME TypeOK, ChannelInv, [Next]_vars PROVE ChannelInv'
    OBVIOUS
  <1> USE NodeAssumption
  <1>1. ASSUME \/ Connect \/ Disconnect \/ Exhausted
               \/ \E ids \in SUBSET ConnId : ControlEvent(ids)
               \/ \E c \in ConnId : AlreadyActive(c)
               \/ UNCHANGED vars
        PROVE  ChannelInv'
    <2>1. UNCHANGED <<tables, acked, channel, visitVars>>
      BY <1>1 DEF Connect, Disconnect, Exhausted, ControlEvent, AlreadyActive, vars, channelVars
    <2> QED
      BY <2>1, SameChannels, SameVisits DEF ChannelInv, visitVars
  <1>2. ASSUME NEW ch \in Channel, StartConnection(ch) PROVE ChannelInv'
    <2> USE <1>2 DEF StartConnection, Spawn
    <2>1. Running' = Running \cup {ch} /\ ch \notin Running
      BY DEF Running, TypeOK
    <2>2. OneChannelPerId'
      BY <2>1 DEF ChannelInv, OneChannelPerId
    <2>3. BindingsServed' /\ BindingsAcked' /\ NewChannelsSilent' /\ AckedStaysBound'
      BY DEF ChannelInv, BindingsServed, BindingsAcked, NewChannelsSilent, AckedStaysBound,
             TypeOK, Endpoint
    <2> QED
      BY <2>2, <2>3, SameVisits DEF ChannelInv, visitVars
  <1>3. ASSUME NEW ch \in Channel, NEW ok \in BOOLEAN, Dial(ch, ok) PROVE ChannelInv'
    <2> USE <1>3 DEF Dial
    <2>1. Running' = Running
      BY DEF Running, TypeOK
    <2>2. OneChannelPerId'
      BY <2>1 DEF ChannelInv, OneChannelPerId, tables
    <2>3. BindingsServed' /\ BindingsAcked' /\ NewChannelsSilent'
      BY DEF ChannelInv, BindingsServed, BindingsAcked, NewChannelsSilent, tables, TypeOK, Endpoint
    <2>4. acked[ch] = {}
      BY DEF ChannelInv, NewChannelsSilent
    <2>5. AckedStaysBound'
      BY <2>4 DEF ChannelInv, AckedStaysBound, tables, TypeOK
    <2> QED
      BY <2>2, <2>3, <2>5, SameVisits DEF ChannelInv, visitVars
  <1>4. ASSUME NEW ch \in Channel, BindAccepted(ch) PROVE ChannelInv'
    <2> DEFINE b == Head(binds[ch])
    <2>1. b.name \in Name /\ b.auth \in Auth
      BY <1>4, QueueTypes DEF BindAccepted, TakeBind, TypeOK, Binding
    <2>2. /\ channel[ch] = "serving" /\ channel' = channel
          /\ active_connections' = active_connections
          /\ ~Taken(b.name, ch)
          /\ providers' = [providers EXCEPT ![b.name] = Registered(ch, b.auth)]
          /\ acked' = [acked EXCEPT ![ch] = @ \cup {<<b.name, b.auth>>}]
          /\ UNCHANGED visitVars
      BY <1>4 DEF BindAccepted, TakeBind, Answered
    <2> HIDE DEF b
    <2> DEFINE reg == Registered(ch, b.auth)
    <2>3. reg # Nobody /\ reg.mux = ch /\ reg.auth = b.auth
      BY <2>1, RegisteredType
    <2>4. \A n \in Name : providers'[n] = IF n = b.name THEN reg ELSE providers[n]
      BY <2>1, <2>2 DEF TypeOK
    <2>5. \A c \in Channel : acked'[c] = IF c = ch THEN acked[c] \cup {<<b.name, b.auth>>}
                                                    ELSE acked[c]
      BY <2>2 DEF TypeOK
    <2> HIDE DEF reg
    <2>6. OneChannelPerId'
      BY <2>2 DEF ChannelInv, OneChannelPerId, Running
    <2>7. BindingsServed'
      BY <2>2, <2>3, <2>4 DEF ChannelInv, BindingsServed
    <2>8. BindingsAcked'
      <3> SUFFICES ASSUME NEW n \in Name, providers'[n] # Nobody
                   PROVE  <<n, providers'[n].auth>> \in acked'[providers'[n].mux]
        BY DEF BindingsAcked
      <3>1. CASE n = b.name
        <4>1. providers'[n] = reg
          BY <3>1, <2>4
        <4>2. providers'[n].mux = ch /\ providers'[n].auth = b.auth
          BY <4>1, <2>3
        <4>3. <<b.name, b.auth>> \in acked'[ch]
          BY <2>5
        <4> QED
          BY <3>1, <4>2, <4>3
      <3>2. CASE n # b.name
        <4>1. providers[n] # Nobody /\ providers[n].mux \in Channel
          BY <3>2, <2>4 DEF TypeOK, Endpoint
        <4>2. <<n, providers[n].auth>> \in acked[providers[n].mux]
          BY <4>1 DEF ChannelInv, BindingsAcked
        <4> QED
          BY <3>2, <4>1, <4>2, <2>4, <2>5
      <3> QED
        BY <3>1, <3>2
    <2>9. NewChannelsSilent'
      BY <2>2, <2>5 DEF ChannelInv, NewChannelsSilent
    <2>10. AckedStaysBound'
      <3> SUFFICES ASSUME NEW c \in Channel, channel[c] = "serving", NEW ack \in acked'[c]
                   PROVE  providers'[ack[1]] # Nobody /\ providers'[ack[1]].mux = c
        BY <2>2 DEF AckedStaysBound
      <3>1. ack[1] \in Name
        <4>1. acked[c] \subseteq Name \X Auth
          BY DEF TypeOK
        <4>2. ack \in acked[c] \/ ack = <<b.name, b.auth>>
          BY <2>5
        <4>3. CASE ack = <<b.name, b.auth>>
          BY <4>3, <2>1
        <4> QED
          BY <4>1, <4>2, <4>3
      <3>2. CASE ack \notin acked[c]
        <4>1. c = ch /\ ack = <<b.name, b.auth>>
          BY <3>2, <2>5
        <4> QED
          BY <4>1, <2>1, <2>3, <2>4
      <3>3. CASE ack \in acked[c] /\ ack[1] # b.name
        BY <3>1, <3>3, <2>4 DEF ChannelInv, AckedStaysBound
      <3>4. CASE ack \in acked[c] /\ ack[1] = b.name
        <4>1. providers[b.name] # Nobody /\ providers[b.name].mux = c
          BY <3>4 DEF ChannelInv, AckedStaysBound
        <4>2. ConnOf[c] = ConnOf[ch]
          BY <2>1, <2>2, <4>1 DEF Taken, TypeOK
        <4>3. c = ch
          BY <2>2, <4>2 DEF ChannelInv, OneChannelPerId, Running
        <4> QED
          BY <3>1, <3>4, <4>3, <2>3, <2>4
      <3> QED
        BY <3>2, <3>3, <3>4
    <2>11. VisitsReachProviders'
      BY <2>2, <2>5, SameVisits DEF ChannelInv, visitVars
    <2> QED
      BY <2>6, <2>7, <2>8, <2>9, <2>10, <2>11 DEF ChannelInv
  <1>5. ASSUME NEW ch \in Channel, Leave(ch) PROVE ChannelInv'
    <2>1. /\ channel[ch] = "leaving"
          /\ channel' = [channel EXCEPT ![ch] = "done"]
          /\ active_connections' = active_connections \ {ConnOf[ch]}
          /\ providers' = Retained(ConnOf[ch])
          /\ UNCHANGED <<visitVars, acked>>
      BY <1>5 DEF Leave
    <2>2. \A n \in Name : providers'[n] # Nobody
              => providers'[n] = providers[n] /\ providers[n].connection_id # ConnOf[ch]
      BY <2>1, RetainedType
    <2>3. \A n \in Name : providers[n] # Nobody /\ providers[n].connection_id # ConnOf[ch]
              => providers'[n] = providers[n]
      BY <2>1, RetainedType
    <2>4. Running' = Running \ {ch} /\ ch \in Running
      BY <2>1 DEF Running, TypeOK
    <2>5. OneChannelPerId'
      BY <2>1, <2>4 DEF ChannelInv, OneChannelPerId
    <2>6. BindingsServed'
      BY <2>1, <2>2 DEF ChannelInv, BindingsServed, TypeOK, Endpoint
    <2>7. BindingsAcked' /\ NewChannelsSilent'
      BY <2>1, <2>2 DEF ChannelInv, BindingsAcked, NewChannelsSilent, TypeOK
    <2>8. AckedStaysBound'
      <3> SUFFICES ASSUME NEW c \in Channel, channel'[c] = "serving", NEW ack \in acked[c]
                   PROVE  providers'[ack[1]] # Nobody /\ providers'[ack[1]].mux = c
        BY <2>1 DEF AckedStaysBound
      <3>1. c # ch /\ channel[c] = "serving"
        BY <2>1 DEF TypeOK
      <3>2. ack[1] \in Name /\ providers[ack[1]] # Nobody /\ providers[ack[1]].mux = c
        BY <3>1 DEF ChannelInv, AckedStaysBound, TypeOK
      <3>3. providers[ack[1]].connection_id # ConnOf[ch]
        BY <2>4, <3>1, <3>2 DEF ChannelInv, OneChannelPerId, Running, TypeOK
      <3> QED
        BY <2>3, <3>2, <3>3
    <2>9. VisitsReachProviders'
      BY <2>1, SameVisits DEF ChannelInv, visitVars
    <2> QED
      BY <2>5, <2>6, <2>7, <2>8, <2>9 DEF ChannelInv
  <1>6. ASSUME \/ \E ch \in Channel :
                    \/ BindRejected(ch) \/ MuxClosed(ch) \/ SocketEnds(ch)
                    \/ \E b \in Binding : BindArrives(ch, b)
               \/ \E v \in Visit :
                    \/ ServeVisit(v) \/ VisitArrives(v) \/ TurnAway(v) \/ EndPipe(v)
                    \/ \E ok \in BOOLEAN : OpenTarget(v, ok)
        PROVE  ChannelInv'
    <2>1. /\ UNCHANGED <<tables, acked, target>>
          /\ \/ UNCHANGED channel
             \/ \E ch \in Channel : /\ channel[ch] = "serving"
                                     /\ channel' = [channel EXCEPT ![ch] = "leaving"]
      BY <1>6 DEF BindRejected, TakeBind, MuxClosed, SocketEnds, BindArrives, ServeVisit,
                  VisitArrives, TurnAway, EndPipe, OpenTarget, channelVars, visitVars
    <2>2. \A v \in Visit : visit'[v] \in {"opening", "piped"} => visit[v] \in {"opening", "piped"}
      BY <1>6 DEF BindRejected, MuxClosed, SocketEnds, BindArrives, ServeVisit,
                  VisitArrives, TurnAway, EndPipe, OpenTarget, visitVars, TypeOK
    <2> QED
      BY <2>1, <2>2, SameChannels, SameVisits DEF ChannelInv
  <1>7. ASSUME NEW v \in Visit, LetIn(v) PROVE ChannelInv'
    <2>1. UNCHANGED <<tables, acked, channel>>
      BY <1>7 DEF LetIn, channelVars
    <2>2. SUFFICES ASSUME NEW w \in Visit, visit'[w] \in {"opening", "piped"}, target'[w] # Here
                   PROVE  /\ target'[w] \in Channel
                          /\ \E auth \in {NoAuth, Request[w].auth} :
                                <<Request[w].name, auth>> \in acked[target'[w]]
      BY <2>1, SameChannels DEF ChannelInv, VisitsReachProviders
    <2>3. CASE w # v
      BY <1>7, <2>2, <2>3 DEF ChannelInv, VisitsReachProviders, LetIn, TypeOK
    <2>4. CASE w = v
      <3> DEFINE name == Request[v].name
      <3>1. /\ name \in Name /\ name \notin LocalProvider /\ providers[name] # Nobody
            /\ target'[v] = providers[name].mux
            /\ AuthMatches(providers[name].auth, Request[v].auth)
        BY <1>7, <2>2, <2>4 DEF LetIn, Welcome, Lookup, TypeOK
      <3>2. <<name, providers[name].auth>> \in acked[providers[name].mux]
        BY <3>1 DEF ChannelInv, BindingsAcked
      <3>3. providers[name].mux \in Channel /\ providers[name].auth \in {NoAuth, Request[v].auth}
        BY <3>1 DEF AuthMatches, TypeOK, Endpoint
      <3> QED
        BY <2>4, <3>1, <3>2, <3>3
    <2> QED
      BY <2>3, <2>4
  <1> QED
    BY <1>1, <1>2, <1>3, <1>4, <1>5, <1>6, <1>7 DEF Next, Serve

LEMMA ChannelInvHolds == Spec => []ChannelInv
  <1>1. Init => TypeOK /\ ChannelInv
    BY InitTypeOK, InitChannelInv
  <1>2. TypeOK /\ ChannelInv /\ [Next]_vars => TypeOK' /\ ChannelInv'
    BY StepTypeOK, StepChannelInv
  <1> QED
    BY <1>1, <1>2, PTL DEF Spec

(* The active ids are those of the running data channel tasks, one for each.  *)
THEOREM ChannelsAreUnique == Spec => []OneChannelPerId
  <1>1. ChannelInv => OneChannelPerId
    BY DEF ChannelInv
  <1> QED
    BY <1>1, ChannelInvHolds, PTL

(* No binding outlives the data channel it was made on.                       *)
THEOREM BindingsAreServed == Spec => []BindingsServed
  <1>1. ChannelInv => BindingsServed
    BY DEF ChannelInv
  <1> QED
    BY <1>1, ChannelInvHolds, PTL

(* What a BindAck told a provider stays true while its channel serves.        *)
THEOREM AcksHold == Spec => []AckedStaysBound
  <1>1. ChannelInv => AckedStaysBound
    BY DEF ChannelInv
  <1> QED
    BY <1>1, ChannelInvHolds, PTL

(* A visit reaches a remote provider only where its name was acknowledged     *)
(* with an auth that the visit presented.                                     *)
THEOREM VisitsAreAuthorised == Spec => []VisitsReachProviders
  <1>1. ChannelInv => VisitsReachProviders
    BY DEF ChannelInv
  <1> QED
    BY <1>1, ChannelInvHolds, PTL
===============================================================================
