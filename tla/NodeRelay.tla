------------------------------ MODULE NodeRelay -------------------------------
(***************************************************************************)
(* The served side of the node tools: node-relay of the 3-role crate, and  *)
(* the serving half of the 2-role node-access, which adds providers of its *)
(* own. A control loop hears which connection ids have clients and opens a *)
(* data channel for each; a data channel serves visits and bindings until  *)
(* its mux closes, and then takes its id and its bindings away.            *)
(*                                                                         *)
(* The relay and the access nodes are the environment: announcements,      *)
(* frames and the ends of sockets come at any time.                        *)
(***************************************************************************)
EXTENDS Naturals, Sequences

CONSTANTS
    ConnId,          \* connection ids
    Channel,         \* data channel tasks; each dials once
    ConnOf,          \* the connection id a data channel is dialled for
    Name,            \* provider names
    Auth, NoAuth,    \* auth values; NoAuth is None or the empty string
    Offer,           \* data channel -> what its access nodes may bind
    Visit,           \* visitor streams
    Request,         \* the channel, provider name and auth of a visitor stream
    LocalAuth,       \* 2-role: auth by name of this node's own providers
    Here,            \* the target of a visit to one of them
    Nobody,          \* no provider, no target
    MaxBinds         \* bound: Bind messages waiting on a channel

LocalProvider == DOMAIN LocalAuth
Binding  == [name : Name, auth : Auth]
Endpoint == [connection_id : ConnId, mux : Channel, auth : Auth]

ASSUME NodeAssumption ==
    /\ ConnOf \in [Channel -> ConnId]
    /\ NoAuth \in Auth
    /\ Offer \in [Channel -> SUBSET Binding]
    /\ Request \in [Visit -> [on : Channel, name : Name, auth : Auth]]
    /\ LocalAuth \in [LocalProvider -> Auth] /\ LocalProvider \subseteq Name
    /\ Here \notin Channel
    /\ Nobody \notin Channel \cup {Here} \cup Endpoint
    /\ MaxBinds \in Nat

VARIABLES
    control,             \* the control loop: "down" or "up"
    announced,           \* ids of the control event being handled for which
                         \* start_connection is still to be called
    active_connections,  \* as in RelayState
    providers,           \* name -> endpoint, or Nobody
    channel,             \* data channel -> where its task stands
    online,              \* data channels whose websocket is up
    binds,               \* data channel -> Bind messages not yet taken
    visit,               \* visitor stream -> where it stands
    target,              \* visitor stream -> the mux it was let in to, or Here
    acked                \* history: data channel -> bindings acknowledged on it

controlVars == <<control, announced>>
tables == <<active_connections, providers>>
channelVars == <<channel, online, binds>>
visitVars == <<visit, target>>
vars == <<controlVars, tables, channelVars, visitVars, acked>>

Init ==
    /\ control = "down"
    /\ announced = {}
    /\ active_connections = {}
    /\ providers = [n \in Name |-> Nobody]
    /\ channel = [ch \in Channel |-> "unused"]
    /\ online = {}
    /\ binds = [ch \in Channel |-> <<>>]
    /\ visit = [v \in Visit |-> "none"]
    /\ target = [v \in Visit |-> Nobody]
    /\ acked = [ch \in Channel |-> {}]

-----------------------------------------------------------------------------
(* run_control and start_connection *)

Connect ==
    /\ control = "down"
    /\ control' = "up"
    /\ UNCHANGED <<announced, tables, channelVars, visitVars, acked>>

(* A connected (one id) or sync event. For a disconnected or pong (no id)     *)
(* nothing is done.                                                           *)
ControlEvent(ids) ==
    /\ control = "up"
    /\ announced = {}
    /\ announced' = ids
    /\ UNCHANGED <<control, tables, channelVars, visitVars, acked>>

(* The event loop ends between two events; data channels stay. *)
Disconnect ==
    /\ control = "up"
    /\ announced = {}
    /\ control' = "down"
    /\ UNCHANGED <<announced, tables, channelVars, visitVars, acked>>

Spawn(ch) ==
    /\ channel[ch] = "unused"
    /\ channel' = [channel EXCEPT ![ch] = "connecting"]
    /\ announced' = announced \ {ConnOf[ch]}

(* Mutant of StartConnection: the id is not looked up first. *)
StartAnyway(ch) ==
    /\ ConnOf[ch] \in announced
    /\ Spawn(ch)
    /\ active_connections' = active_connections \cup {ConnOf[ch]}
    /\ UNCHANGED <<control, providers, online, binds, visitVars, acked>>

StartConnection(ch) ==
    /\ ConnOf[ch] \in announced \ active_connections
    /\ Spawn(ch)
    /\ active_connections' = active_connections \cup {ConnOf[ch]}
    /\ UNCHANGED <<control, providers, online, binds, visitVars, acked>>

AlreadyActive(c) ==
    /\ c \in announced \cap active_connections
    /\ announced' = announced \ {c}
    /\ UNCHANGED <<control, tables, channelVars, visitVars, acked>>

-----------------------------------------------------------------------------
(* run_data_connection *)

(* connect_server_data succeeds, or fails and ends the task. *)
Dial(ch, ok) ==
    /\ channel[ch] = "connecting"
    /\ channel' = [channel EXCEPT ![ch] = IF ok THEN "serving" ELSE "leaving"]
    /\ online' = IF ok THEN online \cup {ch} ELSE online
    /\ UNCHANGED <<controlVars, tables, binds, visitVars, acked>>

(* select! takes a message from any of its channels that has one. *)

Answered(ch, name, auth) == acked' = [acked EXCEPT ![ch] = @ \cup {<<name, auth>>}]

TakeBind(ch) ==
    /\ channel[ch] = "serving"
    /\ binds[ch] # <<>>
    /\ binds' = [binds EXCEPT ![ch] = Tail(@)]

TakenByNobody(name, ch) == FALSE  \* mutant of Taken
Taken(name, ch) == providers[name] # Nobody /\ providers[name].connection_id # ConnOf[ch]

RegisteredSwapped(ch, auth) ==  \* mutant of Registered: two strings swapped
    [connection_id |-> auth, mux |-> ch, auth |-> ConnOf[ch]]

Registered(ch, auth) == [connection_id |-> ConnOf[ch], mux |-> ch, auth |-> auth]

(* handle_bind of the next Bind message: the first connection to register a   *)
(* name keeps it, and may register it anew. *)
BindAccepted(ch) ==
    LET b == Head(binds[ch]) IN
    /\ TakeBind(ch)
    /\ ~Taken(b.name, ch)
    /\ providers' = [providers EXCEPT ![b.name] = Registered(ch, b.auth)]
    /\ Answered(ch, b.name, b.auth)
    /\ UNCHANGED <<controlVars, active_connections, channel, online, visitVars>>

BindRejected(ch) ==
    /\ TakeBind(ch)
    /\ Taken(Head(binds[ch]).name, ch)
    /\ UNCHANGED <<controlVars, tables, channel, online, visitVars, acked>>

(* A visitor stream gets a task of its own. *)
ServeVisit(v) ==
    /\ visit[v] = "waiting"
    /\ channel[Request[v].on] = "serving"
    /\ visit' = [visit EXCEPT ![v] = "asking"]
    /\ UNCHANGED <<controlVars, tables, channelVars, target, acked>>

(* The mux reports its end. What the task has not taken yet is dropped. *)
MuxClosed(ch) ==
    /\ channel[ch] = "serving"
    /\ ch \notin online
    /\ channel' = [channel EXCEPT ![ch] = "leaving"]
    /\ binds' = [binds EXCEPT ![ch] = <<>>]
    /\ visit' = [v \in Visit |-> IF visit[v] = "waiting" /\ Request[v].on = ch
                                 THEN "ended" ELSE visit[v]]
    /\ UNCHANGED <<controlVars, tables, online, target, acked>>

(* The end of the task that start_connection spawned. *)
RetainedAll(c) == providers  \* mutant of Retained
Retained(c) ==
    [n \in Name |-> IF providers[n] # Nobody /\ providers[n].connection_id = c
                    THEN Nobody ELSE providers[n]]

(* Mutant of Leave: the id stays active. *)
LeaveActive(ch) ==
    /\ channel[ch] = "leaving"
    /\ channel' = [channel EXCEPT ![ch] = "done"]
    /\ providers' = Retained(ConnOf[ch])
    /\ UNCHANGED <<controlVars, active_connections, online, binds, visitVars, acked>>

Leave(ch) ==
    /\ channel[ch] = "leaving"
    /\ channel' = [channel EXCEPT ![ch] = "done"]
    /\ active_connections' = active_connections \ {ConnOf[ch]}
    /\ providers' = Retained(ConnOf[ch])
    /\ UNCHANGED <<controlVars, online, binds, visitVars, acked>>

-----------------------------------------------------------------------------
(* handle_visit, in the task of the visitor stream *)

AuthPresented(allowed, presented) == presented # NoAuth  \* mutant of AuthMatches
AuthMatches(allowed, presented) == allowed = NoAuth \/ presented = allowed

(* Local providers come first. *)
Lookup(name) ==
    IF name \in LocalProvider THEN [to |-> Here, auth |-> LocalAuth[name]]
    ELSE IF providers[name] = Nobody THEN [to |-> Nobody, auth |-> NoAuth]
    ELSE [to |-> providers[name].mux, auth |-> providers[name].auth]

Welcome(v) ==
    LET found == Lookup(Request[v].name)
    IN  found.to # Nobody /\ AuthMatches(found.auth, Request[v].auth)

LetIn(v) ==
    /\ visit[v] = "asking"
    /\ Welcome(v)
    /\ visit' = [visit EXCEPT ![v] = "opening"]
    /\ target' = [target EXCEPT ![v] = Lookup(Request[v].name).to]
    /\ UNCHANGED <<controlVars, tables, channelVars, acked>>

TurnAway(v) ==
    /\ visit[v] = "asking"
    /\ ~Welcome(v)
    /\ visit' = [visit EXCEPT ![v] = "ended"]
    /\ UNCHANGED <<controlVars, tables, channelVars, target, acked>>

(* open_stream, or the dial of the local provider, with the lock released: a  *)
(* mux that has closed meanwhile still takes the stream, as long as its write *)
(* loop has not noticed.                                                      *)
OpenTarget(v, ok) ==
    /\ visit[v] = "opening"
    /\ visit' = [visit EXCEPT ![v] = IF ok THEN "piped" ELSE "ended"]
    /\ UNCHANGED <<controlVars, tables, channelVars, target, acked>>

EndPipe(v) ==
    /\ visit[v] = "piped"
    /\ visit' = [visit EXCEPT ![v] = "ended"]
    /\ UNCHANGED <<controlVars, tables, channelVars, target, acked>>

-----------------------------------------------------------------------------
(* The other end of a data channel: access nodes, and the relay in between. *)

BindArrives(ch, b) ==
    /\ ch \in online
    /\ b \in Offer[ch]
    /\ Len(binds[ch]) < MaxBinds
    /\ binds' = [binds EXCEPT ![ch] = Append(@, b)]
    /\ UNCHANGED <<controlVars, tables, channel, online, visitVars, acked>>

VisitArrives(v) ==
    /\ visit[v] = "none"
    /\ Request[v].on \in online
    /\ visit' = [visit EXCEPT ![v] = "waiting"]
    /\ UNCHANGED <<controlVars, tables, channelVars, target, acked>>

SocketEnds(ch) ==
    /\ ch \in online
    /\ online' = online \ {ch}
    /\ UNCHANGED <<controlVars, tables, channel, binds, visitVars, acked>>

-----------------------------------------------------------------------------
(* The steps of a data channel's task after its dial. *)
Serve(ch) ==
    \/ BindAccepted(ch) \/ BindRejected(ch)
    \/ \E v \in Visit : Request[v].on = ch /\ ServeVisit(v)
    \/ MuxClosed(ch) \/ Leave(ch)

(* The instance has no data channel left for an announced id. *)
Exhausted ==
    /\ \E c \in announced \ active_connections :
          \A ch \in Channel : ConnOf[ch] = c => channel[ch] # "unused"
    /\ UNCHANGED vars

Next ==
    \/ Connect \/ Disconnect
    \/ \E ids \in SUBSET ConnId : ControlEvent(ids)
    \/ \E c \in ConnId : AlreadyActive(c)
    \/ \E ch \in Channel :
          \/ StartConnection(ch)
          \/ \E ok \in BOOLEAN : Dial(ch, ok)
          \/ Serve(ch)
          \/ \E b \in Binding : BindArrives(ch, b)
          \/ SocketEnds(ch)
    \/ \E v \in Visit :
          \/ VisitArrives(v) \/ LetIn(v) \/ TurnAway(v)
          \/ \E ok \in BOOLEAN : OpenTarget(v, ok)
          \/ EndPipe(v)
    \/ Exhausted

Spec == Init /\ [][Next]_vars

(* A data channel's task runs on, whatever the sockets do; a dial may take    *)
(* for ever (connect_async has no timeout).                                   *)
FairSpec == Spec /\ \A ch \in Channel : WF_vars(Serve(ch))

-----------------------------------------------------------------------------
(* Type invariant; an endpoint's connection id is that of its mux. *)
TypeOK ==
    /\ control \in {"down", "up"}
    /\ announced \subseteq ConnId
    /\ active_connections \subseteq ConnId
    /\ providers \in [Name -> Endpoint \cup {Nobody}]
    /\ \A n \in Name : providers[n] # Nobody
          => providers[n].connection_id = ConnOf[providers[n].mux]
    /\ channel \in [Channel -> {"unused", "connecting", "serving", "leaving", "done"}]
    /\ online \subseteq Channel
    /\ binds \in [Channel -> Seq(Binding)]
    /\ visit \in [Visit -> {"none", "waiting", "asking", "opening", "piped", "ended"}]
    /\ target \in [Visit -> Channel \cup {Here, Nobody}]
    /\ acked \in [Channel -> SUBSET (Name \X Auth)]

Running == {ch \in Channel : channel[ch] \in {"connecting", "serving", "leaving"}}

(* The active ids are those of the running data channel tasks, one for each: *)
(* an id whose channel has gone can be started again, and no id is served    *)
(* twice (start_connection).                                                 *)
OneChannelPerId ==
    /\ active_connections = {ConnOf[ch] : ch \in Running}
    /\ \A ch1, ch2 \in Running : ConnOf[ch1] = ConnOf[ch2] => ch1 = ch2

(* No binding outlives its data channel: a visit is never sent to a channel  *)
(* whose task had ended when it was looked up (handle_bind, and the retain   *)
(* at the end of start_connection).                                          *)
BindingsServed ==
    \A n \in Name : providers[n] # Nobody => channel[providers[n].mux] \in {"serving", "leaving"}

(* What a BindAck told a provider stays true while its channel serves: the   *)
(* name is bound to it and to nobody else (handle_bind). Visits of the name  *)
(* follow, unless the node has a local provider of that name.                *)
AckedStaysBound ==
    \A ch \in Channel : channel[ch] = "serving" =>
        \A ack \in acked[ch] : providers[ack[1]] # Nobody /\ providers[ack[1]].mux = ch

(* A visit reaches a remote provider only where that name was acknowledged   *)
(* with an auth that the visit presented, whatever was rebound or closed     *)
(* between lookup and open (handle_visit, handle_bind).                      *)
VisitsReachProviders ==
    \A v \in Visit : visit[v] \in {"opening", "piped"} /\ target[v] # Here =>
        /\ target[v] \in Channel
        /\ \E auth \in {NoAuth, Request[v].auth} :
              <<Request[v].name, auth>> \in acked[target[v]]

(* A data channel whose websocket has ended gives its connection id back, so *)
(* that the next announcement can open a new one: neither waiting bindings   *)
(* and visits nor other channels keep its task from ending.                  *)
IdsAreGivenBack ==
    \A ch \in Channel :
        (channel[ch] = "serving" /\ ch \notin online) ~> ConnOf[ch] \notin active_connections
=============================================================================
