# Formal model of node-access

TLA+ modules, TLC model checking and TLAPS proofs for the relay and the node
tools of this repository. Paths below are relative to the repository root.

* [1. The system](#1-the-system)
* [2. What is modelled](#2-what-is-modelled)
* [3. Runs](#3-runs)
* [4. Proofs](#4-proofs)
* [5. Where documents and code disagree](#5-where-documents-and-code-disagree)
* [6. Not modelled](#6-not-modelled)
* [7. Plan](#7-plan)

To check everything by hand: `tlc -config <X>.cfg MCRelaySession.tla` for each
configuration of the relay, `tlc -config MCNodeRelay.cfg MCNodeRelay.tla`,
`tlc -config MCMux.cfg MCMux.tla` (and with `MCMuxRejoin.cfg` and
`MCMuxShared.cfg`),
`tlc -config MCRecovery.cfg MCRecovery.tla`, and `tlapm <X>Proofs.tla` for each
proof module.

## 1. The system

A node behind NAT (the *served* side) is reached through a public relay.

```
 access node                    relay                        served node
 (client socket,   ── client ──▶ session (serverId, v2) ◀── control ── one per node
  one per                        routing tables,                       told which connection
  connection id)                 one bounded queue        ◀── data ──  ids have clients; opens
                                 and write task                        one data socket per id
                                 per socket
       └───────────── mux frames (Open, Data, Close, Control) ──────────────┘
                       end to end, optionally encrypted
```

The relay and both tools are tokio programs: every socket has its own tasks,
tasks share tables behind async mutexes, and talk through mpsc channels.

### 1.1 Relay (`crates/relay`)

**v2 session** (`session.rs`). State, under one mutex: the control socket's slot,
connection id -> server data socket, connection id -> client sockets,
connection id -> buffered frames. Operations:

| operation | what it does |
| --- | --- |
| `register` | refuses beyond the limits; a control or server data socket takes its slot and has the previous holder closed (1008); a new control socket gets a `sync`; a server data socket gets the buffered frames; a client is announced (`connected`) and starts a nudge task |
| `handle_frame` | client -> server data socket or buffer (latest 200); server data -> all clients of the id; a `ping` text on the control socket -> `pong` |
| `handle_ping` | pong to the holder of the sender's slot |
| `unregister` | control: clears its slot if it still holds it; server data: likewise, and closes all clients of the id (1012); last client: drops the buffer, closes the server data socket (1001), announces `disconnected` |
| `nudge_or_reset_control` | per client, 10 s later: if the id still has clients and no server, `sync`; 5 s later: if that still holds, close the control socket (1011) |

*Hard:* sockets are replaced long before they are gone, and their late teardown
meets newer sockets; every message is offered with `try_send` to a bounded queue;
the nudge task takes the lock anew for each of its steps.
*Correct if:* the slots point to live sockets and only their holders vacate them;
client frames reach the server data socket in order across buffering and flush, and
get lost only where the relay drops or refuses them on purpose; frames never leave their connection; the
control socket is told what adds up to the connected ids; an unserved client gets
the control socket reset; the limits hold; an unrouted socket is told to close.

**Socket lifecycle** (`server.rs`, `run_peer`). State: outbound queue, write
task, read loop, rate window. The read loop ends on a Close, an error, the end of
the stream, the idle timeout, the rate limit or an oversized frame; then
`unregister`, then the write task is aborted. *Hard:* the write task may end
without the read loop noticing; the Close for a broken limit is only queued and
may be refused or aborted.

**v1 session** (`session.rs`). One server and one client slot that forward to
each other. *Correct if:* replacement and teardown are those of the v2 slots.

**Registry** (`session.rs`). (serverId, version) -> session, never removed.
*Correct if:* two sockets with one key always meet in one session.

**Query validation** (`server.rs`, `protocol.rs`), **configuration**
(`config.rs`): pure functions. **HTTP entry points, test client**: I/O.

### 1.2 Served side (`node-relay`; the serving half of 2-role `node-access`)

State under one mutex: the set of active connection ids, and provider name ->
(connection id, mux handle, auth). Operations: a control loop that reconnects 5 s
after its end and opens a data channel for every announced id that is not active;
a data channel task that serves SOCKS, visits and bindings until its mux closes
and then removes its id and its providers. *Hard:* announcements for an id whose
old data channel is still being torn down are ignored; a binding refused because
the old one is still there is not retried; a visit uses a provider's handle after
the lock is released; a dial has no timeout. *Correct if:* every binding belongs
to a data channel that still runs; each id has at most one data channel, and a
dead one gives its id back; an acknowledged binding stays; a visit reaches only a
provider whose auth it presented; no announced id is overlooked.

### 1.3 Access side (3-role `node-access`; the visiting half of 2-role)

A reconnect loop: connect as a client, register the providers, open a stream for
every accepted TCP connection. *Hard:* in the 2-role program all visitor mappings
to one node share a connection id.

### 1.4 Mux (`mux.rs`, `crypto.rs`, `tunnel.rs`, `socks.rs`)

State per data socket: stream id -> inbound channel, an unbounded outbound
channel, the next stream id (odd on the access side, even on the served side).
Operations: open, read, write, shutdown, drop of a stream; the write and read
loops. *Hard:* half-close (a local shutdown sends Close, which only ends the
*peer's* reads), drop in a detached task that removes by id, the end of a loop or
of the websocket while streams wait, frames that the relay's buffer drops or a full
queue refuses, a fresh node mux in front of a client whose streams belong to the
one before, two clients on one connection id. *Correct if:* each direction of a
stream is a byte pipe, in order, whose reader sees the end after the writer's Close
and misses nothing the relay did not refuse;
the table forgets a stream that is gone; no stream carries another's payloads.

### 1.5 Relay and served side together

The relay announces a client once and nudges once more; the node ignores what it
believes served; a lost control connection takes its announcements with it.
*Hard:* the two sides notice a dead socket at different times, and the relay
registers a socket apart from the node's dial, even when that has failed. *Correct
if:* no announcement falls between two control connections, and no two data
channels that the node uses compete for one id.

## 2. What is modelled

| module | models | extends |
| --- | --- | --- |
| `RelayPeer` | one socket: `run_peer`, the mpsc queue, the write task, `send_or_close`, `close_handle` | |
| `RelaySession` | the v2 session: tables, handlers, nudge tasks | `RelayPeer` |
| `MCRelaySession` | the instances that TLC checks | `RelaySession`, `TLC` |
| `NodeRelay` | the served side: `node-relay`, and the serving half of the 2-role `node-access` | |
| `MCNodeRelay` | its instance for TLC | `NodeRelay`, `TLC` |
| `Pipes` | abstract: what a stream promises, a byte pipe in each direction | |
| `Mux` | the muxes of the data sockets, their streams and the users of these, and the relay between the clients' muxes and the node's, which replace one another | |
| `MCMux` | its instances for TLC | `Mux`, `TLC` |
| `Recovery` | the v2 session and the served side's control loop and data channels, composed | `RelaySession`; instance of `NodeRelay` |
| `MCRecovery` | its instance for TLC | `Recovery`, `TLC` |
| `RelayPeerProofs` | lemmas on what an offer does to the queues | `RelayPeer`, TLAPS |
| `RelaySessionProofs` | type correctness, buffer, routing, slots, limits | `RelaySession`, `RelayPeerProofs` |
| `RelaySessionQueueProofs` | forgotten sockets, abandoned clients, what a control socket is told | `RelaySessionProofs` |
| `RelaySessionFramesProofs` | isolation of connections, order and loss of frames | `RelaySessionQueueProofs` |
| `NodeRelayProofs` | type correctness, ids, bindings, acknowledgements, visits | `NodeRelay`, TLAPS |
| `MuxProofs` | type correctness, ownership of table entries | `Mux`, TLAPS |
| `PipesProofs` | the streams of one client implement `Pipes` | `MuxProofs` |
| `RecoveryProofs` | the composition refines both of its parts; replacements, announcements | `Recovery`, `RelaySessionFramesProofs`; instance of `NodeRelayProofs` |

Sections 2.1 to 2.3 are about the relay, 2.4 about the served side, 2.5 about the
mux, 2.6 about relay and served side together.

### 2.1 State

| variable | code |
| --- | --- |
| `phase[p]` | where `run_peer` stands for socket p: not accepted, in its read loop, out of it but not unregistered, finished |
| `queue[p]` | the mpsc channel between session and write task |
| `writer[p]` | the write task: running; has written a Close; ended (its receiver is dropped) |
| `slow` | sockets for which `send_or_close` is between its two `try_send` calls |
| `server_control`, `server_data`, `clients`, `pending` | the fields of `SessionState` |
| `nudge[x]` | the program counter of client x's nudge task; `done` is an early return, `spent` the end after the reset |
| `told[k]` | history: what the control messages written to k add up to. What node-relay does with them (it starts channels and withdraws nothing) is in `NodeRelay` and `Recovery` |
| `sent`, `pings` | numbering of frames; bound on pings |
| `dropped` | history: the live sockets whose full queue refused a message |

A socket of the model is one WebSocket with its fresh `PeerId`, so it is used
once; a reconnecting peer is another element of the same set.

### 2.2 Steps

A handler runs under the session's mutex from start to end and awaits nothing, so
it is one step, with every message it offers. Two things happen *inside* it:

* the write tasks go on. They only matter where `send_or_close` tries a second
  time, so that second try is a step of its own (`CloseSlow`): `slow` is the set
  of sockets it is due for, the lock counts as held until it is empty
  (`Unlocked`), and write tasks may run meanwhile. When one step offers a socket
  several messages, they are offered at once; a write task that takes one in
  between is the same as one that took it before;
* during `register` the registering socket has no write task yet, so what its
  queue refuses is lost together with the Close 1013 (no `slow` for it).

The read loop's end (`EndRemote`, `EndLimit`) and the teardown (`Unregister...`)
are separate steps because the lock is taken between them; `unregister` and the
abort of the write task are one step: between them the write task could only
write some of what the abort discards, which nobody else sees.

Outbound messages are records: a frame is its sender and number, `sync` its set
of ids. Close reasons, payloads and pong contents are left out. Timeouts have no
clocks: a sleep ends at any moment, the idle timer, the rate window and the size
check trip at any moment (`EndLimit`, with the codes in `LimitCode`).

A write may fail at any time for `Flaky` sockets, for every socket once its read
loop has ended, and always when a Close was written before, after which the
WebSocket refuses further writes (`writer = "closing"`).

### 2.3 Properties

| property | says | could be broken by |
| --- | --- | --- |
| `PendingSound` | frames are buffered only while there are clients and no server, within the limit | a teardown or registration that forgets the buffer |
| `FramesInOrder` | sender by sender, what waits for a socket is an unbroken run of frames; for the current server and the buffer it ends with the newest | a flush after the switch to forwarding, a buffer that drops at the wrong end |
| `FramesGetThrough` | a client's frame stays in the buffer or in the current server's queue until it is written; it is lost only with the last client, with that server, as the oldest of a full buffer, or refused by a full queue | a flush that forgets frames, a registration that clears a buffer still wanted |
| `FramesIsolated` | a waiting frame comes from the other side of the same connection id | a table indexed by the wrong id |
| `UnroutedIsClosing` | a live socket without a slot has been told to close, or its full queue refused that | a replacement or a last leave that closes nobody |
| `RoutedIsLive` | the slots point to live sockets, and every live client is in its set | a teardown that leaves an entry |
| `SlotsVacatedByHolder` | only the holder's teardown, or the last client's leave, empties a slot | clearing without comparing peer ids |
| `ControlView` | `told` plus what is queued for the control socket equals the connected ids, unless it lost a message or is closing | announcing before inserting, syncing from a stale list |
| `WithinLimits` | routed sockets and clients per id never exceed the limits | counting after the insertion, or with <= |
| `ControlRecovery` | a client that stays unserved sees the control socket of its arrival told to close (unless that one leaves, or its queue is full) | a nudge task that ends in some interleaving without the reset |
| `NobodyAbandoned` | a client without a server whose nudge task has returned early has been told to close, or its full queue refused that | a check that trusts a server which is gone by the second one, a teardown that leaves its clients waiting |

`FramesInOrder` speaks of the frames that wait; which ones may be missing altogether
is what `FramesGetThrough` says, an action property: every step, for every frame of
every client. `FramesInOrder`, `FramesGetThrough`, `UnroutedIsClosing`,
`ControlView`, `NobodyAbandoned` and `ControlRecovery` name `dropped`: after a full
queue the code promises nothing (see section 5).

`ControlRecovery` says that there is a reset for a client that stays unserved, and
`NobodyAbandoned` why the task need not be the client's own: it looks only at the
connection id, so it may return for a client that has come with another one, but
never leaves one behind.

### 2.4 The served side

| variable | code |
| --- | --- |
| `control` | whether `run_control` is in its event loop |
| `announced` | ids of the event being handled, `start_connection` not yet called for them |
| `active_connections`, `providers` | the fields of `RelayState` (`ServeState` in the 2-role program) |
| `channel[ch]` | where the task spawned by `start_connection` stands: not spawned, dialling, in its `select!` loop, out of it, done |
| `online` | the data channels whose websocket is up |
| `binds[ch]` | Bind messages in the mux's control channel |
| `visit[v]`, `target[v]` | a visitor stream: not opened, in the mux's incoming channel, before the lookup, after it, piped, ended; and the mux it was sent to |
| `acked[ch]` | history: the bindings acknowledged with ok on ch |

A data channel of the model is one websocket, so it is dialled once; an id that
is opened again gets another element of `Channel` with the same `ConnOf`. When
the instance has none left, `Exhausted` stutters.

Every stretch under the state's lock is one step: the insertion of an id
(`StartConnection`, `AlreadyActive`), a bind (`BindAccepted`, `BindRejected`), a
lookup (`LetIn`, `TurnAway`), the teardown (`Leave`). Between them everything may
happen. A `sync` is handled id by id, in any order, since each call awaits the
lock. `select!` picks any ready branch, so the end of the mux (`MuxClosed`) may
overtake waiting binds and visits, which are then dropped. The end of a socket
(`SocketEnds`) stands for everything that ends the mux's read loop. The open of
the provider's stream comes after the lock is released (`OpenTarget`) and may go
either way, since a dead mux takes streams until its write loop has noticed; so
may the dial of a local provider.

The environment is the relay, which may announce any set of ids at any time, and
the access nodes: `Offer` bounds the names and auths a channel's access nodes bind,
`Request` fixes what each visitor stream asks, `MaxBinds` how many binds wait.
The 3-role node-relay is the model with no `LocalAuth`; a `LocalAuth` gives the
2-role program, whose other steps are those of node-relay line by line.

| property | says | could be broken by |
| --- | --- | --- |
| `OneChannelPerId` | the active ids are those of the running tasks, one for each | an announcement handled without the lookup, a task that ends without giving its id back |
| `BindingsServed` | no binding outlives its data channel | a way out of the task around the `retain` |
| `AckedStaysBound` | a name acknowledged on a serving channel is bound to that channel | a competitor that overwrites, a late teardown that takes its successor's bindings |
| `VisitsReachProviders` | a visit goes to a remote provider only where the name was acknowledged with its auth, or with none | comparing the wrong auth, a lookup that mixes old and new bindings |
| `IdsAreGivenBack` | a channel whose websocket ended gives its id back | a teardown that forgets it |

`AckedStaysBound` does not say that visits reach the acknowledged provider: in the
2-role program a local provider of the same name shadows it.

### 2.5 The mux

| variable | code |
| --- | --- |
| `opened[e]` | how many streams mux e has opened, which gives `next_stream_id` (`Id`) |
| `streams` | the table of every mux: the stream ends whose sender is in it |
| `lent` | a task that was given a clone of e's handle and has not opened its stream: an accepted connection, or a visit after its lookup |
| `removing` | the tasks spawned by `Drop` that have not run |
| `outbound[e]`, `inbox[e]` | frames in the mpsc channel of e's write loop; frames between the relay's handler and e's read loop, wherever they are |
| `pending`, `route` | the relay's buffer of the connection id, and the node mux in its server data slot |
| `joined`, `left` | the muxes whose socket the relay has registered; those whose it has unregistered |
| `torn` | history: the stream ends for which the relay has refused a frame |
| `writing`, `reading`, `up` | whether e's loops run; whether its websocket is up |
| `owned` | whether the program holds the `MuxConnection` |
| `phase[s]`, `sent_close`, `inbound[s]` | a `VirtualStream`: who has it, its flag, its channel |
| `wrote[s]`, `got[s]`, `ended` | history: payloads written, payloads read with their writer, ends of file read |

A stream end is a record: the mux that holds it, the mux that opened the stream
and its number there; the two ends of a stream are `AreEnds`. A frame carries
the stream end that sent it, but the receiver looks only at its id, as the code
does, so frames can go astray in the model where they can in the code.

All muxes of an instance share one connection id. A mux in `Access` is a client
socket, which keeps its mux for life; a mux in `Node` is one data channel of the
node. A node that dials the id again is another element of `Node`, with an empty
table and a count of its own, and the relay registers it (`Register`) at any time:
while an older one serves, after that has gone, or before, since the sockets of two
dials need not be registered in their order.

The relay in between is what `RelaySession` shows of it. A frame of a client goes
to the node mux in the slot, or into the buffer, which drops its oldest beyond
`Buffer`; a frame of any node mux, the replaced ones included, goes to every
client. A registration takes the slot and gets the buffer. A socket in `Slow` may
have a full queue at any time: it then loses the frame (or, at a registration, any
part of the buffer), and its stream end becomes `torn`. A websocket ends when the
relay has told it to close (`ToldToClose`: replaced, its queue was full, the
clients gone, a server data socket gone), or at any moment if it is in `Cut`; the
relay notices later (`Unregister`), and the last client takes buffer and slot
along. Its own write loop ends a websocket with the last sender (`WriterDone`).
What is on its way to a mux then arrives in part, in order (`ReaderEnds`). A read
loop in `Faulty` may end at any frame, one that it cannot decrypt or decode, while
the websocket stays up. The handle outlives the connection in tasks that have not
opened their stream yet (`Lend`, `Open`), so streams are opened on muxes that are
gone.

The users of a stream are `pipe`s. `Drop` is the end of one: regular when both
directions are done, at any moment for the stream ends in `Hasty`, whose TCP
connection may fail. What poll_read cuts out of a payload is left out: a payload
is read whole.

`PipesKept` is the refinement: `Mux` implements `Pipes`, whose `shut` is
`sent_close` and whose `wrote`, `got`, `ended` and `torn` are those of `Mux`. The
abstract module knows no ids, tables, frames, loops or relay. A torn pipe may skip
payloads and end early; it still reads from one writer, in order.

| property | says | could be broken by |
| --- | --- | --- |
| `PipesKept` | in each direction, what is read is what one other end of the stream wrote, in order, from the first payload on and without a gap unless the pipe is torn; the end is read only after that end closed, and after all it wrote unless torn | a Close that discards what waits, ids that meet, a buffer that hands out its frames in another order or drops in the middle of a stream |
| `ClosesArrive` | after a shutdown or drop the partner's sender leaves the table, so it reads the end, unless a loop or websocket of the two has ended, the node's mux has lost the slot, or the relay refused a frame of the stream (maybe that Close) | a half-close that is not sent |
| `EntriesHaveOwners` | a table entry belongs to a stream somebody has, or its removal is under way | a drop that leaves the entry to the peer |
| `StreamsIsolated` | payloads are read only by the partner of their writer | two clients on one connection id: section 5 |

`EntriesHaveOwners` excepts entries made after the end of the write loop:
`open_stream` inserts first and then fails to send. `ClosesArrive` stops at the
end of a loop, and there the code has a state that the model names: `Stranded`,
a stream end that has been closed for writing and waits for ever, because its
partner never came to be or because the read loop has ended and left every
sender in the table.

### 2.6 Relay and served side together

`Recovery` extends `RelaySession` and instantiates `NodeRelay` (`Served`) with
the session's data sockets as its channels, without visits and bindings. Each
action is one of the relay or one of the node, with one exception: the write task's
write and the node's reading of it are one step (`Hear`), since what is under way
may as well be in the queue.

In particular the node's dial and the relay's registration are apart. The relay
registers (or refuses) a socket in a task that the upgrade starts, so
`RegisterControl` and `RegisterServerData` are enabled from the moment the node
begins to dial, and stay so: before the dial returns at the node, after it, after
the node has read and left the connection, and also when the dial failed at the node
(`ControlDialFails`, `Dial` with `ok` false), which then knows nothing of that
socket. `link[k]` says how far the node's control loop is with control socket k:
dialling, reading from it, or done with it. Either side may hold a socket for alive
that the other has given up: `Lossy` ones are lost at any time to the node
(`Detach`, `LoseData`) or to the relay (`RelayStep`), the others once the other side
has closed or ended them; `Unreachable` ones may fail at the node's end of the dial.

| property | says | could be broken by |
| --- | --- | --- |
| `ReplacedWhenLeft` | when a data socket takes the slot of another at the relay, the node's task for one of the two is done | an announcement handled without the lookup in `active_connections` |
| `AnnouncementsTaken` | unless the control socket lost a message, is being closed or left, every id with clients is in a notice queued to it, or being taken up by the node, or active there, or had a data channel that is done | a control socket that is not told on arrival; a notice that is read by a loop that drops it |

`ReplacedWhenLeft` does not say which of the two is done. It may be the newcomer:
the late registration of a dial that failed takes the slot of the channel that
serves, and the clients are closed when the newcomer goes. The code allows that, and
the model reaches it.

`AnnouncementsTaken` ends where the code's own interest ends. An announcement that
comes while a data channel of the same id is being torn down is ignored, and nothing
brings it back but the relay's nudge; a data channel whose connection is dead without
a sign keeps its id active as long as nobody notices, nothing probes it, and all
announcements of its next client are ignored, those after the control reset
included. So there is no liveness property here: neither dial nor control read has a
timeout, and no fairness of theirs could be justified.

### 2.7 Fairness

The `FairSpec` of `NodeRelay` assumes weak fairness of each data channel's task
after its dial (`Serve`): it waits only for its own channels, one of which reports
the end, and for the state's lock, which is held for bounded time. The dial gets
none, because nothing in the code bounds it; neither do sockets, visits and the
control loop.

The `FairSpec` of `RelaySession` assumes weak fairness of each nudge task and of `CloseSlow`, no more.
Both are tasks of the relay itself: a nudge task only sleeps and waits for the
session mutex, which tokio hands out first come, first served, and a handler
holds it for a bounded time; `CloseSlow` is the rest of a handler that holds the
lock. Nothing is assumed of sockets: they may stay for ever, read nothing, never
answer. Write tasks depend on their socket's reader, so they get no fairness
either.

The `FairSpec` of `Mux` assumes weak fairness of `WriteFrame`, `ReadStep` and
`Remove`: both loops only wait for frames and for the websocket (and the latter
for the table's lock, held for bounded time), and `WriteFrame` is enabled only
while the websocket is up. Nothing is assumed of the users of streams, nor of
the ends of loops.

`RecoverySpec` states none: `connect_async` and the control loop's read have no
timeout, and its two properties are about safety.

## 3. Runs

The runs of the relay use `MCRelaySession`, the others the MC module of their
name. Every bound is a CONSTANT of the configuration.

| run | bounds that matter | shows |
| --- | --- | --- |
| `handover` | 2 clients, one at a time, 2 server data sockets on one id, 3 frames, queue 2, buffer 2 | `PendingSound`, `FramesInOrder`, `FramesGetThrough`, `UnroutedIsClosing`, `SlotsVacatedByHolder` |
| `sharing` | 1 control, 2 data, 2 clients on two ids, queue 1, socket limit 3, a socket with failing writes | `TypeOK`, `FramesIsolated`, `RoutedIsLive`, `WithinLimits` |
| `announce` | 2 control sockets, 2 clients on two ids, queue 2, one nudge | `ControlView`, `SlotsVacatedByHolder` |
| `nudge` | 1 control, 1 data, 2 clients of one id with a nudge task each, queue 1, fairness | `ControlRecovery`, `NobodyAbandoned` |
| `slow_consumer`, `reset_race`, `live_sockets` | the smallest instance with the case | section 5 |
| `mux` | 1 client, 1 node mux; one visit and one provider stream; one payload from the visitor; buffer 2; the node's end of the visit may be dropped early; the node's queue at the relay may be full, and its read loop fail, at any moment; fairness | `TypeOK`, `EntriesHaveOwners`, `PipesKept`, `ClosesArrive` |
| `mux_rejoin` | 1 client, 2 node muxes, registered in either order; one visit, with two payloads from the client and one back from the first node mux; buffer 2; the first node mux may be cut off and have a full queue | `PipesKept` |
| `mux_shared` | 2 access muxes on one id, one visit and one payload from every end | section 5 |
| `recovery` | 2 control, 2 data sockets, one of each lossy and with a dial that may fail at the node; 1 client with a nudge task; queue 2; socket limit 3 | `ReplacedWhenLeft`, `AnnouncementsTaken` |
| `node_relay` | 2 ids, one dialled up to twice; a remote and a local name; no auth and two auths; 2 visits; 1 waiting bind per channel; fairness | all of section 2.4, `TypeOK` |

Why the bounds are enough. *Sockets*: every rule of the code is about a slot's
holder, one successor, and one more client; two sockets of a kind give
replacement, late teardown of the replaced one, and a last client leaving before
another arrives. *Frames*: three make the buffer of two overflow once, and make
two queued frames meet one more; order and gaps show with two. *Queues* of one or
two messages are full early, so refusals are frequent, and with two a Close still
fits behind a frame. *Limits*: three sockets per session are below the number of
sockets there are, so refusals happen. *Nudges*: two tasks of one
connection id meet in `nudge`, elsewhere one runs past its first delay; tasks share
no state but the tables. *Time*: no delay has a
length, so every order of timer and message is covered. *Node*: two channels of
one id give announcements around a teardown and a successor; a channel of another
id gives a competitor for a name; two auths and none give right, wrong, missing
and unneeded ones; one waiting bind is enough, since binds of a channel are
handled one at a time and others may follow.

*Mux*: a visit of three frames overflows a buffer of two, so an Open, a payload
or both may be dropped; two streams, one opened by each side, use both parities
of ids; one payload meets Close before and after it, both half-closes and the
early drop, and either loses the race with the end of the websocket. Two payloads
show their order; the second node mux finds an Open, its payloads or their rest in
the buffer, or comes while the first one serves, after it or before, and the first
one's payload back may come after its replacement. Two node muxes and two streams at
once are beyond the time of a run, and left to the proof. *Recovery*: the second
socket of each kind cannot be lost and its dial does not fail, so a successor stands
beside every loss, late registration and refusal; `Exhausted` is the stuttering step
when the instance has no socket left that the node would need.

Sockets are used up in every behaviour; `Finished` is the stuttering step of the
state in which all have come and gone, and deadlock is checked in every run.
Symmetry is used for sockets that no definition of the instance tells apart, and
not in runs with a liveness property.

## 4. Proofs

For every set of sockets and ids, every queue, buffer and limit size:

| theorem | property | argument |
| --- | --- | --- |
| `TypeCorrect` | `TypeOK` | inductive as it stands |
| `PendingIsSound` | `PendingSound` | `RoutingInv` |
| `RoutingIsLive` | `RoutedIsLive` | `RoutingInv` |
| `SlotsAreVacatedByHolder` | `SlotsVacatedByHolder` | action property, from `TypeOK` |
| `LimitsHold` | `WithinLimits` | `LimitInv` |
| `UnroutedAreClosing` | `UnroutedIsClosing` | `QueueInv` |
| `NobodyIsAbandoned` | `NobodyAbandoned` | `QueueInv` |
| `ControlViewIsExact` | `ControlView` | `QueueInv`, what an offer does to a view |
| `FramesAreIsolated` | `FramesIsolated` | `IsolationInv` |
| `FramesKeepOrder` | `FramesInOrder` | `OrderInv` |
| `FramesAreNotLost` | `FramesGetThrough` | action property, from `QueueInv` and `RoutingInv` |
| `TypeCorrect` (`NodeRelay`) | its `TypeOK` | inductive as it stands |
| `ChannelsAreUnique` | `OneChannelPerId` | `ChannelInv` |
| `BindingsAreServed` | `BindingsServed` | `ChannelInv` |
| `AcksHold` | `AckedStaysBound` | `ChannelInv` |
| `VisitsAreAuthorised` | `VisitsReachProviders` | `ChannelInv` |
| `MuxTypeCorrect` | `TypeOK` of `Mux` | `MuxInv` |
| `EntriesAreOwned` | `EntriesHaveOwners` | `MuxInv` |
| `PipesAreKept` (under `Alone`) | `PipesKept` | refinement, from `PipeInv` |
| `StreamsAreIsolated` (under `Alone`) | `StreamsIsolated` | `PipeInv` |
| `SessionIsKept` | `RecoverySpec => Spec` of `RelaySession` | step simulation |
| `NodeIsKept` | `RecoverySpec => Spec` of `NodeRelay` | step simulation, from `TypeOK` |
| `ReplacementsAreSafe` | `ReplacedWhenLeft` | action property, from `RecoveryInv` |
| `AnnouncementsAreTaken` | `AnnouncementsTaken` | `ControlView` and `RecoveryInv` |

*Assumptions:* `NodeAssumption` of `NodeRelay` (the types of its constants; the
markers `Here` and `Nobody` are distinct from what they stand beside), which for
the node of `Recovery` follows from `RecoveryAssumption` (`NodeAssumed`),
`MuxAssumption` and `StreamAssumption` (a node's mux is not a client's, the relay
buffers at least one frame, the bounds have their types), `PeerAssumption`
and `SessionAssumption` of the relay's modules (the kinds of sockets are
disjoint; queue, buffer and client limits are at least 1; the codes of
`LimitCode` are among 1001, 1008 and 1009). TLC evaluates them in every run.
`LimitsHold` also uses that a session with fewer sockets than its limit has a
finite number of them, which is part of its invariant.

*Lemmas.* `RelayPeerProofs` proves once what an offer does: `FillProperties` (a
filled queue is a prefix of queue and offer, never longer than `MaxQueue`),
`OfferedRespects` and `OffersRespect` (if every message in the queues and in the
offer satisfies a set, so does every message afterwards). Type correctness and
isolation both rest on them. `RelaySessionQueueProofs` sorts the steps by what
they do to the queues (`StepQueues`: an offer to registered sockets, a teardown,
an end of a read loop, a write task's step), so that what only depends on the
queues is shown for six kinds of steps instead of twenty actions.

*Invariants.* `RoutedIsLive` and `PendingSound` are not inductive apart: that a
server data socket's arrival empties the buffer of *its* id needs the types;
that a leaving socket leaves no entry behind needs that an entry is only in the
place its `ConnOf` names, and that a client still live is in its set when it
unregisters (`LiveRouting`). `IsolationInv` adds to `FramesIsolated` the
frames of the buffer, which become queued frames at a flush, and needs
`clients[c]` and `server_data[c]` to hold only sockets that name c.

`QueueInv` says that queues never exceed `MaxQueue`, that an ended write task has
nothing queued, that a second try (`slow`) is due only for sockets in `dropped`, and
that a socket which has not arrived has an empty queue, a write task that has not
ended, and has been told nothing (`Unused`). That is what makes a refused Close
visible: an offer either leaves the Close last in the queue (`Closing`) or the socket
is in `dropped`, and a replaced or left socket is offered one in the very step that
takes its slot.

`ControlView` compares a set with what a queue says, and `View` says it without a
fold: an id is known when it was known and nothing queued withdraws it, or when
some message announces it and none after that one does. The lemmas about `View`
(one more message at the end, one less at the start, told meanwhile) then are
statements about positions, and the invariant is the property itself: an arrival
or last leave and its notice are one step, and a `sync` overrides everything
before it.

`OrderInv` adds to `FramesInOrder` that also the *clients* of a server data socket
are up to date: what waits for each ends with the newest frame of that socket
(`ClientsUpToDate`), without which the next frame might leave a gap. Order is
stated by positions (`Consecutive`, `EndsWith`), so a frame of another sender
changes nothing, and the hand-over is a lemma about a concatenation: the buffer
ends with the newest frame of each client, the successor's queue is new
(`QueueInv`), and `IsolationInv` says that other connections' frames are not in
either.

`FramesInOrder` would hold of a flush that throws the buffer away, and
`FramesGetThrough` would not: that each frame which waits, and each new one, is still
under way after a step or has one of the named excuses. Its proof has one lemma for
each place a frame can be in (`QueuedFrameKept`, `BufferedFrameKept`,
`FlushedFrameKept`, `ForwardedFrameKept`). A frame in the current server's queue
moves only forward there, because an offer appends (`OfferedKeeps`); a flushed one
lands in a queue that `QueueInv` knows to be empty, so that it is either in it or
the queue is full.

`NobodyAbandoned` is inductive beside `QueueInv`. A nudge task returns early only on a
check that finds the id served or without clients (`StepReturned`), so its client is
then gone or served; and the step that takes the server away closes all clients.

The *composition* is related to its parts first. `SessionIsKept` and `NodeIsKept`
say that every behaviour of `Recovery` is one of `RelaySession` and, under the
mapping of `Served`, one of `NodeRelay`, so every theorem above holds of it; the
two specifications would be contradicted by a joined action that changes one side
in a way that this side's code cannot. `RecoveryInv` joins the routing invariant of
the one, `OneChannelPerId` of the other, `DialInv` (a data socket that the node has
not begun to dial is unknown to the relay) and `ToldInv` (what a control socket was
told while the node read from it, the node knows). Of two sockets of one id of which
one replaces the other, both have been dialled, so each has a task that runs or is
done, and only one task runs: that is `ReplacementsAreSafe`, and it needs nothing of
when the relay registers. `AnnouncementsAreTaken` puts `ControlViewIsExact` and
`ToldInv` together: what was told the node knows, and what was not told is queued.

`ChannelInv` holds the four properties of `NodeRelay` together, because they need
one another. A new binding replaces one only of its own connection id, and since
that id has one running channel (`OneChannelPerId`) and bindings point to running
channels (`BindingsServed`), what it replaces is the channel's own: so
`AckedStaysBound` survives. A teardown removes bindings by id, and the same two
facts say they are those of the channel that ends. `VisitsReachProviders` is
carried through by `BindingsAcked` (every binding was acknowledged as it stands)
at the lookup, and by `acked` only growing afterwards; `NewChannelsSilent` (nothing
is acknowledged before the dial) starts `AckedStaysBound` off.

`MuxInv` adds to `TypeOK` and `EntriesHaveOwners` what the frames say
(`WiresOK`: an Open names a stream its sender opened, every stream named has been
counted) and that a stream end somebody has was counted (`PhasesOK`). An Open thus makes a well-typed stream end at the receiver, and its
number is below the opener's next, so a table never has two entries for one id.
None of it assumes one access mux: both theorems hold for shared connection ids.

`PipeInv` is the invariant of the refinement. Frames carry their number among those
of their stream end, and most of it is about these numbers. A frame of stream end t
may yet be read at mux p when it is in p's inbox, or, as long as p can still be
reached (`Reaches`), in the relay's buffer or t's outbound queue: `OnWay(p, t)` is
the set of these.

* `OrderOK`: within each queue the numbers of one stream end increase, and those
  nearer to the reader come before those further away;
* `FramesOK` and `UsersOK`: a frame is what its stream end has written, closed or
  opened (`Said`);
* `OnceOK`: the Open of a stream is in one place only, so that at most one mux ever
  makes an end of it. This is where node muxes that replace one another are kept
  apart: what the others get of the stream finds no entry;
* `RcvOK`: what a stream end has received are payloads of one other end of its
  stream with increasing numbers, and with all of them unless it is torn;
* `WaysOK`: what is on the way to a stream end that reads comes after what it has
  received; unless it is torn, it goes on from there without a gap (`Next1`) and up
  to the last payload written (`Topped`), so that a frame that is refused or dropped
  tears the pipe, or was dropped with the Open in front of it;
* `ClosedOK`: a live stream end without a table entry has received everything, and
  its partner has closed: that is the step `End` of `Pipes`. Here the removal task
  matters, which removes by id: it may only find an entry of a stream end that is
  gone.

The steps are sorted by what they do to the ways: those that only take away, by a
lost websocket, an ended loop, a drop or an unregistration (`ShrinkPath`,
`ShrinkWays`), those that put a frame at the end (`SendWays`, `OpenWays`), those of
a read loop (`ReadOpenWays`, `ReadDataWays`, `ReadCloseWays`), and the relay's two,
which move frames (`WriteFrameWays`, `RegisterWays`).

The hypothesis `Alone` has two parts. *One client socket* for the connection id is
needed and not a convenience: with two, ids of different streams meet, and
`mux_shared` shows payloads in the wrong connection. *At most one node mux opens
streams to it*: every node mux counts from 2, so two that open streams to one client
would meet as well. A node opens streams to a client only for a provider that the
client has bound, and a client sends its Binds once, when it connects
(`node-access.rs` lines 125 to 130), so the relay brings them to one node mux at
most. `IdsDiffer` uses both: an id then tells which of the client's streams it is.
The first is also needed for a frame of the node to have one way to go
(`OneMateAway`, `WriteFramePath`). The streams that the client itself opens may meet any number of node muxes, and
`torn` ends may miss payloads; neither is excluded.

*Only model-checked:* the liveness properties `ControlRecovery`, `IdsAreGivenBack`
and `ClosesArrive`, whose proofs need fairness and ENABLED. The properties of
section 5 do not hold.

## 5. Where documents and code disagree

Each is a run whose property states the document and is violated.

* `slow_consumer`: a slow consumer is told to close through the queue that is
  full. `IMPLEMENTATION_STATUS.md` promises fail-closed behaviour.
* `reset_race`: the nudge task's last check and its reset are two critical
  sections; a daemon that answers in between is reset (REQ-012).
* `live_sockets`: replaced sockets that stay connected are not counted
  (REQ-015).
* `mux_shared`: two `-visitor` mappings of one 2-role process to one node have the
  same connection id, `access-{name}-to-{node}` (so have two 3-role processes with
  one `-name`, as in the examples of that README, and a client that reconnects
  while the relay still holds its old socket). Both muxes open stream 1, the
  node's table has one entry for it, and the relay sends the node's frames to
  both: one mapping's connection reads the other's payloads. The 2-role README
  says that each `-visitor` maps its service.

## 6. Not modelled

Payload bytes, close reasons, logging, TCP and TLS. Time (section 2.2). The
limit of 0 for queue or clients, which `config.rs` accepts (the channel panics at
0 and every client is refused). The growth of the registry. `handle_socket`'s
creation of the session, which is atomic under the registry's own lock. Of the
served side: the ping task, SOCKS streams and unexpected messages, which touch no
state of the node. Of the mux: control frames (their handlers are in
`NodeRelay`), partial reads of a payload, ids beyond 2^32 (two thousand million
streams of one websocket), two node muxes that open streams to one client. Of the
access side: the listeners' own sockets and the 5 s between attempts.

The v1 session, query validation, URL building and the parsers of mappings and
legacy flags: both tools always ask for v2 (`relay_ws.rs` line 55), and the rest
are pure functions of strings with unit tests. `PROJECT.json` lists each with its
reason.

## 7. Plan

Done: `RelayPeer` and `RelaySession`, `NodeRelay`, `Pipes` and `Mux`, `Recovery`,
with their runs, and the proofs of every safety property that a run finds true.
Left, in this order:

1. Proofs of the safety parts of the remaining liveness properties: that what a Close
   needs to arrive stays on its way.
2. `RelayV1Session`, and an abstract relay (who is connected to whom) that both
   sessions implement.
3. Operators for query validation, peer kinds and mappings, checked against
   reference definitions over bounded inputs.
