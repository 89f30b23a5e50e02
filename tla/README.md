# Verification of the FAF Sturm relay

TLA+ specifications of the relay server and the relay adapter in this
repository, the instances TLC checks, and the theorems TLAPS proves about them.
Every definition is translated from the Go code; `PROJECT.json` names the lines.

## The system

A **relay server** (`internal/relay`) forwards game packets between players.
Players register over HTTP (create a session, join, leave); packets arrive over
UDP, or over TCP as a fallback, with the sender's and the receiver's player ID in
the header. A reaper removes players that have gone silent and sessions that are
empty.

A **relay adapter** (`internal/adapter`) runs beside the game on every player's
machine. The game connects to its *GPGNet server*, the FAF client to its
*JSON-RPC server*. The adapter registers with the relay, decides between relay
and ICE mode, and carries packets between the game's local UDP ports and the
relay connection or the ICE peers.

### Inventory

| Part | Source | Owns | Operations | Concurrency |
|---|---|---|---|---|
| Session manager | `relay/session.go` | session map, player index, per-session player records, gauges | create, delete, join / re-join / migrate, leave, packet update, reap | HTTP handlers, packet handlers, reaper; `sm.mu`, one `s.mu` per session; pointers held between lock sections |
| HTTP API | `relay/httpapi.go` | two global and one per-IP rate window | the requests above, GET | one goroutine per request |
| Router, TCP handler | `relay/router.go`, `relay/tcphandler.go` | open TCP connections, connection count | read, look up, update, echo / unicast / broadcast, evict | one UDP loop, one goroutine per TCP connection, asynchronous closes |
| Relay process | `relay/server.go`, `relay/metrics.go` | counters, sockets | start, stop | |
| GPGNet server | `adapter/gpgnetserver.go` | game connection, game state, lobby channel, message queue | accept, read, lobby, flush, queue or send, clean up | accept/read goroutine, any number of callers; `connMu`, `queueMu` |
| Adapter | `adapter/adapter.go` | context, relay mode, registration | start, register once, leave, shut down | start-up goroutines, RPC handlers |
| Relay connection | `adapter/relayconn.go` | UDP socket, TCP connection, health | probe, switch to TCP, reconnect, keepalive | receive loop, keepalive, health monitor, peers |
| RPC server and handler | `adapter/rpcserver.go`, `adapter/rpchandler.go` | client connections | host, join, connect, disconnect, ICE messages, quit | one goroutine per client, restart callbacks |
| Peers | `adapter/peer.go`, `adapter/peermgr.go` | peer table, local sockets | add, replace, remove, deliver | three goroutines per peer |
| ICE peers | `adapter/icepeer.go` | peer connection, message channels | offer / answer, restart | library callbacks |
| Wire formats | `protocol/*.go` | - | encode, decode | pure |

What can go wrong in each of them, at which line, is the `hazards` list of
`PROJECT.json`.

## Modules

| Module | Models |
|---|---|
| `SessionManager` | `relay/session.go` and the requests of `relay/httpapi.go` that reach it |
| `RelayDirectory` | abstract specification: what the session tables promise to a client of the HTTP API |
| `GPGNetServer` | `adapter/gpgnetserver.go` and the shutdown of `adapter/adapter.go` |
| `RelayTransport` | the transport fields of `PlayerInfo`, `relay/router.go` and `relay/tcphandler.go` at one end, `adapter/relayconn.go` at the other |
| `PacketRouting` | the goroutines that route packets and the locks they share with the API and the reaper: `relay/router.go`, `relay/tcphandler.go`, the lock sections of `relay/session.go` |
| `RelayLobby` | registration, probe, the choice of relay or ICE, and leaving: `adapter/adapter.go`, `adapter/relayconn.go` and the requests of `adapter/rpchandler.go`, against `relay/httpapi.go` and the reaper |
| `ICERestart` | the ICE peer of one remote player and whatever replaces it: `adapter/icepeer.go`, `adapter/peermgr.go`, `iceRestartCallback` of `adapter/rpchandler.go` |
| `PacketForwarding` | from game to game: `adapter/peer.go`, the forwarding and echo parts of `adapter/icepeer.go`, dispatching in `adapter/relayconn.go` |
| `GameChannel` | abstract specification: what an adapter promises to its game about the datagrams that the network brings for it |
| `MCSessionManager`, `MCRelayTransport`, `MCRelayLobby`, `MCPacketForwarding` | symmetry, state constraint and constants for TLC |
| `SessionManagerProofs`, `GPGNetServerProofs`, `RelayTransportProofs`, `PacketRoutingProofs`, `RelayLobbyProofs`, `ICERestartProofs`, `PacketForwardingProofs` | theorems |

The modules overlap at the edges and share no variables: each keeps of its
neighbours what its own properties can tell apart. `SessionManager` has session
objects and time, `RelayTransport` addresses and connections of one session,
`PacketRouting` only membership and locks, `RelayLobby` one session as a set of
players. What holds three of them together is `RelayDirectory`: `SessionManager`
implements it in full, and the relay as `RelayLobby` and as `PacketRouting` see it is
shown to do nothing a directory does not (`UsesDirectory`, `KeepsDirectory`).

### SessionManager

A step is one lock section of the code: a request under `sm.mu`, a packet update
under `s.mu`, phase 1 (`Collect`) and phase 2 (`Reap`) of `ReapStaleSessions`.
Sessions are objects with an identity, because the reaper holds `*Session`
pointers between its two phases: `sessions` maps an ID to an object, and a
deleted session's object lives on while the reaper's candidate list points to
it. `UpdatePlayer` may hit any object that still has the player, since a handler
may have looked the pointer up arbitrarily long ago.

Times are ages in ticks, saturated one tick beyond the timeout they are compared
with. `UpdatePlayer` stores any age, because the code reads the clock before it
waits for the lock.

Phase 1 is one step although it takes the session locks one after the other:
everything it collects is verified again in phase 2, so a candidate list that mixes
instants leads to no removal that a list of one instant does not. Within
phase 2 one instant stands for the code's several calls of `time.Now`.

A request that changes nothing (an error answer, GET) is a stuttering step.
Names, logins and JSON are left out; `EffectiveMaxPlayers` keeps the defaulting
and capping of `max_players`.

### GPGNetServer

`pc` is the goroutine of `Run` and `handleConnection`; each call of
`SendToGameQueued` is a goroutine named by its message, whose `status` says
where the message is. `lobbyOnce` and the channel `lobbyReady` are two variables,
as in the code. A write to a game that has gone may succeed or fail. The context
and the listener are `stopped`.

### RelayTransport

One session. For every player the relay's `Addr`, `TCPConn` and `tcpIP`; for every
TCP connection the place of its handler goroutine, the frames nobody has read yet
and whether the relay has closed it; for every player's adapter its host, its
current connection and whether it has registered. Five things are steps of
their own because others run in between: a connection waits in the backlog
(`Accept`), a frame is read (`ReadFrame`) and only later handled (`AcceptFrame`,
`RejectConn`, `DropFrame`), its echo or its routing takes as long as the receivers
let it (`WritesDone`, `EchoFails`), and a `go conn.Close()` happens at some later time
(`CloseEvicted`). Frames sent before the adapter closed its end can still be read;
when the relay closes, unread frames are gone.

Look-up and update of one packet are one step: within one session an update that
finds its player gone does what a failed look-up does. Datagrams
are lost, delayed, reordered and duplicated. Exceeding the rate limit is a
choice (`DropDatagram`, `DropFrame`). Silence needs no clock: every step may be long
in coming, so a registered player may be reaped at any time. Of an address the IP
is kept, since the port is learned anew from every packet.

`NewProcess` ends an adapter and starts the next, which registers again: killed
(`Restart`) or after a leave request (`leaveRelay`). Names of connections are
recycled when neither end refers to them (`Free`).

### PacketRouting

A step is what a goroutine does between two points where it waits: for a lock, for
a write, or for the next packet. The locks are those of `sync.RWMutex`: a `Lock` that
waits keeps later `RLock`s out, and an `Unlock` admits the readers that wait by then
(`admitted`). `Holders`, `WaitRead` and `WaitWrite` derive a lock's state from where
the goroutines are. `broadcast` holds the session's `RLock` over all its writes
(`each`, `push`); the API and the reaper hold the manager's `Lock` while they wait
for a session's. A connection is `full` while its receiver does not read; a write
to it blocks until there is room, it is closed, or its `deadline` passes, if it has
one. The echo of a hello clears the deadline (`ClearDeadline`), whoever set it.
UDP writes do not block. The HTTP API is one request at a time: what one request
does with the locks a second does as well, behind it. Transports do not
change here; an exceeded rate limit is a choice.

### RelayLobby

Each adapter is a record: the stage of its life, `lobbyInitMode`, `relayMode`, the
registration behind `relaySetupOnce`, the transport, `relayConfirmed`, what its RPC
connection waits for, whether HostGame has been sent, and the kind of peer for each
other player. HTTP requests and replies are messages; a caller may give up (after 10 s,
5 s in `isHostOnRelay`, 3 s for leave) and its request may be served later all the same. The relay is one
session with its players and whether a hello of theirs has come. The client
calls the adapters in the order in which FAF does: a game is joined when it is
hosted, and the host is told of a joiner that is on its way.

`failed` records that a request was given up or refused, or a player reaped before
its first hello; `PeersAgree` and `LobbyOpens` promise nothing after that,
because the code does not retry. A route to the relay may open late (`PathOpens`) but
does not close again: a host that is cut off for longer than `PlayerTimeout` is
reaped, and `HostFound` and `PeersAgree` say nothing of such outages.

### ICERestart

Only the peer in the table has a state, and a goroutine's pointer to a peer is a
Boolean: it is the table's or not. That is all the code asks of pointers, since a
peer that has left the table never returns. Threads are the RPC connection,
the adapter's main goroutine, and goroutines of the restart callback. A callback
counts the restart (`CountRestart`), backs off and compares (`Wake`), replaces
(`ReplaceICEPeer`) and starts the new peer (`Start`); between these anything may
happen. `ConnectToPeer` looks the peer up and `AddICEPeer` adds it in a later step, so
that a restart may put one there in between, which is then taken as it is, whatever
its role. Close is two steps for a peer that has not been started, because Start may
come in between. Of credentials the model keeps whether they are the ones a
peer has. Of time since the last connection it keeps none / less than 60 s / more,
and lets the 60 s pass just before a callback compares, the only place that reads it.
Relay-only restarts differ only in their candidates and are not told apart. The count
of restarts saturates one above the cap, where the code only compares it. That the
remote answers (`Signalled`, `Answer`) is an assumption about the other adapter.

### PacketForwarding

Two ends and the network between them, over the relay or over ICE. Packets of
the games are numbers. What is on its way to an end is a set of frames, of which the
network brings any (`Take`), perhaps once more, or loses one (`Lose`): it loses,
reorders and duplicates, as UDP does. Each end has the game's port, the
address its peer has learned, the channel `fromCh` or the early buffer, and the round
trip it keeps. A clock reading is a choice of 0 or 1 ms, or an impossible value, which
measures nothing (`EchoOutOfRange`, a pong in `relayToGame`). `arrived` and
`measured` are history variables. Data that have come are known by their places in
`arrived`, so that two copies of one packet are told apart.

Each end implements `GameChannel`, with the packets that the other game has numbered as
`sent` and what its own game has received as `got`. The channel promises what the
adapter can: every packet that comes is given to the game at most once and in the order of
coming. It does not promise the order of sending, which neither the code nor the
network provides.

## Runs

| Run | Shows |
|---|---|
| `session_tables` | `IndexAgrees`, `CountersExact`, `WithinCapacity`, the inductive invariant `SafetyInv` (with the type invariant) and `ReapOnlyStale`, with DELETE, three players, two IDs, two objects, room for two players |
| `directory` | without DELETE: no orphan is reaped, the tables implement `RelayDirectory`, silent players and empty sessions are reaped |
| `reap_after_delete` (violation) | phase 2 unregisters an active player after DELETE, create and join for the same ID (`session.go:537`); one ID, one player, two objects |
| `lobby_queue` | no stranded message, an exact queue (`QueueInv`, with the type invariant), one close per channel, nothing for the first game before its lobby, flush and shutdown liveness; three callers, two games, a queue of two |
| `transport` | `PinMatchesConn`, `ConnsCounted` and the type invariant: three connections against a limit of two, two hosts, one restart of the adapter |
| `transport_liveness` | the handler of every abandoned or evicted connection ends (`HandlersEnd`); the relay comes back to the connection the adapter uses (`UsesCurrentConn`); both provided that writes return (`WritesReturn`) |
| `routing` | those at work never all wait for each other's locks (`NoLockCycle`); a broadcast writes only to players of its session; if receivers go on reading, no packet and no request waits for ever (`NobodyStuck`) |
| `stalled_receiver` (violation) | an echo clears the write deadline of a broadcast, which then holds the session lock as long as its receiver stalls (`tcphandler.go:20-22`) |
| `relay_lobby` | `HostFound`, `PeersAgree`; the relay that serves late requests and reaps does what `RelayDirectory` allows (`UsesDirectory`); lobbies open, joinGame returns and the relay forgets |
| `ice_restart` | `PortOpen`; every new peer is started (`NewPeerStarts`); a failed peer is replaced, the remote hears of restarts, retries end, shutdown completes |
| `overwritten_peer` (violation) | a restart started by a peer that was just replaced replaces its successor (`rpchandler.go:480-482`) |
| `forwarding` | each adapter implements `GameChannel`: between the network and the game nothing is duplicated, reordered or invented, though the network itself may duplicate and reorder (`ImplementsChannel`); `EarlyKept`, `RttTrue`, buffers within their capacity (`TypeOK`), and that an ICE peer follows the game to another port |

### Bounds

*Two session IDs* are needed for a migration; *two objects* for one ID let the
reaper hold the old object while the new one is in use; *three players* with
`MaxTotalPlayers = 2` reach the server limit, `MaxSessionPlayers = 2` the session
limit, and `DefaultMaxPlayers = 3` the cap. With `PlayerTimeout = 1` and
`SessionEmptyTimeout = 2` there are ages below, at and above each timeout, in the
code's order. `UntilOrphanReaped` ends exploration where the guarded invariants
say nothing. `CreateSession` needs a free object: the bound on `Objects` limits how
many sessions are in use or held by the reaper at once.

*Three messages* and `MaxQueued = 2` make the queue overflow while another caller
is between its test and its write; *two games* give every reset a predecessor.

*Three connections* with `MaxTCPConns = 2` are an old one, its successor and one that
meets the limit; recycled names make histories of any length. *Two
hosts* and *one restart* let a player come back from elsewhere; one unread frame
besides the one the handler holds is enough to be overtaken. The liveness run has
one host and no restart: its subject is the reconnection of one process.
All connections belong to one player, because players share nothing here but the
limit, which the theorems cover for any number of them.

*PacketRouting* has one session, one UDP and one TCP player, the reaper and one
request: enough for a writer between two readers of each lock, for a broadcast that
writes while its receiver's handler echoes, and for players that leave and return.
Migration between sessions is covered by the theorem, which holds for any number
of them; two sessions with the liveness property are beyond five minutes.
*RelayLobby* has a host and one joiner, each with one of two configurations: TCP
fallback behind a firewall that lets only TCP through, and UseOfficialFAF with a
route to the relay that opens later; so one run has relay lobbies, ICE lobbies,
and joiners that register on demand. *ICERestart* has two callbacks
at once (a self-initiated and a remote one, or those of two roles), a cap of one
or two restarts instead of five, and three calls of the client (`MaxCalls`), so that one
can connect, disconnect and connect again. `NewCallback` bounds the callbacks alive to one for each role.
*PacketForwarding* has two packets each way and buffers of two. Three data frames may
come to the answerer (`MaxArrivals`), one of them a duplicate, which is one more than
its buffer holds; one to the offerer. There are four echo frames; data and echoes are explored separately, since they share
nothing but the link.

`CHECK_DEADLOCK` is off except in the runs of `RelayTransport`: a relay nobody uses,
an adapter that has stopped and games that have sent all their packets do nothing.

### Fairness

`ReaperFairness`: the clock advances, and `RunReaper`'s loop keeps calling
`ReapStaleSessions`; phase 2 follows phase 1. Nothing is assumed of clients. In
`GPGNetServer`, the server goroutine and the two goroutines that wait for the
context keep running; game and callers may stop anywhere. `GameExits` has no
fairness: a game may stay for ever.

In `RelayTransport` every goroutine of the relay keeps running, except that nothing is
assumed of a write but that it returns (`WritesReturn`, a proviso of both liveness
properties: where an echo has cleared the deadline of a write, the code does not ensure
it, see `stalled_receiver`). The adapter's
keepalive (`RunKeepalive`) keeps sending, and `receiveTCP` notices a closed
connection and dials until it succeeds. Broken links, read timeouts, the reaper and
datagrams have no fairness. `UsesCurrentConn` speaks of behaviours in which from
some time on the player stays registered, and no link breaks, no read times out and no
frame exceeds the rate limit (`Quiet`); late frames and datagrams go on.

In `PacketRouting` goroutines run and write deadlines pass, and whoever waits for a
lock that becomes free again and again gets it: strong fairness of the steps of
each goroutine, since `sync.RWMutex` hands over to waiting readers on Unlock and
`sync.Mutex`, on which it is built, does not starve. Receivers have no fairness;
`NobodyStuck` assumes of them that none stalls for ever (`ReceiversRead`).

In `RelayLobby` requests are served or time out, the reaper runs, the goroutines of
the adapter run, and of an endless row of hellos on a route that is open one is
echoed. Clients, and routes that are closed, have no fairness.

In `ICERestart` goroutines and timers run and gathering ends. Strong fairness of
`Answer`: the remote answers credentials that are sent, which a peer that may speak
first repeats every `signalingTimeout`. A peer that says nothing is sent nothing:
this is why `RestartHeard` depends on `SetSendFirst`. Connecting and failing have
no fairness. In `PacketForwarding` the goroutines that read from the games run; the
network owes nothing.

## Proofs

For every finite set of session IDs and players, every set of objects, all
limits and all timeouts with `PlayerTimeout <= SessionEmptyTimeout`:

* `Safety`: `Spec => []SafetyInv`. `IndexAgrees` is not inductive: phase 2 works on
  the candidates' objects, so one must know that a candidate of an ID is an
  object created for that ID (`ObjectsConsistent`), that different IDs therefore
  never share an object, and that free memory has no players. Exact counting of a
  reaper cycle needs a bijection between removed players and (ID, player) pairs
  (`ReapedPlayersCounted`), which exists because an indexed player is in one
  session only. `CountersExact` and `SizesBounded` are preserved relative to
  `IndexAgrees`.
* `IndexCorrect`, `CountersCorrect`, `CapacityRespected`, `TypeCorrect`: corollaries.
  Capacity needs `IndexAgrees`: the code bounds the index, the theorem bounds the
  players of all open sessions.
* `ReapCorrect`: `Spec => ReapOnlyStale`, from the invariant.
* `OrphansNeedDelete`, `DirectoryImplemented`: without DELETE every candidate still is
  the session of its ID (`CandidatesLive`), so the provisos of the invariants
  disappear and every step maps to a step of `RelayDirectory` or to a stutter.

For every set of messages, queue limit and number of games:

* `QueueSafe`: `Spec => []QueueInv`. `NoneStranded` needs `once <=> ready` (the channel is
  fresh exactly when the Once is) and that the server is past the close while it
  flushes; `QueueExact` needs that what is being flushed is no longer queued.
* `NoMessageStranded`, `ChannelClosedOnce`, `QueueKept`: corollaries.
* `FirstGameUndisturbed`: `Spec => []FirstGameWaits`. A caller writes after it has
  released `queueMu`; that it writes to a game whose lobby is up needs that during
  the first game a caller past the test implies that the channel was closed
  (`FirstLobby`). With a second game this fails, see below.
* `QueueTypes`: the type invariant.

For every set of players and hosts, every finite set of connections and every limit:

* `PinFollowsConn`, `ConnLimitKept`, `TransportTypes`: `Spec => []` of `PinMatchesConn`,
  `ConnsCounted` and `TypeOK`. Their conjunction is inductive: that activeConns does not
  become negative needs the count, the count needs that only a running handler
  returns, and the pin needs that a name is not recycled while a player's record
  refers to it.

For all finite sets of players, and any sessions:

* `RoutingInvHolds`: `Spec => []RoutingInv`, the conjunction of `TypeOK`, what a
  goroutine past its look-up knows of its packet, what a request or the reaper past
  the manager's lock knows, and `BroadcastStaysInSession`. A membership changes only
  under the session's `Lock`, which `CanLock` grants only when no broadcast holds the
  `RLock`. `BroadcastCorrect`, `RoutingTypes`: corollaries.
* `ManagerLockExcludes`: `Spec => []LocksExclude`. An `Unlock` admits readers before they
  have run, so the holders alone do not tell whether a lock is free. The invariant
  `LockInv` says that whoever has been admitted still waits, and that no reader of the
  manager's tables is admitted while somebody holds them for writing.
* `NoDeadlock`: `Spec => []NoLockCycle`. If all those at work waited, no broadcast would
  hold a session's lock, because it waits for writes only; so nobody would wait for a
  session's lock, and whoever holds the manager's would go on; so the manager's would be
  free, and whoever waits for it could have it.
* `MembershipKeepsDirectory`: `Spec => KeepsDirectory`. A migration is a leave and a
  join: since a request knows the player's session, no step puts a player on a
  second roster.

For every host, every finite set of joiners and every set of configurations:

* `LobbyInvHolds`: `Spec => []LobbyInv`. `HostFound` is not inductive: HostGame was
  sent because `relayConfirmed` was closed, possibly long ago. The invariant says of a
  host that is up: no leave request of it is on its way, its join is either on
  its way or done but not both (a second join would reset what the relay has heard),
  and a confirmed host is registered, has been heard, has decided its transport
  and gets through, so the reaper spares it.
* `AgreeInvHolds`: `Spec => []AgreeInv`, for `PeersAlwaysAgree`. The two ends
  never speak about the way they use; each finds it out by itself, the host from its
  configuration (`HostMode`), a joiner by asking the relay for the host. The
  invariant ties them together: an answer that is under way already agrees with
  `HostMode` (`GetInv`), which needs `HostFound` for a relay lobby and, for an ICE
  lobby, that a host told to use the official way never registers (`OfficialInv`).
  The host never changes its mode (`HostInv`), a joiner does what the answer says
  (`JoinerInv`).
* `RelayIsDirectory`: `Spec => UsesDirectory`: every step of the requests and the
  reaper maps to a step of `RelayDirectory` with one session, all others to a stutter.
* `HostAlwaysFound`, `LobbyTypes`. `HostAlwaysFound` is relative to the model's network: a
  route that is open stays open. A host cut off for longer than `PlayerTimeout` is
  reaped.

For any number of callbacks and calls, and any cap:

* `PortInvHolds`: `Spec => []PortInv`, the conjunction of `TypeOK`, `PointersPresent`
  (a pointer is the table's only if the table has a peer) and `PortOpen`; it is
  inductive. `PortStaysOpen`: a corollary.
* `EveryPeerStarts`: `Spec => []NewPeerStarts`, relative to `PortInv`. A peer is new only
  in the step that puts it into the table, and the thread that does so goes on to
  start it with a pointer that is the table's; whoever replaces or removes the peer in
  between takes the pointer, and the new peer, away together.

For all capacities of buffers, any bounds on packets, arrivals and echoes, and a network
that loses, reorders and duplicates:

* `TypeInvHolds`: `TypeOK` needs that in ICE mode only data frames wait
  (`OnlyDataWaits`), since what is flushed to a game is a payload. `ForwardingTypes`.
* `ChannelImplemented`: `Spec => ImplementsChannel`. That a game gets packets in the
  order of coming is not inductive: what it gets next is in the buffer. `LineInv` says
  that the places increase along the line to a game, from what it has got over the
  buffer, and that none is beyond the last that has come. Dropping a frame
  at a full buffer, losing data that have no address and flushing each keep a
  subsequence of the line. `SentInv` says that data on the way and data that have come were
  sent. Every step then maps to `Send`, `Receive` or a stutter.
* `GamesGetWhatCame`: `Spec => []Channel!Faithful`, from the same two invariants.
* `EarlyDataKept`: `Spec => []EarlyKept`, with `PortsInv`: until the game moves, every
  address learned of it is its first port, so nothing is written to a port that
  nobody reads.
* `RoundTripsTrue`: `Spec => []RttTrue`, inductive with the types.

Every safety property that a passing run checks is thus proved. `KeepsDirectory`,
`LocksExclude` and `Channel!Faithful` are proved without a run of their own.

Only model-checked: the liveness properties (TLAPS does not handle fairness or
ENABLED here), and every violation. `NoLockCycle` says that somebody at work waits
for no lock it cannot have; that it then makes a step is a matter of ENABLED, and part of
what `NobodyStuck` checks.

## Findings

Three runs show the code doing what a comment says it does not; `findings` in
`PROJECT.json` quotes the lines.

* `reap_after_delete`: the reaper re-verifies the object it collected, also when the ID
  belongs to another object by then.
* `stalled_receiver`: `tcphandler.go:173` clears a deadline that `sendToTarget` has set
  on the same connection.
* `overwritten_peer`: closing a peer in Dial makes it ask for a restart, which takes
  the successor for the peer that failed.

Disagreements between code and comments that the models contain and no run
checks:

* A join that migrates removes the player from the old session before the new one
  is found full (`session.go:407`); the comment at 385-386 describes only a move.
* Before a player's first packet the age of the session counts, not of the join
  (`session.go:465`, comment 455-456).
* A re-join resets the transport so that stale routes are gone (`session.go:400-402`);
  a late packet of the former process sets it again.
* `RemovePlayerIfStale` "must NOT be called with sm.mu held" (`session.go:477`); phase 2 of
  the reaper calls it with `sm.mu` held (`session.go:538`). The order, manager before
  session, is the one of all requests; `NoLockCycle` shows that it leads to no deadlock.
* `AddICEPeer` "creates and starts" a peer (`peermgr.go:69`); the caller starts it
  (`NewPeerStarts`). A peer that is already there is returned whatever its role.
* A late frame of an old TCP connection evicts the current one (`session.go:274`,
  comment 251-252); `UsesCurrentConn` shows that it comes back.
* `SendToGameQueued` promises to send "once the lobby is ready" (`gpgnetserver.go:234`); a
  caller that saw the first game's lobby may write to the second game before its own.
* What is queued before a game connects is discarded by the reset
  (`gpgnetserver.go:128`, against `resilience_test.go:147-150`).
* An adapter that registered but uses ICE does not leave: `leaveRelay` returns when
  `relayMode` is false, against the comment at `adapter.go:413-414` that the slot is
  freed at once. `RelayForgets` shows that the reaper frees it.
* A failed registration is not repeated, so connectivity is not "restored via
  keepalive" (`adapter.go:264-266`) in that case.
* Close may wait for ever for a goroutine started between its two halves
  (`icepeer.go:1048-1050`), and such a goroutine reads the socket beside that of the
  next peer (`icepeer.go:1010-1011`).
* A measured round trip of 0 ms counts as no measurement (`icepeer.go:722-723`).

## Not modelled

* Wire formats (`protocol/*.go`, the framing of `rpcserver.go` and of TCP frames): pure
  conversions; a packet or message is one value here. Hence partial writes, which
  leave a stream in the middle of a frame, are not modelled either.
* The rate limiters of the HTTP API and the counters of the packet rate: that a packet
  may exceed the rate is a choice in every module, when it does is not.
* The health monitor, statistics, status report and debug page: they read state
  and report it. ForceICEReconnect of the debug page is an action of `ICERestart`.
* STUN round trips: `RttMs` of an ICE peer prefers the library's, which is external.
* Relay-only restarts and candidates: data for the ICE library, which is external.
* setIceServers and sendToGpgNet apart from queueing: plain assignments.
* Configuration, log files, sockets' set-up, the Java wrapper, the load generators
  and test programs: process I/O.
