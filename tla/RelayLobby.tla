----------------------------- MODULE RelayLobby -----------------------------
(***************************************************************************)
(* A lobby whose players may use the relay: how an adapter registers with  *)
(* the relay, finds out that it is reached, decides between the relay and  *)
(* ICE, and leaves (internal/adapter/adapter.go; hostGame, joinGame,       *)
(* connectToPeer and quit of rpchandler.go; the probe, the keepalive and   *)
(* relayConfirmed of relayconn.go), with the relay's HTTP API              *)
(* (internal/relay/httpapi.go) and its reaper at the other end.            *)
(*                                                                         *)
(* One session.  A request that an adapter gives up may still be served.   *)
(***************************************************************************)
EXTENDS Integers, FiniteSets

CONSTANTS
  Host,      \* the adapter of the player who hosts
  Joiners,   \* those of the others
  Configs    \* UseOfficialFAF; else, TCPFallback; and what gets through to the
             \* relay at first (ForceTCP is TCPFallback where only TCP does)

ASSUME HostIsNoJoiner == Host \notin Joiners /\ IsFiniteSet(Joiners)

Adapters == Joiners \cup {Host}

\* path: "open" for all, "tcp" for TCP and HTTP, "closed" until it opens.
Config == [official : BOOLEAN, tcp : BOOLEAN, path : {"open", "tcp", "closed"}]

ASSUME ConfigsAreConfig ==
  Configs \subseteq Config /\ \A c \in Configs : c.official => ~c.tcp

VARIABLES
  cfg,       \* the configurations; path changes
  matchmaker,\* the lobby is an automatic one
  ad,        \* the adapters
  net,       \* HTTP requests and replies on their way
  session,   \* the relay has the session
  players,   \* Session.players
  heard,     \* the players whose hello has come: LastSeen is set
  failed     \* a request has been given up, a registration refused, or a player
             \* reaped whose first hello was still to come

vars == <<cfg, matchmaker, ad, net, session, players, heard, failed>>

relay == <<session, players, heard>>

(* life     up, leaving (closed its peers), left (waits for leave), stopped *)
(* auto     lobbyInitMode                                                   *)
(* mode     relayMode, "none" before hostGame or joinGame                   *)
(* setup    relaySetupOnce and what registerWithRelay waits for             *)
(* link     the transport, "probing" before MarkTransportReady              *)
(* rpc      what the RPC connection waits for                               *)
(* game     HostGame: not asked for, waiting for relayConfirmed, sent       *)
(* peer     the kind of peer for each other player                          *)
Adapter == [life : {"up", "leaving", "left", "stopped"}, auto : BOOLEAN,
            mode : {"none", "relay", "ice"},
            setup : {"none", "create", "join", "done", "failed"},
            link : {"probing", "udp", "tcp"}, confirmed : BOOLEAN,
            rpc : {"idle", "asking", "ensuring"}, game : {"none", "waiting", "sent"},
            peer : [Adapters -> {"none", "relay", "ice"}]]

Message == [from : Adapters, op : {"create", "join", "get", "leave"},
            state : {"sent", "ok", "refused"}]

\* Every variable has its type.
TypeOK ==
  /\ cfg \in [Adapters -> Config]
  /\ matchmaker \in BOOLEAN /\ session \in BOOLEAN /\ failed \in BOOLEAN
  /\ ad \in [Adapters -> Adapter] /\ net \subseteq Message
  /\ players \subseteq Adapters /\ heard \subseteq Adapters

Request(a, op) == [from |-> a, op |-> op, state |-> "sent"]

\* The process has ended: nothing of its state is left.
Stopped == [life |-> "stopped", auto |-> FALSE, mode |-> "none", setup |-> "none",
            link |-> "udp", confirmed |-> FALSE, rpc |-> "idle", game |-> "none",
            peer |-> [b \in Adapters |-> "none"]]

(* Run: registration begins at once unless UseOfficialFAF, and so does the  *)
(* probe.                                                                   *)
Run(a) ==
  [life |-> "up", auto |-> FALSE, mode |-> "none",
   setup |-> IF cfg[a].official THEN "none" ELSE "create",
   link |-> IF cfg[a].tcp THEN "probing" ELSE "udp",
   confirmed |-> FALSE, rpc |-> "idle", game |-> "none",
   peer |-> [b \in Adapters |-> "none"]]

Init ==
  /\ cfg \in [Adapters -> Configs]
  /\ matchmaker \in BOOLEAN
  /\ ad = [a \in Adapters |-> Run(a)]
  /\ net = {Request(a, "create") : a \in {b \in Adapters : ~cfg[b].official}}
  /\ session = FALSE /\ players = {} /\ heard = {} /\ failed = FALSE

-----------------------------------------------------------------------------
(* The relay. *)

\* Does anyone wait for the reply to a's request?
Awaited(a, op) == CASE op = "get" -> ad[a].rpc = "asking"
                    [] op = "leave" -> ad[a].life = "left"
                    [] OTHER -> ad[a].setup = op

Answer(m, ok) == net' = (net \ {m}) \cup
  {r \in {[m EXCEPT !.state = IF ok THEN "ok" ELSE "refused"]} : Awaited(m.from, m.op)}

Arrives(op, m) == m \in net /\ m.op = op /\ m.state = "sent"
                  /\ cfg[m.from].path # "closed"

\* POST /sessions: 201, or 409 if it exists, and either will do.
handleSessions(m) ==
  /\ Arrives("create", m) /\ Answer(m, TRUE)
  /\ session' = TRUE
  /\ UNCHANGED <<cfg, matchmaker, ad, players, heard, failed>>

\* Mutant: does not look whether the session is still there.
handleJoinUnchecked(m) ==
  /\ Arrives("join", m) /\ Answer(m, session)
  /\ players' = players \cup {m.from}
  /\ heard' = heard \ {m.from}
  /\ UNCHANGED <<cfg, matchmaker, ad, session, failed>>

\* POST /sessions/{id}/join: 409 if there is no such session (any more).  A
\* player who joins again starts with no transport.
handleSessionJoin(m) ==
  /\ Arrives("join", m) /\ Answer(m, session)
  /\ players' = IF session THEN players \cup {m.from} ELSE players
  /\ heard' = IF session THEN heard \ {m.from} ELSE heard
  /\ UNCHANGED <<cfg, matchmaker, ad, session, failed>>

\* GET /sessions/{id}, asked for whether the host is among the players.
handleSessionRoot(m) ==
  /\ Arrives("get", m) /\ Answer(m, session /\ Host \in players)
  /\ UNCHANGED <<cfg, matchmaker, ad, relay, failed>>

\* POST /sessions/{id}/leave
handleSessionLeave(m) ==
  /\ Arrives("leave", m) /\ Answer(m, session /\ m.from \in players)
  /\ players' = players \ {m.from} /\ heard' = heard \ {m.from}
  /\ UNCHANGED <<cfg, matchmaker, ad, session, failed>>

\* Process a has not ended.
Running(a) == ad[a].life # "stopped"

\* The adapter's hellos get through to the relay.
Reaches(a) ==
  /\ Running(a)
  /\ \/ cfg[a].path = "open" \/ (cfg[a].path = "tcp" /\ ad[a].link = "tcp")

\* Mutant: only a player that has been heard can go stale.
ReapHeard(a) ==
  /\ a \in players /\ a \in heard /\ ~Reaches(a)
  /\ players' = players \ {a} /\ heard' = heard \ {a}
  /\ failed' = (failed \/ Reaches(a) \/ (Running(a) /\ ad[a].link = "probing"))
  /\ UNCHANGED <<cfg, matchmaker, ad, net, session>>

\* Nothing has come from a player for PlayerTimeout.  A player from whom nothing
\* has come yet counts as long as its session.
ReapPlayer(a) ==
  /\ a \in players /\ (a \in heard => ~Reaches(a))
  /\ players' = players \ {a} /\ heard' = heard \ {a}
  /\ failed' = (failed \/ Reaches(a) \/ (Running(a) /\ ad[a].link = "probing"))
  /\ UNCHANGED <<cfg, matchmaker, ad, net, session>>

\* The session has been empty for SessionEmptyTimeout.
ReapSession ==
  /\ session /\ players = {}
  /\ session' = FALSE
  /\ UNCHANGED <<cfg, matchmaker, ad, net, players, heard, failed>>

\* The route to the relay opens.  It stays open: an outage of PlayerTimeout, after
\* which the relay has reaped a player that relaySetupOnce registers only once, is
\* not modelled.
PathOpens(a) ==
  /\ cfg[a].path = "closed"
  /\ cfg' = [cfg EXCEPT ![a].path = "open"]
  /\ UNCHANGED <<matchmaker, ad, net, relay, failed>>

-----------------------------------------------------------------------------
(* Registration and transport. *)

Local == UNCHANGED <<cfg, matchmaker, relay>>

\* The reply to a's request, or "failed": an error, or the client's timeout, after
\* which the request or its reply may still be on its way.
Reply(a, op, result, next) ==
  LET m == [from |-> a, op |-> op, state |-> result] IN
  \/ /\ m \in net /\ net' = (net \ {m}) \cup next
     /\ failed' = (failed \/ (op = "join" /\ result = "refused"))
  \/ /\ result = "failed" /\ failed' = TRUE
     /\ net' = {n \in net : n.from = a /\ n.op = op => n.state = "sent"} \cup next

\* ensureRelayReady: the first caller registers, the others wait for it.
StartSetup(a) == IF ad[a].setup = "none" THEN "create" ELSE ad[a].setup
SetupRequest(a) == IF ad[a].setup = "none" THEN {Request(a, "create")} ELSE {}
SetupOver(a) == ad[a].setup \in {"done", "failed"}

\* registerWithRelay: the session exists.
CreateAnswered(a) ==
  /\ Running(a) /\ ad[a].setup = "create"
  /\ \/ /\ Reply(a, "create", "ok", {Request(a, "join")})
        /\ ad' = [ad EXCEPT ![a].setup = "join"]
     \/ /\ Reply(a, "create", "failed", {})
        /\ ad' = [ad EXCEPT ![a].setup = "failed"]
  /\ Local

\* registerWithRelay: the player is in it, or setup ends for good.
JoinAnswered(a) ==
  /\ Running(a) /\ ad[a].setup = "join"
  /\ \E r \in {"ok", "refused", "failed"} :
       /\ Reply(a, "join", r, {})
       /\ ad' = [ad EXCEPT ![a].setup = IF r = "ok" THEN "done" ELSE "failed"]
  /\ Local

\* A hello, of the probe or the keepalive, reaches the relay, the adapter is a
\* registered player, and the echo comes back.  While the transport is not
\* decided only the probe reads it, and is content.
Hello(a) ==
  /\ Reaches(a) /\ a \in players /\ ~ad[a].confirmed
  /\ heard' = heard \cup {a}
  /\ ad' = [ad EXCEPT ![a].confirmed = TRUE,
                      ![a].link = IF @ = "probing" THEN "udp" ELSE @]
  /\ UNCHANGED <<cfg, matchmaker, net, session, players, failed>>

\* Mutant: stays with UDP.
ProbeStays(a) ==
  /\ Running(a) /\ ad[a].link = "probing"
  /\ ad' = [ad EXCEPT ![a].link = "udp"]
  /\ UNCHANGED <<net, failed>> /\ Local

\* No echo for ProbeTimeout, or ForceTCP: dial, and stay with UDP if that fails.
ProbeFails(a) ==
  /\ Running(a) /\ ad[a].link = "probing"
  /\ \/ /\ cfg[a].path # "closed" /\ ad' = [ad EXCEPT ![a].link = "tcp"]
        /\ UNCHANGED failed
     \/ ad' = [ad EXCEPT ![a].link = "udp"] /\ failed' = TRUE
  /\ UNCHANGED net /\ Local

-----------------------------------------------------------------------------
(* The RPC connection. *)

Ready(a) == ad[a].life = "up" /\ ad[a].rpc = "idle"

setLobbyInitMode(a) ==
  /\ Ready(a) /\ ad[a].auto # matchmaker
  /\ ad' = [ad EXCEPT ![a].auto = matchmaker]
  /\ UNCHANGED <<net, failed>> /\ Local

\* Mutant: HostGame is sent at once.
hostGameAtOnce ==
  LET useRelay == ~cfg[Host].official /\ ~ad[Host].auto IN
  /\ Ready(Host) /\ ad[Host].game = "none" /\ ad[Host].auto = matchmaker
  /\ ad' = [ad EXCEPT ![Host].mode = IF useRelay THEN "relay" ELSE "ice",
                      ![Host].game = "sent"]
  /\ UNCHANGED <<net, failed>> /\ Local

\* The lobby's mode is decided; in relay mode HostGame waits for relayConfirmed.
hostGame ==
  LET useRelay == ~cfg[Host].official /\ ~ad[Host].auto IN
  /\ Ready(Host) /\ ad[Host].game = "none" /\ ad[Host].auto = matchmaker
  /\ ad' = [ad EXCEPT ![Host].mode = IF useRelay THEN "relay" ELSE "ice",
                      ![Host].game = IF useRelay THEN "waiting" ELSE "sent"]
  /\ UNCHANGED <<net, failed>> /\ Local

\* The goroutine of hostGame.
RelayConfirmed ==
  /\ ad[Host].life = "up" /\ ad[Host].game = "waiting" /\ ad[Host].confirmed
  /\ ad' = [ad EXCEPT ![Host].game = "sent"]
  /\ UNCHANGED <<net, failed>> /\ Local

\* Mutant: asks for an automatic lobby too.
joinGameAsks(a) ==
  /\ Ready(a) /\ ad[a].peer[Host] = "none" /\ ad[a].auto = matchmaker
  /\ ad[Host].game = "sent"
  /\ ad' = [ad EXCEPT ![a].rpc = "asking"]
  /\ net' = net \cup {Request(a, "get")}
  /\ UNCHANGED failed /\ Local

\* A player joins a game that is hosted: isHostOnRelay asks, except for an
\* automatic lobby.
joinGame(a) ==
  /\ Ready(a) /\ ad[a].peer[Host] = "none" /\ ad[a].auto = matchmaker
  /\ ad[Host].game = "sent"
  /\ \/ /\ ad[a].auto
        /\ ad' = [ad EXCEPT ![a].mode = "ice", ![a].peer[Host] = "ice"]
        /\ UNCHANGED net
     \/ /\ ~ad[a].auto
        /\ ad' = [ad EXCEPT ![a].rpc = "asking"]
        /\ net' = net \cup {Request(a, "get")}
  /\ UNCHANGED failed /\ Local

\* The rest of joinGame once isHostOnRelay has returned.
HostOnRelay(a) ==
  /\ Running(a) /\ ad[a].rpc = "asking"
  /\ \/ /\ Reply(a, "get", "ok", SetupRequest(a))
        /\ ad' = [ad EXCEPT ![a].mode = "relay", ![a].rpc = "ensuring",
                            ![a].setup = StartSetup(a)]
     \/ /\ \E r \in {"refused", "failed"} : Reply(a, "get", r, {})
        /\ ad' = [ad EXCEPT ![a].mode = "ice", ![a].rpc = "idle",
                            ![a].peer[Host] = "ice"]
  /\ Local

\* Mutant: waits until the registration succeeds.
AddRegisteredPeer(a) ==
  /\ Running(a) /\ ad[a].rpc = "ensuring" /\ ad[a].setup = "done"
  /\ ad' = [ad EXCEPT ![a].rpc = "idle", ![a].peer[Host] = "relay"]
  /\ UNCHANGED <<net, failed>> /\ Local

\* ensureRelayReady returns, and joinGame adds the relay peer.
AddRelayPeer(a) ==
  /\ Running(a) /\ ad[a].rpc = "ensuring" /\ SetupOver(a)
  /\ ad' = [ad EXCEPT ![a].rpc = "idle", ![a].peer[Host] = "relay"]
  /\ UNCHANGED <<net, failed>> /\ Local

\* connectToPeer at the host, when joiner b comes: the mode has been decided.
connectToPeer(b) ==
  /\ Ready(Host) /\ ad[Host].game = "sent" /\ ad[Host].peer[b] = "none"
  /\ ad[b].rpc # "idle" \/ ad[b].peer[Host] # "none"
  /\ ad[Host].mode = "relay" => SetupOver(Host)
  /\ ad' = [ad EXCEPT ![Host].peer[b] = ad[Host].mode]
  /\ UNCHANGED <<net, failed>> /\ Local

\* quit, or the game is gone: Run goes on to close the peers.
quit(a) ==
  /\ ad[a].life = "up"
  /\ ad' = [ad EXCEPT ![a].life = "leaving", ![a].peer = [b \in Adapters |-> "none"]]
  /\ UNCHANGED <<net, failed>> /\ Local

\* leaveRelay, and Run returns once it is answered or three seconds have passed.
Unread(a, msgs) == {m \in msgs : m.from = a => m.state = "sent"}

leaveRelay(a) ==
  /\ ad[a].life = "leaving"
  /\ IF ad[a].mode = "relay"
     THEN /\ net' = net \cup {Request(a, "leave")}
          /\ ad' = [ad EXCEPT ![a].life = "left"]
     ELSE /\ ad' = [ad EXCEPT ![a] = Stopped]
          /\ net' = Unread(a, net)
  /\ UNCHANGED failed /\ Local

LeaveAnswered(a) ==
  /\ ad[a].life = "left"
  /\ \/ /\ \E r \in {"ok", "refused"} : [from |-> a, op |-> "leave", state |-> r] \in net
        /\ UNCHANGED failed
     \/ failed' = TRUE
  /\ net' = Unread(a, net)
  /\ ad' = [ad EXCEPT ![a] = Stopped]
  /\ Local

-----------------------------------------------------------------------------
Serve(m) == \/ handleSessions(m) \/ handleSessionJoin(m)
            \/ handleSessionRoot(m) \/ handleSessionLeave(m)
Reaper == ReapSession \/ \E a \in Adapters : ReapPlayer(a)
Setup(a) == CreateAnswered(a) \/ JoinAnswered(a)
JoinGameReturns(a) == HostOnRelay(a) \/ AddRelayPeer(a)
Stop(a) == leaveRelay(a) \/ LeaveAnswered(a)

Next ==
  \/ \E m \in net : Serve(m)
  \/ Reaper \/ hostGame \/ RelayConfirmed
  \/ \E a \in Adapters :
       \/ PathOpens(a) \/ Setup(a) \/ Hello(a) \/ ProbeFails(a)
       \/ setLobbyInitMode(a) \/ quit(a) \/ Stop(a)
  \/ \E b \in Joiners : joinGame(b) \/ JoinGameReturns(b) \/ connectToPeer(b)

Spec == Init /\ [][Next]_vars

\* The goroutines run, requests are served or time out, the reaper runs, and
\* some echo of an endless row of hellos comes back.
Fairness ==
  /\ WF_vars(\E m \in net : Serve(m)) /\ WF_vars(Reaper) /\ WF_vars(RelayConfirmed)
  /\ \A a \in Adapters :
       /\ WF_vars(Setup(a)) /\ WF_vars(ProbeFails(a)) /\ WF_vars(Stop(a))
       /\ WF_vars(Hello(a))
  /\ \A b \in Joiners : WF_vars(JoinGameReturns(b))

FairSpec == Spec /\ Fairness

-----------------------------------------------------------------------------
(* Properties. *)

\* Between a lobby that is open in relay mode and the relay: the host is in the
\* session as long as its adapter runs, so that a joiner that asks finds it.
\* This is what HostGame waits for.  The route of a host that has been heard does
\* not fail here for PlayerTimeout: one that does is reaped and stays out.
HostFound ==
  ad[Host].game = "sent" /\ ad[Host].mode = "relay" /\ ad[Host].life = "up"
    => session /\ Host \in players

\* The two ends of a connection use the same way, the relay or ICE, as long as
\* no request has failed.
PeersAgree ==
  ~failed => \A b \in Joiners :
    ad[Host].peer[b] # "none" /\ ad[b].peer[Host] # "none"
      => ad[b].peer[Host] = ad[Host].peer[b]

\* The relay that the adapters meet here is the one that RelayDirectory describes,
\* with one session, and SessionManager implements: requests that are served late,
\* after the reaper has taken the player or the session away, change nothing they
\* should not.
Directory == INSTANCE RelayDirectory WITH
  SessionIDs <- {"lobby"}, Players <- Adapters, Rosters <- SUBSET Adapters,
  open <- {s \in {"lobby"} : session}, roster <- [s \in {"lobby"} |-> players]
UsesDirectory == Directory!Spec

\* The lobby opens: the host's registration is served and its hellos get through
\* (by TCP if it may fall back), so the relay is confirmed and HostGame is sent.
Reachable(a) == cfg[a].path = "open" \/ (cfg[a].path = "tcp" /\ cfg[a].tcp)
LobbyOpens ==
  [](~failed) => (ad[Host].game = "waiting" /\ Reachable(Host)
                  ~> ad[Host].game = "sent" \/ ad[Host].life # "up")

\* joinGame returns: neither the question for the host nor a registration that
\* another goroutine has begun holds the RPC connection for ever.
JoinReturns == \A b \in Joiners : ad[b].rpc # "idle" ~> ad[b].rpc = "idle"

\* When all adapters have stopped the relay comes to forget them, also those
\* that did not say so and those whose last requests were late.
RelayForgets ==
  (\A a \in Adapters : ad[a].life = "stopped") ~> [](players = {} /\ ~session)
=============================================================================
