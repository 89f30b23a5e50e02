-------------------------- MODULE RelayLobbyProofs --------------------------
(***************************************************************************)
(* For every number of joiners and all configurations: a joiner that asks  *)
(* the relay for the host of an open relay lobby finds it, a joiner and    *)
(* the host that speak to each other as peers agree on how, and the relay, *)
(* as the adapters see it, is a directory of one session.                  *)
(*                                                                         *)
(* HostGame is sent when an echo has come back, so the relay had the host. *)
(* That it still has it needs that its reaper hears the host, that the     *)
(* host's join is served only once, since another would reset what the     *)
(* relay knows of the host, and that the host sends no leave before it is  *)
(* down.                                                                   *)
(*                                                                         *)
(* That the two ends agree needs more than what each of them remembers: an *)
(* invariant follows the choice of a way from the host's configuration to  *)
(* the joiner, through requests and answers that are still on their way    *)
(* (AgreeInv).                                                             *)
(***************************************************************************)
EXTENDS RelayLobby, TLAPS

-----------------------------------------------------------------------------
(* Types *)

\* The variables that no action of an adapter changes.
LEMMA LocalTypes ==
  ASSUME TypeOK, Local, ad' \in [Adapters -> Adapter], net' \subseteq Message,
         failed' \in BOOLEAN
  PROVE  TypeOK'
BY DEF TypeOK, Local, relay

\* Requests and replies are messages.
LEMMA MessageTypes ==
  /\ \A a \in Adapters, op \in {"create", "join", "get", "leave"} :
       Request(a, op) \in Message
  /\ \A m \in Message, r \in {"ok", "refused"} : [m EXCEPT !.state = r] \in Message
BY DEF Request, Message

\* The relay's answers.
LEMMA AnswerTypes ==
  ASSUME TypeOK, NEW m \in net, NEW ok \in BOOLEAN, Answer(m, ok)
  PROVE  net' \subseteq Message
<1> DEFINE r == [m EXCEPT !.state = IF ok THEN "ok" ELSE "refused"]
<1>1. r \in Message
  BY MessageTypes, ZenonT(40) DEF TypeOK
<1>2. net' \subseteq net \cup {r}
  BY DEF Answer
<1> QED
  BY <1>1, <1>2 DEF TypeOK

\* What an adapter's request leaves on its way.
LEMMA ReplyTypes ==
  ASSUME TypeOK, NEW a, NEW op, NEW result, NEW next \in SUBSET Message,
         Reply(a, op, result, next)
  PROVE  net' \subseteq net \cup next /\ net' \subseteq Message /\ failed' \in BOOLEAN
BY ZenonT(40) DEF TypeOK, Reply

\* The relay and the routes.
LEMMA RelayTypes ==
  ASSUME TypeOK, (\E m \in net : Serve(m)) \/ Reaper \/ \E a \in Adapters : PathOpens(a)
  PROVE  TypeOK'
<1>1. ASSUME NEW m \in net, Serve(m)
      PROVE  TypeOK'
  <2>1. m.from \in Adapters /\ session \in BOOLEAN
    BY DEF TypeOK, Message
  <2>2. net' \subseteq Message
    <3>1. TRUE \in BOOLEAN /\ session \in BOOLEAN /\ (session /\ Host \in players) \in BOOLEAN
          /\ (session /\ m.from \in players) \in BOOLEAN
      BY <2>1
    <3> QED
      BY <1>1, <3>1, AnswerTypes, ZenonT(40)
         DEF Serve, handleSessions, handleSessionJoin, handleSessionRoot, handleSessionLeave
  <2> QED
    BY <1>1, <2>1, <2>2, ZenonT(40) DEF Serve, handleSessions, handleSessionJoin, handleSessionRoot,
                            handleSessionLeave, TypeOK, relay
<1>2. CASE Reaper
  BY <1>2, ZenonT(40) DEF Reaper, ReapSession, ReapPlayer, TypeOK
<1>3. ASSUME NEW a \in Adapters, PathOpens(a)
      PROVE  TypeOK'
  BY <1>3 DEF PathOpens, TypeOK, Config, relay
<1> QED
  BY <1>1, <1>2, <1>3

\* Changes of one field of an adapter.
LEMMA FieldTypes ==
  ASSUME NEW x \in Adapter
  PROVE  /\ \A v \in {"none", "create", "join", "done", "failed"} :
              [x EXCEPT !.setup = v] \in Adapter
         /\ \A v \in {"probing", "udp", "tcp"} : [x EXCEPT !.link = v] \in Adapter
         /\ \A v \in {"none", "relay", "ice"} : [x EXCEPT !.mode = v] \in Adapter
         /\ \A v \in {"idle", "asking", "ensuring"} : [x EXCEPT !.rpc = v] \in Adapter
         /\ \A v \in {"none", "waiting", "sent"} : [x EXCEPT !.game = v] \in Adapter
         /\ \A v \in BOOLEAN : [x EXCEPT !.auto = v] \in Adapter
         /\ \A v \in BOOLEAN : [x EXCEPT !.confirmed = v] \in Adapter
         /\ \A v \in {"up", "leaving", "left"} : [x EXCEPT !.life = v] \in Adapter
         /\ \A v \in [Adapters -> {"none", "relay", "ice"}] :
              [x EXCEPT !.peer = v] \in Adapter
<1>1. ASSUME NEW v \in {"none", "create", "join", "done", "failed"}
      PROVE  [x EXCEPT !.setup = v] \in Adapter
  BY DEF Adapter
<1>2. ASSUME NEW v \in {"probing", "udp", "tcp"}
      PROVE  [x EXCEPT !.link = v] \in Adapter
  BY DEF Adapter
<1>3. ASSUME NEW v \in {"none", "relay", "ice"}
      PROVE  [x EXCEPT !.mode = v] \in Adapter
  BY DEF Adapter
<1>4. ASSUME NEW v \in {"idle", "asking", "ensuring"}
      PROVE  [x EXCEPT !.rpc = v] \in Adapter
  BY DEF Adapter
<1>5. ASSUME NEW v \in {"none", "waiting", "sent"}
      PROVE  [x EXCEPT !.game = v] \in Adapter
  BY DEF Adapter
<1>6. ASSUME NEW v \in BOOLEAN
      PROVE  [x EXCEPT !.auto = v] \in Adapter
  BY DEF Adapter
<1>7. ASSUME NEW v \in BOOLEAN
      PROVE  [x EXCEPT !.confirmed = v] \in Adapter
  BY DEF Adapter
<1>8. ASSUME NEW v \in {"up", "leaving", "left"}
      PROVE  [x EXCEPT !.life = v] \in Adapter
  BY DEF Adapter
<1>9. ASSUME NEW v \in [Adapters -> {"none", "relay", "ice"}]
      PROVE  [x EXCEPT !.peer = v] \in Adapter
  BY DEF Adapter
<1> QED
  BY <1>1, <1>2, <1>3, <1>4, <1>5, <1>6, <1>7, <1>8, <1>9

\* A step that replaces the record of one adapter.
LEMMA UpdateTypes ==
  ASSUME TypeOK, NEW a \in Adapters, NEW r \in Adapter, ad' = [ad EXCEPT ![a] = r]
  PROVE  ad' \in [Adapters -> Adapter]
BY DEF TypeOK

\* The registration, the transport and the mode of an adapter.
LEMMA SetupTypes ==
  ASSUME TypeOK, NEW a \in Adapters, Setup(a) \/ ProbeFails(a) \/ setLobbyInitMode(a)
  PROVE  TypeOK'
<1>0. ad[a] \in Adapter
  BY DEF TypeOK
<1>1. CASE CreateAnswered(a)
  <2>1. net' \subseteq Message /\ failed' \in BOOLEAN
    BY <1>1, ReplyTypes, MessageTypes DEF CreateAnswered
  <2>2. PICK v \in {"join", "failed"} : ad' = [ad EXCEPT ![a] = [ad[a] EXCEPT !.setup = v]]
    BY <1>1 DEF CreateAnswered
  <2>3. [ad[a] EXCEPT !.setup = v] \in Adapter
    BY <1>0, FieldTypes, ZenonT(40)
  <2>4. ad' \in [Adapters -> Adapter]
    BY <2>2, <2>3, UpdateTypes, ZenonT(40)
  <2> QED
    BY <1>1, <2>1, <2>4, LocalTypes DEF CreateAnswered
<1>2. CASE JoinAnswered(a)
  <2>1. net' \subseteq Message /\ failed' \in BOOLEAN
    BY <1>2, ReplyTypes DEF JoinAnswered
  <2>2. PICK v \in {"done", "failed"} : ad' = [ad EXCEPT ![a] = [ad[a] EXCEPT !.setup = v]]
    BY <1>2, ZenonT(40) DEF JoinAnswered
  <2>3. [ad[a] EXCEPT !.setup = v] \in Adapter
    BY <1>0, FieldTypes, ZenonT(40)
  <2>4. ad' \in [Adapters -> Adapter]
    BY <2>2, <2>3, UpdateTypes, ZenonT(40)
  <2> QED
    BY <1>2, <2>1, <2>4, LocalTypes DEF JoinAnswered
<1>3. CASE ProbeFails(a)
  <2>1. PICK v \in {"udp", "tcp"} : ad' = [ad EXCEPT ![a] = [ad[a] EXCEPT !.link = v]]
    BY <1>3 DEF ProbeFails
  <2>2. [ad[a] EXCEPT !.link = v] \in Adapter
    BY <1>0, FieldTypes, ZenonT(40)
  <2>3. ad' \in [Adapters -> Adapter]
    BY <2>1, <2>2, UpdateTypes, ZenonT(40)
  <2> QED
    BY <1>3, <2>3, LocalTypes, ZenonT(40) DEF ProbeFails, TypeOK
<1>4. CASE setLobbyInitMode(a)
  <2>1. ad' = [ad EXCEPT ![a] = [ad[a] EXCEPT !.auto = matchmaker]]
    BY <1>4 DEF setLobbyInitMode
  <2>2. [ad[a] EXCEPT !.auto = matchmaker] \in Adapter
    BY <1>0, FieldTypes, ZenonT(40) DEF TypeOK
  <2>3. ad' \in [Adapters -> Adapter]
    BY <2>1, <2>2, UpdateTypes, ZenonT(40)
  <2> QED
    BY <1>4, <2>3, LocalTypes DEF setLobbyInitMode, TypeOK
<1> QED
  BY <1>1, <1>2, <1>3, <1>4 DEF Setup

\* Hellos, and the end of an adapter.
LEMMA StopTypes ==
  ASSUME TypeOK, NEW a \in Adapters, Hello(a) \/ quit(a) \/ Stop(a)
  PROVE  TypeOK'
<1> DEFINE none == [b \in Adapters |-> "none"]
<1>0. ad[a] \in Adapter /\ Stopped \in Adapter /\ none \in [Adapters -> {"none", "relay", "ice"}]
  BY DEF TypeOK, Stopped, Adapter
<1>1. CASE Hello(a)
  <2> DEFINE v == IF ad[a].link = "probing" THEN "udp" ELSE ad[a].link
             c == [ad[a] EXCEPT !.confirmed = TRUE]
  <2>0. v \in {"probing", "udp", "tcp"} /\ c.link = ad[a].link
    BY <1>0 DEF Adapter
  <2>1. ad' = [ad EXCEPT ![a] = [c EXCEPT !.link = v]]
    <3>1. ad' = [ad EXCEPT ![a] = [c EXCEPT !.link = IF c.link = "probing" THEN "udp" ELSE c.link]]
      BY <1>1, ZenonT(40) DEF Hello, TypeOK
    <3> QED
      BY <2>0, <3>1
  <2>2. [c EXCEPT !.link = v] \in Adapter
    BY <1>0, <2>0, FieldTypes, ZenonT(40)
  <2>3. ad' \in [Adapters -> Adapter]
    BY <2>1, <2>2, UpdateTypes, ZenonT(40)
  <2> QED
    BY <1>1, <2>3 DEF Hello, TypeOK
<1>2. CASE quit(a)
  <2>1. ad' = [ad EXCEPT ![a] = [[ad[a] EXCEPT !.life = "leaving"] EXCEPT !.peer = none]]
    BY <1>2, ZenonT(40) DEF quit, TypeOK
  <2>2. [[ad[a] EXCEPT !.life = "leaving"] EXCEPT !.peer = none] \in Adapter
    BY <1>0, FieldTypes, ZenonT(40)
  <2>3. ad' \in [Adapters -> Adapter]
    BY <2>1, <2>2, UpdateTypes, ZenonT(40)
  <2> QED
    BY <1>2, <2>3, LocalTypes DEF quit, TypeOK
<1>3. CASE leaveRelay(a)
  <2>1. net' \subseteq Message
    BY <1>3, MessageTypes DEF leaveRelay, Unread, TypeOK
  <2>2. [ad[a] EXCEPT !.life = "left"] \in Adapter
    BY <1>0, FieldTypes, ZenonT(40)
  <2>3. \E r \in Adapter : ad' = [ad EXCEPT ![a] = r]
    <3>1. CASE ad[a].mode = "relay"
      <4>1. ad' = [ad EXCEPT ![a] = [ad[a] EXCEPT !.life = "left"]]
        BY <1>3, <3>1 DEF leaveRelay
      <4> QED
        BY <2>2, <4>1, ZenonT(40)
    <3>2. CASE ad[a].mode # "relay"
      BY <1>0, <1>3, <3>2 DEF leaveRelay
    <3> QED
      BY <3>1, <3>2
  <2>4. ad' \in [Adapters -> Adapter]
    BY <2>3, UpdateTypes, ZenonT(40)
  <2> QED
    BY <1>3, <2>1, <2>4, LocalTypes DEF leaveRelay, TypeOK
<1>4. CASE LeaveAnswered(a)
  <2>1. net' \subseteq Message
    BY <1>4 DEF LeaveAnswered, Unread, TypeOK
  <2>2. ad' \in [Adapters -> Adapter]
    BY <1>0, <1>4, UpdateTypes, ZenonT(40) DEF LeaveAnswered
  <2> QED
    BY <1>4, <2>1, <2>2, LocalTypes, ZenonT(40) DEF LeaveAnswered, TypeOK
<1> QED
  BY <1>1, <1>2, <1>3, <1>4 DEF Stop

\* The host's RPC connection.
LEMMA HostTypes ==
  ASSUME TypeOK, hostGame \/ RelayConfirmed
  PROVE  TypeOK'
<1>0. Host \in Adapters /\ ad[Host] \in Adapter
  BY DEF TypeOK, Adapters
<1>1. CASE hostGame
  <2>1. PICK v \in {"relay", "ice"}, g \in {"waiting", "sent"} :
          ad' = [ad EXCEPT ![Host] = [[ad[Host] EXCEPT !.mode = v] EXCEPT !.game = g]]
    BY <1>0, <1>1, ZenonT(40) DEF hostGame, TypeOK
  <2>2. [[ad[Host] EXCEPT !.mode = v] EXCEPT !.game = g] \in Adapter
    BY <1>0, FieldTypes, ZenonT(40)
  <2>3. ad' \in [Adapters -> Adapter]
    BY <1>0, <2>1, <2>2, UpdateTypes, ZenonT(40)
  <2> QED
    BY <1>1, <2>3, LocalTypes DEF hostGame, TypeOK
<1>2. CASE RelayConfirmed
  <2>1. ad' = [ad EXCEPT ![Host] = [ad[Host] EXCEPT !.game = "sent"]]
    BY <1>2 DEF RelayConfirmed
  <2>2. [ad[Host] EXCEPT !.game = "sent"] \in Adapter
    BY <1>0, FieldTypes, ZenonT(40)
  <2>3. ad' \in [Adapters -> Adapter]
    BY <1>0, <2>1, <2>2, UpdateTypes, ZenonT(40)
  <2> QED
    BY <1>2, <2>3, LocalTypes DEF RelayConfirmed, TypeOK
<1> QED
  BY <1>1, <1>2

\* A change of the kind of one peer.
LEMMA PeerTypes ==
  ASSUME NEW x \in Adapter, NEW b \in Adapters, NEW v \in {"none", "relay", "ice"}
  PROVE  [x EXCEPT !.peer[b] = v] \in Adapter
<1>1. x.peer \in [Adapters -> {"none", "relay", "ice"}]
  BY DEF Adapter
<1>2. [x.peer EXCEPT ![b] = v] \in [Adapters -> {"none", "relay", "ice"}]
  BY <1>1
<1> QED
  BY <1>2, FieldTypes, ZenonT(40)

\* joinGame and connectToPeer.
LEMMA JoinTypes ==
  ASSUME TypeOK, NEW b \in Joiners, joinGame(b) \/ JoinGameReturns(b) \/ connectToPeer(b)
  PROVE  TypeOK'
<1>0. /\ b \in Adapters /\ Host \in Adapters
      /\ ad[b] \in Adapter /\ ad[Host] \in Adapter
  BY DEF TypeOK, Adapters
<1>1. CASE joinGame(b)
  <2>1. net' \subseteq Message
    BY <1>0, <1>1, MessageTypes DEF joinGame, TypeOK
  <2>2. [ad[b] EXCEPT !.rpc = "asking"] \in Adapter
    BY <1>0, FieldTypes, ZenonT(40)
  <2>3. [[ad[b] EXCEPT !.mode = "ice"] EXCEPT !.peer[Host] = "ice"] \in Adapter
    BY <1>0, FieldTypes, PeerTypes, ZenonT(40)
  <2>4. \/ ad' = [ad EXCEPT ![b] = [[ad[b] EXCEPT !.mode = "ice"] EXCEPT !.peer[Host] = "ice"]]
        \/ ad' = [ad EXCEPT ![b] = [ad[b] EXCEPT !.rpc = "asking"]]
    BY <1>0, <1>1, ZenonT(40) DEF joinGame, TypeOK
  <2>5. ad' \in [Adapters -> Adapter]
    BY <1>0, <2>2, <2>3, <2>4, UpdateTypes
  <2> QED
    BY <1>1, <2>1, <2>5, LocalTypes DEF joinGame, TypeOK
<1>2. CASE HostOnRelay(b)
  <2> DEFINE v == StartSetup(b)
             x == [[[ad[b] EXCEPT !.mode = "relay"] EXCEPT !.rpc = "ensuring"] EXCEPT !.setup = v]
             y == [[[ad[b] EXCEPT !.mode = "ice"] EXCEPT !.rpc = "idle"] EXCEPT !.peer[Host] = "ice"]
  <2>1. SetupRequest(b) \in SUBSET Message
    BY <1>0, MessageTypes DEF SetupRequest
  <2>2. net' \subseteq Message /\ failed' \in BOOLEAN
    BY <1>2, <2>1, ReplyTypes DEF HostOnRelay
  <2>3. v \in {"none", "create", "join", "done", "failed"}
    BY <1>0 DEF StartSetup, Adapter
  <2>4. x \in Adapter
    BY <1>0, <2>3, FieldTypes, ZenonT(40)
  <2>5. y \in Adapter
    BY <1>0, FieldTypes, PeerTypes, ZenonT(40)
  <2>6. ad' = [ad EXCEPT ![b] = x] \/ ad' = [ad EXCEPT ![b] = y]
    BY <1>0, <1>2, ZenonT(40) DEF HostOnRelay, TypeOK
  <2>7. ad' \in [Adapters -> Adapter]
    BY <1>0, <2>4, <2>5, <2>6, UpdateTypes
  <2> QED
    BY <1>2, <2>2, <2>7, LocalTypes DEF HostOnRelay
<1>3. CASE AddRelayPeer(b)
  <2>1. ad' = [ad EXCEPT ![b] = [[ad[b] EXCEPT !.rpc = "idle"] EXCEPT !.peer[Host] = "relay"]]
    BY <1>0, <1>3, ZenonT(40) DEF AddRelayPeer, TypeOK
  <2>2. [[ad[b] EXCEPT !.rpc = "idle"] EXCEPT !.peer[Host] = "relay"] \in Adapter
    BY <1>0, FieldTypes, PeerTypes, ZenonT(40)
  <2>3. ad' \in [Adapters -> Adapter]
    BY <1>0, <2>1, <2>2, UpdateTypes, ZenonT(40)
  <2> QED
    BY <1>3, <2>3, LocalTypes DEF AddRelayPeer, TypeOK
<1>4. CASE connectToPeer(b)
  <2>1. ad[Host].mode \in {"none", "relay", "ice"}
    BY <1>0 DEF Adapter
  <2>2. ad' = [ad EXCEPT ![Host] = [ad[Host] EXCEPT !.peer[b] = ad[Host].mode]]
    BY <1>4 DEF connectToPeer
  <2>3. [ad[Host] EXCEPT !.peer[b] = ad[Host].mode] \in Adapter
    BY <1>0, <2>1, PeerTypes, ZenonT(40)
  <2>4. ad' \in [Adapters -> Adapter]
    BY <1>0, <2>2, <2>3, UpdateTypes, ZenonT(40)
  <2> QED
    BY <1>4, <2>4, LocalTypes DEF connectToPeer, TypeOK
<1> QED
  BY <1>1, <1>2, <1>3, <1>4 DEF JoinGameReturns

\* Initially, and in every step.
LEMMA TypesStart == Init => TypeOK
<1> SUFFICES ASSUME Init PROVE TypeOK
  OBVIOUS
<1>1. cfg \in [Adapters -> Config]
  BY ConfigsAreConfig DEF Init
<1>2. ASSUME NEW a \in Adapters PROVE Run(a) \in Adapter
  BY DEF Run, Adapter
<1>3. net \subseteq Message
  BY MessageTypes DEF Init
<1> QED
  BY <1>1, <1>2, <1>3, ZenonT(40) DEF Init, TypeOK

\* Every step keeps the types.
LEMMA TypesStep == TypeOK /\ [Next]_vars => TypeOK'
<1> SUFFICES ASSUME TypeOK, [Next]_vars PROVE TypeOK'
  OBVIOUS
<1>1. CASE UNCHANGED vars
  BY <1>1 DEF vars, TypeOK
<1>2. CASE Next
  BY <1>2, RelayTypes, SetupTypes, StopTypes, HostTypes, JoinTypes DEF Next
<1> QED
  BY <1>1, <1>2

\* Every variable always has its type.
THEOREM LobbyTypes == Spec => []TypeOK
BY TypesStart, TypesStep, PTL DEF Spec

-----------------------------------------------------------------------------
(* The host is found *)

\* What is true of the host's adapter while it is up: it is registered once at
\* most, has not said that it leaves, and once confirmed is one that the reaper
\* hears.
Joins == Request(Host, "join") \in net
HostUp ==
  /\ \A m \in net : m.from = Host => m.op # "leave"
  /\ Joins \/ Host \in players => ad[Host].setup \in {"join", "done", "failed"}
  /\ ~(Joins /\ Host \in players)
  /\ ad[Host].confirmed =>
       Host \in players /\ Host \in heard /\ Reaches(Host) /\ ad[Host].link # "probing"
  /\ ad[Host].game = "sent" /\ ad[Host].mode = "relay" => ad[Host].confirmed

\* A session with players exists, and the host's adapter is as above.
LobbyInv ==
  /\ TypeOK
  /\ players # {} => session
  /\ ad[Host].life = "up" => HostUp

\* The host is among the adapters, and its adapter's record has its type.
LEMMA HostTyped == TypeOK => Host \in Adapters /\ ad[Host] \in Adapter
BY DEF TypeOK, Adapters

\* A step that leaves the host's adapter and its place at the relay alone and
\* brings no new request of the host.
LEMMA HostFrame ==
  ASSUME TypeOK, ad[Host].life = "up" => HostUp,
         ad'[Host] = ad[Host], cfg'[Host] = cfg[Host] \/ cfg'[Host].path = "open",
         Host \in players' <=> Host \in players, Host \in heard => Host \in heard',
         \A m \in net' : m.from = Host =>
           \E n \in net : n.from = Host /\ n.op = m.op /\ (m.state = "sent" => n = m)
  PROVE  (ad[Host].life = "up" => HostUp)'
<1> SUFFICES ASSUME ad'[Host].life = "up" PROVE HostUp'
  OBVIOUS
<1>1. HostUp
  OBVIOUS
<1>2. Joins' => Joins
  BY DEF Joins, Request
<1>3. Reaches(Host) => Reaches(Host)'
  BY DEF Reaches, Running
<1> QED
  BY <1>1, <1>2, <1>3 DEF HostUp

\* The relay answers m: nothing else comes, and m is gone.
LEMMA AnswerFrame ==
  ASSUME TypeOK, NEW m \in net, m.state = "sent", NEW ok \in BOOLEAN, Answer(m, ok)
  PROVE  /\ \A k \in net' : k.from = Host =>
              \E n \in net : n.from = Host /\ n.op = k.op /\ (k.state = "sent" => n = k)
         /\ m \notin net'
<1> DEFINE r == [m EXCEPT !.state = IF ok THEN "ok" ELSE "refused"]
<1>1. m \in Message
  BY DEF TypeOK
<1>2. r.from = m.from /\ r.op = m.op /\ r.state # "sent"
  BY <1>1 DEF Message
<1>3. net' \subseteq (net \ {m}) \cup {r}
  BY DEF Answer
<1> HIDE DEF r
<1> QED
  BY <1>2, <1>3

\* The relay keeps the host.
LEMMA ServeKeeps ==
  ASSUME LobbyInv, NEW m \in net, Serve(m)
  PROVE  (ad[Host].life = "up" => HostUp)' /\ (players # {} => session)'
<1>0. /\ TypeOK /\ m \in Message /\ m.state = "sent" /\ session \in BOOLEAN
      /\ (session /\ Host \in players) \in BOOLEAN
      /\ (session /\ m.from \in players) \in BOOLEAN
  BY ZenonT(40) DEF LobbyInv, TypeOK, Serve, handleSessions, handleSessionJoin,
         handleSessionRoot, handleSessionLeave, Arrives
<1>1. CASE handleSessions(m)
  <2>1. ad' = ad /\ cfg' = cfg /\ players' = players /\ heard' = heard
    BY <1>1 DEF handleSessions
  <2> QED
    BY <1>0, <1>1, <2>1, AnswerFrame, HostFrame, ZenonT(40) DEF handleSessions, LobbyInv
<1>2. CASE handleSessionRoot(m)
  <2>1. ad' = ad /\ cfg' = cfg /\ players' = players /\ heard' = heard /\ session' = session
    BY <1>2 DEF handleSessionRoot, relay
  <2> QED
    BY <1>0, <1>2, <2>1, AnswerFrame, HostFrame, ZenonT(40) DEF handleSessionRoot, LobbyInv
<1>3. CASE handleSessionLeave(m)
  <2>1. ad' = ad /\ cfg' = cfg /\ session' = session
    BY <1>3 DEF handleSessionLeave
  <2>2. (players # {} => session)'
    BY <1>3 DEF handleSessionLeave, LobbyInv
  <2>3. CASE m.from = Host
    BY <1>3, <2>1, <2>2, <2>3 DEF handleSessionLeave, Arrives, LobbyInv, HostUp
  <2>4. CASE m.from # Host
    BY <1>0, <1>3, <2>1, <2>2, <2>4, AnswerFrame, HostFrame, ZenonT(40) DEF handleSessionLeave, LobbyInv
  <2> QED
    BY <2>3, <2>4
<1>4. CASE handleSessionJoin(m)
  <2>1. ad' = ad /\ cfg' = cfg /\ session' = session
    BY <1>4 DEF handleSessionJoin
  <2>2. (players # {} => session)'
    BY <1>4 DEF handleSessionJoin, LobbyInv
  <2>3. CASE m.from = Host /\ session
    <3> SUFFICES ASSUME ad[Host].life = "up" PROVE HostUp'
      BY <2>1, <2>2
    <3>1. m = Request(Host, "join")
      BY <1>0, <1>4, <2>3 DEF handleSessionJoin, Arrives, Request, Message
    <3>2. HostUp /\ Joins
      BY <3>1 DEF LobbyInv, Joins
    <3>3. ~Joins'
      BY <1>0, <1>4, <3>1, AnswerFrame DEF handleSessionJoin, Joins, Request
    <3>4. ~ad[Host].confirmed /\ ad[Host].setup \in {"join", "done", "failed"}
      BY <3>2 DEF HostUp
    <3>5. \A k \in net' : k.from = Host => k.op # "leave"
      BY <1>0, <1>4, <3>2, AnswerFrame DEF handleSessionJoin, HostUp
    <3> QED
      BY <2>1, <3>2, <3>3, <3>4, <3>5 DEF HostUp
  <2>4. CASE ~(m.from = Host /\ session)
    BY <1>0, <1>4, <2>1, <2>2, <2>4, AnswerFrame, HostFrame DEF handleSessionJoin, LobbyInv
  <2> QED
    BY <2>3, <2>4
<1> QED
  BY <1>1, <1>2, <1>3, <1>4 DEF Serve

\* The reaper spares a host that has been confirmed, and a route that opens
\* loses nothing.
LEMMA ReaperKeeps ==
  ASSUME LobbyInv, Reaper \/ \E a \in Adapters : PathOpens(a)
  PROVE  (ad[Host].life = "up" => HostUp)' /\ (players # {} => session)'
<1>0. TypeOK
  BY DEF LobbyInv
<1>1. CASE ReapSession
  BY <1>0, <1>1, HostFrame DEF ReapSession, LobbyInv
<1>2. ASSUME NEW a \in Adapters, ReapPlayer(a)
      PROVE  (ad[Host].life = "up" => HostUp)' /\ (players # {} => session)'
  <2>1. ad' = ad /\ cfg' = cfg /\ net' = net /\ session' = session
    BY <1>2 DEF ReapPlayer
  <2>2. (players # {} => session)'
    BY <1>2 DEF ReapPlayer, LobbyInv
  <2>3. CASE a = Host
    <3> SUFFICES ASSUME ad[Host].life = "up" PROVE HostUp'
      BY <2>1, <2>2
    <3>1. HostUp /\ Host \in players
      BY <1>2, <2>3 DEF LobbyInv, ReapPlayer
    <3>2. ~ad[Host].confirmed
      BY <1>2, <2>3, <3>1 DEF HostUp, ReapPlayer
    <3> QED
      BY <1>2, <2>1, <2>3, <3>1, <3>2 DEF HostUp, ReapPlayer, Joins
  <2>4. CASE a # Host
    BY <1>0, <1>2, <2>1, <2>2, <2>4, HostFrame DEF ReapPlayer, LobbyInv
  <2> QED
    BY <2>3, <2>4
<1>3. ASSUME NEW a \in Adapters, PathOpens(a)
      PROVE  (ad[Host].life = "up" => HostUp)' /\ (players # {} => session)'
  <2>1. ad' = ad /\ net' = net /\ session' = session /\ players' = players /\ heard' = heard
    BY <1>3 DEF PathOpens, relay
  <2>2. cfg'[Host] = cfg[Host] \/ cfg'[Host].path = "open"
    BY <1>0, <1>3, HostTyped DEF PathOpens, TypeOK, Config
  <2> QED
    BY <1>0, <2>1, <2>2, HostFrame DEF LobbyInv
<1> QED
  BY <1>1, <1>2, <1>3 DEF Reaper

\* The other adapters do not touch the host.
LEMMA OthersKeep ==
  ASSUME LobbyInv, NEW a \in Adapters, a # Host,
         \/ Setup(a) \/ Hello(a) \/ ProbeFails(a) \/ setLobbyInitMode(a) \/ quit(a)
         \/ Stop(a) \/ joinGame(a) \/ JoinGameReturns(a)
  PROVE  (ad[Host].life = "up" => HostUp)' /\ (players # {} => session)'
<1>0. TypeOK /\ Host \in Adapters
  BY HostTyped DEF LobbyInv
<1>1. ad'[Host] = ad[Host]
  BY <1>0 DEF TypeOK, Setup, CreateAnswered, JoinAnswered, Hello, ProbeFails,
     setLobbyInitMode, quit, Stop, leaveRelay, LeaveAnswered, joinGame,
     JoinGameReturns, HostOnRelay, AddRelayPeer
<1>2. /\ cfg' = cfg /\ session' = session /\ players' = players
      /\ Host \in heard => Host \in heard'
  BY DEF Setup, CreateAnswered, JoinAnswered, Hello, ProbeFails,
     setLobbyInitMode, quit, Stop, leaveRelay, LeaveAnswered, joinGame,
     JoinGameReturns, HostOnRelay, AddRelayPeer, Local, relay
<1>3. \A m \in net' : m.from = Host => m \in net
  <2>1. \A op \in {"create", "join", "get", "leave"} : Request(a, op).from # Host
    BY DEF Request
  <2>2. CASE CreateAnswered(a) \/ JoinAnswered(a) \/ HostOnRelay(a)
    BY <2>1, <2>2 DEF CreateAnswered, JoinAnswered, HostOnRelay, Reply, SetupRequest
  <2>3. CASE ~(CreateAnswered(a) \/ JoinAnswered(a) \/ HostOnRelay(a))
    BY <2>1, <2>3 DEF Setup, Hello, ProbeFails, setLobbyInitMode, quit, Stop,
       leaveRelay, LeaveAnswered, joinGame, JoinGameReturns, AddRelayPeer, Unread
  <2> QED
    BY <2>2, <2>3
<1> QED
  BY <1>0, <1>1, <1>2, <1>3, HostFrame DEF LobbyInv

\* The host's own registration, echo and transport.
LEMMA HostSetup ==
  ASSUME LobbyInv, Setup(Host) \/ Hello(Host) \/ ProbeFails(Host)
  PROVE  (ad[Host].life = "up" => HostUp)' /\ (players # {} => session)'
<1>0. TypeOK /\ Host \in Adapters /\ ad[Host] \in Adapter
  BY HostTyped DEF LobbyInv
<1>1. cfg' = cfg /\ session' = session /\ players' = players
  BY DEF Setup, CreateAnswered, JoinAnswered, Hello, ProbeFails, Local, relay
<1> SUFFICES ASSUME ad'[Host].life = "up" PROVE HostUp'
  BY <1>1 DEF LobbyInv
<1>2. CASE CreateAnswered(Host)
  <2>1. PICK v \in {"join", "failed"} :
          /\ ad' = [ad EXCEPT ![Host].setup = v]
          /\ net' \subseteq net \cup {Request(Host, "join")}
    BY <1>2 DEF CreateAnswered, Reply
  <2>2. /\ ad'[Host].setup = v /\ ad'[Host].life = ad[Host].life
        /\ ad'[Host].confirmed = ad[Host].confirmed /\ ad'[Host].link = ad[Host].link
        /\ ad'[Host].game = ad[Host].game /\ ad'[Host].mode = ad[Host].mode
    BY <1>0, <2>1 DEF TypeOK, Adapter
  <2>3. HostUp /\ ad[Host].setup = "create" /\ heard' = heard
    BY <1>2, <2>2 DEF LobbyInv, CreateAnswered, Local, relay
  <2>4. Host \notin players /\ ~ad[Host].confirmed
    BY <2>3 DEF HostUp
  <2>5. \A m \in net' : m.from = Host => m.op # "leave"
    BY <2>1, <2>3 DEF HostUp, Request
  <2> QED
    BY <1>1, <2>1, <2>2, <2>3, <2>4, <2>5 DEF HostUp
<1>3. CASE JoinAnswered(Host)
  <2>1. PICK v \in {"done", "failed"} :
          ad' = [ad EXCEPT ![Host].setup = v] /\ net' \subseteq net
    BY <1>3, ZenonT(40) DEF JoinAnswered, Reply
  <2>2. /\ ad'[Host].setup = v /\ ad'[Host].life = ad[Host].life
        /\ ad'[Host].confirmed = ad[Host].confirmed /\ ad'[Host].link = ad[Host].link
        /\ ad'[Host].game = ad[Host].game /\ ad'[Host].mode = ad[Host].mode
    BY <1>0, <2>1 DEF TypeOK, Adapter
  <2>3. HostUp /\ heard' = heard
    BY <1>3, <2>2 DEF LobbyInv, JoinAnswered, Local, relay
  <2>4. Joins' => Joins
    BY <2>1 DEF Joins, Request
  <2>5. Reaches(Host) => Reaches(Host)'
    BY <1>1, <2>2 DEF Reaches, Running
  <2> QED
    BY <1>1, <2>1, <2>2, <2>3, <2>4, <2>5 DEF HostUp
<1>4. CASE Hello(Host)
  <2>1. /\ ad'[Host].link = IF ad[Host].link = "probing" THEN "udp" ELSE ad[Host].link
        /\ ad'[Host].life = ad[Host].life /\ ad'[Host].confirmed
        /\ ad'[Host].setup = ad[Host].setup
    BY <1>0, <1>4 DEF Hello, TypeOK, Adapter
  <2>2. HostUp /\ net' = net /\ Host \in players /\ Host \in heard' /\ Reaches(Host)
    BY <1>4, <2>1 DEF LobbyInv, Hello
  <2>3. Reaches(Host)' /\ ad'[Host].link # "probing"
    BY <1>1, <2>1, <2>2 DEF Reaches, Running
  <2> QED
    BY <1>1, <2>1, <2>2, <2>3 DEF HostUp, Joins
<1>5. CASE ProbeFails(Host)
  <2>1. /\ ad'[Host].life = ad[Host].life /\ ad'[Host].setup = ad[Host].setup
        /\ ad'[Host].confirmed = ad[Host].confirmed /\ ad[Host].link = "probing"
        /\ ad'[Host].game = ad[Host].game /\ ad'[Host].mode = ad[Host].mode
    BY <1>0, <1>5 DEF ProbeFails, TypeOK, Adapter
  <2>2. HostUp /\ net' = net
    BY <1>5, <2>1 DEF LobbyInv, ProbeFails
  <2>3. ~ad[Host].confirmed
    BY <2>1, <2>2 DEF HostUp
  <2> QED
    BY <1>1, <2>1, <2>2, <2>3 DEF HostUp, Joins
<1> QED
  BY <1>2, <1>3, <1>4, <1>5 DEF Setup

\* The host's RPC connection: HostGame is sent in relay mode only when the relay
\* is confirmed.
LEMMA HostRpc ==
  ASSUME LobbyInv,
         hostGame \/ RelayConfirmed \/ setLobbyInitMode(Host) \/ \E b \in Joiners : connectToPeer(b)
  PROVE  (ad[Host].life = "up" => HostUp)' /\ (players # {} => session)'
<1>0. TypeOK /\ Host \in Adapters /\ ad[Host] \in Adapter
  BY HostTyped DEF LobbyInv
<1>1. /\ cfg' = cfg /\ session' = session /\ players' = players /\ heard' = heard
      /\ net' = net
  BY DEF hostGame, RelayConfirmed, setLobbyInitMode, connectToPeer, Local, relay
<1>2. ad[Host].life = "up"
  BY DEF hostGame, RelayConfirmed, setLobbyInitMode, connectToPeer, Ready
<1>3. /\ ad'[Host].life = ad[Host].life /\ ad'[Host].setup = ad[Host].setup
      /\ ad'[Host].confirmed = ad[Host].confirmed /\ ad'[Host].link = ad[Host].link
  <2>1. CASE hostGame
    BY <1>0, <2>1 DEF hostGame, TypeOK, Adapter
  <2>2. CASE RelayConfirmed \/ setLobbyInitMode(Host)
    BY <1>0, <2>2 DEF RelayConfirmed, setLobbyInitMode, TypeOK, Adapter
  <2>3. ASSUME NEW b \in Joiners, connectToPeer(b)
        PROVE  <1>3
    BY <1>0, <2>3 DEF connectToPeer, TypeOK, Adapter
  <2> QED
    BY <2>1, <2>2, <2>3
<1>4. HostUp
  BY <1>2 DEF LobbyInv
<1>5. (ad[Host].game = "sent" /\ ad[Host].mode = "relay" => ad[Host].confirmed)'
  <2>1. CASE hostGame
    BY <1>0, <2>1 DEF hostGame, TypeOK, Adapter
  <2>2. CASE RelayConfirmed
    BY <1>3, <2>2 DEF RelayConfirmed
  <2>3. CASE setLobbyInitMode(Host)
    BY <1>0, <1>3, <1>4, <2>3 DEF setLobbyInitMode, TypeOK, Adapter, HostUp
  <2>4. ASSUME NEW b \in Joiners, connectToPeer(b)
        PROVE  <1>5
    <3>1. ad'[Host].game = ad[Host].game /\ ad'[Host].mode = ad[Host].mode
      BY <1>0, <2>4 DEF connectToPeer, TypeOK, Adapter
    <3> QED
      BY <1>3, <1>4, <3>1 DEF HostUp
  <2> QED
    BY <2>1, <2>2, <2>3, <2>4
<1>6. Reaches(Host) => Reaches(Host)'
  BY <1>1, <1>3 DEF Reaches, Running
<1> QED
  BY <1>1, <1>3, <1>4, <1>5, <1>6 DEF HostUp, Joins, LobbyInv

\* An adapter that goes down does not come up again.
LEMMA HostStops ==
  ASSUME LobbyInv, quit(Host) \/ Stop(Host)
  PROVE  (ad[Host].life = "up" => HostUp)' /\ (players # {} => session)'
<1>0. TypeOK /\ Host \in Adapters /\ ad[Host] \in Adapter
  BY HostTyped DEF LobbyInv
<1>1. session' = session /\ players' = players
  BY DEF quit, Stop, leaveRelay, LeaveAnswered, Local, relay
<1>2. CASE quit(Host)
  <2>1. ad'[Host].life = "leaving"
    BY <1>0, <1>2 DEF quit, TypeOK, Adapter
  <2> QED
    BY <1>1, <2>1 DEF LobbyInv
<1>3. CASE leaveRelay(Host)
  <2>1. ad'[Host].life # "up"
    BY <1>0, <1>3 DEF leaveRelay, TypeOK, Adapter, Stopped
  <2> QED
    BY <1>1, <2>1 DEF LobbyInv
<1>4. CASE LeaveAnswered(Host)
  <2>1. ad'[Host].life # "up"
    BY <1>0, <1>4 DEF LeaveAnswered, TypeOK, Stopped
  <2> QED
    BY <1>1, <2>1 DEF LobbyInv
<1> QED
  BY <1>2, <1>3, <1>4 DEF Stop

\* Initially the host has asked for the session and nothing more.
LEMMA LobbyStart == Init => LobbyInv
<1> SUFFICES ASSUME Init PROVE LobbyInv
  OBVIOUS
<1>1. TypeOK /\ Host \in Adapters
  BY TypesStart, HostTyped
<1>2. ad[Host].game = "none" /\ ~ad[Host].confirmed
  BY <1>1 DEF Init, Run
<1>3. \A m \in net : m.op = "create"
  BY DEF Init, Request
<1>4. ~Joins
  BY <1>3 DEF Joins, Request
<1> QED
  BY <1>1, <1>2, <1>3, <1>4 DEF Init, LobbyInv, HostUp

\* Every step keeps the invariant.
LEMMA LobbyStep == LobbyInv /\ [Next]_vars => LobbyInv'
<1> SUFFICES ASSUME LobbyInv, [Next]_vars PROVE LobbyInv'
  OBVIOUS
<1>0. TypeOK'
  BY TypesStep DEF LobbyInv
<1> DEFINE Kept == (ad[Host].life = "up" => HostUp)' /\ (players # {} => session)'
<1>1. CASE UNCHANGED vars
  BY <1>0, <1>1 DEF vars, LobbyInv, HostUp, Joins, Reaches, Running
<1>2. CASE Next
  <2>1. ASSUME NEW m \in net, Serve(m) PROVE Kept
    BY <2>1, ServeKeeps
  <2>2. CASE Reaper
    BY <1>0, <2>2, ReaperKeeps DEF LobbyInv
  <2>3. CASE hostGame \/ RelayConfirmed
    BY <1>0, <2>3, HostRpc DEF LobbyInv
  <2>4. ASSUME NEW a \in Adapters,
               \/ PathOpens(a) \/ Setup(a) \/ Hello(a) \/ ProbeFails(a)
               \/ setLobbyInitMode(a) \/ quit(a) \/ Stop(a)
        PROVE  Kept
    <3>1. CASE PathOpens(a)
      BY <3>1, ReaperKeeps
    <3>2. CASE a = Host /\ ~PathOpens(a)
      BY <2>4, <3>2, HostSetup, HostRpc, HostStops
    <3>3. CASE a # Host /\ ~PathOpens(a)
      BY <2>4, <3>3, OthersKeep
    <3> QED
      BY <3>1, <3>2, <3>3
  <2>5. ASSUME NEW b \in Joiners, joinGame(b) \/ JoinGameReturns(b) \/ connectToPeer(b)
        PROVE  Kept
    <3>1. b \in Adapters /\ b # Host
      BY HostIsNoJoiner DEF Adapters
    <3> QED
      BY <2>5, <3>1, OthersKeep, HostRpc
  <2> QED
    BY <1>0, <1>2, <2>1, <2>2, <2>3, <2>4, <2>5 DEF Next, LobbyInv
<1> QED
  BY <1>1, <1>2

\* The host's adapter is registered once at most, does not say that it leaves
\* while it is up, and once confirmed is one the relay's reaper hears.
THEOREM LobbyInvHolds == Spec => []LobbyInv
BY LobbyStart, LobbyStep, PTL DEF Spec

\* In a lobby that is open in relay mode the relay has the host: a joiner that
\* asks (isHostOnRelay) finds it, however many ask and whatever requests of the
\* others are late or lost.
THEOREM HostAlwaysFound == Spec => []HostFound
<1>1. LobbyInv => HostFound
  BY DEF LobbyInv, HostUp, HostFound
<1> QED
  BY <1>1, LobbyInvHolds, PTL

-----------------------------------------------------------------------------
(* The two ends agree *)

\* The mode that hostGame chooses for the lobby.
HostMode == IF ~cfg[Host].official /\ ~matchmaker THEN "relay" ELSE "ice"

Up == ad[Host].life = "up"

\* With UseOfficialFAF the host never registers.
OfficialInv ==
  cfg[Host].official => /\ Host \notin players /\ ad[Host].setup = "none"
                        /\ \A m \in net : m.from = Host => m.op \notin {"create", "join"}

\* The host decides once, and all its peers are of that kind.
HostInv ==
  /\ Up /\ ad[Host].game # "none" => ad[Host].mode = HostMode
  /\ \A b \in Joiners : ad[Host].peer[b] # "none" =>
       Up /\ ad[Host].game = "sent" /\ ad[Host].peer[b] = ad[Host].mode

\* Whoever asks for the host does so once HostGame has been sent, and the answer
\* tells its mode, unless the host is on its way out.
GetInv ==
  \A m \in net : m.op = "get" =>
    /\ ~matchmaker /\ (Up => ad[Host].game = "sent")
    /\ m.state = "ok" => HostMode = "relay"
    /\ m.state = "refused" /\ Up => HostMode = "ice"

\* A joiner does as it is told.
JoinerInv ==
  \A b \in Joiners :
    /\ ad[b].rpc = "ensuring" \/ ad[b].peer[Host] = "relay" => HostMode = "relay"
    /\ ~failed /\ Up /\ ad[b].peer[Host] = "ice" => HostMode = "ice"

AgreeInv == OfficialInv /\ HostInv /\ GetInv /\ JoinerInv

\* The fields of an adapter that the choice of the mode is about.
Same(x, y) == /\ x.life = y.life /\ x.game = y.game /\ x.mode = y.mode /\ x.peer = y.peer
              /\ x.rpc = y.rpc

\* A step after which the host is at most further, or down.
LEMMA GetFrame ==
  ASSUME GetInv, Up' => Up, Up' /\ ad[Host].game = "sent" => ad'[Host].game = "sent",
         HostMode' = HostMode, matchmaker' = matchmaker, \A m \in net' : m.op = "get" => m \in net
  PROVE  GetInv'
BY DEF GetInv

\* A step that is not about the mode.
LEMMA AgreeFrame ==
  ASSUME AgreeInv, \A c \in Adapters : Same(ad'[c], ad[c]),
         HostMode' = HostMode, matchmaker' = matchmaker, failed => failed'
  PROVE  /\ HostInv' /\ JoinerInv'
         /\ (\A m \in net' : m.op = "get" => m \in net) => GetInv'
<1>1. Host \in Adapters /\ Joiners \subseteq Adapters
  BY DEF Adapters
<1>2. /\ ad'[Host].life = ad[Host].life /\ ad'[Host].game = ad[Host].game
      /\ ad'[Host].mode = ad[Host].mode /\ ad'[Host].peer = ad[Host].peer
  BY <1>1 DEF Same
<1>3. \A b \in Joiners : ad'[b].rpc = ad[b].rpc /\ ad'[b].peer = ad[b].peer
  BY <1>1 DEF Same
<1>4. Up' <=> Up
  BY <1>2 DEF Up
<1>5. HostInv'
  BY <1>2, <1>4 DEF AgreeInv, HostInv
<1>6. JoinerInv'
  BY <1>3, <1>4 DEF AgreeInv, JoinerInv
<1>7. (\A m \in net' : m.op = "get" => m \in net) => GetInv'
  BY <1>2, <1>4, GetFrame DEF AgreeInv
<1> QED
  BY <1>5, <1>6, <1>7

\* A step that brings no registration of the host.
LEMMA OfficialFrame ==
  ASSUME OfficialInv, cfg'[Host].official => cfg[Host].official, Host \in players' => Host \in players,
         ad'[Host].setup \in {ad[Host].setup, "none"},
         \A m \in net' : m.from = Host /\ m.op \in {"create", "join"} =>
           \E n \in net : n.from = Host /\ n.op \in {"create", "join"}
  PROVE  OfficialInv'
BY DEF OfficialInv

\* The relay answers whether it has the host: it does, if the host is up in
\* relay mode, and has never had it if that uses no relay.
LEMMA ServeAgrees ==
  ASSUME LobbyInv, AgreeInv, NEW m \in net, Serve(m)
  PROVE  AgreeInv'
<1> DEFINE r(ok) == [m EXCEPT !.state = IF ok THEN "ok" ELSE "refused"]
<1>0. TypeOK /\ m \in Message
  BY DEF LobbyInv, TypeOK
<1>1. ad' = ad /\ cfg' = cfg /\ matchmaker' = matchmaker /\ failed' = failed
  BY ZenonT(40) DEF Serve, handleSessions, handleSessionJoin, handleSessionRoot, handleSessionLeave, relay
<1>2. \A ok \in BOOLEAN : /\ r(ok).from = m.from /\ r(ok).op = m.op
                          /\ r(ok).state = IF ok THEN "ok" ELSE "refused"
  BY <1>0 DEF Message
<1>3. \A ok \in BOOLEAN : Answer(m, ok) => net' \subseteq net \cup {r(ok)}
  BY DEF Answer
<1> HIDE DEF r
<1>4. HostMode' = HostMode /\ \A c \in Adapters : Same(ad'[c], ad[c])
  BY <1>1 DEF HostMode, Same
<1>5. HostInv' /\ JoinerInv'
  BY <1>1, <1>4, AgreeFrame
<1>6. /\ session \in BOOLEAN /\ (session /\ Host \in players) \in BOOLEAN
      /\ (session /\ m.from \in players) \in BOOLEAN
  BY <1>0 DEF TypeOK
<1>7. PICK ok \in BOOLEAN : Answer(m, ok) /\ (m.op = "get" => (ok <=> session /\ Host \in players))
  BY <1>6, ZenonT(40) DEF Serve, handleSessions, handleSessionJoin, handleSessionRoot, handleSessionLeave, Arrives
<1>8. OfficialInv'
  <2>1. cfg[Host].official => (Host \in players' => Host \in players)
    BY ZenonT(40) DEF Serve, handleSessions, handleSessionJoin, handleSessionRoot, handleSessionLeave, Arrives,
           relay, AgreeInv, OfficialInv
  <2>2. \A k \in net' : k.from = Host /\ k.op \in {"create", "join"} =>
          \E n \in net : n.from = Host /\ n.op \in {"create", "join"}
    BY <1>2, <1>3, <1>7
  <2>3. CASE cfg[Host].official
    BY <1>1, <2>1, <2>2, <2>3, OfficialFrame DEF AgreeInv
  <2>4. CASE ~cfg[Host].official
    BY <1>1, <2>4 DEF OfficialInv
  <2> QED
    BY <2>3, <2>4
<1>9. GetInv'
  <2>1. CASE m.op # "get"
    BY <1>1, <1>2, <1>3, <1>4, <1>7, <2>1, AgreeFrame
  <2>2. CASE m.op = "get"
    <3>1. ~matchmaker /\ (Up => ad[Host].game = "sent")
      BY <2>2 DEF AgreeInv, GetInv
    <3>2. ok => HostMode = "relay"
      BY <1>7, <2>2, <3>1 DEF AgreeInv, OfficialInv, HostMode
    <3>3. Up /\ HostMode = "relay" => ad[Host].mode = "relay" /\ ad[Host].game = "sent"
      BY <3>1 DEF AgreeInv, HostInv
    <3>4. Up /\ HostMode = "relay" => ok
      BY <1>7, <2>2, <3>3 DEF LobbyInv, HostUp, Up
    <3>5. ~ok /\ Up => HostMode = "ice"
      BY <3>4 DEF HostMode
    <3>6. \A k \in net' : k \in net \/ k = r(ok)
      BY <1>3, <1>7
    <3>7. Up' <=> Up
      BY <1>1 DEF Up
    <3> QED
      BY <1>1, <1>2, <1>4, <3>1, <3>2, <3>5, <3>6, <3>7 DEF AgreeInv, GetInv
  <2> QED
    BY <2>1, <2>2
<1> QED
  BY <1>5, <1>8, <1>9 DEF AgreeInv

\* The reaper, the routes, and what an adapter does for its registration and its
\* transport.
LEMMA QuietAgrees ==
  ASSUME LobbyInv, AgreeInv,
         \/ Reaper
         \/ \E a \in Adapters : \/ PathOpens(a) \/ Setup(a) \/ Hello(a) \/ ProbeFails(a)
                                \/ setLobbyInitMode(a)
  PROVE  AgreeInv'
<1>0. TypeOK /\ Host \in Adapters /\ ad \in [Adapters -> Adapter]
  BY HostTyped DEF LobbyInv, TypeOK
<1>1. CASE Reaper
  <2>1. /\ ad' = ad /\ cfg' = cfg /\ matchmaker' = matchmaker /\ net' = net
        /\ (failed => failed') /\ (Host \in players' => Host \in players)
    <3>1. CASE ReapSession
      BY <3>1 DEF ReapSession
    <3>2. ASSUME NEW a \in Adapters, ReapPlayer(a)
          PROVE  /\ ad' = ad /\ cfg' = cfg /\ matchmaker' = matchmaker /\ net' = net
                 /\ (failed => failed') /\ (Host \in players' => Host \in players)
      BY <3>2, Zenon DEF ReapPlayer
    <3> QED
      BY <1>1, <3>1, <3>2 DEF Reaper
  <2>2. HostMode' = HostMode /\ \A c \in Adapters : Same(ad'[c], ad[c])
    BY <2>1 DEF HostMode, Same
  <2>3. OfficialInv'
    BY <2>1, OfficialFrame DEF AgreeInv
  <2> QED
    BY <2>1, <2>2, <2>3, AgreeFrame DEF AgreeInv
<1>2. ASSUME NEW a \in Adapters, PathOpens(a) PROVE AgreeInv'
  <2>1. /\ ad' = ad /\ matchmaker' = matchmaker /\ net' = net /\ failed' = failed /\ players' = players
        /\ cfg'[Host].official = cfg[Host].official
    BY <1>0, <1>2 DEF PathOpens, relay, TypeOK, Config
  <2>2. HostMode' = HostMode /\ \A c \in Adapters : Same(ad'[c], ad[c])
    BY <2>1 DEF HostMode, Same
  <2>3. OfficialInv'
    BY <2>1, OfficialFrame DEF AgreeInv
  <2> QED
    BY <2>1, <2>2, <2>3, AgreeFrame DEF AgreeInv
<1>3. ASSUME NEW a \in Adapters, NEW v, ad' = [ad EXCEPT ![a].setup = v]
      PROVE  /\ \A c \in Adapters : Same(ad'[c], ad[c])
             /\ a # Host => ad'[Host].setup = ad[Host].setup
  BY <1>0, <1>3 DEF Same, Adapter
<1>4. ASSUME NEW a \in Adapters, Setup(a) PROVE AgreeInv'
  <2>1. cfg' = cfg /\ matchmaker' = matchmaker /\ players' = players /\ (failed => failed')
    BY <1>4, ZenonT(40) DEF Setup, CreateAnswered, JoinAnswered, Reply, Local, relay
  <2>2. PICK v : ad' = [ad EXCEPT ![a].setup = v]
    BY <1>4 DEF Setup, CreateAnswered, JoinAnswered
  <2>3. HostMode' = HostMode /\ \A c \in Adapters : Same(ad'[c], ad[c])
    BY <1>3, <2>1, <2>2, ZenonT(40) DEF HostMode
  <2>4. net' \subseteq net \cup {Request(a, "join")}
    BY <1>4 DEF Setup, CreateAnswered, JoinAnswered, Reply
  <2>5. \A m \in net' : m \in net \/ (m.op = "join" /\ m.from = a)
    BY <2>4 DEF Request
  <2>6. OfficialInv'
    <3>1. CASE a = Host
      <4>1. ad[Host].setup # "none"
        BY <1>4, <3>1 DEF Setup, CreateAnswered, JoinAnswered
      <4> QED
        BY <2>1, <4>1 DEF AgreeInv, OfficialInv
    <3>2. CASE a # Host
      BY <1>3, <2>1, <2>2, <2>5, <3>2, OfficialFrame DEF AgreeInv
    <3> QED
      BY <3>1, <3>2
  <2> QED
    BY <2>1, <2>3, <2>5, <2>6, AgreeFrame DEF AgreeInv
<1>5. ASSUME NEW a \in Adapters, Hello(a) \/ ProbeFails(a) \/ setLobbyInitMode(a) PROVE AgreeInv'
  <2>1. /\ cfg' = cfg /\ matchmaker' = matchmaker /\ players' = players /\ (failed => failed')
        /\ net' = net
    BY <1>5 DEF Hello, ProbeFails, setLobbyInitMode, Local, relay
  <2>2. \A c \in Adapters : Same(ad'[c], ad[c]) /\ ad'[c].setup = ad[c].setup
    <3>1. CASE Hello(a)
      BY <1>0, <3>1 DEF Hello, Same, Adapter
    <3>2. CASE ProbeFails(a)
      BY <1>0, <3>2 DEF ProbeFails, Same, Adapter
    <3>3. CASE setLobbyInitMode(a)
      BY <1>0, <3>3 DEF setLobbyInitMode, Same, Adapter
    <3> QED
      BY <1>5, <3>1, <3>2, <3>3
  <2>3. HostMode' = HostMode
    BY <2>1 DEF HostMode
  <2>4. OfficialInv'
    BY <1>0, <2>1, <2>2, OfficialFrame DEF AgreeInv
  <2> QED
    BY <2>1, <2>2, <2>3, <2>4, AgreeFrame DEF AgreeInv
<1> QED
  BY <1>1, <1>2, <1>4, <1>5

\* The host's decision.
LEMMA HostAgrees ==
  ASSUME LobbyInv, AgreeInv, hostGame \/ RelayConfirmed \/ \E b \in Joiners : connectToPeer(b)
  PROVE  AgreeInv'
<1>0. /\ TypeOK /\ Host \in Adapters /\ ad \in [Adapters -> Adapter] /\ ad[Host] \in Adapter
      /\ Joiners \subseteq Adapters /\ Host \notin Joiners
      /\ ad[Host].peer \in [Adapters -> {"none", "relay", "ice"}]
  BY HostTyped, HostIsNoJoiner, ZenonT(40) DEF LobbyInv, TypeOK, Adapters, Adapter
<1>1. /\ cfg' = cfg /\ matchmaker' = matchmaker /\ players' = players /\ failed' = failed
      /\ net' = net /\ Up
  BY DEF hostGame, RelayConfirmed, connectToPeer, Local, relay, Up, Ready
<1>2. HostMode' = HostMode
  BY <1>1 DEF HostMode
<1>3. /\ \A b \in Joiners : ad'[b] = ad[b]
      /\ ad'[Host].setup = ad[Host].setup /\ ad'[Host].life = ad[Host].life
  <2>1. CASE hostGame
    BY <1>0, <2>1 DEF hostGame, Adapter
  <2>2. CASE RelayConfirmed
    BY <1>0, <2>2 DEF RelayConfirmed, Adapter
  <2>3. ASSUME NEW b \in Joiners, connectToPeer(b) PROVE <1>3
    BY <1>0, <2>3 DEF connectToPeer, Adapter
  <2> QED
    BY <2>1, <2>2, <2>3
<1>4. OfficialInv'
  BY <1>0, <1>1, <1>3, OfficialFrame DEF AgreeInv
<1>5. Up' <=> Up
  BY <1>3 DEF Up
<1>6. JoinerInv'
  BY <1>1, <1>2, <1>3, <1>5 DEF AgreeInv, JoinerInv
<1>7. HostInv' /\ (ad[Host].game = "sent" => ad'[Host].game = "sent")
  <2>1. CASE hostGame
    <3>1. ad[Host].game = "none" /\ ad[Host].auto = matchmaker
      BY <2>1 DEF hostGame
    <3>2. ad'[Host].mode = HostMode /\ ad'[Host].peer = ad[Host].peer
      BY <1>0, <2>1, <3>1 DEF hostGame, HostMode, Adapter
    <3> QED
      BY <1>2, <3>1, <3>2 DEF AgreeInv, HostInv
  <2>2. CASE RelayConfirmed
    <3>1. ad[Host].game = "waiting" /\ ad'[Host].game = "sent"
      BY <1>0, <2>2 DEF RelayConfirmed, Adapter
    <3>2. ad'[Host].mode = ad[Host].mode /\ ad'[Host].peer = ad[Host].peer
      BY <1>0, <2>2 DEF RelayConfirmed, Adapter
    <3> QED
      BY <1>1, <1>2, <1>5, <3>1, <3>2 DEF AgreeInv, HostInv
  <2>3. ASSUME NEW b \in Joiners, connectToPeer(b) PROVE <1>7
    <3>1. ad[Host].game = "sent" /\ ad'[Host].game = ad[Host].game /\ ad'[Host].mode = ad[Host].mode
      BY <1>0, <2>3 DEF connectToPeer, Adapter
    <3>2. ad'[Host].peer = [ad[Host].peer EXCEPT ![b] = ad[Host].mode]
      BY <1>0, <2>3 DEF connectToPeer, Adapter
    <3>3. \A c \in Joiners : ad'[Host].peer[c] = IF c = b THEN ad[Host].mode ELSE ad[Host].peer[c]
      BY <1>0, <3>2
    <3> QED
      BY <1>1, <1>2, <1>5, <3>1, <3>3 DEF AgreeInv, HostInv
  <2> QED
    BY <2>1, <2>2, <2>3
<1>8. GetInv'
  BY <1>1, <1>2, <1>5, <1>7, GetFrame DEF AgreeInv
<1> QED
  BY <1>4, <1>6, <1>7, <1>8 DEF AgreeInv

\* A joiner asks, and learns the host's mode.
LEMMA JoinerAgrees ==
  ASSUME LobbyInv, AgreeInv, NEW b \in Joiners, joinGame(b) \/ JoinGameReturns(b)
  PROVE  AgreeInv'
<1>0. /\ TypeOK /\ Host \in Adapters /\ ad \in [Adapters -> Adapter] /\ ad[b] \in Adapter
      /\ b \in Adapters /\ Host # b /\ ad[b].peer \in [Adapters -> {"none", "relay", "ice"}]
  BY HostTyped, HostIsNoJoiner, ZenonT(40) DEF LobbyInv, TypeOK, Adapters, Adapter
<1>1. cfg' = cfg /\ matchmaker' = matchmaker /\ players' = players /\ (failed => failed')
  <2>1. Local
    BY DEF joinGame, JoinGameReturns, HostOnRelay, AddRelayPeer
  <2>2. CASE HostOnRelay(b)
    <3>1. \E op, result, next : Reply(b, op, result, next)
      BY <2>2, Zenon DEF HostOnRelay
    <3> QED
      BY <2>1, <3>1, ZenonT(40) DEF Reply, Local, relay
  <2>3. CASE joinGame(b) \/ AddRelayPeer(b)
    BY <2>1, <2>3 DEF joinGame, AddRelayPeer, Local, relay
  <2> QED
    BY <2>2, <2>3 DEF JoinGameReturns
<1>2. HostMode' = HostMode
  BY <1>1 DEF HostMode
<1>3. ad'[Host] = ad[Host] /\ \A c \in Joiners \ {b} : ad'[c] = ad[c]
  BY <1>0 DEF joinGame, JoinGameReturns, HostOnRelay, AddRelayPeer, Adapters
<1>4. Up' <=> Up
  BY <1>3 DEF Up
<1>5. HostInv'
  BY <1>2, <1>3, <1>4 DEF AgreeInv, HostInv
<1>6. \A m \in net' : m \in net \/ (m.from = b /\ m.state = "sent")
  <2>1. net' \subseteq net \cup {Request(b, "get"), Request(b, "create")}
    BY DEF joinGame, JoinGameReturns, HostOnRelay, AddRelayPeer, Reply, SetupRequest
  <2> QED
    BY <2>1 DEF Request
<1>7. OfficialInv'
  BY <1>0, <1>1, <1>3, <1>6, OfficialFrame DEF AgreeInv
<1>8. GetInv' /\ (ad'[b].rpc = "ensuring" \/ ad'[b].peer[Host] = "relay" => HostMode = "relay")
      /\ (~failed' /\ Up /\ ad'[b].peer[Host] = "ice" => HostMode = "ice")
  <2>1. CASE joinGame(b)
    <3>1. ad[Host].game = "sent" /\ ad[b].auto = matchmaker /\ failed' = failed
      BY <2>1 DEF joinGame
    <3>2. CASE ad[b].auto
      <4>1. matchmaker /\ HostMode = "ice" /\ net' = net
        BY <2>1, <3>1, <3>2 DEF joinGame, HostMode
      <4>2. ad'[b].rpc = ad[b].rpc /\ ad'[b].peer[Host] = "ice"
        BY <1>0, <2>1, <3>2 DEF joinGame, Adapter
      <4>3. GetInv'
        BY <1>1, <1>2, <1>3, <1>4, <4>1, GetFrame DEF AgreeInv
      <4> QED
        BY <4>1, <4>2, <4>3 DEF AgreeInv, JoinerInv
    <3>3. CASE ~ad[b].auto
      <4>1. ad'[b].rpc = "asking" /\ ad'[b].peer = ad[b].peer
        BY <1>0, <2>1, <3>3 DEF joinGame, Adapter
      <4>2. ~matchmaker
        BY <3>1, <3>3
      <4>3. GetInv'
        BY <1>1, <1>2, <1>3, <1>4, <1>6, <3>1, <4>2 DEF AgreeInv, GetInv
      <4> QED
        BY <3>1, <4>1, <4>3 DEF AgreeInv, JoinerInv
    <3> QED
      BY <3>2, <3>3
  <2>2. CASE HostOnRelay(b)
    <3>1. GetInv'
      <4>1. net' \subseteq net \cup {Request(b, "create")}
        BY <2>2 DEF HostOnRelay, Reply, SetupRequest
      <4>2. \A m \in net' : m.op = "get" => m \in net
        BY <4>1 DEF Request
      <4> QED
        BY <1>1, <1>2, <1>3, <1>4, <4>2, GetFrame DEF AgreeInv
    <3>2. CASE Reply(b, "get", "ok", SetupRequest(b)) /\
               ad' = [ad EXCEPT ![b].mode = "relay", ![b].rpc = "ensuring", ![b].setup = StartSetup(b)]
      <4>1. [from |-> b, op |-> "get", state |-> "ok"] \in net
        BY <3>2 DEF Reply
      <4>2. HostMode = "relay"
        BY <4>1 DEF AgreeInv, GetInv
      <4>3. ad'[b].peer = ad[b].peer
        BY <1>0, <3>2 DEF Adapter
      <4> QED
        BY <1>1, <3>1, <4>2, <4>3 DEF AgreeInv, JoinerInv
    <3>3. ASSUME NEW r \in {"refused", "failed"}, Reply(b, "get", r, {}),
                 ad' = [ad EXCEPT ![b].mode = "ice", ![b].rpc = "idle", ![b].peer[Host] = "ice"]
          PROVE  <1>8
      <4>1. ad'[b].rpc = "idle" /\ ad'[b].peer[Host] = "ice"
        BY <1>0, <3>3 DEF Adapter
      <4>2. ~failed' => [from |-> b, op |-> "get", state |-> "refused"] \in net
        BY <3>3 DEF Reply, TypeOK, LobbyInv, Message
      <4>3. ~failed' /\ Up => HostMode = "ice"
        BY <4>2 DEF AgreeInv, GetInv
      <4> QED
        BY <3>1, <4>1, <4>3
    <3> QED
      BY <2>2, <3>2, <3>3 DEF HostOnRelay
  <2>3. CASE AddRelayPeer(b)
    <3>1. HostMode = "relay"
      BY <2>3 DEF AddRelayPeer, AgreeInv, JoinerInv
    <3>2. ad'[b].peer[Host] = "relay" /\ net' = net
      BY <1>0, <2>3 DEF AddRelayPeer, Adapter
    <3>3. GetInv'
      BY <1>1, <1>2, <1>3, <1>4, <3>2, GetFrame DEF AgreeInv
    <3> QED
      BY <3>1, <3>2, <3>3
  <2> QED
    BY <2>1, <2>2, <2>3 DEF JoinGameReturns
<1>9. JoinerInv'
  BY <1>1, <1>2, <1>3, <1>4, <1>8 DEF AgreeInv, JoinerInv
<1> QED
  BY <1>5, <1>7, <1>8, <1>9 DEF AgreeInv

\* An adapter goes down, and with it its peers.
LEMMA StopAgrees ==
  ASSUME LobbyInv, AgreeInv, NEW a \in Adapters, quit(a) \/ Stop(a)
  PROVE  AgreeInv'
<1> DEFINE none == [b \in Adapters |-> "none"]
<1>0. /\ TypeOK /\ Host \in Adapters /\ Joiners \subseteq Adapters /\ Host \notin Joiners
      /\ ad \in [Adapters -> Adapter] /\ ad[a] \in Adapter
  BY HostTyped, HostIsNoJoiner DEF LobbyInv, TypeOK, Adapters
<1>1. cfg' = cfg /\ matchmaker' = matchmaker /\ players' = players /\ (failed => failed')
  BY DEF quit, Stop, leaveRelay, LeaveAnswered, Local, relay
<1>2. HostMode' = HostMode
  BY <1>1 DEF HostMode
<1>3. \A m \in net' : m \in net \/ (m.op = "leave")
  BY DEF quit, Stop, leaveRelay, LeaveAnswered, Unread, Request
<1>4. /\ \A c \in Adapters \ {a} : ad'[c] = ad[c]
      /\ ad'[a].life # "up" /\ ad'[a].setup \in {ad[a].setup, "none"}
      /\ ad'[a].rpc \in {ad[a].rpc, "idle"} /\ (ad'[a].peer = ad[a].peer \/ ad'[a].peer = none)
      /\ ad[a].life = "up" => ad'[a].peer = none
  <2>1. CASE quit(a)
    BY <1>0, <2>1 DEF quit, Adapter
  <2>2. CASE leaveRelay(a)
    BY <1>0, <2>2 DEF leaveRelay, Stopped, Adapter
  <2>3. CASE LeaveAnswered(a)
    BY <1>0, <2>3 DEF LeaveAnswered, Stopped
  <2> QED
    BY <2>1, <2>2, <2>3 DEF Stop
<1>5. OfficialInv'
  <2>1. ad'[Host].setup \in {ad[Host].setup, "none"}
    BY <1>0, <1>4
  <2> QED
    BY <1>1, <1>3, <2>1, OfficialFrame DEF AgreeInv
<1>6. Up' => Up /\ ad'[Host] = ad[Host]
  BY <1>0, <1>4 DEF Up
<1>7. GetInv'
  BY <1>1, <1>2, <1>3, <1>6, GetFrame DEF AgreeInv
<1>8. HostInv'
  <2>1. CASE a = Host
    <3>1. \A b \in Joiners : ad'[Host].peer[b] = "none"
      <4>1. CASE ad[Host].life = "up"
        BY <1>0, <1>4, <2>1, <4>1
      <4>2. CASE ad[Host].life # "up"
        BY <1>0, <1>4, <2>1, <4>2 DEF AgreeInv, HostInv, Up
      <4> QED
        BY <4>1, <4>2
    <3>2. ~Up'
      BY <1>4, <2>1 DEF Up
    <3> QED
      BY <3>1, <3>2 DEF HostInv
  <2>2. CASE a # Host
    <3>1. ad'[Host] = ad[Host]
      BY <1>0, <1>4, <2>2
    <3>2. Up' <=> Up
      BY <3>1 DEF Up
    <3> QED
      BY <1>2, <3>1, <3>2 DEF AgreeInv, HostInv
  <2> QED
    BY <2>1, <2>2
<1>9. JoinerInv'
  <2> SUFFICES ASSUME NEW b \in Joiners
               PROVE  /\ ad'[b].rpc = "ensuring" \/ ad'[b].peer[Host] = "relay" => HostMode = "relay"
                      /\ ~failed' /\ Up' /\ ad'[b].peer[Host] = "ice" => HostMode = "ice"
    BY <1>2 DEF JoinerInv
  <2>1. /\ ad'[b].rpc \in {ad[b].rpc, "idle"}
        /\ ad'[b].peer[Host] \in {ad[b].peer[Host], "none"}
    <3>1. CASE b = a
      BY <1>0, <1>4, <3>1
    <3>2. CASE b # a
      BY <1>0, <1>4, <3>2
    <3> QED
      BY <3>1, <3>2
  <2> QED
    BY <1>1, <1>6, <2>1 DEF AgreeInv, JoinerInv
<1> QED
  BY <1>5, <1>7, <1>8, <1>9 DEF AgreeInv

\* Every step keeps what the agreement rests on.
LEMMA AgreeInvHolds == Spec => []AgreeInv
<1>1. Init => AgreeInv
  <2> SUFFICES ASSUME Init PROVE AgreeInv
    OBVIOUS
  <2>1. Host \in Adapters /\ Joiners \subseteq Adapters
    BY DEF Adapters
  <2>2. /\ ad[Host].game = "none" /\ \A b \in Joiners : ad[Host].peer[b] = "none"
        /\ ad[Host].setup = IF cfg[Host].official THEN "none" ELSE "create"
    BY <2>1 DEF Init, Run
  <2>3. \A b \in Joiners : ad[b].rpc = "idle" /\ ad[b].peer[Host] = "none"
    BY <2>1 DEF Init, Run
  <2>4. \A m \in net : m.op = "create" /\ ~cfg[m.from].official
    BY DEF Init, Request
  <2> QED
    BY <2>2, <2>3, <2>4, ZenonT(40) DEF Init, AgreeInv, OfficialInv, HostInv, GetInv, JoinerInv
<1>2. LobbyInv /\ AgreeInv /\ [Next]_vars => AgreeInv'
  <2> SUFFICES ASSUME LobbyInv, AgreeInv, [Next]_vars PROVE AgreeInv'
    OBVIOUS
  <2>1. CASE UNCHANGED vars
    BY <2>1 DEF vars, AgreeInv, OfficialInv, HostInv, GetInv, JoinerInv, HostMode, Up
  <2>2. CASE Next
    BY <2>2, ServeAgrees, QuietAgrees, HostAgrees, JoinerAgrees, StopAgrees DEF Next
  <2> QED
    BY <2>1, <2>2
<1> QED
  BY <1>1, <1>2, LobbyInvHolds, PTL DEF Spec

\* The host and a joiner never use different ways, the relay at one end and ICE at
\* the other, unless a request of theirs has failed: joinGame asks the relay at any
\* moment after HostGame, and finds what hostGame has decided, for every number of
\* joiners and all configurations.
THEOREM PeersAlwaysAgree == Spec => []PeersAgree
<1>1. TypeOK /\ AgreeInv => PeersAgree
  <2> SUFFICES ASSUME TypeOK, AgreeInv, ~failed, NEW b \in Joiners,
                      ad[Host].peer[b] # "none", ad[b].peer[Host] # "none"
               PROVE  ad[b].peer[Host] = ad[Host].peer[b]
    BY DEF PeersAgree
  <2>1. Up /\ ad[Host].peer[b] = HostMode
    BY DEF AgreeInv, HostInv
  <2>2. ad[b].peer[Host] \in {"relay", "ice"}
    BY DEF TypeOK, Adapter, Adapters
  <2>3. ad[b].peer[Host] = HostMode
    BY <2>1, <2>2 DEF AgreeInv, JoinerInv
  <2> QED
    BY <2>1, <2>3
<1> QED
  BY <1>1, LobbyTypes, AgreeInvHolds, PTL

-----------------------------------------------------------------------------
(* The relay *)

\* What the adapters meet is a RelayDirectory, which SessionManager implements:
\* HTTP requests served late, twice or after their caller has gone are steps of it,
\* and the reaper closes the session only when it is empty.
THEOREM RelayIsDirectory == Spec => UsesDirectory
<1>1. Init => Directory!Init
  BY DEF Init, Directory!Init
<1>2. LobbyInv /\ [Next]_vars => [Directory!Next]_<<{s \in {"lobby"} : session}, [s \in {"lobby"} |-> players]>>
  <2> SUFFICES ASSUME LobbyInv, [Next]_vars
               PROVE  Directory!Next \/ UNCHANGED <<session, players>>
    OBVIOUS
  <2>0. TypeOK /\ (players # {} => session)
    BY DEF LobbyInv
  <2>1. ASSUME NEW m \in net, handleSessions(m)
        PROVE  Directory!Next \/ UNCHANGED <<session, players>>
    <3>1. session' = TRUE /\ players' = players
      BY <2>1 DEF handleSessions
    <3>2. CASE ~session
      <4>1. Directory!OpenSession("lobby")
        BY <3>1, <3>2 DEF Directory!OpenSession
      <4> QED
        BY <4>1 DEF Directory!Next
    <3>3. CASE session
      BY <2>0, <3>1, <3>3, Zenon DEF TypeOK
    <3> QED
      BY <3>2, <3>3
  <2>2. ASSUME NEW m \in net, handleSessionJoin(m)
        PROVE  Directory!Next \/ UNCHANGED <<session, players>>
    <3>1. session' = session /\ players' = IF session THEN players \cup {m.from} ELSE players
      BY <2>2 DEF handleSessionJoin
    <3>2. CASE session /\ m.from \notin players
      <4>1. m.from \in Adapters /\ players \subseteq Adapters
        BY <2>0 DEF TypeOK, Message
      <4>2. Directory!Register("lobby", m.from)
        BY <3>1, <3>2, <4>1 DEF Directory!Register
      <4> QED
        BY <4>1, <4>2 DEF Directory!Next
    <3>3. CASE ~session \/ m.from \in players
      BY <3>1, <3>3
    <3> QED
      BY <3>2, <3>3
  <2>3. ASSUME NEW a \in Adapters, session' = session, players' = players \ {a}
        PROVE  Directory!Next
    <3>1. Directory!Expire({a}, {})
      BY <2>3 DEF Directory!Expire
    <3> QED
      BY <3>1 DEF Directory!Next
  <2>4. CASE ReapSession
    <3>1. Directory!Expire({}, {"lobby"})
      BY <2>4 DEF ReapSession, Directory!Expire
    <3> QED
      BY <3>1 DEF Directory!Next
  <2>5. ASSUME NEW m \in net, handleSessionLeave(m)
        PROVE  Directory!Next
    BY <2>0, <2>3, <2>5 DEF handleSessionLeave, TypeOK, Message
  <2>6. ASSUME NEW a \in Adapters, ReapPlayer(a)
        PROVE  Directory!Next
    BY <2>3, <2>6, Zenon DEF ReapPlayer
  <2>7. CASE Local
    BY <2>7 DEF Local, relay
  <2>8. ASSUME NEW a \in Adapters, Setup(a) \/ ProbeFails(a) \/ setLobbyInitMode(a) \/ quit(a) \/ Stop(a)
        PROVE  Local
    BY <2>8, Zenon DEF Setup, CreateAnswered, JoinAnswered, ProbeFails, setLobbyInitMode, quit,
       Stop, leaveRelay, LeaveAnswered
  <2>9. ASSUME NEW b \in Joiners, joinGame(b) \/ JoinGameReturns(b) \/ connectToPeer(b)
        PROVE  Local
    BY <2>9, Zenon DEF joinGame, JoinGameReturns, HostOnRelay, AddRelayPeer, connectToPeer
  <2>10. ASSUME NEW a \in Adapters, PathOpens(a) \/ Hello(a)
         PROVE  UNCHANGED <<session, players>>
    BY <2>10 DEF PathOpens, Hello, relay
  <2>11. CASE hostGame \/ RelayConfirmed
    BY <2>7, <2>11, Zenon DEF hostGame, RelayConfirmed
  <2>12. CASE UNCHANGED vars
    BY <2>12 DEF vars
  <2>13. ASSUME NEW m \in net, handleSessionRoot(m)
         PROVE  UNCHANGED <<session, players>>
    BY <2>13 DEF handleSessionRoot, relay
  <2>14. ASSUME NEW m \in net, Serve(m)
         PROVE  Directory!Next \/ UNCHANGED <<session, players>>
    BY <2>1, <2>2, <2>5, <2>13, <2>14, Zenon DEF Serve
  <2>15. CASE Reaper
    BY <2>4, <2>6, <2>15, Zenon DEF Reaper
  <2> QED
    BY <2>7, <2>8, <2>9, <2>10, <2>11, <2>12, <2>14, <2>15, Zenon DEF Next
<1> QED
  BY <1>1, <1>2, LobbyInvHolds, PTL DEF Spec, UsesDirectory, Directory!Spec
=============================================================================
