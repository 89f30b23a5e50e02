-------------------------- MODULE PacketForwarding --------------------------
(***************************************************************************)
(* How packets get from one game to the other: the forwarding goroutines   *)
(* of a peer that uses the relay (internal/adapter/peer.go, and sending    *)
(* and dispatching in relayconn.go) and of a peer that uses ICE            *)
(* (icepeer.go), with the frames by which the two adapters measure the     *)
(* round trip.                                                             *)
(*                                                                         *)
(* Two ends, Offerer and Answerer.  The network between them, with the     *)
(* relay in it or without, may lose, reorder and duplicate frames.         *)
(***************************************************************************)
EXTENDS Integers, Sequences, FiniteSets

CONSTANTS
  Offerer, Answerer,
  Cap,       \* the capacity of fromCh (256) and of earlyBuf (64)
  Budgets,   \* bounds: packets that the games send, and echo frames
  MaxArrivals \* bounds: data frames that come to an end, duplicates included

ASSUME EndsDiffer == Offerer # Answerer

Ends == {Offerer, Answerer}

ASSUME CapIsPositive == Cap \in Nat \ {0} /\ MaxArrivals \in [Ends -> Nat]

ASSUME BudgetsAreBounds == Budgets \subseteq [data : [Ends -> Nat], echo : Nat]

VARIABLES
  kind,      \* "relay" or "ice"
  left,      \* what is left of the budget
  port,      \* the port that the game sends from
  sock,      \* what it has sent to the peer's socket: ports
  hand,      \* gameToRelay or gameToICE has a packet in hand
  number,    \* the number of packets that an end has sent to the other
  ready,     \* the peer is known (relay), ICE is connected (ice)
  addr,      \* gameAddr, 0 while it is not known
  link,      \* the frames that the network may still bring to an end
  arrived,   \* the data that have come to it, by their numbers: a history
  buf,       \* fromCh (relay), earlyBuf (ice)
  got,       \* the data that the game has got, by their places in arrived
  rtt,       \* rttMs
  estimated, \* rttEstimated
  measured   \* the last round trip that has been measured, -1 for none

gameVars == <<port, sock, hand, number>>
dataVars == <<ready, addr, arrived, buf, got>>
rttVars  == <<rtt, estimated, measured>>
vars     == <<kind, left, gameVars, dataVars, link, rttVars>>

Ports  == {1, 2}
Millis == {0, 1}

\* Relay: data, ping, pong; ICE: data, 'e', 'f' and the report of a round trip.
\* Data on the link bear the number of the packet, data in the buffer its place in
\* arrived.
Frame == [type : {"data"}, n : Nat] \cup [type : {"ping", "pong", "e", "f"}]
         \cup [type : {"report"}, ms : Millis]

\* Every variable has its type.
TypeOK ==
  /\ kind \in {"relay", "ice"} /\ left \in [data : [Ends -> Nat], echo : Nat]
  /\ port \in [Ends -> Ports] /\ sock \in [Ends -> Seq(Ports)]
  /\ hand \in [Ends -> BOOLEAN] /\ number \in [Ends -> Nat]
  /\ ready \in [Ends -> BOOLEAN] /\ addr \in [Ends -> Ports \cup {0}]
  /\ link \in [Ends -> SUBSET Frame] /\ buf \in [Ends -> Seq(Frame)]
  /\ \A e \in Ends : Len(buf[e]) <= Cap
  /\ arrived \in [Ends -> Seq(Nat)] /\ got \in [Ends -> Seq(Nat)]
  /\ rtt \in [Ends -> 0..2] /\ estimated \in [Ends -> BOOLEAN]
  /\ measured \in [Ends -> Millis \cup {-1}]

All(x) == [e \in Ends |-> x]

Init ==
  /\ kind \in {"relay", "ice"} /\ left \in Budgets
  /\ port = All(1) /\ sock = All(<<>>) /\ hand = All(FALSE) /\ number = All(0)
  /\ ready = All(FALSE) /\ addr = All(0) /\ link = All({}) /\ buf = All(<<>>)
  /\ arrived = All(<<>>) /\ got = All(<<>>)
  /\ rtt = All(0) /\ estimated = All(FALSE) /\ measured = All(-1)

Other(e) == CHOOSE f \in Ends : f # e

Data(n) == [type |-> "data", n |-> n]
Echo(t) == [type |-> t]

\* Frames go on the way to end e.
Put(l, e, fs) == [l EXCEPT ![e] = @ \cup fs]

-----------------------------------------------------------------------------
(* From the game. *)

GameSends(e) ==
  /\ left.data[e] > 0
  /\ left' = [left EXCEPT !.data[e] = @ - 1]
  /\ sock' = [sock EXCEPT ![e] = Append(@, port[e])]
  /\ UNCHANGED <<kind, port, hand, number, dataVars, link, rttVars>>

\* The game opens another socket.
GameRebinds(e) ==
  /\ port[e] = 1 /\ left.data[e] > 0
  /\ port' = [port EXCEPT ![e] = 2]
  /\ UNCHANGED <<kind, left, sock, hand, number, dataVars, link, rttVars>>

\* Mutant: the first address is kept.
GameAddrFirst(e, p) == IF addr[e] # 0 THEN addr[e] ELSE p

\* The address that is kept after a packet from port p: the first, or the last.
GameAddr(e, p) == IF kind = "relay" /\ addr[e] # 0 THEN addr[e] ELSE p

\* gameToRelay, gameToICE: a packet is read, and the game's address learned.
ReadGame(e) ==
  /\ ~hand[e] /\ sock[e] # <<>>
  /\ kind = "relay" => ready[e]
  /\ hand' = [hand EXCEPT ![e] = TRUE]
  /\ sock' = [sock EXCEPT ![e] = Tail(@)]
  /\ addr' = [addr EXCEPT ![e] = GameAddr(e, Head(sock[e]))]
  /\ UNCHANGED <<kind, left, port, number, ready, link, arrived, buf, got, rttVars>>

\* It is sent: by ICE once that is connected.
SendGame(e) ==
  /\ hand[e] /\ ready[e]
  /\ hand' = [hand EXCEPT ![e] = FALSE]
  /\ number' = [number EXCEPT ![e] = @ + 1]
  /\ link' = Put(link, Other(e), {Data(number[e] + 1)})
  /\ UNCHANGED <<kind, left, port, sock, dataVars, rttVars>>

\* connectToPeer has added and started the peer, or ICE has connected.
GetsReady(e) ==
  /\ ~ready[e] /\ ready' = [ready EXCEPT ![e] = TRUE]
  /\ UNCHANGED <<kind, left, gameVars, addr, arrived, buf, got, link, rttVars>>

\* A tick of pingLoop, sendEchoLoop or sendAnswerEchoLoop.
SendEcho(e) ==
  /\ ready[e] /\ left.echo > 0
  /\ left' = [left EXCEPT !.echo = @ - 1]
  /\ link' = Put(link, Other(e), {Echo(IF kind = "relay" THEN "ping"
                                       ELSE IF e = Offerer THEN "e" ELSE "f")})
  /\ UNCHANGED <<kind, gameVars, dataVars, rttVars>>

\* A frame is lost, or its last duplicate has come.
Lose(e) ==
  /\ \E f \in link[e] : link' = [link EXCEPT ![e] = @ \ {f}]
  /\ UNCHANGED <<kind, left, gameVars, dataVars, rttVars>>

-----------------------------------------------------------------------------
(* To the game. *)

\* Data written to gameAddr: the game gets them if it is (still) there.
Delivered(e, ns) == IF addr[e] = port[e] THEN [got EXCEPT ![e] = @ \o ns] ELSE got

\* A frame f comes, any of those on the way, and perhaps once more; frames fs are
\* sent in return.
Take(e, f, fs) ==
  /\ ready[e] /\ f \in link[e]
  /\ \E rest \in {link[e], link[e] \ {f}} :
       link' = Put([link EXCEPT ![e] = rest], Other(e), fs)
  /\ UNCHANGED <<kind, left, gameVars, ready, addr>>

\* Data have come: the history, and the place in it that they are known by.
Arrive(e, f) == /\ Len(arrived[e]) < MaxArrivals[e]
                /\ arrived' = [arrived EXCEPT ![e] = Append(@, f.n)]
Place(e) == Len(arrived[e]) + 1

\* What is put into the buffer of end e if there is room.
Keep(e, f) == buf' = IF Len(buf[e]) < Cap THEN [buf EXCEPT ![e] = Append(@, f)] ELSE buf

Numbers(fs) == [i \in DOMAIN fs |-> fs[i].n]

NoRtt == UNCHANGED rttVars
NoData == UNCHANGED <<arrived, buf, got>>

\* receiveUDP, receiveTCP and dispatchTopeer: nobody knows the sender yet.
DropUnknown(e) ==
  /\ kind = "relay" /\ ~ready[e] /\ Lose(e)

\* DeliverFromRelay
DeliverFromRelay(e, f) ==
  /\ kind = "relay" /\ Take(e, f, {})
  /\ \/ f.type = "data" /\ Arrive(e, f) /\ Keep(e, Data(Place(e)))
     \/ f.type # "data" /\ UNCHANGED arrived /\ Keep(e, f)
  /\ UNCHANGED got /\ NoRtt

\* A round trip of ms is stored.
Measure(e, ms) ==
  /\ rtt' = [rtt EXCEPT ![e] = ms] /\ measured' = [measured EXCEPT ![e] = ms]
  /\ estimated' = [estimated EXCEPT ![e] = FALSE]

\* Mutant: data without an address are put back into the channel.
relayToGameRequeues(e) ==
  LET f == Head(buf[e]) IN
  /\ kind = "relay" /\ buf[e] # <<>>
  /\ buf' = [buf EXCEPT ![e] = Tail(@) \o IF f.type = "data" /\ addr[e] = 0 THEN <<f>> ELSE <<>>]
  /\ \/ /\ f.type = "data" /\ UNCHANGED link /\ NoRtt
        /\ got' = IF addr[e] = 0 THEN got ELSE Delivered(e, <<f.n>>)
     \/ /\ f.type = "ping" /\ link' = Put(link, Other(e), {Echo("pong")})
        /\ UNCHANGED got /\ NoRtt
     \/ /\ f.type = "pong" /\ (NoRtt \/ \E ms \in Millis : Measure(e, ms))
        /\ UNCHANGED <<link, got>>
  /\ UNCHANGED <<kind, left, gameVars, ready, addr, arrived>>

\* relayToGame: data without an address are dropped, pings answered, and a pong
\* whose time stamp cannot be right measures nothing.
relayToGame(e) ==
  LET f == Head(buf[e]) IN
  /\ kind = "relay" /\ buf[e] # <<>> /\ buf' = [buf EXCEPT ![e] = Tail(@)]
  /\ \/ /\ f.type = "data" /\ UNCHANGED link /\ NoRtt
        /\ got' = IF addr[e] = 0 THEN got ELSE Delivered(e, <<f.n>>)
     \/ /\ f.type = "ping" /\ link' = Put(link, Other(e), {Echo("pong")})
        /\ UNCHANGED got /\ NoRtt
     \/ /\ f.type = "pong" /\ (NoRtt \/ \E ms \in Millis : Measure(e, ms))
        /\ UNCHANGED <<link, got>>
  /\ UNCHANGED <<kind, left, gameVars, ready, addr, arrived>>

\* Mutant: the buffer is full when there is room for one.
iceToGameShort(e, f) ==
  /\ kind = "ice" /\ f.type = "data" /\ Take(e, f, {}) /\ Arrive(e, f)
  /\ \/ /\ addr[e] = 0 /\ UNCHANGED got
        /\ buf' = IF Len(buf[e]) + 1 < Cap THEN [buf EXCEPT ![e] = Append(@, Data(Place(e)))]
                                      ELSE buf
     \/ /\ addr[e] # 0 /\ got' = Delivered(e, Numbers(buf[e]) \o <<Place(e)>>)
        /\ buf' = [buf EXCEPT ![e] = <<>>]
  /\ NoRtt

\* Mutant: the buffer takes one too many.
iceToGameOneMore(e, f) ==
  /\ kind = "ice" /\ f.type = "data" /\ Take(e, f, {}) /\ Arrive(e, f)
  /\ \/ /\ addr[e] = 0 /\ UNCHANGED got
        /\ buf' = IF Len(buf[e]) <= Cap THEN [buf EXCEPT ![e] = Append(@, Data(Place(e)))]
                                   ELSE buf
     \/ /\ addr[e] # 0 /\ got' = Delivered(e, Numbers(buf[e]) \o <<Place(e)>>)
        /\ buf' = [buf EXCEPT ![e] = <<>>]
  /\ NoRtt

\* iceToGame: data wait for the game's first packet, and for the next data.
iceToGame(e, f) ==
  /\ kind = "ice" /\ f.type = "data" /\ Take(e, f, {}) /\ Arrive(e, f)
  /\ \/ /\ addr[e] = 0 /\ UNCHANGED got
        /\ Keep(e, Data(Place(e)))
     \/ /\ addr[e] # 0 /\ got' = Delivered(e, Numbers(buf[e]) \o <<Place(e)>>)
        /\ buf' = [buf EXCEPT ![e] = <<>>]
  /\ NoRtt

\* Mutant: the estimate is stored in any case.
EchoEstimates(f) ==
  /\ f.type = "e" /\ Take(Answerer, f, {f})
  /\ \E oneWay \in Millis : rtt' = [rtt EXCEPT ![Answerer] = 2 * oneWay]
  /\ estimated' = [estimated EXCEPT ![Answerer] = TRUE]
  /\ UNCHANGED measured /\ NoData

\* 'e' at the answerer: the clocks give an estimate of twice the way here, if they
\* agree at all, and the frame goes back.
EchoMirrored(f) ==
  /\ f.type = "e" /\ Take(Answerer, f, {f})
  /\ \/ /\ rtt[Answerer] = 0
        /\ \E oneWay \in Millis : rtt' = [rtt EXCEPT ![Answerer] = 2 * oneWay]
        /\ estimated' = [estimated EXCEPT ![Answerer] = TRUE]
     \/ UNCHANGED <<rtt, estimated>>
  /\ UNCHANGED measured /\ NoData

\* 'e' back at the offerer, which tells the answerer.
EchoReturned(f) ==
  /\ f.type = "e"
  /\ \E ms \in Millis : /\ Take(Offerer, f, {[type |-> "report", ms |-> ms]})
                        /\ Measure(Offerer, ms)
  /\ NoData

\* 'f' at the offerer goes back.
AnswerEchoMirrored(f) == f.type = "f" /\ Take(Offerer, f, {f}) /\ NoRtt /\ NoData

\* 'f' back at the answerer, or the offerer's report.
AnswererMeasures(f) ==
  /\ Take(Answerer, f, {})
  /\ \/ f.type = "f" /\ \E ms \in Millis : Measure(Answerer, ms)
     \/ f.type = "report" /\ Measure(Answerer, f.ms)
  /\ NoData

\* A frame that comes back with a time stamp that cannot be right (the clock has
\* been set) measures nothing.
EchoOutOfRange(e, f) ==
  /\ f.type \in {"e", "f"} /\ (f.type = "e" <=> e = Offerer) /\ Take(e, f, {})
  /\ NoRtt /\ NoData

-----------------------------------------------------------------------------
Handle(e) ==
  \/ DropUnknown(e) \/ relayToGame(e)
  \/ \E f \in link[e] :
       \/ DeliverFromRelay(e, f) \/ iceToGame(e, f) \/ EchoOutOfRange(e, f)
       \/ e = Answerer /\ (EchoMirrored(f) \/ AnswererMeasures(f))
       \/ e = Offerer /\ (EchoReturned(f) \/ AnswerEchoMirrored(f))

Forward(e) == ReadGame(e) \/ SendGame(e)

Next == \E e \in Ends : \/ GameSends(e) \/ GameRebinds(e) \/ Forward(e) \/ GetsReady(e)
                        \/ SendEcho(e) \/ Lose(e) \/ Handle(e)

Spec == Init /\ [][Next]_vars

\* The goroutines that read from the games run.
Fairness == \A e \in Ends : WF_vars(Forward(e))

FairSpec == Spec /\ Fairness

-----------------------------------------------------------------------------
(* Properties. *)

\* Neither the channel nor the early buffer duplicates, reorders or invents what
\* the network brings: each end of the adapters implements GameChannel.  What the
\* network itself duplicates or reorders reaches the game like that.
Channel == INSTANCE GameChannel WITH sent <- [e \in Ends |-> number[Other(e)]]

ImplementsChannel == Channel!Spec

\* iceToGame loses nothing that comes before the game's first packet, as long as
\* there is room in the early buffer: what has come the game has got, or will get
\* with the next data, in the order in which it has come.
EarlyKept ==
  \A e \in Ends : kind = "ice" /\ Len(arrived[e]) <= Cap /\ port[e] = 1
    => got[e] \o Numbers(buf[e]) = [i \in 1 .. Len(arrived[e]) |-> i]

\* An estimated round trip is marked as one, and a measurement of a millisecond
\* or more is what a peer keeps until the next.
RttTrue ==
  \A e \in Ends : /\ rtt[e] # 0 /\ ~estimated[e] => rtt[e] = measured[e]
                  /\ measured[e] > 0 => rtt[e] = measured[e] /\ ~estimated[e]

\* gameToICE follows the game to another port.
FollowsGame ==
  \A e \in Ends :
    kind = "ice" /\ ready[e] /\ port[e] = 2 /\ (\E i \in DOMAIN sock[e] : sock[e][i] = 2)
      ~> addr[e] = 2
=============================================================================
