--------------------------- MODULE RelayTransport ---------------------------
(***************************************************************************)
(* How the relay reaches its players: the transport fields of PlayerInfo   *)
(* (internal/relay/session.go), the UDP loop (router.go), the handlers of  *)
(* the TCP fallback (tcphandler.go) and, at the other end, the adapter's   *)
(* relay connection (internal/adapter/relayconn.go).                       *)
(*                                                                         *)
(* One session.  A TCP connection is named by an element of Conns; between *)
(* reading a frame and handling it a handler may be delayed, and a close   *)
(* that the code starts with `go' happens some time later.  Datagrams may  *)
(* be lost, duplicated, delayed and reordered.  Of an address the IP is    *)
(* kept: ports are learned again from every packet.                        *)
(***************************************************************************)
EXTENDS Integers, FiniteSets

CONSTANTS
  Players,
  Hosts,        \* IP addresses
  Conns,        \* bound: TCP connections that exist at once
  owner,        \* the player whose adapter dials a connection
  MaxTCPConns,  \* maxTCPConns, 1000 in the code
  MaxRestarts,  \* bound: new adapter processes
  MaxUnread,    \* bound: frames sent on a connection and not yet read
  Nil

ASSUME ConnLimit == MaxTCPConns \in Nat /\ IsFiniteSet(Conns)

ASSUME BoundsAreNat == MaxRestarts \in Nat /\ MaxUnread \in Nat \ {0}

ASSUME OwnersArePlayers == owner \in [Conns -> Players]

ASSUME NilIsNoTarget == Nil \notin Conns \cup Hosts \cup Players

VARIABLES
  registered,   \* the players in Session.players
  addr,         \* PlayerInfo.Addr
  tcpConn,      \* PlayerInfo.TCPConn
  tcpIP,        \* PlayerInfo.tcpIP
  handler,      \* where the goroutine of a connection is
  activeConns,  \* TCPHandler.activeConns
  closed,       \* connections that the relay has closed
  closing,      \* connections with a pending `go conn.Close()'
  unread,       \* number of frames sent on a connection and not read yet
  from,         \* the host that a connection has been dialed from
  datagrams,    \* UDP packets on their way
  host,         \* the host that a player's adapter runs on
  current,      \* RelayConnection.tcpConn, Nil in UDP mode
  lost,         \* adapters that have closed current and dial again
  joined,       \* the adapter has registered with the relay
  restarts      \* number of adapter processes that have ended

session == <<registered, addr, tcpConn, tcpIP>>
server  == <<handler, activeConns, closed, closing>>
wire    == <<unread, from>>
adapter == <<host, current, lost, joined, restarts>>
vars    == <<session, server, wire, datagrams, adapter>>

Init ==
  /\ registered = {}
  /\ addr = [p \in Players |-> Nil]
  /\ tcpConn = [p \in Players |-> Nil]
  /\ tcpIP = [p \in Players |-> Nil]
  /\ handler = [c \in Conns |-> "none"] /\ activeConns = 0
  /\ closed = Conns /\ closing = {}
  /\ unread = [c \in Conns |-> 0]
  /\ from = [c \in Conns |-> Nil]
  /\ datagrams = {}
  /\ host \in [Players -> Hosts]
  /\ current = [p \in Players |-> Nil]
  /\ lost = {} /\ joined = {} /\ restarts = 0

-----------------------------------------------------------------------------
(* The relay: session membership *)

NoTransport(p) ==
  /\ addr' = [addr EXCEPT ![p] = Nil]
  /\ tcpConn' = [tcpConn EXCEPT ![p] = Nil]
  /\ tcpIP' = [tcpIP EXCEPT ![p] = Nil]

(* A new PlayerInfo, or ResetPlayerTransport when the player is known. *)
Register(p) ==
  /\ p \notin joined
  /\ joined' = joined \cup {p}
  /\ registered' = registered \cup {p}
  /\ NoTransport(p)
  /\ UNCHANGED <<server, wire, datagrams, host, current, lost, restarts>>

RemovePlayer(p) ==
  /\ registered' = registered \ {p}
  /\ NoTransport(p)

(* Nothing has been accepted from p for PlayerTimeout: any step may take   *)
(* that long to come.                                                      *)
ReapPlayer(p) ==
  /\ p \in registered
  /\ RemovePlayer(p)
  /\ closing' = closing \cup ({tcpConn[p]} \ {Nil})
  /\ UNCHANGED <<handler, activeConns, closed, wire, datagrams, adapter>>

-----------------------------------------------------------------------------
(* The relay: packets *)

(* Mutant: the pin outlives the connection. *)
UpdatePlayerAddr_KeepPin(p, h) ==
  /\ addr' = [addr EXCEPT ![p] = h]
  /\ tcpConn' = [tcpConn EXCEPT ![p] = Nil]
  /\ UNCHANGED tcpIP

UpdatePlayerAddr(p, h) ==
  /\ addr' = [addr EXCEPT ![p] = h]
  /\ tcpConn' = [tcpConn EXCEPT ![p] = Nil]
  /\ tcpIP' = [tcpIP EXCEPT ![p] = IF tcpConn[p] = Nil THEN @ ELSE Nil]

(* A datagram is lost, or arrives and is dropped: the sender is unknown,   *)
(* its address is pinned to another IP, or it exceeds the rate limit.      *)
DropDatagram(d) ==
  /\ d \in datagrams
  /\ datagrams' = datagrams \ {d}
  /\ UNCHANGED <<session, server, wire, adapter>>

(* A datagram arrives; the network may deliver it again. *)
HandleDatagram(d) ==
  /\ d \in datagrams
  /\ d.from \in registered
  /\ addr[d.from] \in {Nil, d.host}
  /\ UpdatePlayerAddr(d.from, d.host)
  /\ datagrams' \in {datagrams, datagrams \ {d}}
  /\ UNCHANGED <<registered, server, wire, adapter>>

(* What has not been read is discarded. *)
Close(c) ==
  /\ closed' = closed \cup {c}
  /\ unread' = [unread EXCEPT ![c] = 0]

(* The adapter has closed its end. *)
HungUp(c) == current[owner[c]] # c \/ owner[c] \in lost

(* Mutant: off by one at the limit. *)
Accept_OffByOne(c) ==
  /\ handler[c] = "backlog"
  /\ \/ /\ activeConns > MaxTCPConns
        /\ handler' = [handler EXCEPT ![c] = "none"]
        /\ Close(c)
        /\ UNCHANGED activeConns
     \/ /\ activeConns <= MaxTCPConns
        /\ handler' = [handler EXCEPT ![c] = "read"]
        /\ activeConns' = activeConns + 1
        /\ UNCHANGED <<closed, unread>>
  /\ UNCHANGED <<session, closing, from, datagrams, adapter>>

(* Mutant: a handler starts and is not counted. *)
Accept_NotCounted(c) ==
  /\ handler[c] = "backlog"
  /\ \/ /\ activeConns >= MaxTCPConns
        /\ handler' = [handler EXCEPT ![c] = "none"]
        /\ Close(c)
        /\ UNCHANGED activeConns
     \/ /\ activeConns < MaxTCPConns
        /\ handler' = [handler EXCEPT ![c] = "read"]
        /\ UNCHANGED <<activeConns, closed, unread>>
  /\ UNCHANGED <<session, closing, from, datagrams, adapter>>

(* Only this loop adds to activeConns, so a handler that ends between the  *)
(* check and the addition might as well have ended after them.             *)
Accept(c) ==
  /\ handler[c] = "backlog"
  /\ \/ /\ activeConns >= MaxTCPConns
        /\ handler' = [handler EXCEPT ![c] = "none"]
        /\ Close(c)
        /\ UNCHANGED activeConns
     \/ /\ activeConns < MaxTCPConns
        /\ handler' = [handler EXCEPT ![c] = "read"]
        /\ activeConns' = activeConns + 1
        /\ UNCHANGED <<closed, unread>>
  /\ UNCHANGED <<session, closing, from, datagrams, adapter>>

(* Frames that the adapter has sent before it closed can still be read. *)
ReadFrame(c) ==
  /\ handler[c] = "read"
  /\ c \notin closed
  /\ unread[c] > 0
  /\ handler' = [handler EXCEPT ![c] = "update"]
  /\ unread' = [unread EXCEPT ![c] = @ - 1]
  /\ UNCHANGED <<session, activeConns, closed, closing, from, datagrams,
                 adapter>>

(* The deferred calls: conn.Close() and activeConns.Add(-1). *)
Return(c) ==
  /\ handler' = [handler EXCEPT ![c] = "none"]
  /\ activeConns' = activeConns - 1
  /\ Close(c)
  /\ UNCHANGED <<session, closing, from, datagrams, adapter>>

(* Mutant: the end of the stream is not taken for an error. *)
ReadFails_IgnoreEOF(c) ==
  /\ handler[c] = "read"
  /\ c \in closed
  /\ Return(c)

ReadFails(c) ==
  /\ handler[c] = "read"
  /\ c \in closed \/ (HungUp(c) /\ unread[c] = 0)
  /\ Return(c)

ReadTimeout(c) ==
  /\ handler[c] = "read"
  /\ unread[c] = 0
  /\ Return(c)

(* Mutant: the first connection of a player is kept. *)
UpdatePlayerTCP_FirstWins(p, c) ==
  /\ tcpConn' = [tcpConn EXCEPT ![p] = IF @ = Nil THEN c ELSE @]
  /\ tcpIP' = [tcpIP EXCEPT ![p] = IF @ = Nil THEN from[c] ELSE @]
  /\ UNCHANGED <<registered, addr>>

UpdatePlayerTCP(p, c) ==
  /\ tcpConn' = [tcpConn EXCEPT ![p] = c]
  /\ tcpIP' = [tcpIP EXCEPT ![p] = IF @ = Nil THEN from[c] ELSE @]
  /\ UNCHANGED <<registered, addr>>

Evict(p, c) ==
  closing' = closing \cup ({tcpConn[p]} \ {Nil, c})

AcceptFrame(c) ==
  LET p == owner[c] IN
  /\ handler[c] = "update"
  /\ p \in registered
  /\ tcpIP[p] \in {Nil, from[c]}
  /\ UpdatePlayerTCP(p, c)
  /\ Evict(p, c)
  /\ handler' = [handler EXCEPT ![c] = "write"]
  /\ UNCHANGED <<activeConns, closed, wire, datagrams, adapter>>

(* What the handler writes for an accepted frame: the echo of a hello, or  *)
(* the frame to one or all of the others.  It takes as long as the         *)
(* receivers let it; a routing write that fails is only counted.           *)
WritesDone(c) ==
  /\ handler[c] = "write"
  /\ handler' = [handler EXCEPT ![c] = "read"]
  /\ UNCHANGED <<session, activeConns, closed, closing, wire, datagrams, adapter>>

(* An echo that cannot be written ends the connection. *)
EchoFails(c) ==
  /\ handler[c] = "write"
  /\ Return(c)

(* VerdictSpoofed ends the connection. *)
RejectConn(c) ==
  LET p == owner[c] IN
  /\ handler[c] = "update"
  /\ p \in registered
  /\ tcpIP[p] \notin {Nil, from[c]}
  /\ Return(c)

(* The sender is unknown, or (any packet of a registered player may meet   *)
(* it) exceeds its rate limit.                                             *)
DropFrame(c) ==
  LET p == owner[c] IN
  /\ handler[c] = "update"
  /\ p \in registered => tcpIP[p] \in {Nil, from[c]}
  /\ handler' = [handler EXCEPT ![c] = "read"]
  /\ UNCHANGED <<session, activeConns, closed, closing, wire, datagrams, adapter>>

(* The goroutine of `go oldConn.Close()' and of `go tcpConn.Close()'. *)
CloseEvicted(c) ==
  /\ c \in closing
  /\ closing' = closing \ {c}
  /\ Close(c)
  /\ UNCHANGED <<session, handler, activeConns, from, datagrams, adapter>>

-----------------------------------------------------------------------------
(* The adapter *)

(* A connection that neither end refers to: its name can be used again. *)
Free(c) ==
  /\ handler[c] = "none"
  /\ c \notin closing
  /\ \A p \in Players : c \notin {tcpConn[p], current[p]}

(* A new connection and the hello that is sent on it at once. *)
Dial(p, c) ==
  /\ owner[c] = p
  /\ Free(c)
  /\ handler' = [handler EXCEPT ![c] = "backlog"]
  /\ closed' = closed \ {c}
  /\ unread' = [unread EXCEPT ![c] = 1]
  /\ from' = [from EXCEPT ![c] = host[p]]
  /\ current' = [current EXCEPT ![p] = c]
  /\ lost' = lost \ {p}
  /\ UNCHANGED <<session, activeConns, closing, datagrams, host, joined, restarts>>

(* The adapter is told to use TCP, or none of the echoes that the UDP      *)
(* probe waits for has come, however many of its hellos have arrived.      *)
SwitchToTCP(p, c) ==
  /\ current[p] = Nil
  /\ Dial(p, c)

SendUDP(p) ==
  /\ current[p] = Nil
  /\ datagrams' = datagrams \cup {[from |-> p, host |-> host[p]]}
  /\ UNCHANGED <<session, server, wire, adapter>>

SendTCP(p) ==
  LET c == current[p] IN
  /\ p \notin lost
  /\ c \notin {Nil} \cup closed
  /\ unread[c] < MaxUnread
  /\ unread' = [unread EXCEPT ![c] = @ + 1]
  /\ UNCHANGED <<session, server, from, datagrams, adapter>>

(* A hard read error: reconnectTCP begins with closing the connection. *)
LoseConn(p) ==
  /\ current[p] # Nil
  /\ p \notin lost
  /\ lost' = lost \cup {p}
  /\ UNCHANGED <<session, server, wire, datagrams, host, current, joined, restarts>>

SeesClose(p) == current[p] \in closed /\ LoseConn(p)

LinkBreaks(p) == current[p] \notin closed /\ LoseConn(p)

reconnectTCP(p, c) ==
  /\ p \in lost
  /\ Dial(p, c)

(* The process ends, and the player starts another, perhaps elsewhere. *)
NewProcess(p, h) ==
  /\ restarts < MaxRestarts
  /\ restarts' = restarts + 1
  /\ lost' = lost \ {p}
  /\ current' = [current EXCEPT ![p] = Nil]
  /\ host' = [host EXCEPT ![p] = h]
  /\ joined' = joined \ {p}
  /\ UNCHANGED <<server, wire, datagrams>>

(* It is killed, or its leave request fails. *)
Restart(p, h) == NewProcess(p, h) /\ UNCHANGED session

leaveRelay(p, h) ==
  /\ p \in joined \cap registered
  /\ RemovePlayer(p)
  /\ NewProcess(p, h)

-----------------------------------------------------------------------------
RelayNext ==
  \/ \E p \in Players : ReapPlayer(p)
  \/ \E d \in datagrams : DropDatagram(d) \/ HandleDatagram(d)
  \/ \E c \in Conns : \/ Accept(c) \/ ReadFrame(c) \/ ReadFails(c) \/ ReadTimeout(c)
                      \/ AcceptFrame(c) \/ RejectConn(c) \/ DropFrame(c)
                      \/ WritesDone(c) \/ EchoFails(c) \/ CloseEvicted(c)

AdapterNext ==
  \E p \in Players :
    \/ Register(p) \/ SendUDP(p) \/ SendTCP(p)
    \/ SeesClose(p) \/ LinkBreaks(p)
    \/ \E c \in Conns : SwitchToTCP(p, c) \/ reconnectTCP(p, c)
    \/ \E h \in Hosts : Restart(p, h) \/ leaveRelay(p, h)

Next == RelayNext \/ AdapterNext

Spec == Init /\ [][Next]_vars

(* What the accept loop and then the goroutine of a connection do with it, *)
(* between waits for its adapter and for those it writes to.               *)
Serve(c) ==
  \/ Accept(c) \/ ReadFrame(c) \/ ReadFails(c)
  \/ AcceptFrame(c) \/ RejectConn(c) \/ DropFrame(c)

(* Goroutines run, keepalives are sent, and an adapter whose connection    *)
(* has been closed notices it and dials again.                             *)
Fairness ==
  /\ \A c \in Conns : WF_vars(Serve(c)) /\ WF_vars(CloseEvicted(c))
  /\ \A p \in Players :
       /\ WF_vars(SendTCP(p))
       /\ WF_vars(SeesClose(p) \/ \E c \in Conns : reconnectTCP(p, c))

(* The proviso of the liveness properties: no receiver stalls a write of a *)
(* handler for ever.  The code ensures it with write deadlines, except     *)
(* where an echo clears the deadline of a write in progress, and then it   *)
(* may be wrong (StalledReceiverLetsGo of PacketRouting).                  *)
WritesReturn == \A c \in Conns : []<>(handler[c] # "write")

FairSpec == Spec /\ Fairness /\ WritesReturn

-----------------------------------------------------------------------------
(* Properties *)

(* Every variable has its type. *)
TypeOK ==
  /\ registered \subseteq Players
  /\ addr \in [Players -> Hosts \cup {Nil}]
  /\ tcpConn \in [Players -> Conns \cup {Nil}]
  /\ tcpIP \in [Players -> Hosts \cup {Nil}]
  /\ handler \in [Conns -> {"none", "backlog", "read", "update", "write"}]
  /\ activeConns \in Nat
  /\ closed \subseteq Conns /\ closing \subseteq Conns
  /\ unread \in [Conns -> 0..MaxUnread]
  /\ from \in [Conns -> Hosts \cup {Nil}]
  /\ datagrams \subseteq [from : Players, host : Hosts]
  /\ host \in [Players -> Hosts] /\ current \in [Players -> Conns \cup {Nil}]
  /\ restarts \in 0..MaxRestarts
  /\ lost \subseteq Players /\ joined \subseteq Players

(* The TCP pin of a player is the IP of the connection that its packets    *)
(* are sent on, and a player without such a connection has no pin: the     *)
(* resets, changes of transport and late frames that set or clear the two  *)
(* (UpdatePlayerTCP, UpdatePlayerAddr, ResetPlayerTransport) never leave   *)
(* one without the other.                                                  *)
PinMatchesConn ==
  \A p \in Players :
    tcpIP[p] = IF tcpConn[p] = Nil THEN Nil ELSE from[tcpConn[p]]

Serving == {c \in Conns : handler[c] \in {"read", "update", "write"}}

(* activeConns counts the handler goroutines, however they end, and never  *)
(* exceeds maxTCPConns (TCPHandler.Run, handleConn).                       *)
ConnsCounted == activeConns = Cardinality(Serving) /\ activeConns <= MaxTCPConns

(* The adapter has hung up, or the relay has given the connection up: once *)
(* so, it remains so until the handler has returned.                       *)
Ending(c) == HungUp(c) \/ c \in closing \cup closed

(* The goroutine of a connection ends once the adapter has hung up or the  *)
(* relay has evicted it: provided that writes return (WritesReturn), such  *)
(* a connection is not served for ever (handleConn).                       *)
HandlersEnd == \A c \in Conns : []<>(Ending(c) => handler[c] = "none")

(* An adapter that stays in TCP mode, registered and not pinned elsewhere. *)
Settled(p) ==
  /\ p \in registered \cap joined
  /\ current[p] # Nil
  /\ tcpIP[p] \in {Nil, host[p]}

(* A step in which no link breaks, no read or echo times out and no frame  *)
(* of a registered player exceeds the rate limit.                          *)
Quiet ==
  /\ \A p \in lost' \ lost : current[p] \in closed
  /\ \A c \in Conns :
       /\ handler[c] \in {"read", "write"} /\ handler'[c] = "none" =>
            c \in closed \/ HungUp(c)
       /\ handler[c] = "update" /\ handler'[c] = "read" => owner[c] \notin registered

(* With a stable link, and writes that return, the relay always comes to   *)
(* use the connection that the adapter uses: late frames of older          *)
(* connections may take its place and have it evicted (UpdatePlayerTCP),   *)
(* but then reconnectTCP and the hello it sends win it back.               *)
UsesCurrentConn ==
  \A p \in Players :
    (<>[]Settled(p) /\ <>[][Quiet]_vars) => []<>(tcpConn[p] = current[p])
=============================================================================
