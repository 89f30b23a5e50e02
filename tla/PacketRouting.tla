--------------------------- MODULE PacketRouting ---------------------------
(***************************************************************************)
(* The goroutines of the relay that route packets, and the locks that they *)
(* share: the UDP loop (router.go), the handler of each TCP connection     *)
(* (tcphandler.go), and the HTTP API and the reaper, which hold the lock   *)
(* of the session manager while they wait for that of a session            *)
(* (session.go).  A broadcast writes with the session's lock held, and a   *)
(* write to a connection whose receiver has stopped reading blocks.        *)
(*                                                                         *)
(* As in sync.RWMutex, a Lock that waits keeps later RLocks out, and an    *)
(* Unlock lets those in that wait by then.  What is done under a lock      *)
(* without waiting is one step.  Transports are known and do not change:   *)
(* RelayTransport has them.                                                *)
(***************************************************************************)
EXTENDS Integers, FiniteSets

CONSTANTS
  Players,
  Tcp,        \* those that use a TCP connection, which is named after them
  Sessions,
  Router,     \* the goroutine of Router.Run
  Reaper,     \* that of RunReaper
  Api,        \* that of a request to the HTTP API
  Manager,    \* the session manager, as the owner of a lock
  Nil         \* no session, no player

ASSUME TcpArePlayers == Tcp \subseteq Players /\ IsFiniteSet(Players)

ASSUME NamesDiffer ==
  /\ Router \notin Players \cup {Reaper, Api}
  /\ Reaper \notin Players \cup {Api} /\ Api \notin Players
  /\ Nil \notin Players \cup Sessions /\ Manager \notin Sessions \cup {Nil}

Threads == Tcp \cup {Router}
Admins == {Reaper, Api}

VARIABLES
  session,    \* the session of a player: the index and Session.players
  at,         \* where a goroutine is
  pkt,        \* the packet that it routes: its sender, and the session found
  todo,       \* the players that a broadcast is still to write to
  target,     \* the player that is about to be written to
  admin,      \* the state of Reaper and Api
  admitted,   \* those whose RLock an Unlock has let in
  deadline,   \* connections with a write deadline
  full,       \* connections whose send buffer is full: the receiver stalls
  open        \* connections that are open

conns == <<deadline, full, open>>
vars == <<session, at, pkt, todo, target, admin, admitted, conns>>

(* idle: reads the next packet; find: waits for RLock of the manager;       *)
(* found, lock: is about to Lock the session, waits for it; one, all: is    *)
(* about to RLock the session; write, echo: writes; each: holds RLock,      *)
(* between two writes; push: holds RLock and writes; clear: has written the *)
(* echo; gone: the connection's handler has returned.                       *)
Places == {"idle", "find", "found", "lock", "one", "all", "write", "each", "push",
           "echo", "clear", "gone"}

Packet == [from : Players \cup {Nil}, ses : Sessions \cup {Nil}]

\* tick: waits for RLock of the manager; scan: has it, phase 1 of the reaper;
\* want: waits for Lock of the manager; hold: has it, waits for Lock of session
\* ses, and removes p from it or adds p to session next.
Admin == [at : {"idle", "tick", "scan", "want", "hold"}, p : Players \cup {Nil},
          ses : Sessions \cup {Nil}, next : Sessions \cup {Nil}, left : SUBSET Sessions]

\* Every variable has its type.
TypeOK ==
  /\ session \in [Players -> Sessions \cup {Nil}]
  /\ at \in [Threads -> Places] /\ pkt \in [Threads -> Packet]
  /\ todo \in [Threads -> SUBSET Tcp] /\ target \in [Threads -> Players \cup {Nil}]
  /\ admin \in [Admins -> Admin] /\ admitted \subseteq Threads \cup {Reaper}
  /\ deadline \subseteq Tcp /\ full \subseteq Tcp /\ open \subseteq Tcp

NoPacket == [from |-> Nil, ses |-> Nil]

Resting == [at |-> "idle", p |-> Nil, ses |-> Nil, next |-> Nil, left |-> {}]

Init ==
  /\ session \in [Players -> Sessions]
  /\ at = [t \in Threads |-> "idle"]
  /\ pkt = [t \in Threads |-> NoPacket]
  /\ todo = [t \in Threads |-> {}] /\ target = [t \in Threads |-> Nil]
  /\ admin = [a \in Admins |-> Resting] /\ admitted = {}
  /\ deadline = {} /\ full = {} /\ open = Tcp

-----------------------------------------------------------------------------
(* The locks. *)

Members(s) == {p \in Players : session[p] = s}

\* The session that phase 1 of the reaper comes to: it takes them in the order of
\* a map, which may be any, and this one.
Current(left) == CHOOSE s \in left : TRUE

\* Mutant: a broadcast looks each target up in the index.
WaitReadIndex(l) ==
  {t \in Threads : \/ at[t] = "find" /\ l = Manager
                   \/ at[t] = "each" /\ todo[t] # {} /\ l = Manager
                   \/ at[t] \in {"one", "all"} /\ l = pkt[t].ses}
  \cup {a \in Admins : \/ admin[a].at = "tick" /\ l = Manager
                       \/ /\ admin[a].at = "scan" /\ admin[a].left # {}
                          /\ l = Current(admin[a].left)}

\* Those who wait for RLock of l, those who wait for Lock, and those who hold
\* the one or the other over a wait.
WaitRead(l) ==
  {t \in Threads : \/ at[t] = "find" /\ l = Manager
                   \/ at[t] \in {"one", "all"} /\ l = pkt[t].ses}
  \cup {a \in Admins : \/ admin[a].at = "tick" /\ l = Manager
                       \/ /\ admin[a].at = "scan" /\ admin[a].left # {}
                          /\ l = Current(admin[a].left)}
WaitWrite(l) ==
  {t \in Threads : at[t] = "lock" /\ l = pkt[t].ses}
  \cup {a \in Admins : \/ admin[a].at = "want" /\ l = Manager
                       \/ admin[a].at = "hold" /\ l = admin[a].ses}

\* Mutant: a broadcast gives the lock back before it writes.
HoldersCopy(l) == {a \in Admins : admin[a].at \in {"scan", "hold"} /\ l = Manager}

Holders(l) ==
  {t \in Threads : at[t] \in {"each", "push"} /\ l = pkt[t].ses}
  \cup {a \in Admins : admin[a].at \in {"scan", "hold"} /\ l = Manager}

Locked(l) == \E a \in Admins : admin[a].at = "hold" /\ l = Manager

CanRLock(x, l) == x \in admitted \/ (WaitWrite(l) = {} /\ ~Locked(l))

RLock(x, l) == CanRLock(x, l) /\ admitted' = admitted \ {x}

CanLock(l) == Holders(l) = {} /\ WaitRead(l) \cap admitted = {}

-----------------------------------------------------------------------------
(* Packets. *)

\* Done with a packet.
Done(t) ==
  /\ at' = [at EXCEPT ![t] = "idle"]
  /\ pkt' = [pkt EXCEPT ![t] = NoPacket]
  /\ todo' = [todo EXCEPT ![t] = {}] /\ target' = [target EXCEPT ![t] = Nil]

Goes(t, place) == at' = [at EXCEPT ![t] = place]

\* A packet with a valid header is read.
Receive(t, p) ==
  /\ at[t] = "idle" /\ Goes(t, "find")
  /\ IF t \in Tcp THEN t = p /\ p \in open ELSE p \notin Tcp
  /\ pkt' = [pkt EXCEPT ![t] = [NoPacket EXCEPT !.from = p]]
  /\ UNCHANGED <<session, todo, target, admin, admitted, conns>>

FindSessionByPlayer(t) ==
  LET s == session[pkt[t].from] IN
  /\ at[t] = "find" /\ RLock(t, Manager)
  /\ \/ /\ s # Nil /\ Goes(t, "found")
        /\ pkt' = [pkt EXCEPT ![t].ses = s] /\ UNCHANGED <<todo, target>>
     \/ s = Nil /\ Done(t)
  /\ UNCHANGED <<session, admin, conns>>

LockSession(t) ==
  /\ at[t] = "found" /\ Goes(t, "lock")
  /\ UNCHANGED <<session, pkt, todo, target, admin, admitted, conns>>

\* UpdatePlayerAddr, UpdatePlayerTCP, the switch on the verdict and the choice by
\* destination: all, the sender (a hello) or another.  Any packet may exceed the
\* rate limit.  A hello by UDP is echoed at once.
UpdatePlayer(t) ==
  LET p == pkt[t].from IN
  /\ at[t] = "lock" /\ CanLock(pkt[t].ses)
  /\ admitted' = admitted \cup WaitRead(pkt[t].ses)
  /\ \/ Done(t) /\ UNCHANGED deadline
     \/ /\ session[p] = pkt[t].ses /\ Goes(t, "all")
        /\ UNCHANGED <<pkt, todo, target, deadline>>
     \/ /\ session[p] = pkt[t].ses /\ p \in Tcp /\ Goes(t, "echo")
        /\ target' = [target EXCEPT ![t] = p]
        /\ deadline' = deadline \cup {p} /\ UNCHANGED <<pkt, todo>>
     \/ /\ session[p] = pkt[t].ses /\ Goes(t, "one")
        /\ \E q \in Players \ {p} : target' = [target EXCEPT ![t] = q]
        /\ UNCHANGED <<pkt, todo, deadline>>
  /\ UNCHANGED <<session, admin, full, open>>

\* unicast: looks the target up, and sets the deadline for a write by TCP.
GetPlayerTarget(t) ==
  LET q == target[t] IN
  /\ at[t] = "one" /\ RLock(t, pkt[t].ses)
  /\ \/ /\ session[q] = pkt[t].ses /\ q \in Tcp /\ Goes(t, "write")
        /\ deadline' = deadline \cup {q} /\ UNCHANGED <<pkt, todo, target>>
     \/ /\ session[q] # pkt[t].ses \/ q \notin Tcp
        /\ Done(t) /\ UNCHANGED deadline
  /\ UNCHANGED <<session, admin, full, open>>

\* broadcast: RLock, and what can be sent by UDP is sent.
ForEachOtherPlayerTarget(t) ==
  LET s == pkt[t].ses IN
  /\ at[t] = "all" /\ RLock(t, s) /\ Goes(t, "each")
  /\ todo' = [todo EXCEPT ![t] = (Members(s) \cap Tcp) \ {pkt[t].from}]
  /\ UNCHANGED <<session, pkt, target, admin, conns>>

\* Mutant: looks the target up again, with a second RLock.
sendToTargetRLock(t, q) ==
  /\ at[t] = "each" /\ q \in todo[t] /\ Goes(t, "push") /\ WaitWrite(pkt[t].ses) = {}
  /\ target' = [target EXCEPT ![t] = q]
  /\ deadline' = deadline \cup {q}
  /\ UNCHANGED <<session, pkt, todo, admin, admitted, full, open>>

sendToTarget(t, q) ==
  /\ at[t] = "each" /\ q \in todo[t] /\ Goes(t, "push")
  /\ target' = [target EXCEPT ![t] = q]
  /\ deadline' = deadline \cup {q}
  /\ UNCHANGED <<session, pkt, todo, admin, admitted, full, open>>

\* RUnlock
EndBroadcast(t) ==
  /\ at[t] = "each" /\ todo[t] = {} /\ Done(t)
  /\ UNCHANGED <<session, admin, admitted, conns>>

\* A write to target[t] has come to an end; an echo that fails ends the handler.
Written(t, ok) ==
  \/ at[t] = "write" /\ Done(t) /\ UNCHANGED open
  \/ /\ at[t] = "push" /\ Goes(t, "each")
     /\ todo' = [todo EXCEPT ![t] = @ \ {target[t]}]
     /\ target' = [target EXCEPT ![t] = Nil] /\ UNCHANGED <<pkt, open>>
  \/ /\ at[t] = "echo" /\ ok /\ Goes(t, "clear") /\ UNCHANGED <<pkt, todo, target, open>>
  \/ /\ at[t] = "echo" /\ ~ok /\ at' = [at EXCEPT ![t] = "gone"]
     /\ pkt' = [pkt EXCEPT ![t] = NoPacket] /\ target' = [target EXCEPT ![t] = Nil]
     /\ open' = open \ {t} /\ UNCHANGED todo

Writing(t) == at[t] \in {"write", "push", "echo"}

\* There is room, or the connection is closed.
Write(t) ==
  /\ Writing(t) /\ target[t] \notin full \cap open
  /\ Written(t, target[t] \in open)
  /\ UNCHANGED <<session, admin, admitted, deadline, full>>

\* tcpWriteTimeout
WriteTimesOut(t) ==
  /\ Writing(t) /\ target[t] \in full \cap open \cap deadline
  /\ Written(t, FALSE)
  /\ UNCHANGED <<session, admin, admitted, deadline, full>>

\* The handler has written the echo and takes the deadline away.
ClearDeadline(t) ==
  /\ at[t] = "clear" /\ Done(t)
  /\ deadline' = deadline \ {t}
  /\ UNCHANGED <<session, admin, admitted, full, open>>

\* tcpReadTimeout, or the connection is lost or has been closed.
ReadFails(t) ==
  /\ t \in Tcp /\ at[t] = "idle" /\ Goes(t, "gone")
  /\ open' = open \ {t}
  /\ UNCHANGED <<session, pkt, todo, target, admin, admitted, deadline, full>>

\* The player's adapter dials again, once nobody writes to the old connection.
Reconnect(c) ==
  /\ c \in Tcp /\ at[c] = "gone" /\ \A t \in Threads : Writing(t) => target[t] # c
  /\ Goes(c, "idle") /\ open' = open \cup {c}
  /\ full' = full \ {c} /\ deadline' = deadline \ {c}
  /\ UNCHANGED <<session, pkt, todo, target, admin, admitted>>

\* The receiver stops reading, and reads again.
Stall(c) ==
  /\ c \in open \ full /\ full' = full \cup {c}
  /\ UNCHANGED <<session, at, pkt, todo, target, admin, admitted, deadline, open>>

Drain(c) ==
  /\ c \in full /\ full' = full \ {c}
  /\ UNCHANGED <<session, at, pkt, todo, target, admin, admitted, deadline, open>>

-----------------------------------------------------------------------------
(* The API and the reaper. *)

Others == UNCHANGED <<at, pkt, todo, target, deadline, full>>

Becomes(a, r) == admin' = [admin EXCEPT ![a] = r]

\* A request to join session s, or (Nil) to leave.
Request(p, s) ==
  /\ admin[Api].at = "idle" /\ session[p] # s
  /\ Becomes(Api, [Resting EXCEPT !.at = "want", !.p = p, !.ses = s, !.next = s])
  /\ UNCHANGED <<session, admitted, open>> /\ Others

Tick ==
  /\ admin[Reaper].at = "idle"
  /\ Becomes(Reaper, [Resting EXCEPT !.at = "tick"])
  /\ UNCHANGED <<session, admitted, open>> /\ Others

\* Phase 1: RLock of the manager, and of each session in turn.
ReapStaleSessions ==
  /\ admin[Reaper].at = "tick" /\ RLock(Reaper, Manager)
  /\ Becomes(Reaper, [Resting EXCEPT !.at = "scan", !.left = Sessions])
  /\ UNCHANGED <<session, open>> /\ Others

StalePlayers(s) ==
  /\ admin[Reaper].at = "scan" /\ admin[Reaper].left # {}
  /\ s = Current(admin[Reaper].left) /\ RLock(Reaper, s)
  /\ \E p \in Members(s) \cup {Nil} :
       Becomes(Reaper, [admin[Reaper] EXCEPT !.left = @ \ {s},
                                             !.p = IF p = Nil THEN @ ELSE p,
                                             !.ses = IF p = Nil THEN @ ELSE s])
  /\ UNCHANGED <<session, open>> /\ Others

\* The end of phase 1: a stale player has been found, or none.
Candidates ==
  /\ admin[Reaper].at = "scan" /\ admin[Reaper].left = {}
  /\ Becomes(Reaper, IF admin[Reaper].p = Nil THEN Resting
                     ELSE [admin[Reaper] EXCEPT !.at = "want"])
  /\ UNCHANGED <<session, admitted, open>> /\ Others

\* A request finds out by the index which session the player is in, if any.
LockManager(a) ==
  LET s == session[admin[a].p] IN
  /\ admin[a].at = "want" /\ CanLock(Manager)
  /\ \/ a = Reaper /\ Becomes(a, [admin[a] EXCEPT !.at = "hold"])
     \/ /\ a = Api
        /\ Becomes(a, [admin[a] EXCEPT !.at = "hold", !.ses = IF s = Nil THEN @ ELSE s])
  /\ UNCHANGED <<session, admitted, open>> /\ Others

\* RemovePlayer; RemovePlayerIfStale, unless the player has become active, and
\* then the connection is closed.
RemovePlayer(a) ==
  LET r == admin[a] IN
  /\ r.at = "hold" /\ r.ses # Nil /\ session[r.p] = r.ses /\ CanLock(r.ses)
  /\ \/ /\ session' = [session EXCEPT ![r.p] = Nil]
        /\ open' = IF a = Reaper THEN open \ {r.p} ELSE open
     \/ a = Reaper /\ UNCHANGED <<session, open>>
  /\ \/ /\ r.next = Nil /\ Becomes(a, Resting)
        /\ admitted' = admitted \cup WaitRead(r.ses) \cup WaitRead(Manager)
     \/ /\ r.next # Nil /\ Becomes(a, [r EXCEPT !.ses = r.next])
        /\ admitted' = admitted \cup WaitRead(r.ses)
  /\ Others

\* The player is not in the session: a request adds it, if it is one to join, and
\* the reaper comes too late.
AddPlayer(a) ==
  LET r == admin[a] IN
  /\ r.at = "hold" /\ (r.ses = Nil \/ session[r.p] # r.ses) /\ CanLock(r.ses)
  /\ session' = IF a = Api THEN [session EXCEPT ![r.p] = r.next] ELSE session
  /\ Becomes(a, Resting)
  /\ admitted' = admitted \cup WaitRead(r.ses) \cup WaitRead(Manager)
  /\ UNCHANGED open /\ Others

-----------------------------------------------------------------------------
Step(t) ==
  \/ FindSessionByPlayer(t) \/ LockSession(t) \/ UpdatePlayer(t)
  \/ GetPlayerTarget(t) \/ ForEachOtherPlayerTarget(t) \/ EndBroadcast(t)
  \/ (\E q \in Tcp : sendToTarget(t, q)) \/ Write(t) \/ WriteTimesOut(t)
  \/ ClearDeadline(t)

Administer(a) ==
  \/ a = Reaper /\ (ReapStaleSessions \/ Candidates \/ \E s \in Sessions : StalePlayers(s))
  \/ LockManager(a) \/ RemovePlayer(a) \/ AddPlayer(a)

Next ==
  \/ \E t \in Threads :
       \/ \E p \in Players : Receive(t, p)
       \/ Step(t)
  \/ \E c \in Tcp : ReadFails(c) \/ Reconnect(c) \/ Stall(c) \/ Drain(c)
  \/ \E p \in Players, s \in Sessions \cup {Nil} : Request(p, s)
  \/ Tick \/ \E a \in Admins : Administer(a)

Spec == Init /\ [][Next]_vars

\* Goroutines run, deadlines pass, and whoever waits for a lock that becomes free
\* again and again gets it (a sync.Mutex does not starve).
Fairness ==
  /\ \A t \in Threads : SF_vars(Step(t))
  /\ \A c \in Tcp : WF_vars(ReadFails(c))
  /\ \A a \in Admins : SF_vars(Administer(a))

FairSpec == Spec /\ Fairness

-----------------------------------------------------------------------------
(* Properties. *)

\* While a broadcast goes on, its session's players stay: it writes to nobody
\* who has left, or has moved to another session.
BroadcastStaysInSession ==
  \A t \in Threads : at[t] \in {"each", "push"} =>
    todo[t] \cup ({target[t]} \ {Nil}) \subseteq Members(pkt[t].ses)

\* The manager's lock: who holds it for writing is alone, and meets no reader that
\* an earlier Unlock has let in.
LocksExclude ==
  /\ \A a, b \in Admins :
       admin[a].at = "hold" /\ admin[b].at \in {"scan", "hold"} => a = b
  /\ Locked(Manager) => WaitRead(Manager) \cap admitted = {}

\* Those who are at work, and those of them who wait for a lock they cannot have.
Busy == {t \in Threads : at[t] \notin {"idle", "gone"}}
        \cup {a \in Admins : admin[a].at # "idle"}
Blocked(x) ==
  \E l \in Sessions \cup {Manager, Nil} :
    \/ x \in WaitRead(l) /\ ~CanRLock(x, l)
    \/ x \in WaitWrite(l) /\ ~CanLock(l)

\* Those at work never all wait for each other's locks: the manager's lock is taken
\* before a session's (as the reaper does, which keeps it while it calls
\* RemovePlayerIfStale), and who broadcasts under a session's lock takes no other.
NoLockCycle == Busy # {} => \E x \in Busy : ~Blocked(x)

\* The relay's tables as RelayDirectory has them: all sessions are open, and
\* their players come and go.
Directory == INSTANCE RelayDirectory WITH
  SessionIDs <- Sessions, Rosters <- SUBSET Players, open <- Sessions,
  roster <- [s \in Sessions |-> Members(s)]

\* A player is never moved from one session into another without having left the
\* first: what changes the membership is a step of the directory.
KeepsDirectory == [][Directory!Next]_session

\* If no receiver stalls for ever, every packet is done with and every request
\* returns: the goroutines do not wait for each other's locks for ever.
ReceiversRead == \A c \in Tcp : []<>(c \notin full \cap open)
NobodyStuck ==
  ReceiversRead =>
    /\ \A t \in Threads : []<>(at[t] \in {"idle", "gone"})
    /\ \A a \in Admins : []<>(admin[a].at = "idle")

\* What the comment on tcpWriteTimeout says: a stalled receiver does not hold up
\* a goroutine that routes for ever.
StalledReceiverLetsGo ==
  \A t \in Threads : []<>(at[t] \notin {"write", "push"})
=============================================================================
