------------------------ MODULE PacketRoutingProofs ------------------------
(***************************************************************************)
(* For every number of players, TCP connections and sessions: a broadcast  *)
(* writes to nobody outside its session, the locks exclude each other and  *)
(* never make everyone wait for everyone, and what the requests and the    *)
(* reaper do to the sessions is what a directory does.                     *)
(*                                                                         *)
(* The session's lock protects the players that a broadcast has still to   *)
(* write to against those who remove a player.  It does not protect them   *)
(* against a request that moves a player into another session without the  *)
(* lock of the first: for this the invariant says that a request knows the *)
(* player's session while it holds the manager's lock, since the reaper    *)
(* does not hold it as well.                                               *)
(*                                                                         *)
(* That a writer of the manager's tables meets no reader needs what        *)
(* becomes of the readers that an Unlock lets in: each of them still waits *)
(* until it has read (LockInv).                                            *)
(***************************************************************************)
EXTENDS PacketRouting, TLAPS

\* A goroutine that routes has a sender, a session and, between two writes, no
\* target.
PacketsKnown ==
  \A t \in Threads :
    /\ at[t] \in {"found", "lock", "all", "each", "push"} => pkt[t].ses # Nil
    /\ at[t] = "find" => pkt[t].from # Nil
    /\ at[t] \notin {"one", "write", "push", "echo", "clear"} => target[t] = Nil

\* A request or the reaper that locks the manager has a player, a request that
\* has locked it is alone and knows the player's session, and the reaper does not
\* add players.
AdminsKnow ==
  /\ \A a \in Admins : admin[a].at \in {"want", "hold"} => admin[a].p # Nil
  /\ admin[Api].at \notin {"tick", "scan"} /\ admin[Reaper].next = Nil
  /\ admin[Api].at = "hold" => /\ session[admin[Api].p] \in {admin[Api].ses, Nil}
                               /\ admin[Reaper].at # "hold"

RoutingInv == TypeOK /\ PacketsKnown /\ AdminsKnow /\ BroadcastStaysInSession

-----------------------------------------------------------------------------
(* Steps of the goroutines that route. *)

\* Those who are let in are goroutines that route, or the reaper.
LEMMA WaitersType ==
  ASSUME RoutingInv, NEW l
  PROVE  WaitRead(l) \subseteq Threads \cup {Reaper}
BY NamesDiffer DEF RoutingInv, AdminsKnow, WaitRead, Admins

\* What a step of a goroutine leaves alone.
Untouched == UNCHANGED <<session, admin>>

\* A goroutine that is done with its packet.
LEMMA DoneStep ==
  ASSUME RoutingInv, NEW t \in Threads, Done(t), Untouched,
         admitted' \subseteq Threads \cup {Reaper},
         deadline' \subseteq Tcp, full' \subseteq Tcp, open' \subseteq Tcp
  PROVE  RoutingInv'
<1>1. TypeOK'
  BY DEF RoutingInv, TypeOK, Done, Untouched, Places, Packet, NoPacket
<1>2. PacketsKnown'
  BY DEF RoutingInv, TypeOK, PacketsKnown, Done, NoPacket
<1>3. AdminsKnow'
  BY DEF RoutingInv, AdminsKnow, Untouched
<1>4. BroadcastStaysInSession'
  BY DEF RoutingInv, TypeOK, BroadcastStaysInSession, Done, Untouched, Members
<1> QED
  BY <1>1, <1>2, <1>3, <1>4 DEF RoutingInv

\* A packet is read.
LEMMA ReceiveStep ==
  ASSUME RoutingInv, NEW t \in Threads, NEW p \in Players, Receive(t, p)
  PROVE  RoutingInv'
<1>1. TypeOK'
  BY DEF RoutingInv, TypeOK, Receive, Goes, Places, Packet, NoPacket, conns
<1>2. PacketsKnown'
  BY NamesDiffer DEF RoutingInv, TypeOK, PacketsKnown, Receive, Goes, NoPacket
<1>3. AdminsKnow'
  BY DEF RoutingInv, AdminsKnow, Receive
<1>4. BroadcastStaysInSession'
  BY DEF RoutingInv, TypeOK, BroadcastStaysInSession, Receive, Goes, Members
<1> QED
  BY <1>1, <1>2, <1>3, <1>4 DEF RoutingInv

\* The sender's session is looked up.
LEMMA FindStep ==
  ASSUME RoutingInv, NEW t \in Threads, FindSessionByPlayer(t)
  PROVE  RoutingInv'
<1> DEFINE s == session[pkt[t].from]
<1>1. Untouched /\ UNCHANGED conns /\ admitted' \subseteq Threads \cup {Reaper}
  BY DEF FindSessionByPlayer, Untouched, RLock, RoutingInv, TypeOK
<1>2. CASE Done(t)
  BY <1>1, <1>2, DoneStep DEF conns, RoutingInv, TypeOK
<1>3. CASE s # Nil /\ Goes(t, "found") /\ pkt' = [pkt EXCEPT ![t].ses = s]
           /\ UNCHANGED <<todo, target>>
  <2>1. s \in Sessions
    BY <1>3 DEF FindSessionByPlayer, RoutingInv, PacketsKnown, TypeOK, Packet
  <2>2. TypeOK'
    BY <1>1, <1>3, <2>1
       DEF RoutingInv, TypeOK, Goes, Places, Packet, conns, Untouched
  <2>3. PacketsKnown'
    BY <1>3 DEF FindSessionByPlayer, RoutingInv, TypeOK, PacketsKnown, Goes, Packet
  <2>4. AdminsKnow'
    BY <1>1 DEF RoutingInv, AdminsKnow, Untouched
  <2>5. BroadcastStaysInSession'
    BY <1>1, <1>3 DEF RoutingInv, TypeOK, BroadcastStaysInSession, Goes, Untouched, Members
  <2> QED
    BY <2>2, <2>3, <2>4, <2>5 DEF RoutingInv
<1> QED
  BY <1>2, <1>3 DEF FindSessionByPlayer

\* A goroutine goes on without a change to its packet or to what it writes.
LEMMA GoesOnStep ==
  ASSUME RoutingInv, NEW t \in Threads, NEW place \in Places,
         Goes(t, place), UNCHANGED <<pkt, todo>>, Untouched,
         admitted' \subseteq Threads \cup {Reaper},
         deadline' \subseteq Tcp, full' \subseteq Tcp, open' \subseteq Tcp,
         at[t] \in {"found", "lock", "all"} \/ place \notin {"lock", "all"},
         place \notin {"found", "find", "each", "push"},
         \/ UNCHANGED target /\ (at[t] \notin {"one", "write", "push", "echo", "clear"}
                                 \/ place \in {"one", "write", "push", "echo", "clear"})
         \/ /\ \E q \in Players : target' = [target EXCEPT ![t] = q]
            /\ place \in {"one", "write", "push", "echo", "clear"}
  PROVE  RoutingInv'
<1>1. TypeOK'
  BY DEF RoutingInv, TypeOK, Goes, Untouched
<1>2. PacketsKnown'
  BY DEF RoutingInv, TypeOK, PacketsKnown, Goes
<1>3. AdminsKnow'
  BY DEF RoutingInv, AdminsKnow, Untouched
<1>4. BroadcastStaysInSession'
  BY DEF RoutingInv, TypeOK, BroadcastStaysInSession, Goes, Untouched, Members
<1> QED
  BY <1>1, <1>2, <1>3, <1>4 DEF RoutingInv

\* LockSession, UpdatePlayer and GetPlayerTarget choose where a packet goes.
LEMMA ChoiceStep ==
  ASSUME RoutingInv, NEW t \in Threads,
         LockSession(t) \/ UpdatePlayer(t) \/ GetPlayerTarget(t)
  PROVE  RoutingInv'
<1>1. Untouched
  BY DEF LockSession, UpdatePlayer, GetPlayerTarget, Untouched
<1>2. admitted' \subseteq Threads \cup {Reaper}
  BY WaitersType DEF LockSession, UpdatePlayer, GetPlayerTarget, RLock, RoutingInv, TypeOK
<1>3. /\ deadline' \subseteq Tcp /\ full' \subseteq Tcp /\ open' \subseteq Tcp
  BY DEF LockSession, UpdatePlayer, GetPlayerTarget, conns, RoutingInv, TypeOK
<1>4. CASE Done(t)
  BY <1>1, <1>2, <1>3, <1>4, DoneStep
<1>5. CASE LockSession(t)
  BY <1>1, <1>2, <1>3, <1>5, GoesOnStep DEF LockSession, Places
<1>6. CASE UpdatePlayer(t) /\ ~Done(t)
  <2>1. CASE Goes(t, "all") /\ UNCHANGED <<pkt, todo, target>>
    BY <1>1, <1>2, <1>3, <1>6, <2>1, GoesOnStep DEF UpdatePlayer, Places
  <2>2. CASE \E place \in {"echo", "one"}, q \in Players :
               Goes(t, place) /\ target' = [target EXCEPT ![t] = q] /\ UNCHANGED <<pkt, todo>>
    BY <1>1, <1>2, <1>3, <1>6, <2>2, GoesOnStep, ZenonT(40) DEF UpdatePlayer, Places
  <2> QED
    BY <1>6, <2>1, <2>2, TcpArePlayers DEF UpdatePlayer
<1>7. CASE GetPlayerTarget(t) /\ ~Done(t)
  BY <1>1, <1>2, <1>3, <1>7, GoesOnStep DEF GetPlayerTarget, Places
<1> QED
  BY <1>4, <1>5, <1>6, <1>7

\* A broadcast begins: with the players of its session.
LEMMA BroadcastBegins ==
  ASSUME RoutingInv, NEW t \in Threads, ForEachOtherPlayerTarget(t)
  PROVE  RoutingInv'
<1>1. TypeOK'
  BY DEF RoutingInv, TypeOK, ForEachOtherPlayerTarget, Goes, RLock, Places, conns
<1>2. PacketsKnown'
  BY DEF RoutingInv, TypeOK, PacketsKnown, ForEachOtherPlayerTarget, Goes
<1>3. AdminsKnow'
  BY DEF RoutingInv, AdminsKnow, ForEachOtherPlayerTarget
<1>4. BroadcastStaysInSession'
  <2>1. target[t] = Nil
    BY DEF RoutingInv, PacketsKnown, ForEachOtherPlayerTarget
  <2> QED
    BY <2>1 DEF RoutingInv, TypeOK, BroadcastStaysInSession, ForEachOtherPlayerTarget,
                Goes, Members
<1> QED
  BY <1>1, <1>2, <1>3, <1>4 DEF RoutingInv

\* It writes to one of those who are left.
LEMMA BroadcastSends ==
  ASSUME RoutingInv, NEW t \in Threads, NEW q \in Tcp, sendToTarget(t, q)
  PROVE  RoutingInv'
<1>1. TypeOK'
  BY TcpArePlayers DEF RoutingInv, TypeOK, sendToTarget, Goes, Places
<1>2. PacketsKnown'
  BY DEF RoutingInv, TypeOK, PacketsKnown, sendToTarget, Goes
<1>3. AdminsKnow'
  BY DEF RoutingInv, AdminsKnow, sendToTarget
<1>4. BroadcastStaysInSession'
  BY DEF RoutingInv, TypeOK, BroadcastStaysInSession, sendToTarget, Goes, Members
<1> QED
  BY <1>1, <1>2, <1>3, <1>4 DEF RoutingInv

\* A write ends, by itself or by its deadline.
LEMMA WriteStep ==
  ASSUME RoutingInv, NEW t \in Threads, NEW ok \in BOOLEAN, Writing(t), Written(t, ok),
         UNCHANGED <<session, admin, admitted, deadline, full>>
  PROVE  RoutingInv'
<1>1. Untouched /\ deadline' \subseteq Tcp /\ full' \subseteq Tcp
      /\ admitted' \subseteq Threads \cup {Reaper} /\ open' \subseteq Tcp
  BY DEF Untouched, RoutingInv, TypeOK, Written
<1>2. CASE Done(t)
  BY <1>1, <1>2, DoneStep
<1>3. CASE at[t] = "echo" /\ Goes(t, "clear") /\ UNCHANGED <<pkt, todo, target>>
  BY <1>1, <1>3, GoesOnStep DEF Places
<1>4. CASE /\ at[t] = "push" /\ Goes(t, "each")
           /\ todo' = [todo EXCEPT ![t] = @ \ {target[t]}]
           /\ target' = [target EXCEPT ![t] = Nil] /\ UNCHANGED <<pkt, open>>
  <2>1. TypeOK'
    BY <1>1, <1>4 DEF RoutingInv, TypeOK, Goes, Places, Untouched
  <2>2. PacketsKnown'
    BY <1>4 DEF RoutingInv, TypeOK, PacketsKnown, Goes
  <2>3. AdminsKnow'
    BY <1>1 DEF RoutingInv, AdminsKnow, Untouched
  <2>4. BroadcastStaysInSession'
    BY <1>1, <1>4 DEF RoutingInv, TypeOK, BroadcastStaysInSession, Goes, Members, Untouched
  <2> QED
    BY <2>1, <2>2, <2>3, <2>4 DEF RoutingInv
<1>5. CASE /\ at' = [at EXCEPT ![t] = "gone"] /\ UNCHANGED todo
           /\ pkt' = [pkt EXCEPT ![t] = NoPacket] /\ target' = [target EXCEPT ![t] = Nil]
  <2>1. TypeOK'
    BY <1>1, <1>5 DEF RoutingInv, TypeOK, Places, Packet, NoPacket, Untouched
  <2>2. PacketsKnown'
    BY <1>5 DEF RoutingInv, TypeOK, PacketsKnown, NoPacket
  <2>3. AdminsKnow'
    BY <1>1 DEF RoutingInv, AdminsKnow, Untouched
  <2>4. BroadcastStaysInSession'
    BY <1>1, <1>5 DEF RoutingInv, TypeOK, BroadcastStaysInSession, Members, Untouched
  <2> QED
    BY <2>1, <2>2, <2>3, <2>4 DEF RoutingInv
<1> QED
  BY <1>2, <1>3, <1>4, <1>5 DEF Written

\* A handler ends or begins, and a receiver stalls or reads again.
LEMMA ConnStep ==
  ASSUME RoutingInv, NEW c \in Tcp, ReadFails(c) \/ Reconnect(c) \/ Stall(c) \/ Drain(c)
  PROVE  RoutingInv'
<1>0. c \in Threads
  BY DEF Threads
<1>1. TypeOK'
  BY <1>0 DEF RoutingInv, TypeOK, ReadFails, Reconnect, Stall, Drain, Goes, Places
<1>2. PacketsKnown'
  BY <1>0 DEF RoutingInv, TypeOK, PacketsKnown, ReadFails, Reconnect, Stall, Drain, Goes
<1>3. AdminsKnow'
  BY DEF RoutingInv, AdminsKnow, ReadFails, Reconnect, Stall, Drain
<1>4. BroadcastStaysInSession'
  BY <1>0 DEF RoutingInv, TypeOK, BroadcastStaysInSession, ReadFails, Reconnect, Stall,
              Drain, Goes, Members
<1> QED
  BY <1>1, <1>2, <1>3, <1>4 DEF RoutingInv

-----------------------------------------------------------------------------
(* Steps of the API and the reaper. *)

\* A step that changes only the state of one of the two.
LEMMA AdminStep ==
  ASSUME RoutingInv, NEW a \in Admins, NEW r \in Admin, Becomes(a, r), Others,
         UNCHANGED <<session, open>>, admitted' \subseteq Threads \cup {Reaper},
         r.at \in {"want", "hold"} => r.p # Nil,
         a = Api => r.at \notin {"tick", "scan"}, a = Reaper => r.next = Nil,
         a = Api /\ r.at = "hold" => /\ session[r.p] \in {r.ses, Nil}
                                    /\ admin[Reaper].at # "hold",
         a = Reaper /\ r.at = "hold" => admin[Api].at # "hold"
  PROVE  RoutingInv'
<1>1. admin' = [admin EXCEPT ![a] = r] /\ admin' \in [Admins -> Admin]
  BY DEF Becomes, RoutingInv, TypeOK
<1>2. TypeOK'
  BY <1>1 DEF RoutingInv, TypeOK, Others
<1>3. PacketsKnown'
  BY DEF RoutingInv, PacketsKnown, Others
<1>4. AdminsKnow'
  BY <1>1, NamesDiffer DEF RoutingInv, TypeOK, AdminsKnow, Admins
<1>5. BroadcastStaysInSession'
  BY DEF RoutingInv, BroadcastStaysInSession, Others, Members
<1> QED
  BY <1>2, <1>3, <1>4, <1>5 DEF RoutingInv

\* A request arrives, the reaper's ticker ticks, and phase 1 goes on and ends.
LEMMA BeginsStep ==
  ASSUME RoutingInv,
         \/ \E p \in Players, s \in Sessions \cup {Nil} : Request(p, s)
         \/ Tick \/ ReapStaleSessions \/ Candidates
         \/ \E s \in Sessions : StalePlayers(s)
  PROVE  RoutingInv'
<1>1. Api \in Admins /\ Reaper \in Admins /\ Api # Reaper
  BY NamesDiffer DEF Admins
<1>2. admin[Reaper] \in Admin /\ admin[Reaper].next = Nil
  BY <1>1 DEF RoutingInv, TypeOK, AdminsKnow
<1>3. ASSUME NEW p \in Players, NEW s \in Sessions \cup {Nil}, Request(p, s)
      PROVE  RoutingInv'
  <2> DEFINE r == [Resting EXCEPT !.at = "want", !.p = p, !.ses = s, !.next = s]
  <2>1. r \in Admin /\ r.at = "want" /\ r.p # Nil
    BY NamesDiffer, ZenonT(40) DEF Resting, Admin
  <2>2. Becomes(Api, r) /\ Others /\ UNCHANGED <<session, open, admitted>>
    BY <1>3, ZenonT(40) DEF Request
  <2> HIDE DEF r
  <2> QED
    BY <1>1, <2>1, <2>2, AdminStep DEF RoutingInv, TypeOK
<1>4. CASE Tick
  <2> DEFINE r == [Resting EXCEPT !.at = "tick"]
  <2>1. r \in Admin /\ r.at = "tick" /\ r.next = Nil
    BY DEF Resting, Admin
  <2>2. Becomes(Reaper, r) /\ Others /\ UNCHANGED <<session, open, admitted>>
    BY <1>4 DEF Tick
  <2> HIDE DEF r
  <2> QED
    BY <1>1, <2>1, <2>2, AdminStep DEF RoutingInv, TypeOK
<1>5. CASE ReapStaleSessions
  <2> DEFINE r == [Resting EXCEPT !.at = "scan", !.left = Sessions]
  <2>1. r \in Admin /\ r.at = "scan" /\ r.next = Nil
    BY ZenonT(40) DEF Resting, Admin
  <2>2. Becomes(Reaper, r) /\ Others /\ UNCHANGED <<session, open>>
        /\ admitted' \subseteq Threads \cup {Reaper}
    BY <1>5 DEF ReapStaleSessions, RLock, RoutingInv, TypeOK
  <2> HIDE DEF r
  <2> QED
    BY <1>1, <2>1, <2>2, AdminStep
<1>6. CASE Candidates
  <2> DEFINE w == [admin[Reaper] EXCEPT !.at = "want"]
             r == IF admin[Reaper].p = Nil THEN Resting ELSE w
  <2>1. w \in Admin /\ w.at = "want" /\ w.p = admin[Reaper].p /\ w.next = Nil
    BY <1>2 DEF Admin
  <2>2. Resting \in Admin /\ Resting.at = "idle" /\ Resting.next = Nil
    BY DEF Resting, Admin
  <2>3. Becomes(Reaper, r) /\ Others /\ UNCHANGED <<session, open, admitted>>
    BY <1>6 DEF Candidates
  <2> HIDE DEF w
  <2>4. r \in Admin /\ r.at # "hold" /\ (r.at = "want" => r.p # Nil) /\ r.next = Nil
    BY <2>1, <2>2
  <2> HIDE DEF r
  <2> QED
    BY <1>1, <2>3, <2>4, AdminStep DEF RoutingInv, TypeOK
<1>7. ASSUME NEW s \in Sessions, StalePlayers(s)
      PROVE  RoutingInv'
  <2>1. PICK p \in Members(s) \cup {Nil} :
          Becomes(Reaper, [admin[Reaper] EXCEPT !.left = @ \ {s},
                                                !.p = IF p = Nil THEN @ ELSE p,
                                                !.ses = IF p = Nil THEN @ ELSE s])
    BY <1>7, ZenonT(40) DEF StalePlayers
  <2> DEFINE r == [admin[Reaper] EXCEPT !.left = @ \ {s},
                                        !.p = IF p = Nil THEN @ ELSE p,
                                        !.ses = IF p = Nil THEN @ ELSE s]
  <2>2. r \in Admin /\ r.at = "scan" /\ r.next = Nil
    BY <1>2, <1>7, ZenonT(40) DEF Admin, Members, StalePlayers
  <2>3. Others /\ UNCHANGED <<session, open>> /\ admitted' \subseteq Threads \cup {Reaper}
    BY <1>7, ZenonT(40) DEF StalePlayers, RLock, RoutingInv, TypeOK
  <2> HIDE DEF r
  <2> QED
    BY <1>1, <2>1, <2>2, <2>3, AdminStep, ZenonT(40) DEF r
<1> QED
  BY <1>3, <1>4, <1>5, <1>6, <1>7

\* Lock of the manager: the other one does not have it, and a request looks up
\* the player's session.
LEMMA LockStep ==
  ASSUME RoutingInv, NEW a \in Admins, LockManager(a)
  PROVE  RoutingInv'
<1> DEFINE s == session[admin[a].p]
<1>1. \A b \in Admins : admin[b].at # "hold"
  BY DEF LockManager, CanLock, Holders
<1>2. admin[a] \in Admin /\ admin[a].p \in Players
  BY DEF RoutingInv, TypeOK, AdminsKnow, LockManager, Admin
<1>3. s \in Sessions \cup {Nil}
  BY <1>2 DEF RoutingInv, TypeOK
<1>4. Others /\ UNCHANGED <<session, admitted, open>> /\ Api \in Admins /\ Reaper \in Admins
      /\ Api # Reaper
  BY NamesDiffer DEF LockManager, Admins
<1>5. CASE a = Reaper
  <2> DEFINE r == [admin[a] EXCEPT !.at = "hold"]
  <2>1. r \in Admin /\ r.p # Nil /\ r.next = Nil
    BY <1>2, <1>5, NamesDiffer DEF Admin, RoutingInv, AdminsKnow
  <2>2. Becomes(a, r)
    BY <1>4, <1>5 DEF LockManager
  <2> HIDE DEF r
  <2> QED
    BY <1>1, <1>4, <1>5, <2>1, <2>2, AdminStep DEF RoutingInv, TypeOK
<1>6. CASE a = Api
  <2> DEFINE r == [admin[a] EXCEPT !.at = "hold", !.ses = IF s = Nil THEN @ ELSE s]
  <2>1. r \in Admin /\ r.p = admin[a].p /\ r.p # Nil /\ r.at = "hold"
        /\ s \in {r.ses, Nil}
    BY <1>2, <1>3, NamesDiffer, ZenonT(40) DEF Admin
  <2>2. Becomes(a, r)
    BY <1>4, <1>6 DEF LockManager
  <2> HIDE DEF r
  <2> QED
    BY <1>1, <1>4, <1>6, <2>1, <2>2, AdminStep DEF RoutingInv, TypeOK
<1> QED
  BY <1>5, <1>6 DEF Admins

\* A player leaves a session that no broadcast reads, or joins one it is not in.
LEMMA MembersKept ==
  ASSUME RoutingInv, NEW p \in Players, NEW next \in Sessions \cup {Nil},
         session' = [session EXCEPT ![p] = next], Others,
         \/ session[p] = Nil
         \/ \A t \in Threads : at[t] \in {"each", "push"} => pkt[t].ses # session[p]
  PROVE  BroadcastStaysInSession'
<1> SUFFICES ASSUME NEW t \in Threads, at[t] \in {"each", "push"}
             PROVE  Members(pkt[t].ses) \subseteq Members(pkt[t].ses)'
  BY DEF RoutingInv, BroadcastStaysInSession, Others
<1>1. pkt[t].ses # Nil /\ pkt' = pkt
  BY DEF RoutingInv, PacketsKnown, Others
<1>2. session[p] # pkt[t].ses
  BY <1>1
<1> QED
  BY <1>1, <1>2 DEF Members, RoutingInv, TypeOK

\* The end of a removal or an addition, once the players are what they are: who
\* holds the manager's lock is alone, so the other's session has not changed.
LEMMA ChangeStep ==
  ASSUME RoutingInv, NEW a \in Admins, NEW r \in Admin, Becomes(a, r), Others,
         admin[a].at = "hold", open' \subseteq Tcp,
         admitted' \subseteq Threads \cup {Reaper},
         session' \in [Players -> Sessions \cup {Nil}],
         r.at \in {"idle", "hold"}, r.at = "hold" => a = Api /\ r.p # Nil,
         r.at = "hold" => session'[r.p] = Nil, a = Reaper => r.next = Nil,
         BroadcastStaysInSession'
  PROVE  RoutingInv'
<1>1. admin' = [admin EXCEPT ![a] = r] /\ admin' \in [Admins -> Admin]
  BY DEF Becomes, RoutingInv, TypeOK
<1>2. TypeOK'
  BY <1>1 DEF RoutingInv, TypeOK, Others
<1>3. PacketsKnown'
  BY DEF RoutingInv, PacketsKnown, Others
<1>4. AdminsKnow'
  <2>1. CASE a = Api
    BY <1>1, <2>1, NamesDiffer DEF RoutingInv, TypeOK, AdminsKnow, Admins
  <2>2. CASE a = Reaper
    BY <1>1, <2>2, NamesDiffer DEF RoutingInv, TypeOK, AdminsKnow, Admins
  <2> QED
    BY <2>1, <2>2 DEF Admins
<1> QED
  BY <1>2, <1>3, <1>4 DEF RoutingInv

\* RemovePlayer, with the lock of the player's session.
LEMMA RemoveStep ==
  ASSUME RoutingInv, NEW a \in Admins, RemovePlayer(a)
  PROVE  RoutingInv'
<1> DEFINE r == admin[a]
<1>1. /\ r \in Admin /\ r.at = "hold" /\ r.p \in Players /\ session[r.p] = r.ses
      /\ Others /\ r.ses \in Sessions
  BY DEF RoutingInv, TypeOK, AdminsKnow, RemovePlayer, Admin
<1>2. \A t \in Threads : at[t] \in {"each", "push"} => pkt[t].ses # session[r.p]
  BY <1>1 DEF RemovePlayer, CanLock, Holders
<1>3. admitted' \subseteq Threads \cup {Reaper} /\ open' \subseteq Tcp
  BY WaitersType DEF RemovePlayer, RoutingInv, TypeOK
<1>4. BroadcastStaysInSession' /\ session' \in [Players -> Sessions \cup {Nil}]
  <2>1. CASE session' = [session EXCEPT ![r.p] = Nil]
    BY <1>1, <1>2, <2>1, MembersKept, ZenonT(40) DEF RoutingInv, TypeOK
  <2>2. CASE UNCHANGED session
    BY <1>1, <2>2 DEF RoutingInv, TypeOK, BroadcastStaysInSession, Members, Others
  <2> QED
    BY <2>1, <2>2 DEF RemovePlayer
<1>5. CASE Becomes(a, Resting)
  <2>1. Resting \in Admin /\ Resting.at = "idle" /\ Resting.next = Nil
    BY DEF Resting, Admin
  <2> QED
    BY <1>1, <1>3, <1>4, <1>5, <2>1, ChangeStep
<1>6. CASE r.next # Nil /\ Becomes(a, [r EXCEPT !.ses = r.next])
  <2> DEFINE n == [r EXCEPT !.ses = r.next]
  <2>1. n \in Admin /\ n.at = "hold" /\ n.p = r.p /\ n.p # Nil
    BY <1>1, NamesDiffer DEF Admin
  <2>2. CASE a = Api
    <3>1. session'[r.p] = Nil
      BY <1>1, <2>2, NamesDiffer DEF RemovePlayer, RoutingInv, TypeOK
    <3>2. Becomes(a, n)
      BY <1>6
    <3> HIDE DEF n
    <3> QED
      BY <1>1, <1>3, <1>4, <2>1, <2>2, <3>1, <3>2, ChangeStep, NamesDiffer
  <2>3. CASE a = Reaper
    BY <1>6, <2>3 DEF RoutingInv, AdminsKnow
  <2> QED
    BY <2>2, <2>3 DEF Admins
<1> QED
  BY <1>5, <1>6 DEF RemovePlayer

\* AddPlayer: a request's player is in no session by now.
LEMMA AddStep ==
  ASSUME RoutingInv, NEW a \in Admins, AddPlayer(a)
  PROVE  RoutingInv'
<1> DEFINE r == admin[a]
<1>1. r \in Admin /\ r.at = "hold" /\ r.p \in Players /\ Others /\ Becomes(a, Resting)
  BY DEF RoutingInv, TypeOK, AdminsKnow, AddPlayer, Admin
<1>2. admitted' \subseteq Threads \cup {Reaper} /\ open' \subseteq Tcp
  BY WaitersType DEF AddPlayer, RoutingInv, TypeOK
<1>3. BroadcastStaysInSession' /\ session' \in [Players -> Sessions \cup {Nil}]
  <2>1. CASE a = Api
    <3>1. session[r.p] = Nil
      BY <2>1 DEF AddPlayer, RoutingInv, AdminsKnow
    <3>2. session' = [session EXCEPT ![r.p] = r.next] /\ r.next \in Sessions \cup {Nil}
      BY <1>1, <2>1 DEF AddPlayer, Admin
    <3> QED
      BY <1>1, <3>1, <3>2, MembersKept, ZenonT(40) DEF RoutingInv, TypeOK
  <2>2. CASE a # Api
    BY <1>1, <2>2
       DEF AddPlayer, RoutingInv, TypeOK, BroadcastStaysInSession, Members, Others
  <2> QED
    BY <2>1, <2>2
<1>4. Resting \in Admin /\ Resting.at = "idle" /\ Resting.next = Nil
  BY DEF Resting, Admin
<1> QED
  BY <1>1, <1>2, <1>3, <1>4, ChangeStep

-----------------------------------------------------------------------------
(* The theorems. *)

\* The invariant holds in every state of the relay's goroutines.
THEOREM RoutingInvHolds == Spec => []RoutingInv
<1>1. Init => RoutingInv
  <2> SUFFICES ASSUME Init PROVE RoutingInv
    OBVIOUS
  <2>1. TypeOK
    BY DEF Init, TypeOK, Places, Packet, NoPacket, Admin, Resting
  <2>2. PacketsKnown /\ AdminsKnow /\ BroadcastStaysInSession
    BY NamesDiffer DEF Init, PacketsKnown, AdminsKnow, BroadcastStaysInSession, Resting, Admins
  <2> QED
    BY <2>1, <2>2 DEF RoutingInv
<1>2. RoutingInv /\ [Next]_vars => RoutingInv'
  <2> SUFFICES ASSUME RoutingInv, [Next]_vars PROVE RoutingInv'
    OBVIOUS
  <2>1. CASE UNCHANGED vars
    BY <2>1 DEF vars, conns, RoutingInv, TypeOK, PacketsKnown, AdminsKnow,
                BroadcastStaysInSession, Members
  <2>2. ASSUME NEW t \in Threads, NEW p \in Players, Receive(t, p)
        PROVE  RoutingInv'
    BY <2>2, ReceiveStep
  <2>3. ASSUME NEW t \in Threads, Step(t)
        PROVE  RoutingInv'
    <3>1. CASE EndBroadcast(t) \/ ClearDeadline(t)
      BY <3>1, DoneStep DEF EndBroadcast, ClearDeadline, Untouched, RoutingInv, TypeOK, conns
    <3>2. CASE Write(t) \/ WriteTimesOut(t)
      <4>1. (target[t] \in open) \in BOOLEAN
        OBVIOUS
      <4>2. CASE Write(t)
        BY <4>1, <4>2, WriteStep, ZenonT(40) DEF Write
      <4>3. CASE WriteTimesOut(t)
        BY <4>3, WriteStep, ZenonT(40) DEF WriteTimesOut
      <4> QED
        BY <3>2, <4>2, <4>3
    <3> QED
      BY <2>3, <3>1, <3>2, FindStep, ChoiceStep, BroadcastBegins, BroadcastSends DEF Step
  <2>4. ASSUME NEW c \in Tcp, ReadFails(c) \/ Reconnect(c) \/ Stall(c) \/ Drain(c)
        PROVE  RoutingInv'
    BY <2>4, ConnStep
  <2>5. CASE \/ \E p \in Players, s \in Sessions \cup {Nil} : Request(p, s)
             \/ Tick \/ ReapStaleSessions \/ Candidates
             \/ \E s \in Sessions : StalePlayers(s)
    BY <2>5, BeginsStep
  <2>6. ASSUME NEW a \in Admins, LockManager(a) \/ RemovePlayer(a) \/ AddPlayer(a)
        PROVE  RoutingInv'
    BY <2>6, LockStep, RemoveStep, AddStep
  <2> QED
    BY <2>1, <2>2, <2>3, <2>4, <2>5, <2>6 DEF Next, Administer
<1> QED
  BY <1>1, <1>2, PTL DEF Spec

\* A broadcast writes only to players who are in its session at that moment: the
\* lock it holds keeps its list true, although it is taken one write at a time.
THEOREM BroadcastCorrect == Spec => []BroadcastStaysInSession
BY RoutingInvHolds, PTL DEF RoutingInv

\* Every variable has its type.
THEOREM RoutingTypes == Spec => []TypeOK
BY RoutingInvHolds, PTL DEF RoutingInv

-----------------------------------------------------------------------------
(* The locks. *)

\* Who has been let in by an Unlock still waits.
AdmittedWait ==
  /\ \A t \in Threads : t \in admitted => at[t] \in {"find", "one", "all"}
  /\ Reaper \in admitted => \/ admin[Reaper].at = "tick"
                            \/ admin[Reaper].at = "scan" /\ admin[Reaper].left # {}

\* Those who wait to read the manager's tables, by their places.
ManagerFree ==
  /\ \A t \in Threads : at[t] = "find" => t \notin admitted
  /\ admin[Reaper].at = "tick" => Reaper \notin admitted

\* The goroutines and the admins are different ones.
LEMMA Roles ==
  /\ Reaper \notin Threads /\ Api \notin Threads /\ Api # Reaper
  /\ Admins = {Reaper, Api}
BY NamesDiffer, TcpArePlayers DEF Threads, Admins

\* Who waits for the manager's lock, and for that of a session.
LEMMA Waiters ==
  ASSUME RoutingInv
  PROVE  /\ WaitRead(Manager) \cap admitted = {} <=> ManagerFree
         /\ \A l \in Sessions \cup {Nil} : \A x \in WaitRead(l) :
              \/ x \in Threads /\ at[x] \in {"one", "all"}
              \/ x = Reaper /\ admin[x].at = "scan" /\ admin[x].left # {}
<1>1. /\ \A t \in Threads : pkt[t].ses # Manager
      /\ \A a \in Admins : admin[a].left \subseteq Sessions
  BY NamesDiffer DEF RoutingInv, TypeOK, Packet, Admin
<1>2. Manager \notin Sessions \cup {Nil}
  BY NamesDiffer
<1>3. \A S : S # {} => Current(S) \in S
  BY DEF Current
<1>4. WaitRead(Manager) = {t \in Threads : at[t] = "find"}
                          \cup {a \in Admins : admin[a].at = "tick"}
  BY <1>1, <1>2, <1>3 DEF WaitRead
<1>5. admin[Api].at \notin {"tick", "scan"}
  BY DEF RoutingInv, AdminsKnow
<1>6. WaitRead(Manager) \cap admitted = {} <=> ManagerFree
  BY <1>4, <1>5, Roles DEF ManagerFree
<1>7. \A l \in Sessions \cup {Nil} : \A x \in WaitRead(l) :
        \/ x \in Threads /\ at[x] \in {"one", "all"}
        \/ x = Reaper /\ admin[x].at = "scan" /\ admin[x].left # {}
  BY <1>2, <1>5, Roles DEF WaitRead
<1> QED
  BY <1>6, <1>7

\* What mutual exclusion rests on.
Alone ==
  \A a, b \in Admins : admin[a].at = "hold" /\ admin[b].at \in {"scan", "hold"} => a = b
LockInv == Alone /\ AdmittedWait /\ (Locked(Manager) => ManagerFree)

\* A goroutine that routes goes from one place to another, and has not been let in
\* there; those who wait for its session's lock may be.
LEMMA ThreadLocks ==
  ASSUME RoutingInv, LockInv, NEW t \in Threads, NEW place, at' = [at EXCEPT ![t] = place],
         UNCHANGED admin, t \notin admitted',
         \A x \in admitted' : \/ x \in admitted
                              \/ \E l \in Sessions \cup {Nil} : x \in WaitRead(l)
  PROVE  LockInv'
<1>1. at \in [Threads -> Places]
  BY DEF RoutingInv, TypeOK
<1>2. \A x \in Threads : x # t => at'[x] = at[x]
  BY <1>1
<1>3. AdmittedWait'
  BY <1>2, Waiters, Roles DEF LockInv, AdmittedWait
<1>4. Locked(Manager)' => ManagerFree'
  BY <1>2, Waiters, Roles DEF LockInv, ManagerFree, Locked
<1> QED
  BY <1>3, <1>4 DEF LockInv, Alone

\* All steps of the goroutines that route.
LEMMA StepLocks ==
  ASSUME RoutingInv, LockInv, NEW t \in Threads,
         (\E p \in Players : Receive(t, p)) \/ Step(t) \/ ReadFails(t) \/ Reconnect(t)
  PROVE  LockInv'
<1>0. t \in admitted => at[t] \in {"find", "one", "all"}
  BY DEF LockInv, AdmittedWait
<1>1. UNCHANGED admin
  BY ZenonT(40) DEF Receive, Step, ReadFails, Reconnect, FindSessionByPlayer, LockSession, UpdatePlayer,
         GetPlayerTarget, ForEachOtherPlayerTarget, EndBroadcast, sendToTarget, Write,
         WriteTimesOut, ClearDeadline
<1>2. \E place : at' = [at EXCEPT ![t] = place]
  <2>1. CASE Write(t) \/ WriteTimesOut(t)
    BY <2>1 DEF Write, WriteTimesOut, Written, Goes, Done
  <2>2. CASE UpdatePlayer(t) \/ GetPlayerTarget(t) \/ FindSessionByPlayer(t)
    BY <2>2 DEF UpdatePlayer, GetPlayerTarget, FindSessionByPlayer, Goes, Done
  <2> QED
    BY <2>1, <2>2 DEF Receive, Step, ReadFails, Reconnect, LockSession,
       ForEachOtherPlayerTarget, EndBroadcast, sendToTarget, ClearDeadline, Goes, Done
<1>3. CASE UpdatePlayer(t)
  <2>1. pkt[t].ses \in Sessions \cup {Nil}
    BY DEF RoutingInv, TypeOK, Packet
  <2>2. at[t] = "lock" /\ admitted' = admitted \cup WaitRead(pkt[t].ses)
    BY <1>3 DEF UpdatePlayer
  <2>3. t \notin admitted'
    BY <1>0, <2>1, <2>2, Waiters, Roles
  <2> QED
    BY <1>1, <1>2, <2>1, <2>2, <2>3, ThreadLocks, ZenonT(40)
<1>4. CASE ~UpdatePlayer(t)
  <2>1. CASE FindSessionByPlayer(t) \/ GetPlayerTarget(t) \/ ForEachOtherPlayerTarget(t)
    <3>1. admitted' = admitted \ {t}
      BY <2>1 DEF FindSessionByPlayer, GetPlayerTarget, ForEachOtherPlayerTarget, RLock
    <3> QED
      BY <1>1, <1>2, <3>1, ThreadLocks, ZenonT(40)
  <2>2. CASE ~(FindSessionByPlayer(t) \/ GetPlayerTarget(t) \/ ForEachOtherPlayerTarget(t))
    <3>1. UNCHANGED admitted /\ at[t] \notin {"find", "one", "all"}
      BY <1>4, <2>2, ZenonT(40) DEF Receive, Step, ReadFails, Reconnect, LockSession, EndBroadcast,
         sendToTarget, Write, WriteTimesOut, Writing, ClearDeadline
    <3> QED
      BY <1>0, <1>1, <1>2, <3>1, ThreadLocks, ZenonT(40)
  <2> QED
    BY <2>1, <2>2
<1> QED
  BY <1>3, <1>4

\* An admin that does not take or give back the manager's lock.
LEMMA AdminLocks ==
  ASSUME RoutingInv, LockInv, NEW a \in Admins, NEW r, Becomes(a, r), UNCHANGED at,
         admitted' \subseteq admitted,
         a = Reaper => Reaper \notin admitted',
         r.at # "hold",
         r.at = "scan" => \A b \in Admins : admin[b].at # "hold" \/ b = a
  PROVE  LockInv'
<1>1. admin' = [admin EXCEPT ![a] = r] /\ admin \in [Admins -> Admin]
  BY DEF Becomes, RoutingInv, TypeOK
<1>2. admin'[a] = r /\ \A b \in Admins : b # a => admin'[b] = admin[b]
  BY <1>1
<1>3. Reaper \in Admins /\ Api \in Admins
  BY Roles
<1>4. Alone'
  BY <1>2 DEF LockInv, Alone
<1>5. AdmittedWait'
  BY <1>2, <1>3 DEF LockInv, AdmittedWait
<1>6. Locked(Manager)' => ManagerFree'
  <2>1. Locked(Manager)' => Locked(Manager)
    BY <1>2 DEF Locked
  <2> QED
    BY <1>2, <1>3, <2>1 DEF LockInv, ManagerFree
<1> QED
  BY <1>4, <1>5, <1>6 DEF LockInv

\* A request arrives, the ticker ticks, and phase 1 reads under the manager's lock.
LEMMA BeginsLocks ==
  ASSUME RoutingInv, LockInv,
         \/ \E p \in Players, s \in Sessions \cup {Nil} : Request(p, s)
         \/ Tick \/ ReapStaleSessions \/ Candidates
         \/ \E s \in Sessions : StalePlayers(s)
  PROVE  LockInv'
<1>0. /\ Reaper \in Admins /\ Api \in Admins /\ Api # Reaper
      /\ admin[Reaper] \in Admin /\ Resting.at = "idle"
  BY Roles DEF RoutingInv, TypeOK, Resting
<1>1. CASE \E p \in Players, s \in Sessions \cup {Nil} : Request(p, s)
  <2>1. PICK p \in Players, s \in Sessions \cup {Nil} : Request(p, s)
    BY <1>1
  <2> DEFINE r == [Resting EXCEPT !.at = "want", !.p = p, !.ses = s, !.next = s]
  <2>2. r.at = "want"
    BY DEF Resting
  <2>3. Becomes(Api, r) /\ UNCHANGED <<at, admitted>>
    BY <2>1, ZenonT(40) DEF Request, Others
  <2> HIDE DEF r
  <2> QED
    BY <1>0, <2>2, <2>3, AdminLocks
<1>2. CASE Tick
  <2> DEFINE r == [Resting EXCEPT !.at = "tick"]
  <2>1. r.at = "tick"
    BY DEF Resting
  <2>2. Becomes(Reaper, r) /\ UNCHANGED <<at, admitted>> /\ Reaper \notin admitted
    BY <1>2 DEF Tick, Others, LockInv, AdmittedWait
  <2> HIDE DEF r
  <2> QED
    BY <1>0, <2>1, <2>2, AdminLocks
<1>3. CASE ReapStaleSessions
  <2> DEFINE r == [Resting EXCEPT !.at = "scan", !.left = Sessions]
  <2>1. r.at = "scan"
    BY DEF Resting
  <2>2. Becomes(Reaper, r) /\ UNCHANGED at /\ admitted' = admitted \ {Reaper}
    BY <1>3 DEF ReapStaleSessions, RLock, Others
  <2>3. ~Locked(Manager)
    BY <1>3 DEF ReapStaleSessions, RLock, CanRLock, LockInv, ManagerFree
  <2>4. \A b \in Admins : admin[b].at # "hold"
    BY <2>3 DEF Locked
  <2> HIDE DEF r
  <2> QED
    BY <1>0, <2>1, <2>2, <2>4, AdminLocks
<1>4. CASE Candidates
  <2> DEFINE w == [admin[Reaper] EXCEPT !.at = "want"]
             r == IF admin[Reaper].p = Nil THEN Resting ELSE w
  <2>1. w.at = "want"
    BY <1>0 DEF Admin
  <2>2. Becomes(Reaper, r) /\ UNCHANGED <<at, admitted>> /\ Reaper \notin admitted
    BY <1>4 DEF Candidates, Others, LockInv, AdmittedWait
  <2> HIDE DEF w
  <2>3. r.at \in {"idle", "want"}
    BY <1>0, <2>1
  <2> HIDE DEF r
  <2> QED
    BY <1>0, <2>2, <2>3, AdminLocks
<1>5. CASE \E s \in Sessions : StalePlayers(s)
  <2>1. PICK s \in Sessions : StalePlayers(s)
    BY <1>5
  <2>2. PICK p \in Members(s) \cup {Nil} :
          Becomes(Reaper, [admin[Reaper] EXCEPT !.left = @ \ {s},
                                                !.p = IF p = Nil THEN @ ELSE p,
                                                !.ses = IF p = Nil THEN @ ELSE s])
    BY <2>1, ZenonT(40) DEF StalePlayers
  <2> DEFINE r == [admin[Reaper] EXCEPT !.left = @ \ {s},
                                        !.p = IF p = Nil THEN @ ELSE p,
                                        !.ses = IF p = Nil THEN @ ELSE s]
  <2>3. r.at = "scan"
    BY <1>0, <2>1, ZenonT(40) DEF Admin, StalePlayers
  <2>4. UNCHANGED at /\ admitted' = admitted \ {Reaper} /\ admin[Reaper].at = "scan"
    BY <2>1, ZenonT(40) DEF StalePlayers, RLock, Others
  <2>5. \A b \in Admins : admin[b].at # "hold" \/ b = Reaper
    BY <1>0, <2>4 DEF LockInv, Alone
  <2> HIDE DEF r
  <2> QED
    BY <1>0, <2>2, <2>3, <2>4, <2>5, AdminLocks, ZenonT(40) DEF r
<1> QED
  BY <1>1, <1>2, <1>3, <1>4, <1>5

\* Lock of the manager.
LEMMA TakeLock ==
  ASSUME RoutingInv, LockInv, NEW a \in Admins, LockManager(a)
  PROVE  LockInv'
<1>1. /\ \A b \in Admins : admin[b].at \notin {"scan", "hold"}
      /\ WaitRead(Manager) \cap admitted = {} /\ admin[a].at = "want"
  BY DEF LockManager, CanLock, Holders
<1>2. ManagerFree
  BY <1>1, Waiters
<1>3. admin \in [Admins -> Admin] /\ Reaper \in Admins
  BY Roles DEF RoutingInv, TypeOK
<1>4. \E r : admin' = [admin EXCEPT ![a] = r] /\ r.at = "hold"
  <2>1. admin[a] \in Admin
    BY <1>3
  <2> DEFINE s == session[admin[a].p]
             r == [admin[a] EXCEPT !.at = "hold"]
             q == [admin[a] EXCEPT !.at = "hold", !.ses = IF s = Nil THEN @ ELSE s]
  <2>2. r.at = "hold" /\ q.at = "hold"
    BY <2>1 DEF Admin
  <2>3. admin' = [admin EXCEPT ![a] = r] \/ admin' = [admin EXCEPT ![a] = q]
    BY DEF LockManager, Becomes
  <2> HIDE DEF r, q
  <2> QED
    BY <2>2, <2>3
<1>5. admin'[a].at = "hold" /\ \A b \in Admins : b # a => admin'[b] = admin[b]
  BY <1>3, <1>4
<1>6. UNCHANGED <<at, admitted>>
  BY DEF LockManager, Others
<1>7. Alone'
  BY <1>1, <1>5 DEF Alone
<1>8. AdmittedWait' /\ ManagerFree'
  BY <1>1, <1>2, <1>3, <1>5, <1>6 DEF LockInv, AdmittedWait, ManagerFree
<1> QED
  BY <1>7, <1>8 DEF LockInv

\* Unlock of a session, and with it of the manager or not.
LEMMA GiveBack ==
  ASSUME RoutingInv, LockInv, NEW a \in Admins, RemovePlayer(a) \/ AddPlayer(a)
  PROVE  LockInv'
<1> DEFINE r == admin[a]
           n == [r EXCEPT !.ses = r.next]
<1>0. /\ admin \in [Admins -> Admin] /\ Reaper \in Admins /\ r \in Admin /\ r.at = "hold"
      /\ r.ses \in Sessions \cup {Nil}
  BY Roles DEF RoutingInv, TypeOK, RemovePlayer, AddPlayer, Admin
<1>1. /\ UNCHANGED at /\ \A b \in Admins : admin[b].at \in {"scan", "hold"} => b = a
      /\ (Reaper \in admitted => Reaper # a)
  BY <1>0 DEF RemovePlayer, AddPlayer, Others, LockInv, Alone, AdmittedWait
<1>2. \A x \in WaitRead(r.ses) : x \in Threads /\ at[x] \in {"one", "all"}
  BY <1>0, <1>1, Waiters
<1>3. \A x \in WaitRead(Manager) : \/ x \in Threads /\ at[x] \in {"find", "one", "all"}
                                   \/ x = Reaper /\ admin[x].at = "tick"
  <2>1. \A b \in Admins : admin[b].left \subseteq Sessions
    BY DEF RoutingInv, TypeOK, Admin
  <2>2. \A S : S # {} => Current(S) \in S
    BY DEF Current
  <2> QED
    BY <2>1, <2>2, Roles, NamesDiffer DEF WaitRead, RoutingInv, AdminsKnow
<1>4. CASE /\ Becomes(a, Resting)
           /\ admitted' = admitted \cup WaitRead(r.ses) \cup WaitRead(Manager)
  <2>1. admin'[a].at = "idle" /\ \A b \in Admins : b # a => admin'[b] = admin[b]
    BY <1>0, <1>4 DEF Becomes, Resting
  <2>2. \A b \in Admins : admin'[b].at # "hold"
    BY <1>1, <2>1
  <2>3. Alone' /\ ~Locked(Manager)'
    BY <2>2 DEF Alone, Locked
  <2>4. AdmittedWait'
    BY <1>0, <1>1, <1>2, <1>3, <1>4, <2>1, Roles DEF LockInv, AdmittedWait
  <2> QED
    BY <2>3, <2>4 DEF LockInv
<1>5. CASE Becomes(a, n) /\ admitted' = admitted \cup WaitRead(r.ses)
  <2>1. n.at = "hold"
    BY <1>0 DEF Admin
  <2> HIDE DEF n
  <2>2. admin'[a].at = "hold" /\ \A b \in Admins : b # a => admin'[b] = admin[b]
    BY <1>0, <1>5, <2>1 DEF Becomes
  <2>3. Alone'
    BY <1>1, <2>2 DEF Alone
  <2>4. AdmittedWait'
    BY <1>0, <1>1, <1>2, <1>5, <2>2, Roles DEF LockInv, AdmittedWait
  <2>5. ManagerFree
    BY <1>0 DEF LockInv, Locked
  <2>6. ManagerFree'
    BY <1>0, <1>1, <1>2, <1>5, <2>2, <2>5, Roles DEF ManagerFree
  <2> QED
    BY <2>3, <2>4, <2>6 DEF LockInv
<1> QED
  BY <1>4, <1>5 DEF RemovePlayer, AddPlayer

\* The locks in every state.
LEMMA LockInvHolds == Spec => []LockInv
<1>1. Init => LockInv
  BY Roles DEF Init, LockInv, Alone, AdmittedWait, Locked, Resting
<1>2. RoutingInv /\ LockInv /\ [Next]_vars => LockInv'
  <2> SUFFICES ASSUME RoutingInv, LockInv, [Next]_vars PROVE LockInv'
    OBVIOUS
  <2>1. CASE UNCHANGED <<at, admin, admitted>>
    BY <2>1 DEF LockInv, Alone, AdmittedWait, Locked, ManagerFree
  <2>2. ASSUME NEW c \in Tcp, ReadFails(c) \/ Reconnect(c) \/ Stall(c) \/ Drain(c)
        PROVE  LockInv'
    <3>1. CASE Stall(c) \/ Drain(c)
      BY <2>1, <3>1 DEF Stall, Drain
    <3>2. c \in Threads
      BY DEF Threads
    <3> QED
      BY <2>2, <3>1, <3>2, StepLocks
  <2>3. CASE UNCHANGED vars
    BY <2>1, <2>3 DEF vars
  <2> QED
    BY <2>2, <2>3, StepLocks, BeginsLocks, TakeLock, GiveBack DEF Next, Administer
<1> QED
  BY <1>1, <1>2, RoutingInvHolds, PTL DEF Spec

\* The manager's lock excludes, for any number of goroutines: a request and the
\* reaper do not change the tables at once, nor does one of them while phase 1 of
\* the reaper reads; and no reader that was let in is overtaken by a writer.
THEOREM ManagerLockExcludes == Spec => []LocksExclude
<1>1. RoutingInv /\ LockInv => LocksExclude
  BY Waiters DEF LockInv, Alone, LocksExclude
<1> QED
  BY <1>1, RoutingInvHolds, LockInvHolds, PTL

\* If everyone waited, nobody would hold the lock of a session, so that those who
\* wait for it could go on; hence nobody would hold the manager's.
LEMMA SomeoneGoes ==
  ASSUME RoutingInv
  PROVE  NoLockCycle
<1> SUFFICES ASSUME NEW y \in Busy, \A x \in Busy : Blocked(x)
             PROVE  FALSE
  BY DEF NoLockCycle
<1> DEFINE Locks == Sessions \cup {Manager, Nil}
<1>1. /\ \A t \in Threads : pkt[t].ses \in Sessions \cup {Nil}
      /\ \A a \in Admins : admin[a].ses \in Sessions \cup {Nil} /\ admin[a].left \subseteq Sessions
      /\ Manager \notin Sessions \cup {Nil}
      /\ \A S : S # {} => Current(S) \in S
  BY NamesDiffer DEF RoutingInv, TypeOK, Packet, Admin, Current
<1>2. \A l, k, x : ~(x \in WaitRead(l) /\ x \in WaitWrite(k))
  BY Roles DEF WaitRead, WaitWrite
<1>3. \A l : WaitRead(l) \subseteq Busy /\ WaitWrite(l) \subseteq Busy
  BY DEF WaitRead, WaitWrite, Busy
<1>4. \A l : WaitRead(l) \cap admitted = {}
  BY <1>2, <1>3 DEF Blocked, CanRLock
<1>5. \A t \in Threads : at[t] \notin {"each", "push"}
  <2> SUFFICES ASSUME NEW t \in Threads, at[t] \in {"each", "push"} PROVE FALSE
    OBVIOUS
  <2>1. t \in Busy /\ t \notin Admins
    BY Roles DEF Busy
  <2>2. \A l : t \notin WaitRead(l) /\ t \notin WaitWrite(l)
    BY <2>1 DEF WaitRead, WaitWrite
  <2> QED
    BY <2>1, <2>2 DEF Blocked
<1>6. \A l \in Sessions \cup {Nil} : CanLock(l)
  BY <1>1, <1>4, <1>5 DEF CanLock, Holders
<1>7. \A l \in Sessions \cup {Nil} : WaitWrite(l) = {}
  <2> SUFFICES ASSUME NEW l \in Sessions \cup {Nil}, NEW x \in WaitWrite(l) PROVE FALSE
    OBVIOUS
  <2>1. \A k \in Locks : x \in WaitWrite(k) => k = l
    BY <1>1, Roles DEF WaitWrite
  <2>2. PICK k \in Locks : x \in WaitWrite(k) /\ ~CanLock(k)
    BY <1>2, <1>3 DEF Blocked
  <2> QED
    BY <1>6, <2>1, <2>2
<1>8. \A l \in Sessions \cup {Nil} : WaitRead(l) = {}
  <2> SUFFICES ASSUME NEW l \in Sessions \cup {Nil}, NEW x \in WaitRead(l) PROVE FALSE
    OBVIOUS
  <2>1. \A k \in Locks : x \in WaitRead(k) => k = l
    BY <1>1, Roles DEF WaitRead
  <2>2. PICK k \in Locks : x \in WaitRead(k) /\ ~CanRLock(x, k)
    BY <1>2, <1>3 DEF Blocked
  <2> QED
    BY <1>1, <1>7, <2>1, <2>2 DEF CanRLock, Locked
<1>9. \A a \in Admins : admin[a].at \notin {"scan", "hold"}
  <2> SUFFICES ASSUME NEW a \in Admins, admin[a].at \in {"scan", "hold"} PROVE FALSE
    OBVIOUS
  <2>1. CASE admin[a].at = "hold"
    BY <1>1, <1>7, <2>1 DEF WaitWrite
  <2>2. CASE admin[a].at = "scan" /\ admin[a].left # {}
    BY <1>1, <1>8, <2>2 DEF WaitRead
  <2>3. CASE admin[a].at = "scan" /\ admin[a].left = {}
    <3>1. a \in Busy /\ a \notin Threads
      BY <2>3, Roles DEF Busy
    <3>2. \A l : a \notin WaitRead(l) /\ a \notin WaitWrite(l)
      BY <2>3, <3>1 DEF WaitRead, WaitWrite
    <3> QED
      BY <3>1, <3>2 DEF Blocked
  <2> QED
    BY <2>1, <2>2, <2>3
<1>10. CanLock(Manager) /\ ~Locked(Manager)
  BY <1>1, <1>4, <1>5, <1>9 DEF CanLock, Holders, Locked
<1>11. WaitWrite(Manager) = {}
  <2> SUFFICES ASSUME NEW x \in WaitWrite(Manager) PROVE FALSE
    OBVIOUS
  <2>1. PICK k \in Locks : x \in WaitWrite(k) /\ ~CanLock(k)
    BY <1>2, <1>3 DEF Blocked
  <2> QED
    BY <1>6, <1>10, <2>1
<1> QED
  <2>1. PICK l \in Locks : \/ y \in WaitRead(l) /\ ~CanRLock(y, l)
                           \/ y \in WaitWrite(l) /\ ~CanLock(l)
    BY DEF Blocked
  <2> QED
    BY <1>6, <1>8, <1>10, <1>11, <2>1 DEF CanRLock

\* The goroutines never all wait for each other's locks, for any number of
\* players, connections and sessions: as long as one is at work, one of them is
\* not kept by a lock.  (It may be kept by a receiver that has stopped reading.)
THEOREM NoDeadlock == Spec => []NoLockCycle
<1>1. RoutingInv => NoLockCycle
  BY SomeoneGoes
<1> QED
  BY <1>1, RoutingInvHolds, PTL

\* Whoever changes the session of a player does what RelayDirectory allows: a
\* request that moves a player, in two lock sections, has taken it out of the first
\* session when it adds it to the second, and nobody else has added it meanwhile.
THEOREM MembershipKeepsDirectory == Spec => KeepsDirectory
<1>1. RoutingInv /\ [Next]_vars => [Directory!Next]_session
  <2> SUFFICES ASSUME RoutingInv, [Next]_vars, session' # session
               PROVE  Directory!Next
    OBVIOUS
  <2>1. PICK a \in Admins : RemovePlayer(a) \/ AddPlayer(a)
    BY ZenonT(40) DEF Next, vars, conns, Receive, Step, FindSessionByPlayer, LockSession, UpdatePlayer,
       GetPlayerTarget, ForEachOtherPlayerTarget, EndBroadcast, sendToTarget, Write,
       WriteTimesOut, ClearDeadline, ReadFails, Reconnect, Stall, Drain, Request, Tick,
       Administer, ReapStaleSessions, Candidates, StalePlayers, LockManager
  <2> DEFINE p == admin[a].p
             next == admin[a].next
  <2>2. /\ p \in Players /\ next \in Sessions \cup {Nil}
        /\ session \in [Players -> Sessions \cup {Nil}]
    BY <2>1 DEF RoutingInv, TypeOK, AdminsKnow, Admin, RemovePlayer, AddPlayer
  <2>3. CASE RemovePlayer(a)
    <3>1. session' = [session EXCEPT ![p] = Nil]
      BY <2>3 DEF RemovePlayer
    <3>2. \A s \in Sessions : Members(s)' = Members(s) \ {p}
      BY <2>2, <3>1, NamesDiffer DEF Members
    <3>3. Directory!Expire({p}, {})
      BY <3>2 DEF Directory!Expire
    <3> QED
      BY <2>2, <3>3 DEF Directory!Next
  <2>4. CASE AddPlayer(a)
    <3>1. a = Api /\ session' = [session EXCEPT ![p] = next] /\ session[p] = Nil
      BY <2>4 DEF AddPlayer, RoutingInv, AdminsKnow
    <3>2. next \in Sessions
      BY <2>2, <3>1
    <3>3. /\ p \notin Members(next)
          /\ \A s \in Sessions : Members(s)' = IF s = next THEN Members(s) \cup {p}
                                               ELSE Members(s) \ {p}
      BY <2>2, <3>1, <3>2, NamesDiffer DEF Members
    <3>4. Directory!Register(next, p)
      BY <2>2, <3>2, <3>3 DEF Directory!Register, Members
    <3> QED
      BY <2>2, <3>2, <3>4 DEF Directory!Next
  <2> QED
    BY <2>1, <2>3, <2>4
<1> QED
  BY <1>1, RoutingInvHolds, PTL DEF Spec, KeepsDirectory
=============================================================================
