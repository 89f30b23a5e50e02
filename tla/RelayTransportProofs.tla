------------------------ MODULE RelayTransportProofs ------------------------
(***************************************************************************)
(* The safety properties of RelayTransport for every number of players,    *)
(* hosts and connections and for every limit.                              *)
(*                                                                         *)
(* The inductive invariant is the conjunction of the three properties: the *)
(* type of activeConns needs the count, and the pin needs the types.       *)
(***************************************************************************)
EXTENDS RelayTransport, FiniteSetTheorems, TLAPS

TransportInv == TypeOK /\ PinMatchesConn /\ ConnsCounted

-----------------------------------------------------------------------------
(* Handlers *)

(* The set of running handlers is finite. *)
LEMMA ServingFinite ==
  /\ IsFiniteSet(Serving)
  /\ Cardinality(Serving) \in Nat
BY ConnLimit, FS_Subset, FS_CardinalityType DEF Serving

(* TCPHandler.Run starts a handler: one more is running. *)
LEMMA HandlerStarts ==
  ASSUME TypeOK, NEW c \in Conns, handler[c] = "backlog",
         handler' = [handler EXCEPT ![c] = "read"]
  PROVE  Cardinality(Serving)' = Cardinality(Serving) + 1
<1>1. c \notin Serving
  BY DEF Serving
<1>2. Serving' = Serving \cup {c}
  BY DEF Serving, TypeOK
<1> QED
  BY <1>1, <1>2, ServingFinite, FS_AddElement

(* handleConn returns: one less is running, and there was at least one. *)
LEMMA HandlerEnds ==
  ASSUME TypeOK, NEW c \in Conns, handler[c] \in {"read", "update", "write"},
         handler' = [handler EXCEPT ![c] = "none"]
  PROVE  /\ Cardinality(Serving)' = Cardinality(Serving) - 1
         /\ Cardinality(Serving) > 0
<1>1. c \in Serving
  BY DEF Serving
<1>2. Serving' = Serving \ {c}
  BY DEF Serving, TypeOK
<1>3. Cardinality(Serving)' = Cardinality(Serving) - 1
  BY <1>1, <1>2, ServingFinite, FS_RemoveElement, SMTT(30)
<1>4. Cardinality(Serving) # 0
  BY <1>1, ServingFinite, FS_EmptySet
<1> QED
  BY <1>3, <1>4, ServingFinite

(* A handler that goes on, and a connection that is dialed or refused,     *)
(* leave the set of running handlers as it is.                             *)
LEMMA HandlerGoesOn ==
  ASSUME TypeOK, NEW c \in Conns, NEW s,
         handler' = [handler EXCEPT ![c] = s],
         handler[c] \in {"read", "update", "write"} <=> s \in {"read", "update", "write"}
  PROVE  Serving' = Serving
BY DEF Serving, TypeOK

-----------------------------------------------------------------------------
(* Steps *)

(* A step is one of these. *)
LEMMA StepCases ==
  ASSUME Next
  PROVE  \/ \E p \in Players : ReapPlayer(p)
         \/ \E d \in datagrams : DropDatagram(d) \/ HandleDatagram(d)
         \/ \E c \in Conns : Accept(c)
         \/ \E c \in Conns : ReadFrame(c)
         \/ \E c \in Conns : handler[c] \in {"read", "update", "write"} /\ Return(c)
         \/ \E c \in Conns : AcceptFrame(c)
         \/ \E c \in Conns : DropFrame(c) \/ WritesDone(c)
         \/ \E c \in Conns : CloseEvicted(c)
         \/ \E p \in Players : Register(p)
         \/ \E p \in Players : SendUDP(p)
         \/ \E p \in Players : SendTCP(p)
         \/ \E p \in Players : LoseConn(p)
         \/ \E p \in Players, c \in Conns : Dial(p, c)
         \/ \E p \in Players, h \in Hosts : Restart(p, h)
         \/ \E p \in Players, h \in Hosts : leaveRelay(p, h)
BY DEF Next, RelayNext, AdapterNext, ReadFails, ReadTimeout, RejectConn,
       EchoFails, SeesClose, LinkBreaks, SwitchToTCP, reconnectTCP

(* activeConns keeps counting the handlers, below the limit. *)
LEMMA CountPreserved ==
  ASSUME TransportInv, [Next]_vars
  PROVE  ConnsCounted'
<1> USE DEF TransportInv
<1>0. ASSUME UNCHANGED <<handler, activeConns>>
      PROVE  ConnsCounted'
  BY <1>0 DEF ConnsCounted, Serving
<1>1. ASSUME UNCHANGED activeConns, Serving' = Serving
      PROVE  ConnsCounted'
  BY <1>1 DEF ConnsCounted
<1>2. ASSUME NEW c \in Conns, Accept(c)
      PROVE  ConnsCounted'
  <2>1. CASE activeConns >= MaxTCPConns
    <3>1. handler' = [handler EXCEPT ![c] = "none"] /\ UNCHANGED activeConns
      BY <1>2, <2>1, ConnLimit DEF Accept, TypeOK
    <3>2. Serving' = Serving
      BY <1>2, <3>1, HandlerGoesOn, ZenonT(40) DEF Accept
    <3> QED
      BY <1>1, <3>1, <3>2
  <2>2. CASE activeConns < MaxTCPConns
    <3>1. handler' = [handler EXCEPT ![c] = "read"] /\ activeConns' = activeConns + 1
      BY <1>2, <2>2, ConnLimit DEF Accept, TypeOK
    <3>2. Cardinality(Serving)' = Cardinality(Serving) + 1
      BY <1>2, <3>1, HandlerStarts, ZenonT(40) DEF Accept
    <3> QED
      BY <2>2, <3>1, <3>2, ConnLimit DEF ConnsCounted, TypeOK
  <2> QED
    BY <2>1, <2>2, ConnLimit DEF TypeOK
<1>3. ASSUME NEW c \in Conns, handler[c] \in {"read", "update", "write"}, Return(c)
      PROVE  ConnsCounted'
  <2>1. Cardinality(Serving)' = Cardinality(Serving) - 1
    BY <1>3, HandlerEnds, ZenonT(40) DEF Return
  <2> QED
    BY <1>3, <2>1, ConnLimit DEF Return, ConnsCounted, TypeOK
<1>4. ASSUME NEW c \in Conns, \/ ReadFrame(c) \/ AcceptFrame(c)
                           \/ DropFrame(c) \/ WritesDone(c)
      PROVE  ConnsCounted'
  <2>1. /\ \E s \in {"read", "update", "write"} : handler' = [handler EXCEPT ![c] = s]
        /\ handler[c] \in {"read", "update", "write"}
        /\ UNCHANGED activeConns
    BY <1>4 DEF ReadFrame, AcceptFrame, DropFrame, WritesDone
  <2>2. Serving' = Serving
    BY <2>1, HandlerGoesOn, ZenonT(40)
  <2> QED
    BY <1>1, <2>1, <2>2
<1>5. ASSUME NEW p \in Players, NEW c \in Conns, Dial(p, c)
      PROVE  ConnsCounted'
  <2>1. /\ handler' = [handler EXCEPT ![c] = "backlog"]
        /\ handler[c] = "none"
        /\ UNCHANGED activeConns
    BY <1>5 DEF Dial, Free
  <2>2. Serving' = Serving
    BY <2>1, HandlerGoesOn, ZenonT(40)
  <2> QED
    BY <1>1, <2>1, <2>2
<1>6. CASE UNCHANGED vars
  BY <1>0, <1>6 DEF vars, server
<1>7. ASSUME NEW p \in Players,
             \/ ReapPlayer(p) \/ Register(p) \/ SendUDP(p) \/ SendTCP(p) \/ LoseConn(p)
             \/ \E h \in Hosts : Restart(p, h) \/ leaveRelay(p, h)
      PROVE  ConnsCounted'
  BY <1>0, <1>7 DEF ReapPlayer, Register, SendUDP, SendTCP, LoseConn, Restart,
                    leaveRelay, NewProcess, server
<1>8. ASSUME NEW d \in datagrams, DropDatagram(d) \/ HandleDatagram(d)
      PROVE  ConnsCounted'
  BY <1>0, <1>8 DEF DropDatagram, HandleDatagram, server
<1>9. ASSUME NEW c \in Conns, CloseEvicted(c)
      PROVE  ConnsCounted'
  BY <1>0, <1>9 DEF CloseEvicted
<1> QED
  BY StepCases, <1>2, <1>3, <1>4, <1>5, <1>6, <1>7, <1>8, <1>9, SMTT(30)

(* The pin of a player stays the address of its connection. *)
LEMMA PinPreserved ==
  ASSUME TransportInv, [Next]_vars
  PROVE  PinMatchesConn'
<1> USE DEF TransportInv
<1>0. ASSUME UNCHANGED <<tcpConn, tcpIP, from>>
      PROVE  PinMatchesConn'
  BY <1>0 DEF PinMatchesConn
<1>1. ASSUME NEW p \in Players, NoTransport(p), UNCHANGED from
      PROVE  PinMatchesConn'
  BY <1>1 DEF NoTransport, PinMatchesConn, TypeOK
<1>2. ASSUME NEW d \in datagrams, HandleDatagram(d)
      PROVE  PinMatchesConn'
  <2>1. d.from \in Players
    BY DEF TypeOK
  <2>2. UpdatePlayerAddr(d.from, d.host) /\ UNCHANGED from
    BY <1>2, SMTT(30) DEF HandleDatagram, wire
  <2> QED
    BY <2>1, <2>2 DEF UpdatePlayerAddr, PinMatchesConn, TypeOK
<1>3. ASSUME NEW c \in Conns, AcceptFrame(c)
      PROVE  PinMatchesConn'
  <2> DEFINE p == owner[c]
  <2>1. p \in Players
    BY OwnersArePlayers, SMTT(30)
  <2>2. /\ tcpIP[p] \in {Nil, from[c]}
        /\ tcpConn' = [tcpConn EXCEPT ![p] = c]
        /\ tcpIP' = [tcpIP EXCEPT ![p] = IF @ = Nil THEN from[c] ELSE @]
        /\ UNCHANGED from
    BY <1>3 DEF AcceptFrame, UpdatePlayerTCP, wire
  <2>3. c # Nil
    BY NilIsNoTarget, SMTT(30)
  <2> HIDE DEF p
  <2>4. tcpConn'[p] = c /\ tcpIP'[p] = from[c]
    BY <2>1, <2>2, SMTT(30) DEF TypeOK
  <2>5. \A q \in Players \ {p} : tcpConn'[q] = tcpConn[q] /\ tcpIP'[q] = tcpIP[q]
    BY <2>2, SMTT(30) DEF TypeOK
  <2> QED
    BY <2>2, <2>3, <2>4, <2>5, SMTT(30) DEF PinMatchesConn
<1>4. ASSUME NEW p \in Players, NEW c \in Conns, Dial(p, c)
      PROVE  PinMatchesConn'
  <2>1. \A q \in Players : tcpConn[q] # c
    BY <1>4, SMTT(30) DEF Dial, Free
  <2>2. UNCHANGED <<tcpConn, tcpIP>> /\ from' = [from EXCEPT ![c] = host[p]]
    BY <1>4, SMTT(30) DEF Dial, session
  <2>3. \A q \in Players : tcpConn[q] # Nil => from'[tcpConn[q]] = from[tcpConn[q]]
    BY <2>1, <2>2 DEF TypeOK
  <2> QED
    BY <2>2, <2>3 DEF PinMatchesConn
<1>5. CASE UNCHANGED vars
  BY <1>0, <1>5, SMTT(30) DEF vars, session, wire
<1>6. ASSUME NEW p \in Players,
             \/ ReapPlayer(p) \/ Register(p)
             \/ \E h \in Hosts : leaveRelay(p, h)
      PROVE  PinMatchesConn'
  BY <1>1, <1>6, SMTT(30) DEF ReapPlayer, Register, RemovePlayer, leaveRelay, NewProcess, wire
<1>7. ASSUME NEW p \in Players,
             \/ SendUDP(p) \/ SendTCP(p) \/ LoseConn(p)
             \/ \E h \in Hosts : Restart(p, h)
      PROVE  PinMatchesConn'
  BY <1>0, <1>7, SMTT(30) DEF SendUDP, SendTCP, LoseConn, Restart, NewProcess, session, wire
<1>8. ASSUME NEW c \in Conns,
             \/ Accept(c) \/ ReadFrame(c) \/ Return(c) \/ DropFrame(c) \/ WritesDone(c)
             \/ CloseEvicted(c)
      PROVE  PinMatchesConn'
  BY <1>0, <1>8 DEF Accept, ReadFrame, Return, DropFrame, WritesDone, CloseEvicted,
                    session, wire
<1>9. ASSUME NEW d \in datagrams, DropDatagram(d)
      PROVE  PinMatchesConn'
  BY <1>0, <1>9, SMTT(30) DEF DropDatagram, session, wire
<1> QED
  BY StepCases, <1>2, <1>3, <1>4, <1>5, <1>6, <1>7, <1>8, <1>9

(* Types are preserved. *)
LEMMA TypePreserved ==
  ASSUME TransportInv, [Next]_vars
  PROVE  TypeOK'
<1> USE DEF TransportInv
<1>1. ASSUME NEW p \in Players, ReapPlayer(p)
      PROVE  TypeOK'
  BY <1>1, SMTT(30) DEF ReapPlayer, RemovePlayer, NoTransport, TypeOK, wire, adapter
<1>2. ASSUME NEW d \in datagrams, DropDatagram(d) \/ HandleDatagram(d)
      PROVE  TypeOK'
  BY <1>2, SMTT(30) DEF DropDatagram, HandleDatagram, UpdatePlayerAddr, TypeOK, session, server,
              wire, adapter
<1>3. ASSUME NEW c \in Conns, Accept(c)
      PROVE  TypeOK'
  BY <1>3, BoundsAreNat, SMTT(30) DEF Accept, Close, TypeOK, session, adapter
<1>4. ASSUME NEW c \in Conns, ReadFrame(c)
      PROVE  TypeOK'
  BY <1>4, BoundsAreNat, SMTT(30) DEF ReadFrame, TypeOK, session, adapter
<1>5. ASSUME NEW c \in Conns, handler[c] \in {"read", "update", "write"}, Return(c)
      PROVE  TypeOK'
  <2>1. Cardinality(Serving) > 0
    BY <1>5, HandlerEnds, ZenonT(40) DEF Return
  <2>2. activeConns > 0
    BY <2>1 DEF ConnsCounted
  <2> QED
    BY <1>5, <2>2, BoundsAreNat, SMTT(30) DEF Return, Close, TypeOK, session, adapter
<1>6. ASSUME NEW c \in Conns, AcceptFrame(c)
      PROVE  TypeOK'
  BY <1>6, OwnersArePlayers DEF AcceptFrame, UpdatePlayerTCP, Evict, TypeOK, wire, adapter
<1>7. ASSUME NEW c \in Conns, DropFrame(c) \/ WritesDone(c)
      PROVE  TypeOK'
  BY <1>7 DEF DropFrame, WritesDone, TypeOK, session, wire, adapter
<1>8. ASSUME NEW c \in Conns, CloseEvicted(c)
      PROVE  TypeOK'
  BY <1>8, BoundsAreNat DEF CloseEvicted, Close, TypeOK, session, adapter
<1>9. ASSUME NEW p \in Players, Register(p)
      PROVE  TypeOK'
  BY <1>9 DEF Register, NoTransport, TypeOK, server, wire
<1>10. ASSUME NEW p \in Players, SendUDP(p)
       PROVE  TypeOK'
  BY <1>10 DEF SendUDP, TypeOK, session, server, wire, adapter
<1>11. ASSUME NEW p \in Players, SendTCP(p)
       PROVE  TypeOK'
  BY <1>11, BoundsAreNat DEF SendTCP, TypeOK, session, server, adapter
<1>12. ASSUME NEW p \in Players, LoseConn(p)
       PROVE  TypeOK'
  BY <1>12, SMTT(30) DEF LoseConn, TypeOK, session, server, wire
<1>13. ASSUME NEW p \in Players, NEW c \in Conns, Dial(p, c)
       PROVE  TypeOK'
  BY <1>13, BoundsAreNat, SMTT(30) DEF Dial, TypeOK, session
<1>14. ASSUME NEW p \in Players, NEW h \in Hosts, Restart(p, h)
       PROVE  TypeOK'
  BY <1>14, BoundsAreNat, SMTT(30) DEF Restart, NewProcess, TypeOK, session, server, wire
<1>15. ASSUME NEW p \in Players, NEW h \in Hosts, leaveRelay(p, h)
       PROVE  TypeOK'
  BY <1>15, BoundsAreNat, SMTT(30) DEF leaveRelay, RemovePlayer, NoTransport, NewProcess, TypeOK,
                             server, wire
<1>16. CASE UNCHANGED vars
  BY <1>16 DEF vars, session, server, wire, adapter, TypeOK
<1> QED
  BY SMTT(30), StepCases, <1>1, <1>2, <1>3, <1>4, <1>5, <1>6, <1>7, <1>8, <1>9, <1>10, <1>11,
     <1>12, <1>13, <1>14, <1>15, <1>16

-----------------------------------------------------------------------------
(* Theorems *)

(* The invariant holds in every state of every behaviour of the relay and  *)
(* its adapters.                                                           *)
LEMMA TransportInvariant == Spec => []TransportInv
<1>1. Init => TransportInv
  <2> SUFFICES ASSUME Init PROVE TransportInv
    OBVIOUS
  <2>1. TypeOK
    BY BoundsAreNat DEF Init, TypeOK
  <2>2. PinMatchesConn
    BY DEF Init, PinMatchesConn
  <2>3. Serving = {}
    BY DEF Init, Serving
  <2>4. ConnsCounted
    BY <2>3, FS_EmptySet, ConnLimit DEF Init, ConnsCounted
  <2> QED
    BY <2>1, <2>2, <2>4 DEF TransportInv
<1>2. TransportInv /\ [Next]_vars => TransportInv'
  BY CountPreserved, PinPreserved, TypePreserved DEF TransportInv
<1> QED
  BY <1>1, <1>2, PTL DEF Spec

(* A player's TCP pin is always the IP of the connection it is reached by, *)
(* and nobody without such a connection is pinned (UpdatePlayerTCP,        *)
(* UpdatePlayerAddr, ResetPlayerTransport).                                *)
THEOREM PinFollowsConn == Spec => []PinMatchesConn
<1>1. TransportInv => PinMatchesConn
  BY DEF TransportInv
<1> QED
  BY <1>1, TransportInvariant, PTL

(* activeConns is the number of handlers and stays within maxTCPConns      *)
(* (TCPHandler.Run, handleConn).                                           *)
THEOREM ConnLimitKept == Spec => []ConnsCounted
<1>1. TransportInv => ConnsCounted
  BY DEF TransportInv
<1> QED
  BY <1>1, TransportInvariant, PTL

(* Every variable keeps its type; in particular activeConns never becomes  *)
(* negative.                                                               *)
THEOREM TransportTypes == Spec => []TypeOK
<1>1. TransportInv => TypeOK
  BY DEF TransportInv
<1> QED
  BY <1>1, TransportInvariant, PTL
=============================================================================
