------------------------ MODULE SessionManagerProofs ------------------------
(***************************************************************************)
(* Safety of the session tables, for every set of session IDs, players and *)
(* objects and every value of the limits and timeouts.                     *)
(***************************************************************************)
EXTENDS SessionManager, FiniteSetTheorems, TLAPS

\* The capped player limit of a create request is a legal one.
LEMMA EffectiveMaxPlayersType ==
  ASSUME NEW n \in Requested
  PROVE  EffectiveMaxPlayers(n) \in 0 .. MaxSessionPlayers
BY LimitsAreNumbers DEF EffectiveMaxPlayers

\* Dropping unreachable objects keeps the types of their fields.
LEMMA RetainType ==
  ASSUME TypeOK, NEW kept, NEW members \in [Objects -> SUBSET Players],
         Retain(kept, members, lastSeenAge)
  PROVE  /\ id' \in [Objects -> SessionIDs \cup {Nil}]
         /\ maxPlayers' \in [Objects -> 0 .. MaxSessionPlayers]
         /\ createdAge' \in [Objects -> SessionAge]
         /\ players' \in [Objects -> SUBSET Players]
         /\ lastSeenAge' \in [Objects -> [Players -> SeenAge \cup {Nil}]]
<1>1. 0 \in 0 .. MaxSessionPlayers /\ 0 \in SessionAge
  BY LimitsAreNumbers, TimeoutOrder DEF SessionAge
<1> QED
  BY <1>1 DEF TypeOK, Retain

\* The size of a finite set can be subtracted from a gauge.
LEMMA CardinalityIsInt ==
  ASSUME NEW S \in SUBSET Players
  PROVE  IsFiniteSet(S) /\ Cardinality(S) \in Nat
BY FiniteTables, FS_Subset, FS_CardinalityType

\* One reaper cycle removes finitely many players.
LEMMA RemovedPairsFinite ==
  IsFiniteSet(RemovedPairs) /\ Cardinality(RemovedPairs) \in Nat
BY FiniteTables, FS_Product, FS_Subset, FS_CardinalityType, ZenonT(40) DEF RemovedPairs

\* One reaper cycle removes finitely many sessions.
LEMMA RemovedSessionsFinite ==
  IsFiniteSet(RemovedSessions) /\ Cardinality(RemovedSessions) \in Nat
BY FiniteTables, FS_Subset, FS_CardinalityType, ZenonT(40) DEF RemovedSessions

\* What is removed for an ID is a set of players.
LEMMA RemovedPIDsType ==
  ASSUME TypeOK, NEW sid \in SessionIDs
  PROVE  RemovedPIDs(sid) \in SUBSET Players
BY DEF TypeOK, RemovedPIDs

\* The empty tables have their types.
LEMMA TypeInitially == Init => TypeOK
<1>1. 0 \in 0 .. MaxSessionPlayers /\ 0 \in SessionAge
  BY LimitsAreNumbers, TimeoutOrder DEF SessionAge
<1>2. Init => orphanReaped \in BOOLEAN
  BY ZenonT(40) DEF Init
<1>3. Init => /\ sessions \in [SessionIDs -> Objects \cup {Nil}]
              /\ playerIndex \in [Players -> SessionIDs \cup {Nil}]
              /\ activeSessions \in Int /\ activePlayers \in Int
              /\ id \in [Objects -> SessionIDs \cup {Nil}]
              /\ maxPlayers \in [Objects -> 0 .. MaxSessionPlayers]
              /\ createdAge \in [Objects -> SessionAge]
              /\ players \in [Objects -> SUBSET Players]
  BY <1>1 DEF Init
<1>4. Init => /\ lastSeenAge \in [Objects -> [Players -> SeenAge \cup {Nil}]]
              /\ candidate \in [SessionIDs -> Objects \cup {Nil}]
              /\ stalePIDs \in [SessionIDs -> SUBSET Players]
  BY DEF Init
<1> QED
  BY <1>2, <1>3, <1>4 DEF TypeOK

\* Every step keeps the types.
LEMMA TypePreserved == TypeOK /\ [Next]_vars => TypeOK'
<1> SUFFICES ASSUME TypeOK, [Next]_vars PROVE TypeOK'
  OBVIOUS
<1> USE DEF tables, objects, reaper
<1>1. ASSUME NEW sid \in SessionIDs, NEW n \in Requested, CreateSession(sid, n)
      PROVE  TypeOK'
  BY <1>1, EffectiveMaxPlayersType DEF TypeOK, CreateSession
<1>2. ASSUME NEW sid \in SessionIDs, NEW p \in Players, Rejoin(sid, p)
      PROVE  TypeOK'
  BY <1>2 DEF TypeOK, Rejoin
<1>3. ASSUME NEW sid \in SessionIDs, NEW p \in Players, Join(sid, p)
      PROVE  TypeOK'
  <2>1. Leaving(p) \in Int
    BY DEF Leaving
  <2>2. players' \in [Objects -> SUBSET Players]
    BY <1>3 DEF TypeOK, Join, AfterRemoval
  <2>3. lastSeenAge' \in [Objects -> [Players -> SeenAge \cup {Nil}]]
    BY <1>3 DEF TypeOK, Join
  <2> QED
    BY <1>3, <2>1, <2>2, <2>3 DEF TypeOK, Join
<1>4. ASSUME NEW sid \in SessionIDs, NEW p \in Players, RefusedMigration(sid, p)
      PROVE  TypeOK'
  <2>1. players' \in [Objects -> SUBSET Players]
    BY <1>4 DEF TypeOK, RefusedMigration, AfterRemoval
  <2>2. lastSeenAge' \in [Objects -> [Players -> SeenAge \cup {Nil}]]
    BY <1>4 DEF TypeOK, RefusedMigration
  <2> QED
    BY <1>4, <2>1, <2>2 DEF TypeOK, RefusedMigration
<1>5. ASSUME NEW sid \in SessionIDs, NEW p \in Players,
             RemovePlayerFromSession(sid, p)
      PROVE  TypeOK'
  BY <1>5 DEF TypeOK, RemovePlayerFromSession
<1>6. ASSUME NEW o \in Objects, NEW p \in Players, NEW age \in SeenAge,
             UpdatePlayer(o, p, age)
      PROVE  TypeOK'
  BY <1>6 DEF TypeOK, UpdatePlayer
<1>7. CASE Collect
  BY <1>7 DEF TypeOK, Collect, StalePlayers, IsCandidate
<1>8. CASE Reap
  <2>1. [o \in Objects |-> players[o] \ ReapedFrom(o)] \in [Objects -> SUBSET Players]
    BY DEF TypeOK
  <2>2. activePlayers' \in Int /\ activeSessions' \in Int
    BY <1>8, RemovedPairsFinite, RemovedSessionsFinite DEF TypeOK, Reap
  <2>3. /\ id' \in [Objects -> SessionIDs \cup {Nil}]
        /\ maxPlayers' \in [Objects -> 0 .. MaxSessionPlayers]
        /\ createdAge' \in [Objects -> SessionAge]
        /\ players' \in [Objects -> SUBSET Players]
        /\ lastSeenAge' \in [Objects -> [Players -> SeenAge \cup {Nil}]]
    BY <1>8, <2>1, RetainType DEF Reap
  <2>4. /\ sessions' \in [SessionIDs -> Objects \cup {Nil}]
        /\ playerIndex' \in [Players -> SessionIDs \cup {Nil}]
        /\ candidate' \in [SessionIDs -> Objects \cup {Nil}]
        /\ stalePIDs' \in [SessionIDs -> SUBSET Players]
    BY <1>8 DEF TypeOK, Reap
  <2>5. orphanReaped' \in BOOLEAN
    BY <1>8 DEF TypeOK, Reap
  <2> QED
    BY <2>2, <2>3, <2>4, <2>5 DEF TypeOK
<1>9. CASE Tick
  <2>1. \A a \in SessionAge : Older(a, SessionEmptyTimeout) \in SessionAge
    BY TimeoutOrder DEF Older, SessionAge
  <2>2. \A a \in SeenAge : Older(a, PlayerTimeout) \in SeenAge
    BY TimeoutOrder DEF Older, SeenAge
  <2> QED
    BY <1>9, <2>1, <2>2 DEF TypeOK, Tick
<1>10. ASSUME NEW sid \in SessionIDs, DeleteSession(sid)
       PROVE  TypeOK'
  <2>1. players[sessions[sid]] \in SUBSET Players
    BY <1>10 DEF TypeOK, DeleteSession
  <2>2. activePlayers' \in Int /\ activeSessions' \in Int
    BY <1>10, <2>1, CardinalityIsInt DEF TypeOK, DeleteSession
  <2>3. /\ id' \in [Objects -> SessionIDs \cup {Nil}]
        /\ maxPlayers' \in [Objects -> 0 .. MaxSessionPlayers]
        /\ createdAge' \in [Objects -> SessionAge]
        /\ players' \in [Objects -> SUBSET Players]
        /\ lastSeenAge' \in [Objects -> [Players -> SeenAge \cup {Nil}]]
    BY <1>10, RetainType DEF DeleteSession, TypeOK
  <2> QED
    BY <1>10, <2>2, <2>3 DEF TypeOK, DeleteSession
<1>11. CASE UNCHANGED vars
  BY <1>11 DEF TypeOK, vars
<1> QED
  BY <1>1, <1>2, <1>3, <1>4, <1>5, <1>6, <1>7, <1>8, <1>9, <1>10, <1>11
  DEF Next, NextNoDelete, Activity, AddPlayerToSession

\* Every variable keeps its type: the maps, ages and counters of session.go.
THEOREM TypeCorrect == Spec => []TypeOK
BY TypeInitially, TypePreserved, PTL DEF Spec

-----------------------------------------------------------------------------
(* The objects behind the tables.                                          *)

\* Map entries and reaper entries keep pointing to objects of their own ID.
LEMMA ObjectsPreserved ==
  TypeOK /\ ObjectsConsistent /\ [Next]_vars => ObjectsConsistent'
<1> SUFFICES ASSUME TypeOK, ObjectsConsistent, [Next]_vars
             PROVE  ObjectsConsistent'
  OBVIOUS
<1> USE NilIsNoValue DEF tables, objects, reaper
<1>1. ASSUME NEW sid \in SessionIDs, NEW n \in Requested, CreateSession(sid, n)
      PROVE  ObjectsConsistent'
  BY <1>1 DEF TypeOK, ObjectsConsistent, CreateSession
<1>2. ASSUME NEW sid \in SessionIDs, NEW p \in Players, Rejoin(sid, p)
      PROVE  ObjectsConsistent'
  BY <1>2 DEF ObjectsConsistent, Rejoin
<1>3. ASSUME NEW sid \in SessionIDs, NEW p \in Players, Join(sid, p)
      PROVE  ObjectsConsistent'
  <2>1. \A o \in Objects : players'[o] # {} => players[o] # {} \/ o = sessions[sid]
    BY <1>3, ZenonT(40) DEF TypeOK, Join, AfterRemoval
  <2> QED
    BY <1>3, <2>1, ZenonT(40) DEF TypeOK, ObjectsConsistent, Join
<1>4. ASSUME NEW sid \in SessionIDs, NEW p \in Players, RefusedMigration(sid, p)
      PROVE  ObjectsConsistent'
  BY <1>4 DEF TypeOK, ObjectsConsistent, RefusedMigration, AfterRemoval
<1>5. ASSUME NEW sid \in SessionIDs, NEW p \in Players,
             RemovePlayerFromSession(sid, p)
      PROVE  ObjectsConsistent'
  BY <1>5 DEF TypeOK, ObjectsConsistent, RemovePlayerFromSession
<1>6. ASSUME NEW o \in Objects, NEW p \in Players, NEW age \in SeenAge,
             UpdatePlayer(o, p, age)
      PROVE  ObjectsConsistent'
  BY <1>6 DEF ObjectsConsistent, UpdatePlayer
<1>7. CASE Collect
  BY <1>7, SMTT(30) DEF TypeOK, ObjectsConsistent, Collect, IsCandidate
<1>8. CASE Reap
  BY <1>8, SMTT(30) DEF TypeOK, ObjectsConsistent, Reap, Retain, InTable
<1>9. CASE Tick
  BY <1>9 DEF ObjectsConsistent, Tick
<1>10. ASSUME NEW sid \in SessionIDs, DeleteSession(sid)
       PROVE  ObjectsConsistent'
  BY <1>10, SMTT(30) DEF TypeOK, ObjectsConsistent, DeleteSession, Retain, InTable
<1>11. CASE UNCHANGED vars
  BY <1>11 DEF ObjectsConsistent, vars
<1> QED
  BY <1>1, <1>2, <1>3, <1>4, <1>5, <1>6, <1>7, <1>8, <1>9, <1>10, <1>11
  DEF Next, NextNoDelete, Activity, AddPlayerToSession

-----------------------------------------------------------------------------
(* What phase 2 of the reaper removes when no candidate is an orphan.      *)

\* A player that is removed is indexed under the ID of the candidate.
LEMMA ReapedPlayersIndexed ==
  ASSUME TypeOK, IndexAgrees, Reap, ~orphanReaped',
         NEW sid \in SessionIDs, NEW p \in RemovedPIDs(sid)
  PROVE  /\ sessions[sid] # Nil
         /\ candidate[sid] = sessions[sid]
         /\ p \in players[sessions[sid]]
         /\ playerIndex[p] = sid
<1>1. candidate[sid] # Nil /\ p \in players[candidate[sid]] /\ p \in Players
  BY DEF TypeOK, RemovedPIDs, StalePlayers
<1>2. ~orphanReaped /\ candidate[sid] = sessions[sid]
  BY <1>1, ZenonT(40) DEF Reap
<1> QED
  BY <1>1, <1>2 DEF IndexAgrees

\* A session that is removed is the candidate, and all its players are.
LEMMA ReapedSessionsEmptied ==
  ASSUME TypeOK, Reap, ~orphanReaped', NEW sid \in RemovedSessions
  PROVE  /\ sid \in SessionIDs
         /\ sessions[sid] # Nil
         /\ candidate[sid] = sessions[sid]
         /\ players[sessions[sid]] \subseteq RemovedPIDs(sid)
<1>1. sid \in SessionIDs /\ candidate[sid] # Nil
  BY DEF RemovedSessions
<1>2. candidate[sid] = sessions[sid]
  BY <1>1, ZenonT(40) DEF Reap
<1>3. players[candidate[sid]] \ RemovedPIDs(sid) = {}
  BY DEF RemovedSessions, EmptyAndOld
<1> QED
  BY <1>1, <1>2, <1>3

\* What is left of an open session.
LEMMA ReapedRoster ==
  ASSUME TypeOK, ObjectsConsistent, IndexAgrees, Reap, ~orphanReaped',
         NEW sid \in SessionIDs, sid \notin RemovedSessions, sessions[sid] # Nil
  PROVE  /\ sessions'[sid] = sessions[sid]
         /\ players'[sessions[sid]] = players[sessions[sid]] \ RemovedPIDs(sid)
<1> DEFINE o == sessions[sid]
<1>1. sessions'[sid] = o /\ o \in Objects
  BY DEF TypeOK, Reap
<1>2. o \in InTable(sessions')
  BY <1>1 DEF InTable
<1>3. players'[o] = players[o] \ ReapedFrom(o)
  BY <1>1, <1>2 DEF Reap, Retain
<1>4. ReapedFrom(o) = RemovedPIDs(sid)
  <2>1. ASSUME NEW t \in SessionIDs, candidate[t] = o PROVE t = sid
    BY <1>1, <2>1, NilIsNoValue DEF ObjectsConsistent, TypeOK
  <2>2. RemovedPIDs(sid) \subseteq ReapedFrom(o)
    BY ReapedPlayersIndexed, RemovedPIDsType, SMTT(30) DEF ReapedFrom
  <2> QED
    BY <2>1, <2>2 DEF ReapedFrom
<1> QED
  BY <1>1, <1>3, <1>4

-----------------------------------------------------------------------------
(* The index and the sessions agree.                                       *)

\* Every step keeps the index and the sessions in agreement.
LEMMA IndexPreserved ==
  TypeOK /\ ObjectsConsistent /\ IndexAgrees /\ [Next]_vars => IndexAgrees'
<1> SUFFICES ASSUME TypeOK, ObjectsConsistent, IndexAgrees, [Next]_vars,
                    ~orphanReaped',
                    NEW q \in Players, NEW t \in SessionIDs
             PROVE  playerIndex'[q] = t
                      <=> sessions'[t] # Nil /\ q \in players'[sessions'[t]]
  BY SMTT(30) DEF IndexAgrees
<1> DEFINE Goal == playerIndex'[q] = t
                     <=> sessions'[t] # Nil /\ q \in players'[sessions'[t]]
<1> USE NilIsNoValue DEF tables, objects, reaper
<1>0. ~orphanReaped' => ~orphanReaped
  BY ZenonT(40) DEF Next, NextNoDelete, Activity, AddPlayerToSession, CreateSession, Rejoin,
         Join, RefusedMigration, RemovePlayerFromSession, UpdatePlayer, Collect,
         Reap, Tick, DeleteSession, vars
<1>a. \A p \in Players, sid \in SessionIDs :
        playerIndex[p] = sid <=> sessions[sid] # Nil /\ p \in players[sessions[sid]]
  BY <1>0 DEF IndexAgrees
<1>b. \A sid \in SessionIDs : sessions[sid] # Nil => sessions[sid] \in Objects
  BY DEF TypeOK
<1>c. \A u, v \in SessionIDs : sessions[u] # Nil /\ sessions[u] = sessions[v] => u = v
  BY DEF ObjectsConsistent
<1>1. ASSUME NEW sid \in SessionIDs, NEW n \in Requested, CreateSession(sid, n)
      PROVE  Goal
  BY <1>1, <1>a DEF TypeOK, ObjectsConsistent, CreateSession
<1>2. ASSUME NEW sid \in SessionIDs, NEW p \in Players, Rejoin(sid, p)
      PROVE  Goal
  BY <1>2, <1>a DEF Rejoin
<1>3. ASSUME NEW sid \in SessionIDs, NEW p \in Players, Join(sid, p)
      PROVE  Goal
  <2>1. sessions' = sessions /\ sessions[sid] \in Objects
    BY <1>3, <1>b DEF Join
  <2>2. CASE q # p
    <3>1. playerIndex'[q] = playerIndex[q]
      BY <1>3, <2>2, SMTT(30) DEF Join, TypeOK
    <3>2. \A o \in Objects : q \in players'[o] <=> q \in players[o]
      BY <1>3, <2>1, <2>2, SMTT(30) DEF Join, AfterRemoval
    <3> QED
      BY <2>1, <3>1, <3>2, <1>a, <1>b, SMTT(30)
  <2>3. CASE q = p /\ t = sid
    BY <1>3, <2>1, <2>3 DEF Join, AfterRemoval, TypeOK
  <2>4. CASE q = p /\ t # sid
    <3>1. playerIndex'[q] = sid
      BY <1>3, <2>4, SMTT(30) DEF Join, TypeOK
    <3>2. ASSUME sessions[t] # Nil PROVE q \notin players'[sessions[t]]
      <4>1. sessions[t] \in Objects /\ sessions[t] # sessions[sid]
        BY <3>2, <2>4, <1>b, <1>c, SMTT(30)
      <4>2. players'[sessions[t]] = AfterRemoval(p)[sessions[t]]
        BY <1>3, <2>1, <4>1, ZenonT(40) DEF Join, AfterRemoval
      <4>3. q \in players[sessions[t]] => SessionOf(p) = sessions[t]
        BY <2>4, <3>2, <1>a DEF SessionOf
      <4> QED
        BY <2>4, <4>1, <4>2, <4>3 DEF AfterRemoval
    <3> QED
      BY <2>1, <2>4, <3>1, <3>2, SMTT(30)
  <2> QED
    BY <2>2, <2>3, <2>4
<1>4. ASSUME NEW sid \in SessionIDs, NEW p \in Players, RefusedMigration(sid, p)
      PROVE  Goal
  <2>1. sessions' = sessions /\ players' = AfterRemoval(p)
    BY <1>4 DEF RefusedMigration
  <2>2. CASE q # p
    BY <1>4, <2>1, <2>2, <1>a, <1>b, SMTT(30) DEF RefusedMigration, AfterRemoval, TypeOK
  <2>3. CASE q = p
    <3>1. playerIndex'[q] = Nil
      BY <1>4, <2>3 DEF RefusedMigration, TypeOK
    <3>2. sessions[t] # Nil /\ q \in players[sessions[t]] => SessionOf(p) = sessions[t]
      BY <2>3, <1>a, SMTT(30) DEF SessionOf
    <3> QED
      BY <2>1, <2>3, <3>1, <3>2, <1>b, SMTT(30) DEF AfterRemoval
  <2> QED
    BY <2>2, <2>3
<1>5. ASSUME NEW sid \in SessionIDs, NEW p \in Players,
             RemovePlayerFromSession(sid, p)
      PROVE  Goal
  <2>1. playerIndex[p] = sid
    BY <1>5, <1>a DEF RemovePlayerFromSession
  <2> QED
    BY <1>5, <2>1, <1>a, <1>b, <1>c, SMTT(30) DEF RemovePlayerFromSession, TypeOK
<1>6. ASSUME NEW o \in Objects, NEW p \in Players, NEW age \in SeenAge,
             UpdatePlayer(o, p, age)
      PROVE  Goal
  BY <1>6, <1>a, SMTT(30) DEF UpdatePlayer
<1>7. CASE Collect
  BY <1>7, <1>a DEF Collect
<1>8. CASE Reap
  <2>1. playerIndex'[q] = IF \E sid \in SessionIDs : q \in RemovedPIDs(sid)
                            THEN Nil ELSE playerIndex[q]
    BY <1>8 DEF Reap
  <2>2. CASE t \in RemovedSessions
    <3>1. sessions'[t] = Nil
      BY <1>8, <2>2, SMTT(30) DEF Reap
    <3>2. playerIndex[q] = t => q \in RemovedPIDs(t)
      BY <1>8, <2>2, <1>a, ReapedSessionsEmptied
    <3> QED
      BY <2>1, <3>1, <3>2, SMTT(30)
  <2>3. CASE t \notin RemovedSessions /\ sessions[t] = Nil
    <3>1. sessions'[t] = Nil
      BY <1>8, <2>3, SMTT(30) DEF Reap
    <3> QED
      BY <2>1, <2>3, <3>1, <1>a, SMTT(30)
  <2>4. CASE t \notin RemovedSessions /\ sessions[t] # Nil
    <3>1. /\ sessions'[t] = sessions[t]
          /\ players'[sessions[t]] = players[sessions[t]] \ RemovedPIDs(t)
      BY <1>8, <2>4, ReapedRoster
    <3>2. \A sid \in SessionIDs : q \in RemovedPIDs(sid) => playerIndex[q] = sid
      BY <1>8, ReapedPlayersIndexed, SMTT(30)
    <3> QED
      BY <2>1, <2>4, <3>1, <3>2, <1>a, SMTT(30)
  <2> QED
    BY <2>2, <2>3, <2>4, SMTT(30)
<1>9. CASE Tick
  BY <1>9, <1>a, SMTT(30) DEF Tick
<1>10. ASSUME NEW sid \in SessionIDs, DeleteSession(sid)
       PROVE  Goal
  <2>1. \A u \in SessionIDs : sessions'[u] = IF u = sid THEN Nil ELSE sessions[u]
    BY <1>10, SMTT(30) DEF DeleteSession, TypeOK
  <2>2. sessions'[t] # Nil => players'[sessions'[t]] = players[sessions[t]]
    BY <1>10, <2>1, <1>b, SMTT(30) DEF DeleteSession, Retain, InTable
  <2>3. playerIndex'[q] = IF q \in players[sessions[sid]] THEN Nil ELSE playerIndex[q]
    BY <1>10, SMTT(30) DEF DeleteSession
  <2>4. sessions[sid] # Nil
    BY <1>10 DEF DeleteSession
  <2> QED
    BY <2>1, <2>2, <2>3, <2>4, <1>a, SMTT(30)
<1>11. CASE UNCHANGED vars
  BY <1>11, <1>a DEF vars
<1> QED
  BY <1>1, <1>2, <1>3, <1>4, <1>5, <1>6, <1>7, <1>8, <1>9, <1>10, <1>11, SMTT(30)
  DEF Next, NextNoDelete, Activity, AddPlayerToSession

-----------------------------------------------------------------------------
(* The counters count.                                                     *)

\* The index and the session map are finite.
LEMMA RegisteredFinite ==
  /\ IsFiniteSet(Registered) /\ Cardinality(Registered) \in Nat
  /\ IsFiniteSet(Open) /\ Cardinality(Open) \in Nat
BY FiniteTables, FS_Subset, FS_CardinalityType DEF Registered, Open

\* A create request opens its session.
LEMMA CreateOpens ==
  ASSUME TypeOK, NEW sid \in SessionIDs, NEW n \in Requested, CreateSession(sid, n)
  PROVE  Open' = Open \cup {sid} /\ sid \notin Open
<1>1. PICK o \in Objects : sessions' = [sessions EXCEPT ![sid] = o]
  BY ZenonT(40) DEF CreateSession
<1>2. sessions[sid] = Nil
  BY DEF CreateSession
<1>3. sessions \in [SessionIDs -> Objects \cup {Nil}] /\ o # Nil
  BY NilIsNoValue DEF TypeOK
<1> QED
  BY <1>1, <1>2, <1>3 DEF Open

\* A join registers the player, once.
LEMMA JoinRegisters ==
  ASSUME TypeOK, NEW sid \in SessionIDs, NEW p \in Players, Join(sid, p)
  PROVE  Registered' = (Registered \ {p}) \cup {p}
<1>1. playerIndex' = [playerIndex EXCEPT ![p] = sid]
  BY DEF Join
<1>2. playerIndex \in [Players -> SessionIDs \cup {Nil}]
  BY DEF TypeOK
<1>3. sid # Nil
  BY NilIsNoValue
<1> QED
  BY <1>1, <1>2, <1>3 DEF Registered

\* Leaving(p) is what p counts in the index.
LEMMA OneRemoved ==
  ASSUME NEW p \in Players
  PROVE  /\ IsFiniteSet(Registered \ {p})
         /\ Cardinality(Registered \ {p}) = Cardinality(Registered) - Leaving(p)
<1>1. CASE p \in Registered
  <2>1. Leaving(p) = 1
    BY <1>1 DEF Registered, Leaving
  <2> QED
    BY <1>1, <2>1, RegisteredFinite, FS_RemoveElement
<1>2. CASE p \notin Registered
  <2>1. Leaving(p) = 0 /\ Registered \ {p} = Registered
    BY <1>2 DEF Registered, Leaving
  <2> QED
    BY <2>1, RegisteredFinite
<1> QED
  BY <1>1, <1>2

\* As many players leave the index as pairs are counted: no player is removed
\* through two candidates.
LEMMA ReapedPlayersCounted ==
  ASSUME TypeOK, IndexAgrees, Reap, ~orphanReaped'
  PROVE  LET gone == {p \in Players : \E sid \in SessionIDs : p \in RemovedPIDs(sid)}
         IN  /\ gone \subseteq Registered
             /\ Cardinality(gone) = Cardinality(RemovedPairs)
<1> DEFINE gone == {p \in Players : \E sid \in SessionIDs : p \in RemovedPIDs(sid)}
           f == [x \in RemovedPairs |-> x[2]]
<1>1. gone \subseteq Registered
  BY ReapedPlayersIndexed, NilIsNoValue DEF Registered
<1>2. \A x \in RemovedPairs : /\ x \in SessionIDs \X Players
                              /\ x[2] \in RemovedPIDs(x[1])
                              /\ playerIndex[x[2]] = x[1]
  BY ReapedPlayersIndexed DEF RemovedPairs
<1>3. f \in [RemovedPairs -> gone]
  BY <1>2
<1>4. \A x, y \in RemovedPairs : f[x] = f[y] => x = y
  BY <1>2
<1>5. \A p \in gone : \E x \in RemovedPairs : f[x] = p
  <2> SUFFICES ASSUME NEW p \in gone PROVE \E x \in RemovedPairs : f[x] = p
    OBVIOUS
  <2>1. PICK sid \in SessionIDs : p \in RemovedPIDs(sid)
    OBVIOUS
  <2>2. <<sid, p>> \in RemovedPairs
    BY <2>1 DEF RemovedPairs
  <2> QED
    BY <2>2
<1>6. f \in Bijection(RemovedPairs, gone)
  BY <1>3, <1>4, <1>5 DEF Bijection, Injection, Surjection, IsInjective
<1>7. Cardinality(gone) = Cardinality(RemovedPairs)
  BY <1>6, RemovedPairsFinite, FS_Bijection DEF ExistsBijection
<1> QED
  BY <1>1, <1>7

\* Removing a subset subtracts its size.
LEMMA DifferenceCounted ==
  ASSUME NEW S, NEW T, IsFiniteSet(S), T \subseteq S
  PROVE  Cardinality(S \ T) = Cardinality(S) - Cardinality(T)
<1>1. S \cap T = T
  OBVIOUS
<1> QED
  BY <1>1, FS_Difference, ZenonT(40)

\* Every step adjusts the gauges by what it adds to or removes from the maps.
LEMMA CountersPreserved ==
  TypeOK /\ ObjectsConsistent /\ IndexAgrees /\ CountersExact /\ [Next]_vars
    => CountersExact'
<1> SUFFICES ASSUME TypeOK, ObjectsConsistent, IndexAgrees, CountersExact,
                    [Next]_vars, ~orphanReaped'
             PROVE  /\ activePlayers' = Cardinality(Registered')
                    /\ activeSessions' = Cardinality(Open')
  BY DEF CountersExact
<1> DEFINE Goal == /\ activePlayers' = Cardinality(Registered')
                   /\ activeSessions' = Cardinality(Open')
<1> USE NilIsNoValue DEF tables, objects, reaper
<1>0. ~orphanReaped' => ~orphanReaped
  BY ZenonT(40) DEF Next, NextNoDelete, Activity, AddPlayerToSession, CreateSession, Rejoin,
         Join, RefusedMigration, RemovePlayerFromSession, UpdatePlayer, Collect,
         Reap, Tick, DeleteSession, vars
<1>a. activePlayers = Cardinality(Registered) /\ activeSessions = Cardinality(Open)
  BY <1>0 DEF CountersExact
<1>b. \A p \in Players, sid \in SessionIDs :
        playerIndex[p] = sid <=> sessions[sid] # Nil /\ p \in players[sessions[sid]]
  BY <1>0 DEF IndexAgrees
<1>1. ASSUME NEW sid \in SessionIDs, NEW n \in Requested, CreateSession(sid, n)
      PROVE  Goal
  <2>1. Registered' = Registered /\ activePlayers' = activePlayers
    BY <1>1 DEF CreateSession, Registered
  <2>2. Open' = Open \cup {sid} /\ sid \notin Open
    BY <1>1, CreateOpens
  <2>3. Cardinality(Open') = Cardinality(Open) + 1
    BY <2>2, RegisteredFinite, FS_AddElement, ZenonT(40)
  <2> QED
    BY <1>1, <1>a, <2>1, <2>3, ZenonT(40) DEF CreateSession
<1>2. ASSUME NEW sid \in SessionIDs, NEW p \in Players, Rejoin(sid, p)
      PROVE  Goal
  BY <1>2, <1>a DEF Rejoin, Registered, Open
<1>3. ASSUME NEW sid \in SessionIDs, NEW p \in Players, Join(sid, p)
      PROVE  Goal
  <2>1. Open' = Open /\ activeSessions' = activeSessions
    BY <1>3 DEF Join, Open
  <2>2. Registered' = (Registered \ {p}) \cup {p}
    BY <1>3, JoinRegisters
  <2>3. /\ IsFiniteSet(Registered \ {p})
        /\ Cardinality(Registered \ {p}) = Cardinality(Registered) - Leaving(p)
    BY OneRemoved
  <2>4. Cardinality(Registered') = Cardinality(Registered \ {p}) + 1
    BY <2>2, <2>3, FS_AddElement, ZenonT(40)
  <2> QED
    BY <1>3, <1>a, <2>1, <2>3, <2>4 DEF Join
<1>4. ASSUME NEW sid \in SessionIDs, NEW p \in Players, RefusedMigration(sid, p)
      PROVE  Goal
  <2>1. Open' = Open /\ activeSessions' = activeSessions
    BY <1>4 DEF RefusedMigration, Open
  <2>2. Registered' = Registered \ {p} /\ p \in Registered
    BY <1>4, SMTT(30) DEF RefusedMigration, Registered, TypeOK
  <2>3. Cardinality(Registered') = Cardinality(Registered) - 1
    BY <2>2, RegisteredFinite, FS_RemoveElement, ZenonT(40)
  <2> QED
    BY <1>4, <1>a, <2>1, <2>3 DEF RefusedMigration
<1>5. ASSUME NEW sid \in SessionIDs, NEW p \in Players,
             RemovePlayerFromSession(sid, p)
      PROVE  Goal
  <2>1. Open' = Open /\ activeSessions' = activeSessions
    BY <1>5 DEF RemovePlayerFromSession, Open
  <2>2. playerIndex[p] = sid
    BY <1>5, <1>b DEF RemovePlayerFromSession
  <2>3. Registered' = Registered \ {p} /\ p \in Registered
    BY <1>5, <2>2 DEF RemovePlayerFromSession, Registered, TypeOK
  <2>4. Cardinality(Registered') = Cardinality(Registered) - 1
    BY <2>3, RegisteredFinite, FS_RemoveElement, ZenonT(40)
  <2> QED
    BY <1>5, <1>a, <2>1, <2>4 DEF RemovePlayerFromSession
<1>6. ASSUME NEW o \in Objects, NEW p \in Players, NEW age \in SeenAge,
             UpdatePlayer(o, p, age)
      PROVE  Goal
  BY <1>6, <1>a, SMTT(30) DEF UpdatePlayer, Registered, Open
<1>7. CASE Collect
  BY <1>7, <1>a, SMTT(30) DEF Collect, Registered, Open
<1>8. CASE Reap
  <2> DEFINE gone == {p \in Players : \E sid \in SessionIDs : p \in RemovedPIDs(sid)}
  <2>1. gone \subseteq Registered /\ Cardinality(gone) = Cardinality(RemovedPairs)
    BY <1>8, ReapedPlayersCounted, SMTT(30)
  <2>2. Registered' = Registered \ gone
    BY <1>8 DEF Reap, Registered
  <2>3. RemovedSessions \subseteq Open
    BY <1>8, ReapedSessionsEmptied, SMTT(30) DEF Open
  <2>4. Open' = Open \ RemovedSessions
    BY <1>8 DEF Reap, Open
  <2>5. /\ Cardinality(Registered') = Cardinality(Registered) - Cardinality(gone)
        /\ Cardinality(Open') = Cardinality(Open) - Cardinality(RemovedSessions)
    BY <2>1, <2>2, <2>3, <2>4, RegisteredFinite, DifferenceCounted, SMTT(30)
  <2> QED
    BY <1>8, <1>a, <2>1, <2>5 DEF Reap
<1>9. CASE Tick
  BY <1>9, <1>a, SMTT(30) DEF Tick, Registered, Open
<1>10. ASSUME NEW sid \in SessionIDs, DeleteSession(sid)
       PROVE  Goal
  <2> DEFINE gone == players[sessions[sid]]
  <2>1. gone \subseteq Registered
    <3>1. sessions[sid] # Nil
      BY <1>10 DEF DeleteSession
    <3>2. gone \subseteq Players
      BY <3>1 DEF TypeOK
    <3>3. \A p \in gone : playerIndex[p] = sid
      BY <1>b, <3>1, <3>2, SMTT(30)
    <3> QED
      BY <3>2, <3>3, SMTT(30) DEF Registered
  <2>2. Registered' = Registered \ gone
    BY <1>10, SMTT(30) DEF DeleteSession, Registered
  <2>3. Open' = Open \ {sid} /\ sid \in Open
    BY <1>10, SMTT(30) DEF DeleteSession, Open, TypeOK
  <2>4. Cardinality(Registered') = Cardinality(Registered) - Cardinality(gone)
    BY <2>1, <2>2, RegisteredFinite, DifferenceCounted, SMTT(30)
  <2>5. Cardinality(Open') = Cardinality(Open) - 1
    BY <2>3, RegisteredFinite, FS_RemoveElement, ZenonT(40)
  <2> QED
    BY <1>10, <1>a, <2>4, <2>5 DEF DeleteSession
<1>11. CASE UNCHANGED vars
  BY <1>11, <1>a DEF vars, Registered, Open
<1> QED
  BY <1>1, <1>2, <1>3, <1>4, <1>5, <1>6, <1>7, <1>8, <1>9, <1>10, <1>11
  DEF Next, NextNoDelete, Activity, AddPlayerToSession

-----------------------------------------------------------------------------
(* The sizes stay within the limits.                                       *)

\* A subset of a finite set is not larger.
LEMMA SubsetCounted ==
  ASSUME NEW S, NEW T, IsFiniteSet(S), T \subseteq S, NEW n \in Int,
         Cardinality(S) <= n
  PROVE  Cardinality(T) <= n
BY FS_Subset, FS_CardinalityType

\* Steps after which every object has at most the players it had.
LEMMA ShrinkingSizes ==
  ASSUME TypeOK, SizesBounded, TypeOK',
         Open' \subseteq Open, Registered' \subseteq Registered,
         \A o \in Objects :
          \/ players'[o] \subseteq players[o] /\ maxPlayers'[o] = maxPlayers[o]
          \/ players'[o] = {}
  PROVE  SizesBounded'
<1>1. /\ Cardinality(Open') <= MaxTotalSessions
      /\ Cardinality(Registered') <= MaxTotalPlayers
  BY RegisteredFinite, SubsetCounted, LimitsAreNumbers DEF SizesBounded
<1>2. ASSUME NEW o \in Objects PROVE Cardinality(players'[o]) <= maxPlayers'[o]
  <2>1. players[o] \in SUBSET Players /\ maxPlayers[o] \in Int
    BY LimitsAreNumbers, SMTT(30) DEF TypeOK
  <2>2. CASE players'[o] \subseteq players[o] /\ maxPlayers'[o] = maxPlayers[o]
    BY <2>1, <2>2, CardinalityIsInt, SubsetCounted, SMTT(30) DEF SizesBounded
  <2>3. CASE players'[o] = {}
    BY <2>3, FS_EmptySet, LimitsAreNumbers, SMTT(30) DEF TypeOK
  <2> QED
    BY <2>2, <2>3
<1> QED
  BY <1>1, <1>2 DEF SizesBounded

\* Every step keeps the sizes within the limits the code compares with.
LEMMA SizesPreserved ==
  TypeOK /\ ObjectsConsistent /\ SizesBounded /\ [Next]_vars => SizesBounded'
<1> SUFFICES ASSUME TypeOK, ObjectsConsistent, SizesBounded, [Next]_vars
             PROVE  SizesBounded'
  OBVIOUS
<1> USE NilIsNoValue DEF tables, objects, reaper
<1>0. TypeOK'
  BY TypePreserved, SMTT(30)
<1>1. ASSUME NEW sid \in SessionIDs, NEW n \in Requested, CreateSession(sid, n)
      PROVE  SizesBounded'
  <2>1. Open' = Open \cup {sid} /\ sid \notin Open
    BY <1>1, CreateOpens
  <2>2. Cardinality(Open') = Cardinality(Open) + 1
    BY <2>1, RegisteredFinite, FS_AddElement, ZenonT(40)
  <2>3. Cardinality(Open') <= MaxTotalSessions
    <3>1. Cardinality(Open) < MaxTotalSessions
      BY <1>1 DEF CreateSession
    <3> QED
      BY <2>2, <3>1, RegisteredFinite, LimitsAreNumbers
  <2>4. ASSUME NEW o \in Objects PROVE Cardinality(players'[o]) <= maxPlayers'[o]
    <3>1. CASE id[o] = Nil
      <4>1. players'[o] = {}
        BY <1>1, <3>1, SMTT(30) DEF CreateSession, ObjectsConsistent
      <4>2. maxPlayers' \in [Objects -> 0 .. MaxSessionPlayers]
        BY <1>0 DEF TypeOK
      <4>3. 0 <= maxPlayers'[o]
        BY <4>2, LimitsAreNumbers, SMTT(30)
      <4> QED
        BY <4>1, <4>3, FS_EmptySet
    <3>2. CASE id[o] # Nil
      BY <1>1, <3>2 DEF CreateSession, SizesBounded, TypeOK
    <3> QED
      BY <3>1, <3>2
  <2> QED
    BY <1>1, <2>3, <2>4 DEF CreateSession, SizesBounded, Registered
<1>2. ASSUME NEW sid \in SessionIDs, NEW p \in Players, Rejoin(sid, p)
      PROVE  SizesBounded'
  BY <1>2, SMTT(30) DEF Rejoin, SizesBounded, Open, Registered
<1>3. ASSUME NEW sid \in SessionIDs, NEW p \in Players, Join(sid, p)
      PROVE  SizesBounded'
  <2> DEFINE o == sessions[sid]
  <2>1. o \in Objects /\ o # SessionOf(p)
    <3>1. o # Nil /\ playerIndex[p] # sid
      BY <1>3 DEF Join
    <3>2. o \in Objects /\ id[o] = sid
      BY <3>1, SMTT(30) DEF ObjectsConsistent, TypeOK
    <3>3. CASE playerIndex[p] = Nil
      <4>1. SessionOf(p) = Nil
        BY <3>3 DEF SessionOf
      <4> QED
        BY <3>1, <3>2, <4>1
    <3>4. CASE playerIndex[p] # Nil
      <4>1. playerIndex[p] \in SessionIDs /\ SessionOf(p) = sessions[playerIndex[p]]
        BY <3>4, SMTT(30) DEF SessionOf, TypeOK
      <4>2. SessionOf(p) # Nil => id[SessionOf(p)] = playerIndex[p]
        BY <4>1 DEF ObjectsConsistent
      <4> QED
        BY <3>1, <3>2, <4>2, SMTT(30)
    <3> QED
      BY <3>2, <3>3, <3>4
  <2>2. Registered' = (Registered \ {p}) \cup {p}
    BY <1>3, JoinRegisters, SMTT(30)
  <2>3. IsFiniteSet(Registered \ {p}) /\ Cardinality(Registered \ {p}) \in Nat
    BY RegisteredFinite, FS_Subset, FS_CardinalityType, SMTT(30)
  <2>4. Cardinality(Registered') = Cardinality(Registered \ {p}) + 1
    BY <2>2, <2>3, FS_AddElement, ZenonT(40)
  <2>5. Cardinality(Registered') <= MaxTotalPlayers
    <3>1. Cardinality(Registered \ {p}) < MaxTotalPlayers
      BY <1>3 DEF Join, HasRoom
    <3> QED
      BY <2>3, <2>4, <3>1, LimitsAreNumbers
  <2>6. Cardinality(players'[o]) <= maxPlayers'[o]
    <3>1. players'[o] = players[o] \cup {p} /\ p \notin players[o]
      BY <1>3, <2>1, SMTT(30) DEF Join, AfterRemoval, HasRoom
    <3>2. players[o] \in SUBSET Players /\ maxPlayers[o] \in Int
      BY <2>1, LimitsAreNumbers, SMTT(30) DEF TypeOK
    <3>3. IsFiniteSet(players[o]) /\ Cardinality(players[o]) \in Nat
      BY <3>2, CardinalityIsInt, SMTT(30)
    <3>4. Cardinality(players'[o]) = Cardinality(players[o]) + 1
      BY <3>1, <3>3, FS_AddElement, ZenonT(40)
    <3>5. Cardinality(players[o]) < maxPlayers[o] /\ maxPlayers' = maxPlayers
      BY <1>3 DEF Join, HasRoom
    <3> QED
      BY <3>2, <3>3, <3>4, <3>5, SMTT(30)
  <2>7. ASSUME NEW x \in Objects, x # o
        PROVE  Cardinality(players'[x]) <= maxPlayers'[x]
    <3>1. players'[x] \subseteq players[x]
      BY <1>3, <2>1, <2>7, SMTT(30) DEF Join, AfterRemoval
    <3>2. players[x] \in SUBSET Players /\ maxPlayers[x] \in Int
      BY <2>1, LimitsAreNumbers, SMTT(30) DEF TypeOK
    <3> QED
      BY <1>3, <3>1, <3>2, CardinalityIsInt, SubsetCounted DEF Join, SizesBounded
  <2> QED
    BY <1>3, <2>5, <2>6, <2>7, ZenonT(40) DEF Join, SizesBounded, Open
<1>4. ASSUME NEW sid \in SessionIDs, NEW p \in Players, RefusedMigration(sid, p)
      PROVE  SizesBounded'
  <2>1. Open' \subseteq Open /\ maxPlayers' = maxPlayers
    BY <1>4, SMTT(30) DEF RefusedMigration, Open
  <2>2. Registered' \subseteq Registered
    BY <1>4, ZenonT(40) DEF RefusedMigration, Registered, TypeOK
  <2>3. \A o \in Objects : players'[o] \subseteq players[o]
    BY <1>4, SMTT(30) DEF RefusedMigration, AfterRemoval
  <2>4. \A o \in Objects :
          \/ players'[o] \subseteq players[o] /\ maxPlayers'[o] = maxPlayers[o]
          \/ players'[o] = {}
    BY <2>1, <2>3, ZenonT(40)
  <2> QED
    BY <1>0, <2>1, <2>2, <2>4, ShrinkingSizes, ZenonT(40)
<1>5. ASSUME NEW sid \in SessionIDs, NEW p \in Players,
             RemovePlayerFromSession(sid, p)
      PROVE  SizesBounded'
  <2>1. Open' \subseteq Open /\ maxPlayers' = maxPlayers
    BY <1>5, SMTT(30) DEF RemovePlayerFromSession, Open
  <2>2. Registered' \subseteq Registered
    BY <1>5, SMTT(30) DEF RemovePlayerFromSession, Registered, TypeOK
  <2>3. \A o \in Objects : players'[o] \subseteq players[o]
    BY <1>5, SMTT(30) DEF RemovePlayerFromSession, TypeOK
  <2>4. \A o \in Objects :
          \/ players'[o] \subseteq players[o] /\ maxPlayers'[o] = maxPlayers[o]
          \/ players'[o] = {}
    BY <2>1, <2>3, ZenonT(40)
  <2> QED
    BY <1>0, <2>1, <2>2, <2>4, ShrinkingSizes, ZenonT(40)
<1>6. ASSUME NEW o \in Objects, NEW p \in Players, NEW age \in SeenAge,
             UpdatePlayer(o, p, age)
      PROVE  SizesBounded'
  BY <1>6, SMTT(30) DEF UpdatePlayer, SizesBounded, Open, Registered
<1>7. CASE Collect
  BY <1>7 DEF Collect, SizesBounded, Open, Registered
<1>8. CASE Reap
  <2>1. Open' \subseteq Open /\ Registered' \subseteq Registered
    BY <1>8, SMTT(30) DEF Reap, Open, Registered
  <2>2. \A o \in Objects :
          \/ players'[o] \subseteq players[o] /\ maxPlayers'[o] = maxPlayers[o]
          \/ players'[o] = {}
    BY <1>8, ZenonT(40) DEF Reap, Retain
  <2> QED
    BY <1>0, <2>1, <2>2, ShrinkingSizes, ZenonT(40)
<1>9. CASE Tick
  BY <1>9, ZenonT(40) DEF Tick, SizesBounded, Open, Registered
<1>10. ASSUME NEW sid \in SessionIDs, DeleteSession(sid)
       PROVE  SizesBounded'
  <2>1. Open' \subseteq Open /\ Registered' \subseteq Registered
    BY <1>10, SMTT(30) DEF DeleteSession, Open, Registered, TypeOK
  <2>2. \A o \in Objects :
          \/ players'[o] \subseteq players[o] /\ maxPlayers'[o] = maxPlayers[o]
          \/ players'[o] = {}
    BY <1>10, ZenonT(40) DEF DeleteSession, Retain
  <2> QED
    BY <1>0, <2>1, <2>2, ShrinkingSizes, ZenonT(40)
<1>11. CASE UNCHANGED vars
  BY <1>11, ZenonT(40) DEF vars, SizesBounded, Open, Registered
<1> QED
  BY <1>1, <1>2, <1>3, <1>4, <1>5, <1>6, <1>7, <1>8, <1>9, <1>10, <1>11, SMTT(30)
  DEF Next, NextNoDelete, Activity, AddPlayerToSession

-----------------------------------------------------------------------------
(* The theorems about the tables.                                          *)

\* The empty tables satisfy the invariant.
LEMMA SafetyInitially == Init => SafetyInv
<1> SUFFICES ASSUME Init PROVE SafetyInv
  OBVIOUS
<1>1. TypeOK
  BY TypeInitially, SMTT(30)
<1>2. ObjectsConsistent /\ IndexAgrees
  BY NilIsNoValue DEF Init, ObjectsConsistent, IndexAgrees
<1>3. Open = {} /\ Registered = {}
  BY SMTT(30) DEF Init, Open, Registered
<1>4. CountersExact /\ SizesBounded
  BY <1>3, FS_EmptySet, LimitsAreNumbers, SMTT(30) DEF Init, CountersExact, SizesBounded
<1> QED
  BY <1>1, <1>2, <1>4 DEF SafetyInv

\* Every step preserves the invariant.
LEMMA SafetyPreserved == SafetyInv /\ [Next]_vars => SafetyInv'
BY TypePreserved, ObjectsPreserved, IndexPreserved, CountersPreserved, SizesPreserved
DEF SafetyInv

\* The conjunction of the invariants of session.go holds in every reachable
\* state: each locked section preserves it.
THEOREM Safety == Spec => []SafetyInv
BY SafetyInitially, SafetyPreserved, PTL DEF Spec

\* Index and session maps agree as long as the reaper has not acted on an
\* object that DELETE removed between its two phases.
THEOREM IndexCorrect == Spec => []IndexAgrees
<1>1. SafetyInv => IndexAgrees
  BY DEF SafetyInv
<1> QED
  BY <1>1, Safety, PTL

\* Under the same proviso ActivePlayers and ActiveSessions are the sizes of
\* the two maps, whatever mix of joins, leaves, migrations and reaps ran.
THEOREM CountersCorrect == Spec => []CountersExact
<1>1. SafetyInv => CountersExact
  BY DEF SafetyInv
<1> QED
  BY <1>1, Safety, PTL

\* In a consistent state all players of open sessions are indexed, so the
\* bound on the index bounds them.
LEMMA SafetyImpliesCapacity == SafetyInv => WithinCapacity
<1> SUFFICES ASSUME SafetyInv PROVE WithinCapacity
  BY SMTT(30)
<1>1. /\ Cardinality(Open) <= MaxTotalSessions
      /\ \A sid \in Open : Cardinality(players[sessions[sid]]) <= maxPlayers[sessions[sid]]
  BY SMTT(30) DEF SafetyInv, SizesBounded, TypeOK, Open
<1>2. ASSUME ~orphanReaped
      PROVE  Cardinality(UNION {players[sessions[sid]] : sid \in Open}) <= MaxTotalPlayers
  <2>1. \A sid \in Open : players[sessions[sid]] \subseteq Registered
    BY <1>2, NilIsNoValue, SMTT(30) DEF SafetyInv, IndexAgrees, TypeOK, Open, Registered
  <2>2. UNION {players[sessions[sid]] : sid \in Open} \subseteq Registered
    BY <2>1, SMTT(30)
  <2> QED
    BY <2>2, RegisteredFinite, SubsetCounted, LimitsAreNumbers, SMTT(30) DEF SafetyInv, SizesBounded
<1> QED
  BY <1>1, <1>2 DEF WithinCapacity

\* The limits checked by CreateSession, AddPlayerToSession and AddPlayer bound
\* the tables and every roster in every reachable state.
THEOREM CapacityRespected == Spec => []WithinCapacity
BY SafetyImpliesCapacity, Safety, PTL

\* A player that phase 2 unregisters is stale in the session it is in.
LEMMA ReapVerifies ==
  SafetyInv /\ [Next]_vars
    => [ReapStep /\ ~orphanReaped' => UnregistersOnlyStale]_vars
<1> SUFFICES ASSUME SafetyInv, [Next]_vars, ReapStep, ~orphanReaped',
                    NEW p \in Registered, playerIndex'[p] = Nil
             PROVE  IsStale(SessionOf(p), p)
  BY SMTT(30) DEF UnregistersOnlyStale
<1>1. Reap
  <2>1. PICK sid \in SessionIDs : candidate[sid] # Nil /\ candidate'[sid] = Nil
    BY DEF ReapStep
  <2>2. candidate' # candidate /\ ~Collect
    BY <2>1, SMTT(30) DEF Collect
  <2> QED
    BY <2>2, ZenonT(40) DEF Next, NextNoDelete, Activity, AddPlayerToSession, CreateSession, Rejoin,
       Join, RefusedMigration, RemovePlayerFromSession, UpdatePlayer, Tick,
       DeleteSession, vars, reaper
<1>2. PICK sid \in SessionIDs : p \in RemovedPIDs(sid)
  BY <1>1, ZenonT(40) DEF Reap, Registered
<1>3. candidate[sid] = sessions[sid] /\ sessions[sid] # Nil /\ playerIndex[p] = sid
  BY <1>1, <1>2, ReapedPlayersIndexed, SMTT(30) DEF SafetyInv
<1>4. SessionOf(p) = candidate[sid]
  BY <1>3, NilIsNoValue DEF SessionOf
<1> QED
  BY <1>2, <1>3, <1>4 DEF RemovedPIDs, StalePlayers

\* The re-verification in phase 2 works: a player heard from after phase 1 is
\* not unregistered by the reaper.
THEOREM ReapCorrect == Spec => ReapOnlyStale
BY Safety, ReapVerifies, PTL DEF Spec, ReapOnlyStale

-----------------------------------------------------------------------------
(* Without DELETE, and the refinement of RelayDirectory.                   *)

\* The reaper's pointers lead to the sessions in the map.
CandidatesLive ==
  /\ ~orphanReaped
  /\ \A sid \in SessionIDs : candidate[sid] \in {Nil, sessions[sid]}

\* Without DELETE every reaper entry still is the session of its ID.
LEMMA CandidatesPreserved ==
  TypeOK /\ CandidatesLive /\ [NextNoDelete]_vars => CandidatesLive'
<1> SUFFICES ASSUME TypeOK, CandidatesLive, [NextNoDelete]_vars
             PROVE  CandidatesLive'
  OBVIOUS
<1> USE DEF tables, objects, reaper
<1>1. ASSUME NEW sid \in SessionIDs, NEW n \in Requested, CreateSession(sid, n)
      PROVE  CandidatesLive'
  BY <1>1, SMTT(30) DEF CandidatesLive, CreateSession, TypeOK
<1>2. CASE Collect
  BY <1>2, ZenonT(40) DEF CandidatesLive, Collect
<1>3. CASE Reap
  BY <1>3, ZenonT(40) DEF CandidatesLive, Reap
<1>4. CASE UNCHANGED <<sessions, candidate, orphanReaped>>
  BY <1>4 DEF CandidatesLive
<1>5. \/ \E sid \in SessionIDs, n \in Requested : CreateSession(sid, n)
      \/ Collect \/ Reap
      \/ UNCHANGED <<sessions, candidate, orphanReaped>>
  BY ZenonT(60) DEF NextNoDelete, Activity, AddPlayerToSession, Rejoin, Join, RefusedMigration,
         RemovePlayerFromSession, UpdatePlayer, Tick, vars
<1> QED
  BY <1>1, <1>2, <1>3, <1>4, <1>5, SMTT(30)

\* Not using DELETE is a restriction of the specification.
LEMMA NoDeleteIsNext == SpecNoDelete => Spec
<1>1. [NextNoDelete]_vars => [Next]_vars
  BY DEF Next
<1> QED
  BY <1>1, PTL DEF Spec, SpecNoDelete

\* Without DELETE the reaper's entries are live in every state.
LEMMA CandidatesAlwaysLive == SpecNoDelete => []CandidatesLive
<1>1. Init => CandidatesLive
  BY SMTT(30) DEF Init, CandidatesLive
<1> QED
  BY <1>1, CandidatesPreserved, NoDeleteIsNext, TypeCorrect, PTL DEF SpecNoDelete

\* As long as no client deletes a session, the reaper never acts on an object
\* that has left the map, and the invariants hold without a proviso.
THEOREM OrphansNeedDelete == SpecNoDelete => []NoOrphanReaped
<1>1. CandidatesLive => NoOrphanReaped
  BY DEF CandidatesLive, NoOrphanReaped
<1> QED
  BY <1>1, CandidatesAlwaysLive, PTL

\* Every step of the tables is a step of the directory, or invisible in it.
LEMMA DirectoryStep ==
  ASSUME SafetyInv, [Next]_vars, ~orphanReaped'
  PROVE  [Dir!Next]_<<Open, Roster>>
<1> USE NilIsNoValue DEF tables, objects, reaper
<1> DEFINE Step == [Dir!Next]_<<Open, Roster>>
<1>0. ~orphanReaped
  BY ZenonT(40) DEF Next, NextNoDelete, Activity, AddPlayerToSession, CreateSession, Rejoin,
         Join, RefusedMigration, RemovePlayerFromSession, UpdatePlayer, Collect,
         Reap, Tick, DeleteSession, vars
<1>a. \A p \in Players, sid \in SessionIDs :
        playerIndex[p] = sid <=> sessions[sid] # Nil /\ p \in players[sessions[sid]]
  BY <1>0, ZenonT(40) DEF SafetyInv, IndexAgrees
<1>b. \A p \in Players, sid \in SessionIDs :
        playerIndex'[p] = sid <=> sessions'[sid] # Nil /\ p \in players'[sessions'[sid]]
  BY SafetyPreserved DEF SafetyInv, IndexAgrees
<1>t. TypeOK /\ TypeOK'
  BY SafetyPreserved DEF SafetyInv
\* Rosters are read off the index, before and after the step.
<1>c. \A sid \in SessionIDs : Roster[sid] = {p \in Players : playerIndex[p] = sid}
  <2> SUFFICES ASSUME NEW sid \in SessionIDs
               PROVE  Roster[sid] = {p \in Players : playerIndex[p] = sid}
    OBVIOUS
  <2>1. Roster[sid] = IF sessions[sid] = Nil THEN {} ELSE players[sessions[sid]]
    BY SMTT(30) DEF Roster
  <2>2. sessions[sid] # Nil => players[sessions[sid]] \subseteq Players
    BY <1>t, SMTT(30) DEF TypeOK
  <2> QED
    BY <1>a, <2>1, <2>2, SMTT(30)
<1>d. \A sid \in SessionIDs : Roster'[sid] = {p \in Players : playerIndex'[p] = sid}
  <2> SUFFICES ASSUME NEW sid \in SessionIDs
               PROVE  Roster'[sid] = {p \in Players : playerIndex'[p] = sid}
    BY SMTT(30)
  <2>1. Roster'[sid] = IF sessions'[sid] = Nil THEN {} ELSE players'[sessions'[sid]]
    BY SMTT(30) DEF Roster
  <2>2. sessions'[sid] # Nil => players'[sessions'[sid]] \subseteq Players
    BY <1>t, ZenonT(40) DEF TypeOK
  <2> QED
    BY <1>b, <2>1, <2>2, SMTT(30)
<1>e. /\ Roster = [sid \in SessionIDs |-> Roster[sid]]
      /\ Roster' = [sid \in SessionIDs |-> Roster'[sid]]
  BY DEF Roster
<1>f. ASSUME UNCHANGED <<sessions, playerIndex>> PROVE Step
  BY <1>c, <1>d, <1>e, <1>f, SMTT(30) DEF Open
\* Players disappear from the index, empty sessions from the map.
<1>g. ASSUME NEW gone \in SUBSET Players, NEW closed \in SUBSET SessionIDs,
             closed \subseteq Open, Open' = Open \ closed,
             \A sid \in closed : Roster[sid] \subseteq gone,
             \A p \in Players : playerIndex'[p] = IF p \in gone THEN Nil ELSE playerIndex[p]
      PROVE  Step
  <2>1. Roster' = [sid \in SessionIDs |-> Roster[sid] \ gone]
    BY <1>c, <1>d, <1>e, <1>g, SMTT(30)
  <2> QED
    BY <1>g, <2>1 DEF Dir!Next, Dir!Expire
<1>1. ASSUME NEW sid \in SessionIDs, NEW n \in Requested, CreateSession(sid, n)
      PROVE  Step
  <2>1. Open' = Open \cup {sid} /\ sid \notin Open
    BY <1>1, <1>t, CreateOpens, SMTT(30)
  <2>2. Roster' = Roster
    <3>1. playerIndex' = playerIndex
      BY <1>1, ZenonT(40) DEF CreateSession
    <3>2. \A t \in SessionIDs : Roster'[t] = Roster[t]
      BY <1>c, <1>d, <3>1, ZenonT(40)
    <3> QED
      BY <1>e, <3>2, SMTT(30)
  <2> QED
    BY <2>1, <2>2 DEF Dir!Next, Dir!OpenSession
<1>2. ASSUME NEW sid \in SessionIDs, NEW p \in Players, Join(sid, p)
      PROVE  Step
  <2>1. \A q \in Players : playerIndex'[q] = IF q = p THEN sid ELSE playerIndex[q]
    BY <1>2, <1>t, SMTT(30) DEF Join, TypeOK
  <2>2. Open' = Open /\ sid \in Open
    BY <1>2, ZenonT(40) DEF Join, Open
  <2>3. Roster' = [t \in SessionIDs |->
                     IF t = sid THEN Roster[t] \cup {p} ELSE Roster[t] \ {p}]
    BY <1>c, <1>d, <1>e, <2>1, SMTT(30)
  <2>4. p \notin Roster[sid]
    <3>1. playerIndex[p] # sid
      BY <1>2, ZenonT(40) DEF Join
    <3> QED
      BY <1>c, <3>1, ZenonT(40)
  <2>5. Roster[sid] \cup {p} \in PermittedRosters
    <3>1. sessions'[sid] \in Objects /\ Roster'[sid] = players'[sessions'[sid]]
      <4>1. sessions' = sessions /\ sessions[sid] # Nil
        BY <1>2, ZenonT(40) DEF Join
      <4>2. sessions[sid] \in Objects
        BY <1>t, <4>1, ZenonT(40) DEF TypeOK
      <4>3. Roster'[sid] = IF sessions'[sid] = Nil THEN {} ELSE players'[sessions'[sid]]
        BY SMTT(30) DEF Roster
      <4> QED
        BY <4>1, <4>2, <4>3, ZenonT(40)
    <3>2. /\ Cardinality(Roster'[sid]) <= maxPlayers'[sessions'[sid]]
          /\ Roster'[sid] \in SUBSET Players
          /\ maxPlayers'[sessions'[sid]] \in 0 .. MaxSessionPlayers
      BY <1>t, <3>1, SafetyPreserved, ZenonT(40) DEF SafetyInv, SizesBounded, TypeOK
    <3>3. Cardinality(Roster'[sid]) \in Nat
      BY <3>2, CardinalityIsInt
    <3>4. Roster'[sid] = Roster[sid] \cup {p}
      BY <2>3, SMTT(30)
    <3>5. Cardinality(Roster'[sid]) <= MaxSessionPlayers
      BY <3>2, <3>3, LimitsAreNumbers, SMTT(30)
    <3> QED
      BY <3>2, <3>4, <3>5, ZenonT(40) DEF PermittedRosters
  <2> QED
    <3>1. Dir!Register(sid, p)
      BY <2>2, <2>3, <2>4, <2>5, ZenonT(40) DEF Dir!Register
    <3> QED
      BY <3>1 DEF Dir!Next
<1>3. ASSUME NEW sid \in SessionIDs, NEW p \in Players,
             RefusedMigration(sid, p) \/ RemovePlayerFromSession(sid, p)
      PROVE  Step
  <2>1. Open' = Open \ {}
    BY <1>3 DEF RefusedMigration, RemovePlayerFromSession, Open
  <2>2. \A q \in Players : playerIndex'[q] = IF q \in {p} THEN Nil ELSE playerIndex[q]
    BY <1>3, <1>t, ZenonT(40) DEF RefusedMigration, RemovePlayerFromSession, TypeOK
  <2>3. {p} \in SUBSET Players /\ {} \in SUBSET SessionIDs /\ {} \subseteq Open
    OBVIOUS
  <2>4. \A t \in {} : Roster[t] \subseteq {p}
    BY SMTT(30)
  <2> QED
    BY <1>g, <2>1, <2>2, <2>3, <2>4, ZenonT(40)
<1>4. CASE Reap
  <2> DEFINE gone == {p \in Players : \E sid \in SessionIDs : p \in RemovedPIDs(sid)}
  <2>1. RemovedSessions \subseteq Open /\ RemovedSessions \in SUBSET SessionIDs
    BY <1>4, <1>t, ReapedSessionsEmptied, ZenonT(40) DEF Open
  <2>2. Open' = Open \ RemovedSessions
    BY <1>4, ZenonT(40) DEF Reap, Open
  <2>3. \A sid \in RemovedSessions : Roster[sid] \subseteq gone
    BY <1>4, <1>t, ReapedSessionsEmptied, RemovedPIDsType, SMTT(30) DEF Roster
  <2>4. \A p \in Players : playerIndex'[p] = IF p \in gone THEN Nil ELSE playerIndex[p]
    BY <1>4, SMTT(30) DEF Reap
  <2> QED
    BY <1>g, <2>1, <2>2, <2>3, <2>4, ZenonT(40)
<1>5. ASSUME NEW sid \in SessionIDs, DeleteSession(sid)
      PROVE  Step
  <2>1. {sid} \subseteq Open /\ Open' = Open \ {sid}
    BY <1>5, <1>t DEF DeleteSession, Open, TypeOK
  <2>2. Roster[sid] = players[sessions[sid]] /\ players[sessions[sid]] \in SUBSET Players
    BY <1>5, <1>t, ZenonT(40) DEF DeleteSession, Roster, TypeOK
  <2>3. \A p \in Players : playerIndex'[p] =
                              IF p \in players[sessions[sid]] THEN Nil ELSE playerIndex[p]
    BY <1>5, ZenonT(40) DEF DeleteSession
  <2>4. {sid} \in SUBSET SessionIDs
    OBVIOUS
  <2>5. \A t \in {sid} : Roster[t] \subseteq players[sessions[sid]]
    BY <2>2, SMTT(30)
  <2> QED
    BY <1>g, <2>1, <2>2, <2>3, <2>4, <2>5, ZenonT(40)
<1>6. \/ \E sid \in SessionIDs, n \in Requested : CreateSession(sid, n)
      \/ \E sid \in SessionIDs, p \in Players :
           \/ Join(sid, p) \/ RefusedMigration(sid, p)
           \/ RemovePlayerFromSession(sid, p)
      \/ Reap
      \/ \E sid \in SessionIDs : DeleteSession(sid)
      \/ UNCHANGED <<sessions, playerIndex>>
  BY ZenonT(40) DEF Next, NextNoDelete, Activity, AddPlayerToSession, Rejoin, UpdatePlayer,
         Collect, Tick, vars
<1> QED
  BY <1>1, <1>2, <1>3, <1>4, <1>5, <1>6, <1>f, SMTT(30)

\* The two maps, the per-session player maps and the two-phase reaper
\* together behave as the directory of RelayDirectory.
THEOREM DirectoryImplemented == SpecNoDelete => ImplementsDirectory
<1>1. Init => Dir!Init
  BY NilIsNoValue DEF Init, Dir!Init, Open, Roster
<1>2. SafetyInv /\ CandidatesLive' /\ [Next]_vars => [Dir!Next]_<<Open, Roster>>
  BY DirectoryStep DEF CandidatesLive
<1> QED
  BY <1>1, <1>2, Safety, CandidatesAlwaysLive, NoDeleteIsNext, PTL
  DEF Spec, ImplementsDirectory, Dir!Spec
=============================================================================
