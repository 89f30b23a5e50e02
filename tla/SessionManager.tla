--------------------------- MODULE SessionManager ---------------------------
(***************************************************************************)
(* The session tables of the relay server: internal/relay/session.go.      *)
(*                                                                         *)
(* SessionManager.mu guards the two maps (sessions, playerIndex); every    *)
(* Session has a lock of its own.  A step of this module is what the code  *)
(* does under one of these locks.  The reaper and the packet handlers hold *)
(* *Session pointers between two lock sections, so sessions are objects    *)
(* with an identity: `sessions' maps an ID to an object, and an object     *)
(* that is no longer in the map can still be reached through a pointer.    *)
(*                                                                         *)
(* Time is counted in ticks.  An instant t of the code is kept as its age  *)
(* now - t, saturated one tick beyond the longest timeout it is compared   *)
(* with; the code only asks whether an age exceeds a timeout, so nothing   *)
(* is lost.                                                                *)
(***************************************************************************)
EXTENDS Integers, FiniteSets

CONSTANTS
  SessionIDs,          \* session IDs that clients use
  Players,             \* player IDs
  Objects,             \* memory for Session objects that are in use at once
  Requested,           \* values of max_players found in create requests
  DefaultMaxPlayers,   \* 12 in the code
  MaxSessionPlayers,   \* maxSessionPlayers, 32 in the code
  MaxTotalSessions,    \* 15000 in the code
  MaxTotalPlayers,     \* 50000 in the code
  PlayerTimeout,       \* 90 s in the code
  SessionEmptyTimeout, \* 120 s in the code
  Nil                  \* nil pointer, absent map entry, zero time

ASSUME FiniteTables == IsFiniteSet(SessionIDs) /\ IsFiniteSet(Players)

ASSUME NilIsNoValue == Nil \notin SessionIDs \cup Objects \cup Players \cup Int

ASSUME LimitsAreNumbers ==
  /\ Requested \subseteq Int
  /\ DefaultMaxPlayers \in Nat
  /\ MaxSessionPlayers \in Nat
  /\ MaxTotalSessions \in Nat
  /\ MaxTotalPlayers \in Nat

ASSUME TimeoutOrder ==
  /\ PlayerTimeout \in Nat
  /\ SessionEmptyTimeout \in Nat
  /\ PlayerTimeout <= SessionEmptyTimeout

VARIABLES
  sessions,        \* SessionManager.sessions: session ID -> object
  playerIndex,     \* SessionManager.playerIndex: player -> session ID
  activeSessions,  \* Metrics.ActiveSessions
  activePlayers,   \* Metrics.ActivePlayers
  id,              \* Session.ID of every object, Nil before NewSession
  maxPlayers,      \* Session.MaxPlayers
  createdAge,      \* age of Session.CreatedAt
  players,         \* keys of Session.players
  lastSeenAge,     \* age of PlayerInfo.LastSeen, Nil for the zero time
  candidate,       \* reapCandidate.session per session ID, Nil for none
  stalePIDs,       \* reapCandidate.stalePIDs per session ID
  orphanReaped     \* history: the reaper acted through a pointer to an
                   \* object that was no longer the session of that ID

tables  == <<sessions, playerIndex, activeSessions, activePlayers>>
objects == <<id, maxPlayers, createdAge, players, lastSeenAge>>
reaper  == <<candidate, stalePIDs>>
vars    == <<tables, objects, reaper, orphanReaped>>

-----------------------------------------------------------------------------

Open == {sid \in SessionIDs : sessions[sid] # Nil}

Registered == {p \in Players : playerIndex[p] # Nil}

SessionAge == 0 .. SessionEmptyTimeout + 1

SeenAge == 0 .. PlayerTimeout + 1

\* Every variable has its type; in particular no session is created for more
\* than MaxSessionPlayers players.
TypeOK ==
  /\ sessions \in [SessionIDs -> Objects \cup {Nil}]
  /\ playerIndex \in [Players -> SessionIDs \cup {Nil}]
  /\ activeSessions \in Int
  /\ activePlayers \in Int
  /\ id \in [Objects -> SessionIDs \cup {Nil}]
  /\ maxPlayers \in [Objects -> 0 .. MaxSessionPlayers]
  /\ createdAge \in [Objects -> SessionAge]
  /\ players \in [Objects -> SUBSET Players]
  /\ lastSeenAge \in [Objects -> [Players -> SeenAge \cup {Nil}]]
  /\ candidate \in [SessionIDs -> Objects \cup {Nil}]
  /\ stalePIDs \in [SessionIDs -> SUBSET Players]
  /\ orphanReaped \in BOOLEAN

Init ==
  /\ sessions = [sid \in SessionIDs |-> Nil]
  /\ playerIndex = [p \in Players |-> Nil]
  /\ activeSessions = 0
  /\ activePlayers = 0
  /\ id = [o \in Objects |-> Nil]
  /\ maxPlayers = [o \in Objects |-> 0]
  /\ createdAge = [o \in Objects |-> 0]
  /\ players = [o \in Objects |-> {}]
  /\ lastSeenAge = [o \in Objects |-> [p \in Players |-> Nil]]
  /\ candidate = [sid \in SessionIDs |-> Nil]
  /\ stalePIDs = [sid \in SessionIDs |-> {}]
  /\ orphanReaped = FALSE

-----------------------------------------------------------------------------
(* HTTP API: create, delete, join, leave.  A request that the code answers *)
(* with an error and no change is a stuttering step and has no action.     *)

EffectiveMaxPlayers_NoCap(n) == IF n <= 0 THEN DefaultMaxPlayers ELSE n

\* max_players of a create request: defaulted, then capped.
EffectiveMaxPlayers(n) ==
  LET wanted == IF n <= 0 THEN DefaultMaxPlayers ELSE n
  IN  IF wanted > MaxSessionPlayers THEN MaxSessionPlayers ELSE wanted

CreateSession_Overwrite(sid, n) ==
  /\ Cardinality(Open) < MaxTotalSessions
  /\ \E o \in Objects :
       /\ id[o] = Nil
       /\ sessions' = [sessions EXCEPT ![sid] = o]
       /\ id' = [id EXCEPT ![o] = sid]
       /\ maxPlayers' = [maxPlayers EXCEPT ![o] = EffectiveMaxPlayers(n)]
  /\ activeSessions' = activeSessions + 1
  /\ UNCHANGED <<playerIndex, activePlayers, createdAge, players, lastSeenAge,
                 reaper, orphanReaped>>

CreateSession(sid, n) ==
  /\ sessions[sid] = Nil
  /\ Cardinality(Open) < MaxTotalSessions
  /\ \E o \in Objects :
       /\ id[o] = Nil
       /\ sessions' = [sessions EXCEPT ![sid] = o]
       /\ id' = [id EXCEPT ![o] = sid]
       /\ maxPlayers' = [maxPlayers EXCEPT ![o] = EffectiveMaxPlayers(n)]
  /\ activeSessions' = activeSessions + 1
  /\ UNCHANGED <<playerIndex, activePlayers, createdAge, players, lastSeenAge,
                 reaper, orphanReaped>>

\* Only `kept' objects remain reachable; the others are garbage, and the
\* memory is there for a later NewSession.  (Go's collector: a handler that
\* still updates such an object changes nothing anyone reads.)
Retain(kept, members, seen) ==
  /\ id' = [o \in Objects |-> IF o \in kept THEN id[o] ELSE Nil]
  /\ maxPlayers' = [o \in Objects |-> IF o \in kept THEN maxPlayers[o] ELSE 0]
  /\ createdAge' = [o \in Objects |-> IF o \in kept THEN createdAge[o] ELSE 0]
  /\ players' = [o \in Objects |-> IF o \in kept THEN members[o] ELSE {}]
  /\ lastSeenAge' = [o \in Objects |-> [p \in Players |->
                       IF o \in kept /\ p \in members[o] THEN seen[o][p] ELSE Nil]]

InTable(table) == {o \in Objects : \E sid \in SessionIDs : table[sid] = o}

\* The object is not emptied: only the index entries are removed.
DeleteSession(sid) ==
  LET gone == players[sessions[sid]]
  IN  /\ sessions[sid] # Nil
      /\ playerIndex' = [p \in Players |->
                           IF p \in gone THEN Nil ELSE playerIndex[p]]
      /\ activePlayers' = activePlayers - Cardinality(gone)
      /\ sessions' = [sessions EXCEPT ![sid] = Nil]
      /\ activeSessions' = activeSessions - 1
      /\ Retain(InTable(sessions') \cup InTable(candidate), players, lastSeenAge)
      /\ UNCHANGED <<reaper, orphanReaped>>

\* Same session again: only the transport state is reset.
Rejoin(sid, p) ==
  LET o == sessions[sid]
  IN  /\ o # Nil
      /\ playerIndex[p] = sid
      /\ lastSeenAge' = IF p \in players[o]
                          THEN [lastSeenAge EXCEPT ![o][p] = Nil]
                          ELSE lastSeenAge
      /\ UNCHANGED <<tables, id, maxPlayers, createdAge, players,
                     reaper, orphanReaped>>

\* FindSessionByPlayer: the object the index leads to, if any.
SessionOf(p) == IF playerIndex[p] = Nil THEN Nil ELSE sessions[playerIndex[p]]

AfterRemoval_Keep(p) == players

\* Session.players of every object once a migrating player has been taken
\* out of the session it is registered in.
AfterRemoval(p) ==
  [o \in Objects |-> IF o = SessionOf(p) THEN players[o] \ {p} ELSE players[o]]

HasRoom_OffByOne(o, p) ==
  /\ Cardinality(Registered \ {p}) <= MaxTotalPlayers
  /\ p \notin players[o]
  /\ Cardinality(players[o]) <= maxPlayers[o]

\* The capacity check of the manager and the two checks of Session.AddPlayer,
\* made after a migrating player has left its old session.
HasRoom(o, p) ==
  /\ Cardinality(Registered \ {p}) < MaxTotalPlayers
  /\ p \notin players[o]
  /\ Cardinality(players[o]) < maxPlayers[o]

Leaving(p) == IF playerIndex[p] = Nil THEN 0 ELSE 1

Join(sid, p) ==
  LET o == sessions[sid]
  IN  /\ o # Nil
      /\ playerIndex[p] # sid
      /\ HasRoom(o, p)
      /\ players' = [AfterRemoval(p) EXCEPT ![o] = @ \cup {p}]
      /\ lastSeenAge' = [x \in Objects |->
                           IF x \in {o, SessionOf(p)}
                             THEN [lastSeenAge[x] EXCEPT ![p] = Nil]
                             ELSE lastSeenAge[x]]
      /\ playerIndex' = [playerIndex EXCEPT ![p] = sid]
      /\ activePlayers' = (activePlayers - Leaving(p)) + 1
      /\ UNCHANGED <<sessions, activeSessions, id, maxPlayers, createdAge,
                     reaper, orphanReaped>>

\* A migration whose second half is refused: the player has already been
\* removed from the old session and is now in none.
RefusedMigration(sid, p) ==
  LET o == sessions[sid]
  IN  /\ o # Nil
      /\ playerIndex[p] \notin {sid, Nil}
      /\ ~HasRoom(o, p)
      /\ players' = AfterRemoval(p)
      /\ lastSeenAge' = [x \in Objects |->
                           IF x = SessionOf(p)
                             THEN [lastSeenAge[x] EXCEPT ![p] = Nil]
                             ELSE lastSeenAge[x]]
      /\ playerIndex' = [playerIndex EXCEPT ![p] = Nil]
      /\ activePlayers' = activePlayers - 1
      /\ UNCHANGED <<sessions, activeSessions, id, maxPlayers, createdAge,
                     reaper, orphanReaped>>

AddPlayerToSession(sid, p) ==
  Rejoin(sid, p) \/ Join(sid, p) \/ RefusedMigration(sid, p)

RemovePlayerFromSession_NoCheck(sid, p) ==
  LET o == sessions[sid]
  IN  /\ o # Nil
      /\ players' = [players EXCEPT ![o] = @ \ {p}]
      /\ lastSeenAge' = [lastSeenAge EXCEPT ![o][p] = Nil]
      /\ playerIndex' = [playerIndex EXCEPT ![p] = Nil]
      /\ activePlayers' = activePlayers - 1
      /\ UNCHANGED <<sessions, activeSessions, id, maxPlayers, createdAge,
                     reaper, orphanReaped>>

RemovePlayerFromSession(sid, p) ==
  LET o == sessions[sid]
  IN  /\ o # Nil
      /\ p \in players[o]
      /\ players' = [players EXCEPT ![o] = @ \ {p}]
      /\ lastSeenAge' = [lastSeenAge EXCEPT ![o][p] = Nil]
      /\ playerIndex' = [playerIndex EXCEPT ![p] = Nil]
      /\ activePlayers' = activePlayers - 1
      /\ UNCHANGED <<sessions, activeSessions, id, maxPlayers, createdAge,
                     reaper, orphanReaped>>

-----------------------------------------------------------------------------
(* Packet handlers.  A handler looks its sender up under SessionManager.mu *)
(* and then updates, under Session.mu, whatever object the look-up         *)
(* returned, however long ago that was.  A player is in the map of an      *)
(* object only after a join during which the index led to that object, so  *)
(* some handler may hold the pointer: the update can happen at any time.   *)
(* A packet that is dropped, spoofed or rate-limited changes nothing here. *)

\* UpdatePlayerAddr or UpdatePlayerTCP accepts a packet of the player.  The
\* instant is read before the lock is taken: the handler may have waited
\* for the lock, and two handlers may store their instants out of order.
UpdatePlayer(o, p, age) ==
  /\ p \in players[o]
  /\ lastSeenAge' = [lastSeenAge EXCEPT ![o][p] = age]
  /\ UNCHANGED <<tables, id, maxPlayers, createdAge, players, reaper,
                 orphanReaped>>

-----------------------------------------------------------------------------
(* The reaper: ReapStaleSessions in two lock sections.                     *)

IsStale_SeenOnly(o, p) ==
  lastSeenAge[o][p] # Nil /\ lastSeenAge[o][p] > PlayerTimeout

IsStale(o, p) ==
  IF lastSeenAge[o][p] = Nil
    THEN createdAge[o] > PlayerTimeout
    ELSE lastSeenAge[o][p] > PlayerTimeout

StalePlayers(o) == {p \in players[o] : IsStale(o, p)}

EmptyAndOld(members, o) ==
  members = {} /\ createdAge[o] > SessionEmptyTimeout

IsCandidate_StaleOnly(sid) ==
  sessions[sid] # Nil /\ StalePlayers(sessions[sid]) # {}

\* Phase 1, under the read lock.
IsCandidate(sid) ==
  LET o == sessions[sid]
  IN  /\ o # Nil
      /\ StalePlayers(o) # {} \/ EmptyAndOld(players[o], o)

Collect ==
  /\ \A sid \in SessionIDs : candidate[sid] = Nil
  /\ \E sid \in SessionIDs : IsCandidate(sid)
  /\ candidate' = [sid \in SessionIDs |->
                     IF IsCandidate(sid) THEN sessions[sid] ELSE Nil]
  /\ stalePIDs' = [sid \in SessionIDs |->
                     IF IsCandidate(sid) THEN StalePlayers(sessions[sid])
                                         ELSE {}]
  /\ UNCHANGED <<tables, objects, orphanReaped>>

RemovedPIDs_Unverified(sid) ==
  IF candidate[sid] = Nil THEN {} ELSE stalePIDs[sid] \cap players[candidate[sid]]

\* RemovePlayerIfStale for every collected player: staleness is verified
\* again, on the object that phase 1 saw.
RemovedPIDs(sid) ==
  IF candidate[sid] = Nil THEN {} ELSE stalePIDs[sid] \cap StalePlayers(candidate[sid])

RemovedSessions_Occupied ==
  {sid \in SessionIDs :
     /\ candidate[sid] # Nil
     /\ createdAge[candidate[sid]] > SessionEmptyTimeout}

\* The sessions whose object is empty, after the removals, and old enough.
RemovedSessions ==
  {sid \in SessionIDs :
     /\ candidate[sid] # Nil
     /\ EmptyAndOld(players[candidate[sid]] \ RemovedPIDs(sid), candidate[sid])}

RemovedPairs == {x \in SessionIDs \X Players : x[2] \in RemovedPIDs(x[1])}

ReapedFrom(o) ==
  {p \in Players : \E sid \in SessionIDs :
                      candidate[sid] = o /\ p \in RemovedPIDs(sid)}

\* Phase 2, under the write lock.
Reap ==
  /\ \E sid \in SessionIDs : candidate[sid] # Nil
  /\ playerIndex' = [p \in Players |->
       IF \E sid \in SessionIDs : p \in RemovedPIDs(sid) THEN Nil
                                                         ELSE playerIndex[p]]
  /\ activePlayers' = activePlayers - Cardinality(RemovedPairs)
  /\ sessions' = [sid \in SessionIDs |->
       IF sid \in RemovedSessions THEN Nil ELSE sessions[sid]]
  /\ activeSessions' = activeSessions - Cardinality(RemovedSessions)
  /\ Retain(InTable(sessions'), [o \in Objects |-> players[o] \ ReapedFrom(o)],
            lastSeenAge)
  /\ candidate' = [sid \in SessionIDs |-> Nil]
  /\ stalePIDs' = [sid \in SessionIDs |-> {}]
  /\ orphanReaped' = (orphanReaped \/
       \E sid \in SessionIDs :
          /\ candidate[sid] \notin {Nil, sessions[sid]}
          /\ RemovedPIDs(sid) # {} \/ sid \in RemovedSessions)

-----------------------------------------------------------------------------

Older(age, timeout) == IF age <= timeout THEN age + 1 ELSE age

Tick ==
  /\ createdAge' = [o \in Objects |->
       IF id[o] = Nil THEN createdAge[o]
                      ELSE Older(createdAge[o], SessionEmptyTimeout)]
  /\ lastSeenAge' = [o \in Objects |-> [p \in Players |->
       IF lastSeenAge[o][p] = Nil
         THEN Nil
         ELSE Older(lastSeenAge[o][p], PlayerTimeout)]]
  /\ UNCHANGED <<tables, id, maxPlayers, players, reaper, orphanReaped>>

\* What the adapters and the server itself do.  No client in the repository
\* sends DELETE /sessions/{id}; the API offers it.
Activity ==
  \/ \E sid \in SessionIDs, n \in Requested : CreateSession(sid, n)
  \/ \E sid \in SessionIDs, p \in Players : AddPlayerToSession(sid, p)
  \/ \E sid \in SessionIDs, p \in Players : RemovePlayerFromSession(sid, p)
  \/ \E o \in Objects, p \in Players, age \in SeenAge : UpdatePlayer(o, p, age)
  \/ Collect
  \/ Reap

NextNoDelete == Activity \/ Tick

Next == NextNoDelete \/ \E sid \in SessionIDs : DeleteSession(sid)

Spec == Init /\ [][Next]_vars

SpecNoDelete == Init /\ [][NextNoDelete]_vars

\* The clock advances and RunReaper's loop keeps calling ReapStaleSessions;
\* nothing obliges a client to do anything.
ReaperFairness == WF_vars(Tick) /\ WF_vars(Collect) /\ WF_vars(Reap)

FairSpecNoDelete == SpecNoDelete /\ ReaperFairness

-----------------------------------------------------------------------------

\* The index and the sessions tell the same story: a player is indexed under
\* an ID exactly when the session of that ID has the player.  Hence a player
\* is in at most one open session and no index entry dangles.  The guard is
\* the one thing the code does not protect against: the reaper acting on an
\* object that DeleteSession took out of the map between the two phases.
IndexAgrees ==
  ~orphanReaped =>
    \A p \in Players, sid \in SessionIDs :
      playerIndex[p] = sid <=> sessions[sid] # Nil /\ p \in players[sessions[sid]]

\* The gauges served by GET /health count the two maps exactly.
CountersExact ==
  ~orphanReaped =>
    /\ activePlayers = Cardinality(Registered)
    /\ activeSessions = Cardinality(Open)

\* No open session has more players than it was created for, and the open
\* sessions together never hold more players than MaxTotalPlayers although
\* the code only ever compares the size of the index with it.
WithinCapacity ==
  /\ Cardinality(Open) <= MaxTotalSessions
  /\ \A sid \in Open : Cardinality(players[sessions[sid]]) <= maxPlayers[sessions[sid]]
  /\ ~orphanReaped =>
       Cardinality(UNION {players[sessions[sid]] : sid \in Open}) <= MaxTotalPlayers

\* What holds of the objects behind the tables: an entry of the map, and an
\* entry of the reaper's list, points to an object created for that ID, and
\* memory that is not in use has no players.
ObjectsConsistent ==
  /\ \A sid \in SessionIDs :
       /\ sessions[sid] # Nil => id[sessions[sid]] = sid
       /\ candidate[sid] # Nil => id[candidate[sid]] = sid
  /\ \A o \in Objects : id[o] = Nil => players[o] = {}

\* The sizes that the code bounds, each by the check it makes.
SizesBounded ==
  /\ Cardinality(Open) <= MaxTotalSessions
  /\ Cardinality(Registered) <= MaxTotalPlayers
  /\ \A o \in Objects : Cardinality(players[o]) <= maxPlayers[o]

\* The inductive invariant: every step of the code preserves the conjunction
\* of the type invariant, the agreement of the tables, the exactness of the
\* counters and the bounds on the sizes, given that map and reaper entries
\* point to objects of their own ID.
SafetyInv ==
  TypeOK /\ ObjectsConsistent /\ IndexAgrees /\ CountersExact /\ SizesBounded

ReapStep == \E sid \in SessionIDs : candidate[sid] # Nil /\ candidate'[sid] = Nil

UnregistersOnlyStale ==
  \A p \in Registered : playerIndex'[p] = Nil => IsStale(SessionOf(p), p)

\* Phase 2 of the reaper unregisters only players whose record in their
\* current session is stale at that moment: a packet accepted between the
\* two phases saves the player, unless the object is an orphan.
ReapOnlyStale == [][ReapStep /\ ~orphanReaped' => UnregistersOnlyStale]_vars

\* What session.go:537 says of phase 2, with no exception: a player that
\* became active since phase 1 is not unregistered.
ReapAlwaysVerified == [][ReapStep => UnregistersOnlyStale]_vars

\* A player that stays registered for ever is heard from again and again
\* within PlayerTimeout, or keeps moving to other sessions: everybody else is
\* reaped.
SilentPlayersReaped ==
  \A p \in Players :
    <>[](playerIndex[p] # Nil) =>
      \/ []<>(\E o \in Objects : lastSeenAge[o][p] \in 0 .. PlayerTimeout)
      \/ []<><<\E sid \in SessionIDs : Join(sid, p)>>_vars

\* A session that stays open for ever is one that players keep using.
EmptySessionsReaped ==
  \A sid \in SessionIDs :
    <>[](sessions[sid] # Nil) => []<>(sessions[sid] # Nil /\ players[sessions[sid]] # {})

-----------------------------------------------------------------------------

Roster == [sid \in SessionIDs |->
             IF sessions[sid] = Nil THEN {} ELSE players[sessions[sid]]]

PermittedRosters == {S \in SUBSET Players : Cardinality(S) <= MaxSessionPlayers}

Dir == INSTANCE RelayDirectory
         WITH open <- Open, roster <- Roster, Rosters <- PermittedRosters

\* Without DELETE the tables implement the directory: one roster per open
\* session within the largest size a session may have, every player in at
\* most one of them.
ImplementsDirectory == Dir!Spec

\* Without DELETE the reaper never acts on an orphan.
NoOrphanReaped == ~orphanReaped
=============================================================================
