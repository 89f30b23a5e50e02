--------------------------- MODULE RelayDirectory ---------------------------
(***************************************************************************)
(* What the relay's session tables promise to a client of the HTTP API:    *)
(* a set of open sessions, each with a roster (GET /sessions/{id} returns  *)
(* it), and every player on at most one roster.  SessionManager implements *)
(* this with two maps, per-session player maps and a two-phase reaper.     *)
(***************************************************************************)
CONSTANTS
  SessionIDs,
  Players,
  Rosters             \* the sets of players that a session may hold

VARIABLES
  open,               \* the IDs for which GET /sessions/{id} answers 200
  roster              \* player_ids of every session, {} when it is not open

Init ==
  /\ open = {}
  /\ roster = [sid \in SessionIDs |-> {}]

OpenSession(sid) ==
  /\ sid \notin open
  /\ open' = open \cup {sid}
  /\ UNCHANGED roster

\* A player who registers leaves every other session.
Register(sid, p) ==
  /\ sid \in open
  /\ p \notin roster[sid]
  /\ roster[sid] \cup {p} \in Rosters
  /\ roster' = [t \in SessionIDs |->
                  IF t = sid THEN roster[t] \cup {p} ELSE roster[t] \ {p}]
  /\ UNCHANGED open

\* Players go and sessions that have nobody left are closed: a leave, a
\* refused migration, a deleted session, or a reaper cycle.
Expire(gone, closed) ==
  /\ closed \subseteq open
  /\ \A sid \in closed : roster[sid] \subseteq gone
  /\ open' = open \ closed
  /\ roster' = [sid \in SessionIDs |-> roster[sid] \ gone]

Next ==
  \/ \E sid \in SessionIDs : OpenSession(sid)
  \/ \E sid \in SessionIDs, p \in Players : Register(sid, p)
  \/ \E gone \in SUBSET Players, closed \in SUBSET SessionIDs : Expire(gone, closed)

Spec == Init /\ [][Next]_<<open, roster>>
=============================================================================
