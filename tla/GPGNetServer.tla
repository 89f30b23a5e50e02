---------------------------- MODULE GPGNetServer ----------------------------
(***************************************************************************)
(* The server that the game engine connects to, and the queue in which     *)
(* messages for the game wait for its lobby:                               *)
(* internal/adapter/gpgnetserver.go, with the shutdown of adapter.go.      *)
(*                                                                         *)
(* One goroutine (Run, handleConnection) accepts a game and reads from it  *)
(* until it is gone; `pc' is where that goroutine is.  Every call of       *)
(* SendToGameQueued is a goroutine of its own, named by its message.  A    *)
(* step is what the code does under connMu or queueMu, or between them.    *)
(***************************************************************************)
EXTENDS Integers, Sequences, FiniteSets

CONSTANTS
  Messages,    \* calls of SendToGameQueued
  MaxQueued,   \* maxQueuedMessages, 100 in the code
  MaxGames     \* bound: games that ever dial the server

ASSUME QueueLimit == MaxQueued \in Nat /\ MaxGames \in Nat

VARIABLES
  pc,          \* the server goroutine
  dialed,      \* games that have dialed so far
  backlog,     \* dialed games that are not accepted yet
  epoch,       \* connEpoch; the current or last connection
  writer,      \* writer # nil, equally connected
  gameUp,      \* the game at the other end of the connection is there
  gameState,   \* gameState
  ready,       \* the channel lobbyReady is closed
  once,        \* lobbyOnce has run
  queue,       \* messageQueue
  flushing,    \* the local variable queue of flushQueue
  status,      \* what became of every message
  inLobby,     \* history: the game of this connection has reached its lobby
  early,       \* history: messages written to a game before its lobby
  signalled,   \* gameDisconnectedCh holds a value
  stopped      \* 0 running, 1 the adapter's context is done, 2 listener closed

server == <<pc, dialed, backlog, epoch, writer, gameUp, gameState>>
lobby  == <<ready, once, queue, flushing>>
calls  == <<status, early>>
stop   == <<signalled, stopped>>
vars   == <<server, lobby, calls, inLobby, stop>>

States == {"None", "Idle", "Lobby", "Launching"}

Statuses == {"new", "checked", "queued", "taken", "sent", "failed", "dropped", "wiped"}

\* Every variable has its type.
TypeOK ==
  /\ pc \in {"accept", "reset", "read", "idle", "lobby", "flush", "send",
             "cleanup", "signal", "done"}
  /\ dialed \in 0 .. MaxGames /\ backlog \in 0 .. MaxGames /\ epoch \in 0 .. MaxGames
  /\ gameState \in States /\ stopped \in 0 .. 2
  /\ queue \in Seq(Messages) /\ flushing \in Seq(Messages)
  /\ status \in [Messages -> Statuses] /\ early \in SUBSET Messages
  /\ {writer, gameUp, ready, once, inLobby, signalled} \subseteq BOOLEAN

Init ==
  /\ pc = "accept" /\ dialed = 0 /\ backlog = 0 /\ epoch = 0
  /\ writer = FALSE /\ gameUp = FALSE /\ gameState = "None"
  /\ ready = FALSE /\ once = FALSE /\ queue = <<>> /\ flushing = <<>>
  /\ status = [m \in Messages |-> "new"] /\ early = {}
  /\ inLobby = FALSE /\ signalled = FALSE /\ stopped = 0

-----------------------------------------------------------------------------
(* The game engine.  What it sends is consumed by the server's read loop.  *)

Dial ==
  /\ dialed < MaxGames /\ stopped < 2
  /\ dialed' = dialed + 1 /\ backlog' = backlog + 1
  /\ UNCHANGED <<pc, epoch, writer, gameUp, gameState, lobby, calls, inLobby, stop>>

GameExits ==
  /\ gameUp
  /\ gameUp' = FALSE
  /\ UNCHANGED <<pc, dialed, backlog, epoch, writer, gameState, lobby, calls, inLobby, stop>>

-----------------------------------------------------------------------------
(* Run and handleConnection.                                               *)

Accept_IgnoresError ==
  /\ pc = "accept" /\ stopped < 2
  /\ backlog' = backlog - 1
  /\ epoch' = epoch + 1
  /\ writer' = TRUE /\ gameUp' = TRUE /\ gameState' = "None"
  /\ inLobby' = FALSE
  /\ pc' = "reset"
  /\ UNCHANGED <<dialed, lobby, calls, stop>>

\* Accept, and the section under connMu at the start of handleConnection.
\* There is no previous connection to close here: its handler has returned.
Accept ==
  /\ pc = "accept" /\ backlog > 0 /\ stopped < 2
  /\ backlog' = backlog - 1
  /\ epoch' = epoch + 1
  /\ writer' = TRUE /\ gameUp' = TRUE /\ gameState' = "None"
  /\ inLobby' = FALSE
  /\ pc' = "reset"
  /\ UNCHANGED <<dialed, lobby, calls, stop>>

Reset_KeepChannel ==
  /\ pc = "reset"
  /\ once' = FALSE /\ queue' = <<>>
  /\ status' = [m \in Messages |-> IF status[m] = "queued" THEN "wiped" ELSE status[m]]
  /\ pc' = "read"
  /\ UNCHANGED <<dialed, backlog, epoch, writer, gameUp, gameState, ready, flushing,
                 early, inLobby, stop>>

\* The section under queueMu: a fresh channel, and what was queued is lost.
Reset ==
  /\ pc = "reset"
  /\ ready' = FALSE /\ once' = FALSE /\ queue' = <<>>
  /\ status' = [m \in Messages |-> IF status[m] = "queued" THEN "wiped" ELSE status[m]]
  /\ pc' = "read"
  /\ UNCHANGED <<dialed, backlog, epoch, writer, gameUp, gameState, flushing,
                 early, inLobby, stop>>

\* A GameState message: processMessage, onGameState.  What the game sent
\* before it exited is still read.
ReadState(s) ==
  /\ pc = "read"
  /\ gameState' = s
  /\ pc' = CASE s = "Idle" -> "idle" [] s = "Lobby" -> "lobby" [] OTHER -> "read"
  /\ UNCHANGED <<dialed, backlog, epoch, writer, gameUp, lobby, calls, inLobby, stop>>

\* The game is gone, or the goroutine that waits for the context has closed
\* the connection.
ReadFails ==
  /\ pc = "read"
  /\ ~gameUp \/ stopped > 0
  /\ gameUp' = FALSE
  /\ pc' = "cleanup"
  /\ UNCHANGED <<dialed, backlog, epoch, writer, gameState, lobby, calls, inLobby, stop>>

\* GameStateIdle: CreateLobby goes out, or the write fails and is ignored.
CreateLobby ==
  /\ pc = "idle"
  /\ pc' = "read"
  /\ UNCHANGED <<dialed, backlog, epoch, writer, gameUp, gameState, lobby, calls,
                 inLobby, stop>>

LobbyReady_NoFlush ==
  /\ pc = "lobby"
  /\ ready' = (~once \/ ready) /\ once' = TRUE
  /\ inLobby' = TRUE
  /\ pc' = "read"
  /\ UNCHANGED <<dialed, backlog, epoch, writer, gameUp, gameState, queue, flushing,
                 calls, stop>>

\* GameStateLobby: lobbyOnce.Do(close(lobbyReady)), without a lock.
LobbyReady ==
  /\ pc = "lobby"
  /\ ready' = (~once \/ ready) /\ once' = TRUE
  /\ inLobby' = TRUE
  /\ pc' = "flush"
  /\ UNCHANGED <<dialed, backlog, epoch, writer, gameUp, gameState, queue, flushing,
                 calls, stop>>

TakeQueue_Keep ==
  /\ pc = "flush"
  /\ flushing' = queue
  /\ status' = [m \in Messages |-> IF status[m] = "queued" THEN "taken" ELSE status[m]]
  /\ pc' = "send"
  /\ UNCHANGED <<dialed, backlog, epoch, writer, gameUp, gameState, ready, once, queue,
                 early, inLobby, stop>>

\* flushQueue, under queueMu.
TakeQueue ==
  /\ pc = "flush"
  /\ flushing' = queue /\ queue' = <<>>
  /\ status' = [m \in Messages |-> IF status[m] = "queued" THEN "taken" ELSE status[m]]
  /\ pc' = "send"
  /\ UNCHANGED <<dialed, backlog, epoch, writer, gameUp, gameState, ready, once,
                 early, inLobby, stop>>

\* SendToGame, under connMu: without a writer, and when the game is gone, the
\* message is lost; a socket whose peer has just gone may still accept it.
\* When the context is done, the connection may have been closed.
Deliver(m) ==
  /\ \/ writer /\ status' = [status EXCEPT ![m] = "sent"]
     \/ /\ ~writer \/ ~gameUp \/ stopped > 0
        /\ status' = [status EXCEPT ![m] = "failed"]
  /\ early' = IF status'[m] = "sent" /\ ~inLobby THEN early \cup {m} ELSE early

SendNext ==
  /\ pc = "send" /\ flushing # <<>>
  /\ Deliver(Head(flushing))
  /\ flushing' = Tail(flushing)
  /\ UNCHANGED <<server, ready, once, queue, inLobby, stop>>

Flushed ==
  /\ pc = "send" /\ flushing = <<>>
  /\ pc' = "read"
  /\ UNCHANGED <<dialed, backlog, epoch, writer, gameUp, gameState, lobby, calls,
                 inLobby, stop>>

\* The end of handleConnection.  connEpoch still is this handler's: the next
\* game is accepted only when the handler has returned.
Cleanup ==
  /\ pc = "cleanup"
  /\ writer' = FALSE
  /\ pc' = "signal"
  /\ UNCHANGED <<dialed, backlog, epoch, gameUp, gameState, lobby, calls, inLobby, stop>>

Signal_Lost ==
  /\ pc = "signal"
  /\ pc' = "accept"
  /\ UNCHANGED <<dialed, backlog, epoch, writer, gameUp, gameState, lobby, calls,
                 inLobby, stop>>

\* signalGameDisconnected: the channel holds one value, a second is dropped.
Signal ==
  /\ pc = "signal"
  /\ signalled' = TRUE
  /\ pc' = "accept"
  /\ UNCHANGED <<dialed, backlog, epoch, writer, gameUp, gameState, lobby, calls,
                 inLobby, stopped>>

\* Accept fails and the context is done.
RunReturns ==
  /\ pc = "accept" /\ stopped = 2
  /\ pc' = "done"
  /\ UNCHANGED <<dialed, backlog, epoch, writer, gameUp, gameState, lobby, calls,
                 inLobby, stop>>

-----------------------------------------------------------------------------
(* The adapter's shutdown.                                                 *)

\* The watcher of gameDisconnectedCh in Adapter.Run.
CancelOnDisconnect ==
  /\ signalled /\ stopped = 0
  /\ signalled' = FALSE /\ stopped' = 1
  /\ UNCHANGED <<server, lobby, calls, inLobby>>

\* The quit request, or a signal to the process.
Quit ==
  /\ stopped = 0
  /\ stopped' = 1
  /\ UNCHANGED <<server, lobby, calls, inLobby, signalled>>

CloseListener ==
  /\ stopped = 1
  /\ stopped' = 2
  /\ UNCHANGED <<server, lobby, calls, inLobby, signalled>>

-----------------------------------------------------------------------------
(* SendToGameQueued.                                                       *)

Enqueue_OffByOne(m) ==
  IF Len(queue) > MaxQueued
    THEN status' = [status EXCEPT ![m] = "dropped"] /\ UNCHANGED queue
    ELSE status' = [status EXCEPT ![m] = "queued"] /\ queue' = Append(queue, m)

Enqueue_SendIfFull(m) ==
  IF Len(queue) >= MaxQueued
    THEN status' = [status EXCEPT ![m] = "checked"] /\ UNCHANGED queue
    ELSE status' = [status EXCEPT ![m] = "queued"] /\ queue' = Append(queue, m)

Enqueue(m) ==
  IF Len(queue) >= MaxQueued
    THEN status' = [status EXCEPT ![m] = "dropped"] /\ UNCHANGED queue
    ELSE status' = [status EXCEPT ![m] = "queued"] /\ queue' = Append(queue, m)

\* The section under queueMu.
SendToGameQueued(m) ==
  /\ status[m] = "new"
  /\ \/ ready /\ status' = [status EXCEPT ![m] = "checked"] /\ UNCHANGED queue
     \/ ~ready /\ Enqueue(m)
  /\ UNCHANGED <<server, ready, once, flushing, early, inLobby, stop>>

\* The lobby was ready: SendToGame, after queueMu has been released.
SendDirectly(m) ==
  /\ status[m] = "checked"
  /\ Deliver(m)
  /\ UNCHANGED <<server, lobby, inLobby, stop>>

-----------------------------------------------------------------------------

ServerStep ==
  \/ Accept \/ Reset \/ ReadFails \/ CreateLobby \/ LobbyReady \/ TakeQueue
  \/ SendNext \/ Flushed \/ Cleanup \/ Signal \/ RunReturns

Next ==
  \/ Dial \/ GameExits
  \/ \E s \in States : ReadState(s)
  \/ ServerStep
  \/ CancelOnDisconnect \/ Quit \/ CloseListener
  \/ \E m \in Messages : SendToGameQueued(m) \/ SendDirectly(m)

Spec == Init /\ [][Next]_vars

\* The server goroutine and the two goroutines that wait for the context run;
\* nothing obliges the game or the client to act.
FairSpec ==
  Spec /\ WF_vars(ServerStep) /\ WF_vars(CancelOnDisconnect) /\ WF_vars(CloseListener)

-----------------------------------------------------------------------------

\* No message is stranded: once the lobby is ready, and but for the moment
\* between closing the channel and taking the queue, nothing waits in it,
\* although the channel is closed without the queue's lock.
NoneStranded == ready /\ pc # "flush" => queue = <<>>

\* The queue holds each waiting message once and never exceeds its limit.
QueueExact ==
  /\ Len(queue) <= MaxQueued
  /\ {m \in Messages : status[m] = "queued"} = {queue[i] : i \in 1 .. Len(queue)}
  /\ \A i, j \in 1 .. Len(queue) : queue[i] = queue[j] => i = j

\* close(lobbyReady) is never executed on a closed channel, which would
\* panic: whenever lobbyOnce has not run the channel is open, also for a game
\* that reports Lobby twice and for the next game.
ClosedOnce == pc = "lobby" /\ ~once => ~ready

\* The inductive invariant.  Games are accepted only after they dialed, which
\* bounds the epoch; while the queue is being flushed the lobby is ready; and
\* what is being flushed waits no longer.
QueueInv ==
  /\ TypeOK
  /\ epoch + backlog = dialed
  /\ once <=> ready
  /\ pc \in {"flush", "send"} => ready
  /\ NoneStranded
  /\ QueueExact
  /\ \A i \in 1 .. Len(flushing) : status[flushing[i]] \notin {"new", "queued"}

\* A message that waits when the game reports its lobby leaves the queue for
\* the game, or is lost with the game.
LobbyFlushes ==
  \A m \in Messages :
    (pc = "lobby" /\ status[m] = "queued") ~> (status[m] \in {"sent", "failed"})

\* adapter.go:270-273: the adapter does not outlive its game.
ShutsDown == (pc = "cleanup") ~> (stopped > 0)

\* The first game is told nothing before it has a lobby: SendToGameQueued writes
\* only after it has found lobbyReady closed.  A later game may be, by a caller
\* that found the lobby of the game before it ready.
FirstGameWaits == epoch <= 1 => early = {}
=============================================================================
