------------------------- MODULE GPGNetServerProofs -------------------------
(***************************************************************************)
(* No message is stranded in the lobby queue, for every set of messages,   *)
(* every queue limit and every number of games.                            *)
(***************************************************************************)
EXTENDS GPGNetServer, TLAPS

\* A queue that nobody touches stays exact.
LEMMA QueueUntouched ==
  ASSUME QueueExact, queue' = queue,
         \A m \in Messages : status'[m] = "queued" <=> status[m] = "queued"
  PROVE  QueueExact'
BY DEF QueueExact

\* An emptied queue is exact when no message is left waiting.
LEMMA QueueEmptied ==
  ASSUME queue' = <<>>, \A m \in Messages : status'[m] # "queued"
  PROVE  QueueExact'
BY QueueLimit DEF QueueExact

\* A new message goes to the end of a queue that has room.
LEMMA QueueAppended ==
  ASSUME QueueInv, NEW m \in Messages, status[m] = "new", Len(queue) < MaxQueued,
         queue' = Append(queue, m), status' = [status EXCEPT ![m] = "queued"]
  PROVE  QueueExact'
<1>1. queue \in Seq(Messages) /\ status \in [Messages -> Statuses] /\ QueueExact
  BY DEF QueueInv, TypeOK
<1>2. /\ Len(queue') = Len(queue) + 1
      /\ \A i \in 1 .. Len(queue) : queue'[i] = queue[i]
      /\ queue'[Len(queue) + 1] = m
  BY <1>1
<1>3. \A i \in 1 .. Len(queue) : queue[i] \in Messages /\ status[queue[i]] = "queued"
  BY <1>1 DEF QueueExact
<1>4. \A i \in 1 .. Len(queue) : queue[i] # m
  BY <1>3
<1>5. Len(queue) \in Nat /\ 1 .. Len(queue') = (1 .. Len(queue)) \cup {Len(queue) + 1}
  BY <1>1, <1>2
<1>6. Len(queue') <= MaxQueued
  BY <1>2, <1>5, QueueLimit
<1>7. {x \in Messages : status'[x] = "queued"} = {queue'[i] : i \in 1 .. Len(queue')}
  <2>1. {x \in Messages : status'[x] = "queued"}
          = {x \in Messages : status[x] = "queued"} \cup {m}
    BY <1>1
  <2>2. {queue'[i] : i \in 1 .. Len(queue')} = {queue[i] : i \in 1 .. Len(queue)} \cup {m}
    BY <1>2, <1>5
  <2> QED
    BY <1>1, <2>1, <2>2 DEF QueueExact
<1>8. \A i, j \in 1 .. Len(queue') : queue'[i] = queue'[j] => i = j
  BY <1>1, <1>2, <1>4, <1>5 DEF QueueExact
<1> QED
  BY <1>6, <1>7, <1>8 DEF QueueExact

\* The Boolean part of the type invariant.
Flags == {writer, gameUp, ready, once, inLobby, signalled} \subseteq BOOLEAN

\* The flags start as Booleans.
LEMMA FlagsInitially == Init => Flags
BY ZenonT(40) DEF Init, Flags

\* Every step leaves the flags Booleans.
LEMMA FlagsPreserved == Flags /\ [Next]_vars => Flags'
<1> SUFFICES ASSUME Flags, [Next]_vars PROVE Flags'
  OBVIOUS
<1> USE DEF Flags, server, lobby, calls, stop
<1>1. CASE Dial \/ GameExits
  BY <1>1, ZenonT(40) DEF Dial, GameExits
<1>2. CASE \E s \in States : ReadState(s)
  BY <1>2 DEF ReadState
<1>3. CASE Accept \/ Reset \/ ReadFails \/ CreateLobby
  BY <1>3, ZenonT(40) DEF Accept, Reset, ReadFails, CreateLobby
<1>4. CASE LobbyReady
  BY <1>4 DEF LobbyReady
<1>5. CASE TakeQueue \/ SendNext \/ Flushed \/ Cleanup \/ Signal \/ RunReturns
  BY <1>5, ZenonT(40) DEF TakeQueue, SendNext, Flushed, Cleanup, Signal, RunReturns
<1>6. CASE CancelOnDisconnect \/ Quit \/ CloseListener
  BY <1>6, ZenonT(40) DEF CancelOnDisconnect, Quit, CloseListener
<1>7. CASE \E m \in Messages : SendToGameQueued(m) \/ SendDirectly(m)
  BY <1>7 DEF SendToGameQueued, SendDirectly
<1>8. CASE UNCHANGED vars
  BY <1>8 DEF vars
<1> QED
  BY <1>1, <1>2, <1>3, <1>4, <1>5, <1>6, <1>7, <1>8 DEF Next, ServerStep

\* A new server, with no game and nothing queued, satisfies the invariant.
LEMMA QueueInitially == Init => QueueInv
<1> SUFFICES ASSUME Init PROVE QueueInv
  OBVIOUS
<1>1. Flags
  BY FlagsInitially
<1>2. /\ pc = "accept" /\ gameState \in States
      /\ dialed \in 0 .. MaxGames /\ backlog \in 0 .. MaxGames /\ epoch \in 0 .. MaxGames
      /\ stopped \in 0 .. 2 /\ epoch + backlog = dialed
  BY QueueLimit DEF Init, States
<1>3. /\ queue \in Seq(Messages) /\ flushing \in Seq(Messages)
      /\ status \in [Messages -> Statuses] /\ early \in SUBSET Messages
  BY DEF Init, Statuses
<1>4. TypeOK
  BY <1>1, <1>2, <1>3 DEF TypeOK, Flags
<1>5. QueueExact
  BY QueueLimit DEF Init, QueueExact
<1>6. /\ once <=> ready
      /\ NoneStranded
      /\ \A i \in 1 .. Len(flushing) : status[flushing[i]] \notin {"new", "queued"}
  BY DEF Init, NoneStranded
<1> QED
  BY <1>2, <1>4, <1>5, <1>6 DEF QueueInv

\* Writing a message to the game, or failing to, changes only its status.
LEMMA DeliverEffect ==
  ASSUME TypeOK, NEW m \in Messages, status[m] \notin {"new", "queued"}, Deliver(m)
  PROVE  /\ status' \in [Messages -> Statuses] /\ early' \in SUBSET Messages
         /\ \A x \in Messages : status'[x] = "queued" <=> status[x] = "queued"
         /\ \A x \in Messages : status[x] \notin {"new", "queued"}
                                  => status'[x] \notin {"new", "queued"}
BY DEF TypeOK, Deliver, Statuses

\* The numbers and program counters of the server goroutine.
Places ==
  /\ pc \in {"accept", "reset", "read", "idle", "lobby", "flush", "send",
             "cleanup", "signal", "done"}
  /\ dialed \in 0 .. MaxGames /\ backlog \in 0 .. MaxGames /\ epoch \in 0 .. MaxGames
  /\ gameState \in States /\ stopped \in 0 .. 2
  /\ epoch + backlog = dialed

\* Every game is accepted at most once, and the goroutine stays in its loop.
LEMMA PlacesPreserved == Places /\ [Next]_vars => Places'
<1> SUFFICES ASSUME Places, [Next]_vars PROVE Places'
  OBVIOUS
<1> USE QueueLimit DEF Places, States, server, lobby, calls, stop
<1>1. CASE Dial \/ GameExits
  BY <1>1 DEF Dial, GameExits
<1>2. CASE \E s \in States : ReadState(s)
  BY <1>2 DEF ReadState
<1>3. CASE Accept \/ Reset \/ ReadFails \/ CreateLobby
  BY <1>3, SMTT(30) DEF Accept, Reset, ReadFails, CreateLobby
<1>4. CASE LobbyReady
  BY <1>4 DEF LobbyReady
<1>5. CASE TakeQueue \/ SendNext \/ Flushed \/ Cleanup \/ Signal \/ RunReturns
  BY <1>5 DEF TakeQueue, SendNext, Flushed, Cleanup, Signal, RunReturns
<1>6. CASE CancelOnDisconnect \/ Quit \/ CloseListener
  BY <1>6 DEF CancelOnDisconnect, Quit, CloseListener
<1>7. CASE \E m \in Messages : SendToGameQueued(m) \/ SendDirectly(m)
  BY <1>7 DEF SendToGameQueued, SendDirectly
<1>8. CASE UNCHANGED vars
  BY <1>8 DEF vars
<1> QED
  BY <1>1, <1>2, <1>3, <1>4, <1>5, <1>6, <1>7, <1>8 DEF Next, ServerStep

\* The part of the invariant that is about queues and messages.
Waiting ==
  /\ queue \in Seq(Messages) /\ flushing \in Seq(Messages)
  /\ status \in [Messages -> Statuses] /\ early \in SUBSET Messages
  /\ once <=> ready
  /\ pc \in {"flush", "send"} => ready
  /\ NoneStranded
  /\ QueueExact
  /\ \A i \in 1 .. Len(flushing) : status[flushing[i]] \notin {"new", "queued"}

\* The invariant is the conjunction of the three parts.
LEMMA InvParts == QueueInv <=> Flags /\ Places /\ Waiting
BY DEF QueueInv, TypeOK, Flags, Places, Waiting

\* Every step of the server and of the callers keeps the queue exact, and
\* empty once the lobby is ready and the queue has been taken.
LEMMA WaitingPreserved == QueueInv /\ [Next]_vars => Waiting'
<1> SUFFICES ASSUME QueueInv, [Next]_vars PROVE Waiting'
  OBVIOUS
<1>0. Flags /\ Places /\ Waiting /\ TypeOK
  BY InvParts DEF QueueInv
<1> USE DEF server, lobby, calls, stop
\* Steps that touch neither the queue nor the lobby.
<1>1. ASSUME UNCHANGED <<ready, once, queue, flushing, status, early>>,
             pc' # pc => pc' \notin {"flush", "send"} /\ pc # "flush"
      PROVE  Waiting'
  <2>1. QueueExact'
    BY <1>0, <1>1, QueueUntouched DEF Waiting
  <2>2. NoneStranded'
    BY <1>0, <1>1 DEF Waiting, NoneStranded
  <2>3. /\ queue' \in Seq(Messages) /\ flushing' \in Seq(Messages)
        /\ status' \in [Messages -> Statuses] /\ early' \in SUBSET Messages
        /\ once' <=> ready'
        /\ pc' \in {"flush", "send"} => ready'
        /\ \A i \in 1 .. Len(flushing') : status'[flushing'[i]] \notin {"new", "queued"}
    BY <1>0, <1>1 DEF Waiting
  <2> QED
    BY <2>1, <2>2, <2>3 DEF Waiting
<1>2. CASE Dial \/ GameExits \/ CancelOnDisconnect \/ Quit \/ CloseListener
  BY <1>1, <1>2 DEF Dial, GameExits, CancelOnDisconnect, Quit, CloseListener
<1>3. CASE \E s \in States : ReadState(s)
  BY <1>1, <1>3 DEF ReadState
<1>4. CASE Accept \/ ReadFails \/ CreateLobby \/ Flushed \/ Cleanup \/ Signal \/ RunReturns
  BY <1>1, <1>4 DEF Accept, ReadFails, CreateLobby, Flushed, Cleanup, Signal, RunReturns
<1>5. CASE Reset
  <2>1. /\ status' \in [Messages -> Statuses]
        /\ \A m \in Messages : status'[m] # "queued"
        /\ \A m \in Messages : status[m] \notin {"new", "queued"} => status'[m] = status[m]
    BY <1>0, <1>5 DEF Reset, Waiting, Statuses
  <2>2. QueueExact'
    BY <1>5, <2>1, QueueEmptied DEF Reset
  <2>3. \A i \in 1 .. Len(flushing) : flushing[i] \in Messages
    BY <1>0 DEF Waiting
  <2> QED
    BY <1>0, <1>5, <2>1, <2>2, <2>3 DEF Reset, Waiting, NoneStranded
<1>6. CASE LobbyReady
  <2>1. QueueExact'
    BY <1>0, <1>6, QueueUntouched DEF LobbyReady, Waiting
  <2>2. ready' <=> once'
    BY <1>0, <1>6, ZenonT(40) DEF LobbyReady, Waiting
  <2> QED
    BY <1>0, <1>6, <2>1, <2>2 DEF LobbyReady, Waiting, NoneStranded
<1>7. CASE TakeQueue
  <2>1. /\ status' \in [Messages -> Statuses]
        /\ \A m \in Messages : status'[m] # "queued"
        /\ \A m \in Messages : status[m] = "queued" => status'[m] = "taken"
    BY <1>0, <1>7 DEF TakeQueue, Waiting, Statuses
  <2>2. QueueExact'
    BY <1>7, <2>1, QueueEmptied DEF TakeQueue
  <2>3. \A i \in 1 .. Len(queue) : queue[i] \in Messages /\ status[queue[i]] = "queued"
    BY <1>0 DEF Waiting, QueueExact
  <2> QED
    BY <1>0, <1>7, <2>1, <2>2, <2>3 DEF TakeQueue, Waiting, NoneStranded
<1>8. CASE SendNext
  <2>1. /\ Head(flushing) = flushing[1] /\ 1 \in 1 .. Len(flushing)
        /\ Head(flushing) \in Messages
        /\ flushing' \in Seq(Messages)
        /\ \A i \in 1 .. Len(flushing') : /\ i + 1 \in 1 .. Len(flushing)
                                          /\ flushing'[i] = flushing[i + 1]
    BY <1>0, <1>8 DEF SendNext, Waiting
  <2>2. status[Head(flushing)] \notin {"new", "queued"}
    BY <1>0, <2>1 DEF Waiting
  <2>3. /\ status' \in [Messages -> Statuses] /\ early' \in SUBSET Messages
        /\ \A x \in Messages : status'[x] = "queued" <=> status[x] = "queued"
        /\ \A x \in Messages : status[x] \notin {"new", "queued"}
                                  => status'[x] \notin {"new", "queued"}
    BY <1>0, <1>8, <2>1, <2>2, DeliverEffect DEF SendNext
  <2>4. QueueExact'
    BY <1>0, <1>8, <2>3, QueueUntouched DEF SendNext, Waiting
  <2>5. \A i \in 1 .. Len(flushing) : /\ flushing[i] \in Messages
                                       /\ status[flushing[i]] \notin {"new", "queued"}
    BY <1>0 DEF Waiting
  <2>6. \A i \in 1 .. Len(flushing') : status'[flushing'[i]] \notin {"new", "queued"}
    BY <2>1, <2>3, <2>5
  <2> QED
    BY <1>0, <1>8, <2>1, <2>3, <2>4, <2>6 DEF SendNext, Waiting, NoneStranded
<1>9. ASSUME NEW m \in Messages, SendToGameQueued(m)
      PROVE  Waiting'
  <2>1. \A i \in 1 .. Len(flushing) : flushing[i] \in Messages /\ flushing[i] # m
    BY <1>0, <1>9 DEF Waiting, SendToGameQueued
  <2>2. CASE ready \/ Len(queue) >= MaxQueued
    <3>1. /\ queue' = queue
          /\ \/ status' = [status EXCEPT ![m] = "checked"]
             \/ status' = [status EXCEPT ![m] = "dropped"]
      BY <1>9, <2>2 DEF SendToGameQueued, Enqueue
    <3>2. /\ status' \in [Messages -> Statuses]
          /\ \A x \in Messages : status'[x] = "queued" <=> status[x] = "queued"
      BY <1>0, <1>9, <3>1 DEF Waiting, Statuses, SendToGameQueued
    <3>3. QueueExact'
      BY <1>0, <3>1, <3>2, QueueUntouched DEF Waiting
    <3>4. \A i \in 1 .. Len(flushing) : status'[flushing[i]] = status[flushing[i]]
      BY <1>0, <2>1, <3>1 DEF Waiting
    <3> QED
      BY <1>0, <1>9, <3>1, <3>2, <3>3, <3>4 DEF SendToGameQueued, Waiting, NoneStranded
  <2>3. CASE ~ready /\ ~(Len(queue) >= MaxQueued)
    <3>1. /\ queue' = Append(queue, m)
          /\ status' = [status EXCEPT ![m] = "queued"]
          /\ status[m] = "new"
      BY <1>9, <2>3 DEF SendToGameQueued, Enqueue
    <3>2. Len(queue) < MaxQueued
      BY <1>0, <2>3, QueueLimit DEF Waiting
    <3>3. QueueExact'
      BY <3>1, <3>2, QueueAppended, ZenonT(40)
    <3>4. /\ status' \in [Messages -> Statuses] /\ queue' \in Seq(Messages)
          /\ \A i \in 1 .. Len(flushing) : status'[flushing[i]] = status[flushing[i]]
      BY <1>0, <2>1, <3>1 DEF Waiting, Statuses
    <3> QED
      BY <1>0, <1>9, <2>3, <3>3, <3>4 DEF SendToGameQueued, Waiting, NoneStranded
  <2> QED
    BY <2>2, <2>3
<1>10. ASSUME NEW m \in Messages, SendDirectly(m)
       PROVE  Waiting'
  <2>1. /\ status' \in [Messages -> Statuses] /\ early' \in SUBSET Messages
        /\ \A x \in Messages : status'[x] = "queued" <=> status[x] = "queued"
        /\ \A x \in Messages : status[x] \notin {"new", "queued"}
                                  => status'[x] \notin {"new", "queued"}
    BY <1>0, <1>10, DeliverEffect DEF SendDirectly
  <2>2. QueueExact'
    BY <1>0, <1>10, <2>1, QueueUntouched DEF SendDirectly, Waiting
  <2>3. \A i \in 1 .. Len(flushing) : flushing[i] \in Messages
    BY <1>0 DEF Waiting
  <2> QED
    BY <1>0, <1>10, <2>1, <2>2, <2>3 DEF SendDirectly, Waiting, NoneStranded
<1>11. CASE UNCHANGED vars
  BY <1>1, <1>11 DEF vars
<1> QED
  BY <1>2, <1>3, <1>4, <1>5, <1>6, <1>7, <1>8, <1>9, <1>10, <1>11 DEF Next, ServerStep

\* The server's goroutine and any number of concurrent SendToGameQueued calls
\* preserve the invariant of the lobby queue.
THEOREM QueueSafe == Spec => []QueueInv
<1>1. Flags' /\ Places' /\ Waiting' => QueueInv'
  BY ZenonT(40) DEF QueueInv, TypeOK, Flags, Places, Waiting
<1>2. QueueInv /\ [Next]_vars => QueueInv'
  BY <1>1, InvParts, FlagsPreserved, PlacesPreserved, WaitingPreserved
<1> QED
  BY <1>2, QueueInitially, PTL DEF Spec

\* No call of SendToGameQueued leaves its message behind in the queue after
\* flushQueue: checking the channel under queueMu is enough, although the
\* channel is closed without that lock.
THEOREM NoMessageStranded == Spec => []NoneStranded
<1>1. QueueInv => NoneStranded
  BY DEF QueueInv
<1> QED
  BY <1>1, QueueSafe, PTL

\* lobbyReady is never closed twice, whatever the game reports.
THEOREM ChannelClosedOnce == Spec => []ClosedOnce
<1>1. QueueInv => ClosedOnce
  BY DEF QueueInv, ClosedOnce
<1> QED
  BY <1>1, QueueSafe, PTL

\* The queue holds each waiting message once, and no more than its limit.
THEOREM QueueKept == Spec => []QueueExact
<1>1. QueueInv => QueueExact
  BY DEF QueueInv
<1> QED
  BY <1>1, QueueSafe, PTL

\* Every variable always has its type: no counter passes its bound, nothing but
\* calls of SendToGameQueued is in the queue.
THEOREM QueueTypes == Spec => []TypeOK
<1>1. QueueInv => TypeOK
  BY DEF QueueInv
<1> QED
  BY <1>1, QueueSafe, PTL

-----------------------------------------------------------------------------
(* The first game *)

\* Before the first game nobody has found a lobby ready, and until the second
\* game only those have who found that of the first.
FirstLobby ==
  /\ epoch = 0 => ~ready /\ pc \in {"accept", "done"}
                  /\ \A m \in Messages : status[m] # "checked"
  /\ epoch <= 1 => early = {} /\ (ready => inLobby)
                   /\ \A m \in Messages : status[m] = "checked" => inLobby

\* Every step of the server, the game and the callers keeps it.
LEMMA FirstLobbyPreserved ==
  ASSUME QueueInv, FirstLobby, [Next]_vars
  PROVE  FirstLobby'
<1> USE DEF FirstLobby
<1>0. epoch \in Nat /\ status \in [Messages -> Statuses] /\ flushing \in Seq(Messages)
      /\ (pc = "send" => ready)
  BY DEF QueueInv, TypeOK
<1>1. ASSUME UNCHANGED <<epoch, ready, status, early, inLobby>>,
             pc \in {"accept", "done"} => pc' \in {"accept", "done"}
      PROVE  FirstLobby'
  BY <1>1
<1>2. CASE Accept
  BY <1>0, <1>2 DEF Accept, lobby, calls
<1>3. CASE Reset
  BY <1>0, <1>3 DEF Reset
<1>4. CASE LobbyReady
  BY <1>0, <1>4 DEF LobbyReady, calls
<1>5. CASE TakeQueue
  BY <1>0, <1>5 DEF TakeQueue
<1>6. ASSUME NEW m \in Messages, Deliver(m), epoch # 0, epoch <= 1 => inLobby,
             UNCHANGED <<epoch, ready, inLobby, pc>>
      PROVE  FirstLobby'
  BY <1>0, <1>6 DEF Deliver
<1>7. CASE SendNext
  <2>1. Head(flushing) \in Messages
    BY <1>0, <1>7 DEF SendNext
  <2> QED
    BY <1>0, <1>6, <1>7, <2>1 DEF SendNext, server
<1>8. ASSUME NEW m \in Messages, SendToGameQueued(m)
      PROVE  FirstLobby'
  BY <1>0, <1>8 DEF SendToGameQueued, Enqueue, server
<1>9. ASSUME NEW m \in Messages, SendDirectly(m)
      PROVE  FirstLobby'
  BY <1>0, <1>6, <1>9 DEF SendDirectly, server, lobby
<1>10. CASE \/ Dial \/ GameExits \/ ReadFails \/ CreateLobby \/ Flushed \/ Cleanup
            \/ Signal \/ RunReturns \/ CancelOnDisconnect \/ Quit \/ CloseListener
            \/ \E s \in States : ReadState(s)
  BY <1>1, <1>10
     DEF Dial, GameExits, ReadFails, CreateLobby, Flushed, Cleanup, Signal, RunReturns,
         CancelOnDisconnect, Quit, CloseListener, ReadState, server, lobby, calls
<1>11. CASE UNCHANGED vars
  BY <1>1, <1>11 DEF vars, server, lobby, calls
<1> QED
  BY <1>2, <1>3, <1>4, <1>5, <1>7, <1>8, <1>9, <1>10, <1>11 DEF Next, ServerStep

\* Nothing is written to the first game before it reports its lobby, however many
\* callers there are: the check of lobbyReady under queueMu is stale only for a
\* caller that a second game overtakes.
THEOREM FirstGameUndisturbed == Spec => []FirstGameWaits
<1>1. Init => FirstLobby
  BY DEF Init, FirstLobby
<1>2. FirstLobby => FirstGameWaits
  BY DEF FirstLobby, FirstGameWaits
<1> QED
  BY <1>1, <1>2, FirstLobbyPreserved, QueueSafe, PTL DEF Spec
=============================================================================
