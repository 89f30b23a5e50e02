----------------------------- MODULE ICERestart -----------------------------
(***************************************************************************)
(* The ICE peer of one remote player and everything that may replace it:   *)
(* internal/adapter/icepeer.go (NewICEPeer, HandleIceMsg, Start, run,      *)
(* Close), the table of peermgr.go and, in rpchandler.go, connectToPeer,   *)
(* joinGame, disconnectFromPeer, iceMsg and iceRestartCallback.            *)
(*                                                                         *)
(* A thread is the RPC connection, the goroutine that runs the adapter, or *)
(* a goroutine of the restart callback.  A step is what a thread does      *)
(* between two points where it waits, takes pm.mu or lets go of it.        *)
(*                                                                         *)
(* The code compares a pointer to a peer only with the table's, and a peer *)
(* that has left the table never returns to it.  So only the table's peer  *)
(* has a state here, and a pointer is a Boolean: it is the table's or not. *)
(* Of credentials the code asks only whether they are the ones it has.     *)
(***************************************************************************)
EXTENDS Integers, FiniteSets

CONSTANTS
  Roles,        \* roles (offer) that connectToPeer is called with
  RestartCap,   \* consecutive restarts of one callback, 5 in the code
  MaxCallbacks, \* bound: goroutines of the callback at once
  MaxCalls      \* bound: calls of connectToPeer, disconnectFromPeer, the debug page

ASSUME RestartBounds == /\ Roles \subseteq BOOLEAN /\ Roles # {}
                        /\ {RestartCap, MaxCallbacks, MaxCalls} \subseteq Nat

Callbacks == 1 .. MaxCallbacks
Rpc       == 0
Main      == MaxCallbacks + 1
Threads   == Rpc .. Main
NoThread  == -1

VARIABLES
  peer,     \* the ICEPeer in the table, or NoPeer
  port,     \* its UDP socket: is it open, does the peer have ownsConn
  closure,  \* what iceRestartCallback closes over, one for each role
  task,     \* the threads
  lock,     \* thread that holds pm.mu while Close waits, else NoThread
  down,     \* the adapter: "up", "cancelled", or "closed" after CloseAll
  calls     \* calls made so far

vars == <<peer, port, closure, task, lock, down, calls>>

\* Where run() is; "new" before Start, "orphan" when Start came between the two
\* halves of Close, "ended" when the adapter's context is cancelled.
Phases == {"none", "new", "gather", "wait", "dial", "up", "failed", "orphan", "ended"}

NoPeer     == [phase |-> "none", offerer |-> FALSE, msg |-> FALSE, sendFirst |-> FALSE]
Idle       == [pc |-> "idle", kind |-> "none", offerer |-> FALSE, own |-> FALSE,
               same |-> FALSE]
NewClosure == [failures |-> 0, last |-> "none"]

\* Every variable has its type.
TypeOK ==
  /\ peer \in [phase : Phases, offerer : BOOLEAN, msg : BOOLEAN, sendFirst : BOOLEAN]
  /\ port \in [open : BOOLEAN, owned : BOOLEAN]
  /\ closure \in [BOOLEAN -> [failures : Nat, last : {"none", "brief", "stable"}]]
  /\ task \in [Threads -> [pc : {"idle", "delay", "queued", "backoff", "add",
                                 "replace", "start", "remove"},
                           kind : {"none", "self", "remote", "manual", "rpc", "stop"},
                           offerer : BOOLEAN, own : BOOLEAN, same : BOOLEAN]]
  /\ lock \in {NoThread} \cup Threads
  /\ down \in {"up", "cancelled", "closed"} /\ calls \in 0 .. MaxCalls

Init ==
  /\ peer = NoPeer /\ port = [open |-> FALSE, owned |-> FALSE]
  /\ closure = [o \in BOOLEAN |-> NewClosure]
  /\ task = [t \in Threads |-> Idle] /\ lock = NoThread
  /\ down = "up" /\ calls = 0

-----------------------------------------------------------------------------
(* Closing the table's peer.                                               *)

Present == peer.phase # "none"

\* The first idle goroutine of the callback, if the bound leaves one.
FreeCallback == {t \in Callbacks : task[t].pc = "idle"
                                   /\ \A s \in 1 .. t - 1 : task[s].pc # "idle"}

\* go p.onRestart(msg); own: the peer in the table started it
OnRestart(kind, o, own) ==
  [Idle EXCEPT !.pc = "queued", !.kind = kind, !.offerer = o, !.own = own]

NewICEPeer(o, msg) == [NoPeer EXCEPT !.phase = "new", !.offerer = o, !.msg = msg]

\* Does closing the peer make run() start a restart?  Dial fails when its
\* context is cancelled, and a select may still take the message that waits.
DialFails == CASE peer.phase = "dial" /\ peer.offerer -> {TRUE}
               [] peer.phase \in {"gather", "wait"} /\ peer.offerer /\ peer.msg -> BOOLEAN
               [] OTHER -> {FALSE}

\* The threads once the peer's context is cancelled: the answerer's timer is
\* stopped unless it has just run off.
EndRun(fails, fires) ==
  LET free == FreeCallback IN
  [s \in Threads |->
     CASE fails /\ s \in free -> OnRestart("self", peer.offerer, TRUE)
       [] task[s].pc = "delay" /\ ~fires -> Idle
       [] task[s].pc = "delay" /\ fires -> [task[s] EXCEPT !.pc = "queued"]
       [] OTHER -> task[s]]

\* And once the peer has left the table: no pointer is the table's any more.
AfterClose(fails, fires) ==
  LET ended == EndRun(fails, fires) IN
  [s \in Threads |-> [ended[s] EXCEPT !.own = FALSE, !.same = FALSE]]

\* Thread t gets through Close: wg.Wait returns.  An orphan's gameToICE ends only
\* with the adapter.
CanClose(t) == lock \in {NoThread, t} /\ peer.phase # "orphan"

\* First half of Close, for a peer that has no cancel function yet.
BeginClose(t) ==
  /\ task[t].pc \in {"replace", "remove"} /\ lock = NoThread /\ peer.phase = "new"
  /\ lock' = t
  /\ UNCHANGED <<peer, port, closure, task, down, calls>>

\* Mutant: old.ownsConn stays as it was, and Close closes the socket.
ReplaceClosesPort(t) ==
  /\ task[t].pc = "replace" /\ CanClose(t)
  /\ task' = [AfterClose(FALSE, FALSE) EXCEPT ![t] = [task[t] EXCEPT !.pc = "start"]]
  /\ peer' = NewICEPeer(task[t].offerer, task[t].kind = "remote")
  /\ port' = [open |-> Present => port.open /\ ~port.owned, owned |-> ~Present]
  /\ lock' = NoThread
  /\ UNCHANGED <<closure, down, calls>>

\* ReplaceICEPeer: the new peer takes over the socket, with ownsConn false.
\* When NewICEPeer fails the socket is closed.
ReplaceICEPeer(t) ==
  /\ task[t].pc = "replace" /\ CanClose(t)
  /\ \E fails \in DialFails, fires, built \in BOOLEAN :
       /\ task' = [AfterClose(fails, fires) EXCEPT ![t] =
            IF built THEN [task[t] EXCEPT !.pc = "start", !.own = FALSE, !.same = TRUE]
                     ELSE Idle]
       /\ peer' = IF built THEN NewICEPeer(task[t].offerer, task[t].kind = "remote")
                           ELSE NoPeer
       /\ port' = [open |-> built /\ (Present => port.open), owned |-> built /\ ~Present]
  /\ lock' = NoThread
  /\ UNCHANGED <<closure, down, calls>>

\* RemovePeer and CloseAll: a socket the peer does not own stays open.
RemovePeer(t) ==
  /\ task[t].pc = "remove" /\ CanClose(t)
  /\ \E fails \in DialFails, fires \in BOOLEAN :
       task' = [AfterClose(fails, fires) EXCEPT ![t] = Idle]
  /\ peer' = NoPeer /\ lock' = NoThread
  /\ port' = [open |-> port.open /\ ~port.owned, owned |-> FALSE]
  /\ down' = IF t = Main THEN "closed" ELSE down
  /\ UNCHANGED <<closure, calls>>

\* msg.Ufrag is empty.
SelfInitiated(t) == task[t].kind \in {"self", "manual"}

\* Mutant: without SetSendFirst.
StartSilent(t) ==
  /\ task[t].pc = "start"
  /\ peer' = IF task[t].same /\ peer.phase = "new"
              THEN [peer EXCEPT !.phase = IF down = "up" THEN "gather" ELSE "ended"] ELSE peer
  /\ task' = [task EXCEPT ![t] = Idle]
  /\ UNCHANGED <<port, closure, lock, down, calls>>

\* SetSendFirst and Start, which does nothing the second time.  A peer closed in
\* the meantime starts all the same: its gameToICE goroutine reads the socket, and
\* nothing will cancel it.
Start(t) ==
  LET first == peer.sendFirst \/ (SelfInitiated(t) /\ ~task[t].offerer)
      fresh == task[t].same /\ peer.phase = "new"
  IN
  /\ task[t].pc = "start"
  /\ peer' = CASE fresh /\ down # "up" -> [peer EXCEPT !.phase = "ended"]
               [] fresh /\ down = "up" /\ lock # NoThread -> [peer EXCEPT !.phase = "orphan"]
               [] fresh /\ down = "up" /\ lock = NoThread ->
                    [peer EXCEPT !.phase = "gather", !.sendFirst = first]
               [] task[t].same /\ peer.phase \in {"gather", "wait"} ->
                    [peer EXCEPT !.sendFirst = first]
               [] OTHER -> peer
  /\ task' = [task EXCEPT ![t] = Idle]
  /\ UNCHANGED <<port, closure, lock, down, calls>>

-----------------------------------------------------------------------------
(* run() and the agent's callbacks, until the context is cancelled.        *)

Settled == UNCHANGED <<port, lock, down, calls>>

Gather ==
  /\ peer.phase = "gather" /\ peer' = [peer EXCEPT !.phase = "wait"]
  /\ UNCHANGED <<task, closure>> /\ Settled

\* Credentials of the remote: from here on new ones mean a restart.
TakeRemoteMsg ==
  /\ peer.phase = "wait" /\ peer.msg
  /\ peer' = [peer EXCEPT !.phase = "dial", !.msg = FALSE, !.sendFirst = FALSE]
  /\ UNCHANGED <<task, closure>> /\ Settled

\* The agent connects, and onConnected sets lastConnectedAt.
Connect ==
  /\ peer.phase = "dial" /\ peer' = [peer EXCEPT !.phase = "up"]
  /\ closure' = [closure EXCEPT ![peer.offerer].last = "brief"]
  /\ UNCHANGED task /\ Settled

\* lastConnectedAt is 60 s ago by the time that a callback is about to ask; nothing
\* else reads it, so when it passes the 60 s before that makes no difference.
Age(o) ==
  /\ closure[o].last = "brief" /\ down = "up"
  /\ \E t \in Callbacks : task[t].pc = "queued" /\ task[t].offerer = o
  /\ closure' = [closure EXCEPT ![o].last = "stable"]
  /\ UNCHANGED <<peer, task>> /\ Settled

\* Mutant: only the offerer restarts.
FailOffererOnly ==
  /\ peer.phase \in {"dial", "up"}
  /\ peer' = [peer EXCEPT !.phase = "failed"]
  /\ \E t \in FreeCallback : task' = IF peer.offerer
       THEN [task EXCEPT ![t] = OnRestart("self", TRUE, TRUE)] ELSE task
  /\ UNCHANGED closure /\ Settled

\* The agent fails, or Dial does: the offerer restarts at once, the answerer
\* waits answererRestartDelay.  restartOnce: once for each peer.
Fail ==
  /\ peer.phase \in {"dial", "up"}
  /\ peer' = [peer EXCEPT !.phase = "failed"]
  /\ \E t \in FreeCallback :
       task' = [task EXCEPT ![t] =
         [OnRestart("self", peer.offerer, TRUE) EXCEPT
            !.pc = IF peer.offerer THEN "queued" ELSE "delay"]]
  /\ UNCHANGED closure /\ Settled

AnswererRestart(t) ==
  /\ task[t].pc = "delay"
  /\ task' = [task EXCEPT ![t].pc = "queued"]
  /\ UNCHANGED <<peer, closure>> /\ Settled

-----------------------------------------------------------------------------
(* The restart callback.                                                   *)

\* Mutant: any connection resets the counter.
FailuresReset(t) ==
  LET c == closure[task[t].offerer] IN
  IF task[t].kind = "manual" \/ c.last # "none" THEN 1
  ELSE IF c.failures > RestartCap THEN RestartCap + 1 ELSE c.failures + 1

\* The failure counter after this restart.  The code counts on; here the number
\* stops above RestartCap, as all that is asked of it is whether it is there.
Failures(t) ==
  LET c == closure[task[t].offerer]
      f == IF task[t].kind = "manual" \/ c.last = "stable" THEN 1 ELSE c.failures + 1
  IN  IF f > RestartCap THEN RestartCap + 1 ELSE f

\* The locked section, then peerBefore for a restart that backs off, which
\* ends at once when the adapter's context is cancelled.
CountRestart(t) ==
  /\ task[t].pc = "queued" /\ lock = NoThread
  /\ closure' = [closure EXCEPT ![task[t].offerer] =
                   [failures |-> Failures(t), last |-> "none"]]
  /\ task' = [task EXCEPT ![t] =
       IF Failures(t) > RestartCap \/ (@.kind = "self" /\ down # "up") THEN Idle
       ELSE IF @.kind = "self" THEN [@ EXCEPT !.pc = "backoff", !.same = Present]
       ELSE [@ EXCEPT !.pc = "replace"]]
  /\ UNCHANGED peer /\ Settled

\* After the backoff: peerAfter is nil, another peer, or peerBefore.
Wake(t) ==
  /\ task[t].pc = "backoff" /\ lock = NoThread
  /\ task' = [task EXCEPT ![t] =
       IF Present /\ @.same THEN [@ EXCEPT !.pc = "replace", !.same = FALSE] ELSE Idle]
  /\ UNCHANGED <<peer, closure>> /\ Settled

-----------------------------------------------------------------------------
(* The RPC connection, the debug page and the end of the adapter.          *)

RpcReady == task[Rpc].pc = "idle" /\ lock = NoThread /\ down = "up"
RpcCall(pc, o) == task' = [task EXCEPT ![Rpc] =
  [Idle EXCEPT !.pc = pc, !.kind = "rpc", !.offerer = o]]
Called == calls < MaxCalls /\ calls' = calls + 1

\* connectToPeer makes a callback; the bound is one for each role at a time.
NewCallback(o) ==
  /\ \A t \in Callbacks : task[t].pc # "idle" => task[t].offerer # o
  /\ closure' = [closure EXCEPT ![o] = NewClosure]

\* connectToPeer or joinGame finds no peer; AddICEPeer follows.
ConnectToPeer(o) ==
  /\ RpcReady /\ ~Present /\ Called
  /\ RpcCall("add", o)
  /\ UNCHANGED <<peer, port, closure, lock, down>>

\* Mutant: leaves the start of the peer to AddICEPeer, as its comment has it.
AddICEPeerOnly(t) ==
  /\ task[t].pc = "add" /\ lock = NoThread
  /\ ~Present /\ NewCallback(task[t].offerer)
  /\ peer' = NewICEPeer(task[t].offerer, FALSE) /\ port' = [open |-> TRUE, owned |-> TRUE]
  /\ task' = [task EXCEPT ![t] = Idle]
  /\ UNCHANGED <<lock, down, calls>>

\* AddICEPeer: a peer that a restart has put there meanwhile is taken as it is,
\* and NewICEPeer may fail; Start follows.
AddICEPeer(t) ==
  /\ task[t].pc = "add" /\ lock = NoThread
  /\ \/ /\ Present
        /\ task' = [task EXCEPT ![t].pc = "start", ![t].same = TRUE]
        /\ UNCHANGED <<peer, port, closure>>
     \/ /\ ~Present /\ NewCallback(task[t].offerer)
        /\ peer' = NewICEPeer(task[t].offerer, FALSE)
        /\ port' = [open |-> TRUE, owned |-> TRUE]
        /\ task' = [task EXCEPT ![t].pc = "start", ![t].same = TRUE]
     \/ /\ ~Present /\ task' = [task EXCEPT ![t] = Idle]
        /\ UNCHANGED <<peer, port, closure>>
  /\ UNCHANGED <<lock, down, calls>>

\* connectToPeer when the peer has the other role: ReplaceICEPeer follows.
ChangeRole(o) ==
  /\ RpcReady /\ Present /\ peer.offerer # o /\ NewCallback(o) /\ Called
  /\ RpcCall("replace", o)
  /\ UNCHANGED <<peer, port, lock, down>>

\* disconnectFromPeer: RemovePeer follows.
DisconnectFromPeer ==
  /\ RpcReady /\ Called
  /\ RpcCall("remove", FALSE)
  /\ UNCHANGED <<peer, port, closure, lock, down>>

\* iceMsg: the look-up in the table, and HandleIceMsg with credentials that are
\* new to a peer that has some, or with the peer's first.  A peer closed between
\* the two would lose the message, or start the callback that starts here.
IceMsg ==
  /\ RpcReady
  /\ \/ /\ peer.phase \in {"dial", "up", "failed"}
        /\ \E t \in FreeCallback :
             task' = [task EXCEPT ![t] = OnRestart("remote", peer.offerer, FALSE)]
        /\ UNCHANGED peer
     \/ /\ peer.phase \in {"new", "gather", "wait"}
        /\ peer' = [peer EXCEPT !.msg = TRUE]
        /\ UNCHANGED task
  /\ UNCHANGED closure /\ Settled

\* ForceICEReconnect of the debug page.
ForceRestart ==
  /\ Present /\ lock = NoThread /\ down = "up" /\ Called
  /\ \E t \in FreeCallback :
       task' = [task EXCEPT ![t] = OnRestart("manual", peer.offerer, FALSE)]
  /\ UNCHANGED <<peer, port, closure, lock, down>>

\* Mutant: gameToICE goes on after a read error without asking for its context.
QuitDeaf ==
  /\ down = "up" /\ down' = "cancelled" /\ calls' = MaxCalls
  /\ task' = [EndRun(FALSE, FALSE) EXCEPT ![Main] =
                [Idle EXCEPT !.pc = "remove", !.kind = "stop"]]
  /\ peer' = IF peer.phase \in {"none", "new", "orphan"} THEN peer
             ELSE [NoPeer EXCEPT !.phase = "ended", !.offerer = peer.offerer]
  /\ UNCHANGED <<port, closure, lock>>

\* The adapter's context is cancelled, and with it that of every peer and every
\* backoff that does not just end; CloseAll follows.
Quit ==
  /\ down = "up" /\ down' = "cancelled" /\ calls' = MaxCalls
  /\ \E fails \in DialFails, fires, wakes \in BOOLEAN :
       LET ended == EndRun(fails, fires) IN
       task' = [t \in Threads |->
         CASE t = Main -> [Idle EXCEPT !.pc = "remove", !.kind = "stop"]
           [] t # Main /\ ended[t].pc = "backoff" /\ ~wakes -> Idle
           [] OTHER -> ended[t]]
  /\ peer' = IF peer.phase \in {"none", "new"} THEN peer
             ELSE [NoPeer EXCEPT !.phase = "ended", !.offerer = peer.offerer]
  /\ UNCHANGED <<port, closure, lock>>

-----------------------------------------------------------------------------
Step(t) == \/ BeginClose(t) \/ AddICEPeer(t) \/ ReplaceICEPeer(t) \/ RemovePeer(t)
           \/ Start(t)
           \/ AnswererRestart(t) \/ CountRestart(t) \/ Wake(t)

Next ==
  \/ \E t \in Threads : Step(t)
  \/ Gather \/ TakeRemoteMsg \/ Connect \/ Fail
  \/ \E o \in Roles : Age(o) \/ ConnectToPeer(o) \/ ChangeRole(o)
  \/ IceMsg \/ DisconnectFromPeer \/ ForceRestart \/ Quit

Spec == Init /\ [][Next]_vars

\* The goroutines run and their timers run off; gathering completes or times
\* out.  The remote answers credentials that are sent, and sent again every
\* signalingTimeout: no one else sends to a peer that says nothing.
Signalled == peer.phase = "wait" /\ (peer.offerer \/ peer.sendFirst)
Answer    == Signalled /\ IceMsg

FairSpec ==
  /\ Spec /\ WF_vars(Gather \/ TakeRemoteMsg) /\ SF_vars(Answer)
  /\ \A t \in Threads : WF_vars(Step(t))

-----------------------------------------------------------------------------
(* Properties.                                                             *)

\* A peer in the table has an open socket: a restart hands it over, and neither
\* Close of the old peer nor a failed NewICEPeer leaves a peer with a closed one.
PortOpen == Present => port.open

\* A peer in the table that has not been started is about to be, by a thread that
\* has its pointer: connectToPeer skips a peer that exists, so one that is left
\* would never connect.
NewPeerStarts ==
  peer.phase = "new" => \E t \in Threads : task[t].pc = "start" /\ task[t].same

\* A peer whose connection failed is replaced, or its callback has given up,
\* whatever other restarts were under way.
FailedPeerReplaced ==
  []<>(\/ peer.phase # "failed" \/ down # "up"
       \/ closure[peer.offerer].failures > RestartCap)

\* A peer that a restart made does not wait for ever: it says so to the remote
\* itself unless it was made with the remote's message (SetSendFirst).
RestartHeard ==
  []<>(\/ peer.phase # "wait" \/ down # "up"
       \/ closure[peer.offerer].failures = 0)

\* Restarts do not go on for ever unless connections that last 60 s do: short
\* ones do not reset the counter.
RetriesEnd ==
  \A o \in Roles :
    []<>(\E t \in Callbacks : task[t].pc = "start" /\ task[t].offerer = o)
      => []<>(closure[o].last = "stable")

\* Once the adapter's context is cancelled CloseAll completes and every thread
\* comes to its end.
QuitCompletes ==
  <>[](down # "up" => down = "closed" /\ \A t \in Threads : task[t].pc = "idle")

\* What the comment on the comparison of peers in iceRestartCallback says: a
\* restart that a peer started itself does not overwrite the peer that has taken
\* that peer's place.
SparesReplacement ==
  [][\A t \in Callbacks :
       /\ task[t].kind = "self" /\ task[t].pc = "replace" /\ task'[t].pc = "start"
       /\ Present /\ down = "up"
       => task[t].own]_vars
=============================================================================
