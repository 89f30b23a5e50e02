-------------------------- MODULE ICERestartProofs --------------------------
(***************************************************************************)
(* A peer in the table has an open socket and is started, for every number *)
(* of goroutines, calls and restarts.                                      *)
(*                                                                         *)
(* PortOpen is not inductive: Start would put a peer that has been removed *)
(* back into a phase of a peer with a socket.  It does not because it asks *)
(* whether its pointer is the table's, and that pointer is one only while  *)
(* the table has a peer.  NewPeerStarts needs besides that the goroutine   *)
(* which shuts the adapter down never is the one to start a peer.          *)
(***************************************************************************)
EXTENDS ICERestart, TLAPS

Peers  == [phase : Phases, offerer : BOOLEAN, msg : BOOLEAN, sendFirst : BOOLEAN]
Tasks  == [pc : {"idle", "delay", "queued", "backoff", "add", "replace", "start",
                 "remove"},
           kind : {"none", "self", "remote", "manual", "rpc", "stop"},
           offerer : BOOLEAN, own : BOOLEAN, same : BOOLEAN]

\* Only the table's peer is pointed to.
PointersPresent == \A t \in Threads : task[t].same => Present

PortInv == TypeOK /\ PointersPresent /\ PortOpen

\* The adapter's own goroutine only closes peers.
MainOnlyCloses == task[Main].pc \in {"idle", "remove"}

StartInv == PortInv /\ MainOnlyCloses /\ NewPeerStarts

-----------------------------------------------------------------------------
(* The parts of a step. *)

\* The constants are numbers.
LEMMA Numbers == MaxCallbacks \in Nat /\ RestartCap \in Nat /\ MaxCalls \in Nat
BY RestartBounds

\* The goroutines of the callback, the RPC connection and the adapter's own are
\* threads.
LEMMA ThreadsAre == Callbacks \subseteq Threads /\ Rpc \in Threads /\ Main \in Threads
BY Numbers DEF Callbacks, Threads, Rpc, Main

\* What TypeOK says of threads and of the peer.
LEMMA TypeParts ==
  ASSUME TypeOK
  PROVE  /\ peer \in Peers /\ task \in [Threads -> Tasks]
         /\ port \in [open : BOOLEAN, owned : BOOLEAN]
BY DEF TypeOK, Peers, Tasks

\* A new peer and a thread at rest.
LEMMA Constructors ==
  /\ NoPeer \in Peers /\ Idle \in Tasks /\ ~Idle.same
  /\ \A o, m \in BOOLEAN : /\ NewICEPeer(o, m) \in Peers
                           /\ NewICEPeer(o, m).phase = "new"
  /\ \A k \in {"self", "remote", "manual"}, o, w \in BOOLEAN :
       OnRestart(k, o, w) \in Tasks /\ ~OnRestart(k, o, w).same
BY ZenonT(40) DEF NoPeer, Idle, Peers, Tasks, Phases, NewICEPeer, OnRestart

\* Cancelling a peer's context turns a thread into a restart, ends it or lets it
\* go on, and makes no pointer.
LEMMA EndRunTasks ==
  ASSUME TypeOK, NEW fails \in BOOLEAN, NEW fires \in BOOLEAN
  PROVE  /\ EndRun(fails, fires) \in [Threads -> Tasks]
         /\ \A s \in Threads : EndRun(fails, fires)[s].same => task[s].same
<1> DEFINE e(s) ==
      CASE fails /\ s \in FreeCallback -> OnRestart("self", peer.offerer, TRUE)
        [] task[s].pc = "delay" /\ ~fires -> Idle
        [] task[s].pc = "delay" /\ fires -> [task[s] EXCEPT !.pc = "queued"]
        [] OTHER -> task[s]
<1>1. EndRun(fails, fires) = [s \in Threads |-> e(s)]
  BY DEF EndRun
<1>2. ASSUME NEW s \in Threads
      PROVE  e(s) \in Tasks /\ (e(s).same => task[s].same)
  <2>1. OnRestart("self", peer.offerer, TRUE) \in Tasks
        /\ ~OnRestart("self", peer.offerer, TRUE).same
    BY TypeParts, Constructors, ZenonT(40) DEF Peers
  <2>2. task[s] \in Tasks
    BY TypeParts
  <2>3. [task[s] EXCEPT !.pc = "queued"] \in Tasks
        /\ [task[s] EXCEPT !.pc = "queued"].same = task[s].same
    BY <2>2 DEF Tasks
  <2> QED
    BY <2>1, <2>2, <2>3, Constructors, ZenonT(40)
<1> QED
  BY <1>1, <1>2, ZenonT(40)

\* When the peer has left the table no thread has a pointer to it.
LEMMA AfterCloseTasks ==
  ASSUME TypeOK, NEW fails \in BOOLEAN, NEW fires \in BOOLEAN
  PROVE  /\ AfterClose(fails, fires) \in [Threads -> Tasks]
         /\ \A s \in Threads : ~AfterClose(fails, fires)[s].same
<1> DEFINE ended == EndRun(fails, fires)
<1>1. AfterClose(fails, fires) =
        [s \in Threads |-> [ended[s] EXCEPT !.own = FALSE, !.same = FALSE]]
  BY DEF AfterClose
<1>2. ASSUME NEW s \in Threads
      PROVE  /\ [ended[s] EXCEPT !.own = FALSE, !.same = FALSE] \in Tasks
             /\ ~[ended[s] EXCEPT !.own = FALSE, !.same = FALSE].same
  <2>1. ended[s] \in Tasks
    BY EndRunTasks
  <2> QED
    BY <2>1, ZenonT(40) DEF Tasks
<1> HIDE DEF ended
<1> QED
  BY <1>1, <1>2, ZenonT(40)

\* The answers of DialFails are Booleans.
LEMMA DialFailsBoolean == DialFails \subseteq BOOLEAN
BY ZenonT(40) DEF DialFails

\* The counter is a number.
LEMMA FailuresAreNat ==
  ASSUME TypeOK, NEW t \in Threads
  PROVE  Failures(t) \in Nat
<1>1. task[t].offerer \in BOOLEAN
  BY TypeParts DEF Tasks
<1>2. closure[task[t].offerer].failures \in Nat
  BY <1>1 DEF TypeOK
<1> QED
  BY <1>2, Numbers DEF Failures

-----------------------------------------------------------------------------
(* The steps. *)

Closures == [BOOLEAN -> [failures : Nat, last : {"none", "brief", "stable"}]]

\* A new callback has counted no failure.
LEMMA ClosureIsNew ==
  NewClosure \in [failures : Nat, last : {"none", "brief", "stable"}]
BY DEF NewClosure

\* The invariant, by its parts.
LEMMA PortInvParts ==
  PortInv <=> /\ peer \in Peers /\ task \in [Threads -> Tasks]
              /\ port \in [open : BOOLEAN, owned : BOOLEAN]
              /\ closure \in Closures /\ lock \in {NoThread} \cup Threads
              /\ down \in {"up", "cancelled", "closed"} /\ calls \in 0 .. MaxCalls
              /\ \A t \in Threads : task[t].same => peer.phase # "none"
              /\ peer.phase # "none" => port.open
BY DEF PortInv, TypeOK, PointersPresent, PortOpen, Present, Peers, Tasks, Closures

\* The same after a step.
LEMMA PortInvNext ==
  ASSUME peer' \in Peers, task' \in [Threads -> Tasks],
         port' \in [open : BOOLEAN, owned : BOOLEAN],
         closure' \in Closures, lock' \in {NoThread} \cup Threads,
         down' \in {"up", "cancelled", "closed"}, calls' \in 0 .. MaxCalls,
         \A t \in Threads : task'[t].same => peer'.phase # "none",
         peer'.phase # "none" => port'.open
  PROVE  PortInv'
BY DEF PortInv, TypeOK, PointersPresent, PortOpen, Present, Peers, Tasks, Closures

\* The first half of Close takes pm.mu and nothing else.
LEMMA BeginCloseStep ==
  ASSUME PortInv, NEW t \in Threads, BeginClose(t)
  PROVE  PortInv'
BY PortInvParts DEF BeginClose, PortInv, TypeOK, PointersPresent, PortOpen, Present

\* ReplaceICEPeer hands the socket over, or leaves no peer.
LEMMA ReplaceStep ==
  ASSUME PortInv, NEW t \in Threads, ReplaceICEPeer(t)
  PROVE  PortInv'
<1> USE DEF PortInv
<1>1. PICK fails \in DialFails, fires \in BOOLEAN, built \in BOOLEAN :
       /\ task' = [AfterClose(fails, fires) EXCEPT ![t] =
            IF built THEN [task[t] EXCEPT !.pc = "start", !.own = FALSE, !.same = TRUE]
                     ELSE Idle]
       /\ peer' = IF built THEN NewICEPeer(task[t].offerer, task[t].kind = "remote")
                           ELSE NoPeer
       /\ port' = [open |-> built /\ (Present => port.open), owned |-> built /\ ~Present]
  BY ZenonT(40) DEF ReplaceICEPeer
<1>2. fails \in BOOLEAN
  BY DialFailsBoolean
<1> DEFINE after == AfterClose(fails, fires)
           mine  == IF built
                    THEN [task[t] EXCEPT !.pc = "start", !.own = FALSE, !.same = TRUE]
                    ELSE Idle
<1>3. after \in [Threads -> Tasks] /\ \A s \in Threads : ~after[s].same
  BY <1>2, AfterCloseTasks
<1>4. mine \in Tasks /\ (mine.same => built)
  <2>1. CASE built
    BY <2>1, TypeParts, ZenonT(40) DEF Tasks
  <2>2. CASE ~built
    BY <2>2, Constructors
  <2> QED
    BY <2>1, <2>2
<1>5. task' = [after EXCEPT ![t] = mine]
  BY <1>1
<1> HIDE DEF after, mine
<1>6. task' \in [Threads -> Tasks] /\ \A s \in Threads : task'[s].same => built
  BY <1>3, <1>4, <1>5
<1>7. peer' \in Peers /\ (built <=> peer'.phase # "none")
  <2>1. task[t].offerer \in BOOLEAN /\ (task[t].kind = "remote") \in BOOLEAN
    BY TypeParts DEF Tasks
  <2>2. NoPeer.phase = "none"
    BY DEF NoPeer
  <2> QED
    BY <1>1, <2>1, <2>2, Constructors, ZenonT(40)
<1>8. port' \in [open : BOOLEAN, owned : BOOLEAN] /\ (built => port'.open)
  BY <1>1, TypeParts DEF PortOpen, Present
<1>9. closure' \in Closures /\ lock' \in {NoThread} \cup Threads
      /\ down' \in {"up", "cancelled", "closed"} /\ calls' \in 0 .. MaxCalls
  BY PortInvParts DEF ReplaceICEPeer
<1> QED
  BY <1>6, <1>7, <1>8, <1>9, PortInvNext

\* RemovePeer and CloseAll leave no peer.
LEMMA RemoveStep ==
  ASSUME PortInv, NEW t \in Threads, RemovePeer(t)
  PROVE  PortInv'
<1> USE DEF PortInv
<1>1. PICK fails \in DialFails, fires \in BOOLEAN :
        task' = [AfterClose(fails, fires) EXCEPT ![t] = Idle]
  BY ZenonT(40) DEF RemovePeer
<1>2. fails \in BOOLEAN
  BY DialFailsBoolean
<1> DEFINE after == AfterClose(fails, fires)
<1>3. after \in [Threads -> Tasks] /\ \A s \in Threads : ~after[s].same
  BY <1>2, AfterCloseTasks
<1>4. task' = [after EXCEPT ![t] = Idle]
  BY <1>1
<1> HIDE DEF after
<1>5. task' \in [Threads -> Tasks] /\ \A s \in Threads : ~task'[s].same
  BY <1>3, <1>4, Constructors
<1>6. peer' \in Peers /\ peer'.phase = "none"
  BY Constructors DEF RemovePeer, NoPeer
<1>7. /\ port' \in [open : BOOLEAN, owned : BOOLEAN] /\ closure' \in Closures
      /\ lock' \in {NoThread} \cup Threads
      /\ down' \in {"up", "cancelled", "closed"} /\ calls' \in 0 .. MaxCalls
  BY PortInvParts DEF RemovePeer
<1> QED
  BY <1>5, <1>6, <1>7, PortInvNext

\* One thread changes: its pointer, if it has one, is to the table's peer.
LEMMA OneTask ==
  ASSUME PortInv, NEW t \in Threads, NEW r \in Tasks, r.same => Present,
         task' = [task EXCEPT ![t] = r]
  PROVE  /\ task' \in [Threads -> Tasks]
         /\ \A s \in Threads : task'[s].same => peer.phase # "none"
BY PortInvParts DEF Present

\* A peer in the table changes its phase and stays there.
LEMMA PhaseStep ==
  ASSUME PortInv, peer' \in Peers, peer'.phase # "none" <=> Present,
         task' \in [Threads -> Tasks],
         \A s \in Threads : task'[s].same => peer.phase # "none",
         closure' \in Closures, calls' \in 0 .. MaxCalls,
         down' \in {"up", "cancelled", "closed"}, UNCHANGED <<port, lock>>
  PROVE  PortInv'
BY PortInvParts, PortInvNext DEF Present

\* Start leaves the peer in the table, and does nothing to another.
LEMMA StartStep ==
  ASSUME PortInv, NEW t \in Threads, Start(t)
  PROVE  PortInv'
<1>1. /\ closure' \in Closures /\ calls' \in 0 .. MaxCalls
      /\ down' \in {"up", "cancelled", "closed"} /\ UNCHANGED <<port, lock>>
  BY PortInvParts DEF Start
<1>2. /\ task' \in [Threads -> Tasks]
      /\ \A s \in Threads : task'[s].same => peer.phase # "none"
  BY OneTask, Constructors, ZenonT(40) DEF Start
<1>3. peer' \in Peers /\ (peer'.phase # "none" <=> Present)
  <2>1. CASE ~task[t].same
    BY <2>1, PortInvParts, ZenonT(40) DEF Start, Present
  <2>2. CASE task[t].same
    <3>1. Present /\ peer \in Peers
      BY <2>2, PortInvParts DEF Present
    <3>2. peer' = peer \/ \E ph \in Phases \ {"none"}, b \in BOOLEAN :
                            peer' = [peer EXCEPT !.phase = ph, !.sendFirst = b]
      <4> DEFINE b == peer.sendFirst \/ (SelfInitiated(t) /\ ~task[t].offerer)
      <4>1. \/ peer' = peer
            \/ peer' = [peer EXCEPT !.phase = "ended"]
            \/ peer' = [peer EXCEPT !.phase = "orphan"]
            \/ peer' = [peer EXCEPT !.phase = "gather", !.sendFirst = b]
            \/ peer' = [peer EXCEPT !.sendFirst = b]
        BY <2>2, ZenonT(40) DEF Start
      <4>2. b \in BOOLEAN /\ peer.sendFirst \in BOOLEAN /\ peer.phase \in Phases \ {"none"}
        BY <3>1 DEF Peers, Present
      <4> HIDE DEF b
      <4>3. \A ph \in Phases : [peer EXCEPT !.phase = ph]
                                = [peer EXCEPT !.phase = ph, !.sendFirst = peer.sendFirst]
        BY <3>1, ZenonT(40) DEF Peers
      <4>4. [peer EXCEPT !.sendFirst = b] = [peer EXCEPT !.phase = peer.phase, !.sendFirst = b]
        BY <3>1, <4>2, ZenonT(40) DEF Peers
      <4>5. {"ended", "orphan", "gather"} \subseteq Phases \ {"none"}
        BY DEF Phases
      <4> QED
        BY <4>1, <4>2, <4>3, <4>4, <4>5, ZenonT(40)
    <3>3. \A ph \in Phases \ {"none"}, b \in BOOLEAN :
            /\ [peer EXCEPT !.phase = ph, !.sendFirst = b] \in Peers
            /\ [peer EXCEPT !.phase = ph, !.sendFirst = b].phase = ph
      BY <3>1, ZenonT(40) DEF Peers
    <3>4. peer' \in Peers /\ peer'.phase # "none"
      <4>1. CASE peer' = peer
        BY <3>1, <4>1 DEF Present
      <4>2. ASSUME NEW ph \in Phases \ {"none"}, NEW b \in BOOLEAN,
                   peer' = [peer EXCEPT !.phase = ph, !.sendFirst = b]
            PROVE  peer' \in Peers /\ peer'.phase # "none"
        BY <3>3, <4>2, ZenonT(40)
      <4> QED
        BY <3>2, <4>1, <4>2, ZenonT(40)
    <3> QED
      BY <3>1, <3>4
  <2> QED
    BY <2>1, <2>2
<1> QED
  BY <1>1, <1>2, <1>3, PhaseStep

\* run() and the agent change the phase, and Fail starts a restart.
LEMMA RunStep ==
  ASSUME PortInv, Gather \/ TakeRemoteMsg \/ Connect \/ Fail \/ \E o \in Roles : Age(o)
  PROVE  PortInv'
<1>1. calls' \in 0 .. MaxCalls /\ UNCHANGED <<port, lock, down>>
      /\ down' \in {"up", "cancelled", "closed"}
  BY PortInvParts, ZenonT(40) DEF Gather, TakeRemoteMsg, Connect, Fail, Age, Settled
<1>2. peer' \in Peers /\ (peer'.phase # "none" <=> Present)
  BY PortInvParts, ZenonT(40)
     DEF Gather, TakeRemoteMsg, Connect, Fail, Age, Present, Peers, Phases
<1>3. closure' \in Closures
  <2>1. CASE Connect
    BY <2>1, PortInvParts DEF Connect, Closures, Peers
  <2>2. CASE \E o \in Roles : Age(o)
    BY <2>2, PortInvParts, RestartBounds DEF Age, Closures
  <2> QED
    BY <2>1, <2>2, PortInvParts, ZenonT(40) DEF Gather, TakeRemoteMsg, Fail
<1>4. /\ task' \in [Threads -> Tasks]
      /\ \A s \in Threads : task'[s].same => peer.phase # "none"
  <2>1. CASE Fail
    <3>1. PICK t \in FreeCallback :
            task' = [task EXCEPT ![t] = [OnRestart("self", peer.offerer, TRUE) EXCEPT
                       !.pc = IF peer.offerer THEN "queued" ELSE "delay"]]
      BY <2>1, ZenonT(40) DEF Fail
    <3>2. t \in Threads
      BY ThreadsAre DEF FreeCallback
    <3> DEFINE r == [OnRestart("self", peer.offerer, TRUE) EXCEPT
                       !.pc = IF peer.offerer THEN "queued" ELSE "delay"]
    <3>3. r \in Tasks /\ ~r.same
      <4> DEFINE c == OnRestart("self", peer.offerer, TRUE)
      <4>1. c \in Tasks /\ ~c.same
        BY PortInvParts, Constructors, ZenonT(40) DEF Peers
      <4> HIDE DEF c
      <4>2. \A p \in {"queued", "delay"} : [c EXCEPT !.pc = p] \in Tasks
                                           /\ ~[c EXCEPT !.pc = p].same
        BY <4>1 DEF Tasks
      <4> USE DEF c
      <4> QED
        BY <4>2, ZenonT(40)
    <3> QED
      BY <3>1, <3>2, <3>3, OneTask, ZenonT(40)
  <2> QED
    BY <2>1, PortInvParts DEF Gather, TakeRemoteMsg, Connect, Age
<1> QED
  BY <1>1, <1>2, <1>3, <1>4, PhaseStep

\* The restart callback takes peerBefore from the table, and gives it up.
LEMMA CallbackStep ==
  ASSUME PortInv, NEW t \in Threads,
         AnswererRestart(t) \/ CountRestart(t) \/ Wake(t)
  PROVE  PortInv'
<1>1. /\ calls' \in 0 .. MaxCalls /\ UNCHANGED <<peer, port, lock, down>>
      /\ down' \in {"up", "cancelled", "closed"} /\ task[t] \in Tasks
  BY PortInvParts DEF AnswererRestart, CountRestart, Wake, Settled
<1>2. closure' \in Closures
  <2>1. CASE CountRestart(t)
    <3>1. [failures |-> Failures(t), last |-> "none"]
            \in [failures : Nat, last : {"none", "brief", "stable"}]
      BY FailuresAreNat DEF PortInv
    <3> QED
      BY <2>1, <3>1, PortInvParts, <1>1 DEF CountRestart, Closures, Tasks
  <2> QED
    BY <2>1, PortInvParts DEF AnswererRestart, Wake
<1>3. \E r \in Tasks : task' = [task EXCEPT ![t] = r] /\ (r.same => Present)
  <2>1. \A p \in {"queued", "replace"} :
          [task[t] EXCEPT !.pc = p] \in Tasks
          /\ [task[t] EXCEPT !.pc = p].same = task[t].same
    BY <1>1 DEF Tasks
  <2>2. task[t].same => Present
    BY PortInvParts DEF Present
  <2>3. CASE AnswererRestart(t)
    <3>1. task' = [task EXCEPT ![t] = [task[t] EXCEPT !.pc = "queued"]]
      BY <2>3 DEF AnswererRestart
    <3> QED
      BY <3>1, <2>1, <2>2, ZenonT(40)
  <2>4. CASE CountRestart(t)
    <3>1. [task[t] EXCEPT !.pc = "backoff", !.same = Present] \in Tasks
          /\ ([task[t] EXCEPT !.pc = "backoff", !.same = Present].same => Present)
      BY <1>1, ZenonT(40) DEF Tasks, Present
    <3>2. task' = [task EXCEPT ![t] =
            IF Failures(t) > RestartCap \/ (task[t].kind = "self" /\ down # "up") THEN Idle
            ELSE IF task[t].kind = "self"
            THEN [task[t] EXCEPT !.pc = "backoff", !.same = Present]
            ELSE [task[t] EXCEPT !.pc = "replace"]]
      BY <2>4 DEF CountRestart
    <3> DEFINE stops == Failures(t) > RestartCap \/ (task[t].kind = "self" /\ down # "up")
    <3>3. CASE stops
      BY <3>2, <3>3, Constructors, ZenonT(40)
    <3>4. CASE ~stops /\ task[t].kind = "self"
      BY <3>1, <3>2, <3>4, ZenonT(40)
    <3>5. CASE ~stops /\ task[t].kind # "self"
      BY <2>1, <2>2, <3>2, <3>5, ZenonT(40)
    <3> QED
      BY <3>3, <3>4, <3>5
  <2>5. CASE Wake(t)
    <3>1. [task[t] EXCEPT !.pc = "replace", !.same = FALSE] \in Tasks
          /\ ~[task[t] EXCEPT !.pc = "replace", !.same = FALSE].same
      BY <1>1, ZenonT(40) DEF Tasks
    <3>2. task' = [task EXCEPT ![t] =
            IF Present /\ task[t].same
            THEN [task[t] EXCEPT !.pc = "replace", !.same = FALSE] ELSE Idle]
      BY <2>5 DEF Wake
    <3> QED
      BY <3>1, <3>2, Constructors, ZenonT(40)
  <2> QED
    BY <2>3, <2>4, <2>5
<1>4. /\ task' \in [Threads -> Tasks]
      /\ \A s \in Threads : task'[s].same => peer.phase # "none"
  BY <1>3, OneTask, ZenonT(40)
<1>5. peer' \in Peers /\ (peer'.phase # "none" <=> Present)
  BY <1>1, PortInvParts DEF Present
<1> QED
  BY <1>1, <1>2, <1>4, <1>5, PhaseStep

\* connectToPeer opens a socket for a new peer, or takes the one that is there.
LEMMA AddStep ==
  ASSUME PortInv, NEW t \in Threads, AddICEPeer(t)
  PROVE  PortInv'
<1> DEFINE r == [task[t] EXCEPT !.pc = "start", !.same = TRUE]
<1>1. task[t] \in Tasks /\ r \in Tasks /\ task[t].offerer \in BOOLEAN
  BY PortInvParts DEF Tasks
<1>2. /\ lock' \in {NoThread} \cup Threads /\ calls' \in 0 .. MaxCalls
      /\ down' \in {"up", "cancelled", "closed"}
  BY PortInvParts DEF AddICEPeer
<1>3. CASE Present /\ task' = [task EXCEPT ![t] = r] /\ UNCHANGED <<peer, port, closure>>
  <2>1. /\ task' \in [Threads -> Tasks]
        /\ \A u \in Threads : task'[u].same => peer.phase # "none"
    BY <1>1, <1>3, OneTask, ZenonT(40)
  <2> QED
    BY <1>2, <1>3, <2>1, PortInvParts, PortInvNext
<1>4. CASE /\ ~Present /\ NewCallback(task[t].offerer)
           /\ peer' = NewICEPeer(task[t].offerer, FALSE)
           /\ port' = [open |-> TRUE, owned |-> TRUE] /\ task' = [task EXCEPT ![t] = r]
  <2>1. peer' \in Peers /\ peer'.phase = "new"
    BY <1>1, <1>4, Constructors, ZenonT(40)
  <2>2. closure' \in Closures
    BY <1>1, <1>4, PortInvParts, ClosureIsNew DEF NewCallback, Closures
  <2>3. task' \in [Threads -> Tasks]
    BY <1>1, <1>4, PortInvParts
  <2>4. port' \in [open : BOOLEAN, owned : BOOLEAN] /\ port'.open
    BY <1>4
  <2> QED
    BY <1>2, <2>1, <2>2, <2>3, <2>4, PortInvNext
<1>5. CASE ~Present /\ task' = [task EXCEPT ![t] = Idle] /\ UNCHANGED <<peer, port, closure>>
  <2>1. /\ task' \in [Threads -> Tasks]
        /\ \A u \in Threads : task'[u].same => peer.phase # "none"
    BY <1>5, Constructors, OneTask, ZenonT(40)
  <2> QED
    BY <1>2, <1>5, <2>1, PortInvParts, PortInvNext
<1> QED
  BY <1>3, <1>4, <1>5 DEF AddICEPeer

\* The other calls, and messages of the remote, leave the table as it is.
LEMMA CallStep ==
  ASSUME PortInv,
         \/ \E o \in Roles : ConnectToPeer(o) \/ ChangeRole(o)
         \/ DisconnectFromPeer \/ IceMsg \/ ForceRestart
  PROVE  PortInv'
<1> DEFINE tasksOK == /\ task' \in [Threads -> Tasks]
                      /\ \A s \in Threads : task'[s].same => peer.phase # "none"
<1>1. ASSUME NEW r \in Tasks, NEW t \in Threads, ~r.same, task' = [task EXCEPT ![t] = r]
      PROVE  tasksOK
  BY <1>1, OneTask, ZenonT(40)
<1>2. ASSUME UNCHANGED <<peer, port, lock, down>>, calls' \in 0 .. MaxCalls,
             closure' \in Closures, tasksOK
      PROVE  PortInv'
  BY <1>2, PortInvParts, PhaseStep DEF Present
<1>3. ASSUME Called
      PROVE  calls' \in 0 .. MaxCalls
  BY <1>3, PortInvParts, Numbers DEF Called
<1>4. ASSUME NEW k \in {"remote", "manual"}, NEW t \in FreeCallback,
             task' = [task EXCEPT ![t] = OnRestart(k, peer.offerer, FALSE)]
      PROVE  tasksOK
  <2>1. t \in Threads /\ peer.offerer \in BOOLEAN
    BY ThreadsAre, PortInvParts DEF FreeCallback, Peers
  <2>2. OnRestart(k, peer.offerer, FALSE) \in Tasks /\ ~OnRestart(k, peer.offerer, FALSE).same
    BY <2>1, Constructors, ZenonT(40)
  <2> QED
    BY <1>1, <1>4, <2>1, <2>2, ZenonT(40)
<1>5. ASSUME NEW p \in {"add", "replace", "remove"}, NEW o \in BOOLEAN, RpcCall(p, o)
      PROVE  tasksOK
  <2> DEFINE r == [Idle EXCEPT !.pc = p, !.kind = "rpc", !.offerer = o]
  <2>1. r \in Tasks /\ ~r.same
    BY DEF Tasks, Idle
  <2>2. task' = [task EXCEPT ![Rpc] = r]
    BY <1>5 DEF RpcCall
  <2> HIDE DEF r
  <2> QED
    BY <1>1, <2>1, <2>2, ThreadsAre, ZenonT(40)
<1> HIDE DEF tasksOK
<1>6. ASSUME NEW o \in Roles, ChangeRole(o)
      PROVE  PortInv'
  <2>1. o \in BOOLEAN
    BY RestartBounds
  <2>2. closure' \in Closures
    <3>1. closure \in Closures /\ closure' = [closure EXCEPT ![o] = NewClosure]
      BY <1>6, PortInvParts, ZenonT(40) DEF ChangeRole, NewCallback
    <3> QED
      BY <2>1, <3>1, ClosureIsNew DEF Closures
  <2>3. calls' \in 0 .. MaxCalls /\ UNCHANGED <<peer, port, lock, down>>
    BY <1>6, <1>3 DEF ChangeRole
  <2>4. tasksOK
    BY <1>5, <1>6, <2>1, ZenonT(40) DEF ChangeRole
  <2> QED
    BY <1>2, <2>2, <2>3, <2>4
<1>10. ASSUME NEW o \in Roles, ConnectToPeer(o)
       PROVE  PortInv'
  <2>1. o \in BOOLEAN
    BY RestartBounds
  <2>2. calls' \in 0 .. MaxCalls /\ UNCHANGED <<peer, port, lock, down>>
    BY <1>10, <1>3 DEF ConnectToPeer
  <2>3. closure' \in Closures /\ tasksOK
    BY <1>5, <1>10, <2>1, PortInvParts, ZenonT(40) DEF ConnectToPeer
  <2> QED
    BY <1>2, <2>2, <2>3
<1>7. CASE DisconnectFromPeer
  <2>1. calls' \in 0 .. MaxCalls /\ UNCHANGED <<peer, port, lock, down>>
    BY <1>7, <1>3 DEF DisconnectFromPeer
  <2>2. closure' \in Closures /\ tasksOK
    BY <1>5, <1>7, PortInvParts, ZenonT(40) DEF DisconnectFromPeer
  <2> QED
    BY <1>2, <2>1, <2>2
<1>8. CASE ForceRestart
  <2>1. calls' \in 0 .. MaxCalls /\ UNCHANGED <<peer, port, lock, down>>
    BY <1>8, <1>3 DEF ForceRestart
  <2>2. closure' \in Closures /\ tasksOK
    BY <1>4, <1>8, PortInvParts, ZenonT(40) DEF ForceRestart
  <2> QED
    BY <1>2, <2>1, <2>2
<1>9. CASE IceMsg
  <2>1. UNCHANGED <<closure, port, lock, down, calls>>
    BY <1>9 DEF IceMsg, Settled
  <2>2. CASE UNCHANGED peer
    <3>1. tasksOK
      BY <1>4, <1>9, <2>2, PortInvParts, ZenonT(40) DEF IceMsg, tasksOK, Present
    <3> QED
      BY <1>2, <2>1, <2>2, <3>1, PortInvParts
  <2>3. CASE peer' = [peer EXCEPT !.msg = TRUE] /\ UNCHANGED task
    <3>1. peer' \in Peers /\ (peer'.phase # "none" <=> Present)
      BY <2>3, PortInvParts, ZenonT(40) DEF Peers, Present
    <3>2. tasksOK
      BY <2>3, PortInvParts DEF tasksOK
    <3> QED
      BY <2>1, <3>1, <3>2, PortInvParts, PhaseStep DEF tasksOK
  <2> QED
    BY <1>9, <2>2, <2>3, ZenonT(40) DEF IceMsg
<1> QED
  BY <1>6, <1>7, <1>8, <1>9, <1>10

\* The end of the adapter ends the runs and leaves the peers in the table.
LEMMA QuitStep ==
  ASSUME PortInv, Quit
  PROVE  PortInv'
<1>1. /\ closure' \in Closures /\ calls' \in 0 .. MaxCalls
      /\ down' \in {"up", "cancelled", "closed"} /\ UNCHANGED <<port, lock>>
  BY PortInvParts, Numbers DEF Quit
<1>2. peer' \in Peers /\ (peer'.phase # "none" <=> Present)
  BY PortInvParts, ZenonT(40) DEF Quit, Peers, Present, NoPeer, Phases
<1>3. PICK fails \in DialFails, fires \in BOOLEAN, wakes \in BOOLEAN :
        LET ended == EndRun(fails, fires) IN
        task' = [t \in Threads |->
          CASE t = Main -> [Idle EXCEPT !.pc = "remove", !.kind = "stop"]
            [] t # Main /\ ended[t].pc = "backoff" /\ ~wakes -> Idle
            [] OTHER -> ended[t]]
  BY DEF Quit
<1>4. fails \in BOOLEAN
  BY DialFailsBoolean
<1> DEFINE ended == EndRun(fails, fires)
           main  == [Idle EXCEPT !.pc = "remove", !.kind = "stop"]
<1>5. ended \in [Threads -> Tasks] /\ \A s \in Threads : ended[s].same => task[s].same
  BY <1>4, EndRunTasks DEF PortInv
<1>6. main \in Tasks /\ ~main.same
  BY ZenonT(40) DEF Idle, Tasks
<1>7. task' = [t \in Threads |-> CASE t = Main -> main
                                   [] t # Main /\ ended[t].pc = "backoff" /\ ~wakes -> Idle
                                   [] OTHER -> ended[t]]
  BY <1>3
<1> HIDE DEF ended, main
<1>8. /\ task' \in [Threads -> Tasks]
      /\ \A s \in Threads : task'[s].same => peer.phase # "none"
  <2>1. ASSUME NEW t \in Threads
        PROVE  task'[t] \in Tasks /\ (task'[t].same => peer.phase # "none")
    <3>1. CASE t = Main
      BY <1>6, <1>7, <3>1
    <3>2. CASE t # Main /\ ended[t].pc = "backoff" /\ ~wakes
      BY <1>7, <3>2, Constructors
    <3>3. CASE t # Main /\ ~(ended[t].pc = "backoff" /\ ~wakes)
      BY <1>5, <1>7, <3>3, PortInvParts
    <3> QED
      BY <3>1, <3>2, <3>3
  <2> QED
    BY <1>7, <2>1
<1> QED
  BY <1>1, <1>2, <1>8, PhaseStep

-----------------------------------------------------------------------------
(* The theorems. *)

\* TypeOK, the pointers and the sockets: the inductive invariant holds in every
\* state of the peer table, however many restarts, calls and ends there are.
THEOREM PortInvHolds == Spec => []PortInv
<1>1. Init => PortInv
  <2> SUFFICES ASSUME Init PROVE PortInv
    OBVIOUS
  <2>1. /\ peer \in Peers /\ task \in [Threads -> Tasks]
        /\ \A t \in Threads : ~task[t].same
    BY Constructors DEF Init
  <2>2. peer.phase = "none" /\ port \in [open : BOOLEAN, owned : BOOLEAN]
    BY DEF Init, NoPeer
  <2>3. closure \in Closures
    BY ClosureIsNew DEF Init, Closures
  <2>4. /\ lock \in {NoThread} \cup Threads /\ calls \in 0 .. MaxCalls
        /\ down \in {"up", "cancelled", "closed"}
    BY Numbers DEF Init
  <2> QED
    BY <2>1, <2>2, <2>3, <2>4, PortInvParts, ZenonT(40)
<1>2. PortInv /\ [Next]_vars => PortInv'
  <2> SUFFICES ASSUME PortInv, [Next]_vars PROVE PortInv'
    OBVIOUS
  <2>1. CASE UNCHANGED vars
    BY <2>1, PortInvParts, PortInvNext DEF vars
  <2>2. ASSUME NEW t \in Threads, Step(t)
        PROVE  PortInv'
    BY <2>2, BeginCloseStep, AddStep, ReplaceStep, RemoveStep, StartStep, CallbackStep
       DEF Step
  <2>3. CASE Gather \/ TakeRemoteMsg \/ Connect \/ Fail \/ \E o \in Roles : Age(o)
    BY <2>3, RunStep
  <2>5. CASE \/ \E o \in Roles : ConnectToPeer(o) \/ ChangeRole(o)
             \/ DisconnectFromPeer \/ IceMsg \/ ForceRestart
    BY <2>5, CallStep
  <2>6. CASE Quit
    BY <2>6, QuitStep
  <2> QED
    BY <2>1, <2>2, <2>3, <2>5, <2>6 DEF Next
<1> QED
  BY <1>1, <1>2, PTL DEF Spec

-----------------------------------------------------------------------------
(* Whoever makes a peer starts it. *)

\* One thread changes: it is not the adapter's own, or only closes, and it was not
\* about to start the table's peer, or still is.
LEMMA OneThread ==
  ASSUME StartInv, NEW t \in Threads, NEW r, task' = [task EXCEPT ![t] = r],
         t = Main => r.pc \in {"idle", "remove"},
         task[t].pc = "start" /\ task[t].same => r.pc = "start" /\ r.same,
         peer'.phase = "new" => peer.phase = "new"
  PROVE  MainOnlyCloses' /\ NewPeerStarts'
<1>1. task \in [Threads -> Tasks]
  BY PortInvParts DEF StartInv
<1>2. MainOnlyCloses'
  BY <1>1, ThreadsAre DEF StartInv, MainOnlyCloses
<1>3. \A s \in Threads : task[s].pc = "start" /\ task[s].same
                          => task'[s].pc = "start" /\ task'[s].same
  BY <1>1
<1>4. NewPeerStarts'
  BY <1>3 DEF StartInv, NewPeerStarts
<1> QED
  BY <1>2, <1>4

\* Cancelling a context disturbs nobody who is about to start a peer, and leaves
\* the adapter's own goroutine alone.
LEMMA EndRunStarters ==
  ASSUME StartInv, NEW fails \in BOOLEAN, NEW fires \in BOOLEAN
  PROVE  /\ EndRun(fails, fires)[Main].pc \in {"idle", "remove"}
         /\ \A s \in Threads : task[s].pc = "start" => EndRun(fails, fires)[s] = task[s]
<1> DEFINE e(s) ==
      CASE fails /\ s \in FreeCallback -> OnRestart("self", peer.offerer, TRUE)
        [] task[s].pc = "delay" /\ ~fires -> Idle
        [] task[s].pc = "delay" /\ fires -> [task[s] EXCEPT !.pc = "queued"]
        [] OTHER -> task[s]
<1>1. EndRun(fails, fires) = [s \in Threads |-> e(s)]
  BY DEF EndRun
<1>2. Main \notin FreeCallback /\ Main \in Threads
  BY Numbers, ThreadsAre DEF FreeCallback, Callbacks, Main
<1>3. e(Main) = task[Main]
  BY <1>2, ZenonT(40) DEF StartInv, MainOnlyCloses
<1>4. ASSUME NEW s \in Threads, task[s].pc = "start"
      PROVE  e(s) = task[s]
  <2>1. s \notin FreeCallback
    BY <1>4 DEF FreeCallback
  <2> QED
    BY <1>4, <2>1
<1> HIDE DEF e
<1> QED
  BY <1>1, <1>2, <1>3, <1>4 DEF StartInv, MainOnlyCloses

\* Steps that close the table's peer leave none, or one that its maker starts.
LEMMA CloseStarts ==
  ASSUME StartInv, NEW t \in Threads, ReplaceICEPeer(t) \/ RemovePeer(t)
  PROVE  MainOnlyCloses' /\ NewPeerStarts'
<1>1. task[t] \in Tasks /\ TypeOK
  BY PortInvParts DEF StartInv, PortInv
<1>2. ASSUME NEW fails \in DialFails, NEW fires \in BOOLEAN, NEW r,
             task' = [AfterClose(fails, fires) EXCEPT ![t] = r],
             t = Main => r.pc = "idle",
             peer'.phase = "new" => r.pc = "start" /\ r.same
      PROVE  MainOnlyCloses' /\ NewPeerStarts'
  <2>1. fails \in BOOLEAN
    BY DialFailsBoolean
  <2>2. AfterClose(fails, fires) \in [Threads -> Tasks]
    BY <1>1, <2>1, AfterCloseTasks
  <2>3. AfterClose(fails, fires)[Main].pc \in {"idle", "remove"}
    <3>1. EndRun(fails, fires)[Main] \in Tasks
      BY <1>1, <2>1, EndRunTasks, ThreadsAre
    <3>2. EndRun(fails, fires)[Main].pc \in {"idle", "remove"}
      BY <2>1, EndRunStarters
    <3>3. AfterClose(fails, fires)[Main]
            = [EndRun(fails, fires)[Main] EXCEPT !.own = FALSE, !.same = FALSE]
      BY ThreadsAre DEF AfterClose
    <3> QED
      BY <3>1, <3>2, <3>3, ZenonT(40) DEF Tasks
  <2>4. task'[t] = r
    BY <1>2, <2>2
  <2>5. MainOnlyCloses'
    BY <1>2, <2>2, <2>3, ThreadsAre DEF MainOnlyCloses
  <2> QED
    BY <1>2, <2>4, <2>5 DEF NewPeerStarts
<1>3. CASE ReplaceICEPeer(t)
  <2>1. PICK fails \in DialFails, fires \in BOOLEAN, built \in BOOLEAN :
         /\ task' = [AfterClose(fails, fires) EXCEPT ![t] =
              IF built THEN [task[t] EXCEPT !.pc = "start", !.own = FALSE, !.same = TRUE]
                       ELSE Idle]
         /\ peer' = IF built THEN NewICEPeer(task[t].offerer, task[t].kind = "remote")
                             ELSE NoPeer
    BY <1>3, ZenonT(40) DEF ReplaceICEPeer
  <2>2. t # Main
    BY <1>3 DEF ReplaceICEPeer, StartInv, MainOnlyCloses
  <2>3. CASE built
    <3> DEFINE r == [task[t] EXCEPT !.pc = "start", !.own = FALSE, !.same = TRUE]
    <3>1. r.pc = "start" /\ r.same
      BY <1>1, ZenonT(40) DEF Tasks
    <3>2. task' = [AfterClose(fails, fires) EXCEPT ![t] = r]
      BY <2>1, <2>3
    <3> HIDE DEF r
    <3> QED
      BY <1>2, <2>2, <3>1, <3>2
  <2>4. CASE ~built
    <3>1. peer'.phase = "none" /\ task' = [AfterClose(fails, fires) EXCEPT ![t] = Idle]
      BY <2>1, <2>4 DEF NoPeer
    <3> QED
      BY <1>2, <2>2, <3>1
  <2> QED
    BY <2>3, <2>4
<1>4. CASE RemovePeer(t)
  <2>1. PICK fails \in DialFails, fires \in BOOLEAN :
          task' = [AfterClose(fails, fires) EXCEPT ![t] = Idle]
    BY <1>4, ZenonT(40) DEF RemovePeer
  <2>2. peer'.phase = "none" /\ Idle.pc = "idle"
    BY <1>4 DEF RemovePeer, NoPeer, Idle
  <2> QED
    BY <1>2, <2>1, <2>2
<1> QED
  BY <1>3, <1>4

\* AddICEPeer hands on a pointer to the table's peer, and Start follows; Start
\* leaves no peer unstarted whose pointer it has.
LEMMA AddStarts ==
  ASSUME StartInv, NEW t \in Threads, AddICEPeer(t) \/ Start(t)
  PROVE  MainOnlyCloses' /\ NewPeerStarts'
<1>1. task \in [Threads -> Tasks] /\ task[t] \in Tasks /\ peer \in Peers
  BY PortInvParts DEF StartInv
<1>2. t # Main
  BY DEF AddICEPeer, Start, StartInv, MainOnlyCloses
<1>3. CASE AddICEPeer(t)
  <2> DEFINE r == [task[t] EXCEPT !.pc = "start", !.same = TRUE]
  <2>1. r.pc = "start" /\ r.same /\ task[t].pc = "add"
    BY <1>1, <1>3, ZenonT(40) DEF Tasks, AddICEPeer
  <2>2. \/ task' = [task EXCEPT ![t] = r]
        \/ ~Present /\ task' = [task EXCEPT ![t] = Idle] /\ UNCHANGED peer
    BY <1>3 DEF AddICEPeer
  <2> HIDE DEF r
  <2>3. CASE task' = [task EXCEPT ![t] = r]
    <3>1. task'[t] = r /\ task'[Main] = task[Main]
      BY <1>1, <1>2, <2>3, ThreadsAre
    <3> QED
      BY <2>1, <3>1 DEF StartInv, MainOnlyCloses, NewPeerStarts
  <2>4. CASE ~Present /\ task' = [task EXCEPT ![t] = Idle] /\ UNCHANGED peer
    BY <1>2, <2>1, <2>4, OneThread DEF Present
  <2> QED
    BY <2>2, <2>3, <2>4
<1>4. CASE Start(t)
  <2>1. task' = [task EXCEPT ![t] = Idle]
    BY <1>4 DEF Start
  <2>2. CASE ~task[t].same
    <3>1. UNCHANGED peer
      BY <1>4, <2>2, ZenonT(40) DEF Start
    <3> QED
      BY <1>2, <2>1, <2>2, <3>1, OneThread
  <2>3. CASE task[t].same
    <3> DEFINE b == peer.sendFirst \/ (SelfInitiated(t) /\ ~task[t].offerer)
    <3>1. CASE peer.phase = "new"
      <4>1. \/ peer' = [peer EXCEPT !.phase = "ended"]
            \/ peer' = [peer EXCEPT !.phase = "orphan"]
            \/ peer' = [peer EXCEPT !.phase = "gather", !.sendFirst = b]
        BY <1>4, <2>3, <3>1, ZenonT(40) DEF Start
      <4> HIDE DEF b
      <4>2. peer'.phase # "new"
        BY <1>1, <4>1 DEF Peers
      <4>3. task'[Main] = task[Main]
        BY <1>1, <1>2, <2>1, ThreadsAre
      <4> QED
        BY <4>2, <4>3 DEF StartInv, MainOnlyCloses, NewPeerStarts
    <3>2. CASE peer.phase # "new"
      <4>1. peer' = peer \/ peer' = [peer EXCEPT !.sendFirst = b]
        BY <1>4, <3>2, ZenonT(40) DEF Start
      <4> HIDE DEF b
      <4>2. peer'.phase # "new"
        BY <1>1, <3>2, <4>1 DEF Peers
      <4>3. task'[Main] = task[Main]
        BY <1>1, <1>2, <2>1, ThreadsAre
      <4> QED
        BY <4>2, <4>3 DEF StartInv, MainOnlyCloses, NewPeerStarts
    <3> QED
      BY <3>1, <3>2
  <2> QED
    BY <2>2, <2>3
<1> QED
  BY <1>3, <1>4

\* Calls, messages and restart callbacks make no peer.
LEMMA CallStarts ==
  ASSUME StartInv,
         \/ Gather \/ TakeRemoteMsg \/ Connect \/ Fail
         \/ \E o \in Roles : Age(o) \/ ConnectToPeer(o) \/ ChangeRole(o)
         \/ IceMsg \/ DisconnectFromPeer \/ ForceRestart
         \/ \E t \in Threads : BeginClose(t) \/ AnswererRestart(t) \/ CountRestart(t) \/ Wake(t)
  PROVE  MainOnlyCloses' /\ NewPeerStarts'
<1>1. task \in [Threads -> Tasks] /\ peer \in Peers
  BY PortInvParts DEF StartInv
<1>2. peer'.phase = "new" => peer.phase = "new"
  <2>1. CASE Gather \/ TakeRemoteMsg \/ Connect \/ Fail
    BY <1>1, <2>1, ZenonT(40) DEF Gather, TakeRemoteMsg, Connect, Fail, Peers
  <2>2. CASE IceMsg
    BY <1>1, <2>2, ZenonT(40) DEF IceMsg, Peers
  <2> QED
    BY <2>1, <2>2 DEF Age, ConnectToPeer, ChangeRole, DisconnectFromPeer, ForceRestart,
                      BeginClose, AnswererRestart, CountRestart, Wake
<1>3. \/ UNCHANGED task
      \/ \E t \in Threads : \E r : /\ task' = [task EXCEPT ![t] = r] /\ t # Main
                                   /\ task[t].pc # "start"
  <2>1. \A t \in FreeCallback : t \in Threads /\ t # Main /\ task[t].pc = "idle"
    BY Numbers, ThreadsAre DEF FreeCallback, Callbacks, Main
  <2>2. CASE Fail \/ IceMsg \/ ForceRestart
    BY <2>1, <2>2, ZenonT(40) DEF Fail, IceMsg, ForceRestart
  <2>3. Rpc \in Threads /\ Rpc # Main
    BY Numbers, ThreadsAre DEF Rpc, Main
  <2>4. CASE DisconnectFromPeer \/ \E o \in Roles : ConnectToPeer(o) \/ ChangeRole(o)
    <3>1. task[Rpc].pc = "idle" /\ \E p, o : RpcCall(p, o)
      BY <2>4, ZenonT(40) DEF ConnectToPeer, ChangeRole, DisconnectFromPeer, RpcReady
    <3>2. \E r : task' = [task EXCEPT ![Rpc] = r]
      BY <3>1, ZenonT(40) DEF RpcCall
    <3> QED
      BY <2>3, <3>1, <3>2, ZenonT(40)
  <2>5. ASSUME NEW t \in Threads, AnswererRestart(t) \/ CountRestart(t) \/ Wake(t)
        PROVE  \E r : /\ task' = [task EXCEPT ![t] = r] /\ t # Main
                      /\ task[t].pc # "start"
    <3>1. task[t].pc \in {"delay", "queued", "backoff"}
      BY <2>5 DEF AnswererRestart, CountRestart, Wake
    <3>2. t # Main
      BY <3>1 DEF StartInv, MainOnlyCloses
    <3>3. \E r : task' = [task EXCEPT ![t] = r]
      BY <2>5, ZenonT(40) DEF AnswererRestart, CountRestart, Wake
    <3> QED
      BY <3>1, <3>2, <3>3, ZenonT(40)
  <2>6. CASE Gather \/ TakeRemoteMsg \/ Connect \/ (\E o \in Roles : Age(o))
             \/ \E t \in Threads : BeginClose(t)
    BY <2>6 DEF Gather, TakeRemoteMsg, Connect, Age, BeginClose
  <2> QED
    BY <2>2, <2>4, <2>5, <2>6, ZenonT(40)
<1>4. CASE UNCHANGED task
  BY <1>2, <1>4 DEF StartInv, MainOnlyCloses, NewPeerStarts
<1>5. ASSUME NEW t \in Threads, NEW r, task' = [task EXCEPT ![t] = r], t # Main,
             task[t].pc # "start"
      PROVE  MainOnlyCloses' /\ NewPeerStarts'
  BY <1>2, <1>5, OneThread
<1> QED
  BY <1>3, <1>4, <1>5, ZenonT(40)

\* The end of the adapter stops nobody who is about to start a peer.
LEMMA QuitStarts ==
  ASSUME StartInv, Quit
  PROVE  MainOnlyCloses' /\ NewPeerStarts'
<1>1. PICK fails \in DialFails, fires \in BOOLEAN, wakes \in BOOLEAN :
        LET ended == EndRun(fails, fires) IN
        task' = [t \in Threads |->
          CASE t = Main -> [Idle EXCEPT !.pc = "remove", !.kind = "stop"]
            [] t # Main /\ ended[t].pc = "backoff" /\ ~wakes -> Idle
            [] OTHER -> ended[t]]
  BY DEF Quit
<1>2. fails \in BOOLEAN
  BY DialFailsBoolean
<1> DEFINE ended == EndRun(fails, fires)
           main  == [Idle EXCEPT !.pc = "remove", !.kind = "stop"]
<1>3. \A s \in Threads : task[s].pc = "start" => ended[s] = task[s]
  BY <1>2, EndRunStarters
<1>4. main.pc = "remove"
  BY DEF Idle
<1>5. task' = [t \in Threads |-> CASE t = Main -> main
                                   [] t # Main /\ ended[t].pc = "backoff" /\ ~wakes -> Idle
                                   [] OTHER -> ended[t]]
  BY <1>1
<1> HIDE DEF ended, main
<1>6. task'[Main].pc = "remove"
  BY <1>4, <1>5, ThreadsAre
<1>7. ASSUME NEW s \in Threads, task[s].pc = "start"
      PROVE  task'[s] = task[s]
  <2>1. s # Main
    BY <1>7 DEF StartInv, MainOnlyCloses
  <2> QED
    BY <1>3, <1>5, <1>7, <2>1
<1>8. peer'.phase = "new" => peer.phase = "new"
  BY ZenonT(40) DEF Quit, NoPeer
<1> QED
  BY <1>6, <1>7, <1>8 DEF StartInv, MainOnlyCloses, NewPeerStarts

\* A peer in the table is never left unstarted: whoever puts one there, be it
\* connectToPeer or a restart, starts it, also when the adapter is shut down in
\* between or connectToPeer finds that a restart has been quicker.
THEOREM EveryPeerStarts == Spec => []NewPeerStarts
<1>1. Init => MainOnlyCloses /\ NewPeerStarts
  BY ThreadsAre DEF Init, MainOnlyCloses, NewPeerStarts, NoPeer, Idle
<1>2. PortInv /\ MainOnlyCloses /\ NewPeerStarts /\ [Next]_vars
        => MainOnlyCloses' /\ NewPeerStarts'
  <2> SUFFICES ASSUME StartInv, [Next]_vars
               PROVE  MainOnlyCloses' /\ NewPeerStarts'
    BY DEF StartInv
  <2>1. CASE UNCHANGED vars
    BY <2>1 DEF vars, StartInv, MainOnlyCloses, NewPeerStarts
  <2>2. ASSUME NEW t \in Threads, Step(t)
        PROVE  MainOnlyCloses' /\ NewPeerStarts'
    BY <2>2, CloseStarts, AddStarts, CallStarts DEF Step
  <2>3. CASE Quit
    BY <2>3, QuitStarts
  <2> QED
    BY <2>1, <2>2, <2>3, CallStarts DEF Next
<1> QED
  BY <1>1, <1>2, PortInvHolds, PTL DEF Spec

\* Every peer in the table has an open socket: ReplaceICEPeer hands it over, and
\* a peer is put into the table only by those who have opened one.
THEOREM PortStaysOpen == Spec => []PortOpen
BY PortInvHolds, PTL DEF PortInv
=============================================================================
