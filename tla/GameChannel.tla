---------------------------- MODULE GameChannel ----------------------------
(***************************************************************************)
(* What an adapter promises to its game about the datagrams of the other:  *)
(* of the packets that the network has brought to the adapter some may be  *)
(* lost, and several may come at once, but each comes at most once, in the *)
(* order of arrival, and what a game has got it is never given again.  The *)
(* network may lose, reorder and duplicate packets on the way, and brings  *)
(* none that was not sent.  PacketForwarding implements this with a        *)
(* channel or an early buffer.                                             *)
(***************************************************************************)
EXTENDS Integers, Sequences

CONSTANT Ends

VARIABLES
  sent,     \* the number of packets that have been sent to an end
  arrived,  \* the numbers of those that have come to its adapter, one by one
  got       \* the places in arrived of those that its game has got

Init ==
  /\ sent = [e \in Ends |-> 0]
  /\ arrived = [e \in Ends |-> <<>>]
  /\ got = [e \in Ends |-> <<>>]

Increasing(s) == \A i, j \in DOMAIN s : i < j => s[i] < s[j]

\* Sequence t is s, with perhaps more to follow.
Extends(s, t) == Len(s) <= Len(t) /\ \A i \in DOMAIN s : t[i] = s[i]

Send(e) ==
  /\ sent' = [sent EXCEPT ![e] = @ + 1]
  /\ UNCHANGED <<arrived, got>>

\* A packet may come, and the game may get some of those that have come after the
\* ones it has.
Receive(e) ==
  /\ \/ UNCHANGED arrived
     \/ \E n \in 1 .. sent[e] : arrived' = [arrived EXCEPT ![e] = Append(@, n)]
  /\ got' = [got EXCEPT ![e] = got'[e]]
  /\ Extends(got[e], got'[e]) /\ Increasing(got'[e])
  /\ \A i \in DOMAIN got'[e] : got'[e][i] \in 1 .. Len(arrived'[e])
  /\ UNCHANGED sent

Next == \E e \in Ends : Send(e) \/ Receive(e)

Spec == Init /\ [][Next]_<<sent, arrived, got>>

-----------------------------------------------------------------------------
\* What a game has got are packets that have come, each once and in the order in
\* which they came; and each of those has been sent.
Faithful ==
  \A e \in Ends :
    /\ Increasing(got[e])
    /\ \A i \in DOMAIN got[e] : /\ got[e][i] \in DOMAIN arrived[e]
                                 /\ arrived[e][got[e][i]] \in 1 .. sent[e]
=============================================================================
