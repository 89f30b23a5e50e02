----------------------- MODULE PacketForwardingProofs -----------------------
(***************************************************************************)
(* An adapter hands on what the network brings in the order in which it    *)
(* comes, and what comes early is kept, for every capacity of the buffers, *)
(* any number of packets, and a network that loses, reorders and           *)
(* duplicates.                                                             *)
(***************************************************************************)
EXTENDS PacketForwarding, SequenceTheorems, TLAPS

\* In ICE mode only data wait: echo frames are answered when they come.
OnlyDataWaits ==
  kind = "ice" => \A e \in Ends : \A i \in DOMAIN buf[e] : buf[e][i].type = "data"

TypeInv == TypeOK /\ OnlyDataWaits

-----------------------------------------------------------------------------
(* The ends and the frames. *)

\* Each end has one other.
LEMMA OtherEnd ==
  /\ Other(Offerer) = Answerer /\ Other(Answerer) = Offerer
  /\ \A e \in Ends : Other(e) \in Ends /\ Other(e) # e
BY EndsDiffer DEF Other, Ends

\* What the frames carry.
LEMMA FrameTypes ==
  /\ \A n \in Nat : Data(n) \in Frame /\ Data(n).type = "data" /\ Data(n).n = n
  /\ \A t \in {"ping", "pong", "e", "f"} : Echo(t) \in Frame /\ Echo(t).type = t
  /\ \A ms \in Millis : /\ [type |-> "report", ms |-> ms] \in Frame
                        /\ [type |-> "report", ms |-> ms].type = "report"
  /\ \A f \in Frame : /\ f.type = "data" => f.n \in Nat
                      /\ f.type = "report" => f.ms \in Millis
BY DEF Frame, Data, Echo

\* The numbers of data frames.
LEMMA NumbersTypes ==
  ASSUME NEW s \in Seq(Frame), \A i \in DOMAIN s : s[i].type = "data"
  PROVE  /\ Numbers(s) \in Seq(Nat) /\ Len(Numbers(s)) = Len(s)
         /\ \A i \in 1 .. Len(s) : Numbers(s)[i] = s[i].n
<1>1. DOMAIN s = 1 .. Len(s) /\ Len(s) \in Nat /\ \A i \in 1 .. Len(s) : s[i] \in Frame
  BY LenProperties, ElementOfSeq
<1>2. \A i \in 1 .. Len(s) : s[i].n \in Nat
  BY <1>1, FrameTypes
<1>3. Numbers(s) = [i \in 1 .. Len(s) |-> s[i].n]
  BY <1>1 DEF Numbers
<1>4. Numbers(s) \in [1 .. Len(s) -> Nat]
  BY <1>2, <1>3
<1> QED
  BY <1>1, <1>3, <1>4, SeqDef

\* Frames that are put on a link, and one that is lost.
LEMMA LinkTypes ==
  ASSUME TypeOK, NEW e \in Ends
  PROVE  /\ \A fs \in SUBSET Frame : Put(link, e, fs) \in [Ends -> SUBSET Frame]
         /\ \A f : [link EXCEPT ![e] = @ \ {f}] \in [Ends -> SUBSET Frame]
<1>1. link \in [Ends -> SUBSET Frame] /\ link[e] \in SUBSET Frame
  BY DEF TypeOK
<1> QED
  BY <1>1 DEF Put

\* Taking a frame and sending others in return: no other frame comes to be on the
\* link.
LEMMA TakeTypes ==
  ASSUME TypeOK, NEW e \in Ends, NEW f, NEW fs \in SUBSET Frame, Take(e, f, fs)
  PROVE  /\ f \in Frame /\ f \in link[e] /\ link' \in [Ends -> SUBSET Frame]
         /\ link'[e] \subseteq link[e] /\ link'[Other(e)] = link[Other(e)] \cup fs
<1>1. link \in [Ends -> SUBSET Frame] /\ f \in link[e]
  BY DEF TypeOK, Take
<1>2. PICK rest \in {link[e], link[e] \ {f}} : link' = Put([link EXCEPT ![e] = rest], Other(e), fs)
  BY DEF Take
<1>3. rest \subseteq link[e] /\ link[e] \subseteq Frame /\ link[Other(e)] \cup fs \subseteq Frame
  BY <1>1, <1>2, OtherEnd
<1>4. link' = [link EXCEPT ![e] = rest, ![Other(e)] = @ \cup fs]
  BY <1>1, <1>2, OtherEnd, ZenonT(40) DEF Put
<1>5. link'[e] = rest /\ link'[Other(e)] = link[Other(e)] \cup fs
      /\ \A d \in Ends : d = e \/ d = Other(e)
  BY <1>1, <1>4, OtherEnd DEF Ends
<1>6. link' \in [Ends -> SUBSET Frame]
  BY <1>1, <1>3, <1>4, OtherEnd
<1> QED
  BY <1>1, <1>3, <1>5, <1>6

\* Data that come are put down as the last in the history.
LEMMA ArriveTypes ==
  ASSUME TypeOK, NEW e \in Ends, NEW f \in Frame, f.type = "data", Arrive(e, f)
  PROVE  /\ arrived' \in [Ends -> Seq(Nat)]
         /\ arrived'[e] = Append(arrived[e], f.n) /\ Len(arrived'[e]) = Len(arrived[e]) + 1
         /\ \A d \in Ends \ {e} : arrived'[d] = arrived[d]
<1>1. arrived \in [Ends -> Seq(Nat)] /\ arrived[e] \in Seq(Nat) /\ f.n \in Nat
  BY FrameTypes DEF TypeOK
<1>2. Append(arrived[e], f.n) \in Seq(Nat) /\ Len(Append(arrived[e], f.n)) = Len(arrived[e]) + 1
  BY <1>1, AppendProperties
<1>3. arrived' = [arrived EXCEPT ![e] = Append(arrived[e], f.n)]
  BY DEF Arrive
<1> QED
  BY <1>1, <1>2, <1>3, ZenonT(40)

\* The frame that is kept of them.
LEMMA PlaceTypes ==
  ASSUME TypeOK, NEW e \in Ends
  PROVE  /\ Place(e) \in Nat /\ Place(e) = Len(arrived[e]) + 1 /\ Len(arrived[e]) \in Nat
         /\ Data(Place(e)) \in Frame /\ Data(Place(e)).type = "data"
         /\ Data(Place(e)).n = Place(e)
<1>1. Len(arrived[e]) \in Nat
  BY LenProperties DEF TypeOK
<1> QED
  BY <1>1, FrameTypes DEF Place

-----------------------------------------------------------------------------
(* Types. *)

\* A budget that has shrunk is one.
LEMMA BudgetTypes ==
  ASSUME TypeOK, NEW e \in Ends
  PROVE  /\ left.data[e] > 0 => [left EXCEPT !.data[e] = @ - 1] \in [data : [Ends -> Nat], echo : Nat]
         /\ left.echo > 0 => [left EXCEPT !.echo = @ - 1] \in [data : [Ends -> Nat], echo : Nat]
<1>1. left \in [data : [Ends -> Nat], echo : Nat] /\ left.data \in [Ends -> Nat] /\ left.echo \in Nat
  BY DEF TypeOK
<1>2. left.data[e] > 0 => [left.data EXCEPT ![e] = @ - 1] \in [Ends -> Nat]
  BY <1>1
<1>3. left.echo > 0 => left.echo - 1 \in Nat
  BY <1>1
<1> QED
  BY <1>1, <1>2, <1>3

\* The actions of the game and of the goroutines that read from it.
LEMMA GameTypes ==
  ASSUME TypeInv, NEW e \in Ends,
         GameSends(e) \/ GameRebinds(e) \/ Forward(e) \/ GetsReady(e) \/ SendEcho(e) \/ Lose(e)
  PROVE  TypeInv'
<1> USE DEF TypeInv, TypeOK, OnlyDataWaits, gameVars, dataVars, rttVars
<1>1. CASE GameSends(e)
  <2>1. sock' \in [Ends -> Seq(Ports)]
    BY <1>1, AppendProperties DEF GameSends
  <2>2. left' \in [data : [Ends -> Nat], echo : Nat]
    BY <1>1, BudgetTypes, ZenonT(40) DEF GameSends
  <2> QED
    BY <1>1, <2>1, <2>2, ZenonT(40) DEF GameSends
<1>2. CASE GameRebinds(e)
  <2>1. port' \in [Ends -> Ports]
    BY <1>2 DEF GameRebinds, Ports
  <2> QED
    BY <1>2, <2>1 DEF GameRebinds
<1>3. CASE ReadGame(e)
  <2>1. sock[e] \in Seq(Ports) /\ sock[e] # <<>>
    BY <1>3 DEF ReadGame
  <2>2. Head(sock[e]) \in Ports /\ Tail(sock[e]) \in Seq(Ports)
    BY <2>1, HeadTailProperties
  <2>3. sock' \in [Ends -> Seq(Ports)] /\ addr' \in [Ends -> Ports \cup {0}]
    BY <1>3, <2>2 DEF ReadGame, GameAddr
  <2>4. hand' \in [Ends -> BOOLEAN]
    BY <1>3 DEF ReadGame
  <2> QED
    BY <1>3, <2>3, <2>4 DEF ReadGame
<1>4. CASE SendGame(e)
  <2>1. {Data(number[e] + 1)} \in SUBSET Frame
    BY FrameTypes
  <2>2. link' \in [Ends -> SUBSET Frame]
    BY <1>4, <2>1, LinkTypes, OtherEnd, ZenonT(40) DEF SendGame
  <2>3. hand' \in [Ends -> BOOLEAN]
    BY <1>4 DEF SendGame
  <2>4. number' \in [Ends -> Nat]
    <3>1. number[e] + 1 \in Nat /\ number \in [Ends -> Nat]
      OBVIOUS
    <3>2. number' = [number EXCEPT ![e] = number[e] + 1]
      BY <1>4 DEF SendGame
    <3> QED
      BY <3>1, <3>2
  <2> QED
    BY <1>4, <2>2, <2>3, <2>4, ZenonT(40) DEF SendGame
<1>5. CASE GetsReady(e)
  <2>1. ready' \in [Ends -> BOOLEAN]
    BY <1>5 DEF GetsReady
  <2> QED
    BY <1>5, <2>1 DEF GetsReady
<1>6. CASE SendEcho(e)
  <2>1. \A t \in {"ping", "pong", "e", "f"} : {Echo(t)} \in SUBSET Frame
    BY FrameTypes
  <2>2. link' \in [Ends -> SUBSET Frame]
    BY <1>6, <2>1, LinkTypes, OtherEnd, ZenonT(40) DEF SendEcho
  <2>3. left' \in [data : [Ends -> Nat], echo : Nat]
    BY <1>6, BudgetTypes, ZenonT(40) DEF SendEcho
  <2> QED
    BY <1>6, <2>2, <2>3, ZenonT(40) DEF SendEcho
<1>7. CASE Lose(e)
  <2>1. link' \in [Ends -> SUBSET Frame]
    BY <1>7, LinkTypes DEF Lose
  <2> QED
    BY <1>7, <2>1 DEF Lose
<1> QED
  BY <1>1, <1>2, <1>3, <1>4, <1>5, <1>6, <1>7, ZenonT(40) DEF Forward

\* A measurement.
LEMMA MeasureTypes ==
  ASSUME TypeOK, NEW e \in Ends, NEW ms \in Millis, Measure(e, ms)
  PROVE  /\ rtt' \in [Ends -> 0..2] /\ estimated' \in [Ends -> BOOLEAN]
         /\ measured' \in [Ends -> Millis \cup {-1}]
<1>1. ms \in 0..2
  BY DEF Millis
<1>2. rtt' \in [Ends -> 0..2]
  BY <1>1 DEF TypeOK, Measure
<1>3. estimated' \in [Ends -> BOOLEAN]
  BY DEF TypeOK, Measure
<1>4. measured' \in [Ends -> Millis \cup {-1}]
  BY DEF TypeOK, Measure
<1> QED
  BY <1>2, <1>3, <1>4

\* A buffer to which a frame is added while there is room.
LEMMA BufferTypes ==
  ASSUME TypeOK, NEW e \in Ends, NEW f \in Frame, Keep(e, f)
  PROVE  /\ buf' \in [Ends -> Seq(Frame)] /\ \A d \in Ends : Len(buf'[d]) <= Cap
         /\ \A d \in Ends : \A i \in DOMAIN buf'[d] :
              buf'[d][i] = f \/ (i \in DOMAIN buf[d] /\ buf'[d][i] = buf[d][i])
<1>1. buf \in [Ends -> Seq(Frame)] /\ Cap \in Nat /\ \A d \in Ends : Len(buf[d]) <= Cap
  BY CapIsPositive DEF TypeOK
<1>2. /\ Append(buf[e], f) \in Seq(Frame) /\ Len(Append(buf[e], f)) = Len(buf[e]) + 1
      /\ \A i \in 1 .. Len(buf[e]) : Append(buf[e], f)[i] = buf[e][i]
      /\ Append(buf[e], f)[Len(buf[e]) + 1] = f
  BY <1>1, AppendProperties
<1>3. CASE Len(buf[e]) < Cap
  <2>1. buf'[e] = Append(buf[e], f) /\ buf' \in [Ends -> Seq(Frame)]
        /\ \A d \in Ends \ {e} : buf'[d] = buf[d]
    BY <1>1, <1>2, <1>3 DEF Keep
  <2>2. Len(buf'[e]) <= Cap
    BY <1>1, <1>2, <1>3, <2>1, LenProperties
  <2>3. \A i \in DOMAIN buf'[e] : buf'[e][i] = f \/ (i \in DOMAIN buf[e] /\ buf'[e][i] = buf[e][i])
    <3>1. DOMAIN buf'[e] = 1 .. Len(buf[e]) + 1 /\ DOMAIN buf[e] = 1 .. Len(buf[e]) /\ Len(buf[e]) \in Nat
      BY <1>1, <1>2, <2>1, LenProperties
    <3> QED
      BY <1>2, <2>1, <3>1
  <2> QED
    BY <1>1, <2>1, <2>2, <2>3
<1>4. CASE ~(Len(buf[e]) < Cap)
  BY <1>1, <1>4 DEF Keep
<1> QED
  BY <1>3, <1>4

\* What is written to the game are numbers.
LEMMA DeliveredTypes ==
  ASSUME TypeOK, NEW e \in Ends, NEW ns \in Seq(Nat)
  PROVE  Delivered(e, ns) \in [Ends -> Seq(Nat)]
<1>1. got[e] \o ns \in Seq(Nat)
  BY ConcatProperties DEF TypeOK
<1> QED
  BY <1>1 DEF Delivered, TypeOK

\* A frame from the relay is put into the channel.
LEMMA DeliverTypes ==
  ASSUME TypeInv, NEW e \in Ends, NEW f, DeliverFromRelay(e, f)
  PROVE  TypeInv'
<1>0. TypeOK
  BY DEF TypeInv
<1>1. f \in Frame /\ link' \in [Ends -> SUBSET Frame]
  BY <1>0, TakeTypes, ZenonT(40) DEF DeliverFromRelay
<1>2. PICK g \in Frame : Keep(e, g) /\ arrived' \in [Ends -> Seq(Nat)]
  <2>1. CASE f.type = "data" /\ Arrive(e, f) /\ Keep(e, Data(Place(e)))
    BY <1>0, <1>1, <2>1, ArriveTypes, PlaceTypes
  <2>2. CASE UNCHANGED arrived /\ Keep(e, f)
    BY <1>0, <1>1, <2>2 DEF TypeOK
  <2> QED
    BY <2>1, <2>2 DEF DeliverFromRelay
<1>3. buf' \in [Ends -> Seq(Frame)] /\ \A d \in Ends : Len(buf'[d]) <= Cap
  BY <1>0, <1>2, BufferTypes, ZenonT(40)
<1>4. OnlyDataWaits'
  BY DEF DeliverFromRelay, Take, OnlyDataWaits
<1> QED
  BY <1>0, <1>1, <1>2, <1>3, <1>4, ZenonT(40) DEF DeliverFromRelay, Take, NoRtt, TypeInv, TypeOK, gameVars, rttVars

\* A frame is taken from the channel.
LEMMA RelayToGameTypes ==
  ASSUME TypeInv, NEW e \in Ends, relayToGame(e)
  PROVE  TypeInv'
<1> DEFINE f == Head(buf[e])
<1>1. buf \in [Ends -> Seq(Frame)] /\ buf[e] # <<>> /\ Cap \in Nat
  BY CapIsPositive DEF TypeInv, TypeOK, relayToGame
<1>2. /\ f \in Frame /\ Tail(buf[e]) \in Seq(Frame) /\ Len(Tail(buf[e])) = Len(buf[e]) - 1
      /\ Len(buf[e]) \in Nat /\ Len(buf[e]) <= Cap
  BY <1>1, HeadTailProperties, LenProperties DEF TypeInv, TypeOK
<1>3. buf' = [buf EXCEPT ![e] = Tail(buf[e])]
  BY DEF relayToGame
<1>4. buf' \in [Ends -> Seq(Frame)] /\ \A d \in Ends : Len(buf'[d]) <= Cap
  <2>1. Len(Tail(buf[e])) <= Cap /\ \A d \in Ends : Len(buf[d]) <= Cap
    BY <1>1, <1>2 DEF TypeInv, TypeOK
  <2>2. buf'[e] = Tail(buf[e]) /\ \A d \in Ends \ {e} : buf'[d] = buf[d]
    BY <1>1, <1>3, ZenonT(40)
  <2>3. buf' \in [Ends -> Seq(Frame)]
    BY <1>1, <1>2, <1>3, ZenonT(40)
  <2> QED
    BY <2>1, <2>2, <2>3, ZenonT(40)
<1>5. OnlyDataWaits'
  BY DEF relayToGame, OnlyDataWaits
<1>6. /\ kind' = kind /\ left' = left /\ UNCHANGED gameVars /\ ready' = ready /\ addr' = addr
      /\ arrived' = arrived
      /\ \/ /\ f.type = "data" /\ UNCHANGED link /\ NoRtt
            /\ got' = IF addr[e] = 0 THEN got ELSE Delivered(e, <<f.n>>)
         \/ /\ link' = Put(link, Other(e), {Echo("pong")}) /\ UNCHANGED got /\ NoRtt
         \/ NoRtt /\ UNCHANGED <<link, got>>
         \/ (\E ms \in Millis : Measure(e, ms)) /\ UNCHANGED <<link, got>>
  BY DEF relayToGame
<1> HIDE DEF f
<1>7. CASE /\ f.type = "data" /\ UNCHANGED link /\ NoRtt
           /\ got' = IF addr[e] = 0 THEN got ELSE Delivered(e, <<f.n>>)
  <2>1. f.n \in Nat /\ <<f.n>> \in Seq(Nat)
    BY <1>2, <1>7, FrameTypes
  <2>2. got' \in [Ends -> Seq(Nat)]
    BY <1>7, <2>1, DeliveredTypes, ZenonT(40) DEF TypeInv, TypeOK
  <2> QED
    BY <1>4, <1>5, <1>6, <1>7, <2>2, ZenonT(40) DEF NoRtt, TypeInv, TypeOK, gameVars, rttVars
<1>8. CASE link' = Put(link, Other(e), {Echo("pong")}) /\ UNCHANGED got /\ NoRtt
  <2>1. {Echo("pong")} \in SUBSET Frame
    BY FrameTypes
  <2>2. link' \in [Ends -> SUBSET Frame]
    BY <1>8, <2>1, LinkTypes, OtherEnd, ZenonT(40) DEF TypeInv
  <2> QED
    BY <1>4, <1>5, <1>6, <1>8, <2>2, ZenonT(40) DEF NoRtt, TypeInv, TypeOK, gameVars, rttVars
<1>9. CASE NoRtt /\ UNCHANGED <<link, got>>
  BY <1>4, <1>5, <1>6, <1>9, ZenonT(40) DEF NoRtt, TypeInv, TypeOK, gameVars, rttVars
<1>10. CASE (\E ms \in Millis : Measure(e, ms)) /\ UNCHANGED <<link, got>>
  <2>1. /\ rtt' \in [Ends -> 0..2] /\ estimated' \in [Ends -> BOOLEAN]
        /\ measured' \in [Ends -> Millis \cup {-1}]
    BY <1>10, MeasureTypes DEF TypeInv
  <2> QED
    BY <1>4, <1>5, <1>6, <1>10, <2>1 DEF TypeInv, TypeOK, gameVars
<1> QED
  BY <1>6, <1>7, <1>8, <1>9, <1>10

\* Data from ICE are kept, or written to the game with those that were.
LEMMA IceToGameTypes ==
  ASSUME TypeInv, NEW e \in Ends, NEW f, iceToGame(e, f)
  PROVE  TypeInv'
<1>0. TypeOK
  BY DEF TypeInv
<1>1. f \in Frame /\ link' \in [Ends -> SUBSET Frame]
  BY <1>0, TakeTypes, ZenonT(40) DEF iceToGame
<1>2. arrived' \in [Ends -> Seq(Nat)]
  BY <1>0, <1>1, ArriveTypes DEF iceToGame
<1>3. /\ Place(e) \in Nat /\ <<Place(e)>> \in Seq(Nat)
      /\ Data(Place(e)) \in Frame /\ Data(Place(e)).type = "data"
  BY <1>0, PlaceTypes
<1>4. /\ buf' \in [Ends -> Seq(Frame)] /\ \A d \in Ends : Len(buf'[d]) <= Cap
      /\ got' \in [Ends -> Seq(Nat)] /\ OnlyDataWaits'
  <2>1. CASE UNCHANGED got /\ Keep(e, Data(Place(e)))
    <3>1. /\ buf' \in [Ends -> Seq(Frame)] /\ \A d \in Ends : Len(buf'[d]) <= Cap
          /\ \A d \in Ends : \A i \in DOMAIN buf'[d] :
               buf'[d][i] = Data(Place(e)) \/ (i \in DOMAIN buf[d] /\ buf'[d][i] = buf[d][i])
      BY <1>0, <1>3, <2>1, BufferTypes, ZenonT(40)
    <3>2. \A d \in Ends : \A i \in DOMAIN buf[d] : buf[d][i].type = "data"
      BY DEF TypeInv, OnlyDataWaits, iceToGame
    <3>3. \A d \in Ends : \A i \in DOMAIN buf'[d] : buf'[d][i].type = "data"
      BY <1>3, <3>1, <3>2
    <3>4. OnlyDataWaits'
      BY <3>3 DEF OnlyDataWaits
    <3> QED
      BY <2>1, <3>1, <3>4 DEF TypeInv, TypeOK
  <2>2. CASE /\ got' = Delivered(e, Numbers(buf[e]) \o <<Place(e)>>)
             /\ buf' = [buf EXCEPT ![e] = <<>>]
    <3>1. Numbers(buf[e]) \in Seq(Nat)
      <4>1. buf[e] \in Seq(Frame)
        BY DEF TypeInv, TypeOK
      <4>2. \A i \in DOMAIN buf[e] : buf[e][i].type = "data"
        BY ZenonT(40) DEF TypeInv, OnlyDataWaits, iceToGame
      <4> QED
        BY <4>1, <4>2, NumbersTypes, ZenonT(40)
    <3>2. Numbers(buf[e]) \o <<Place(e)>> \in Seq(Nat)
      BY <1>3, <3>1, ConcatProperties
    <3>3. got' \in [Ends -> Seq(Nat)]
      BY <1>0, <2>2, <3>2, DeliveredTypes, ZenonT(40)
    <3>4. buf' \in [Ends -> Seq(Frame)] /\ \A d \in Ends : Len(buf'[d]) <= Cap
      BY <2>2, EmptySeq, CapIsPositive DEF TypeInv, TypeOK
    <3>5. OnlyDataWaits'
      BY <2>2, EmptySeq DEF TypeInv, TypeOK, OnlyDataWaits, iceToGame
    <3> QED
      BY <3>3, <3>4, <3>5
  <2> QED
    BY <2>1, <2>2 DEF iceToGame
<1> QED
  BY <1>1, <1>2, <1>4, ZenonT(40) DEF iceToGame, Take, NoRtt, TypeInv, TypeOK, gameVars, rttVars

\* The echo frames.
LEMMA EchoTypes ==
  ASSUME TypeInv, NEW e \in Ends, NEW f,
         \/ EchoOutOfRange(e, f)
         \/ EchoMirrored(f) \/ AnswererMeasures(f) \/ EchoReturned(f) \/ AnswerEchoMirrored(f)
  PROVE  TypeInv'
<1>1. Offerer \in Ends /\ Answerer \in Ends /\ {} \in SUBSET Frame
  BY DEF Ends
<1>2. ASSUME NEW d \in Ends, NEW fs, Take(d, f, fs), NoData, link' \in [Ends -> SUBSET Frame],
             rtt' \in [Ends -> 0..2], estimated' \in [Ends -> BOOLEAN],
             measured' \in [Ends -> Millis \cup {-1}]
      PROVE  TypeInv'
  BY <1>2, ZenonT(40) DEF Take, NoData, TypeInv, TypeOK, OnlyDataWaits, gameVars
<1>3. /\ rtt \in [Ends -> 0..2] /\ estimated \in [Ends -> BOOLEAN]
      /\ measured \in [Ends -> Millis \cup {-1}]
  BY DEF TypeInv, TypeOK
<1>4. ASSUME NEW d \in Ends, NEW fs, Take(d, f, fs)
      PROVE  f \in Frame
  BY <1>4 DEF Take, TypeInv, TypeOK
<1>5. CASE EchoOutOfRange(e, f)
  BY <1>1, <1>2, <1>3, <1>5, TakeTypes, ZenonT(40) DEF EchoOutOfRange, NoRtt, rttVars, TypeInv
<1>6. CASE EchoMirrored(f)
  <2>1. f \in Frame /\ {f} \in SUBSET Frame
    BY <1>1, <1>4, <1>6 DEF EchoMirrored
  <2>2. link' \in [Ends -> SUBSET Frame]
    BY <1>1, <1>6, <2>1, TakeTypes, ZenonT(40) DEF EchoMirrored, TypeInv
  <2>3. rtt' \in [Ends -> 0..2]
    BY <1>1, <1>3, <1>6 DEF EchoMirrored, Millis
  <2>4. estimated' \in [Ends -> BOOLEAN]
    BY <1>1, <1>3, <1>6, ZenonT(40) DEF EchoMirrored
  <2> QED
    BY <1>1, <1>2, <1>3, <1>6, <2>2, <2>3, <2>4, ZenonT(40) DEF EchoMirrored
<1>7. CASE AnswererMeasures(f)
  <2>1. f \in Frame
    BY <1>1, <1>4, <1>7 DEF AnswererMeasures
  <2>2. link' \in [Ends -> SUBSET Frame]
    BY <1>1, <1>7, TakeTypes, ZenonT(40) DEF AnswererMeasures, TypeInv
  <2>3. \E ms \in Millis : Measure(Answerer, ms)
    BY <1>7, <2>1, FrameTypes DEF AnswererMeasures
  <2>4. /\ rtt' \in [Ends -> 0..2] /\ estimated' \in [Ends -> BOOLEAN]
        /\ measured' \in [Ends -> Millis \cup {-1}]
    BY <1>1, <2>3, MeasureTypes DEF TypeInv
  <2> QED
    BY <1>1, <1>2, <1>7, <2>2, <2>4 DEF AnswererMeasures
<1>8. CASE EchoReturned(f)
  <2>1. PICK ms \in Millis : /\ Take(Offerer, f, {[type |-> "report", ms |-> ms]})
                             /\ Measure(Offerer, ms)
    BY <1>8 DEF EchoReturned
  <2>2. {[type |-> "report", ms |-> ms]} \in SUBSET Frame
    BY FrameTypes
  <2>3. link' \in [Ends -> SUBSET Frame]
    BY <1>1, <2>1, <2>2, TakeTypes, ZenonT(40) DEF TypeInv
  <2>4. /\ rtt' \in [Ends -> 0..2] /\ estimated' \in [Ends -> BOOLEAN]
        /\ measured' \in [Ends -> Millis \cup {-1}]
    BY <1>1, <2>1, MeasureTypes DEF TypeInv
  <2> QED
    BY <1>1, <1>2, <1>8, <2>1, <2>3, <2>4, ZenonT(40) DEF EchoReturned
<1>9. CASE AnswerEchoMirrored(f)
  <2>1. f \in Frame /\ {f} \in SUBSET Frame
    BY <1>1, <1>4, <1>9 DEF AnswerEchoMirrored
  <2>2. link' \in [Ends -> SUBSET Frame]
    BY <1>1, <1>9, <2>1, TakeTypes, ZenonT(40) DEF AnswerEchoMirrored, TypeInv
  <2> QED
    BY <1>1, <1>2, <1>3, <1>9, <2>2, ZenonT(40) DEF AnswerEchoMirrored, NoRtt, rttVars
<1> QED
  BY <1>5, <1>6, <1>7, <1>8, <1>9

\* A frame f that end e has taken from the link.
HandleFrame(e, f) ==
  \/ DeliverFromRelay(e, f) \/ iceToGame(e, f) \/ EchoOutOfRange(e, f)
  \/ e = Answerer /\ (EchoMirrored(f) \/ AnswererMeasures(f))
  \/ e = Offerer /\ (EchoReturned(f) \/ AnswerEchoMirrored(f))

\* What a step is: one of the cases of the lemmas.
LEMMA StepCases ==
  ASSUME [Next]_vars
  PROVE  \/ UNCHANGED vars
         \/ \E e \in Ends :
              \/ GameSends(e) \/ GameRebinds(e) \/ ReadGame(e) \/ SendGame(e) \/ GetsReady(e)
              \/ SendEcho(e) \/ Lose(e) \/ relayToGame(e)
              \/ \E f : HandleFrame(e, f)
<1>1. CASE UNCHANGED vars
  BY <1>1
<1>2. CASE Next
  <2>1. PICK e \in Ends : \/ GameSends(e) \/ GameRebinds(e) \/ Forward(e) \/ GetsReady(e)
                          \/ SendEcho(e) \/ Lose(e) \/ Handle(e)
    BY <1>2 DEF Next
  <2>2. CASE Handle(e)
    <3>1. CASE DropUnknown(e) \/ relayToGame(e)
      BY <3>1 DEF DropUnknown
    <3>2. CASE ~(DropUnknown(e) \/ relayToGame(e))
      <4>1. \E f : HandleFrame(e, f)
        BY <2>2, <3>2, Zenon DEF Handle, HandleFrame
      <4> QED
        BY <4>1
    <3> QED
      BY <3>1, <3>2
  <2> QED
    BY <2>1, <2>2, Zenon DEF Forward
<1> QED
  BY <1>1, <1>2

\* The types, with the content of the early buffer, are inductive.
LEMMA TypeInvHolds == Spec => []TypeInv
<1>1. Init => TypeInv
  <2> SUFFICES ASSUME Init PROVE TypeInv
    OBVIOUS
  <2>1. \A S : <<>> \in Seq(S)
    BY EmptySeq
  <2>2. left \in [data : [Ends -> Nat], echo : Nat]
    BY BudgetsAreBounds DEF Init
  <2>3. OnlyDataWaits
    BY DEF Init, All, OnlyDataWaits
  <2>4. \A e \in Ends : Len(buf[e]) <= Cap
    BY CapIsPositive DEF Init, All
  <2>5. /\ rtt \in [Ends -> 0..2] /\ measured \in [Ends -> Millis \cup {-1}]
        /\ port \in [Ends -> Ports] /\ addr \in [Ends -> Ports \cup {0}] /\ number \in [Ends -> Nat]
    BY DEF Init, All, Ports, Millis
  <2>6. /\ hand \in [Ends -> BOOLEAN] /\ ready \in [Ends -> BOOLEAN] /\ estimated \in [Ends -> BOOLEAN]
    BY DEF Init, All
  <2> QED
    BY <2>1, <2>2, <2>3, <2>4, <2>5, <2>6 DEF Init, All, TypeInv, TypeOK
<1>2. TypeInv /\ [Next]_vars => TypeInv'
  <2> SUFFICES ASSUME TypeInv, [Next]_vars PROVE TypeInv'
    OBVIOUS
  <2>1. CASE UNCHANGED vars
    BY <2>1 DEF TypeInv, TypeOK, OnlyDataWaits, vars, gameVars, dataVars, rttVars
  <2> QED
    BY <2>1, StepCases, GameTypes, DeliverTypes, RelayToGameTypes, IceToGameTypes, EchoTypes, Zenon
       DEF Forward, HandleFrame
<1> QED
  BY <1>1, <1>2, PTL DEF Spec

\* Every variable keeps its type, whatever the adapters, the games and the network
\* do: what iceToGame and relayToGame write to a game are the payloads of data
\* frames, and no buffer grows past its capacity.
THEOREM ForwardingTypes == Spec => []TypeOK
BY TypeInvHolds, PTL DEF TypeInv

-----------------------------------------------------------------------------
(* Round trips. *)

\* A measurement is kept as one.
LEMMA MeasureTrue ==
  ASSUME TypeInv, RttTrue, NEW e \in Ends, NEW ms \in Millis, Measure(e, ms)
  PROVE  RttTrue'
<1>1. /\ rtt \in [Ends -> 0..2] /\ measured \in [Ends -> Millis \cup {-1}]
      /\ estimated \in [Ends -> BOOLEAN]
  BY DEF TypeInv, TypeOK
<1>2. rtt'[e] = ms /\ measured'[e] = ms /\ estimated'[e] = FALSE
  BY <1>1 DEF Measure
<1>3. \A d \in Ends \ {e} : rtt'[d] = rtt[d] /\ measured'[d] = measured[d] /\ estimated'[d] = estimated[d]
  BY <1>1 DEF Measure
<1> QED
  BY <1>2, <1>3 DEF RttTrue

\* The answerer's estimate does not replace a measurement: it is only made while
\* there is no round trip.
LEMMA EstimateTrue ==
  ASSUME TypeInv, RttTrue, NEW f, EchoMirrored(f)
  PROVE  RttTrue'
<1>1. /\ rtt \in [Ends -> 0..2] /\ measured \in [Ends -> Millis \cup {-1}]
      /\ estimated \in [Ends -> BOOLEAN] /\ Answerer \in Ends
  BY DEF TypeInv, TypeOK, Ends
<1>2. CASE UNCHANGED <<rtt, estimated>>
  BY <1>2 DEF EchoMirrored, RttTrue
<1>3. ASSUME NEW oneWay \in Millis, rtt[Answerer] = 0, rtt' = [rtt EXCEPT ![Answerer] = 2 * oneWay],
             estimated' = [estimated EXCEPT ![Answerer] = TRUE]
      PROVE  RttTrue'
  <2>1. measured' = measured
    BY DEF EchoMirrored
  <2>2. estimated'[Answerer] = TRUE
    BY <1>1, <1>3
  <2>3. ~(measured[Answerer] > 0)
    BY <1>1, <1>3 DEF RttTrue, Millis
  <2>4. \A d \in Ends \ {Answerer} : rtt'[d] = rtt[d] /\ estimated'[d] = estimated[d]
    BY <1>1, <1>3
  <2> QED
    BY <2>1, <2>2, <2>3, <2>4 DEF RttTrue
<1> QED
  BY <1>2, <1>3 DEF EchoMirrored

\* The round trip that a peer reports is what it has measured last, unless it is
\* marked as estimated: no echo or ping frame, in whatever order they come, lost or
\* late, lets an estimate pass for a measurement or hide one.
THEOREM RoundTripsTrue == Spec => []RttTrue
<1>1. Init => RttTrue
  BY DEF Init, All, RttTrue
<1>2. TypeInv /\ RttTrue /\ [Next]_vars => RttTrue'
  <2> SUFFICES ASSUME TypeInv, RttTrue, [Next]_vars PROVE RttTrue'
    OBVIOUS
  <2>1. CASE NoRtt
    BY <2>1 DEF NoRtt, rttVars, RttTrue
  <2>2. CASE UNCHANGED vars
    BY <2>1, <2>2 DEF NoRtt, vars
  <2>3. ASSUME NEW e \in Ends,
               \/ GameSends(e) \/ GameRebinds(e) \/ ReadGame(e) \/ SendGame(e) \/ GetsReady(e)
               \/ SendEcho(e) \/ Lose(e)
        PROVE  RttTrue'
    BY <2>1, <2>3 DEF NoRtt, GameSends, GameRebinds, ReadGame, SendGame, GetsReady, SendEcho, Lose
  <2>4. ASSUME NEW e \in Ends, relayToGame(e)
        PROVE  RttTrue'
    <3>1. NoRtt \/ \E ms \in Millis : Measure(e, ms)
      BY <2>4 DEF relayToGame
    <3> QED
      BY <2>1, <3>1, MeasureTrue
  <2>5. ASSUME NEW e \in Ends, NEW f, HandleFrame(e, f)
        PROVE  RttTrue'
    <3>1. CASE EchoMirrored(f)
      BY <3>1, EstimateTrue
    <3>2. CASE EchoReturned(f)
      <4>1. \E ms \in Millis : Measure(Offerer, ms)
        BY <3>2 DEF EchoReturned
      <4> QED
        BY <4>1, MeasureTrue DEF Ends
    <3>3. CASE AnswererMeasures(f)
      <4>1. f \in Frame
        BY <3>3 DEF AnswererMeasures, Take, TypeInv, TypeOK, Ends
      <4>2. \E ms \in Millis : Measure(Answerer, ms)
        BY <3>3, <4>1, FrameTypes DEF AnswererMeasures
      <4> QED
        BY <4>2, MeasureTrue DEF Ends
    <3>4. CASE DeliverFromRelay(e, f) \/ iceToGame(e, f) \/ EchoOutOfRange(e, f) \/ AnswerEchoMirrored(f)
      BY <2>1, <3>4 DEF DeliverFromRelay, iceToGame, EchoOutOfRange, AnswerEchoMirrored
    <3> QED
      BY <2>5, <3>1, <3>2, <3>3, <3>4 DEF HandleFrame
  <2> QED
    BY <2>2, <2>3, <2>4, <2>5, StepCases
<1> QED
  BY <1>1, <1>2, TypeInvHolds, PTL DEF Spec

-----------------------------------------------------------------------------
(* Sequences of frames: the numbers of the data in them, and their order. *)

Nums(s) == {s[i].n : i \in {j \in DOMAIN s : s[j].type = "data"}}

Sorted(s) ==
  \A i, j \in DOMAIN s : i < j /\ s[i].type = "data" /\ s[j].type = "data" => s[i].n < s[j].n

Less(S, T) == \A x \in S, y \in T : x < y

\* A frame has a number if it is data, and only then.
LEMMA OneFrame ==
  ASSUME NEW f \in Frame
  PROVE  /\ <<f>> \in Seq(Frame) /\ Sorted(<<f>>)
         /\ Nums(<<f>>) = IF f.type = "data" THEN {f.n} ELSE {}
<1>1. <<f>> \in Seq(Frame) /\ DOMAIN <<f>> = {1} /\ <<f>>[1] = f
  OBVIOUS
<1> QED
  BY <1>1 DEF Sorted, Nums

\* Numbers are natural.
LEMMA NumsTypes ==
  ASSUME NEW s \in Seq(Frame)
  PROVE  Nums(s) \subseteq Nat
<1>1. \A i \in DOMAIN s : s[i] \in Frame
  BY LenProperties
<1> QED
  BY <1>1, FrameTypes DEF Nums

\* An empty sequence.
LEMMA NoFrame == <<>> \in Seq(Frame) /\ Sorted(<<>>) /\ Nums(<<>>) = {}
BY EmptySeq DEF Sorted, Nums

\* Without its first frame a sequence is sorted, and what is left is later.
LEMMA TailSorted ==
  ASSUME NEW s \in Seq(Frame), s # <<>>
  PROVE  /\ Head(s) \in Frame /\ Tail(s) \in Seq(Frame)
         /\ Nums(Tail(s)) \subseteq Nums(s)
         /\ Head(s).type = "data" => Head(s).n \in Nums(s)
         /\ Sorted(s) => Sorted(Tail(s))
         /\ Sorted(s) /\ Head(s).type = "data" => Less({Head(s).n}, Nums(Tail(s)))
<1>1. /\ Head(s) \in Frame /\ Tail(s) \in Seq(Frame) /\ Len(Tail(s)) = Len(s) - 1
      /\ \A i \in 1 .. Len(Tail(s)) : Tail(s)[i] = s[i + 1]
  BY HeadTailProperties
<1>2. /\ DOMAIN s = 1 .. Len(s) /\ Len(s) \in Nat \ {0} /\ Head(s) = s[1]
      /\ DOMAIN Tail(s) = 1 .. Len(s) - 1
  BY <1>1, LenProperties, EmptySeq
<1>3. \A i \in DOMAIN Tail(s) : i + 1 \in DOMAIN s /\ 1 < i + 1 /\ Tail(s)[i] = s[i + 1]
  BY <1>1, <1>2
<1>4. Nums(Tail(s)) \subseteq Nums(s)
  BY <1>3 DEF Nums
<1>5. Head(s).type = "data" => Head(s).n \in Nums(s)
  BY <1>2 DEF Nums
<1>6. Sorted(s) => Sorted(Tail(s))
  BY <1>2, <1>3 DEF Sorted
<1>7. Sorted(s) /\ Head(s).type = "data" => Less({Head(s).n}, Nums(Tail(s)))
  BY <1>2, <1>3 DEF Sorted, Less, Nums
<1> QED
  BY <1>1, <1>4, <1>5, <1>6, <1>7

\* Two sequences in a row.
LEMMA ConcatSorted ==
  ASSUME NEW s \in Seq(Frame), NEW t \in Seq(Frame)
  PROVE  /\ s \o t \in Seq(Frame) /\ Nums(s \o t) = Nums(s) \cup Nums(t)
         /\ Sorted(s) /\ Sorted(t) /\ Less(Nums(s), Nums(t)) => Sorted(s \o t)
<1>1. /\ s \o t \in Seq(Frame) /\ Len(s) \in Nat /\ Len(t) \in Nat
      /\ DOMAIN s = 1 .. Len(s) /\ DOMAIN t = 1 .. Len(t) /\ DOMAIN (s \o t) = 1 .. Len(s) + Len(t)
      /\ \A i \in 1 .. Len(s) + Len(t) : (s \o t)[i] = IF i <= Len(s) THEN s[i] ELSE t[i - Len(s)]
  BY ConcatProperties, LenProperties
<1>2. \A i \in DOMAIN s : i \in DOMAIN (s \o t) /\ (s \o t)[i] = s[i]
  BY <1>1
<1>3. \A i \in DOMAIN t : i + Len(s) \in DOMAIN (s \o t) /\ (s \o t)[i + Len(s)] = t[i]
  BY <1>1
<1>4. \A i \in DOMAIN (s \o t) :
        \/ i \in DOMAIN s /\ i <= Len(s) /\ (s \o t)[i] = s[i]
        \/ i - Len(s) \in DOMAIN t /\ i > Len(s) /\ (s \o t)[i] = t[i - Len(s)]
  BY <1>1
<1>5. Nums(s) \subseteq Nums(s \o t) /\ Nums(t) \subseteq Nums(s \o t)
  BY <1>2, <1>3, ZenonT(40) DEF Nums
<1>6. Nums(s \o t) \subseteq Nums(s) \cup Nums(t)
  BY <1>4 DEF Nums
<1>7. ASSUME Sorted(s), Sorted(t), Less(Nums(s), Nums(t))
      PROVE  Sorted(s \o t)
  <2> SUFFICES ASSUME NEW i \in DOMAIN (s \o t), NEW j \in DOMAIN (s \o t), i < j,
                      (s \o t)[i].type = "data", (s \o t)[j].type = "data"
               PROVE  (s \o t)[i].n < (s \o t)[j].n
    BY DEF Sorted
  <2>1. CASE j <= Len(s)
    BY <1>1, <1>4, <1>7, <2>1 DEF Sorted
  <2>2. CASE i <= Len(s) /\ j > Len(s)
    <3>1. (s \o t)[i].n \in Nums(s) /\ (s \o t)[j].n \in Nums(t)
      BY <1>1, <1>4, <2>2 DEF Nums
    <3> QED
      BY <1>7, <3>1 DEF Less
  <2>3. CASE i > Len(s)
    <3>1. i - Len(s) \in DOMAIN t /\ j - Len(s) \in DOMAIN t /\ i - Len(s) < j - Len(s)
      BY <1>1, <2>3
    <3>2. (s \o t)[i] = t[i - Len(s)] /\ (s \o t)[j] = t[j - Len(s)]
      BY <1>1, <2>3
    <3> QED
      BY <1>7, <3>1, <3>2 DEF Sorted
  <2> QED
    BY <1>1, <2>1, <2>2, <2>3
<1> QED
  BY <1>1, <1>5, <1>6, <1>7

\* The same of numbers.
LEMMA ConcatIncreasing ==
  ASSUME NEW s \in Seq(Nat), NEW t \in Seq(Nat), Channel!Increasing(s), Channel!Increasing(t),
         Less(Range(s), Range(t))
  PROVE  /\ s \o t \in Seq(Nat) /\ Channel!Increasing(s \o t)
         /\ Range(s \o t) = Range(s) \cup Range(t)
<1>1. /\ s \o t \in Seq(Nat) /\ Len(s) \in Nat /\ Len(t) \in Nat
      /\ DOMAIN s = 1 .. Len(s) /\ DOMAIN t = 1 .. Len(t) /\ DOMAIN (s \o t) = 1 .. Len(s) + Len(t)
      /\ \A i \in 1 .. Len(s) + Len(t) : (s \o t)[i] = IF i <= Len(s) THEN s[i] ELSE t[i - Len(s)]
  BY ConcatProperties, LenProperties
<1>a. \A i \in DOMAIN s : i \in DOMAIN (s \o t) /\ (s \o t)[i] = s[i]
  BY <1>1
<1>b. \A i \in DOMAIN t : i + Len(s) \in DOMAIN (s \o t) /\ (s \o t)[i + Len(s)] = t[i]
  BY <1>1
<1>c. \A i \in DOMAIN (s \o t) :
        \/ i \in DOMAIN s /\ i <= Len(s) /\ (s \o t)[i] = s[i]
        \/ i - Len(s) \in DOMAIN t /\ i > Len(s) /\ (s \o t)[i] = t[i - Len(s)]
  BY <1>1
<1>d. Range(s \o t) = Range(s) \cup Range(t)
  <2>1. Range(s) \subseteq Range(s \o t) /\ Range(t) \subseteq Range(s \o t)
    BY <1>a, <1>b, ZenonT(40) DEF Range
  <2>2. Range(s \o t) \subseteq Range(s) \cup Range(t)
    BY <1>c DEF Range
  <2> QED
    BY <2>1, <2>2
<1> SUFFICES ASSUME NEW i \in DOMAIN (s \o t), NEW j \in DOMAIN (s \o t), i < j
             PROVE  (s \o t)[i] < (s \o t)[j]
  BY <1>1, <1>d DEF Channel!Increasing
<1>2. CASE j <= Len(s)
  BY <1>1, <1>2 DEF Channel!Increasing
<1>3. CASE i <= Len(s) /\ j > Len(s)
  <2>1. i \in DOMAIN s /\ j - Len(s) \in DOMAIN t /\ (s \o t)[i] = s[i] /\ (s \o t)[j] = t[j - Len(s)]
    BY <1>1, <1>3
  <2>2. (s \o t)[i] \in Range(s) /\ (s \o t)[j] \in Range(t)
    BY <2>1 DEF Range
  <2> QED
    BY <2>2 DEF Less
<1>4. CASE i > Len(s)
  <2>1. i - Len(s) \in DOMAIN t /\ j - Len(s) \in DOMAIN t /\ i - Len(s) < j - Len(s)
    BY <1>1, <1>4
  <2>2. (s \o t)[i] = t[i - Len(s)] /\ (s \o t)[j] = t[j - Len(s)]
    BY <1>1, <1>4
  <2> QED
    BY <2>1, <2>2 DEF Channel!Increasing
<1> QED
  BY <1>1, <1>2, <1>3, <1>4

\* A single number.
LEMMA OneNumber ==
  ASSUME NEW n \in Nat
  PROVE  <<n>> \in Seq(Nat) /\ Channel!Increasing(<<n>>) /\ Range(<<n>>) = {n}
<1>1. <<n>> \in Seq(Nat) /\ DOMAIN <<n>> = {1} /\ <<n>>[1] = n
  OBVIOUS
<1> QED
  BY <1>1 DEF Channel!Increasing, Range

\* The numbers of data frames that are sorted.
LEMMA NumbersIncreasing ==
  ASSUME NEW s \in Seq(Frame), \A i \in DOMAIN s : s[i].type = "data", Sorted(s)
  PROVE  Numbers(s) \in Seq(Nat) /\ Channel!Increasing(Numbers(s)) /\ Range(Numbers(s)) = Nums(s)
<1>1. Numbers(s) \in Seq(Nat)
  BY NumbersTypes
<1>2. DOMAIN Numbers(s) = DOMAIN s /\ \A i \in DOMAIN s : Numbers(s)[i] = s[i].n
  BY DEF Numbers
<1>3. Channel!Increasing(Numbers(s))
  BY <1>2 DEF Channel!Increasing, Sorted
<1>4. Range(Numbers(s)) = Nums(s)
  BY <1>2 DEF Range, Nums
<1> QED
  BY <1>1, <1>3, <1>4

-----------------------------------------------------------------------------
(* The line of packets to a game: those that it has got and those that wait *)
(* in the buffer, by their places among k that have come.                   *)

InLine(g, b, k) ==
  /\ Channel!Increasing(g) /\ Sorted(b) /\ Less(Range(g), Nums(b))
  /\ Range(g) \subseteq 1 .. k /\ Nums(b) \subseteq 1 .. k

\* A frame leaves the buffer, data or not.
LEMMA LineLoses ==
  ASSUME NEW g \in Seq(Nat), NEW b \in Seq(Frame), NEW k \in Nat, InLine(g, b, k), b # <<>>
  PROVE  InLine(g, Tail(b), k)
<1>1. Nums(Tail(b)) \subseteq Nums(b) /\ Sorted(Tail(b))
  BY TailSorted, ZenonT(40) DEF InLine
<1> QED
  BY <1>1 DEF InLine, Less

\* One more packet comes, and is dropped.
LEMMA LineDrops ==
  ASSUME NEW g \in Seq(Nat), NEW b \in Seq(Frame), NEW k \in Nat, InLine(g, b, k)
  PROVE  InLine(g, b, k + 1) /\ InLine(g, <<>>, k + 1)
<1>1. 1 .. k \subseteq 1 .. k + 1
  OBVIOUS
<1> QED
  BY <1>1, NoFrame DEF InLine, Less

\* A frame that is not data waits in the channel.
LEMMA LineEchoes ==
  ASSUME NEW g \in Seq(Nat), NEW b \in Seq(Frame), NEW k \in Nat, InLine(g, b, k),
         NEW f \in Frame, f.type # "data"
  PROVE  InLine(g, Append(b, f), k)
<1>1. <<f>> \in Seq(Frame) /\ Sorted(<<f>>) /\ Nums(<<f>>) = {}
  BY OneFrame, ZenonT(40)
<1>2. Less(Nums(b), Nums(<<f>>))
  BY <1>1 DEF Less
<1>3. Nums(b \o <<f>>) = Nums(b) \cup Nums(<<f>>) /\ Sorted(b \o <<f>>)
  BY <1>1, <1>2, ConcatSorted, ZenonT(40) DEF InLine
<1>4. Nums(b \o <<f>>) = Nums(b) /\ Append(b, f) = b \o <<f>>
  BY <1>1, <1>3, AppendIsConcat, ZenonT(40)
<1> QED
  BY <1>3, <1>4 DEF InLine

\* The next packet comes and waits.
LEMMA LineBuffers ==
  ASSUME NEW g \in Seq(Nat), NEW b \in Seq(Frame), NEW k \in Nat, InLine(g, b, k)
  PROVE  InLine(g, Append(b, Data(k + 1)), k + 1)
<1>1. Data(k + 1) \in Frame /\ Data(k + 1).type = "data" /\ Data(k + 1).n = k + 1
  BY FrameTypes
<1>2. <<Data(k + 1)>> \in Seq(Frame) /\ Sorted(<<Data(k + 1)>>) /\ Nums(<<Data(k + 1)>>) = {k + 1}
  BY <1>1, OneFrame, ZenonT(40)
<1>3. \A x \in Range(g) \cup Nums(b) : x \in 1 .. k
  BY DEF InLine
<1>4. Less(Nums(b), {k + 1}) /\ Less(Range(g), {k + 1})
  BY <1>3 DEF Less
<1>5. Nums(b \o <<Data(k + 1)>>) = Nums(b) \cup {k + 1} /\ Sorted(b \o <<Data(k + 1)>>)
  BY <1>2, <1>4, ConcatSorted, ZenonT(40) DEF InLine
<1>6. Less(Range(g), Nums(b \o <<Data(k + 1)>>))
  BY <1>4, <1>5 DEF InLine, Less
<1>7. 1 .. k \subseteq 1 .. k + 1 /\ k + 1 \in 1 .. k + 1
  OBVIOUS
<1>8. Append(b, Data(k + 1)) = b \o <<Data(k + 1)>>
  BY <1>1, AppendIsConcat, ZenonT(40)
<1> QED
  BY <1>5, <1>6, <1>7, <1>8 DEF InLine

\* A game gets the first packet of its buffer.
LEMMA LineRelayGets ==
  ASSUME NEW g \in Seq(Nat), NEW b \in Seq(Frame), NEW k \in Nat,
         InLine(g, b, k), b # <<>>, Head(b).type = "data"
  PROVE  InLine(g \o <<Head(b).n>>, Tail(b), k)
<1> DEFINE n == Head(b).n
           t == Tail(b)
<1>1. /\ t \in Seq(Frame) /\ Nums(t) \subseteq Nums(b) /\ Sorted(t)
      /\ n \in Nums(b) /\ Less({n}, Nums(t)) /\ n \in Nat
  BY TailSorted, FrameTypes, ZenonT(40) DEF InLine
<1> HIDE DEF n, t
<1>2. <<n>> \in Seq(Nat) /\ Channel!Increasing(<<n>>) /\ Range(<<n>>) = {n}
  BY <1>1, OneNumber
<1>3. Less(Range(g), Range(<<n>>))
  BY <1>1, <1>2 DEF InLine, Less
<1>4. Channel!Increasing(g \o <<n>>) /\ Range(g \o <<n>>) = Range(g) \cup Range(<<n>>)
  BY <1>2, <1>3, ConcatIncreasing, ZenonT(40) DEF InLine
<1>5. Range(g \o <<n>>) = Range(g) \cup {n}
  BY <1>2, <1>4
<1>6. /\ Less(Range(g \o <<n>>), Nums(t))
      /\ Range(g \o <<n>>) \subseteq 1 .. k /\ Nums(t) \subseteq 1 .. k
  BY <1>1, <1>5, ZenonT(40) DEF InLine, Less
<1>7. InLine(g \o <<n>>, t, k)
  BY <1>1, <1>4, <1>6, ZenonT(40) DEF InLine
<1> QED
  BY <1>7 DEF n, t

\* A game gets all of its buffer and the packet that has just come.
LEMMA LineIceGets ==
  ASSUME NEW g \in Seq(Nat), NEW b \in Seq(Frame), NEW k \in Nat, InLine(g, b, k),
         \A i \in DOMAIN b : b[i].type = "data"
  PROVE  InLine(g \o (Numbers(b) \o <<k + 1>>), <<>>, k + 1)
<1> DEFINE ns == Numbers(b) \o <<k + 1>>
<1>1. \A x \in Range(g) \cup Nums(b) : x \in 1 .. k
  BY DEF InLine
<1>2. <<k + 1>> \in Seq(Nat) /\ Channel!Increasing(<<k + 1>>) /\ Range(<<k + 1>>) = {k + 1}
  <2>1. k + 1 \in Nat
    OBVIOUS
  <2> QED
    BY <2>1, OneNumber, ZenonT(40)
<1>3. Numbers(b) \in Seq(Nat) /\ Channel!Increasing(Numbers(b)) /\ Range(Numbers(b)) = Nums(b)
  BY NumbersIncreasing DEF InLine
<1>4. Less(Range(Numbers(b)), {k + 1}) /\ Less(Range(g), {k + 1})
  BY <1>1, <1>3 DEF Less
<1>5. ns \in Seq(Nat) /\ Channel!Increasing(ns) /\ Range(ns) = Nums(b) \cup {k + 1}
  <2>1. Less(Range(Numbers(b)), Range(<<k + 1>>))
    BY <1>2, <1>4, ZenonT(40)
  <2> QED
    BY <1>2, <1>3, <2>1, ConcatIncreasing, ZenonT(40)
<1> HIDE DEF ns
<1>6. Less(Range(g), Range(ns))
  BY <1>4, <1>5, ZenonT(40) DEF InLine, Less
<1>7. Channel!Increasing(g \o ns) /\ Range(g \o ns) = Range(g) \cup Range(ns)
  BY <1>5, <1>6, ConcatIncreasing, ZenonT(40) DEF InLine
<1>8. 1 .. k \subseteq 1 .. k + 1 /\ k + 1 \in 1 .. k + 1
  OBVIOUS
<1>9. Range(g \o ns) \subseteq 1 .. k + 1
  BY <1>1, <1>5, <1>7, <1>8
<1>10. InLine(g \o ns, <<>>, k + 1)
  BY <1>7, <1>9, NoFrame DEF InLine, Less
<1> QED
  BY <1>10 DEF ns

-----------------------------------------------------------------------------
(* The lines to both games are kept. *)

Line(e) == InLine(got[e], buf[e], Len(arrived[e]))

LineInv == \A e \in Ends : Line(e)

\* What the lemmas about a line ask for.
LEMMA LineTypes ==
  ASSUME TypeInv, NEW e \in Ends
  PROVE  got[e] \in Seq(Nat) /\ buf[e] \in Seq(Frame) /\ Len(arrived[e]) \in Nat
BY LenProperties DEF TypeInv, TypeOK

\* What happens at one end does not concern the other.
LEMMA OneLine ==
  ASSUME LineInv, NEW e \in Ends, Line(e)',
         \A d \in Ends \ {e} : /\ got'[d] = got[d] /\ buf'[d] = buf[d]
                               /\ arrived'[d] = arrived[d]
  PROVE  LineInv'
BY ZenonT(40) DEF LineInv, Line

\* The channel of a relay peer takes a frame, or drops it when it is full.
LEMMA DeliverLine ==
  ASSUME TypeInv, LineInv, NEW e \in Ends, NEW f, DeliverFromRelay(e, f)
  PROVE  LineInv'
<1>0. TypeOK /\ buf \in [Ends -> Seq(Frame)] /\ arrived \in [Ends -> Seq(Nat)]
  BY DEF TypeInv, TypeOK
<1>1. Line(e) /\ got' = got /\ f \in Frame
  BY <1>0, TakeTypes, ZenonT(40) DEF LineInv, DeliverFromRelay
<1>2. CASE f.type = "data" /\ Arrive(e, f) /\ Keep(e, Data(Place(e)))
  <2>1. /\ Len(arrived'[e]) = Len(arrived[e]) + 1 /\ Place(e) = Len(arrived[e]) + 1
        /\ \A d \in Ends \ {e} : arrived'[d] = arrived[d]
    BY <1>0, <1>1, <1>2, ArriveTypes, PlaceTypes
  <2>2. \A d \in Ends \ {e} : buf'[d] = buf[d]
    BY <1>0, <1>2 DEF Keep
  <2>3. buf'[e] = buf[e] \/ buf'[e] = Append(buf[e], Data(Len(arrived[e]) + 1))
    BY <1>0, <1>2, <2>1 DEF Keep
  <2>4. Line(e)'
    BY <1>1, <2>1, <2>3, LineTypes, LineDrops, LineBuffers DEF Line
  <2> QED
    BY <1>1, <2>1, <2>2, <2>4, OneLine
<1>3. CASE f.type # "data" /\ UNCHANGED arrived /\ Keep(e, f)
  <2>1. \A d \in Ends \ {e} : buf'[d] = buf[d]
    BY <1>0, <1>3 DEF Keep
  <2>2. buf'[e] = buf[e] \/ buf'[e] = Append(buf[e], f)
    BY <1>0, <1>3 DEF Keep
  <2>3. Line(e)'
    BY <1>1, <1>3, <2>2, LineTypes, LineEchoes DEF Line
  <2> QED
    BY <1>1, <1>3, <2>1, <2>3, OneLine
<1> QED
  BY <1>2, <1>3 DEF DeliverFromRelay

\* The goroutine of a relay peer takes a frame from the channel.
LEMMA RelayToGameLine ==
  ASSUME TypeInv, LineInv, NEW e \in Ends, relayToGame(e)
  PROVE  LineInv'
<1>0. buf \in [Ends -> Seq(Frame)] /\ got \in [Ends -> Seq(Nat)]
  BY DEF TypeInv, TypeOK
<1>1. Line(e) /\ arrived' = arrived /\ buf[e] # <<>> /\ buf' = [buf EXCEPT ![e] = Tail(@)]
  BY DEF relayToGame, LineInv
<1>2. buf'[e] = Tail(buf[e]) /\ \A d \in Ends \ {e} : buf'[d] = buf[d]
  BY <1>0, <1>1
<1>3. CASE got' = got
  <2>1. Line(e)'
    BY <1>1, <1>2, <1>3, LineTypes, LineLoses DEF Line
  <2> QED
    BY <1>1, <1>2, <1>3, <2>1, OneLine
<1>4. CASE Head(buf[e]).type = "data" /\ got' = [got EXCEPT ![e] = @ \o <<Head(buf[e]).n>>]
  <2>1. got'[e] = got[e] \o <<Head(buf[e]).n>> /\ \A d \in Ends \ {e} : got'[d] = got[d]
    BY <1>0, <1>4, ZenonT(40)
  <2>2. Line(e)'
    BY <1>1, <1>2, <1>4, <2>1, LineTypes, LineRelayGets, ZenonT(40) DEF Line
  <2> QED
    BY <1>1, <1>2, <2>1, <2>2, OneLine
<1> QED
  BY <1>3, <1>4 DEF relayToGame, Delivered

\* The goroutine of an ICE peer keeps data, or writes them to the game.
LEMMA IceToGameLine ==
  ASSUME TypeInv, LineInv, NEW e \in Ends, NEW f, iceToGame(e, f)
  PROVE  LineInv'
<1>0. TypeOK /\ buf \in [Ends -> Seq(Frame)] /\ got \in [Ends -> Seq(Nat)]
  BY DEF TypeInv, TypeOK
<1>1. Line(e) /\ f \in Frame /\ f.type = "data" /\ Arrive(e, f)
  BY <1>0, TakeTypes, ZenonT(40) DEF LineInv, iceToGame
<1>2. /\ Len(arrived'[e]) = Len(arrived[e]) + 1 /\ Place(e) = Len(arrived[e]) + 1
      /\ \A d \in Ends \ {e} : arrived'[d] = arrived[d]
  BY <1>0, <1>1, ArriveTypes, PlaceTypes
<1>3. \A i \in DOMAIN buf[e] : buf[e][i].type = "data"
  BY DEF iceToGame, TypeInv, OnlyDataWaits
<1>4. CASE got' = got /\ Keep(e, Data(Place(e)))
  <2>1. \A d \in Ends \ {e} : buf'[d] = buf[d]
    BY <1>0, <1>4 DEF Keep
  <2>2. buf'[e] = buf[e] \/ buf'[e] = Append(buf[e], Data(Len(arrived[e]) + 1))
    BY <1>0, <1>2, <1>4 DEF Keep
  <2>3. Line(e)'
    BY <1>1, <1>2, <1>4, <2>2, LineTypes, LineDrops, LineBuffers DEF Line
  <2> QED
    BY <1>2, <1>4, <2>1, <2>3, OneLine
<1>5. CASE got' = Delivered(e, Numbers(buf[e]) \o <<Place(e)>>) /\ buf' = [buf EXCEPT ![e] = <<>>]
  <2>1. buf'[e] = <<>> /\ \A d \in Ends \ {e} : buf'[d] = buf[d]
    BY <1>0, <1>5
  <2>2. /\ \A d \in Ends \ {e} : got'[d] = got[d]
        /\ got'[e] = got[e] \/ got'[e] = got[e] \o (Numbers(buf[e]) \o <<Len(arrived[e]) + 1>>)
    BY <1>0, <1>2, <1>5, ZenonT(40) DEF Delivered
  <2>3. /\ InLine(got[e] \o (Numbers(buf[e]) \o <<Len(arrived[e]) + 1>>), <<>>, Len(arrived[e]) + 1)
        /\ InLine(got[e], <<>>, Len(arrived[e]) + 1)
    BY <1>1, <1>3, LineTypes, LineIceGets, LineDrops, ZenonT(40) DEF Line
  <2>4. Line(e)'
    BY <1>2, <2>1, <2>2, <2>3, ZenonT(40) DEF Line
  <2> QED
    BY <1>2, <2>1, <2>2, <2>4, OneLine
<1> QED
  BY <1>4, <1>5 DEF iceToGame

\* The order along the lines is inductive.
LEMMA LineInvHolds == Spec => []LineInv
<1>1. Init => LineInv
  <2> SUFFICES ASSUME Init, NEW e \in Ends PROVE Line(e)
    BY DEF LineInv
  <2>1. got[e] = <<>> /\ buf[e] = <<>> /\ arrived[e] = <<>>
    BY DEF Init, All
  <2>2. Channel!Increasing(<<>>) /\ Range(<<>>) = {}
    BY DEF Channel!Increasing, Range
  <2> QED
    BY <2>1, <2>2, NoFrame DEF Line, InLine, Less
<1>2. TypeInv /\ LineInv /\ [Next]_vars => LineInv'
  <2> SUFFICES ASSUME TypeInv, LineInv, [Next]_vars PROVE LineInv'
    OBVIOUS
  <2>1. CASE UNCHANGED <<got, buf, arrived>>
    BY <2>1 DEF LineInv, Line
  <2>2. CASE UNCHANGED vars
    BY <2>1, <2>2 DEF vars, gameVars, dataVars
  <2>3. ASSUME NEW e \in Ends, \/ GameSends(e) \/ GameRebinds(e) \/ ReadGame(e) \/ SendGame(e)
                               \/ GetsReady(e) \/ SendEcho(e) \/ Lose(e)
        PROVE  LineInv'
    BY <2>1, <2>3 DEF GameSends, GameRebinds, ReadGame, SendGame, GetsReady, SendEcho, Lose, dataVars
  <2>4. ASSUME NEW e \in Ends, NEW f, HandleFrame(e, f)
        PROVE  LineInv'
    <3>1. CASE DeliverFromRelay(e, f) \/ iceToGame(e, f)
      BY <3>1, DeliverLine, IceToGameLine
    <3>2. CASE ~(DeliverFromRelay(e, f) \/ iceToGame(e, f))
      BY <2>1, <2>4, <3>2, ZenonT(40) DEF HandleFrame, EchoOutOfRange, EchoMirrored,
                              AnswererMeasures, EchoReturned, AnswerEchoMirrored, NoData
    <3> QED
      BY <3>1, <3>2
  <2> QED
    BY <2>2, <2>3, <2>4, StepCases, RelayToGameLine
<1> QED
  BY <1>1, <1>2, TypeInvHolds, PTL DEF Spec

-----------------------------------------------------------------------------
(* What comes to an end was sent to it. *)

LinksInv == \A e \in Ends : \A f \in link[e] : f.type = "data" => f.n \in 1 .. number[Other(e)]

ArrivedInv ==
  \A e \in Ends : \A i \in DOMAIN arrived[e] : arrived[e][i] \in 1 .. number[Other(e)]

SentInv == LinksInv /\ ArrivedInv

\* A frame is taken, and what is sent in return is not data.
LEMMA TakeSent ==
  ASSUME TypeInv, LinksInv, NEW e \in Ends, NEW f, NEW fs \in SUBSET Frame, Take(e, f, fs),
         \A g \in fs : g.type # "data"
  PROVE  LinksInv'
<1>1. link'[e] \subseteq link[e] /\ link'[Other(e)] = link[Other(e)] \cup fs
  BY TakeTypes, ZenonT(40) DEF TypeInv
<1>2. number' = number /\ \A d \in Ends : d = e \/ d = Other(e)
  BY OtherEnd DEF Take, gameVars, Ends
<1>3. ASSUME NEW d \in Ends, NEW g \in link'[d], g.type = "data"
      PROVE  g \in link[d]
  BY <1>1, <1>2, <1>3, ZenonT(40)
<1>4. ASSUME NEW d \in Ends, NEW g \in link'[d], g.type = "data"
      PROVE  g.n \in 1 .. number[Other(d)]
  BY <1>3, <1>4, ZenonT(40) DEF LinksInv
<1> QED
  BY <1>2, <1>4, ZenonT(40) DEF LinksInv

\* Data come from the link.
LEMMA ArriveSent ==
  ASSUME TypeInv, LinksInv, ArrivedInv, NEW e \in Ends, NEW f, Take(e, f, {}),
         f.type = "data", Arrive(e, f)
  PROVE  /\ ArrivedInv' /\ f.n \in 1 .. number[Other(e)]
         /\ arrived' = [arrived EXCEPT ![e] = Append(@, f.n)]
<1>1. TypeOK /\ {} \in SUBSET Frame
  BY DEF TypeInv
<1>2. f \in Frame /\ f \in link[e]
  BY <1>1, TakeTypes, ZenonT(40)
<1>3. f.n \in 1 .. number[Other(e)] /\ number' = number /\ f.n \in Nat
  BY <1>2, FrameTypes DEF LinksInv, Take, gameVars
<1>4. arrived'[e] = Append(arrived[e], f.n) /\ \A d \in Ends \ {e} : arrived'[d] = arrived[d]
  BY <1>1, <1>2, ArriveTypes
<1>5. arrived[e] \in Seq(Nat)
  BY DEF TypeInv, TypeOK
<1>6. /\ DOMAIN arrived'[e] = 1 .. Len(arrived[e]) + 1 /\ DOMAIN arrived[e] = 1 .. Len(arrived[e])
      /\ Len(arrived[e]) \in Nat /\ arrived'[e][Len(arrived[e]) + 1] = f.n
      /\ \A i \in 1 .. Len(arrived[e]) : arrived'[e][i] = arrived[e][i]
  BY <1>3, <1>4, <1>5, AppendProperties, LenProperties
<1>7. ASSUME NEW i \in DOMAIN arrived'[e]
      PROVE  arrived'[e][i] \in 1 .. number[Other(e)]
  <2>1. i \in DOMAIN arrived[e] \/ i = Len(arrived[e]) + 1
    BY <1>6
  <2> QED
    BY <1>3, <1>6, <2>1, ZenonT(40) DEF ArrivedInv
<1>8. ArrivedInv'
  BY <1>3, <1>4, <1>7, ZenonT(40) DEF ArrivedInv
<1> QED
  BY <1>3, <1>8 DEF Arrive

\* gameToRelay and gameToICE send a packet: the next.
LEMMA SendSent ==
  ASSUME TypeInv, SentInv, NEW e \in Ends, SendGame(e)
  PROVE  SentInv'
<1>1. /\ number \in [Ends -> Nat] /\ link \in [Ends -> SUBSET Frame] /\ number[e] \in Nat
      /\ Other(e) \in Ends /\ Other(Other(e)) = e /\ \A d \in Ends \ {Other(e)} : Other(d) # e
  BY OtherEnd DEF TypeInv, TypeOK, Ends
<1>2. /\ number'[e] = number[e] + 1 /\ \A d \in Ends \ {e} : number'[d] = number[d]
      /\ link' = Put(link, Other(e), {Data(number[e] + 1)}) /\ arrived' = arrived
  BY <1>1 DEF SendGame, dataVars
<1>3. \A d \in Ends : 1 .. number[d] \subseteq 1 .. number'[d]
  <2> SUFFICES ASSUME NEW d \in Ends PROVE 1 .. number[d] \subseteq 1 .. number'[d]
    OBVIOUS
  <2>1. CASE d = e
    BY <1>1, <1>2, <2>1
  <2>2. CASE d # e
    BY <1>2, <2>2
  <2> QED
    BY <2>1, <2>2
<1>4. \A d \in Ends : Other(d) \in Ends
  BY OtherEnd
<1>5. ArrivedInv'
  BY <1>2, <1>3, <1>4, ZenonT(40) DEF SentInv, ArrivedInv
<1>6. Data(number[e] + 1).n \in 1 .. number'[e]
  BY <1>1, <1>2, FrameTypes
<1>7. ASSUME NEW d \in Ends, NEW f \in link'[d]
      PROVE  f \in link[d] \/ (d = Other(e) /\ f = Data(number[e] + 1))
  BY <1>1, <1>2, <1>7 DEF Put
<1>8. ASSUME NEW d \in Ends, NEW f \in link'[d], f.type = "data"
      PROVE  f.n \in 1 .. number'[Other(d)]
  <2>1. CASE f \in link[d]
    BY <1>3, <1>4, <1>8, <2>1, ZenonT(40) DEF SentInv, LinksInv
  <2>2. CASE d = Other(e) /\ f = Data(number[e] + 1)
    BY <1>1, <1>6, <2>2, ZenonT(40)
  <2> QED
    BY <1>7, <2>1, <2>2
<1> QED
  BY <1>5, <1>8, ZenonT(40) DEF SentInv, LinksInv

\* Frames that are not data are put on the way to an end, or one is lost.
LEMMA OtherSent ==
  ASSUME TypeInv, SentInv, NEW e \in Ends, number' = number, arrived' = arrived,
         \/ \E t \in {"ping", "pong", "e", "f"} : link' = Put(link, e, {Echo(t)})
         \/ \E f : link' = [link EXCEPT ![e] = @ \ {f}]
         \/ link' = link
  PROVE  SentInv'
<1>1. link \in [Ends -> SUBSET Frame] /\ \A t \in {"ping", "pong", "e", "f"} : Echo(t).type # "data"
  BY FrameTypes DEF TypeInv, TypeOK
<1>2. ASSUME NEW d \in Ends, NEW f \in link'[d], f.type = "data"
      PROVE  f \in link[d]
  BY <1>1, <1>2 DEF Put
<1>3. ASSUME NEW d \in Ends, NEW f \in link'[d], f.type = "data"
      PROVE  f.n \in 1 .. number[Other(d)]
  BY <1>2, <1>3, ZenonT(40) DEF SentInv, LinksInv
<1> QED
  BY <1>3, ZenonT(40) DEF SentInv, LinksInv, ArrivedInv

\* A frame is handled.
LEMMA HandleSent ==
  ASSUME TypeInv, SentInv, NEW e \in Ends, NEW f, HandleFrame(e, f)
  PROVE  SentInv'
<1>0. {} \in SUBSET Frame /\ LinksInv /\ ArrivedInv /\ Offerer \in Ends /\ Answerer \in Ends
  BY DEF SentInv, Ends
<1>1. CASE f.type = "data" /\ Take(e, f, {}) /\ Arrive(e, f)
  BY <1>0, <1>1, TakeSent, ArriveSent, ZenonT(40) DEF SentInv
<1>2. ASSUME NEW d \in Ends, NEW fs \in SUBSET Frame, Take(d, f, fs), arrived' = arrived,
             \A g \in fs : g.type # "data"
      PROVE  SentInv'
  <2>1. LinksInv' /\ number' = number
    BY <1>0, <1>2, TakeSent, ZenonT(40) DEF Take, gameVars
  <2> QED
    BY <1>2, <2>1 DEF SentInv, ArrivedInv
<1>3. CASE DeliverFromRelay(e, f) \/ iceToGame(e, f)
  BY <1>0, <1>1, <1>2, <1>3, ZenonT(40) DEF DeliverFromRelay, iceToGame
<1>4. CASE EchoOutOfRange(e, f) \/ AnswererMeasures(f)
  BY <1>0, <1>2, <1>4, ZenonT(40) DEF EchoOutOfRange, AnswererMeasures, NoData
<1>5. ASSUME NEW d \in Ends, Take(d, f, {f}), NoData, f.type \in {"e", "f"}
      PROVE  SentInv'
  <2>1. {f} \in SUBSET Frame /\ f.type # "data"
    BY <1>5 DEF Take, TypeInv, TypeOK
  <2> QED
    BY <1>2, <1>5, <2>1 DEF NoData
<1>6. CASE EchoMirrored(f) \/ AnswerEchoMirrored(f)
  BY <1>0, <1>5, <1>6, ZenonT(40) DEF EchoMirrored, AnswerEchoMirrored
<1>7. CASE EchoReturned(f)
  <2>1. PICK ms \in Millis : Take(Offerer, f, {[type |-> "report", ms |-> ms]})
    BY <1>7 DEF EchoReturned
  <2>2. /\ {[type |-> "report", ms |-> ms]} \in SUBSET Frame
        /\ \A g \in {[type |-> "report", ms |-> ms]} : g.type # "data"
    BY FrameTypes
  <2>3. arrived' = arrived
    BY <1>7 DEF EchoReturned, NoData
  <2> QED
    BY <1>0, <1>2, <2>1, <2>2, <2>3
<1> QED
  BY <1>3, <1>4, <1>6, <1>7 DEF HandleFrame

\* That what comes was sent is inductive.
LEMMA SentInvHolds == Spec => []SentInv
<1>1. Init => SentInv
  BY DEF Init, All, SentInv, LinksInv, ArrivedInv
<1>2. TypeInv /\ SentInv /\ [Next]_vars => SentInv'
  <2> SUFFICES ASSUME TypeInv, SentInv, [Next]_vars PROVE SentInv'
    OBVIOUS
  <2>1. CASE UNCHANGED <<link, number, arrived>>
    BY <2>1 DEF SentInv, LinksInv, ArrivedInv
  <2>2. CASE UNCHANGED vars
    BY <2>1, <2>2 DEF vars, gameVars, dataVars
  <2>3. ASSUME NEW e \in Ends, GameSends(e) \/ GameRebinds(e) \/ ReadGame(e) \/ GetsReady(e)
        PROVE  SentInv'
    BY <2>1, <2>3 DEF GameSends, GameRebinds, ReadGame, GetsReady, dataVars, gameVars
  <2>4. ASSUME NEW e \in Ends, SendEcho(e) PROVE SentInv'
    BY <2>4, OtherSent, OtherEnd DEF SendEcho, gameVars, dataVars
  <2>5. ASSUME NEW e \in Ends, Lose(e) PROVE SentInv'
    BY <2>5, OtherSent DEF Lose, gameVars, dataVars
  <2>6. ASSUME NEW e \in Ends, relayToGame(e) PROVE SentInv'
    <3>1. /\ number' = number /\ arrived' = arrived
          /\ link' = link \/ link' = Put(link, Other(e), {Echo("pong")})
      BY <2>6 DEF relayToGame, gameVars
    <3> QED
      BY <3>1, OtherSent, OtherEnd
  <2> QED
    BY <2>2, <2>3, <2>4, <2>5, <2>6, StepCases, SendSent, HandleSent
<1> QED
  BY <1>1, <1>2, TypeInvHolds, PTL DEF Spec

-----------------------------------------------------------------------------
(* The channel between the games. *)

\* How many packets have been sent to an end.
SentTo == [e \in Ends |-> number[Other(e)]]

chanVars == <<SentTo, arrived, got>>

\* A frame comes, or data are written to a game, or both.
LEMMA ReceiveStep ==
  ASSUME TypeInv, LineInv', NEW e \in Ends, number' = number,
         \/ arrived' = arrived
         \/ \E n \in 1 .. number[Other(e)] : arrived' = [arrived EXCEPT ![e] = Append(@, n)],
         NEW ns \in Seq(Nat), got' = got \/ got' = Delivered(e, ns)
  PROVE  [Channel!Next]_chanVars
<1>1. UNCHANGED SentTo /\ SentTo[e] = number[Other(e)]
  BY DEF SentTo
<1>2. got \in [Ends -> Seq(Nat)] /\ got[e] \in Seq(Nat)
  BY DEF TypeInv, TypeOK
<1>3. Len(got[e]) \in Nat /\ Len(ns) \in Nat /\ DOMAIN got[e] = 1 .. Len(got[e])
  BY <1>2, LenProperties
<1>4. got' = [got EXCEPT ![e] = got'[e]] /\ (got'[e] = got[e] \/ got'[e] = got[e] \o ns)
  BY <1>2 DEF Delivered
<1>5. Channel!Extends(got[e], got'[e])
  <2>1. CASE got'[e] = got[e]
    BY <1>3, <2>1 DEF Channel!Extends
  <2>2. CASE got'[e] = got[e] \o ns
    <3>1. /\ Len(got'[e]) = Len(got[e]) + Len(ns)
          /\ \A i \in 1 .. Len(got[e]) + Len(ns) :
               got'[e][i] = IF i <= Len(got[e]) THEN got[e][i] ELSE ns[i - Len(got[e])]
      BY <1>2, <2>2, ConcatProperties
    <3>2. ASSUME NEW i \in DOMAIN got[e] PROVE got'[e][i] = got[e][i]
      <4>1. i \in 1 .. Len(got[e]) + Len(ns) /\ i <= Len(got[e])
        BY <1>3
      <4> QED
        BY <3>1, <4>1
    <3>3. Len(got[e]) <= Len(got'[e])
      BY <1>3, <3>1
    <3> QED
      BY <3>2, <3>3 DEF Channel!Extends
  <2> QED
    BY <1>4, <2>1, <2>2
<1>6. /\ Channel!Increasing(got'[e])
      /\ \A i \in DOMAIN got'[e] : got'[e][i] \in 1 .. Len(arrived'[e])
  BY DEF LineInv, Line, InLine, Range
<1>7. \/ UNCHANGED arrived
      \/ \E n \in 1 .. SentTo[e] : arrived' = [arrived EXCEPT ![e] = Append(@, n)]
  BY <1>1
<1>8. Channel!Receive(e)
  BY <1>1, <1>4, <1>5, <1>6, <1>7, ZenonT(40) DEF Channel!Receive, SentTo
<1> QED
  BY <1>8 DEF Channel!Next

\* Sending a packet.
LEMMA SendStep ==
  ASSUME TypeInv, NEW e \in Ends, SendGame(e)
  PROVE  Channel!Next
<1>1. Other(e) \in Ends /\ Other(Other(e)) = e /\ \A d \in Ends \ {Other(e)} : Other(d) # e
  BY OtherEnd DEF Ends
<1>2. /\ number \in [Ends -> Nat] /\ number' = [number EXCEPT ![e] = number[e] + 1]
      /\ got' = got /\ arrived' = arrived
  BY DEF SendGame, dataVars, TypeInv, TypeOK
<1>3. SentTo' = [SentTo EXCEPT ![Other(e)] = SentTo[Other(e)] + 1]
  BY <1>1, <1>2, OtherEnd, ZenonT(40) DEF SentTo
<1>4. Channel!Send(Other(e))
  BY <1>2, <1>3 DEF Channel!Send, SentTo
<1> QED
  BY <1>1, <1>4 DEF Channel!Next

\* A step of the adapters is a step of the channel, or none.
LEMMA ChannelStep ==
  ASSUME TypeInv, SentInv, LineInv', [Next]_vars
  PROVE  [Channel!Next]_chanVars
<1>1. CASE UNCHANGED <<got, arrived, number>>
  BY <1>1 DEF chanVars, SentTo
<1>2. CASE UNCHANGED vars
  BY <1>1, <1>2 DEF vars, gameVars, dataVars
<1>3. ASSUME NEW e \in Ends, \/ GameSends(e) \/ GameRebinds(e) \/ ReadGame(e) \/ GetsReady(e)
                              \/ SendEcho(e) \/ Lose(e)
      PROVE  UNCHANGED <<got, arrived, number>>
  BY <1>3 DEF GameSends, GameRebinds, ReadGame, GetsReady, SendEcho, Lose, dataVars, gameVars
<1>4. ASSUME NEW e \in Ends, relayToGame(e)
      PROVE  [Channel!Next]_chanVars
  <2>1. number' = number /\ arrived' = arrived /\ buf[e] # <<>> /\ Head(buf[e]) \in Frame
    BY <1>4, HeadTailProperties DEF relayToGame, gameVars, TypeInv, TypeOK
  <2>2. CASE got' = got
    BY <1>1, <2>1, <2>2
  <2>3. CASE Head(buf[e]).type = "data" /\ got' = Delivered(e, <<Head(buf[e]).n>>)
    <3>1. <<Head(buf[e]).n>> \in Seq(Nat)
      <4>1. Head(buf[e]).n \in Nat
        BY <2>1, <2>3, FrameTypes, ZenonT(40)
      <4> QED
        BY <4>1, OneNumber, ZenonT(40)
    <3> QED
      BY <2>1, <2>3, <3>1, ReceiveStep, ZenonT(40)
  <2> QED
    BY <1>4, <2>2, <2>3 DEF relayToGame
<1>5. ASSUME NEW e \in Ends, NEW f, f.type = "data", Take(e, f, {}), Arrive(e, f),
             NEW ns \in Seq(Nat), got' = got \/ got' = Delivered(e, ns)
      PROVE  [Channel!Next]_chanVars
  <2>1. f.n \in 1 .. number[Other(e)] /\ arrived' = [arrived EXCEPT ![e] = Append(@, f.n)]
    BY <1>5, ArriveSent, ZenonT(40) DEF SentInv
  <2>2. number' = number
    BY <1>5 DEF Take, gameVars
  <2> QED
    BY <1>5, <2>1, <2>2, ReceiveStep, ZenonT(40)
<1>6. ASSUME NEW e \in Ends, NEW f, iceToGame(e, f)
      PROVE  [Channel!Next]_chanVars
  <2>1. Numbers(buf[e]) \in Seq(Nat)
    BY <1>6, NumbersTypes DEF iceToGame, TypeInv, TypeOK, OnlyDataWaits
  <2>2. Place(e) \in Nat /\ <<Place(e)>> \in Seq(Nat)
    BY PlaceTypes DEF TypeInv
  <2>3. Numbers(buf[e]) \o <<Place(e)>> \in Seq(Nat)
    BY <2>1, <2>2, ConcatProperties
  <2>4. got' = got \/ got' = Delivered(e, Numbers(buf[e]) \o <<Place(e)>>)
    BY <1>6 DEF iceToGame
  <2> QED
    BY <1>5, <1>6, <2>3, <2>4, ZenonT(40) DEF iceToGame
<1>7. ASSUME NEW e \in Ends, NEW f, DeliverFromRelay(e, f)
      PROVE  [Channel!Next]_chanVars
  <2>1. got' = got /\ number' = number /\ <<>> \in Seq(Nat)
    BY <1>7, EmptySeq DEF DeliverFromRelay, Take, gameVars
  <2> QED
    BY <1>1, <1>5, <1>7, <2>1, ZenonT(40) DEF DeliverFromRelay
<1>8. ASSUME NEW e \in Ends, NEW f, HandleFrame(e, f)
      PROVE  [Channel!Next]_chanVars
  <2>1. CASE iceToGame(e, f) \/ DeliverFromRelay(e, f)
    BY <1>6, <1>7, <2>1
  <2>2. CASE ~(iceToGame(e, f) \/ DeliverFromRelay(e, f))
    <3>1. UNCHANGED <<got, arrived, number>>
      BY <1>8, <2>2, ZenonT(40) DEF HandleFrame, EchoOutOfRange, EchoMirrored, AnswererMeasures,
                        EchoReturned, AnswerEchoMirrored, Take, NoData, gameVars
    <3> QED
      BY <1>1, <3>1
  <2> QED
    BY <2>1, <2>2
<1>9. ASSUME NEW e \in Ends, SendGame(e)
      PROVE  [Channel!Next]_chanVars
  BY <1>9, SendStep
<1> QED
  BY <1>1, <1>2, <1>3, <1>4, <1>8, <1>9, StepCases

\* Between the network and a game an adapter loses packets and does nothing worse:
\* by the relay or by ICE, with a channel or an early buffer of any capacity,
\* whatever the network loses, reorders or duplicates and wherever the game moves,
\* each packet that comes reaches the game at most once, and not before one that
\* came earlier.
THEOREM ChannelImplemented == Spec => ImplementsChannel
<1>1. Init => Channel!Init
  <2> SUFFICES ASSUME Init PROVE Channel!Init
    OBVIOUS
  <2>1. /\ got = [e \in Ends |-> <<>>] /\ arrived = [e \in Ends |-> <<>>]
        /\ \A e \in Ends : number[Other(e)] = 0
    BY OtherEnd DEF Init, All
  <2> QED
    BY <2>1 DEF Channel!Init
<1>2. TypeInv /\ SentInv /\ LineInv' /\ [Next]_vars => [Channel!Next]_chanVars
  BY ChannelStep
<1>3. TypeInv /\ SentInv /\ LineInv' /\ [Next]_vars
      => [Channel!Next]_<<[e \in Ends |-> number[Other(e)]], arrived, got>>
  BY <1>2 DEF chanVars, SentTo
<1> QED
  BY <1>1, <1>3, TypeInvHolds, SentInvHolds, LineInvHolds, PTL
     DEF Spec, ImplementsChannel, Channel!Spec

\* Whatever a game has got is a packet that came to its adapter from the other and
\* had been sent to it, each once for every time it came, and in the order of
\* coming.
THEOREM GamesGetWhatCame == Spec => []Channel!Faithful
<1>1. TypeInv /\ LineInv /\ SentInv => Channel!Faithful
  <2> SUFFICES ASSUME TypeInv, LineInv, SentInv, NEW e \in Ends
               PROVE  /\ Channel!Increasing(got[e])
                      /\ \A i \in DOMAIN got[e] :
                           /\ got[e][i] \in DOMAIN arrived[e]
                           /\ arrived[e][got[e][i]] \in 1 .. number[Other(e)]
    BY DEF Channel!Faithful
  <2>1. Channel!Increasing(got[e]) /\ \A i \in DOMAIN got[e] : got[e][i] \in 1 .. Len(arrived[e])
    BY DEF LineInv, Line, InLine, Range
  <2>2. DOMAIN arrived[e] = 1 .. Len(arrived[e])
    BY LenProperties DEF TypeInv, TypeOK
  <2> QED
    BY <2>1, <2>2, ZenonT(40) DEF SentInv, ArrivedInv
<1> QED
  BY <1>1, TypeInvHolds, LineInvHolds, SentInvHolds, PTL

-----------------------------------------------------------------------------
(* The early buffer. *)

\* Until the game moves, its packets come from its first port, and so does the
\* address that is known of it.
PortsInv ==
  \A e \in Ends : port[e] = 1 => addr[e] \in {0, 1} /\ \A i \in DOMAIN sock[e] : sock[e][i] = 1

\* The ports are kept.
LEMMA PortsInvHolds == Spec => []PortsInv
<1>1. Init => PortsInv
  BY DEF Init, All, PortsInv
<1>2. TypeInv /\ PortsInv /\ [Next]_vars => PortsInv'
  <2> SUFFICES ASSUME TypeInv, PortsInv, [Next]_vars PROVE PortsInv'
    OBVIOUS
  <2>0. sock \in [Ends -> Seq(Ports)] /\ port \in [Ends -> Ports] /\ addr \in [Ends -> Ports \cup {0}]
    BY DEF TypeInv, TypeOK
  <2>1. CASE UNCHANGED <<port, sock, addr>>
    BY <2>1 DEF PortsInv
  <2>2. CASE UNCHANGED vars
    BY <2>1, <2>2 DEF vars, gameVars, dataVars
  <2>3. ASSUME NEW e \in Ends, GameSends(e) PROVE PortsInv'
    <3>1. sock'[e] = Append(sock[e], port[e]) /\ \A d \in Ends \ {e} : sock'[d] = sock[d]
      BY <2>0, <2>3 DEF GameSends
    <3>2. port' = port /\ addr' = addr
      BY <2>3 DEF GameSends, dataVars
    <3>3. \A i \in DOMAIN sock'[e] : sock'[e][i] = port[e] \/ (i \in DOMAIN sock[e] /\ sock'[e][i] = sock[e][i])
      BY <2>0, <3>1, AppendProperties, LenProperties
    <3> QED
      BY <3>1, <3>2, <3>3 DEF PortsInv
  <2>4. ASSUME NEW e \in Ends, GameRebinds(e) PROVE PortsInv'
    <3>1. port'[e] = 2 /\ (\A d \in Ends \ {e} : port'[d] = port[d]) /\ sock' = sock /\ addr' = addr
      BY <2>0, <2>4 DEF GameRebinds, dataVars
    <3> QED
      BY <3>1 DEF PortsInv
  <2>5. ASSUME NEW e \in Ends, ReadGame(e) PROVE PortsInv'
    <3>1. /\ sock[e] # <<>> /\ sock'[e] = Tail(sock[e]) /\ addr'[e] \in {addr[e], Head(sock[e])}
          /\ port' = port /\ \A d \in Ends \ {e} : sock'[d] = sock[d] /\ addr'[d] = addr[d]
      BY <2>0, <2>5 DEF ReadGame, GameAddr
    <3>2. /\ \A i \in DOMAIN Tail(sock[e]) : i + 1 \in DOMAIN sock[e] /\ Tail(sock[e])[i] = sock[e][i + 1]
          /\ 1 \in DOMAIN sock[e] /\ Head(sock[e]) = sock[e][1]
      BY <2>0, <3>1, HeadTailProperties, LenProperties, EmptySeq
    <3>3. port[e] = 1 => addr'[e] \in {0, 1} /\ \A i \in DOMAIN sock'[e] : sock'[e][i] = 1
      <4> SUFFICES ASSUME port[e] = 1
                   PROVE  addr'[e] \in {0, 1} /\ \A i \in DOMAIN Tail(sock[e]) : Tail(sock[e])[i] = 1
        BY <3>1
      <4>1. addr[e] \in {0, 1} /\ \A i \in DOMAIN sock[e] : sock[e][i] = 1
        BY DEF PortsInv
      <4>2. Head(sock[e]) = 1 /\ \A i \in DOMAIN Tail(sock[e]) : Tail(sock[e])[i] = 1
        BY <3>2, <4>1
      <4> QED
        BY <3>1, <4>1, <4>2
    <3> QED
      BY <3>1, <3>3, ZenonT(40) DEF PortsInv
  <2>6. ASSUME NEW e \in Ends, SendGame(e) \/ GetsReady(e) \/ SendEcho(e) \/ Lose(e) \/ relayToGame(e)
        PROVE  PortsInv'
    BY <2>1, <2>6 DEF SendGame, GetsReady, SendEcho, Lose, relayToGame, gameVars, dataVars
  <2>7. ASSUME NEW e \in Ends, NEW f, HandleFrame(e, f) PROVE PortsInv'
    <3>1. \E d, fs : Take(d, f, fs)
      BY <2>7, ZenonT(40) DEF HandleFrame, DeliverFromRelay, iceToGame, EchoOutOfRange, EchoMirrored,
                  AnswererMeasures, EchoReturned, AnswerEchoMirrored
    <3> QED
      BY <2>1, <3>1 DEF Take, gameVars
  <2> QED
    BY <2>2, <2>3, <2>4, <2>5, <2>6, <2>7, StepCases
<1> QED
  BY <1>1, <1>2, TypeInvHolds, PTL DEF Spec

\* A frame more in the buffer is a number more in its numbers.
LEMMA NumbersAppend ==
  ASSUME NEW s \in Seq(Frame), \A i \in DOMAIN s : s[i].type = "data",
         NEW f \in Frame, f.type = "data"
  PROVE  Numbers(Append(s, f)) = Numbers(s) \o <<f.n>>
<1> DEFINE t == Append(s, f)
           u == Numbers(s) \o <<f.n>>
<1>1. /\ t \in Seq(Frame) /\ Len(t) = Len(s) + 1 /\ t[Len(s) + 1] = f
      /\ \A i \in 1 .. Len(s) : t[i] = s[i]
  BY AppendProperties
<1>2. Len(s) \in Nat /\ DOMAIN s = 1 .. Len(s) /\ DOMAIN t = 1 .. Len(s) + 1
  BY <1>1, LenProperties
<1>3. /\ Numbers(s) \in Seq(Nat) /\ Len(Numbers(s)) = Len(s)
      /\ \A i \in 1 .. Len(s) : Numbers(s)[i] = s[i].n
  BY NumbersTypes
<1>4. f.n \in Nat /\ <<f.n>> \in Seq(Nat) /\ Len(<<f.n>>) = 1 /\ <<f.n>>[1] = f.n
  BY FrameTypes
<1>5. /\ u \in Seq(Nat) /\ Len(u) = Len(s) + 1
      /\ \A i \in 1 .. Len(s) + 1 : u[i] = IF i <= Len(s) THEN Numbers(s)[i] ELSE <<f.n>>[i - Len(s)]
  BY <1>3, <1>4, ConcatProperties
<1>6. \A i \in DOMAIN t : t[i].type = "data"
  BY <1>1, <1>2
<1>7. /\ Numbers(t) \in Seq(Nat) /\ Len(Numbers(t)) = Len(s) + 1
      /\ \A i \in 1 .. Len(s) + 1 : Numbers(t)[i] = t[i].n
  BY <1>1, <1>6, NumbersTypes, ZenonT(40)
<1> HIDE DEF t, u
<1>8. ASSUME NEW i \in 1 .. Len(s) + 1 PROVE Numbers(t)[i] = u[i]
  <2>1. CASE i <= Len(s)
    <3>1. i \in 1 .. Len(s)
      BY <1>2, <2>1
    <3> QED
      BY <1>1, <1>3, <1>5, <1>7, <2>1, <3>1, ZenonT(40)
  <2>2. CASE i > Len(s)
    <3>1. i = Len(s) + 1 /\ i - Len(s) = 1 /\ ~(i <= Len(s))
      BY <1>2, <2>2
    <3> QED
      BY <1>1, <1>4, <1>5, <1>7, <3>1
  <2> QED
    BY <1>2, <2>1, <2>2
<1>9. Numbers(t) = u
  BY <1>5, <1>7, <1>8, SeqEqual
<1> QED
  BY <1>9 DEF t, u

\* An empty buffer.
LEMMA NumbersNone == Numbers(<<>>) = <<>>
<1>1. DOMAIN <<>> = {} /\ <<>> \in Seq(Frame) /\ Len(<<>>) = 0
  BY EmptySeq
<1>2. \A i \in DOMAIN <<>> : <<>>[i].type = "data"
  BY <1>1
<1>3. Numbers(<<>>) \in Seq(Nat) /\ Len(Numbers(<<>>)) = 0
  BY <1>1, <1>2, NumbersTypes, ZenonT(40)
<1> QED
  <2>1. \A s \in Seq(Nat) : Len(s) = 0 => s = <<>>
    BY EmptySeq
  <2> QED
    BY <1>3, <2>1, Zenon

\* Three sequences in a row.
LEMMA ConcatNumbers ==
  ASSUME NEW a \in Seq(Nat), NEW b \in Seq(Nat), NEW c \in Seq(Nat)
  PROVE  (a \o b) \o c = a \o (b \o c)
BY ConcatAssociative, SMT

\* The places of the first n packets that come.
Upto(n) == [i \in 1 .. n |-> i]

LEMMA UptoNext ==
  ASSUME NEW n \in Nat
  PROVE  Upto(n) \in Seq(Nat) /\ Len(Upto(n)) = n /\ Upto(n + 1) = Upto(n) \o <<n + 1>>
<1>1. \A m \in Nat : Upto(m) \in Seq(Nat) /\ Len(Upto(m)) = m /\ \A i \in 1 .. m : Upto(m)[i] = i
  <2> SUFFICES ASSUME NEW m \in Nat
               PROVE  Upto(m) \in Seq(Nat) /\ Len(Upto(m)) = m /\ \A i \in 1 .. m : Upto(m)[i] = i
    OBVIOUS
  <2>1. Upto(m) \in [1 .. m -> Nat] /\ DOMAIN Upto(m) = 1 .. m /\ \A i \in 1 .. m : Upto(m)[i] = i
    BY DEF Upto
  <2> QED
    BY <2>1, SeqDef
<1> DEFINE u == Upto(n) \o <<n + 1>>
<1>2. <<n + 1>> \in Seq(Nat) /\ Len(<<n + 1>>) = 1 /\ <<n + 1>>[1] = n + 1
  OBVIOUS
<1>3. /\ u \in Seq(Nat) /\ Len(u) = n + 1
      /\ \A i \in 1 .. n + 1 : u[i] = IF i <= n THEN Upto(n)[i] ELSE <<n + 1>>[i - n]
  <2> HIDE DEF u
  <2>1. Upto(n) \in Seq(Nat) /\ Len(Upto(n)) = n
    BY <1>1
  <2>2. \A s, t \in Seq(Nat) :
          /\ s \o t \in Seq(Nat) /\ Len(s \o t) = Len(s) + Len(t)
          /\ \A i \in 1 .. Len(s) + Len(t) :
               (s \o t)[i] = IF i <= Len(s) THEN s[i] ELSE t[i - Len(s)]
    BY ConcatProperties
  <2>3. /\ u \in Seq(Nat) /\ Len(u) = Len(Upto(n)) + Len(<<n + 1>>)
        /\ \A i \in 1 .. Len(Upto(n)) + Len(<<n + 1>>) :
             u[i] = IF i <= Len(Upto(n)) THEN Upto(n)[i] ELSE <<n + 1>>[i - Len(Upto(n))]
    BY <1>2, <2>1, <2>2, Zenon DEF u
  <2> QED
    BY <1>2, <2>1, <2>3, ZenonT(40)
<1> HIDE DEF u
<1>4. ASSUME NEW i \in 1 .. n + 1 PROVE u[i] = i
  <2>1. CASE i <= n
    <3>1. i \in 1 .. n
      BY <2>1
    <3> QED
      BY <1>1, <1>3, <2>1, <3>1, ZenonT(40)
  <2>2. CASE ~(i <= n)
    <3>1. i = n + 1 /\ i - n = 1
      BY <2>2
    <3> QED
      BY <1>2, <1>3, <2>2, <3>1, ZenonT(40)
  <2> QED
    BY <2>1, <2>2
<1>5. Upto(n + 1) = u
  BY <1>1, <1>3, <1>4, SeqEqual
<1> QED
  BY <1>1, <1>5 DEF u

\* What an end's game has got, and what waits for it.
GotAndWaiting(e) == got[e] \o Numbers(buf[e])

\* A packet comes to iceToGame while there is room for it.
LEMMA EarlyStep ==
  ASSUME TypeInv, PortsInv, EarlyKept, NEW e \in Ends, NEW f, iceToGame(e, f)
  PROVE  EarlyKept'
<1> DEFINE k == Len(arrived[e])
           p == Place(e)
<1>1. /\ got[e] \in Seq(Nat) /\ buf[e] \in Seq(Frame) /\ TypeOK
      /\ got \in [Ends -> Seq(Nat)] /\ buf \in [Ends -> Seq(Frame)]
      /\ \A i \in DOMAIN buf[e] : buf[e][i].type = "data"
  BY DEF TypeInv, TypeOK, OnlyDataWaits, iceToGame
<1>2. kind = "ice" /\ kind' = kind /\ port' = port /\ f \in Frame /\ f.type = "data"
  <2>1. f.type = "data" /\ Take(e, f, {}) /\ kind = "ice"
    BY DEF iceToGame
  <2>2. kind' = kind /\ port' = port /\ {} \in SUBSET Frame
    BY <2>1 DEF Take, gameVars
  <2>3. f \in Frame
    BY <1>1, <2>1, <2>2, TakeTypes, ZenonT(40)
  <2> QED
    BY <2>1, <2>2, <2>3
<1>3. /\ p \in Nat /\ p = k + 1 /\ k \in Nat
      /\ Data(p) \in Frame /\ Data(p).type = "data" /\ Data(p).n = p
  BY <1>1, PlaceTypes
<1>4. Len(arrived'[e]) = k + 1 /\ \A d \in Ends \ {e} : arrived'[d] = arrived[d]
  BY <1>1, <1>2, ArriveTypes DEF iceToGame
<1>5. \A d \in Ends \ {e} : got'[d] = got[d] /\ buf'[d] = buf[d]
  BY <1>1 DEF iceToGame, Delivered, Keep
<1> HIDE DEF k, p
<1>6. Numbers(buf[e]) \in Seq(Nat) /\ Len(Numbers(buf[e])) = Len(buf[e]) /\ <<p>> \in Seq(Nat)
  <2>1. Numbers(buf[e]) \in Seq(Nat) /\ Len(Numbers(buf[e])) = Len(buf[e])
    BY <1>1, NumbersTypes, ZenonT(40)
  <2> QED
    BY <1>3, <2>1
<1>7. ASSUME Len(arrived'[e]) <= Cap, port[e] = 1
      PROVE  GotAndWaiting(e)' = Upto(k + 1)
  <2>1. Cap \in Nat /\ Len(got[e]) \in Nat /\ Len(buf[e]) \in Nat
    BY <1>1, CapIsPositive, LenProperties
  <2>2. k < Cap /\ k <= Cap
    BY <1>3, <1>4, <1>7, <2>1
  <2>3. got[e] \o Numbers(buf[e]) = Upto(k)
    BY <1>2, <1>7, <2>2, ZenonT(40) DEF EarlyKept, Upto, k
  <2>4. Len(Upto(k)) = k /\ Upto(k + 1) = Upto(k) \o <<p>>
    BY <1>3, UptoNext
  <2>5. Len(buf[e]) < Cap
    <3>1. k = Len(got[e]) + Len(buf[e])
      <4>1. \A s, t \in Seq(Nat) : Len(s \o t) = Len(s) + Len(t)
        BY ConcatProperties
      <4> QED
        BY <1>1, <1>6, <2>3, <2>4, <4>1, Zenon
    <3>2. \A a, b, c, m \in Nat : a = b + c /\ a < m => c < m
      OBVIOUS
    <3> QED
      BY <1>3, <2>1, <2>2, <3>1, <3>2, Zenon
  <2>6. Upto(k + 1) = got[e] \o (Numbers(buf[e]) \o <<p>>)
    <3>1. (got[e] \o Numbers(buf[e])) \o <<p>> = got[e] \o (Numbers(buf[e]) \o <<p>>)
      BY <1>1, <1>6, ConcatNumbers, ZenonT(40)
    <3> QED
      BY <2>3, <2>4, <3>1, ZenonT(40)
  <2>7. CASE addr[e] = 0
    <3>1. got' = got /\ buf'[e] = Append(buf[e], Data(p))
      BY <1>1, <2>5, <2>7 DEF iceToGame, Keep, p
    <3>2. Numbers(buf'[e]) = Numbers(buf[e]) \o <<p>>
      BY <1>1, <1>3, <3>1, NumbersAppend, ZenonT(40)
    <3> QED
      BY <2>6, <3>1, <3>2 DEF GotAndWaiting
  <2>8. CASE addr[e] # 0
    <3>1. addr[e] = port[e]
      BY <1>7, <2>8 DEF PortsInv
    <3>2. got'[e] = got[e] \o (Numbers(buf[e]) \o <<p>>) /\ buf'[e] = <<>>
      BY <1>1, <2>8, <3>1, ZenonT(40) DEF iceToGame, Delivered, p
    <3>3. Numbers(buf[e]) \o <<p>> \in Seq(Nat)
      BY <1>6, ConcatProperties
    <3>4. got[e] \o (Numbers(buf[e]) \o <<p>>) \in Seq(Nat)
      BY <1>1, <3>3, ConcatProperties
    <3> QED
      BY <2>6, <3>2, <3>4, NumbersNone, ConcatEmptySeq, ZenonT(40) DEF GotAndWaiting
  <2> QED
    BY <2>7, <2>8, ZenonT(40)
<1>8. ASSUME NEW d \in Ends, Len(arrived'[d]) <= Cap, port[d] = 1
      PROVE  got'[d] \o Numbers(buf'[d]) = Upto(Len(arrived'[d]))
  <2>1. CASE d = e
    BY <1>4, <1>7, <1>8, <2>1, ZenonT(40) DEF GotAndWaiting
  <2>2. CASE d # e
    BY <1>2, <1>4, <1>5, <1>8, <2>2, ZenonT(40) DEF EarlyKept, Upto
  <2> QED
    BY <2>1, <2>2
<1> QED
  BY <1>2, <1>8, ZenonT(40) DEF EarlyKept, Upto

\* Of the packets that come before the game has sent its first, iceToGame loses none
\* while there is room: up to earlyBufMax packets, what has come the game has got,
\* or it is in the buffer in order and goes out before the next.
THEOREM EarlyDataKept == Spec => []EarlyKept
<1>1. Init => EarlyKept
  <2> SUFFICES ASSUME Init, NEW e \in Ends
               PROVE  got[e] \o Numbers(buf[e]) = [i \in 1 .. Len(arrived[e]) |-> i]
    BY ZenonT(40) DEF EarlyKept
  <2>1. arrived[e] = <<>> /\ got[e] = <<>> /\ buf[e] = <<>>
    BY DEF Init, All
  <2>2. <<>> \in Seq(Nat) /\ <<>> \o <<>> = <<>>
    BY EmptySeq, ConcatEmptySeq
  <2>3. [i \in 1 .. Len(arrived[e]) |-> i] = <<>>
    <3>1. Upto(0) \in Seq(Nat) /\ Len(Upto(0)) = 0
      BY UptoNext
    <3>2. \A s \in Seq(Nat) : Len(s) = 0 => s = <<>>
      BY EmptySeq
    <3>3. Upto(0) = <<>> /\ Len(<<>>) = 0
      BY <3>1, <3>2, EmptySeq, ZenonT(40)
    <3> QED
      BY <2>1, <3>3, ZenonT(40) DEF Upto
  <2> QED
    BY <2>1, <2>2, <2>3, NumbersNone
<1>2. TypeInv /\ PortsInv /\ EarlyKept /\ [Next]_vars => EarlyKept'
  <2> SUFFICES ASSUME TypeInv, PortsInv, EarlyKept, [Next]_vars PROVE EarlyKept'
    OBVIOUS
  <2>1. CASE /\ UNCHANGED <<kind, arrived, got, buf>>
             /\ \A e \in Ends : port'[e] = 1 => port[e] = 1
    BY <2>1, ZenonT(40) DEF EarlyKept
  <2>2. CASE kind' = "relay"
    BY <2>2 DEF EarlyKept
  <2>3. CASE UNCHANGED vars
    BY <2>1, <2>3 DEF vars, gameVars, dataVars
  <2>4. ASSUME NEW e \in Ends, GameRebinds(e) PROVE EarlyKept'
    <3>1. UNCHANGED <<kind, arrived, got, buf>> /\ \A d \in Ends : port'[d] = 1 => port[d] = 1
      BY <2>4 DEF GameRebinds, dataVars, TypeInv, TypeOK
    <3> QED
      BY <2>1, <3>1
  <2>5. ASSUME NEW e \in Ends, \/ GameSends(e) \/ ReadGame(e) \/ SendGame(e) \/ GetsReady(e)
                               \/ SendEcho(e) \/ Lose(e)
        PROVE  EarlyKept'
    BY <2>1, <2>5 DEF GameSends, ReadGame, SendGame, GetsReady, SendEcho, Lose, dataVars, gameVars
  <2>6. ASSUME NEW e \in Ends, relayToGame(e) PROVE EarlyKept'
    BY <2>2, <2>6 DEF relayToGame
  <2>7. ASSUME NEW e \in Ends, NEW f, HandleFrame(e, f) PROVE EarlyKept'
    <3>1. CASE iceToGame(e, f)
      BY <3>1, EarlyStep
    <3>2. CASE DeliverFromRelay(e, f)
      BY <2>2, <3>2 DEF DeliverFromRelay, Take
    <3>3. CASE ~iceToGame(e, f) /\ ~DeliverFromRelay(e, f)
      BY <2>1, <2>7, <3>3, ZenonT(40) DEF HandleFrame, EchoOutOfRange, EchoMirrored, AnswererMeasures,
                              EchoReturned, AnswerEchoMirrored, Take, NoData, gameVars
    <3> QED
      BY <3>1, <3>2, <3>3
  <2> QED
    BY <2>3, <2>4, <2>5, <2>6, <2>7, StepCases
<1> QED
  BY <1>1, <1>2, TypeInvHolds, PortsInvHolds, PTL DEF Spec
=============================================================================
