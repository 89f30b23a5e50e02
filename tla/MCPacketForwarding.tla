------------------------ MODULE MCPacketForwarding ------------------------
(***************************************************************************)
(* PacketForwarding for TLC: either the games send data, two packets each  *)
(* way, or the adapters send echo frames.  Duplicates let more data come   *)
(* to the answerer than its buffer holds.                                  *)
(***************************************************************************)
EXTENDS PacketForwarding

MCBudgets ==
  {[data |-> [e \in Ends |-> 2], echo |-> 0],
   [data |-> [e \in Ends |-> 0], echo |-> 4]}

MCMaxArrivals == [e \in Ends |-> IF e = Answerer THEN 3 ELSE 1]
=============================================================================
