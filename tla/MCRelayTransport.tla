-------------------------- MODULE MCRelayTransport --------------------------
(***************************************************************************)
(* RelayTransport for TLC: one player, all connections its own.            *)
(***************************************************************************)
EXTENDS RelayTransport, TLC

OnePlayer == [c \in Conns |-> CHOOSE p \in Players : TRUE]

(* No definition tells two connections or two hosts apart. *)
Interchangeable == Permutations(Conns) \cup Permutations(Hosts)
=============================================================================
