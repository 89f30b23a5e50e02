---------------------------- MODULE MCRelayLobby ----------------------------
(***************************************************************************)
(* RelayLobby for TLC: an adapter that may fall back to TCP, behind a      *)
(* firewall that lets no UDP through, and one that is told to use the      *)
(* official way and reaches the relay only later.                          *)
(***************************************************************************)
EXTENDS RelayLobby

MCConfigs == {[official |-> FALSE, tcp |-> TRUE, path |-> "tcp"],
              [official |-> TRUE, tcp |-> FALSE, path |-> "closed"]}
=============================================================================
