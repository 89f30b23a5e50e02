-------------------------- MODULE MCSessionManager --------------------------
(* Small instances of SessionManager for TLC. *)
EXTENDS SessionManager, TLC

Interchangeable ==
  Permutations(SessionIDs) \cup Permutations(Players) \cup Permutations(Objects)

\* Exploration stops at a state in which the reaper has acted on an orphan:
\* beyond it the invariants say nothing.
UntilOrphanReaped == ~orphanReaped
=============================================================================
