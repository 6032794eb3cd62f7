------------------------------ MODULE MCSessions ------------------------------
(***************************************************************************)
(* SupervisorSessions for TLC: every application calls from an address of  *)
(* its own, which is the application itself.                               *)
(***************************************************************************)
EXTENDS SupervisorSessions, TLC

MCHostOf == [a \in Apps |-> a]

ThreadSymmetry == Permutations(Threads)

=============================================================================
