------------------------------ MODULE MCReports ------------------------------
(***************************************************************************)
(* SavedReports for TLC: a private and a public old report, both in the    *)
(* old workspace of one user, who may publish.                             *)
(***************************************************************************)
EXTENDS SavedReports, TLC

CONSTANTS u1, u2

MCOldCreator   == <<u1, PUBLIC_OWNER_ID>>
MCOldWorkspace == [u \in Users |-> IF u = u1 THEN {<<1, 1>>, <<2, 2>>} ELSE {}]
MCWorkspaces   == {<<>>, <<3, 1>>}

RequestSymmetry == Permutations(Requests)

=============================================================================
