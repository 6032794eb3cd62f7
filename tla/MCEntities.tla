------------------------------ MODULE MCEntities ------------------------------
(* Two groups and an agent; the clerk may see the one that is always       *)
(* there, the admin also the other, which comes and goes.                  *)
EXTENDS EntityTables

CONSTANTS admin, clerk

MCUsers     == {admin, clerk}
MCPermitted == [u \in MCUsers |-> IF u = clerk THEN {1} ELSE {}]
MCGroups    == {1, 2}
MCNamed     == {{1, 2}}
MCKinds     == {"GroupList", "AgentsList", "BriefAgents", "GroupDetailFullInfo",
                "LoginManagerAgentsPerGroup", "LoginManagerGroupsPerAgent",
                "UserLogin"}

(* With the request that walks the groups without their lock. *)
UnlockedKinds == {"GroupList", "LoginManagerAvailableGroupsForAgent"}
=============================================================================
