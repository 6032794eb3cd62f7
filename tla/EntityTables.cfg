SPECIFICATION FairSpec
CONSTANTS
  Requests = {r1, r2}
  Free = Free
  admin = admin
  clerk = clerk
  Users <- MCUsers
  Permitted <- MCPermitted
  AllGroups = {admin}
  GroupIds <- MCGroups
  StableGroups = {1}
  AgentIds = {1}
  MaxId = 2
  Named <- MCNamed
  Kinds <- MCKinds
  MaxChanges = 1
INVARIANT TypeOK LocksReleased GroupRepliesExact LimitsWhole
PROPERTIES RequestsReturn
