SPECIFICATION Spec
CONSTANTS
  Requests = {r1, r2}
  Free = Free
  admin = admin
  clerk = clerk
  Users <- MCUsers
  Permitted <- MCPermitted
  AllGroups = {admin}
  GroupIds <- MCGroups
  StableGroups = {1}
  AgentIds = {1}
  MaxId = 2
  Named <- MCNamed
  Kinds <- UnlockedKinds
  MaxChanges = 1
INVARIANT GroupRepliesExact
