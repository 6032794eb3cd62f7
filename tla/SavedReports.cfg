SPECIFICATION Spec
CONSTANTS
  Requests = {r1, r2, r3}
  u1 = u1
  u2 = u2
  Users = {u1, u2}
  PUBLIC_OWNER_ID = PUBLIC_OWNER_ID
  NoOne = NoOne
  Publishers = {u1}
  OldCreator <- MCOldCreator
  OldWorkspace <- MCOldWorkspace
  FIRST_REPORT_ID = 2
  ClientIds = {1, 3}
  Workspaces <- MCWorkspaces
  ShortIds = 4
  MaxId = 4
  MaxSaves = 2
  MaxFailures = 1
INVARIANTS TypeOK SavedIsKept DeleteIsComplete 
PROPERTY RightsRespected
SYMMETRY RequestSymmetry
