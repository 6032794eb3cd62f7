SPECIFICATION FairSpec
CONSTANTS
  Threads = {t1, t2, t3}
  Reports = {GroupList, AgentsList}
  NoReport = NoReport
  LateHeader = {AgentsList}
INVARIANTS TypeOK NoStuckFlag
PROPERTIES FlagCleared
