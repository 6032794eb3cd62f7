SPECIFICATION Spec
CONSTANTS
  Threads = {t1, t2, t3}
  Reports = {GroupList, AgentsList}
  NoReport = NoReport
  LateHeader = {AgentsList}
INVARIANTS OneThreadPerReport
