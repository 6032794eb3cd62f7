SPECIFICATION FairSpec
CONSTANTS
  Threads = {t1}
  Monitor = mon
  NoProc = NoProc
  Apps = {a1}
  NoApp = NoApp
  Hosts = {a1}
  HostOf <- MCHostOf
  MaxLogins = 2
  VisorModulus = 65536
  Reentrant = FALSE
PROPERTIES ExpiredUsersLoggedOut RequestsAnswered
