SPECIFICATION FairSpec
CONSTANTS
  NumThreads = 2
  Soaps = {s1, s2, s3}
  NoSoap = NoSoap
INVARIANTS TypeOK NoUseAfterDelete ExclusiveJobs NoLostConnection NoLostWakeup
PROPERTIES ConnectionsClosed ServiceSpec
