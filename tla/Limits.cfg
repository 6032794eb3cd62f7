SPECIFICATION FairSpec
CONSTANTS
  Threads = {t1, t2}
  Free = Free
  GroupIds <- MCGroups
  Indices <- MCIndices
  GroupResults <- MCGroupResults
  LimitResults <- MCLimitResults
  Lookups <- MCLookups
  Word = 8
  CountWord = 4
  MaxGroup = 2
INVARIANTS TypeOK LimitsAreLoaded
PROPERTIES ColoursAreRight CallsReturn
