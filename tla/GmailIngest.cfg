SPECIFICATION FairSpec
CONSTANTS
  MaxMail = 2
  Relevant = {1, 2}
  PageSize = 1
  Replicas = 1
  Concurrency = 2
  MaxJobs = 3
  Attempts = 2
  MaxMishaps = 1
INVARIANTS PointerCovers LostByMishapOnly
PROPERTY EveryMailStored
CHECK_DEADLOCK FALSE
