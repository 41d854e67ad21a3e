SPECIFICATION FairPoolSpec
CONSTANTS
  MaxFaults = 1
  Requests = {}
INVARIANT NoOrphanedWorker
