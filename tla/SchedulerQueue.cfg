SPECIFICATION FairSpec
CONSTANTS
  Runners = {r1, r2}
  Works = {w1}
  Tokens = {t1, t2, t3, t4}
  Nobody = Nobody
  NoToken = NoToken
  LeaseDuration = 2
  RetryDelay = 1
  BatchSize = 2
  Concurrency = 1
  MaxLag = 1
  Attended = {r1}
  MaxFaults = 2
INVARIANT WakeIsSeen
PROPERTIES LeaseSpec WorkIsAttempted
