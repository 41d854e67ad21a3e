SPECIFICATION FairSpec
CONSTANTS
  Frames = 3
  QueueSize = 1
  Replied = {1}
  Syncs = 1
  MaxFaults = 1
INVARIANTS AckedIsKeptOnce OrderHoldsUnlessCrowded SendsAreTrue
PROPERTIES SendSpec AckedIsHandled
CHECK_DEADLOCK FALSE
