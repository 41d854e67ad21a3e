SPECIFICATION FairPoolSpec
CONSTANTS
  MaxFaults = 0
  Requests = {"restart"}
PROPERTY NoOverlap
