SPECIFICATION MCSpec
CONSTANTS
  MaxFaults = 1
  Requests = {"restart"}
INVARIANT NoOrphanWithoutFault
PROPERTIES OnlyAMeetingOverlaps CircuitStopsTransport StopIsHonoured
