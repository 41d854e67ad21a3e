SPECIFICATION MCSpec
CONSTANTS
  MaxFaults = 2
  Requests = {"recover", "restart"}
INVARIANTS UncoveredSocketIsClosing LiveSocketHoldsLock StopLeavesNothing
PROPERTIES LifecycleSpec StopCompletes ReadyIsPromoted
