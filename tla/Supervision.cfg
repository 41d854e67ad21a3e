SPECIFICATION FairSpec
CONSTANTS
  MaxCommands = 2
  MaxRequests = 2
  MaxFaults = 1
INVARIANTS LatestRowIsTheDaemon CommandsRunOnceInOrder StopSticksWhereItReaches
PROPERTY CommandsConclude
