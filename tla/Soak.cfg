SPECIFICATION FairSpec
CONSTANTS
  Operators = {operator}
  Worlds <- MCWorlds
  Target = 2
  MinSamples = 2
  MaxGap = 2
  MaxTime = 4
  MaxCommands = 2
  MaxStarts = 1
  MaxFaults = 1
INVARIANTS NumbersAreOfItsSamples PassIsEarned
PROPERTY SoakConcludes
