CONSTANTS
  red = red
  amber = amber
  Word = {red, amber}
  MaxCalls = 2
  MaxOps = 3
  MaxTriggers = 2
  MaxFaults = 0
  MaxOvertake = 1
SPECIFICATION FairSpec
INVARIANTS TermSettlesInOrder NoTermAlone AckMeansReceived
PROPERTY EverySignalAcked
CHECK_DEADLOCK FALSE
