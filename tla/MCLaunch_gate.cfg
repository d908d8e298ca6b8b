SPECIFICATION FairSpec
CONSTANTS
  Threshold = 1
  Recently = 2
  Ttl = 3
  Lockout = 1
  MaxFailures = 2
  Shipped <- MCShipped
  AtOnce = 2
  MaxClock = 5
  MaxGuesses = 4
  MaxFaults = 2
INVARIANTS DatabaseOpens AbsenceLocks GuessesThrottled
PROPERTY GateOpens
CHECK_DEADLOCK FALSE
