SPECIFICATION PairFairSpec
CONSTANTS
  MaxAttempts = 2
  MaxMishaps = 2
  Careful = TRUE
  Relink = FALSE
INVARIANTS RootsAgree EngineHasRatchet
PROPERTY BothPair
CHECK_DEADLOCK FALSE
