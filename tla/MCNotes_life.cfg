SPECIFICATION Spec
CONSTANTS
  n1 = n1
  n2 = n2
  Note = {n1}
  Writers = {"a"}
  MaxTexts = 3
  MaxClock = 2
  MaxCalls = 2
  MaxFaults = 0
  MaxOvertake = 0
INVARIANTS SecretStaysSecret DeleteSettles TextsSettle PublishedHasText
CHECK_DEADLOCK FALSE
