CONSTANTS
  x1 = x1
  x2 = x2
  n1 = n1
  n2 = n2
  p1 = p1
  p2 = p2
  Attempt = {x1, x2}
  Unlocker <- UnlockerA
  Note = {n1}
  Author <- AuthorB
  Prompt = {p1}
  Redrawn = {}
  MaxTokens = 0
  OpsA = 5
  OpsB = 2
  MaxOps <- Ops
  MaxCalls = 2
  MaxVerifies = 2
  MaxByHand = 1
  MaxAwards = 0
  MaxDay = 1
  MaxFaults = 0
  MaxOvertake = 1
SYMMETRY Alike
SPECIFICATION Spec
INVARIANTS OneAttemptAtATime DrawnOnce SomeonesMove
CHECK_DEADLOCK FALSE
