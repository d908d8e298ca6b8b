CONSTANTS
  x1 = x1
  x2 = x2
  n1 = n1
  n2 = n2
  p1 = p1
  p2 = p2
  Attempt = {x1}
  Unlocker <- UnlockerA
  Note = {n1}
  Author <- AuthorB
  Prompt = {p1, p2}
  Redrawn = {p2}
  MaxTokens = 6
  OpsA = 3
  OpsB = 2
  MaxOps <- Ops
  MaxCalls = 1
  MaxVerifies = 1
  MaxByHand = 1
  MaxAwards = 2
  MaxDay = 0
  MaxFaults = 1
  MaxOvertake = 0
SPECIFICATION FairSpec
INVARIANTS AddOnlySettles LoopSettlesInOrder
PROPERTY VerifiedIsPaid
CHECK_DEADLOCK FALSE
