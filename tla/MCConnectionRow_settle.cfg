CONSTANTS
  masculine = masculine
  feminine = feminine
  c1 = c1
  c2 = c2
  p1 = p1
  Role = {masculine, feminine}
  Grace = {1}
  Choice = {c1, c2}
  Post = {p1}
  Mixes <- OneConcern
  MaxOps = 2
  MaxTaps = 2
  MaxNow = 2
  MaxFaults = 1
  MaxOvertake = 0
SPECIFICATION Spec
INVARIANTS RolesSettleInOrder SeverSettlesInOrder PreferencesSettle BookmarksSettle
CHECK_DEADLOCK FALSE
