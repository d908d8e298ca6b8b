SPECIFICATION FairSpec
CONSTANTS
  photo = photo
  voice = voice
  t1 = t1
  t2 = t2
  Att = {photo}
  Photo = {photo}
  Task = {t1, t2}
  Ttl = 1
  MaxClock = 1
  MaxFaults = 2
INVARIANTS RowHasItsFile FetchableUntilExpiry
PROPERTIES CopyIsKept OpenedInTheEnd
CHECK_DEADLOCK FALSE
