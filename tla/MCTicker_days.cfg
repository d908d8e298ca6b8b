CONSTANTS
  o1 = o1
  o2 = o2
  o3 = o3
  ta = ta
  tb = tb
  Op = {o1, o2}
  Author <- FromA
  Task = {ta, tb}
  Home <- TickerHome
  Ticker = {ta, tb}
  MaxSkipped = 2
  Lookback = 1
  Ttl = 1
  MaxDay = 2
  MaxFaults = 1
SPECIFICATION FairSpec
PROPERTY AppliedInReach
