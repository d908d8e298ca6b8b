CONSTANTS
  o1 = o1
  o2 = o2
  o3 = o3
  ta = ta
  sa = sa
  tb = tb
  Op = {o1, o2, o3}
  Author <- BothWays
  Task = {ta, sa, tb}
  Home <- PhoneOf
  Ticker = {tb}
  MaxSkipped = 2
  Lookback = 0
  Ttl = 3
  MaxDay = 0
  MaxFaults = 0
SYMMETRY Alike
SPECIFICATION Spec
INVARIANTS NothingVanishes
