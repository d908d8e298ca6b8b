CONSTANTS
  o1 = o1
  o2 = o2
  o3 = o3
  ta = ta
  tb = tb
  Op = {o1, o2, o3}
  Author <- BothWays
  Task = {ta, tb}
  Home <- TickerHome
  Ticker = {ta, tb}
  MaxSkipped = 2
  Lookback = 0
  Ttl = 3
  MaxDay = 0
  MaxFaults = 2
SPECIFICATION Spec
INVARIANTS TypeOK KeysSurvive KeysForgotten NothingLost NotWedged IInv
PROPERTIES CounterNeverReused AppliedOnce KeepsPromise
