SPECIFICATION MonitorSpec
CONSTANTS
  ip1 = ip1
  t1 = t1
  t2 = t2
  IPs <- OneIP
  Threads <- TwoThreads
  Threshold = 2
  Window = 2
  MaxTime = 4
  TicksPerSecond = 2
  MaxAttempts = 4
  MaxFaults = 1
  FromStart = TRUE
INVARIANT DequeHoldsTheWindow
INVARIANT RowsAreLogged
INVARIANT AlarmsAreBacked
PROPERTY ImplementsBruteForceAlarm
PROPERTY AlarmsReachTheStore
PROPERTY CountsTheWindow
