\* The instance of Restarts.cfg.
SPECIFICATION AccountsSpec
CONSTANTS
  Clients = {a, b}
  Keys = {k0, k1}
  FirstKey = k0
  Limit = 1
  MaxCost = 1
  Burst = 2
  RefillTicks = 2
  PeriodTicks = 1
  MaxClock = 2
  MaxCrashes = 1
  Nobody = Nobody
PROPERTIES
  LimitIsMonthly
CHECK_DEADLOCK FALSE
