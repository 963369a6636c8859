SPECIFICATION PowerSpec
CONSTANTS
  Cores = 16
  MaxThreads = 12
  Threshold = 50
  IdleTimeout = 2
  MinThreads = {0, 13}
  Loads = {0, 3}
  MaxChanges = 1
  MaxPauses = 2
  MaxEnergy = 1
INVARIANTS
  UserComesFirst
  EnergyShownOnce
PROPERTIES
  FullPowerReturns
  SleepFollowsMining
CHECK_DEADLOCK FALSE
