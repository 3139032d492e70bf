CONSTANTS
  MaxLaunches = 2
  MaxDeaths = 1
  MaxFaults = 0
  KillMidLaunch = TRUE
SPECIFICATION FairSpec
PROPERTIES NoCoreIsLeft
CHECK_DEADLOCK FALSE
