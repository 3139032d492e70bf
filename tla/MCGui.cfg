CONSTANTS
  Works <- MCWorks
  Length <- MCLength
  MaxLaunches = 3
  MaxDeaths = 2
  MaxFaults = 2
  KillMidLaunch = TRUE
  Toggles = {keep, other}
  TrayKeep = keep
  Displays = {d1, d2}
  Full = 1
  MaxPosted = 2
  History = 1
  Limit = 3
  AnchorSize = 2
  MaxFiles = 2
  MaxRewrites = 1
  Scales = {96, 120, 144, 168, 216}
  Counts = {0, 2, 5, 14}
SPECIFICATION PartsSpec
INVARIANTS Leashed OrderlyEnd ListIsInPlace OnlyNewLines LayoutIsUsable
PROPERTIES DeathSparesCore CoreFollowsGui StopReturns LayoutFollowsDisplay CatchesUp
CHECK_DEADLOCK FALSE
