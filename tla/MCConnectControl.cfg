CONSTANTS
  Delays <- MCDelays
  Cooldown = 3
  Window = 4
  MaxFailures = 2
  MaxLaunches = 2
  Stale = 2
  UnhealthyLimit = 4
  Stable = 2
  PollGap = 1
  MaxFaults = 2
  MaxLines = 1
SPECIFICATION FairSpec
INVARIANTS WishIsFollowed LaunchBudget StallIsRestarted
PROPERTIES HealthyIsLeftAlone WishIsPursued
