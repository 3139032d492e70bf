CONSTANTS
  Releases = {"0.3.3", "0.3.4"}
  MaxFaults = 2
  MaxCrashes = 0
SPECIFICATION Spec
INVARIANTS UpgradeLosesNothing
CHECK_DEADLOCK FALSE
