CONSTANTS
  Releases = {"0.3.3", "0.3.4"}
  MaxFaults = 2
  MaxCrashes = 1
SPECIFICATION RangeSpec
INVARIANTS OneFaultLosesNothing
PROPERTIES UninstallCanBeRetried Atomic KeyOutlivesFiles
CHECK_DEADLOCK FALSE
