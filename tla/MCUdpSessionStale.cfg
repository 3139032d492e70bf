CONSTANTS
  RetryCount = 0
  Ample = TRUE
  MaxLogins = 2
  MaxUpsets = 1
  MaxFaults = 0
SPECIFICATION FairSpec
PROPERTIES SilenceRestarts
CHECK_DEADLOCK FALSE
