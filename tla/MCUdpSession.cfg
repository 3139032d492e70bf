CONSTANTS
  RetryCount = 0
  Ample = TRUE
  MaxLogins = 2
  MaxUpsets = 1
  MaxFaults = 1
SPECIFICATION FairSpec
PROPERTIES GivenUpAfterSilence SessionHeals
CHECK_DEADLOCK FALSE
