CONSTANTS
  MaxLogins = 1
  MaxUpsets = 0
  MaxFaults = 0
  MaxOrphans = 2
SPECIFICATION FairSpec
PROPERTIES RebuiltProcessGetsSuccess
CHECK_DEADLOCK FALSE
