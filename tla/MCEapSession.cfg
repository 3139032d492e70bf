CONSTANTS
  RetryCount = 1
  Probing = TRUE
  Keys = 1
  MaxFrames = 1
  MaxWire = 2
  MaxFaults = 1
  MaxRaces = 1
SPECIFICATION FairSpec
INVARIANTS SuccessHasKey DeclaredAfterSilence
PROPERTIES SilenceIsNoticed FirstLoginIsGranted
CHECK_DEADLOCK FALSE
