CONSTANTS
  Setups = {setup1}
  Cleaners = {cleaner1}
  Urls = 2
  MaxRuns = 2
  MaxInstalls = 3
  MaxKills = 1
  Secrets = {secret1}
  Empty = Empty
  Adapters = {adapter1}
  Automatic = Automatic
  None = None
  Bad = Bad
SPECIFICATION PartsSpec
INVARIANTS OneAtATime ResultIsTrue SecretIsForgotten TaskFollowsSettings
PROPERTIES OnlyConfirmedIsRemoved RefusedOnlyIfBusy RunEnds SavedIsKept
CHECK_DEADLOCK FALSE
