CONSTANTS
  MaxLogins = 2
  MaxUpsets = 2
  MaxFaults = 1
  MaxOrphans = 1
  MaxPosts = 2
  MaxStops = 1
  MaxAnswers = 1
  RetryCount = 1
SPECIFICATION PartsSpec
INVARIANTS KeysInOrder OnlyPacketsAreSent
PROPERTIES ListenerNeverDeaf SuccessIsHeard UnansweredIsResent PostedIsSent
CHECK_DEADLOCK FALSE
