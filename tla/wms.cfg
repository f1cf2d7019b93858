SPECIFICATION FairSpec
CONSTANTS
  MaxEvent = 2
  MaxAttempts = 2
  MaxSends = 2
  Threshold = 2
  Requests = 1
  Limit = 2
  Forms = {1}
  Cron = cron
  User = user
  Config = config
  Pinned = TRUE
  MaxMishaps = 1
INVARIANTS IInv
PROPERTIES DeliveredStands Settles
CHECK_DEADLOCK FALSE
