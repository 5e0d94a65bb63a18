\* One delivery and one worker of the deployed service.
SPECIFICATION StoreSpec
CONSTANTS
  Hooks = {h1}
  Workers = {w1}
  MaxAttempts = 3
  BatchSize = 2
  MaxAccepted = 2
INVARIANT SentBeforeGivenUp
CHECK_DEADLOCK FALSE
