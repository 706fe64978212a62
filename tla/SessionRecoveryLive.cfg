\* One request after the other gets its turn.
CONSTANTS
  Requests = {r1, r2}
  MaxRetries = 1
  BackoffBase = 2
  PollInterval = 2
  MaxWait = 4
  RetryDelay = 0
  MinInterval = 2
  MaxLogins = 1
  Faults <- ToleratedFaults
SPECIFICATION FairSpec
PROPERTIES
  ExecutionEnds
\* With every request finished nothing need happen.
CHECK_DEADLOCK FALSE
