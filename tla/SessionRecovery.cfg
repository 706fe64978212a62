\* Two requests, three logins, one further attempt, every fault.
CONSTANTS
  Requests = {r1, r2}
  MaxRetries = 1
  BackoffBase = 1
  PollInterval = 1
  MaxWait = 2
  RetryDelay = 0
  MinInterval = 1
  MaxLogins = 3
  Faults <- AllFaults
SPECIFICATION Spec
SYMMETRY Symmetry
INVARIANTS
  TypeOK
  BoundedLoad
PROPERTIES
  LardiIsSpared
  
\* With every request finished nothing need happen.
CHECK_DEADLOCK FALSE
