\* Every fault, three requests.
CONSTANTS
  Requests = {r1, r2, r3}
  NoRequest = NoRequest
  MinInterval = 2
  Faults <- AllFaults
SPECIFICATION Spec
SYMMETRY Symmetry
INVARIANTS
  TypeOK
  AnswerIsOwnOutcome
  WaiterIsQueued
  PendingIsAccounted
PROPERTIES
  FifoAtMostOnce
  RateLimited
  
  OnlyDeadIdsDiscarded
  ImplementsContract
\* With every request finished and the list empty the consumer only polls.
CHECK_DEADLOCK FALSE
