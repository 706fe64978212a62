\* Outages and cancellations only: every call comes to an end.
CONSTANTS
  Requests = {r1, r2}
  NoRequest = NoRequest
  MinInterval = 1
  Faults <- RecoverableFaults
SPECIFICATION FairSpec
PROPERTIES
  EveryCallEnds
\* With every request finished and the list empty the consumer only polls.
CHECK_DEADLOCK FALSE
