\* stop() while a popped request sleeps or runs.
CONSTANTS
  Requests = {r1, r2}
  NoRequest = NoRequest
  MinInterval = 1
  Faults <- StopOnly
SPECIFICATION Spec
PROPERTIES
  StopReleasesEveryone
CHECK_DEADLOCK FALSE
