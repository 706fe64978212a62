\* Outages of Redis that end.
CONSTANTS
  Workers = {w1}
  NoWorker = NoWorker
  Threshold = 2
  Pause = 3
  LoginTimeout = 2
  LockTTL = 3
  WaitForLock = 2
  Reconnect = 1
  MaxBacklog = 2
  Faults <- Outages
SPECIFICATION FairSpec
PROPERTIES
  ListenerComesBack
