\* Two workers, every fault.
CONSTANTS
  Workers = {w1, w2}
  NoWorker = NoWorker
  Threshold = 3
  Pause = 4
  LoginTimeout = 3
  LockTTL = 5
  WaitForLock = 4
  Reconnect = 1
  MaxBacklog = 2
  Faults <- AllFaults
SPECIFICATION Spec
SYMMETRY Symmetry
INVARIANTS
  TypeOK
  OneEmergencyLogin
  DeletesOwnLock
PROPERTIES
  BreakerHolds
