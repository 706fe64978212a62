\* Every fault, one admin call.
CONSTANTS
  Admins = {a1}
  TTL = 8
  RefreshBelow = 6
  CheckInterval = 3
  LoginTimeout = 2
  Faults <- AllFaults
SPECIFICATION FairSpec
INVARIANTS
  TypeOK
  KeyKeptAlive
PROPERTIES
  KeyComesBack
