\* Four cargos, pages of one, every fault.
CONSTANTS
  Prices = {1, 2}
  TTL = 2
  FetchTime = 1
  Cargos <- MCCargos
  Distance <- MCDistance
  Payment <- MCPayment
  Currency <- MCCurrency
  BodyType <- MCBodyType
  Words <- MCWords
  BodyIds <- MCBodyIds
  Limits = {0, 1}
  MinFetch = 2
  Faults <- AllFaults
SPECIFICATION Spec
INVARIANTS
  PriceInv

  
  
