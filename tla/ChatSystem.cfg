\* One tab, which may open a second chat or be loaded again; two messages; every fault.
CONSTANTS
  t1 = t1
  Tabs = {t1}
  Chats <- TwoChats
  MaxMessages = 2
  MaxTokens = 1
  WireSize = 1
  HistoryLimit = 2
  Faults <- AllFaults
SPECIFICATION Spec
INVARIANTS
  ReaderInv
  ShownIsStored
  CompleteIsWhole
  StreamingIsAccounted
  HistoryIsSettled
  NobodyWaitsInVain
CHECK_DEADLOCK FALSE
