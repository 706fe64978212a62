\* One tab, two people, two profiles in flight; others create and block accounts meanwhile.
CONSTANTS
  Emails <- TwoPeople
  Ids = {1, 2, 3, 4}
  FirstAdmin = "ann"
  MaxFetches = 2
  NewRoles = {"user"}
  Faults <- AllFaults
SPECIFICATION Spec
INVARIANTS
  AccountInv
  BlockedStaysOut
  ProfileIsOwn
  ListIsTrue
