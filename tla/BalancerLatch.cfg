CONSTANTS
  MaxSubConns = 3
  MaxUpdates = 1
  MaxDrops = 1
  AddressLists <- MCAddressLists
SPECIFICATION Spec
INVARIANTS LatchedHasSuccessor
