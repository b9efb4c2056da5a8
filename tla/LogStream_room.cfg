SPECIFICATION Spec
CONSTANTS
  SIZE = 8
  kMaxNumericSize = 5
  Sources <- MCSources
  Values <- MCValues
  Addresses <- MCAddresses
INVARIANT
  AddedOnlyWithRoom
