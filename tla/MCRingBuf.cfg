SPECIFICATION FairSpec
CONSTANTS
  Byte = {a, b}
  NoByte = none
  Size = 4
  MaxCall = 4
  MaxBytes = 5
INVARIANTS NoDataRace
PROPERTIES ImplementsFifo Delivered
CHECK_DEADLOCK TRUE
