SPECIFICATION FairSpec
CONSTANTS
  FifoSize = 2
  WriteCounts = {1, 2, 5}
  ReadCounts = {1, 2, 4, 5}
INVARIANTS BufferInBounds SuccessIsWhole NoStaleBits
PROPERTIES TransferReturns
