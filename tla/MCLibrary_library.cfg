SPECIFICATION LibrarySpec
CONSTANTS
  ListHead = {ready, wait}
  Entry = {main, spd, odo}
  HeapBytes = 3
  Requests = {12, 128}
  PastEnd = FALSE
  MaxLost = 0
  Lengths = {5, 11, 20, 127, 200}
  BuffSizes = {16, 256}
  MaxPending = 1
  MaxReplaced = 1
  Rates = {10000, 20000, 33333, 50000, 83333, 100000, 125000, 250000, 500000, 1000000}
  Starts = {0, 4, 16, 60}
  Sizes = {3, 4, 12, 16, 40}
  Numbers = {1, 2, 3, 7}
  Bytes = {0, 1, 29, 85, 128, 255}
  MaxBytes = 3
  DigitBits = 2
  MaxDigits = 3
INVARIANTS
  TimingFits
  PoolsFit
  Crc8Agrees
  BignumAgrees
  WalksAgree
  HeapConsistent
  FrameComplete
PROPERTIES
  ImplementsLists
CHECK_DEADLOCK FALSE
