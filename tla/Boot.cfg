SPECIFICATION BootSpec
CONSTANTS
  BLOCK_SIZE = 4
  BLOCKS_PER_BYTE = 2
  WordBits = 8
  UintSpan = 1024
  LowMem = 16
  KernelEnd = 21
  HeapPages = 3
  Entries = 2
  Uppers = {32, 41, 50}
  LowEnds = {10, 16}
  InitrdBases = {24, 28}
  InitrdSizes = {4, 6, 20}
  Beyond = {0, 8}
  JunkWords = {0, 26, 40}
  Boots <- AllBoots
INVARIANTS
  OnlyAvailableFrames
  CounterIsConservative
  HeldFramesStayMarked
  LoadedDataKept
  FaultOnlyWhenShort
  TickFindsItsState
PROPERTY
  BootEnds
CHECK_DEADLOCK FALSE
