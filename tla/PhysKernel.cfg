SPECIFICATION Spec
CONSTANTS
  BLOCK_SIZE = 16
  BLOCKS_PER_BYTE = 8
  WordBits = 32
  UintSpan = 4096
  LowMem = 64
  KernelEnd = 100
  Uppers = {160, 200, 144}
  LowEnds = {39, 64}
  InitrdBases = {112, 128}
  InitrdSizes = {16, 24}
  Beyond = {0, 32}
  Boots <- MCBoots
INVARIANT
  KernelNotOverwritten
CHECK_DEADLOCK FALSE
