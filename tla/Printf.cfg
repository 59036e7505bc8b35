SPECIFICATION PrintfSpec
CONSTANTS
  Bits = 4
  DecBase = 3
  HexBase = 2
  BufSize = 8
  Addresses = {1, 6, 13}
  Stray = {0, 17}
  Letters = {18, 20, 21, 22, 23, 24, 25}
  MaxFormat = 4
  Words = {0, 5, 8, 15}
INVARIANTS
  TextIsExpansion
  ReaderStaysInFormat
  ReaderStaysInBuffer
CHECK_DEADLOCK FALSE
