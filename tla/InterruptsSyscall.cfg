SPECIFICATION Spec
CONSTANTS
  Lines = {0, 1, 2, 7, 8}
  Drivers = {}
  Exceptions = {}
  Spurious = FALSE
  Syscalls = TRUE
  Byte = 4
  Nibble = 2
  TssSize = 7
  StackFields = 2
  TssBases = {34, 84}
INVARIANT
  IntNoIsTheInterrupt
CHECK_DEADLOCK FALSE
