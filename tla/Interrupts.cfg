SPECIFICATION FairSpec
CONSTANTS
  Lines = {0, 1, 2, 7, 8, 9}
  Drivers = {33, 34, 40}
  Exceptions = {0, 14}
  Spurious = TRUE
  Syscalls = TRUE
  Byte = 4
  Nibble = 2
  TssSize = 7
  StackFields = 2
  TssBases = {34, 84}
INVARIANTS
  OpenLinesHaveHandlers
  RequestsReachTheirHandler
  NothingLeftInService
  KernelEntrySound
PROPERTY
  TimerRequestsServed
CHECK_DEADLOCK FALSE
