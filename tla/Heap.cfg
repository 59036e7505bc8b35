SPECIFICATION Spec
CONSTANTS
  HeapStart = 100
  HeapEnd = 212
  HdrSize = 20
  Align = 4
  MINIMAL_SPLIT_SIZE = 4
  UintSpan = 1024
  Requests = {3, 21, 1022}
INVARIANTS
  TypeOK
  ListSound
  HeaderCheckIsExact
  GrantCoversRequest
PROPERTIES
  LeakBounded
  ImplementsAllocator
CHECK_DEADLOCK FALSE
