SPECIFICATION Spec
CONSTANTS
  HeapStart = 100
  HeapEnd = 168
  MINIMAL_SPLIT_SIZE = 4
  UintSpan = 1024
  Requests = {3, 24, 1022}
  MEMORY_HEADER_MAGIC = 890
  Contents = {0, 890}
PROPERTY
  ImplementsHeap
  FreedStackUsable
CHECK_DEADLOCK FALSE
