SPECIFICATION Spec
CONSTANTS
  Entries = 3
  Dirs = 6
  KernelDir = 2
  HeapFirst = 9
  HeapPages = 6
  LowUserPages = 2
  PAGE_SIZE = 4
  FrameField = 32
  FirstFrame = 3
  Machines = {4, 6, 9, 10, 14}
  PhysArgs = {1, 2}
  VirtArgs = {3, 4, 5}
INVARIANTS
  HeapFramesPrivate
  HeapMappedUnlessExhausted
  KernelPagesStayClosed
PROPERTY
  MapChangesOnePage
CHECK_DEADLOCK FALSE
