SPECIFICATION QueueSpec
CONSTANTS
  Nodes = {n1, n2, n3, n4}
  Elements = {a, b, c}
  Null = Null
INVARIANTS
  LinksSound
PROPERTIES
  ImplementsSequence
  RemoveLeavesNone
