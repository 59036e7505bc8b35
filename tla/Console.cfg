SPECIFICATION Spec
CONSTANTS
  Width = 3
  Height = 2
  ByteSpan = 8
  Colors = {"white", "green"}
INVARIANT
  CursorFollowsText
PROPERTY
  ImplementsTerminal
