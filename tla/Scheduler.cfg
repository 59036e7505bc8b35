SPECIFICATION Spec
CONSTANTS
  None = None
  Boot = Boot
  Threads = {k1, k2, u1}
  Users = {u1}
  Immortal = {}
  SwitchTicks = 3
  MaxSleep = 1
INVARIANTS
  TickBelowSwitch
  CurrentIsRunning
  FramesResumable
  ChoiceIsTheLoop
PROPERTY
  SleepersGetEveryTick
CHECK_DEADLOCK FALSE
