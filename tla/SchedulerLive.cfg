SPECIFICATION PoliteSpec
CONSTANTS
  None = None
  Boot = Boot
  Threads = {idle, k1}
  Users = {}
  Immortal = {idle}
  SwitchTicks = 2
  MaxSleep = 2
INVARIANT
  IdleThreadPreventsHalt
PROPERTIES
  SleepersWake
  ReadyThreadsRun
