SPECIFICATION Spec
CONSTANTS
  Idle = Idle
  LateInit = LateInit
  Boot = Boot
  NoThread = NoThread
  Workers = {w1}
  Quantum = 1
  SleepTimes <- OneOrTwo
  MaxLeft = 2
  Cap = 3
  Calls <- AllCalls
  BootSleeps = FALSE
PROPERTIES SleepingCalledSleep
CHECK_DEADLOCK FALSE
