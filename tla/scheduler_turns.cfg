SPECIFICATION FairSpec
CONSTANTS
  Idle = Idle
  LateInit = LateInit
  Boot = Boot
  NoThread = NoThread
  Workers = {w1}
  Quantum = 1
  SleepTimes <- ShortSleeps
  MaxLeft = 2
  Cap = 3
  Calls <- AllCalls
  BootSleeps = FALSE
INVARIANTS  IdleAlwaysRunnable
PROPERTIES  NoStarvation
CHECK_DEADLOCK FALSE
