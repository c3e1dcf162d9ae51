SPECIFICATION WaitingSpec
CONSTANTS
  Idle = Idle
  LateInit = LateInit
  Boot = Boot
  NoThread = NoThread
  Workers = {w1}
  Quantum = 1
  SleepTimes <- OneTick
  MaxLeft = 1
  Cap = 3
  Calls <- WaitingCalls
  BootSleeps = FALSE
  InitialUnits <- NoneOrOne
  MaxWaits = 3
INVARIANTS  IdleAlwaysRunnable IdleNeverWaits NotifyInList
  
CHECK_DEADLOCK FALSE
