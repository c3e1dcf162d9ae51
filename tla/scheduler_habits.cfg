SPECIFICATION Spec
CONSTANTS
  Idle = Idle
  LateInit = LateInit
  Boot = Boot
  NoThread = NoThread
  Workers = {w1, w2, w3, w4}
  Quantum = 1
  SleepTimes <- OneOrThree
  MaxLeft = 3
  Cap = 6
  Calls <- AllCalls
  BootSleeps = TRUE
  Few = 3
SYMMETRY Symmetry
CONSTRAINT FewOnceBlocked
INVARIANTS TypeOK CountedOncePerWake  
CHECK_DEADLOCK FALSE
