SPECIFICATION Spec
CONSTANTS
  Thread = {t1, t2, t3, t4, t5, t6, t7, t8}
INVARIANTS TypeOK MutualExclusion 
 
CHECK_DEADLOCK FALSE
