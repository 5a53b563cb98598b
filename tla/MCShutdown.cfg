CONSTANTS
  f = f  t1 = t1  w = w
  Fibers = {f}
  Present = {}
  Tasks = {t1}
  OwnerOf <- MCOwnerOf
  Workers = {w}
  KindsOf <- MCKindsOf
  TargetOf <- MCTargetOf
  Callers = {c1}
  MaxAttempts = 2
  NONE = NONE
SPECIFICATION FairSpec
CHECK_DEADLOCK FALSE
INVARIANTS
  ClassifiedOnce
  CompleteIsQuiet
  
PROPERTIES
  CallersReturn
