SPECIFICATION Spec
CHECK_DEADLOCK FALSE
CONSTANTS
  MaxGen = 2
  Callers = {c1}
  Owners = {0, 2}
  MaxCache = 1
  Plans = {{"scope"}}
INVARIANT CommittedDisposalDetached
