SPECIFICATION Spec
CHECK_DEADLOCK FALSE
CONSTANTS
  prov = prov  dep = dep  spare = spare  sub = sub  svcA = svcA  svcB = svcB
  NONE = NONE
  Root = Root
  Fibers = {prov, dep}
  Scopes = {Root, sub}
  Services = {svcA, svcB}
  Parent <- TreeParent
  Owner <- TreeOwner
  ScopeOf <- CycleScopeOf
  Deps <- CycleDeps
  Provides <- CycleProvides
  Restart = {}
  Leased = {}
  Failing = {}
  Faulty = {}
  Crashing = {}
  Hosted = {}
  Dropped = {dep}
  Closing = {sub}
  Shutdowns = FALSE
  BootScopes <- Nothing
  BootFibers <- Nothing
  Running = {}
INVARIANT CyclesRejected
