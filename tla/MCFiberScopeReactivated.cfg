SPECIFICATION Spec
CHECK_DEADLOCK FALSE
CONSTANTS
  prov = prov  dep = dep  spare = spare  sub = sub  svcA = svcA  svcB = svcB
  NONE = NONE
  Root = Root
  Fibers = {prov, dep, spare}
  Scopes = {Root, sub}
  Services = {svcA}
  Parent <- TreeParent
  Owner <- TreeOwner
  ScopeOf <- SpareScopeOf
  Deps <- SpareDeps
  Provides <- SpareProvides
  Restart = {dep}
  Leased = {}
  Failing = {}
  Faulty = {}
  Crashing = {}
  Hosted = {}
  Dropped = {prov}
  Closing = {sub}
  Shutdowns = FALSE
  BootScopes <- BootSub
  BootFibers <- BootPair
  Running = {prov, dep}
INVARIANT DisposedScopeQuiet
