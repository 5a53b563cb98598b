SPECIFICATION FairSpec
CHECK_DEADLOCK FALSE
CONSTANTS
  prov = prov  dep = dep  spare = spare  sub = sub  svcA = svcA  svcB = svcB
  NONE = NONE
  Root = Root
  Fibers = {prov, dep}
  Scopes = {Root, sub}
  Services = {svcA}
  Parent <- TreeParent
  Owner <- TreeOwner
  ScopeOf <- TreeScopeOf
  Deps <- TreeDeps
  Provides <- TreeProvides
  Restart = {dep}
  Leased = {prov}
  Failing = {}
  Faulty = {}
  Crashing = {}
  Hosted = {}
  Dropped = {prov}
  Closing = {sub}
  Shutdowns = FALSE
  BootScopes <- BootSub
  BootFibers <- BootProv
  Running = {prov}
PROPERTIES DisposalsEnd InstallsEnd
