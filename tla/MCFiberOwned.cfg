SPECIFICATION Spec
CHECK_DEADLOCK FALSE
CONSTANTS
  prov = prov  dep = dep  spare = spare  sub = sub  svcA = svcA  svcB = svcB
  NONE = NONE
  Root = Root
  Fibers = {prov, dep}
  Scopes = {Root, sub}
  Services = {svcA}
  Parent <- TreeParent
  Owner <- OwnedOwner
  ScopeOf <- TreeScopeOf
  Deps <- TreeDeps
  Provides <- TreeProvides
  Restart = {}
  Leased = {prov}
  Failing = {prov}
  Faulty = {}
  Crashing = {dep}
  Hosted = {prov}
  Dropped = {}
  Closing = {Root}
  Shutdowns = TRUE
  BootScopes <- Nothing
  BootFibers <- Nothing
  Running = {}
INVARIANTS TypeOK DrainBeforeCleanup VisibleCommitted NothingLeftBehind
           ScopeMembersEnd NoOrphanWaiter
PROPERTIES ClosedAdmitsNothing
