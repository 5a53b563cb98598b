CONSTANTS
  Invokers = {i1, i2}
  LocalLimits <- MCLocalLimits
  ControlMax = 1
  HandshakeMax = 1
  PeerLimits <- MCPeerLimits
  QueueCap = 1
  PipeCap = 2
  OutputCap = 2
  MaxId = 6
  LoadSizes = {1}
  InvokeSizes = {2}
  ReplySizes = {1, 2}
  PeerReports = {"domain", "ProcessExited"}
SPECIFICATION Spec
INVARIANTS
  PermitsConserved
  NoOrphanCall
  IssuedNotFuture
  Correlated
PROPERTIES
  TerminalFinal
