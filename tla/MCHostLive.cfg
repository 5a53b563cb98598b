CONSTANTS
  Invokers = {i1}
  LocalLimits <- MCLocalLimits
  ControlMax = 1
  HandshakeMax = 1
  PeerLimits <- MCPeerLimits
  QueueCap = 1
  PipeCap = 2
  OutputCap = 1
  MaxId = 6
  LoadSizes = {1}
  InvokeSizes = {2}
  ReplySizes = {1}
  PeerReports = {"domain", "ProcessExited"}
SPECIFICATION FairSpec
PROPERTY SessionEnds
