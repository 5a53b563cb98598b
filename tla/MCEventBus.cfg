CONSTANTS
  a = a  b = b  c = c  g1 = g1  g2 = g2  plug = plug
  Handlers = {a, b, c}
  Gens = {g1, g2}
  GenOf <- MCGenOf
  PluginOf <- MCPluginOf
  Dispatchers = {d1}
  MaxSlots = 3
  NONE = NONE
SPECIFICATION Spec
INVARIANTS
  NoLostRegistration
  OneGeneration
  RemovedNotRunning
  Delivered
