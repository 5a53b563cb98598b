CONSTANTS
  Threads = {t1, t2}
  Gens = {g1, g2}
  NONE = NONE
  MaxInflight = 2
SPECIFICATION FairSpec
INVARIANTS
  TypeOK
  LeaseAccounting
  VisibleAccepts
PROPERTIES
  AdmissionFence
  RetiredStaysHidden
  AdmissionSpec
  NoLostWakeup
  RetiredDrains
