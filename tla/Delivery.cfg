SPECIFICATION Spec
CONSTANTS
  Job = {j1, j2}
  Config = {c1}
  Worker = {w1}
  NoTask = NoTask
  MaxAttempts = 2
  MaxPending = 2
  MaxFaults = 1
SYMMETRY Symmetry
INVARIANTS
  TypeOK
  DeliveriesBounded
PROPERTIES
  PlatformKeepsLedger
