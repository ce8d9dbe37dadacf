SPECIFICATION FairSpec
CONSTANTS
  Job = {j1}
  Config = {c1}
  Worker = {w1, w2}
  NoTask = NoTask
  MaxAttempts = 2
  MaxPending = 1
  MaxFaults = 2
PROPERTIES
  Settles
  QueueDrains
  NothingLingers
