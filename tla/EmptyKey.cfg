SPECIFICATION Spec
CONSTANTS
  Job = {j1, j2}
  Config = {a}
  Variant = {v1, v2}
  Key = {EmptyKey}
  EmptyKey = EmptyKey
  NoKey = NoKey
  Token = {k1}
  NoToken = NoToken
  NoRequest = NoRequest
  NoTask = NoTask
  NoJob = NoJob
  Worker = {w1}
  Client = {c1}
  MaxPending = 2
  LeaseSeconds = 1
  MaxAttempts = 1
  DispatchWindow = 1
  BackoffCap = 0
  DispatchLimit = 1
  MaxClock = 1
SYMMETRY Symmetry
INVARIANTS
  ReusedKeyIsConflict
