SPECIFICATION Spec
CONSTANTS
  Job = {j1, j2}
  Config = {a, b}
  Variant = {v}
  Key = {key, EmptyKey}
  EmptyKey = EmptyKey
  NoKey = NoKey
  Token = {k1, k2}
  NoToken = NoToken
  NoRequest = NoRequest
  NoTask = NoTask
  NoJob = NoJob
  Worker = {w1}
  Client = {c1, c2}
  MaxPending = 3
  LeaseSeconds = 1
  MaxAttempts = 2
  DispatchWindow = 1
  BackoffCap = 0
  DispatchLimit = 1
  MaxClock = 3
SYMMETRY Symmetry
CONSTRAINT Situation
INVARIANTS
  AdmissionBound
  JobMatchesTasks
PROPERTIES
  RetriedSubmitFindsItsJob
