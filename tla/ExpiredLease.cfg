SPECIFICATION Spec
CONSTANTS
  Job = {j1}
  Config = {a}
  Variant = {v}
  Key = {}
  EmptyKey = EmptyKey
  NoKey = NoKey
  Token = {k1}
  NoToken = NoToken
  NoRequest = NoRequest
  NoTask = NoTask
  NoJob = NoJob
  Worker = {w1}
  Client = {c1}
  MaxPending = 1
  LeaseSeconds = 1
  MaxAttempts = 1
  DispatchWindow = 1
  BackoffCap = 0
  DispatchLimit = 1
  MaxClock = 4
SYMMETRY Symmetry
PROPERTIES
  ExpiredLeaseIsFailure
