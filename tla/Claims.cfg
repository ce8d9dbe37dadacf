SPECIFICATION Spec
CONSTANTS
  Job = {j1}
  Config = {a}
  Variant = {v}
  Key = {}
  EmptyKey = EmptyKey
  NoKey = NoKey
  Token = {k1, k2}
  NoToken = NoToken
  NoRequest = NoRequest
  NoTask = NoTask
  NoJob = NoJob
  Worker = {w1, w2}
  Client = {c1}
  MaxPending = 1
  LeaseSeconds = 1
  MaxAttempts = 2
  DispatchWindow = 1
  BackoffCap = 1
  DispatchLimit = 1
  MaxClock = 4
SYMMETRY Symmetry
INVARIANTS
  TypeOK
  ClaimsMatchAttempts
  OneOwner
  SingleResult
  AttemptBudget
  RetrySpacing
PROPERTIES
  OnlyOwnerWrites
  LeaseIsKept
  TerminalIsFinal
  ImplementsLedger
