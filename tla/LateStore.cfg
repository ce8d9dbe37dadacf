SPECIFICATION WorkspaceSpec
CONSTANTS
  Doc = {d1}
  NoDoc = NoDoc
  Strategy = {s1, s2}
  AllStrategies = all
  NoStrategy = NoStrategy
  Modes = {"single"}
  Question = {q1}
  None = None
  Impatient = TRUE
INVARIANT
  EvidenceBelongs
