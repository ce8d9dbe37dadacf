SPECIFICATION Spec
CONSTANTS
  Job = {j1, j2}
  Config = {a, b}
  NoJob = NoJob
  Reader = {r1}
  MaxAttempts = 1
  Doc = {d1, d2}
  NoDoc = NoDoc
  Strategy = {s1, s2, s3}
  AllStrategies = all
  NoStrategy = NoStrategy
  Modes = {"single", "compare"}
  Question = {q1, q2}
  None = None
  Impatient = FALSE
  Chunker = {fixed, recursive}
  Noise = {clean, severe}
  Severe = severe
  Metric = {hit, mrr}
  Statistic = {mean, difference}
  Unreadable = Unreadable
  Situations <- SmallSituations
  Copies <- Editions
SYMMETRY Symmetry
INVARIANTS
  TypeOK
  AnswersAreFinal
  PageIsHonest
  FinalViewsAgree
  EvidenceBelongs
  PanelsAgree
  ShownWasOnDisk
