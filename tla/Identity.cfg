SPECIFICATION CacheSpec
CONSTANTS
  Child = {p1}
  NoChild = NoChild
  File = {f1}
  Version = {v1, v2}
  Asked = v1
  Modes = {"research"}
  Missing = Missing
  Torn = Torn
  NoManifest = NoManifest
  MaxDeaths = 0
  MaxDamage = 0
  MaxEdits = 1
  FaultsLive = TRUE
INVARIANT
  ResultsMatchIdentity
