SPECIFICATION FairSpec
CONSTANTS
  Period = 3
  Window = 9
  MaxWait = 6
  MaxMissed = 1
  MaxTime = 26
  Question = {q1, q2, other}
  Expected = {q1, q2}
  ExpectedCount = 2
  VerifiedCount = 1
  MaxLines = 4
  Child = {p1, p2, p3}
  NoChild = NoChild
  File = {f1, f2, f3}
  Version = {v1, v2}
  Asked = v1
  Modes = {"research", "smoke"}
  Missing = Missing
  Torn = Torn
  NoManifest = NoManifest
  MaxDeaths = 2
  MaxDamage = 1
  MaxEdits = 2
  FaultsLive = FALSE
INVARIANTS
  LiveRowIsRecent
  GoneIsNoticed
  PublishedExactlyIfRight
  SumsAreOfTheRows
  CacheTypeOK
  GenerationsAreWhole
  ResultsMatchIdentity
PROPERTIES
  CertifiedIsImmutable
  LockIsPassedOn
