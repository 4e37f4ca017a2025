SPECIFICATION SourcesSpec
CONSTANTS
  s1 = s1
  s2 = s2
  s3 = s3
  i1 = i1
  i2 = i2
  h1 = h1
  h2 = h2
  None = None
  Sources = {s1, s2, s3}
  Identities = {i1, i2}
  ProbationSecs = 1
  MaxTime = 4
  HealthSources = {h1, h2}
  Interval = 1
  Window = 3
  MaxInactive = 1
  MinSources = 0
  Bonds = {0, 1}
  SlashAmount = 1
  RotationCooldown = 1
  MaxLedger = 3
  MaxHeld = 2
INVARIANTS OneHolderPerIdentity OffboardedStaysOut HealthBooked
PROPERTIES ProbationIsServed PunctualIsSafe
SYMMETRY Symmetry
