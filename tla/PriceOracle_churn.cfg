CONSTANTS
  s1 = s1
  s2 = s2
  s3 = s3
  a1 = a1
  a2 = a2
  a3 = a3
  None = None
  Sources = {s1, s2, s3}
  Heartbeating = {s1, s2, s3}
  Assets = {a1}
  Prices = {1, 2, 4}
  Timestamps = {1}
  Quorums = {1, 2}
  Threshold = 0
  FreshnessSecs = 1
  Cooldown = 0
  InlineRecompute = 2
  EntryPoints <- ChurnEntryPoints
  MaxLedger = 1
  MaxVersion = 1
SYMMETRY Symmetry
SPECIFICATION ChurnSpec
INVARIANT PublishedWithinContributors
INVARIANT MajorityBoundsPrice
PROPERTY QuorumAtPublication
PROPERTY DepartureWithdraws
