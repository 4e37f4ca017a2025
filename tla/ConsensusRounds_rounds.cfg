SPECIFICATION BothSpec
CONSTANTS
  s1 = s1
  s2 = s2
  s3 = s3
  None = None
  Sources = {s1, s2, s3}
  Faulty = {s3}
  Prices = {100, 101, 200}
  HonestPrices = {101}
  Configs <- RoundsConfigs
  disabled <- MCdisabled
  MaxRound = 2
  MaxLedger = 3
  MaxVotes = 3
  MaxReports = 1
  Reporters = {"a", "b", "c", "d"}
  Suspect = "d"
  Methods = {1, 4}
  MinQuorums = {3}
  RiskTiers = {2}
  FreshWindows = {100}
  InfluenceCaps = {4000}
  Tolerances = {1}
  Period = 150
  LastInstant = 1
  MaxSettings = 2
  Offers <- MCOffers
  Volume <- MCVolume
  Overrides <- MCOverrides
  OutlierConfigs <- MCOutlierConfigs
  FreshnessCurves <- MCFreshnessCurves
INVARIANTS EvidenceExact TallyFollowsHonestMajority ConfirmedStandsOnTallies AggregateBounded
PROPERTY RecordStands
SYMMETRY Symmetry
