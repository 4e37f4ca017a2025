SPECIFICATION GovernanceSpec
CONSTANTS
  g1 = g1
  g2 = g2
  g3 = g3
  x = x
  None = None
  Addresses = {g1, g2, g3}
  Rotations <- MCRotations
  Durations = {0, 1}
  MaxOps = 3
  MaxLedger = 2
  Accounts = {g1, g2, x}
  GuardianLists <- MCGuardianLists
  Thresholds = {1, 2}
  Delays = {1, 2}
  Switches <- MCSwitches
  EmergencyTerms = {1}
  Horizon = 2
INVARIANTS QueueThreadsPending ApprovalsAreCurrent TimelockRunsOnQuorum
INVARIANTS RecoveryStandsOnGuardians AnnouncedDelayHolds
PROPERTIES PromiseKept GuardiansPrevail ServiceReturns
