SPECIFICATION Spec
CONSTANTS
    Signallers = {"a", "b"}
    MaxBlackout = 2
    MinNotice = 1
    Cooldown = 2
    SignalWindow = 1
    VolatilityBlackout = 1
    VolatilityQuorums = {2}
    MaxClock = 6
    Medians = {100, 110, 130}
    PeerPrices = {100}
    Tolerance = 600
    Depegs = {1}
    Prices = {100, 103}
    Thresholds = {0, 100}
    Caps = {1}
    DefaultHistory = 3
    Parties = {"adm", "p"}
    Admin = "adm"
    LedgersPerBucket = 2
    DowngradeDelay = 1
    Approvals = 1
    MaxEvents = 1
    MaxLedger = 3
    FinPrices = {1, 2}
    Horizons = {1}
    DefaultHorizon = 2
    CorrectionWindow = 1
    MaxCorrections = 2
    MaxFinLedger = 3
    Committers = {"a", "b"}
    Quotes = {7}
    CommitWindows = {1}
    RevealWindows = {2}
    FirstCommitWindow = 2
    FirstRevealWindow = 1
    SlashAmounts = {1}
    InitialBond = 1
    LastLedger = 3
    ProvPrices = {1, 2}
    HistoryCaps = {0, 2}
    MaxProvLedger = 4
    ReadPrices = {3, 8}
    Counts = {1, 2}
    MinSources = 2
    Resolution = 2
    ReadAges = {0, 1}
    WindowLedgers = 1
    Samplings = {2}
    RetainedWindows = 2
    TwapFloors = {2}
    OverrideTerms = {1}
    MaxLedgers = 4
    MaxReads = 1
    s1 = s1
    s2 = s2
    a1 = a1
    None = None
INVARIANTS
    TimesRespected
    HistoryReadable
    ReadsExact
    RoundsAreBlind
PROPERTY RoundsRespectGates
