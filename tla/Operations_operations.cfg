SPECIFICATION Spec
CONSTANTS
    Delays = {0, 2}
    BatchFloor = 1
    Quorums = {1, 2}
    MaxConfig = 2
    MaxOps = 1
    MaxVersions = 3
    MaxSequence = 2
    Gateways = {"x", "y"}
    LocalAssets = {"A", "B"}
    ForeignAssets = {"f", "g"}
    ClockTolerance = 0
    MaxBridgeTime = 1
    Observed = {0, 100, 103, 120}
    QuorumRounds = {1}
    FeedAssets = {"a", "b", "c"}
    BasketKeys = {"x"}
    FeedPrices = {7}
    BasePrices = {0, 3}
    BaseStamps = {0}
    Scale = 10
    WeightScale = 10
    Constituents = {"a", "b"}
    PartWeights = {3, 7}
    MaxConstituents = 2
    AgeLimits = {2}
    DefaultAgeLimit = 1
    Threshold = 1
    MaxFeedTime = 2
    Listable = {"a", "b", "c"}
    AssetCaps = {2}
    DefaultCap = 3
    PageSizes = {1, 2}
    MaxPage = 2
    BatchSizes = {1, 0}
    DefaultBatch = 2
    MaxRemovals = 2
    Consumers = {"x", "y"}
    TickPrices = {100, 120}
    MaxCallbacks = 2
    TriggerCounts = {0, 2}
    TriggerBps = {1000}
    TriggerGaps = {1}
    MaxDelivery = 1
    Accounts = {"x", "y"}
    FirstOwner = "x"
    Roles = {0, 1}
    GovernorOps = {"p", "q"}
    MaxEpoch = 2
    Sources = {"p", "q"}
    Priced = {"a"}
    SigningKeys = {"k"}
    SourceCaps = {1}
    Verifiable = {"p"}
    Applicants = {"p"}
    Candidates = {"q"}
    Signers = {"p"}
    MaxNonce = 2
    MaxProposals = 1
    Fleet <- MCFleet
    IngestKeys = {"k1", "k2"}
    FailureThreshold = 2
    CooldownSecs = 1
    MaxOutages = 2
    MaxTimeouts = 1
    None = None
INVARIANTS
    AuthorityHolds
    AppliedOnce
    FeedsExact
    ListsExact
    DampingBounded
PROPERTIES
    CallbacksHear
