SPECIFICATION Spec
CONSTANTS
    OptPrices = {0, 1, 2}
    OptBonds = {1, 2}
    Windows = {1, 2}
    MaxDispute = 1
    MaxProposals = 2
    Relayers = {"r"}
    Challengers = {"c", "d"}
    Sources = {"s"}
    Bonds = {0, 1, 3}
    SlashPercents = {50}
    Wallet = 4
    Nonces = {1}
    Lifetimes = {0}
    Fees = {0, 1}
    MaxFailures = 1
    MaxSubmissions = 2
    MaxLegs = 2
    ChallengedAssets = {"a", "b"}
    Expected = {0, 1, 2000}
    PerChallenger = 2
    PerAsset = 2
    MaxStrikes = 1
    MaxChallenges = 3
    ChannelSources = {"s1", "s2"}
    Keys = {"k1", "k2"}
    ChannelTokens = {"t1", "t2"}
    Deposits = {1, 2}
    MaxNonce = 3
    Timeout = 1
    FeeSources = {"s1", "s2"}
    Amounts = {0, 1, 3}
    Stamps = {1, 2}
    Ratios = {50, 80}
    MaxProcess = 2
    MaxEnqueued = 3
    Durations = {1}
    PlanPrices = {2}
    Ceilings = {1, 2}
    Periods = {1, 2}
    RenewalNonces = {1, 3}
    Allowance = {3}
    MaxTime = 2
INVARIANT BooksExact
INVARIANT RenewalsBounded
PROPERTY ProposalsSettle
