SPECIFICATION Spec
CONSTANTS
    Durations = {1}
    PlanPrices = {2}
    Ceilings = {1, 2}
    Periods = {2}
    RenewalNonces = {1, 2, 3}
    Allowance = {3}
    MaxTime = 2
    FeeSources = {}
    Amounts = {}
    Stamps = {}
    Ratios = {}
    MaxProcess = 1
    MaxEnqueued = 0
INVARIANT RenewalsWithinMandate
