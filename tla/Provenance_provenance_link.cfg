SPECIFICATION Spec
CONSTANTS
    ProvPrices = {1}
    HistoryCaps = {3}
    MaxProvLedger = 3
INVARIANT GenuineVerifies
