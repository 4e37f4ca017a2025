SPECIFICATION Spec
CONSTANTS
    Quotes = {3, 8}
    Counts = {2}
    MinSources = 2
    Resolution = 2
    ReadAges = {0}
    WindowLedgers = 1
    Samplings = {2}
    RetainedWindows = 2
    TwapFloors = {2}
    OverrideTerms = {1}
    MaxLedgers = 4
    MaxReads = 1
INVARIANT ConcentrationReported
