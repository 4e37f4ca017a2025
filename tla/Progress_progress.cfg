SPECIFICATION Spec
CONSTANTS
    s1 = s1
    s2 = s2
    a1 = a1
    a2 = a2
    r1 = r1
    r2 = r2
    k1 = k1
    k2 = k2
    None = None
    ForkAt = 3
    BatchSize = 2
    MaxBuffered = 2
    MaxBytes = 3
    Careless = FALSE
    MaxFaults = 3
INVARIANTS
    IndexExact
PROPERTY WorkIsFinished
