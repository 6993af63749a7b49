SPECIFICATION MCSpec
CONSTANTS
    Plot = {1, 2}
    Duration = 3
    Yield = 3
    Parts = 3
    Scanner = {s1, s2}
    Nobody = Nobody
    Never = Never
    Interval = 2
    Jitter = 1
    LeaseTTL = 1
    MaxFaults = 2
INVARIANTS
    CropsConserved
PROPERTIES
    PetPaced
    PetGetsRound
