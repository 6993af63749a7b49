CONSTANTS
    buy = buy
    sell = sell
    plant = plant
    harvest = harvest
    reward = reward
    gift = gift
    stolen = stolen
    pet1 = pet1
    pet2 = pet2
    s1 = s1
    s2 = s2
    s3 = s3
    NoOp = NoOp
    Slot = {s1, s2, s3}
    MaxAttempts = 2
    StartCoins = 2
    StartSeeds = 1
    SeedPrice = 1
    SellPrice = 1
    Yield = 1
    Reward = 1
    Gift = 1
    Stolen = 1
    PetPrice = 2
    Op <- MCOp
    Kind <- MCKind

SPECIFICATION MCSpec
SYMMETRY Symmetry

INVARIANTS
    Accounted
    TakesEffectOnce
    NoDeadlock
