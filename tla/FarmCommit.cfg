CONSTANTS
    plant = plant
    again = again
    water = water
    pet = pet
    i1 = i1
    i2 = i2
    s1 = s1
    s2 = s2
    NoCmd = NoCmd
    Key = {1, 2}
    MaxAttempts = 2
    MaxEpoch = 2
    MaxTurn = 1
    MaxInFlight = 1
    Cmd <- MCCmd
    KeyOf <- MCKeyOf
    Kind <- MCKind
    Inst <- MCInst
    Slot <- MCSlot

SPECIFICATION MCSpec
SYMMETRY Symmetry

INVARIANTS
    AppliedAtMostOnce
    AppliedToSeenVersion
    AckedIsApplied
    EpochsInOrder
    WritersFenced

PROPERTIES
    HotNeverRewinds
    ImplementsLedger
