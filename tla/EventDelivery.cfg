CONSTANTS
    r1 = r1
    r2 = r2
    m1 = m1
    m2 = m2
    Scenario = {"relays", "group"}
    MaxFaults = 1
    MaxMoves = 1
    BatchSize = 2
    Event = {1, 2}
    KeyOf <- TwoFarms
    Relay = {r1, r2}
    MaxRetry = 1
    Poison = {2}
    Member = {m1, m2}
    MaxTries = 2

SPECIFICATION MCSpec

INVARIANTS
    RelaysInStep
    CommittedIsSettled
    CreditedOnce

PROPERTIES
    EveryEventEnds
CHECK_DEADLOCK FALSE
