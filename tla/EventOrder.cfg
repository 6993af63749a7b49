CONSTANTS
    r1 = r1
    r2 = r2
    m1 = m1
    m2 = m2
    Scenario = {"all"}
    MaxFaults = 0
    MaxMoves = 0
    BatchSize = 2
    Event = {1, 2}
    KeyOf <- OneFarm
    Relay = {r1, r2}
    MaxRetry = 1
    Poison = {}
    Member = {m1}
    MaxTries = 1

SPECIFICATION MCSpec

INVARIANT FarmEventsInOrder
