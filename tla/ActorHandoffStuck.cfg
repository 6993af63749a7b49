CONSTANTS
    a1 = a1
    a2 = a2
    a3 = a3
    b1 = b1
    b2 = b2
    c1 = c1
    d1 = d1
    w1 = w1
    w2 = w2
    NoTask = NoTask
    IngressCap = 1
    FarmQueueCap = 1
    ReadyCap = 1
    MaxActiveActors = 4
    Worker = {w1}
    Shard = {1, 2}
    Farm = {"A", "B", "C", "D"}
    Task <- HandoffTask
    FarmOf <- HandoffFarmOf
    ShardOf <- HandoffShardOf

SPECIFICATION FairSpec
CHECK_DEADLOCK FALSE
CONSTRAINT HandoffConstraint

PROPERTY HandoffEnds
