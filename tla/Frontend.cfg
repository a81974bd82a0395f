SPECIFICATION MCSpec
CONSTANTS
    Words = 3
    Boot = 1
    Flows = {"Branch", "JumpR"}
    None = None
    QueueDepth = 2
    Depth = 3
    Data = {d1, d2, d3}
INVARIANTS TypeOK OnePath PointersAgree
PROPERTIES GivesOnePath KeepsGiving IsBoundedQueue
