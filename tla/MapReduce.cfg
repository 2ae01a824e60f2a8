CONSTANTS
    Worker = {w1, w2}
    nMap = 2
    nReduce = 2
    MaxFaults = 2
    MaxTimeouts = 1
SPECIFICATION Spec
INVARIANTS CountersExact ReduceAfterMap CompletedMapFilesWhole OutputRight
PROPERTY JobFinishes
CHECK_DEADLOCK FALSE
