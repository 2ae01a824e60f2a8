CONSTANTS
    s1 = s1
    s2 = s2
    s3 = s3
    c1 = c1
    Server = {s1, s2, s3}
    Command = {c1}
    Nil = Nil
    MaxTerm = 3
    MaxIndex = 3
    MaxCalls = 2
    MaxPendingElections = 1
    MaxRestarts = 0
    Electable = {s1, s3}
    SnapshotIndex = {2}
SPECIFICATION TrimmedSpec
VIEW LiveState
INVARIANTS ElectionInv ElectionSafety StateMachineSafety NextIndexInRange
PROPERTY LeaderAppendOnly
CHECK_DEADLOCK FALSE
