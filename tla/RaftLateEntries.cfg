CONSTANTS
    s1 = s1
    s2 = s2
    s3 = s3
    c1 = c1
    Server = {s1, s2}
    Command = {c1}
    Nil = Nil
    MaxTerm = 1
    MaxIndex = 2
    MaxCalls = 2
    MaxPendingElections = 1
    MaxRestarts = 0
    Electable = {s1}
    SnapshotIndex = {2}
SPECIFICATION Spec
VIEW LiveState
INVARIANT NoSlicePanic
CHECK_DEADLOCK FALSE
