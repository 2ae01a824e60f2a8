CONSTANTS
    s1 = s1
    s2 = s2
    s3 = s3
    c1 = c1
    Server = {s1, s2, s3, s4}
    Command = {c1}
    Nil = Nil
    MaxTerm = 2
    MaxIndex = 0
    MaxCalls = 4
    MaxPendingElections = 2
    MaxRestarts = 0
    Electable = {s1, s2}
    SnapshotIndex = {}
SPECIFICATION Spec
SYMMETRY Symmetry
VIEW LiveState
CONSTRAINT VotesOnly
INVARIANT ElectionSafety
CHECK_DEADLOCK FALSE
