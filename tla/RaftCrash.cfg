CONSTANTS
    s1 = s1
    s2 = s2
    s3 = s3
    c1 = c1
    Server = {s1, s2, s3}
    Command = {c1}
    Nil = Nil
    MaxTerm = 1
    MaxIndex = 2
    MaxCalls = 2
    MaxPendingElections = 1
    MaxRestarts = 1
    Electable = {s1}
    SnapshotIndex = {2}
SPECIFICATION Spec
SYMMETRY Symmetry
VIEW LiveState
INVARIANTS StorageInv CommittedOnMajority MatchIndexTruthful CommitWithinLog
PROPERTY VoteOnce
CHECK_DEADLOCK FALSE
