CONSTANTS
    s1 = s1
    s2 = s2
    s3 = s3
    c1 = c1
    Server = {s1, s2, s3}
    Command = {c1}
    Nil = Nil
    MaxTerm = 4
    MaxIndex = 2
    MaxCalls = 2
    MaxPendingElections = 1
    MaxRestarts = 0
    Electable = {s1, s2}
    SnapshotIndex = {}
SPECIFICATION DivergedSpec
VIEW LiveState
CONSTRAINT InTurn
INVARIANTS LogMatching StateMachineSafety LeaderCompleteness
PROPERTY CommittedForever
CHECK_DEADLOCK FALSE
