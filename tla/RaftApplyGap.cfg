CONSTANTS
    SnapShotInterval = 3
    InstallWhileHanding = TRUE
    MaxIndex = 8
    MaxRestarts = 1
SPECIFICATION Spec
INVARIANT ApplyInOrder
CHECK_DEADLOCK FALSE
