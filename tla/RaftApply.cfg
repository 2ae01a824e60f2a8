CONSTANTS
    SnapShotInterval = 3
    InstallWhileHanding = FALSE
    MaxIndex = 8
    MaxRestarts = 1
SPECIFICATION Spec
INVARIANTS HandoverInv ApplyInOrder
PROPERTIES ServiceForward CommittedGetsApplied
CHECK_DEADLOCK FALSE
