CONSTANTS
    Free = Free
    Client = {a, b, d}
    Key = {l}
    lockKey = l
    Value = {a, b, d, Free}
    NoValue = NoValue
    MaxVersion = 4
SPECIFICATION LockSpec
INVARIANTS LockInv MutualExclusion HolderOnServer ReleaseReleases
PROPERTIES SomeoneGetsTheLock
