CONSTANTS
    NShards = 5
    MaxGid = 3
    MaxGids = 2
    MaxNum = 5
SPECIFICATION Spec
INVARIANT CheckConfig
PROPERTY NoNeedlessMove
