SPECIFICATION Spec
CONSTANTS
    N = 3
    Server = {0, 1, 2}
    Clerk = {clerk}
    Call = {c1}
    NoEnd = NoEnd
    MaxInstance = 2
    MaxOps = 4
INVARIANTS DurableInv AckedSurvives TellsSaved NoLateHandler PartitionSplits
PROPERTY CallReturns
