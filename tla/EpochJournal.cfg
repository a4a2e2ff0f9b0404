SPECIFICATION FairSpec
CONSTANTS
    MaxWindows = 3
    MaxData = 2
    MaxBytes = 2
    Size <- TwoSizes
    Tears = {"lost", "fragment", "whole"}
    Failures = {"lost"}
    MaxFaults = 2
    MaxRot = 1
    MaxAcks = 2
INVARIANTS
    TypeOK
    EveryLossIsRecorded
    AckedIsVerified
    OpensAgain
    MemoryIsDisk
PROPERTIES
    KeepsPromise
    AcksFinish
