CONSTANTS
    c = c
    f1 = f1
    f2 = f2
    f3 = f3
    Nodes = {c, f1, f2, f3}
    Coordinators = {c}
    Testers = {f1}
    PolicyA = A
    PolicyB = B
    Bad = Bad
    VersionA = 1
    VersionB = 2
    ExpectAcks = 3
    RxQueue = 4
    MaxSeq = 1
    Lossy = FALSE
    Reboots = {}
SPECIFICATION FairSpec
CHECK_DEADLOCK FALSE
PROPERTIES
    RolloutCompletes
