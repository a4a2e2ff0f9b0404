CONSTANTS
    c = c
    f1 = f1
    f2 = f2
    f3 = f3
    Nodes = {c, f1, f2}
    Coordinators = {c}
    Testers = {}
    PolicyA = A
    PolicyB = B
    Bad = Bad
    VersionA = 1
    VersionB = 2
    ExpectAcks = 2
    RxQueue = 1
    MaxSeq = 2
    Lossy = TRUE
    Reboots = {c}
SPECIFICATION Spec
SYMMETRY FollowerSymmetry
INVARIANTS
    AllStagedFirst
PROPERTIES
    FollowerFloorNeverFalls
