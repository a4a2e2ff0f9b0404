CONSTANTS
    Runs <- MCRuns
    RootFlow = "reviews"
    Nodes <- MCNodes
    End = "end"
    FanOuts <- MCFanOuts
    NodesOf <- MCNodesOf
    Then <- MCThen
    Late <- MCLate
    Child <- MCChild
    Items <- MCItems
    Join <- MCJoin
    Gated = {"reviews"}
    Yields <- MCYields
    MaxFaults = 2
SPECIFICATION FairSpec
CHECK_DEADLOCK FALSE
INVARIANTS
    NothingTwice
PROPERTIES
    JoinIsEarned
    EarnedJoinsAreDelivered
