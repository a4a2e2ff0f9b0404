CONSTANTS
    op = op
    timer = timer
    NoNode = NoNode
    Operators = {op}
    Schedulers = {timer}
    Runs = {1, 2}
    Nodes <- MCNodes
    StartNode = "draft"
    TerminalNodes = {"done"}
    Edges <- Escalation
    Yields <- EscalationYields
    MaxSteps = 2
    MaxCrashes = 1
SPECIFICATION FairSpec
INVARIANTS
    HistoryIsWalk
    GatesHold
PROPERTIES
    TimeoutsFire
