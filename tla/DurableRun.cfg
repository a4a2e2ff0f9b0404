CONSTANTS
    op = op
    timer = timer
    NoNode = NoNode
    Operators = {op}
    Schedulers = {op}
    Runs = {1, 2}
    Nodes <- MCNodes
    StartNode = "draft"
    TerminalNodes = {"done"}
    Edges <- MCEdges
    Yields <- MCYields
    MaxSteps = 2
    MaxCrashes = 2
SPECIFICATION Spec
INVARIANTS
    TypeOK
    WorkIsDurable
PROPERTIES
    AsIfUninterrupted
