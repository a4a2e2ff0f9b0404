CONSTANTS
    Hosts = {cli, console}
    Swappers = {cli}
    Attesters = {console}
    Unsigned = {imgA}
    imgA = imgA
    imgB = imgB
    Images = {imgA, imgB}
    NoImage = NoImage
    SignedPacks <- MCPacks
    EventBound <- Appends
    LogBound = 3
SPECIFICATION Spec
INVARIANTS
    TypeOK
    FloorCoversEvidence
    AcceptedInOrder
    ActiveHasEvidence
    InterruptedSwapMayFinish
    FreshHostRestoresActive
PROPERTIES
    ImplementsPromise
