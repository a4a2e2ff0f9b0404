CONSTANTS
    Hosts = {cli}
    Swappers = {cli}
    Attesters = {cli}
    Unsigned = {}
    imgA = imgA
    imgB = imgB
    Images = {imgA, imgB}
    NoImage = NoImage
    SignedPacks <- MCPacks
    EventBound <- Appends
    LogBound = 3
SPECIFICATION Spec
INVARIANT
    FloorIsExplained
