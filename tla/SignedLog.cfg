SPECIFICATION Spec
CONSTANTS
    console = console
    command = command
    Processes = {console, command}
    SignsAppends = {console}
    Tears = {"lost", "fragment", "bare", "whole"}
    Failures = {"lost", "fragment", "bare", "whole"}
    MaxEvents = 3
    MaxStatements = 2
    MaxFaults = 2
INVARIANTS
    LossIsVisible
    WriterIsInformed
    HonestLogVerifies
    ReceiptsCheck
    TailIsExplained
PROPERTIES
    AnchorsStand
