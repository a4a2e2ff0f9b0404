CONSTANTS
    States = {low, high}
    Profiles <- MCProfiles
    Delay = 2
    MaxTime = 6
SPECIFICATION Spec
INVARIANTS
    WindowIsExact
    BoundedStaleness
    ParksOnlyOnLoss
