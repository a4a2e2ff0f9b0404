SPECIFICATION Spec
CONSTANTS
    MaxWindows = 3
    MaxData = 2
    MaxBytes = 3
    Size <- TwoSizes
    Tears = {"lost", "fragment", "bare", "whole"}
    Failures = {}
    MaxFaults = 2
    MaxRot = 0
    MaxAcks = 1
PROPERTY
    ChainIsForever
