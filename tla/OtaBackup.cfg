SPECIFICATION Spec
CONSTANTS
    v3 = v3
    Versions = {v1, v2, v3}
    Broken <- MCBroken
    None = None
    Torn = Torn
    MaxFaults = 1
INVARIANTS
    BootKeepsGood
