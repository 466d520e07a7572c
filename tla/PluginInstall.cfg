SPECIFICATION Spec
CONSTANTS
    Versions = {v1, v2}
    None = None
    Torn = Torn
    v2 = v2
    Linked <- MCLinked
    MaxFaults = 1
INVARIANTS
    AllOrNothing
    NeverLost
    RecoveredAtBoot
