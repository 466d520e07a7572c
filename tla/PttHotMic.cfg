SPECIFICATION PageSpec
CONSTANTS
    MaxRetries = 1
INVARIANTS
    ReleaseStops
