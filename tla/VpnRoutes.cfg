SPECIFICATION Spec
CONSTANTS
    c1 = c1
    Peers = {p1, p2}
    Cidrs = {c1}
    OwnTunnel = {}
    Overlaps <- MCOverlaps
    Workers = {w1, w2}
    Grace = 1
    MaxFaults = 1
    NoPeer = NoPeer
SYMMETRY Symmetry
INVARIANTS
    RouterCurrent
    InstalledPresent
