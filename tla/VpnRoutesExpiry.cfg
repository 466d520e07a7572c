SPECIFICATION FairSpec
CONSTANTS
    c1 = c1
    Peers = {p1}
    Cidrs = {c1}
    OwnTunnel = {}
    Overlaps <- MCOverlaps
    Workers = {w1, w2}
    Grace = 1
    MaxFaults = 0
    NoPeer = NoPeer
PROPERTIES
    ExpiredDropped
