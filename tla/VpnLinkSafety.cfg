SPECIFICATION Spec
CONSTANTS
    Peers = {p1}
    Objs = {o1, o2}
    Reqs = {r1, r2}
    NoPeer = NoPeer
    NoObj = NoObj
    Cooldown = 1
    PendingTimeout = 1
    Capacity = 1
SYMMETRY Symmetry
INVARIANTS
    NoLeakedGuard
    ActiveMeansUp
