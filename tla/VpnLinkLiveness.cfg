SPECIFICATION FairSpec
CONSTANTS
    Peers = {p1}
    Objs = {o1, o2}
    Reqs = {r1}
    NoPeer = NoPeer
    NoObj = NoObj
    Cooldown = 1
    PendingTimeout = 1
    Capacity = 1
PROPERTIES
    Reconnects
    StuckLinkRescued
    ActiveReported
