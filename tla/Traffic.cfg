SPECIFICATION TrafficSpec
CONSTANTS
    Gateways = {g1, g2}
    NoGateway = NoGateway
    Width = 3
    Network <- MCNetwork
    Offered <- MCOffered
    Seeds = {0, 5}
    FirstAlias = 2
    LastAlias = 4
    Nodes = {n1, n2}
    NoNode = NoNode
    MaxPackets = 2
    Here = Here
    There = There
    Ports = {p1, p2}
    Capacity = 1
    MaxDatagrams = 2
    Links = {l1, l2}
    PacketFrames = 2
    QueueFrames = 2
    MaxFrames = 4
    MaxAir = 1
    Settings = {sa, sb}
    Putters = {u1, u2}
    Segments = 2
    QueueSize = 1
    RxCapacity = 1
    MaxFaults = 1
    Nobody = Nobody
    Sockets = {w1, w2}
    Keep = 2
    FeedCapacity = 2
    MaxFed = 3
    Ids = {i1, i2}
    LogCapacity = 2
    MaxData = 2
    NoId = NoId
INVARIANTS
    TypesOK
    PacketsAttributed
    PacketsAccounted
    NoEcho
    VoiceInOrder
    RadioConsistent
    FeedCatchesUp
    LinksShown
    DataCounted
CHECK_DEADLOCK FALSE
