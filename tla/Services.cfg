SPECIFICATION ServicesSpec
CONSTANTS
    Alsa = {a1, a2}
    Browsers = {b1, b2}
    Stops = {s1}
    Main = Main
    NoOne = NoOne
    MaxRetries = 2
    Askers = {r1}
    Announcer = Announcer
    EventCapacity = 2
    Settings = {x, y, z}
    ValidSettings = {x, y}
    Puts = {p1, p2}
    Absent = Absent
    Torn = Torn
    NoConfig = NoConfig
    Requests = {r1, r2}
    Loop = Loop
    Nothing = Nothing
    MaxFaults = 1
    Plugins = {q1}
    Nobody = Nobody
    Loads = {l1, l2}
    Uploads = {u1, u2}
    MaxLost = 1
INVARIANTS
    TypesOK
    FlagTruthful
    ConfigKept
    RowIsUnit
    OnlineIsUp
    UploadsInOrder
PROPERTIES
    ImplementsLock
    PttGoesOn
    ListsCatchUp
CHECK_DEADLOCK FALSE
