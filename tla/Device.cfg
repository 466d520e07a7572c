SPECIFICATION DeviceSpec
CONSTANTS
    v1 = v1
    v2 = v2
    la = la
    Clients = {c1, c2}
    GoodHashes = {p1}
    BadHash = BadHash
    RouteLists = {ra, rb}
    MaxFaults = 1
    Nobody = Nobody
    Pages = {b1, b2}
    NoPage = NoPage
    MaxVolume = 3
    Device <- MCDevice
    Peers = {p1}
    Saves = {s1, s2}
    MaxPings = 2
    MaxTimers = 2
    Upgrades = {g1, g2, g3}
    Broken = {g1}
    Shipped = Shipped
    NoFile = NoFile
    MaxErrors = 2
    MaxLines = 5
    MaxFiles = 2
    CertPresent = TRUE
    Plugins = {q1, q2}
    Versions = {v1, v2}
    Links = {la}
    LinkOf <- MCLinkOf
    NoVersion = NoVersion
SYMMETRY Symmetry
INVARIANTS
    TypesOK
    SettingsKept
    ShownAsAsked
    UpgradeSafe
    PackageKept
    RolledBackAlone
PROPERTIES
    VpnPageAgrees
CHECK_DEADLOCK FALSE
