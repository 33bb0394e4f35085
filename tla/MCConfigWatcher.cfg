CONSTANTS
    a = a
    b = b
    u = u
    da = da
    db = db
    HostName = {a, b}
    Upstream = {u}
    NoUpstream = NoUpstream
    None = None
    Canonical <- MCCanonical
    Config <- MCConfig
    Broken = Broken
    Missing = Missing
    OtherHosts = {b}
    MaxSaves = 3

SPECIFICATION FairSpec

\* The start may fail and the daemon may exit.
CHECK_DEADLOCK FALSE

INVARIANTS
    TypeOK
    RoutesOfOneConfig
    DomainFitsRoutes

PROPERTIES
    CurrentAdvancesInTurn
    WatchedSaveIsLoaded
