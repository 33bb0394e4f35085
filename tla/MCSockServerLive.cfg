CONSTANTS
    a = a
    b = b
    bad = bad
    m = m
    u = u
    c1 = c1
    c2 = c2
    HostName = {a, b, bad}
    ValidHostToken = {a, b}
    Upstream = {u}
    NoUpstream = NoUpstream
    None = None
    Canonical <- MCCanonical
    Conn = {c1, c2}
    Name = {m}
    NoName = NoName
    Message <- LivenessMessages
    MaxInbox = 1
    ConfigEntries <- NoReload


SPECIFICATION FairSpec

\* Every connection is used once and the daemon ends.
CHECK_DEADLOCK FALSE

PROPERTIES
    GoneClientsAreCleanedUp
    SilentClientsAreReleased
    ShutdownIsCarriedOut
