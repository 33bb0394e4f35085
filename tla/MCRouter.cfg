CONSTANTS
    a = a
    A = A
    b = b
    c = c
    config = config
    conn = conn
    manual = manual
    u1 = u1
    u2 = u2
    HostName = {a, A, b, c}
    Source = {config, conn, manual}
    Upstream = {u1, u2}
    NoUpstream = NoUpstream
    None = None
    Canonical <- MCCanonical
    MaxEntries = 2

SYMMETRY Symmetry

SPECIFICATION Spec

INVARIANTS
    TypeOK
    IndexesAgree
    LookupAgreesWithSnapshot

PROPERTIES
    NoTakeover
    ImplementsRouteTable
