CONSTANTS
    e1 = e1
    e2 = e2
    e3 = e3
    i1 = i1
    ha = ha
    haL = haL
    hb = hb
    hB = hB
    hd = hd
    u1 = u1
    v1 = v1
    web = web
    api = api
    localhost = localhost
    HostName = {ha, haL, hb, hB, hd}
    Upstream = {u1, v1}
    NoUpstream = NoUpstream
    None = None
    Canonical <- MCCanonical
    Exposer = {e1, e2, e3}
    Creator = {i1}
    Extra <- MCExtra
    Name = {web, api}
    NameOf <- MCNameOf
    Block <- MCBlock
    DomainFlag <- MCDomainFlag
    Domain = {localhost}
    NoDomain = NoDomain
    FileDomain = localhost
    Qualified <- MCQualified
    NoOne = NoOne
    NoFile = NoFile
    Garbled = Garbled
    MaxEdits = 1
    MaxStarts = 2

SPECIFICATION Spec

\* Every command runs once and the daemon may stay down.
CHECK_DEADLOCK FALSE

INVARIANTS
    NothingPersistedIsLost
    PersistedStaysServed

PROPERTIES
    BadAppendNeverCorrupts
