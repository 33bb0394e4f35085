CONSTANTS
    r1 = r1
    r2 = r2
    a = a
    b = b
    HostName = {a, b}
    Canonical <- MCCanonical
    None = None
    Runner = {r1, r2}
    HostsOf <- MCHostsOf
    Port = {1, 2}
    NoPort = NoPort
    NoOne = NoOne
    Other = Other
    Query = {q1}
    MaxAccidents = 1

SPECIFICATION MCSpec

\* Every run happens once, and then nothing need happen.
CHECK_DEADLOCK FALSE

INVARIANTS
    TypeOK
    AnnouncedUrlAnswers

PROPERTIES
    NothingIsLeftBehind
