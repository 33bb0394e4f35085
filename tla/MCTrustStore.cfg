CONSTANTS
    p1 = p1
    p2 = p2
    p3 = p3
    Proc = {p1, p2, p3}
    NoProc = NoProc
    Listener = {v4, v6}
    MaxPair = 4
    MaxAccident = 1

SPECIFICATION MCSpec

\* Every process runs one command; a daemon that serves goes on without a step.
CHECK_DEADLOCK FALSE

INVARIANTS
    TypeOK
    ErrorsFollowAccidents
    StartServesWhatItChecked
    TrustedIsTrusted

PROPERTIES
    OnlyRenewalsReplace
    EveryCommandEnds
