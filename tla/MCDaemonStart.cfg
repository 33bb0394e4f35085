CONSTANTS
    p1 = p1
    p2 = p2
    p3 = p3
    k1 = k1
    k2 = k2
    k3 = k3
    s1 = s1
    s2 = s2
    r1 = r1
    c1 = c1
    c2 = c2
    None = None
    Proc = {p1, p2, p3}
    PID = {k1, k2}
    Stoppers = {}
    Restarters = {}
    Clients = {c1, c2}
    Forces = {FALSE}

SPECIFICATION FairSpec

\* Every process and command runs once.
CHECK_DEADLOCK FALSE

PROPERTIES
    ClientsAreServed
