CONSTANTS
    Word <- MCWord
    Lower <- MCLower
    IPv4 <- MCIPv4
    IPv6 <- MCIPv6
    ListenAddr <- MCListenAddr
    BadAddr = {"bad"}
    DefaultTLSListen = ":8443"
    GoodURL = {"http://u"}
    NoValue = NoValue
    Absent = NoValue
    Flag <- MCFlag
    Spells <- MCSpells
    PortText = "3000"
    HostText = "127.0.0.1"
    NoFile = NoFile
    Ask <- MCAsk

SPECIFICATION UrlSpec

\* A request that was answered, or refused, is the end.
CHECK_DEADLOCK FALSE

INVARIANTS
    AnnouncedLinksWork
    UrlMatchesRun
    ConfigReadersAgree
    FrameworkFlagsSettle
