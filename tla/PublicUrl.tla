----------------------------- MODULE PublicUrl -----------------------------
(***************************************************************************)
(* The way of a name to a link that works: a daemon starts with a config   *)
(* file or without (serve.go), `hostmux run` registers names and announces *)
(* their URLs (run.go, hosts.go, names.go, publicurl.go), and a browser    *)
(* follows one, at once or by way of the redirect from plain HTTP          *)
(* (redirect.go), to the proxy's lookup (internal/proxy).                  *)
(*                                                                         *)
(* ask is what the user gives: the config file of the daemon and the one   *)
(* on disk by the time of the command, and the names and flags.            *)
(***************************************************************************)
EXTENDS ConfigCheck, FrameworkArgs

CONSTANTS
    Ask,        \* what the user may ask for
    NoFile      \* the daemon started without a config file

ASSUME PublicUrlAssumption ==
    /\ Ask \subseteq [started : {NoFile} \cup Config, fileDomain : Text,
                     names : Seq(Text), sources : Seq(Text),
                     prefix : Text, noPrefix : BOOLEAN, worktree : Text,
                     domain : Text, argv : Seq(STRING)]
    /\ NoFile \notin Config

VARIABLES
    ask, at,
    daemon,     \* the domain it reports, its port, whether it hides it
    table,      \* keys registered by the run
    urls,       \* the announced URLs: host and explicit port, "0" for none
    header,     \* the Host header of the request under way
    found       \* the request reached the route of the run

urlVars == <<ask, at, daemon, table, urls, header, found>>

NoDaemon == [domain |-> <<>>, port |-> "0", hide |-> FALSE]

UrlInit ==
    /\ ask \in Ask
    /\ at = "start"
    /\ daemon = NoDaemon
    /\ table = {} /\ urls = <<>> /\ header = <<>> /\ found = FALSE

\* bindPublicListeners: a port 0 becomes one of the system's choice.
BoundPort(addr) == ListenAddr[addr]

\* runForegroundDaemon as far as clients see it; without a file there is no
\* domain, not even the default one.
StartDaemon ==
    /\ at = "start"
    /\ IF ask.started = NoFile
       THEN /\ daemon' = [domain |-> <<>>, port |-> BoundPort(DefaultTLSListen),
                          hide |-> FALSE]
            /\ at' = "serving"
       ELSE LET c == Defaulted(ask.started)
            IN  IF Load(ask.started)
                THEN /\ daemon' = [domain |-> c.domain, port |-> BoundPort(c.tlsListen),
                                   hide |-> c.hide]
                     /\ at' = "serving"
                ELSE daemon' = NoDaemon /\ at' = "refused"
    /\ UNCHANGED <<ask, table, urls, header, found>>

advertisedPort(d) == IF d.hide THEN "0" ELSE d.port

\* Mutation: the port is left out when it is not the default one.
formatUnlessDefault(host, port) ==
    [host |-> host, port |-> IF port # "443" THEN "0" ELSE port]

formatPublicURL(host, port) ==
    [host |-> host, port |-> IF port = "443" THEN "0" ELSE port]

\* Names and hosts as `run` and `url` get them from their flags.
RequestedHosts ==
    LET names == resolveRequestedNames(ask.names, ask.sources)
        prefix == resolvePrefix(ask.prefix, ask.noPrefix, ask.worktree)
        explicit == ask.prefix # <<>> /\ ~ask.noPrefix
    IN  IF \/ names = <<>> \/ \E i \in DOMAIN ask.names : ~ValidHostToken(ask.names[i])
           \/ explicit /\ ~ValidDNSLabel(prefix)
        THEN <<>>
        ELSE resolveRequestedHosts(names, prefix, ask.domain)

Printed(hosts) ==
    [i \in DOMAIN hosts |-> formatPublicURL(hosts[i], advertisedPort(daemon))]

\* runCommand's hosts after OpInfo.
RunHosts ==
    IF HasBare(RequestedHosts) THEN Expand(RequestedHosts, daemon.domain)
    ELSE RequestedHosts

\* Registration and announcement; the daemon refuses hosts that are not valid.
Announce ==
    /\ at = "serving"
    /\ IF RunHosts # <<>> /\ \A i \in DOMAIN RunHosts : ValidHostToken(RunHosts[i])
       THEN /\ table' = {normalizeHost(RunHosts[i]) : i \in DOMAIN RunHosts}
            /\ urls' = Printed(RunHosts)
            /\ at' = "announced"
       ELSE at' = "refused" /\ UNCHANGED <<table, urls>>
    /\ UNCHANGED <<ask, daemon, header, found>>

\* A client writes the host as it is or in lower case and leaves a default
\* port out.
HostHeader(host, port) ==
    {h \o (IF port = "0" THEN <<>> ELSE <<":", port>>) : h \in {host, ToLower(host)}}

\* An https request: without a port it goes to 443, where with hide_port a
\* proxy or tunnel passes it on as it is.
Get(host, port) ==
    /\ header' \in HostHeader(host, port)
    /\ at' = IF \/ (IF port = "0" THEN "443" ELSE port) = daemon.port
                \/ port = "0" /\ daemon.hide
             THEN "arrived" ELSE "astray"

Follow ==
    /\ at = "announced"
    /\ \E i \in DOMAIN urls : Get(urls[i].host, urls[i].port)
    /\ UNCHANGED <<ask, daemon, table, urls, found>>

\* A plain HTTP request for the host goes to the redirect listener, on port
\* 80 or another.
FollowPlain ==
    /\ at = "announced"
    /\ ask.started # NoFile /\ ask.started.redirect # Absent
    /\ \E i \in DOMAIN urls : \E port \in {"0", "8080"} :
         header' \in HostHeader(urls[i].host, port)
    /\ at' = "redirect"
    /\ UNCHANGED <<ask, daemon, table, urls, found>>

\* newHTTPSRedirectHandler: 308 to the https URL.
Redirect ==
    /\ at = "redirect"
    /\ LET port == advertisedPort(daemon)
       IN  Get(requestHostname(header), IF port = "443" THEN "0" ELSE port)
    /\ UNCHANGED <<ask, daemon, table, urls, found>>

\* The proxy's handler and the router's lookup.
LookupHost ==
    /\ at = "arrived"
    /\ found' = (normalizeHost(stripPort(header)) \in table)
    /\ at' = "answered"
    /\ UNCHANGED <<ask, daemon, table, urls, header>>

UrlNext == StartDaemon \/ Announce \/ Follow \/ FollowPlain \/ Redirect \/ LookupHost

UrlSpec == UrlInit /\ [][UrlNext]_urlVars

-----------------------------------------------------------------------------
(* `hostmux url` for the same names and flags, while the daemon answers.   *)

\* Mutation: the daemon is asked only when a bare host needs its domain.
UrlAskingForBare ==
    LET domain == IF daemon.domain # <<>> THEN daemon.domain ELSE ask.fileDomain
    IN  IF HasBare(RequestedHosts) THEN Printed(Expand(RequestedHosts, domain))
        ELSE [i \in DOMAIN RequestedHosts |-> formatPublicURL(RequestedHosts[i], "0")]

runURL ==
    LET domain == IF daemon.domain # <<>> THEN daemon.domain ELSE ask.fileDomain
    IN  IF HasBare(RequestedHosts) /\ domain # <<>>
        THEN Printed(Expand(RequestedHosts, domain))
        ELSE Printed(RequestedHosts)

-----------------------------------------------------------------------------

\* Every URL that `run` announces leads to its route, whatever the spelling
\* of names, prefix and domain, for bracketed IPv6 literals too, with the
\* port shown, at its default or hidden, and as well from plain HTTP through
\* the redirect: expansion, registration, URL, Host header and lookup each
\* treat the host in their own way.
AnnouncedLinksWork ==
    at # "astray" /\ (at = "answered" => found)

\* `hostmux url` prints what `run` announces, unless a daemon that reports no
\* domain meets a config file that has come to name one.
UrlMatchesRun ==
    at = "announced" /\ (daemon.domain # <<>> \/ ask.fileDomain = <<>>) => runURL = urls

\* For the file the daemon starts with; see ConfigCheck.
ConfigReadersAgree == ask.started # NoFile => CheckAgreesWithLoad(ask.started)

\* For the command of the run; see FrameworkArgs.
FrameworkFlagsSettle == InjectionSettles(ask.argv)

=============================================================================
