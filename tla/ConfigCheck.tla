---------------------------- MODULE ConfigCheck ----------------------------
(***************************************************************************)
(* The two readers of a config file (internal/config/config.go): Load,     *)
(* which stops at the first error and which the daemon uses, and Check,    *)
(* which lists them all and which `config check`, `doctor` and             *)
(* `expose --persist` use before the daemon sees the file.                 *)
(*                                                                         *)
(* A file that parses is a record: the addresses, the log format, whether  *)
(* a limit of [proxy] is negative, the certificate and key of [tls], the   *)
(* domain, and the apps as sequences of hosts with an upstream.            *)
(***************************************************************************)
EXTENDS HostNames

CONSTANTS
    ListenAddr,     \* addresses, and the port of each that has a valid one
    BadAddr,        \* addresses that ValidateListenAddr refuses
    DefaultTLSListen,
    GoodURL,        \* upstreams that validateUpstreamURL takes
    Absent          \* a field that is not set

ASSUME ConfigCheckAssumption ==
    /\ DefaultTLSListen \in DOMAIN ListenAddr
    /\ BadAddr \cap DOMAIN ListenAddr = {}
    /\ Absent \notin GoodURL \cup BadAddr \cup DOMAIN ListenAddr
    /\ \A a \in DOMAIN ListenAddr : ListenAddr[a] \in STRING \ {"0", ":", "]"}

App == [hosts : Seq(Text), upstream : {Absent} \cup STRING]

\* A file that parses.
Config ==
    LET Address == {Absent} \cup BadAddr \cup DOMAIN ListenAddr
        Field == {Absent} \cup STRING
    IN  [listen : Address, tlsListen : Address, redirect : Address,
         logFormat : Field, negative : BOOLEAN, cert : Field, key : Field,
         domain : Text, hide : BOOLEAN, apps : Seq(App)]

DefaultDomain == <<"localhost">>

Or(x, default) == IF x = Absent THEN default ELSE x

\* applyDefaults, then normalize.
Defaulted(c) ==
    LET listen == Or(c.listen, DefaultTLSListen)
        domain == NormalizeDomain(IF c.domain = <<>> THEN DefaultDomain ELSE c.domain)
    IN  [c EXCEPT !.listen = listen,
                  !.tlsListen = Or(c.tlsListen, listen),
                  !.domain = domain,
                  !.apps = [i \in DOMAIN c.apps |->
                      [c.apps[i] EXCEPT !.hosts = Expand(c.apps[i].hosts, domain)]]]

ValidateListenAddr(a) == a \notin BadAddr

\* The key of the duplicate check: lower case, without a final dot.
HostKey(t) == ToLower(TrimDot(t))

\* The places of the hosts in the apps, in the order of the file.
Places(apps) ==
    UNION {{<<i, j>> : j \in DOMAIN apps[i].hosts} : i \in DOMAIN apps}

HostOf(apps, p) == apps[p[1]].hosts[p[2]]

Earlier(p, q) == p[1] < q[1] \/ (p[1] = q[1] /\ p[2] < q[2])

\* validate: every test returns.
validate(c) ==
    /\ c.logFormat \in {Absent, "text", "json"}
    /\ ValidateListenAddr(c.listen)
    /\ ValidateListenAddr(c.tlsListen)
    /\ c.redirect # Absent => ValidateListenAddr(c.redirect)
    /\ ~c.negative
    /\ (c.cert = Absent) = (c.key = Absent)
    /\ \A i \in DOMAIN c.apps :
         /\ c.apps[i].hosts # <<>>
         /\ c.apps[i].upstream \in GoodURL
    /\ \A p \in Places(c.apps) :
         /\ ValidHostToken(HostOf(c.apps, p))
         /\ ~\E q \in Places(c.apps) :
               Earlier(q, p) /\ HostKey(HostOf(c.apps, q)) = HostKey(HostOf(c.apps, p))

Load(c) == validate(Defaulted(c))

Finding(name, wrong) == IF wrong THEN {name} ELSE {}

ValidPlaces(apps) == {p \in Places(apps) : ValidHostToken(HostOf(apps, p))}

\* Mutation: hosts are compared as they are spelled.
SpelledAgain(apps) ==
    {p \in ValidPlaces(apps) : \E q \in ValidPlaces(apps) :
        Earlier(q, p) /\ HostOf(apps, q) = HostOf(apps, p)}

\* A host that is invalid does not count as a first use of its key.
UsedAgain(apps) ==
    {p \in ValidPlaces(apps) : \E q \in ValidPlaces(apps) :
        Earlier(q, p) /\ HostKey(HostOf(apps, q)) = HostKey(HostOf(apps, p))}

\* Check's errors.
Check(raw) ==
    LET c == Defaulted(raw)
    IN  UNION {
          Finding("listen", ~ValidateListenAddr(c.listen)),
          Finding("tls.listen", ~ValidateListenAddr(c.tlsListen)),
          Finding("http_redirect",
                  c.redirect # Absent /\ ~ValidateListenAddr(c.redirect)),
          Finding("log_format", c.logFormat \notin {Absent, "text", "json"}),
          Finding("proxy", c.negative),
          Finding("tls", (c.cert = Absent) # (c.key = Absent)),
          Finding("hosts", Places(c.apps) # ValidPlaces(c.apps) \/ UsedAgain(c.apps) # {}),
          Finding("app", \E i \in DOMAIN c.apps :
              c.apps[i].hosts = <<>> \/ c.apps[i].upstream \notin GoodURL)}

\* ReplaceSource on the empty table of a daemon that starts: no entry without
\* hosts, no host twice in the router's own normal form.
StartsWith(raw) ==
    LET apps == Defaulted(raw).apps
    IN  /\ \A i \in DOMAIN apps : apps[i].hosts # <<>> /\ apps[i].upstream # Absent
        /\ \A p, q \in Places(apps) :
             p # q => normalizeHost(HostOf(apps, p)) # normalizeHost(HostOf(apps, q))

\* The two readers were written apart and must agree: Check has no error
\* exactly for the files that Load takes, and a file that Load takes never
\* makes the daemon's start fail on its routes.  (`expose --persist` installs
\* what Check passes; a file that the daemon then refuses ends the next one.)
CheckAgreesWithLoad(c) ==
    /\ (Check(c) = {}) = Load(c)
    /\ Load(c) => StartsWith(c)

=============================================================================
