----------------------------- MODULE HostNames -----------------------------
(***************************************************************************)
(* Names and hosts as text (internal/hostnames, hosts.go, names.go, run.go *)
(* and the host handling of internal/proxy and redirect.go).  A text is a  *)
(* sequence of tokens: words of letters and digits, and the characters     *)
(* that the code looks at one by one.  Length limits (63 and 253) are left *)
(* out.                                                                    *)
(***************************************************************************)
EXTENDS Integers, Sequences, FiniteSets, SequencesExt

CONSTANTS
    Word,       \* letters and digits only
    Lower,      \* strings.ToLower of a token
    IPv4, IPv6  \* the texts that net.ParseIP takes, without brackets

Punctuation == {".", ":", "-", "[", "]", " ", "/", "@", "_"}

ASSUME HostNamesAssumption ==
    /\ Word \cap Punctuation = {}
    /\ {"localhost", "worktree"} \subseteq Word
    /\ \A t \in IPv4 : ":" \notin Range(t)
    /\ \A t \in IPv6 : ":" \in Range(t) /\ "]" \notin Range(t)
    /\ Word \cup Punctuation \subseteq STRING
    /\ DOMAIN Lower \subseteq Word
    /\ \A w \in DOMAIN Lower : Lower[w] \in Word \ DOMAIN Lower

Text == Seq(STRING)

Has(t, token) == token \in Range(t)

ToLower(t) == [i \in DOMAIN t |-> IF t[i] \in DOMAIN Lower THEN Lower[t[i]] ELSE t[i]]

\* t without the tokens of S at its two ends.
Trimmed(t, S) ==
    LET kept == {i \in DOMAIN t : t[i] \notin S}
        first == CHOOSE i \in kept : \A j \in kept : i <= j
        last == CHOOSE i \in kept : \A j \in kept : j <= i
    IN  IF kept = {} THEN <<>> ELSE SubSeq(t, first, last)

TrimSpace(t) == Trimmed(t, {" "})

TrimDot(t) == IF t # <<>> /\ Last(t) = "." THEN Front(t) ELSE t

\* What is at the places P of t, in their order.
Subsequence(t, P) ==
    [n \in 1 .. Cardinality(P) |->
        t[CHOOSE i \in P : Cardinality({j \in P : j <= i}) = n]]

\* strings.LastIndex(t, ":"); 0 for none.
LastColon(t) ==
    LET colons == {i \in DOMAIN t : t[i] = ":"}
    IN  IF colons = {} THEN 0 ELSE CHOOSE i \in colons : \A j \in colons : j <= i

-----------------------------------------------------------------------------
(* internal/hostnames.                                                     *)

NormalizeDomain(d) == TrimDot(TrimSpace(d))

needsExpansion(t) ==
    /\ t # <<>> /\ ~Has(t, ".")
    /\ ToLower(t) # <<"localhost">>
    /\ Trimmed(t, {"[", "]"}) \notin IPv4 \cup IPv6

HasBare(names) == \E i \in DOMAIN names : needsExpansion(TrimSpace(names[i]))

Expand(names, domain) ==
    LET d == NormalizeDomain(domain)
        full(t) == IF needsExpansion(t) /\ d # <<>> THEN t \o <<".">> \o d ELSE t
        trimmed == [i \in DOMAIN names |-> TrimSpace(names[i])]
        kept == Subsequence(trimmed, {i \in DOMAIN trimmed : trimmed[i] # <<>>})
    IN  [i \in DOMAIN kept |-> full(kept[i])]

\* ValidDNSLabel of every label between the dots.
ValidLabels(t) ==
    /\ t # <<>>
    /\ \A i \in DOMAIN t :
         \/ t[i] \in Word
         \/ /\ t[i] = "-" /\ 1 < i /\ i < Len(t)
            /\ t[i - 1] # "." /\ t[i + 1] # "."
         \/ /\ t[i] = "." /\ 1 < i /\ i < Len(t)
            /\ t[i - 1] # "."

ValidDNSLabel(t) == ValidLabels(t) /\ ~Has(t, ".")

ValidHostToken(t) ==
    /\ t # <<>> /\ TrimSpace(t) = t
    /\ IF t[1] = "[" \/ Last(t) = "]"
       THEN t[1] = "[" /\ Last(t) = "]" /\ SubSeq(t, 2, Len(t) - 1) \in IPv6
       ELSE ~Has(t, ":") /\ (t \in IPv4 \/ ValidLabels(t))

-----------------------------------------------------------------------------
(* Names: what the command line, package.json, git and the directory say.  *)

WordsOf(t) == Subsequence(t, {i \in DOMAIN t : t[i] \in Word})

Hyphenated(words) ==
    IF words = <<>> THEN <<>>
    ELSE [i \in 1 .. 2 * Len(words) - 1 |->
            IF i % 2 = 1 THEN words[(i + 1) \div 2] ELSE "-"]

\* Words in lower case, joined by "-"; the scope of a package goes.
normalizeInferredName(t) ==
    LET trimmed == ToLower(TrimSpace(t))
        slash == {i \in DOMAIN trimmed : trimmed[i] = "/"}
        rest == IF trimmed # <<>> /\ trimmed[1] = "@" /\ slash # {}
                THEN SubSeq(trimmed, 1 + CHOOSE i \in slash : \A j \in slash : i <= j,
                            Len(trimmed))
                ELSE trimmed
    IN  Hyphenated(WordsOf(rest))

\* The first source that has a name: package.json, git's root, the directory.
resolveRequestedNames(explicit, sources) ==
    LET named == {i \in DOMAIN sources : normalizeInferredName(sources[i]) # <<>>}
        first == CHOOSE i \in named : \A j \in named : i <= j
    IN  IF explicit # <<>> THEN explicit
        ELSE IF named # {} THEN <<normalizeInferredName(sources[first])>>
        ELSE <<>>

sanitizeWorktreePrefix(t) ==
    LET s == Trimmed([i \in DOMAIN t |-> IF t[i] \in Word THEN t[i] ELSE "-"], {"-"})
    IN  IF t = <<>> THEN <<>> ELSE IF s = <<>> THEN <<"worktree">> ELSE s

\* The prefix a run uses: its flag, none, or the name of a linked worktree.
resolvePrefix(flag, disable, worktree) ==
    IF disable THEN <<>>
    ELSE IF flag # <<>> THEN flag
    ELSE sanitizeWorktreePrefix(worktree)

resolveRequestedHosts(names, prefix, domain) ==
    Expand([i \in DOMAIN names |->
              IF prefix = <<>> THEN names[i] ELSE prefix \o <<"-">> \o names[i]],
           NormalizeDomain(domain))

-----------------------------------------------------------------------------
(* Hosts of requests.                                                      *)

\* Mutation: the last colon ends the host, wherever it is.
stripLastColon(t) == IF LastColon(t) = 0 THEN t ELSE SubSeq(t, 1, LastColon(t) - 1)

\* The proxy's: a colon inside brackets does not start a port.
stripPort(t) ==
    LET i == LastColon(t)
    IN  IF i # 0 /\ ~Has(SubSeq(t, i, Len(t)), "]") THEN SubSeq(t, 1, i - 1) ELSE t

\* The redirect's: up to the bracket that closes.
requestHostname(t) ==
    LET closing == {i \in DOMAIN t : t[i] = "]"}
    IN  IF t # <<>> /\ t[1] = "["
        THEN IF closing = {} THEN t
             ELSE SubSeq(t, 1, CHOOSE i \in closing : \A j \in closing : i <= j)
        ELSE IF LastColon(t) = 0 THEN t ELSE SubSeq(t, 1, LastColon(t) - 1)

normalizeHost(t) == ToLower(TrimDot(TrimSpace(t)))

=============================================================================
