---------------------------- MODULE TrustStore ----------------------------
(***************************************************************************)
(* TlsPair together with the operating system's trust store: `hostmux      *)
(* trust`, `hostmux untrust` and a daemon's auto_trust (trust.go,          *)
(* internal/trust/trust.go), which all work on whatever certificate file   *)
(* they find when they run the system's tools, after EnsurePair has        *)
(* released the pair lock.                                                 *)
(*                                                                         *)
(* Linux has two steps: the certificate is copied to a file that is        *)
(* hostmux's own, and a tool rebuilds the store from it.  On macOS and     *)
(* Windows one tool adds or removes a certificate.  Each tool may fail (a  *)
(* refused password, the limit of 30 s).                                   *)
(***************************************************************************)
EXTENDS TlsPair

VARIABLES
    os,         \* the platform
    auto,       \* daemons install their certificate (tls.auto_trust)
    anchor,     \* Linux: what the anchor file holds
    store,      \* the pairs whose certificates the system trusts
    step,       \* where each process stands in its trust operation
    said,       \* what it reported
    meddled     \* history: another process touched the store since it began

trustVars == <<os, auto, anchor, store, step, said, meddled>>

vars == <<pairVars, trustVars>>

TrustInit ==
    /\ Init
    /\ os \in {"linux", "darwin", "windows"}
    /\ auto \in BOOLEAN
    /\ anchor = Missing
    /\ store = {}
    /\ step = [p \in Proc |-> "ask"]
    /\ said = [p \in Proc |-> "nothing"]
    /\ meddled = [p \in Proc |-> FALSE]

At(p, cmds, s) == pc[p] = "ensured" /\ cmd[p] \in cmds /\ step[p] = s

To(p, s) == step' = [step EXCEPT ![p] = s]

Say(p, what) == said' = [said EXCEPT ![p] = what]

\* Everybody who relies on the store sees p meddle with it.
Meddle(p) ==
    meddled' = [q \in Proc |-> meddled[q] \/ (q # p /\ pc[q] \in Relying)]

\* A renewal does nothing here, a daemon only with auto_trust.
Skip(p) ==
    /\ At(p, {"start", "renew"}, "ask")
    /\ cmd[p] = "start" => ~auto
    /\ To(p, "settled")
    /\ UNCHANGED <<pairVars, os, auto, anchor, store, said, meddled>>

\* `trust --force` and `untrust` do not ask.
Insist(p) ==
    /\ At(p, {"trust", "untrust"}, "ask")
    /\ To(p, IF cmd[p] = "trust" THEN "install" ELSE "remove")
    /\ UNCHANGED <<pairVars, os, auto, anchor, store, said, meddled>>

\* An error counts as "no".  On Linux two empty files are equal.
AnchorIsCert == anchor # Missing /\ anchor = cert

IsTrusted == IF os = "linux" THEN AnchorIsCert ELSE cert \in store

Ask(p) ==
    /\ At(p, {"start", "trust"}, "ask")
    /\ cmd[p] = "start" => auto
    /\ IF IsTrusted THEN To(p, "settled") /\ Say(p, "already")
                    ELSE To(p, "install") /\ UNCHANGED said
    /\ UNCHANGED <<pairVars, os, auto, anchor, store, meddled>>

\* Mutation: the file is copied and the store left as it is.
CopyAnchorOnly(p) ==
    /\ At(p, {"start", "trust"}, "install")
    /\ os = "linux" /\ cert # Missing
    /\ anchor' = cert
    /\ To(p, "settled")
    /\ Say(p, "trusted")
    /\ Meddle(p)
    /\ UNCHANGED <<pairVars, os, auto, store>>

\* cp
CopyAnchor(p) ==
    /\ At(p, {"start", "trust"}, "install")
    /\ os = "linux" /\ cert # Missing
    /\ anchor' = cert
    /\ To(p, "update")
    /\ Meddle(p)
    /\ UNCHANGED <<pairVars, os, auto, store, said>>

\* rm -f
RemoveAnchor(p) ==
    /\ At(p, {"untrust"}, "remove")
    /\ os = "linux"
    /\ anchor' = Missing
    /\ To(p, "update")
    /\ Meddle(p)
    /\ UNCHANGED <<pairVars, os, auto, store, said>>

\* update-ca-certificates or update-ca-trust
UpdateStore(p) ==
    /\ At(p, {"start", "trust", "untrust"}, "update")
    /\ store' = {anchor} \cap Pair
    /\ To(p, "settled")
    /\ Say(p, IF cmd[p] = "untrust" THEN "removed" ELSE "trusted")
    /\ Meddle(p)
    /\ UNCHANGED <<pairVars, os, auto, anchor>>

\* security add-trusted-cert, certutil -addstore
AddCert(p) ==
    /\ At(p, {"start", "trust"}, "install")
    /\ os # "linux" /\ cert \in Pair
    /\ store' = store \cup {cert}
    /\ To(p, "settled")
    /\ Say(p, "trusted")
    /\ Meddle(p)
    /\ UNCHANGED <<pairVars, os, auto, anchor>>

Removed(p) ==
    /\ At(p, {"untrust"}, "remove")
    /\ cert \in Pair
    /\ To(p, "settled")
    /\ Say(p, "removed")
    /\ Meddle(p)
    /\ UNCHANGED <<pairVars, os, auto, anchor>>

\* security remove-trusted-cert
RemoveByFile(p) ==
    /\ os = "darwin"
    /\ Removed(p)
    /\ store' = store \ {cert}

\* certutil -delstore: one certificate or more of the common name, which all
\* of hostmux's share.
RemoveByName(p) ==
    /\ os = "windows"
    /\ Removed(p)
    /\ \E gone \in SUBSET store \ {{}} : store' = store \ gone

UseTools(p) ==
    \/ CopyAnchor(p) \/ RemoveAnchor(p) \/ UpdateStore(p)
    \/ AddCert(p) \/ RemoveByFile(p) \/ RemoveByName(p)

\* The tools can do what they are asked: there is a certificate to install,
\* and one to remove.
Works(p) ==
    CASE step[p] = "install" -> IF os = "linux" THEN cert # Missing ELSE cert \in Pair
      [] step[p] = "remove" /\ os # "linux" ->
           cert \in Pair /\ (os = "windows" => store # {})
      [] OTHER -> TRUE

\* A tool fails.  A daemon logs that and goes on.
ToolFails(p) ==
    /\ \E s \in {"install", "remove", "update"} :
         At(p, {"start", "trust", "untrust"}, s)
    /\ Works(p) => accidents < MaxAccident
    /\ accidents' = IF Works(p) THEN accidents + 1 ELSE accidents
    /\ To(p, "settled")
    /\ Say(p, "failed")
    /\ UNCHANGED <<files, made, fixed, lock, pc, mine, daemons, renewed, faulty,
                   os, auto, anchor, store, meddled>>

Trusting(p) ==
    \/ Skip(p) \/ Insist(p) \/ Ask(p) \/ UseTools(p) \/ ToolFails(p)

Settled(p) == step[p] = "settled" /\ Proceed(p)

TrustNext ==
    \E p \in Proc : \/ Step(p) /\ UNCHANGED trustVars
                    \/ Settled(p) /\ UNCHANGED trustVars
                    \/ Trusting(p)

TrustSpec == TrustInit /\ [][TrustNext]_vars

\* Every command that has begun goes on; nobody has to begin, exit or die.
Fairness ==
    \A p \in Proc : WF_vars(\/ Working(p) /\ UNCHANGED trustVars
                            \/ Settled(p) /\ UNCHANGED trustVars
                            \/ Trusting(p))

-----------------------------------------------------------------------------
(***************************************************************************)
(* The store trusts pairs that exist.                                      *)
(***************************************************************************)
TrustTypeOK ==
    /\ os \in {"linux", "darwin", "windows"}
    /\ auto \in BOOLEAN
    /\ anchor \in 1 .. made \cup {Missing, Torn}
    /\ store \subseteq 1 .. made
    /\ step \in [Proc -> {"ask", "install", "remove", "update", "settled"}]
    /\ said \in [Proc -> {"nothing", "already", "trusted", "removed", "failed"}]
    /\ meddled \in [Proc -> BOOLEAN]

\* "trusted" stays true until the pair is renewed or another process
\* touches the store: the certificate the daemon then loads and serves, or
\* that is in the file, is one the system trusts (trustLinux's two steps,
\* auto_trust before ServeTLS).
TrustedIsTrusted ==
    \A p \in Proc :
        said[p] = "trusted" /\ ~renewed[p] /\ ~meddled[p] =>
            /\ cert \in store
            /\ \A l \in Listener : served[p][l] \in store \cup {Missing}

\* Every command that waits for the pair lock gets it, unless opening it
\* fails, whatever other processes do or suffer, and ends or serves
\* (acquirePairLock blocks).
EveryCommandEnds ==
    \A p \in Proc : pc[p] = "lock" ~> pc[p] \in Ended \cup {"serving"}

\* The documentation of IsTrusted: it says whether the store trusts the
\* certificate.
AlreadyIsTrusted ==
    \A p \in Proc :
        said[p] = "already" /\ ~renewed[p] /\ ~meddled[p] => cert \in store

=============================================================================
