---------------------------- MODULE MCPublicUrl ----------------------------
(***************************************************************************)
(* What users ask for, one aspect varied at a time around a usual case:    *)
(* the names with every domain, prefix and port; the fields of the config  *)
(* file; and the command lines.                                            *)
(***************************************************************************)
EXTENDS PublicUrl

CONSTANT NoValue

MCWord == {"api", "API", "web", "wt", "localhost", "worktree", "example", "test", "10", "0", "1"}

MCLower == "API" :> "api"

v4 == <<"10", ".", "0", ".", "0", ".", "1">>
v6 == <<":", ":", "1">>

MCIPv4 == {v4}
MCIPv6 == {v6}

MCListenAddr == ":8443" :> "8443" @@ "0.0.0.0:443" :> "443" @@ ":0" :> "49152"
                @@ ":8080" :> "8080"

MCFlag == {"-y", "--port", "--port=3000", "--host", "--strictPort"}
MCSpells == [n \in {"--port", "--host", "--strictPort"} |->
                IF n = "--port" THEN {"--port", "--port=3000"} ELSE {n}]

api == <<"api">>
example == <<"example", ".", "test">>

App_(hosts, upstream) == [hosts |-> hosts, upstream |-> upstream]

UsualConfig ==
    [listen |-> NoValue, tlsListen |-> NoValue, redirect |-> ":8080",
     logFormat |-> NoValue, negative |-> FALSE, cert |-> NoValue, key |-> NoValue,
     domain |-> example, hide |-> FALSE, apps |-> <<>>]

UsualAsk ==
    [started |-> UsualConfig, fileDomain |-> example,
     names |-> <<api>>, sources |-> <<>>, prefix |-> <<>>, noPrefix |-> FALSE,
     worktree |-> <<>>, domain |-> <<>>, argv |-> <<"vite">>]

Domains == {<<>>, <<"localhost">>, example, <<" ">> \o example \o <<".">>,
            <<"bad", "_", "one">>}

Names == {api, <<"API">>, <<"localhost">>, <<"web", "-", "1">>, <<"-", "web">>,
          <<"api", ".">> \o example, v4, v6, <<"[">> \o v6 \o <<"]">>,
          <<"api", ":", "1">>}

NameAsks ==
    {[UsualAsk EXCEPT !.started = f, !.fileDomain = d, !.names = n, !.domain = e,
                      !.prefix = p, !.worktree = w, !.noPrefix = no] :
        f \in {NoFile} \cup
              {[UsualConfig EXCEPT !.domain = dd, !.listen = l, !.hide = h] :
                 dd \in Domains, l \in {NoValue, "0.0.0.0:443", ":0"}, h \in BOOLEAN},
        d \in {<<>>, example}, n \in {<<x>> : x \in Names} \cup {<<api, <<"web">>>>},
        e \in {<<>>, <<"test", ".">>}, p \in {<<>>, <<"wt">>, <<"wt", ".", "1">>},
        w \in {<<>>, <<"-">>}, no \in {FALSE}}

InferredAsks ==
    {[UsualAsk EXCEPT !.names = <<>>, !.sources = s, !.worktree = w, !.noPrefix = no] :
        s \in {<<<<>>, <<>>, <<"-">>>>, <<<<>>, api, <<"web">>>>,
               <<<<"@", "test", "/", "API", "_", "web">>, api, api>>,
               <<<<"@", "test">>, <<>>, <<>>>>},
        w \in {<<>>, <<"wt", "/", "1", "-">>}, no \in BOOLEAN}

HostLists == {<<>>, <<api>>, <<<<"API">>>>, <<<<" ">>>>, <<<<"-">>, <<"-">>>>,
              <<api, <<"api", ".">> \o example>>, <<<<"web">>, <<" ", "web">>>>}

Apps == {<<>>} \cup {<<App_(h, "http://u")>> : h \in HostLists}
        \cup {<<App_(g, "http://u"), App_(h, s)>> : g \in HostLists, h \in HostLists,
                                                   s \in {"http://u", "ftp", NoValue}}

ConfigAsks ==
    {[UsualAsk EXCEPT !.started = [UsualConfig EXCEPT !.apps = a]] : a \in Apps}
    \cup {[UsualAsk EXCEPT !.started =
             [UsualConfig EXCEPT !.listen = l, !.tlsListen = t, !.redirect = r,
                 !.logFormat = f, !.negative = n, !.cert = ce, !.key = k]] :
            l \in {NoValue, "0.0.0.0:443", "bad"}, t \in {NoValue, ":0", "bad"},
            r \in {NoValue, ":8080", "bad"}, f \in {NoValue, "json", "xml"},
            n \in BOOLEAN, ce \in {NoValue, "file"}, k \in {NoValue, "file"}}

Args == {"vite", "expo", "npx", "yarn", "dlx", "run", "-y", "--port", "--port=3000",
         "--host", "--strictPort"}

ArgvAsks ==
    {[UsualAsk EXCEPT !.argv = a] :
        a \in UNION {[1 .. n -> Args] : n \in 1 .. 3}
              \cup {<<"yarn", "-y", "dlx", "-y", x, y>> : x \in Args, y \in Args}}

MCAsk == NameAsks \cup InferredAsks \cup ConfigAsks \cup ArgvAsks

=============================================================================
