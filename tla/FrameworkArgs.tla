--------------------------- MODULE FrameworkArgs ---------------------------
(***************************************************************************)
(* The flags that `hostmux run` adds for dev servers which ignore PORT     *)
(* (internal/childproc/framework_argv.go), over command lines as sequences *)
(* of arguments; an argument is its base name.                             *)
(***************************************************************************)
EXTENDS Integers, Sequences, FiniteSets, SequencesExt

CONSTANTS
    Flag,       \* arguments that start with "-"
    Spells,     \* name of a flag -> its forms: "--port", "--port=3000"
    PortText, HostText      \* the values that the run passes

\* A form belongs to one flag, and a value is no form of any.
ASSUME FrameworkArgsAssumption ==
    /\ {"--port", "--host", "--strictPort"} \cup {PortText, HostText, "localhost"}
         \subseteq STRING
    /\ {"--port", "--host", "--strictPort"} \subseteq DOMAIN Spells
    /\ \A name \in DOMAIN Spells :
         /\ name \in Spells[name]
         /\ Spells[name] \cap {PortText, HostText, "localhost"} = {}
         /\ \A other \in DOMAIN Spells \ {name} : Spells[name] \cap Spells[other] = {}

frameworksNeedingPort ==
    {"vite", "vp", "react-router", "astro", "ng", "react-native", "expo"}

strictPort == {"vite", "vp", "react-router"}

packageRunners == [npx |-> {}, bunx |-> {}, pnpx |-> {},
                   yarn |-> {"dlx", "exec"}, pnpm |-> {"dlx", "exec"}]

\* The first position from i that holds no flag.
SkipFlags(argv, i) ==
    CHOOSE j \in i .. Len(argv) + 1 :
        /\ j \in DOMAIN argv => argv[j] \notin Flag
        /\ \A k \in i .. j - 1 : argv[k] \in Flag

FrameworkAt(argv, i) ==
    IF i \in DOMAIN argv /\ argv[i] \in frameworksNeedingPort THEN argv[i] ELSE ""

findFrameworkBasename(argv) ==
    IF argv = <<>> THEN ""
    ELSE IF argv[1] \in frameworksNeedingPort THEN argv[1]
    ELSE IF argv[1] \notin DOMAIN packageRunners THEN ""
    ELSE LET subcommands == packageRunners[argv[1]]
             i == SkipFlags(argv, 2)
             sub == i \in DOMAIN argv /\ argv[i] \in subcommands
         IN  FrameworkAt(argv, IF sub THEN SkipFlags(argv, i + 1) ELSE i)

\* Mutation: "--port=3000" is not seen.
argvHasExactly(argv, name) == name \in Range(argv)

argvHasFlag(argv, name) == Range(argv) \cap Spells[name] # {}

InjectFrameworkArgs(argv) ==
    LET fw == findFrameworkBasename(argv)
        unless(name, added) == IF argvHasFlag(argv, name) THEN <<>> ELSE added
    IN  IF fw = "" THEN argv
        ELSE argv
             \o unless("--port", <<"--port", PortText>>)
             \o (IF fw \in strictPort THEN unless("--strictPort", <<"--strictPort">>)
                 ELSE <<>>)
             \o unless("--host", <<"--host", IF fw = "expo" THEN "localhost" ELSE HostText>>)

Times(argv, name) == Cardinality({i \in DOMAIN argv : argv[i] \in Spells[name]})

\* A dev server that ignores PORT is told the port exactly once: what the
\* user said of port, strictness or host stands and is not repeated, a
\* server that could move to another port is forbidden to, and what was
\* added is recognized as given.
InjectionSettles(argv) ==
    LET out == InjectFrameworkArgs(argv)
        fw == findFrameworkBasename(argv)
        told == {"--port", "--host"} \cup (IF fw \in strictPort THEN {"--strictPort"} ELSE {})
    IN  /\ IsPrefix(argv, out)
        /\ InjectFrameworkArgs(out) = out
        /\ findFrameworkBasename(out) = fw
        /\ fw # "" => \A name \in told :
             Times(out, name) = IF Times(argv, name) = 0 THEN 1 ELSE Times(argv, name)

=============================================================================
