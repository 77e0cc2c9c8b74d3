----------------------------- MODULE MCService ------------------------------
(* Before a service: its legacy configuration is migrated and loaded; and  *)
(* the service: its container and the threads that call it.  No setting    *)
(* that the first is about decides anything in the second, so a behaviour  *)
(* is one of the two.                                                      *)
EXTENDS MCContainer, Configuration

LOCAL INSTANCE Functions

VARIABLE part

serviceVars == <<vars, configVars, part>>

Port         == <<"api", "port">>
Token        == <<"api", "local_api_token">>
KeyPassword  == <<"api", "tls", "key_password">>
DatabasePath == <<"database", "path">>
Environment  == <<"application", "environment">>
Scores       == <<"retrieval", "include_component_scores">>
Debug        == <<"retrieval", "include_debug">>

MCPathSettings == {DatabasePath}
MCSecretPaths  == {Token, KeyPassword}
MCRenamed      == "./data/memory_store" :> "./data/bytebox"

MCDefaults ==
    Port :> "8080" @@ Token :> None @@ KeyPassword :> None
      @@ DatabasePath :> "./data/bytebox" @@ Environment :> "development"
      @@ Scores :> "True" @@ Debug :> "True"

LegacyValues ==
    Port :> "1" @@ Token :> "secret" @@ KeyPassword :> "secret"
      @@ DatabasePath :> "./data/memory_store" @@ Environment :> "production"
      @@ Debug :> "True"

TopValues ==
    [LegacyValues EXCEPT ![Port] = "2", ![DatabasePath] = "./data", ![Token] = None]

Parts(values, paths) == {[p \in chosen |-> values[p]] : chosen \in SUBSET paths}

MCYamlFiles ==
    Parts(TopValues, DOMAIN TopValues) \X
    Parts(LegacyValues, DOMAIN LegacyValues \ {Debug})

Line(prefix, p, value) == [prefix |-> prefix, path |-> p, value |-> value]

MCLines ==
    {Line("MEMORY_STORE_", p, LegacyValues[p]) : p \in DOMAIN LegacyValues}
    \cup {Line("BYTEBOX_", p, TopValues[p]) : p \in {Port, DatabasePath}}
    \cup {Line("BYTEBOX_", Token, "secret")}
    \cup {Line("", Port, "3")}

(* Up to three lines, each name once. *)
MCEnvFiles == {lines \in UNION {[1 .. n -> MCLines] : n \in 1 .. 3} : IsInjective(lines)}

MCEnvironments ==
    {<< >>, Token :> "new" @@ Scores :> "True", Environment :> "development" @@ Port :> "4"}

MCOverrides == {<< >>, Environment :> "production", Debug :> "False" @@ Port :> "5"}

ServiceInit ==
    /\ part \in {"configure", "serve"}
    /\ Init /\ ConfigInit
    /\ part = "serve" => source.top = << >> /\ source.root = << >> /\ source.lines = << >>

ServiceNext ==
    /\ \/ part = "configure" /\ ConfigNext /\ UNCHANGED vars
       \/ part = "serve" /\ Next /\ UNCHANGED configVars
    /\ UNCHANGED part

ServiceSpec == ServiceInit /\ [][ServiceNext]_serviceVars
=============================================================================
