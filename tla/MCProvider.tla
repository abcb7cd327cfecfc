----------------------------- MODULE MCProvider ------------------------------
(* An instance of Provider: hosts that patterns tell apart, every form of      *)
(* pattern, endpoints of every scheme.                                         *)
EXTENDS ProviderProofs, TLC

Example == <<"example", ".", "com">>
Db == <<"db", "1", ".">> \o Example
MyDb == <<"my", "db", "1", ".", "com", "pany">>
Ip == <<"10.1.2.3">>
Instance == <<"project", ":", "region", ":", "instance">>
Socket == <<"/", "run">>

MCWants == (Example :> "native") @@ (Db :> "native") @@ (MyDb :> "clear") @@ (Ip :> "native")
           @@ (Instance :> "native") @@ (Socket :> "native")
           @@ (<<"rds">> :> "clear") @@ (<<"entra">> :> "clear")

Domain == <<".">> \o Example
SubDomain == <<"*", ".">> \o Example
Cidr == <<"10.0.0.0", "/", "8">>
DbPort == Db \o <<":", "3306">>
Inner == <<"db", "*", ".", "com">>

MCNetwork == Cidr :> {Ip}

AnyPort(hosts) == hosts \cup {h \o <<":", "3306">> : h \in hosts}

Servers == {Example, Db, MyDb, Ip, <<"rds">>}

MCStands == (<<"*">> :> AnyPort(Servers)) @@ (Domain :> AnyPort({Example, Db}))
            @@ (SubDomain :> AnyPort({Db})) @@ (Cidr :> AnyPort({Ip}))
            @@ (Example :> AnyPort({Example})) @@ (DbPort :> {DbPort})

Block(scheme, host, port, proxy, noProxy, plugin) ==
    [scheme |-> scheme, host |-> host, port |-> port, proxy |-> proxy, noProxy |-> noProxy,
     plugin |-> plugin, rdsIam |-> FALSE, iam |-> FALSE, api |-> FALSE]

Plain ==
    {Block("", host, port, proxy, noProxy, IF MCWants[host] = "clear" THEN "cleartext" ELSE "native") :
        host \in {Example, Db, MyDb, Ip}, port \in {"", "3306"}, proxy \in {"", "http", "socks5"},
        noProxy \in {{}, {<<"*">>}, {Cidr}, {SubDomain, Example}, {Domain, Cidr}, {DbPort}, {Inner}}}

Clouds ==
    UNION {{Block("aws", <<"rds">>, port, proxy, {}, "native"),
            Block("azure", <<"entra">>, port, proxy, {<<"*">>}, "native"),
            Block("cloudsql", Instance, "", proxy, {}, "native"),
            [Block("cloudsql", Instance, "", proxy, {}, "native") EXCEPT !.iam = TRUE],
            [Block("", <<"rds">>, port, proxy, {Domain}, "native") EXCEPT !.rdsIam = TRUE],
            [Block("", <<"rds">>, port, proxy, {}, "native") EXCEPT !.api = TRUE],
            Block("", Socket, "", proxy, {}, "native"),
            Block("", Db, port, proxy, {}, "Native")} : port \in {"", "3306"}, proxy \in {"", "http"}}

MCBlocks == Plain \cup Clouds

Environment(all, http, no) == [all |-> all, http |-> http, no |-> no]

MCEnvironments == {Environment("", "", {}), Environment("socks5", "", {SubDomain, Ip}),
                   Environment("http", "", {Domain}), Environment("", "http", {SubDomain})}

\* What the theorems TypeCorrect and RouteMeant ask of the constants
ASSUME Hypotheses == Spelled /\ Documented
==============================================================================
