------------------------------- MODULE Provider ------------------------------
(***************************************************************************)
(* What a provider block becomes (mysql/provider.go): providerConfigure    *)
(* turns the endpoint into an address, a way to log in and a dialer; the   *)
(* connections of the pool are dialed directly or through a proxy, and log *)
(* in with a password or a token that expires.                             *)
(*                                                                         *)
(* terraform starts one process for a provider block and configures it     *)
(* once.  A behaviour is about one block: its processes follow one another *)
(* and each connects for its handlers.  The connections of a process are   *)
(* made one after another here; the cache and the limits of the pool are   *)
(* the subject of Connections.                                             *)
(*                                                                         *)
(* Endpoints and the patterns of no_proxy are sequences of tokens, which   *)
(* HasPrefix, HasSuffix, Contains and Split treat as they do characters.   *)
(***************************************************************************)
EXTENDS Naturals, SequencesExt

CONSTANTS
    Blocks,        \* what a provider block may say
    Environments,  \* the proxy variables: [all, http, no]
    Network,       \* Network[p]: the hosts that are addresses in the network p
    Wants,         \* Wants[host]: the authentication plugin of the server, native or clear
    Stands,        \* Stands[p]: the endpoints that the pattern p is documented to name
    MaxTries, MaxFaults,
    Nil

Schemes == {"", "aws", "cloudsql", "azure"}

ASSUME ProviderAssumption ==
    /\ \A b \in Blocks :
          /\ b.scheme \in Schemes
          /\ b.host \in Seq({b.host[i] : i \in DOMAIN b.host})
          /\ b.proxy \in {"", "http", "socks5"}
          /\ b.plugin \in {"native", "cleartext", "Native"}
          /\ {b.rdsIam, b.iam, b.api} \subseteq BOOLEAN
    /\ \A e \in Environments : {e.all, e.http} \subseteq {"", "http", "socks5"}
    /\ MaxTries \in Nat /\ MaxFaults \in Nat

VARIABLES
    block, env,
    conf,    \* the configuration the handlers get, Nil when there is none
    pc,
    via,     \* the way of the connection being made, or made
    first,   \* whether createNewConnection makes it, rather than the pool
    wire,    \* what the dialer has not read yet: the proxy's reply, the server's greeting
    greeted, \* whether the server has sent its greeting
    silent,  \* whether the proxy has stopped answering
    fresh,   \* whether the token is still valid
    tries, faults

vars == <<block, env, conf, pc, via, first, wire, greeted, silent, fresh, tries, faults>>

------------------------------------------------------------------------------
(* The endpoint *)

Endpoint(b) == (IF b.scheme = "" THEN <<>> ELSE <<b.scheme, ":", "//">>)
               \o b.host \o (IF b.port = "" THEN <<>> ELSE <<":", b.port>>)

Has(s, token) == \E i \in DOMAIN s : s[i] = token

HasScheme(e, scheme) == IsPrefix(<<scheme, ":", "//">>, e)

Trim(e, scheme) == IF HasScheme(e, scheme) THEN SubSeq(e, 4, Len(e)) ELSE e

WithPort(e) == IF Has(e, ":") THEN e ELSE e \o <<":", "3306">>

Branch(b) ==
    LET e == Endpoint(b) IN
    IF e # <<>> /\ e[1] = "/" THEN "unix"
    ELSE IF b.rdsIam \/ HasScheme(e, "aws") THEN "aws"
    ELSE IF HasScheme(e, "cloudsql") THEN "cloudsql"
    ELSE IF HasScheme(e, "azure") THEN "azure"
    ELSE "plain"

\* Mutant: the prefix aws:// stays.
AddressUntrimmed(b) == IF Branch(b) = "aws" THEN WithPort(Endpoint(b)) ELSE Trim(Endpoint(b), Branch(b))

Address(b) == LET e == Trim(Endpoint(b), Branch(b)) IN IF Branch(b) = "aws" THEN WithPort(e) ELSE e

HasToken(b) == Branch(b) \in {"aws", "azure"} \/ (Branch(b) = "cloudsql" /\ b.iam)

\* Mutant: the endpoint of Azure leaves authentication_plugin as it is.
ClearTextAzureAsk(b) == b.plugin = "cleartext" \/ Branch(b) = "aws"

AllowsClearText(b) == b.plugin = "cleartext" \/ Branch(b) \in {"aws", "azure"}

Net(b) == IF b.api THEN "api" ELSE IF Branch(b) \in {"unix", "cloudsql"} THEN Branch(b) ELSE "tcp"

\* Mutant: the token is made before the port is added.
ConfOfEarly(b) ==
    [net |-> Net(b), addr |-> Address(b),
     token |-> IF Branch(b) = "aws" THEN Trim(Endpoint(b), "aws") ELSE Nil,
     clear |-> AllowsClearText(b), native |-> b.plugin = "native"]

\* The token of RDS is made for an address; an RDS Data API client needs none.
ConfOf(b) ==
    [net    |-> Net(b),
     addr   |-> Address(b),
     token  |-> IF Branch(b) = "aws" THEN Address(b) ELSE Nil,
     clear  |-> AllowsClearText(b),
     native |-> b.plugin = "native"]

------------------------------------------------------------------------------
(* shouldUseProxy and makeDialer *)

\* The host of shouldUseProxy: what stands before the first colon.
HostOf(e) == IF Has(e, ":")
             THEN SubSeq(e, 1, (CHOOSE i \in DOMAIN e : e[i] = ":" /\ ~Has(SubSeq(e, 1, i - 1), ":")) - 1)
             ELSE e

At(s, i, part) == i + Len(part) - 1 <= Len(s) /\ SubSeq(s, i, i + Len(part) - 1) = part

\* The regular expression of a pattern with one * is not anchored.
Wildcard(p, host) ==
    \E k \in DOMAIN p : p[k] = "*" /\
        \E i, j \in 1 .. Len(host) + 1 :
            /\ At(host, i, SubSeq(p, 1, k - 1)) /\ At(host, j, SubSeq(p, k + 1, Len(p)))
            /\ i + k - 1 <= j

\* Mutant: a domain pattern is a suffix.
ExcludesSuffix(p, e) ==
    LET host == HostOf(e) IN
    IF p = <<"*">> THEN TRUE
    ELSE IF Has(p, "/") THEN host \in Network[p]
    ELSE IF Has(p, ":") THEN e = p
    ELSE IF p[1] = "." THEN IsSuffix(p, host)
    ELSE IF IsPrefix(<<"*", ".">>, p) THEN IsSuffix(Tail(p), host)
    ELSE IF Has(p, "*") THEN Wildcard(p, host)
    ELSE host = p

Excludes(p, e) ==
    LET host == HostOf(e) IN
    IF p = <<"*">> THEN TRUE
    ELSE IF Has(p, "/") THEN host \in Network[p]
    ELSE IF Has(p, ":") THEN e = p
    ELSE IF p[1] = "." THEN host = Tail(p) \/ IsSuffix(p, host)
    ELSE IF IsPrefix(<<"*", ".">>, p) THEN IsSuffix(Tail(p), host)
    ELSE IF Has(p, "*") THEN Wildcard(p, host)
    ELSE host = p

\* The arguments, with their defaults from the environment
ProxyArg(b, e) == IF b.proxy # "" THEN b.proxy ELSE IF e.all # "" THEN e.all ELSE e.http

NoProxyArg(b, e) == IF b.noProxy # {} THEN b.noProxy ELSE e.no

ShouldUseProxy(b, e) == ~\E p \in NoProxyArg(b, e) : Excludes(p, Endpoint(b))

\* proxy.PerHost, which the environment's NO_PROXY makes
Bypassed(p, host) ==
    \/ Has(p, "/") /\ host \in Network[p]
    \/ IsPrefix(<<"*", ".">>, p) /\ (IsSuffix(Tail(p), host) \/ host = Tail(Tail(p)))
    \/ host = p

\* proxy.FromEnvironment, which knows no HTTP proxies
FromEnvironment(e, host) ==
    IF e.all = "socks5" /\ ~\E p \in e.no : Bypassed(p, host) THEN "socks5" ELSE "direct"

\* The registered dialer is only for tcp.
Route(b, e) ==
    IF Net(b) # "tcp" THEN Net(b)
    ELSE IF ProxyArg(b, e) # "" /\ ShouldUseProxy(b, e) THEN ProxyArg(b, e)
    ELSE FromEnvironment(e, HostOf(Address(b)))

------------------------------------------------------------------------------
Dialed == WithPort(conf.addr)

\* Whether the server lets the connection in (external)
Accepts ==
    /\ IF Wants[block.host] = "clear" THEN conf.clear ELSE conf.native
    /\ HasToken(block) => fresh
    /\ conf.token # Nil => conf.token = Dialed

Waiting == {"dial", "tunnel", "handshake"}

PC == Waiting \cup {"start", "idle", "open", "denied", "failed", "unconfigured"}

Ports == {<<>>, <<":", "3306">>} \cup {<<":", b.port>> : b \in Blocks}

Addresses == {b.host \o port : b \in Blocks, port \in Ports}

TypeOK ==
    /\ block \in Blocks /\ env \in Environments
    /\ conf # Nil =>
          /\ conf.net \in {"tcp", "unix", "cloudsql", "api"}
          /\ conf.addr \in Addresses /\ conf.token \in Addresses \cup {Nil}
          /\ {conf.clear, conf.native} \subseteq BOOLEAN
    /\ pc \in PC
    /\ via \in {Nil, "direct", "http", "socks5", "unix", "cloudsql", "api"}
    /\ wire \subseteq {"reply", "greeting"}
    /\ {first, greeted, silent, fresh} \subseteq BOOLEAN
    /\ tries \in 0 .. MaxTries /\ faults \in 0 .. MaxFaults

Init ==
    /\ block \in Blocks /\ env \in Environments
    /\ conf = Nil /\ pc = "start" /\ via = Nil /\ first = TRUE
    /\ wire = {} /\ greeted = FALSE /\ silent = FALSE /\ fresh = FALSE
    /\ tries = 0 /\ faults = 0

Fault == faults < MaxFaults /\ faults' = faults + 1

Goto(from, to) == pc = from /\ pc' = to

------------------------------------------------------------------------------
(* providerConfigure *)

Configure ==
    /\ Goto("start", "idle")
    /\ conf' = ConfOf(block)
    /\ fresh' = HasToken(block)
    /\ UNCHANGED <<block, env, via, first, wire, greeted, silent, tries, faults>>

\* A certificate or key of custom_tls that cannot be read or registered
ConfigureTlsFails ==
    /\ Goto("start", "unconfigured")
    /\ Fault
    /\ UNCHANGED <<block, env, conf, via, first, wire, greeted, silent, fresh, tries>>

\* Half a key pair in aws_config, no credentials, no token, no driver
CredentialsFail ==
    /\ Goto("start", "unconfigured")
    /\ block.api \/ Branch(block) \in {"aws", "azure", "cloudsql"}
    /\ Fault
    /\ UNCHANGED <<block, env, conf, via, first, wire, greeted, silent, fresh, tries>>

\* The token's life ends (external).
Expire ==
    /\ pc # "start" /\ fresh
    /\ Fault
    /\ fresh' = FALSE
    /\ UNCHANGED <<block, env, conf, pc, via, first, wire, greeted, silent, tries>>

------------------------------------------------------------------------------
(* getDatabaseFromMeta and the pool *)

Call ==
    /\ Goto("idle", "dial")
    /\ conf.net # "api"
    /\ first' = TRUE /\ tries' = 0
    /\ UNCHANGED <<block, env, conf, via, wire, greeted, silent, fresh, faults>>

\* connectToRDSDataAPI
CallApi ==
    /\ pc = "idle" /\ conf.net = "api"
    /\ via' = "api"
    /\ \/ pc' = "open" /\ UNCHANGED faults
       \/ pc' = "failed" /\ Fault
    /\ UNCHANGED <<block, env, conf, first, wire, greeted, silent, fresh, tries>>

\* An error that is not MySQL's is retried by createNewConnection, not by the pool.
Retry == IF first /\ tries < MaxTries THEN pc' = "dial" /\ tries' = tries + 1
         ELSE pc' = "failed" /\ UNCHANGED tries

Proxies == {"http", "socks5"}

\* The proxy, or the server, is reached; a proxy may not answer.
Dial ==
    /\ Goto("dial", IF Route(block, env) \in Proxies THEN "tunnel" ELSE "handshake")
    /\ via' = Route(block, env)
    /\ wire' = {} /\ greeted' = FALSE
    /\ \/ silent' = FALSE /\ UNCHANGED faults
       \/ Route(block, env) \in Proxies /\ silent' = TRUE /\ Fault
    /\ UNCHANGED <<block, env, conf, first, fresh, tries>>

DialFails ==
    /\ pc = "dial"
    /\ Fault /\ Retry
    /\ UNCHANGED <<block, env, conf, via, first, wire, greeted, silent, fresh>>

------------------------------------------------------------------------------
(* httpProxyDialer: CONNECT, and the reply read through a buffer; the SOCKS5 dialer, *)
(* which reads no more than the reply                                                 *)

\* The proxy has reached the server (external).
Reply ==
    /\ pc = "tunnel" /\ ~silent /\ "reply" \notin wire
    /\ wire' = wire \cup {"reply"}
    /\ UNCHANGED <<block, env, conf, pc, via, first, greeted, silent, fresh, tries, faults>>

Refuse ==
    /\ pc = "tunnel" /\ ~silent /\ "reply" \notin wire
    /\ Fault /\ Retry
    /\ UNCHANGED <<block, env, conf, via, first, wire, greeted, silent, fresh>>

\* A MySQL server speaks first, as soon as it is reached (external).
Greet ==
    /\ pc = "handshake" \/ "reply" \in wire
    /\ ~greeted
    /\ greeted' = TRUE
    /\ wire' = wire \cup {"greeting"}
    /\ UNCHANGED <<block, env, conf, pc, via, first, silent, fresh, tries, faults>>

\* The buffer of httpProxyDialer takes what has arrived, a greeting behind the reply
\* included, and is dropped when Dial returns the connection.
ReadReply ==
    /\ Goto("tunnel", "handshake")
    /\ "reply" \in wire
    /\ wire' = IF via = "http" THEN {} ELSE wire \ {"reply"}
    /\ UNCHANGED <<block, env, conf, via, first, greeted, silent, fresh, tries, faults>>

Login ==
    /\ Goto("handshake", IF Accepts THEN "open" ELSE "denied")
    /\ "greeting" \in wire
    /\ UNCHANGED <<block, env, conf, via, first, wire, greeted, silent, fresh, tries, faults>>

Swallowed == pc = "handshake" /\ greeted /\ wire = {}

\* The server closes a connection on which nobody logs in (external).
Close ==
    /\ Swallowed
    /\ Retry
    /\ UNCHANGED <<block, env, conf, via, first, wire, greeted, silent, fresh, faults>>

\* The connection is given up; what nobody answers is sooner or later.
Abandon ==
    /\ IF (pc = "tunnel" /\ silent) \/ Swallowed THEN UNCHANGED faults ELSE Fault
    /\ pc' = "failed"
    /\ UNCHANGED <<block, env, conf, via, first, wire, greeted, silent, fresh, tries>>

\* Mutant: the timeout is looked at between two attempts.
TimeoutBetween == pc = "dial" /\ first /\ Abandon

\* RetryContext returns at its timeout, whatever its closure waits for.
Timeout == pc \in Waiting /\ first /\ Abandon

\* The driver closes a connection of the pool when the context of its handler ends, but
\* only once it is dialed: RegisterDialContext gives no dialer the context.
Cancel == pc = "handshake" /\ ~first /\ Abandon

------------------------------------------------------------------------------
\* A connection of the pool ends, with max_conn_lifetime_sec or by the network, and a
\* handler needs another one.
Reconnect ==
    /\ Goto("open", "dial")
    /\ conf.net # "api"
    /\ first' = FALSE
    /\ Fault
    /\ UNCHANGED <<block, env, conf, via, wire, greeted, silent, fresh, tries>>

NewProcess ==
    /\ pc' = "start"
    /\ conf' = Nil /\ via' = Nil /\ first' = TRUE /\ fresh' = FALSE /\ tries' = 0
    /\ wire' = {} /\ greeted' = FALSE /\ silent' = FALSE
    /\ UNCHANGED <<block, env, faults>>

\* A connection of the pool waits for a proxy that has stopped answering.
Hangs == pc = "tunnel" /\ silent /\ ~first

\* The next run of terraform starts a new process.
NewRun == pc \in {"open", "denied", "failed", "unconfigured"} /\ NewProcess

\* Somebody kills a run that hangs.
Kill == Hangs /\ NewProcess

Step == \/ Configure \/ Call \/ CallApi \/ Dial \/ Reply \/ Greet \/ ReadReply
        \/ Login \/ Close

Next == \/ Step \/ Timeout \/ Cancel \/ NewRun \/ Kill
        \/ ConfigureTlsFails \/ CredentialsFail \/ DialFails \/ Refuse \/ Expire \/ Reconnect

Safe == Init /\ [][Next]_vars

\* A step that can be taken is taken, timers run, terraform is run again.
Spec == Safe /\ WF_vars(Step) /\ WF_vars(Timeout) /\ WF_vars(Cancel) /\ WF_vars(NewRun)

------------------------------------------------------------------------------
(* Properties *)

\* A host that no_proxy excludes is dialed directly, and any other one through the
\* proxy, for endpoints without a scheme, the documented forms of patterns and an
\* environment that has no SOCKS proxy of its own.
RouteIsMeant ==
    /\ pc \in {"handshake", "open"} /\ conf.net = "tcp"
    /\ block.scheme = "" /\ env.all # "socks5"
    /\ NoProxyArg(block, env) \subseteq DOMAIN Stands
    => via = IF ProxyArg(block, env) # "" /\ ~\E p \in NoProxyArg(block, env) : Endpoint(block) \in Stands[p]
             THEN ProxyArg(block, env) ELSE "direct"

\* authentication_plugin, spelled as in the code, is what the server asks for.
Right == HasToken(block) \/ block.plugin = IF Wants[block.host] = "clear" THEN "cleartext" ELSE "native"

\* A block that is right is refused by the server only with a token that has expired:
\* the token is for the address that is dialed, and what the server asks for is allowed.
DeniedWhenExpired == pc = "denied" /\ Right => HasToken(block) /\ ~fresh

\* Making a connection ends, also when a proxy never answers or its reply swallows the
\* greeting; except for the pool behind a proxy, of either kind, that does not answer.
ConnectEnds ==
    pc \in Waiting ~> (pc \notin Waiting \/ Hangs)

\* After an expired token, a refusing proxy or a failed configuration the next process
\* connects; behind an HTTP proxy the greeting may be swallowed every time.
ComesBack ==
    pc \in {"denied", "failed", "unconfigured"} /\ Right /\ Route(block, env) # "http" ~> pc = "open"
==============================================================================
