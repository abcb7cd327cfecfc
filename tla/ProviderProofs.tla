---------------------------- MODULE ProviderProofs ----------------------------
(* Proofs about Provider, for any blocks, environments and servers, any number    *)
(* of attempts and of failures.                                                   *)
EXTENDS Provider, SequenceTheorems, TLAPS

\* A server that takes tokens asks for them in clear text, but Cloud SQL.
TokensWanted ==
    \A b \in Blocks : HasToken(b) =>
        IF Wants[b.host] = "clear" THEN AllowsClearText(b) ELSE b.plugin = "native"

\* The handlers' configuration is that of the block, and who was denied is denied again
\* until there is another process.
ConfInv ==
    /\ block \in Blocks
    /\ pc \notin {"start", "unconfigured"} => conf = ConfOf(block)
    /\ pc = "denied" => ~Accepts

\* A port is added once.
LEMMA PortOnce ==
    ASSUME NEW S, NEW e \in Seq(S)
    PROVE  WithPort(WithPort(e)) = WithPort(e)
<1>1. CASE Has(e, ":")
    BY <1>1 DEF WithPort
<1>2. CASE ~Has(e, ":")
  <2>1. WithPort(e) = e \o <<":", "3306">>
      BY <1>2 DEF WithPort
  <2>2. Has(e \o <<":", "3306">>, ":")
    <3> DEFINE T == S \cup {":", "3306"}
    <3>1. e \in Seq(T) /\ <<":", "3306">> \in Seq(T) /\ Len(<<":", "3306">>) = 2
      <4>1. e \in [1 .. Len(e) -> T] /\ Len(e) \in Nat
          BY LenProperties
      <4> QED
          BY <4>1, SeqDef
    <3>2. DOMAIN (e \o <<":", "3306">>) = 1 .. Len(e) + 2 /\ (e \o <<":", "3306">>)[Len(e) + 1] = ":"
          /\ Len(e) \in Nat
      <4> HIDE DEF T
      <4> QED
          BY <3>1, ConcatProperties, LenProperties
    <3> QED
        BY <3>2 DEF Has
  <2> QED
      BY <2>1, <2>2 DEF WithPort
<1> QED
    BY <1>1, <1>2

LEMMA Widen ==
    ASSUME NEW S, NEW T, NEW e \in Seq(S), S \subseteq T
    PROVE  e \in Seq(T)
<1>1. e \in [1 .. Len(e) -> S] /\ Len(e) \in Nat
    BY LenProperties
<1>2. e \in [1 .. Len(e) -> T]
    BY <1>1
<1> QED
    BY <1>1, <1>2, SeqDef

LEMMA EndpointType ==
    ASSUME NEW b \in Blocks
    PROVE  \E T : Endpoint(b) \in Seq(T)
<1> DEFINE S == {b.host[i] : i \in DOMAIN b.host}
           T == S \cup {b.scheme, ":", "//", b.port}
           before == IF b.scheme = "" THEN <<>> ELSE <<b.scheme, ":", "//">>
           after == IF b.port = "" THEN <<>> ELSE <<":", b.port>>
<1>1. b.host \in Seq(S)
    BY ProviderAssumption
<1>2. b.host \in Seq(T)
  <2>1. S \subseteq T
      OBVIOUS
  <2> HIDE DEF S, T
  <2> QED
      BY <1>1, <2>1, Widen
<1>3. <<>> \in Seq(T) /\ <<b.scheme, ":", "//">> \in Seq(T) /\ <<":", b.port>> \in Seq(T)
  <2>1. b.scheme \in T /\ ":" \in T /\ "//" \in T /\ b.port \in T
      OBVIOUS
  <2> HIDE DEF T
  <2> QED
      BY <2>1
<1>4. before \in Seq(T) /\ after \in Seq(T)
  <2> HIDE DEF T
  <2> QED
      BY <1>3
<1>5. Endpoint(b) = before \o b.host \o after
    BY DEF Endpoint
<1> HIDE DEF T, before, after
<1>6. before \o b.host \in Seq(T)
    BY <1>2, <1>4, ConcatProperties
<1>7. before \o b.host \o after \in Seq(T)
    BY <1>4, <1>6, ConcatProperties
<1> QED
    BY <1>5, <1>7

LEMMA TrimType ==
    ASSUME NEW S, NEW e \in Seq(S), NEW scheme
    PROVE  Trim(e, scheme) \in Seq(S)
<1>1. SubSeq(e, 4, Len(e)) \in Seq(S)
  <2>1. Len(e) \in Nat /\ 4 \in Int /\ Len(e) \in Int
      BY LenProperties
  <2>2. \A i \in 4 .. Len(e) : e[i] \in S
      BY <2>1, ElementOfSeq
  <2> QED
      BY <2>1, <2>2, SubSeqProperties
<1> QED
    BY <1>1 DEF Trim

\* The token is for the address that is dialed.
LEMMA TokenMatches ==
    ASSUME NEW b \in Blocks, Branch(b) = "aws"
    PROVE  WithPort(Address(b)) = Address(b)
<1>1. PICK T : Endpoint(b) \in Seq(T)
    BY EndpointType
<1>2. Trim(Endpoint(b), Branch(b)) \in Seq(T)
    BY <1>1, TrimType
<1> DEFINE e == Trim(Endpoint(b), Branch(b))
<1>3. Address(b) = WithPort(e)
    BY DEF Address
<1> HIDE DEF e
<1>4. e \in Seq(T)
    BY <1>2 DEF e
<1> QED
    BY <1>3, <1>4, PortOnce

\* A right block is denied only with a token that has expired.
LEMMA DeniedMeans ==
    ASSUME TokensWanted, ConfInv, pc = "denied", Right
    PROVE  HasToken(block) /\ ~fresh
<1>1. block \in Blocks /\ conf = ConfOf(block) /\ ~Accepts
    BY DEF ConfInv
<1>2. /\ conf.addr = Address(block) /\ conf.clear = AllowsClearText(block)
      /\ conf.native = (block.plugin = "native")
      /\ conf.token = IF Branch(block) = "aws" THEN Address(block) ELSE Nil
    BY <1>1 DEF ConfOf
<1>3. conf.token # Nil => conf.token = Dialed
    BY <1>1, <1>2, TokenMatches DEF Dialed
<1>4. IF Wants[block.host] = "clear" THEN conf.clear ELSE conf.native
  <2>1. CASE HasToken(block)
      BY <1>1, <1>2, <2>1 DEF TokensWanted
  <2>2. CASE ~HasToken(block)
    <3>1. block.plugin = IF Wants[block.host] = "clear" THEN "cleartext" ELSE "native"
        BY <2>2 DEF Right
    <3> QED
        BY <1>2, <3>1 DEF AllowsClearText
  <2> QED
      BY <2>1, <2>2
<1> QED
    BY <1>1, <1>3, <1>4 DEF Accepts

LEMMA ConfStep ==
    ASSUME ConfInv, [Next]_vars
    PROVE  ConfInv'
<1>1. ASSUME block' = block, conf' = conf, pc' # "denied",
             pc \notin {"start", "unconfigured"} \/ pc' \in {"start", "unconfigured"}
      PROVE  ConfInv'
  <2>1. ConfOf(block)' = ConfOf(block)
      BY <1>1
  <2> QED
      BY <1>1, <2>1 DEF ConfInv
<1>2. CASE Configure
  <2>1. block' = block /\ pc' = "idle" /\ conf' = ConfOf(block)
      BY <1>2 DEF Configure, Goto
  <2> QED
      BY <2>1 DEF ConfInv
<1>3. CASE Call \/ CallApi \/ Dial \/ Reply \/ ReadReply
    BY <1>1, <1>3 DEF Call, CallApi, Dial, Reply, ReadReply, Goto
<1>4. CASE Greet
  <2>1. block' = block /\ conf' = conf /\ pc' = pc /\ fresh' = fresh
      BY <1>4 DEF Greet
  <2> QED
      BY <2>1 DEF ConfInv, Accepts, Dialed
<1>5. CASE Login
  <2>1. /\ pc = "handshake" /\ pc' = (IF Accepts THEN "open" ELSE "denied")
        /\ block' = block /\ conf' = conf /\ fresh' = fresh
      BY <1>5 DEF Login, Goto
  <2>2. Accepts' = Accepts
      BY <2>1 DEF Accepts, Dialed
  <2> QED
      BY <2>1, <2>2 DEF ConfInv
<1>6. CASE Close \/ DialFails \/ Refuse \/ Timeout \/ Cancel
  <2>1. pc \in {"dial", "tunnel", "handshake"} /\ pc' \in {"dial", "failed"} /\ block' = block /\ conf' = conf
      BY <1>6 DEF Close, Swallowed, DialFails, Refuse, Timeout, Cancel, Abandon, Waiting, Retry
  <2> QED
      BY <1>1, <2>1
<1>7. CASE NewRun \/ Kill
  <2>1. pc' = "start" /\ block' = block
      BY <1>7 DEF NewRun, Kill, NewProcess
  <2> QED
      BY <2>1 DEF ConfInv
<1>8. CASE ConfigureTlsFails \/ CredentialsFail
    BY <1>1, <1>8 DEF ConfigureTlsFails, CredentialsFail, Goto
<1>9. CASE Expire
  <2>1. block' = block /\ conf' = conf /\ pc' = pc /\ fresh /\ ~fresh'
      BY <1>9 DEF Expire
  <2>2. ~Accepts => ~Accepts'
      BY <2>1 DEF Accepts, Dialed
  <2> QED
      BY <2>1, <2>2 DEF ConfInv
<1>10. CASE Reconnect
    BY <1>1, <1>10 DEF Reconnect, Goto
<1>11. CASE UNCHANGED vars
    BY <1>11 DEF vars, ConfInv, Accepts, Dialed
<1> QED
    BY <1>2, <1>3, <1>4, <1>5, <1>6, <1>7, <1>8, <1>9, <1>10, <1>11 DEF Next, Step

\* A right block is refused by the server only with a token that has expired, in whichever
\* process, by whichever way and attempt, if the servers that take tokens ask for what the
\* provider allows for them.
THEOREM Denied == TokensWanted => (Safe => []DeniedWhenExpired)
<1> SUFFICES ASSUME TokensWanted PROVE Safe => []DeniedWhenExpired
    OBVIOUS
<1>1. Init => ConfInv
    BY DEF Init, ConfInv
<1>2. ConfInv /\ [Next]_vars => ConfInv'
    BY ConfStep
<1>3. ConfInv => DeniedWhenExpired
    BY DeniedMeans DEF DeniedWhenExpired
<1> QED
    BY <1>1, <1>2, <1>3, PTL DEF Safe


------------------------------------------------------------------------------
(* Endpoints and addresses *)

\* An endpoint without a scheme has no // in it, and aws_config.rds_iam_auth is for an
\* endpoint that has no other scheme than aws.
Spelled == \A b \in Blocks : /\ b.scheme = "" => ~Has(Endpoint(b), "//")
                             /\ b.rdsIam => b.scheme \in {"", "aws"}

PortOf(b) == IF b.port = "" THEN <<>> ELSE <<":", b.port>>

Rest(b) == b.host \o PortOf(b)

LEMMA Associate ==
    ASSUME NEW T, NEW s \in Seq(T), NEW t \in Seq(T), NEW u \in Seq(T)
    PROVE  (s \o t) \o u = s \o (t \o u)
BY ConcatAssociative

LEMMA HostType ==
    ASSUME NEW b \in Blocks
    PROVE  \E T : /\ b.host \in Seq(T) /\ PortOf(b) \in Seq(T)
                  /\ {":", "//", "3306", b.scheme, b.port} \subseteq T
<1> DEFINE S == {b.host[i] : i \in DOMAIN b.host}
           T == S \cup {":", "//", "3306", b.scheme, b.port}
<1>1. b.host \in Seq(S) /\ S \subseteq T
    BY ProviderAssumption
<1>2. {":", "//", "3306", b.scheme, b.port} \subseteq T
    OBVIOUS
<1> HIDE DEF S, T
<1>3. b.host \in Seq(T)
    BY <1>1, Widen
<1>4. PortOf(b) \in Seq(T)
  <2>1. ":" \in T /\ b.port \in T
      BY <1>2
  <2>2. <<>> \in Seq(T) /\ <<":", b.port>> \in Seq(T)
      BY <2>1
  <2> QED
      BY <2>2 DEF PortOf
<1> QED
    BY <1>2, <1>3, <1>4

LEMMA RestType ==
    ASSUME NEW b \in Blocks, NEW T, b.host \in Seq(T), PortOf(b) \in Seq(T),
           {":", "//", "3306", b.scheme, b.port} \subseteq T
    PROVE  /\ Rest(b) \in Seq(T)
           /\ b.scheme = "" => Endpoint(b) = Rest(b)
           /\ b.scheme # "" => Endpoint(b) = <<b.scheme, ":", "//">> \o Rest(b)
<1>1. Rest(b) \in Seq(T)
    BY ConcatProperties DEF Rest
<1>2. ASSUME b.scheme = "" PROVE Endpoint(b) = Rest(b)
  <2>1. Endpoint(b) = <<>> \o b.host \o PortOf(b)
      BY <1>2 DEF Endpoint, PortOf
  <2>2. <<>> \o b.host = b.host
      BY ConcatEmptySeq
  <2> QED
      BY <2>1, <2>2 DEF Rest
<1>3. ASSUME b.scheme # "" PROVE Endpoint(b) = <<b.scheme, ":", "//">> \o Rest(b)
  <2>1. Endpoint(b) = <<b.scheme, ":", "//">> \o b.host \o PortOf(b)
      BY <1>3 DEF Endpoint, PortOf
  <2>2. <<b.scheme, ":", "//">> \in Seq(T)
    <3>1. b.scheme \in T /\ ":" \in T /\ "//" \in T
        OBVIOUS
    <3> QED
        BY <3>1
  <2>3. (<<b.scheme, ":", "//">> \o b.host) \o PortOf(b) = <<b.scheme, ":", "//">> \o (b.host \o PortOf(b))
    <3> DEFINE s == <<b.scheme, ":", "//">>
    <3>1. s \in Seq(T)
        BY <2>2
    <3> HIDE DEF s
    <3>2. (s \o b.host) \o PortOf(b) = s \o (b.host \o PortOf(b))
      <4> DEFINE h == b.host
                 p == PortOf(b)
      <4>1. h \in Seq(T) /\ p \in Seq(T)
          OBVIOUS
      <4> HIDE DEF h, p
      <4>2. (s \o h) \o p = s \o (h \o p)
          BY <3>1, <4>1, Associate
      <4> QED
          BY <4>2 DEF h, p
    <3> QED
        BY <3>2 DEF s
  <2> QED
      BY <2>1, <2>3 DEF Rest
<1> QED
    BY <1>1, <1>2, <1>3

\* The tokens of a concatenation
LEMMA HeadTokens ==
    ASSUME NEW T, NEW s \in Seq(T), NEW t \in Seq(T)
    PROVE  /\ s \o t \in Seq(T) /\ Len(s \o t) = Len(s) + Len(t)
           /\ \A i \in 1 .. Len(s) : (s \o t)[i] = s[i]
           /\ \A i \in 1 .. Len(t) : (s \o t)[Len(s) + i] = t[i]
           /\ DOMAIN (s \o t) = 1 .. Len(s) + Len(t)
<1>1. Len(s) \in Nat /\ Len(t) \in Nat
    BY LenProperties
<1>2. /\ s \o t \in Seq(T) /\ Len(s \o t) = Len(s) + Len(t)
      /\ \A i \in 1 .. Len(s) + Len(t) : (s \o t)[i] = IF i <= Len(s) THEN s[i] ELSE t[i - Len(s)]
    BY ConcatProperties
<1>3. DOMAIN (s \o t) = 1 .. Len(s \o t)
    BY <1>2, LenProperties
<1> DEFINE m == Len(s)
           n == Len(t)
           c == s \o t
<1> HIDE DEF m, n, c
<1>4. m \in Nat /\ n \in Nat
    BY <1>1 DEF m, n
<1>5. \A i \in 1 .. m + n : c[i] = IF i <= m THEN s[i] ELSE t[i - m]
    BY <1>2 DEF m, n, c
<1>6. \A i \in 1 .. m : c[i] = s[i]
    BY <1>4, <1>5
<1>7. ASSUME NEW i \in 1 .. n PROVE c[m + i] = t[i]
  <2>1. m + i \in 1 .. m + n /\ ~(m + i <= m) /\ (m + i) - m = i
      BY <1>4
  <2> QED
      BY <1>5, <2>1
<1> QED
    BY <1>2, <1>3, <1>6, <1>7 DEF m, n, c

LEMMA HeadOfTail ==
    ASSUME NEW T, NEW s \in Seq(T), NEW t \in Seq(T), t # <<>>
    PROVE  Has(s \o t, t[1])
<1>1. Len(s) \in Nat /\ Len(t) \in Nat \ {0}
    BY LenProperties, EmptySeq
<1>2. /\ \A i \in 1 .. Len(t) : (s \o t)[Len(s) + i] = t[i]
      /\ DOMAIN (s \o t) = 1 .. Len(s) + Len(t)
    BY HeadTokens
<1>3. 1 \in 1 .. Len(t) /\ Len(s) + 1 \in 1 .. Len(s) + Len(t)
    BY <1>1
<1>4. (s \o t)[Len(s) + 1] = t[1] /\ Len(s) + 1 \in DOMAIN (s \o t)
    BY <1>2, <1>3
<1> QED
    BY <1>4 DEF Has

\* A prefix, token by token
LEMMA SchemeTokens ==
    ASSUME NEW T, NEW e \in Seq(T), NEW x
    PROVE  HasScheme(e, x) <=> Len(e) >= 3 /\ e[1] = x /\ e[2] = ":" /\ e[3] = "//"
<1> DEFINE s == <<x, ":", "//">>
           U == T \cup {x, ":", "//"}
<1>1. s \in Seq(U) /\ Len(s) = 3 /\ s[1] = x /\ s[2] = ":" /\ s[3] = "//"
  <2>1. x \in U /\ ":" \in U /\ "//" \in U
      OBVIOUS
  <2> HIDE DEF U
  <2> QED
      BY <2>1
<1>2. e \in Seq(U) /\ Len(e) \in Nat
  <2>1. T \subseteq U
      OBVIOUS
  <2> HIDE DEF U
  <2> QED
      BY <2>1, Widen, LenProperties
<1>3. HasScheme(e, x) <=> (3 <= Len(e) /\ SubSeq(s, 1, 3) = SubSeq(e, 1, 3))
    BY <1>1 DEF HasScheme, IsPrefix
<1> HIDE DEF s, U
<1>4. SubSeq(s, 1, 3) = s
    BY <1>1, SubSeqFull
<1>5. ASSUME 3 <= Len(e)
      PROVE  SubSeq(e, 1, 3) \in Seq(U) /\ Len(SubSeq(e, 1, 3)) = 3
             /\ SubSeq(e, 1, 3)[1] = e[1] /\ SubSeq(e, 1, 3)[2] = e[2] /\ SubSeq(e, 1, 3)[3] = e[3]
  <2>1. \A i \in 1 .. 3 : e[i] \in U
      BY <1>2, <1>5, ElementOfSeq
  <2>2. /\ SubSeq(e, 1, 3) \in Seq(U)
        /\ Len(SubSeq(e, 1, 3)) = (IF 1 <= 3 THEN 3 - 1 + 1 ELSE 0)
        /\ \A i \in 1 .. 3 - 1 + 1 : SubSeq(e, 1, 3)[i] = e[1 + i - 1]
      BY <2>1, SubSeqProperties
  <2>3. 1 \in 1 .. 3 - 1 + 1 /\ 2 \in 1 .. 3 - 1 + 1 /\ 3 \in 1 .. 3 - 1 + 1
      OBVIOUS
  <2> QED
      BY <2>2, <2>3
<1>6. ASSUME 3 <= Len(e), e[1] = x, e[2] = ":", e[3] = "//"
      PROVE  s = SubSeq(e, 1, 3)
  <2>1. \A i \in 1 .. 3 : s[i] = SubSeq(e, 1, 3)[i]
    <3>1. \A i \in 1 .. 3 : i = 1 \/ i = 2 \/ i = 3
        OBVIOUS
    <3> QED
        BY <1>1, <1>5, <1>6, <3>1
  <2> QED
      BY <1>1, <1>5, <1>6, <2>1, SeqEqual
<1> QED
    BY <1>1, <1>2, <1>3, <1>4, <1>5, <1>6

\* What is trimmed is the scheme.
LEMMA Trimmed ==
    ASSUME Spelled, NEW b \in Blocks
    PROVE  Trim(Endpoint(b), Branch(b)) = Rest(b)
<1>0. PICK T : /\ b.host \in Seq(T) /\ PortOf(b) \in Seq(T)
               /\ {":", "//", "3306", b.scheme, b.port} \subseteq T
    BY HostType
<1>1. /\ Rest(b) \in Seq(T) /\ Len(Rest(b)) \in Nat
      /\ b.scheme = "" => Endpoint(b) = Rest(b)
      /\ b.scheme # "" => Endpoint(b) = <<b.scheme, ":", "//">> \o Rest(b)
    BY <1>0, RestType, LenProperties
<1>2. CASE b.scheme = ""
  <2>1. ~Has(Rest(b), "//")
      BY <1>1, <1>2 DEF Spelled
  <2>2. Len(Rest(b)) >= 3 => Rest(b)[3] # "//"
    <3>1. DOMAIN Rest(b) = 1 .. Len(Rest(b)) /\ Len(Rest(b)) \in Nat
        BY <1>1, LenProperties
    <3>2. Len(Rest(b)) >= 3 => 3 \in DOMAIN Rest(b)
        BY <3>1
    <3> QED
        BY <2>1, <3>2 DEF Has
  <2>3. \A x : ~HasScheme(Rest(b), x)
      BY <1>1, <2>2, SchemeTokens
  <2> QED
      BY <1>1, <1>2, <2>3 DEF Trim
<1>3. CASE b.scheme # ""
  <2> DEFINE s == <<b.scheme, ":", "//">>
             e == Endpoint(b)
  <2>1. s \in Seq(T) /\ Len(s) = 3 /\ s[1] = b.scheme /\ s[2] = ":" /\ s[3] = "//"
    <3>1. b.scheme \in T /\ ":" \in T /\ "//" \in T
        BY <1>0
    <3> QED
        BY <3>1
  <2>2. e = s \o Rest(b)
      BY <1>1, <1>3
  <2> HIDE DEF s, e
  <2>3. e \in Seq(T) /\ Len(e) = 3 + Len(Rest(b)) /\ \A i \in 1 .. 3 : e[i] = s[i]
    <3> DEFINE r == Rest(b)
    <3>1. r \in Seq(T)
        BY <1>1
    <3> HIDE DEF r
    <3>2. s \o r \in Seq(T) /\ Len(s \o r) = Len(s) + Len(r) /\ \A i \in 1 .. Len(s) : (s \o r)[i] = s[i]
        BY <2>1, <3>1, HeadTokens
    <3> QED
        BY <2>1, <2>2, <3>2 DEF r
  <2>4. Len(e) >= 3 /\ e[1] = b.scheme /\ e[2] = ":" /\ e[3] = "//"
    <3>1. Len(Rest(b)) \in Nat
        BY <1>1
    <3>2. 3 + Len(Rest(b)) >= 3 /\ 1 \in 1 .. 3 /\ 2 \in 1 .. 3 /\ 3 \in 1 .. 3
        BY <3>1
    <3> QED
        BY <2>1, <2>3, <3>2
  <2>5. \A x : HasScheme(e, x) <=> x = b.scheme
      BY <2>3, <2>4, SchemeTokens
  <2>6. b.scheme \in {"aws", "cloudsql", "azure"}
      BY <1>3, ProviderAssumption DEF Schemes
  <2>7. ~(e # <<>> /\ e[1] = "/")
      BY <2>4, <2>6
  <2>8. Branch(b) = b.scheme
    <3>1. b.rdsIam => b.scheme = "aws"
        BY <1>3 DEF Spelled
    <3>2. Branch(b) = IF e # <<>> /\ e[1] = "/" THEN "unix"
                      ELSE IF b.rdsIam \/ HasScheme(e, "aws") THEN "aws"
                      ELSE IF HasScheme(e, "cloudsql") THEN "cloudsql"
                      ELSE IF HasScheme(e, "azure") THEN "azure"
                      ELSE "plain"
        BY DEF Branch, e
    <3> QED
        BY <2>5, <2>6, <2>7, <3>1, <3>2
  <2>9. Trim(e, Branch(b)) = SubSeq(e, 4, Len(e))
      BY <2>5, <2>8 DEF Trim
  <2>10. SubSeq(e, 4, Len(e)) = Rest(b)
    <3>1. CASE Rest(b) = <<>>
      <4>1. Len(e) = 3 /\ 3 \in Int /\ 4 \in Int /\ 3 < 4
          BY <2>3, <3>1
      <4> QED
          BY <3>1, <4>1, SubSeqEmpty
    <3>2. CASE Rest(b) # <<>>
      <4>1. Len(Rest(b)) \in Nat \ {0}
          BY <1>1, <3>2, EmptySeq
      <4>2. 4 \in Len(s) + 1 .. Len(s) + Len(Rest(b)) /\ Len(e) \in Len(s) + 1 .. Len(s) + Len(Rest(b))
          BY <2>1, <2>3, <4>1
      <4>3. SubSeq(s \o Rest(b), 4, Len(e)) = SubSeq(Rest(b), 4 - Len(s), Len(e) - Len(s))
          BY <1>1, <2>1, <4>2, SubSeqOfConcat2
      <4>4. 4 - Len(s) = 1 /\ Len(e) - Len(s) = Len(Rest(b))
          BY <2>1, <2>3, <4>1
      <4>5. SubSeq(Rest(b), 1, Len(Rest(b))) = Rest(b)
          BY <1>1, SubSeqFull
      <4> QED
          BY <2>2, <4>3, <4>4, <4>5
    <3> QED
        BY <3>1, <3>2
  <2> QED
      BY <2>9, <2>10 DEF e
<1> QED
    BY <1>2, <1>3

LEMMA AnAddress ==
    ASSUME NEW b \in Blocks, NEW port \in Ports
    PROVE  b.host \o port \in Addresses
<1> DEFINE f(x, y) == x.host \o y
<1>1. Addresses = {f(x, y) : x \in Blocks, y \in Ports}
    BY DEF Addresses
<1> HIDE DEF f
<1>2. f(b, port) \in Addresses
    BY <1>1
<1> QED
    BY <1>2 DEF f

\* A port is there, or it is added.
LEMMA AddressType ==
    ASSUME Spelled, NEW b \in Blocks
    PROVE  Address(b) \in Addresses
<1>0. PICK T : /\ b.host \in Seq(T) /\ PortOf(b) \in Seq(T)
               /\ {":", "//", "3306", b.scheme, b.port} \subseteq T
    BY HostType
<1>1. Address(b) \in {Rest(b), WithPort(Rest(b))}
    BY Trimmed DEF Address
<1>2. Rest(b) \in Addresses
  <2>1. PortOf(b) \in Ports
      BY DEF PortOf, Ports
  <2> QED
      BY <2>1, AnAddress DEF Rest
<1>3. ASSUME ~Has(Rest(b), ":") PROVE Rest(b) \o <<":", "3306">> \in Addresses
  <2>1. b.port = ""
    <3> SUFFICES ASSUME b.port # "" PROVE FALSE
        OBVIOUS
    <3>1. PortOf(b) # <<>> /\ PortOf(b)[1] = ":"
        BY DEF PortOf
    <3>2. Has(Rest(b), PortOf(b)[1])
        BY <1>0, <3>1, HeadOfTail DEF Rest
    <3> QED
        BY <1>3, <3>1, <3>2
  <2>2. Rest(b) = b.host
      BY <1>0, <2>1, ConcatEmptySeq DEF Rest, PortOf
  <2>3. <<":", "3306">> \in Ports
      BY DEF Ports
  <2> QED
      BY <2>2, <2>3, AnAddress
<1> QED
    BY <1>1, <1>2, <1>3 DEF WithPort

------------------------------------------------------------------------------
(* The type invariant *)

ConfIs == conf = Nil \/ conf = ConfOf(block)

LEMMA RouteType ==
    ASSUME NEW b \in Blocks, NEW e \in Environments
    PROVE  Route(b, e) \in {"direct", "http", "socks5", "unix", "cloudsql", "api"}
<1>1. Net(b) \in {"tcp", "unix", "cloudsql", "api"}
    BY DEF Net
<1>2. ProxyArg(b, e) \in {"", "http", "socks5"}
    BY ProviderAssumption DEF ProxyArg
<1>3. FromEnvironment(e, HostOf(Address(b))) \in {"direct", "socks5"}
    BY DEF FromEnvironment
<1> QED
    BY <1>1, <1>2, <1>3 DEF Route

LEMMA StepKeepsConf == ConfIs /\ [Next]_vars => ConfIs' /\ UNCHANGED <<block, env>>
<1> SUFFICES ASSUME ConfIs, [Next]_vars PROVE ConfIs' /\ UNCHANGED <<block, env>>
    OBVIOUS
<1>1. UNCHANGED <<block, env>>
    BY DEF Next, Step, Configure, ConfigureTlsFails, CredentialsFail, Expire, Call, CallApi,
        Dial, DialFails, Reply, Refuse, Greet, ReadReply, Login, Close, Timeout, Cancel,
        Abandon, Reconnect, NewRun,
        Kill, NewProcess, vars
<1>2. conf' = conf \/ conf' = Nil \/ conf' = ConfOf(block)
    BY DEF Next, Step, Configure, ConfigureTlsFails, CredentialsFail, Expire, Call, CallApi,
        Dial, DialFails, Reply, Refuse, Greet, ReadReply, Login, Close, Timeout, Cancel,
        Abandon, Reconnect, NewRun,
        Kill, NewProcess, vars
<1>3. ConfOf(block)' = ConfOf(block)
    BY <1>1
<1> QED
    BY <1>1, <1>2, <1>3 DEF ConfIs

LEMMA Limits == MaxTries \in Nat /\ MaxFaults \in Nat
BY ProviderAssumption

LEMMA FaultType == ASSUME TypeOK, Fault PROVE faults' \in 0 .. MaxFaults
BY Limits DEF TypeOK, Fault

LEMMA RetryType ==
    ASSUME TypeOK, Retry
    PROVE  pc' \in {"dial", "failed"} /\ tries' \in 0 .. MaxTries
BY Limits DEF TypeOK, Retry

LEMMA NextKeepsType ==
    ASSUME Spelled, TypeOK, ConfIs, [Next]_vars
    PROVE  TypeOK'
<1>0. ConfIs' /\ UNCHANGED <<block, env>>
    BY StepKeepsConf
<1>1. conf' # Nil =>
          /\ conf'.net \in {"tcp", "unix", "cloudsql", "api"}
          /\ conf'.addr \in Addresses /\ conf'.token \in Addresses \cup {Nil}
          /\ {conf'.clear, conf'.native} \subseteq BOOLEAN
  <2>1. conf' = Nil \/ conf' = ConfOf(block)
      BY <1>0 DEF ConfIs
  <2>2. Net(block) \in {"tcp", "unix", "cloudsql", "api"}
      BY DEF Net
  <2>3. Address(block) \in Addresses
      BY AddressType DEF TypeOK
  <2>4. AllowsClearText(block) \in BOOLEAN /\ (block.plugin = "native") \in BOOLEAN
      BY DEF AllowsClearText
  <2>5. ASSUME conf' # Nil
        PROVE  /\ conf'.net = Net(block) /\ conf'.addr = Address(block)
               /\ conf'.token \in {Address(block), Nil}
               /\ conf'.clear = AllowsClearText(block) /\ conf'.native = (block.plugin = "native")
    <3>1. conf' = ConfOf(block)
        BY <2>1, <2>5
    <3>2. conf'.token = IF Branch(block) = "aws" THEN Address(block) ELSE Nil
        BY <3>1 DEF ConfOf
    <3> QED
        BY <3>1, <3>2 DEF ConfOf
  <2>6. ASSUME conf' # Nil PROVE conf'.clear \in BOOLEAN /\ conf'.native \in BOOLEAN
      BY <2>4, <2>5, <2>6
  <2> QED
      BY <2>2, <2>3, <2>5, <2>6
<1> DEFINE Kinds == {Nil, "direct", "http", "socks5", "unix", "cloudsql", "api"}
\* What is left to look at in each action
<1>2. ASSUME pc' \in PC, via' \in Kinds, wire' \subseteq {"reply", "greeting"},
             first' \in BOOLEAN, greeted' \in BOOLEAN, silent' \in BOOLEAN, fresh' \in BOOLEAN,
             tries' \in 0 .. MaxTries, faults' \in 0 .. MaxFaults
      PROVE  TypeOK'
    BY <1>0, <1>1, <1>2 DEF TypeOK
<1>3. /\ pc \in PC /\ via \in Kinds /\ wire \subseteq {"reply", "greeting"}
      /\ first \in BOOLEAN /\ greeted \in BOOLEAN /\ silent \in BOOLEAN /\ fresh \in BOOLEAN
      /\ tries \in 0 .. MaxTries /\ faults \in 0 .. MaxFaults
      /\ {"start", "idle", "dial", "tunnel", "handshake", "open", "denied", "failed",
          "unconfigured"} \subseteq PC
      /\ 0 \in 0 .. MaxTries
    BY Limits DEF TypeOK, PC, Waiting
<1> HIDE DEF Kinds
<1>4. CASE Configure
  <2>1. HasToken(block) \in BOOLEAN
      BY ProviderAssumption DEF HasToken, TypeOK
  <2> QED
      BY <1>2, <1>3, <1>4, <2>1 DEF Configure, Goto
<1>5. CASE ConfigureTlsFails \/ CredentialsFail \/ Expire
    BY <1>2, <1>3, <1>5, FaultType DEF ConfigureTlsFails, CredentialsFail, Expire, Goto
<1>6. CASE Call
    BY <1>2, <1>3, <1>6 DEF Call, Goto
<1>7. CASE CallApi
  <2>1. faults' \in 0 .. MaxFaults /\ pc' \in PC /\ via' \in Kinds
      BY <1>3, <1>7, FaultType DEF CallApi, Kinds
  <2> QED
      BY <1>2, <1>3, <1>7, <2>1 DEF CallApi
<1>8. CASE Dial
  <2>1. Route(block, env) \in Kinds
      BY RouteType DEF TypeOK, Kinds
  <2>2. faults' \in 0 .. MaxFaults /\ silent' \in BOOLEAN
      BY <1>3, <1>8, FaultType DEF Dial
  <2>3. pc' \in PC
      BY <1>3, <1>8 DEF Dial, Goto
  <2>4. via' \in Kinds /\ wire' = {} /\ greeted' = FALSE
      BY <1>8, <2>1 DEF Dial
  <2> QED
      BY <1>2, <1>3, <1>8, <2>2, <2>3, <2>4 DEF Dial
<1>9. CASE DialFails \/ Refuse
  <2>1. pc' \in PC /\ tries' \in 0 .. MaxTries /\ faults' \in 0 .. MaxFaults
      BY <1>3, <1>9, FaultType, RetryType DEF DialFails, Refuse
  <2> QED
      BY <1>2, <1>3, <1>9, <2>1 DEF DialFails, Refuse
<1>10. CASE Reply \/ Greet \/ ReadReply
  <2>1. pc' \in PC /\ wire' \subseteq {"reply", "greeting"} /\ greeted' \in BOOLEAN
      BY <1>3, <1>10 DEF Reply, Greet, ReadReply, Goto
  <2> QED
      BY <1>2, <1>3, <1>10, <2>1 DEF Reply, Greet, ReadReply
<1>11. CASE Login
  <2>1. pc' \in PC
      BY <1>3, <1>11 DEF Login, Goto
  <2> QED
      BY <1>2, <1>3, <1>11, <2>1 DEF Login
<1>12. CASE Close
  <2>1. pc' \in PC /\ tries' \in 0 .. MaxTries
      BY <1>3, <1>12, RetryType DEF Close
  <2> QED
      BY <1>2, <1>3, <1>12, <2>1 DEF Close
<1>13. CASE Timeout \/ Cancel
  <2>1. faults' \in 0 .. MaxFaults
      BY <1>3, <1>13, FaultType DEF Timeout, Cancel, Abandon
  <2> QED
      BY <1>2, <1>3, <1>13, <2>1 DEF Timeout, Cancel, Abandon
<1>14. CASE Reconnect
  <2>1. faults' \in 0 .. MaxFaults
      BY <1>14, FaultType DEF Reconnect
  <2> QED
      BY <1>2, <1>3, <1>14, <2>1 DEF Reconnect, Goto
<1>15. CASE NewRun \/ Kill
    BY <1>2, <1>3, <1>15 DEF NewRun, Kill, NewProcess, Kinds
<1>16. CASE UNCHANGED vars
    BY <1>2, <1>3, <1>16 DEF vars
<1> QED
    BY <1>4, <1>5, <1>6, <1>7, <1>8, <1>9, <1>10, <1>11, <1>12, <1>13, <1>14, <1>15, <1>16
    DEF Next, Step

\* The address that is dialed and the address the token is made for are a host of a block
\* and a port: every scheme is trimmed, and a port is added where there is none.
THEOREM TypeCorrect == Spelled => (Safe => []TypeOK)
<1> SUFFICES ASSUME Spelled PROVE Safe => []TypeOK
    OBVIOUS
<1>1. Init => TypeOK /\ ConfIs
  <2>1. 0 \in 0 .. MaxTries /\ 0 \in 0 .. MaxFaults /\ "start" \in PC
      BY Limits DEF PC
  <2> QED
      BY <2>1 DEF Init, TypeOK, ConfIs
<1>2. ConfIs /\ [Next]_vars => ConfIs'
    BY StepKeepsConf
<1>3. TypeOK /\ ConfIs /\ [Next]_vars => TypeOK'
    BY NextKeepsType
<1> QED
    BY <1>1, <1>2, <1>3, PTL DEF Safe

------------------------------------------------------------------------------
(* Suffixes *)

\* Ending in s, token by token
Aligned(t, s) == Len(s) <= Len(t) /\ \A i \in 1 .. Len(s) : t[Len(t) - Len(s) + i] = s[i]

LEMMA SuffixTokens ==
    ASSUME NEW T, NEW s \in Seq(T), NEW t \in Seq(T)
    PROVE  IsSuffix(s, t) <=> Aligned(t, s)
<1> DEFINE m == Len(s)
           n == Len(t)
           rs == [i \in 1 .. m |-> s[m - i + 1]]
           rt == [i \in 1 .. n |-> t[n - i + 1]]
<1>1. m \in Nat /\ n \in Nat
    BY LenProperties
<1>2. /\ rs \in [1 .. m -> T] /\ rt \in [1 .. n -> T]
      /\ \A i \in 1 .. m : rs[i] = s[m - i + 1]
      /\ \A i \in 1 .. n : rt[i] = t[n - i + 1]
  <2>1. (\A i \in 1 .. m : s[i] \in T) /\ (\A i \in 1 .. n : t[i] \in T)
      BY ElementOfSeq
  <2> HIDE DEF m, n
  <2>2. (\A i \in 1 .. m : m - i + 1 \in 1 .. m) /\ (\A i \in 1 .. n : n - i + 1 \in 1 .. n)
      BY <1>1
  <2> QED
      BY <2>1, <2>2
<1>3. Reverse(s) = rs /\ Reverse(t) = rt
    BY DEF Reverse
<1>4. rs \in Seq(T) /\ rt \in Seq(T) /\ Len(rs) = m /\ Len(rt) = n
  <2>1. rs \in Seq(T) /\ rt \in Seq(T) /\ DOMAIN rs = 1 .. m /\ DOMAIN rt = 1 .. n
    <3> HIDE DEF m, n, rs, rt
    <3> QED
        BY <1>1, <1>2, SeqDef
  <2> HIDE DEF m, n, rs, rt
  <2>2. Len(rs) \in Nat /\ Len(rt) \in Nat /\ 1 .. Len(rs) = 1 .. m /\ 1 .. Len(rt) = 1 .. n
      BY <2>1, LenProperties
  <2> QED
      BY <1>1, <2>1, <2>2
<1>5. IsSuffix(s, t) <=> m <= n /\ SubSeq(rs, 1, m) = SubSeq(rt, 1, m)
  <2>1. IsSuffix(s, t) <=> IsPrefix(rs, rt)
      BY <1>3 DEF IsSuffix
  <2> HIDE DEF m, n, rs, rt
  <2> QED
      BY <1>4, <2>1 DEF IsPrefix
<1>6. Aligned(t, s) <=> m <= n /\ \A i \in 1 .. m : t[n - m + i] = s[i]
    BY DEF Aligned
<1> HIDE DEF m, n, rs, rt
<1>7. SubSeq(rs, 1, m) = rs
    BY <1>4, SubSeqFull
<1>8. ASSUME m <= n
      PROVE  SubSeq(rt, 1, m) \in Seq(T) /\ Len(SubSeq(rt, 1, m)) = m
             /\ \A i \in 1 .. m : SubSeq(rt, 1, m)[i] = rt[i]
  <2>1. \A i \in 1 .. m : rt[i] \in T
      BY <1>1, <1>2, <1>8
  <2>2. /\ SubSeq(rt, 1, m) \in Seq(T)
        /\ Len(SubSeq(rt, 1, m)) = IF 1 <= m THEN m - 1 + 1 ELSE 0
        /\ \A i \in 1 .. m - 1 + 1 : SubSeq(rt, 1, m)[i] = rt[1 + i - 1]
      BY <1>1, <2>1, SubSeqProperties
  <2> QED
      BY <1>1, <2>2
<1>9. ASSUME m <= n
      PROVE  rs = SubSeq(rt, 1, m) <=> \A i \in 1 .. m : rs[i] = rt[i]
  <2>1. rs = SubSeq(rt, 1, m) => \A i \in 1 .. m : rs[i] = rt[i]
      BY <1>8, <1>9
  <2>2. (\A i \in 1 .. m : rs[i] = SubSeq(rt, 1, m)[i]) => rs = SubSeq(rt, 1, m)
      BY <1>4, <1>8, <1>9, SeqEqual
  <2> QED
      BY <1>8, <1>9, <2>1, <2>2
<1>10. ASSUME m <= n
       PROVE  (\A i \in 1 .. m : rs[i] = rt[i]) <=> \A i \in 1 .. m : t[n - m + i] = s[i]
  <2>1. ASSUME \A i \in 1 .. m : rs[i] = rt[i], NEW i \in 1 .. m
        PROVE  t[n - m + i] = s[i]
    <3>1. m - i + 1 \in 1 .. m /\ m - i + 1 \in 1 .. n
        BY <1>1, <1>10
    <3>2. s[m - (m - i + 1) + 1] = t[n - (m - i + 1) + 1]
        BY <1>2, <2>1, <3>1
    <3>3. m - (m - i + 1) + 1 = i /\ n - (m - i + 1) + 1 = n - m + i
        BY <1>1
    <3> QED
        BY <3>2, <3>3
  <2>2. ASSUME \A i \in 1 .. m : t[n - m + i] = s[i], NEW i \in 1 .. m
        PROVE  rs[i] = rt[i]
    <3>1. m - i + 1 \in 1 .. m /\ i \in 1 .. n
        BY <1>1, <1>10
    <3>2. t[n - m + (m - i + 1)] = s[m - i + 1]
        BY <2>2, <3>1
    <3>3. n - m + (m - i + 1) = n - i + 1
        BY <1>1
    <3> QED
        BY <1>2, <3>1, <3>2, <3>3
  <2> QED
      BY <2>1, <2>2
<1> QED
    BY <1>5, <1>6, <1>7, <1>9, <1>10

\* Ending in s, as a concatenation
EndsIn(t, s) == \E n \in 0 .. Len(t) : t = SubSeq(t, 1, n) \o s

LEMMA SuffixMeans ==
    ASSUME NEW T, NEW s \in Seq(T), NEW t \in Seq(T)
    PROVE  IsSuffix(s, t) <=> EndsIn(t, s)
<1>1. Len(s) \in Nat /\ Len(t) \in Nat /\ \A i \in 1 .. Len(t) : t[i] \in T
    BY LenProperties, ElementOfSeq
<1>2. ASSUME NEW n \in 0 .. Len(t)
      PROVE  /\ SubSeq(t, 1, n) \in Seq(T) /\ Len(SubSeq(t, 1, n)) = n
             /\ \A i \in 1 .. n : SubSeq(t, 1, n)[i] = t[i]
  <2>1. n \in Nat /\ \A i \in 1 .. n : t[i] \in T
      BY <1>1
  <2>2. /\ SubSeq(t, 1, n) \in Seq(T)
        /\ Len(SubSeq(t, 1, n)) = IF 1 <= n THEN n - 1 + 1 ELSE 0
        /\ \A i \in 1 .. n - 1 + 1 : SubSeq(t, 1, n)[i] = t[1 + i - 1]
      BY <2>1, SubSeqProperties
  <2> QED
      BY <2>1, <2>2
<1>3. ASSUME NEW n \in 0 .. Len(t), t = SubSeq(t, 1, n) \o s
      PROVE  Aligned(t, s)
  <2> DEFINE x == SubSeq(t, 1, n)
  <2>1. x \in Seq(T) /\ Len(x) = n /\ t = x \o s /\ n \in Nat
      BY <1>1, <1>2, <1>3
  <2> HIDE DEF x
  <2>2. Len(x \o s) = Len(x) + Len(s) /\ \A i \in 1 .. Len(s) : (x \o s)[Len(x) + i] = s[i]
    <3>1. x \in Seq(T)
        BY <2>1
    <3> QED
        BY <3>1, HeadTokens
  <2>3. Len(t) = n + Len(s) /\ \A i \in 1 .. Len(s) : t[n + i] = s[i]
      BY <2>1, <2>2
  <2>4. Len(s) <= Len(t) /\ Len(t) - Len(s) = n
      BY <1>1, <2>1, <2>3
  <2> QED
      BY <2>3, <2>4 DEF Aligned
<1>4. ASSUME Aligned(t, s)
      PROVE  EndsIn(t, s)
  <2> DEFINE n == Len(t) - Len(s)
             x == SubSeq(t, 1, n)
  <2>1. n \in 0 .. Len(t) /\ n + Len(s) = Len(t)
      BY <1>1, <1>4 DEF Aligned
  <2>2. x \in Seq(T) /\ Len(x) = n /\ \A i \in 1 .. n : x[i] = t[i]
      BY <1>2, <2>1
  <2>3. \A i \in 1 .. Len(s) : t[n + i] = s[i]
      BY <1>4 DEF Aligned
  <2> HIDE DEF n, x
  <2>4. /\ x \o s \in Seq(T) /\ Len(x \o s) = n + Len(s)
        /\ \A i \in 1 .. n + Len(s) : (x \o s)[i] = IF i <= n THEN x[i] ELSE s[i - n]
      BY <2>2, ConcatProperties
  <2>5. ASSUME NEW i \in 1 .. Len(t) PROVE t[i] = (x \o s)[i]
    <3>1. CASE i <= n
        BY <1>1, <2>1, <2>2, <2>4, <3>1
    <3>2. CASE ~(i <= n)
      <4>1. i - n \in 1 .. Len(s) /\ n + (i - n) = i
          BY <1>1, <2>1, <3>2
      <4>2. t[i] = s[i - n]
          BY <2>3, <4>1
      <4> QED
          BY <2>1, <2>4, <3>2, <4>2
    <3> QED
        BY <3>1, <3>2
  <2>6. t = x \o s
      BY <2>1, <2>4, <2>5, SeqEqual
  <2> QED
      BY <2>1, <2>6 DEF EndsIn, x
<1> QED
    BY <1>3, <1>4, SuffixTokens DEF EndsIn

LEMMA HasOfConcat ==
    ASSUME NEW T, NEW s \in Seq(T), NEW t \in Seq(T), NEW x
    PROVE  Has(s \o t, x) <=> Has(s, x) \/ Has(t, x)
<1>1. Len(s) \in Nat /\ Len(t) \in Nat /\ DOMAIN s = 1 .. Len(s) /\ DOMAIN t = 1 .. Len(t)
    BY LenProperties
<1>2. /\ \A i \in 1 .. Len(s) + Len(t) : (s \o t)[i] = IF i <= Len(s) THEN s[i] ELSE t[i - Len(s)]
      /\ DOMAIN (s \o t) = 1 .. Len(s) + Len(t)
    BY ConcatProperties, HeadTokens
<1> DEFINE m == Len(s)
           n == Len(t)
           c == s \o t
<1>3. /\ m \in Nat /\ n \in Nat
      /\ \A i \in 1 .. m + n : c[i] = IF i <= m THEN s[i] ELSE t[i - m]
    BY <1>1, <1>2
<1>4. /\ Has(s, x) <=> \E i \in 1 .. m : s[i] = x
      /\ Has(t, x) <=> \E i \in 1 .. n : t[i] = x
      /\ Has(c, x) <=> \E i \in 1 .. m + n : c[i] = x
    BY <1>1, <1>2 DEF Has
<1> HIDE DEF m, n, c
<1>5. ASSUME NEW i \in 1 .. m, s[i] = x PROVE \E j \in 1 .. m + n : c[j] = x
  <2>1. i \in 1 .. m + n /\ i <= m
      BY <1>3
  <2> QED
      BY <1>3, <1>5, <2>1
<1>6. ASSUME NEW i \in 1 .. n, t[i] = x PROVE \E j \in 1 .. m + n : c[j] = x
  <2>1. m + i \in 1 .. m + n /\ ~(m + i <= m) /\ (m + i) - m = i
      BY <1>3
  <2> QED
      BY <1>3, <1>6, <2>1
<1>7. ASSUME NEW i \in 1 .. m + n, c[i] = x
      PROVE  (\E j \in 1 .. m : s[j] = x) \/ (\E j \in 1 .. n : t[j] = x)
  <2>1. CASE i <= m
    <3>1. i \in 1 .. m
        BY <1>3, <2>1
    <3> QED
        BY <1>3, <1>7, <2>1, <3>1
  <2>2. CASE ~(i <= m)
    <3>1. i - m \in 1 .. n
        BY <1>3, <2>2
    <3> QED
        BY <1>3, <1>7, <2>2, <3>1
  <2> QED
      BY <2>1, <2>2
<1> QED
    BY <1>4, <1>5, <1>6, <1>7 DEF c

LEMMA EndsInHas ==
    ASSUME NEW T, NEW s \in Seq(T), NEW t \in Seq(T), EndsIn(t, s), NEW x, Has(s, x)
    PROVE  Has(t, x)
<1>1. PICK n \in 0 .. Len(t) : t = SubSeq(t, 1, n) \o s
    BY DEF EndsIn
<1>2. SubSeq(t, 1, n) \in Seq(T)
  <2>1. Len(t) \in Nat
      BY LenProperties
  <2>2. n \in Int /\ 1 .. n \subseteq 1 .. Len(t)
      BY <2>1
  <2>3. \A i \in 1 .. n : t[i] \in T
      BY <2>2, ElementOfSeq
  <2> QED
      BY <2>2, <2>3, SubSeqProperties
<1>3. Has(SubSeq(t, 1, n) \o s, x)
    BY <1>2, HasOfConcat
<1> QED
    BY <1>1, <1>3

LEMMA HeadAndTail ==
    ASSUME NEW T, NEW p \in Seq(T), p # <<>>
    PROVE  Tail(p) \in Seq(T) /\ p = <<p[1]>> \o Tail(p) /\ p[1] \in T
<1>1. Len(p) \in Nat \ {0}
    BY EmptySeq
<1>2. 1 \in 1 .. Len(p) /\ Len(p) \in 1 .. Len(p)
    BY <1>1
<1>3. SubSeq(p, 1, Len(p)) = <<p[1]>> \o SubSeq(p, 1 + 1, Len(p))
    BY <1>2, SubSeqRecursiveFirst
<1>4. SubSeq(p, 1, Len(p)) = p /\ Tail(p) = SubSeq(p, 2, Len(p)) /\ Tail(p) \in Seq(T)
    BY SubSeqFull, TailIsSubSeq, HeadTailProperties
<1>5. p[1] \in T
    BY <1>2, ElementOfSeq
<1> QED
    BY <1>3, <1>4, <1>5

------------------------------------------------------------------------------
(* What the patterns of no_proxy mean *)

\* A block that is dialed through makeDialer and has no scheme
Dialled(b) == b.scheme = "" /\ Net(b) = "tcp"

\* A subdomain of d
Under(host, d) == EndsIn(host, <<".">> \o d)

\* The comments of shouldUseProxy: * is every host, a network has its addresses, a
\* pattern with a port is that endpoint, .d is d and what is under it, *.d is what is
\* under it, and everything else is that host.
Names(p, b) ==
    \/ p = <<"*">>
    \/ Has(p, "/") /\ b.host \in Network[p]
    \/ Has(p, ":") /\ p = Endpoint(b)
    \/ p[1] = "." /\ (b.host = Tail(p) \/ Under(b.host, Tail(p)))
    \/ IsPrefix(<<"*", ".">>, p) /\ Under(b.host, Tail(Tail(p)))
    \/ p = b.host

\* Hosts are names and addresses with dots only, the patterns have the documented forms,
\* and Stands is what the comments say of them.
Documented ==
    /\ \A b \in Blocks : Dialled(b) =>
          /\ b.port # "/"
          /\ \A token \in {":", "/", "*"} : ~Has(b.host, token)
    /\ \A p \in DOMAIN Stands :
          /\ p # <<>> /\ p \in Seq({p[i] : i \in DOMAIN p})
          /\ Has(p, "*") => p = <<"*">> \/ Has(p, "/") \/ Has(p, ":") \/ IsPrefix(<<"*", ".">>, p)
          /\ \A b \in Blocks : Dialled(b) => (Endpoint(b) \in Stands[p] <=> Names(p, b))

LEMMA HostOfEndpoint ==
    ASSUME Documented, NEW b \in Blocks, Dialled(b)
    PROVE  HostOf(Endpoint(b)) = b.host
<1>0. PICK T : /\ b.host \in Seq(T) /\ PortOf(b) \in Seq(T)
               /\ {":", "//", "3306", b.scheme, b.port} \subseteq T
    BY HostType
<1>1. Endpoint(b) = b.host \o PortOf(b) /\ ~Has(b.host, ":")
    BY <1>0, RestType DEF Rest, Dialled, Documented
<1> DEFINE h == b.host
           p == PortOf(b)
           e == Endpoint(b)
<1>2. h \in Seq(T) /\ p \in Seq(T) /\ e = h \o p /\ ~Has(h, ":")
    BY <1>0, <1>1
<1>3. p = <<>> \/ (p # <<>> /\ p[1] = ":")
    BY DEF PortOf
<1> HIDE DEF h, p, e
<1>4. CASE p = <<>>
  <2>1. e = h
      BY <1>2, <1>4, ConcatEmptySeq
  <2> QED
      BY <1>2, <2>1 DEF HostOf, e, h
<1>5. CASE p # <<>> /\ p[1] = ":"
  <2> DEFINE m == Len(h)
             First(i) == e[i] = ":" /\ ~Has(SubSeq(e, 1, i - 1), ":")
  <2>1. m \in Nat /\ Len(p) \in Nat \ {0}
      BY <1>2, <1>5, LenProperties, EmptySeq
  <2>2. /\ DOMAIN e = 1 .. m + Len(p) /\ Len(e) = m + Len(p) /\ e \in Seq(T)
        /\ \A i \in 1 .. m : e[i] = h[i]
        /\ \A i \in 1 .. Len(p) : e[m + i] = p[i]
    <3>1. h \in Seq(T) /\ p \in Seq(T)
        BY <1>2
    <3>2. /\ DOMAIN (h \o p) = 1 .. m + Len(p) /\ Len(h \o p) = m + Len(p) /\ h \o p \in Seq(T)
          /\ \A i \in 1 .. m : (h \o p)[i] = h[i]
          /\ \A i \in 1 .. Len(p) : (h \o p)[m + i] = p[i]
        BY <3>1, HeadTokens
    <3> QED
        BY <1>2, <3>2
  <2> DEFINE n == Len(p)
  <2> HIDE DEF m, n
  <2>3. m \in Nat /\ n \in Nat \ {0}
      BY <2>1 DEF n
  <2>4. m + 1 \in DOMAIN e /\ e[m + 1] = ":"
    <3>1. 1 \in 1 .. n /\ m + 1 \in 1 .. m + n
        BY <2>3
    <3> QED
        BY <1>5, <2>2, <3>1 DEF n
  <2>5. SubSeq(e, 1, m) = h
    <3>1. \A i \in 1 .. m : e[i] \in T
      <4>1. 1 .. m \subseteq 1 .. Len(e)
          BY <2>2, <2>3 DEF n
      <4> QED
          BY <2>2, <4>1, ElementOfSeq
    <3>2. /\ SubSeq(e, 1, m) \in Seq(T)
          /\ Len(SubSeq(e, 1, m)) = IF 1 <= m THEN m - 1 + 1 ELSE 0
          /\ \A i \in 1 .. m - 1 + 1 : SubSeq(e, 1, m)[i] = e[1 + i - 1]
        BY <2>3, <3>1, SubSeqProperties
    <3>3. Len(SubSeq(e, 1, m)) = Len(h) /\ \A i \in 1 .. Len(h) : SubSeq(e, 1, m)[i] = h[i]
        BY <2>2, <2>3, <3>2 DEF m
    <3> QED
        BY <1>2, <3>2, <3>3, SeqEqual
  <2>6. First(m + 1)
    <3>1. (m + 1) - 1 = m
        BY <2>3
    <3>2. ~Has(SubSeq(e, 1, (m + 1) - 1), ":")
        BY <1>2, <2>5, <3>1
    <3> QED
        BY <2>4, <3>2
  <2>7. ASSUME NEW i \in DOMAIN e, First(i) PROVE i = m + 1
    <3>1. i \in Nat /\ i >= 1
        BY <2>2, <2>3 DEF n
    <3>2. ~(i <= m)
      <4> SUFFICES ASSUME i <= m PROVE FALSE
          OBVIOUS
      <4>1. i \in 1 .. m
          BY <2>3, <3>1
      <4>2. h[i] = ":" /\ i \in DOMAIN h
          BY <1>2, <2>2, <2>7, <4>1, LenProperties DEF m
      <4> QED
          BY <1>2, <4>2 DEF Has
    <3>3. ~(i > m + 1)
      <4> SUFFICES ASSUME i > m + 1 PROVE FALSE
          OBVIOUS
      <4>1. i - 1 \in Int /\ m + 1 \in 1 .. i - 1 /\ 1 .. i - 1 \subseteq 1 .. Len(e) /\ 1 <= i - 1
          BY <2>2, <2>3, <3>1 DEF n
      <4>2. \A j \in 1 .. i - 1 : e[j] \in T
          BY <2>2, <4>1, ElementOfSeq
      <4> DEFINE k == i - 1
                 x == SubSeq(e, 1, k)
      <4>3. /\ x \in Seq(T) /\ Len(x) = (IF 1 <= k THEN k - 1 + 1 ELSE 0)
            /\ \A j \in 1 .. k - 1 + 1 : x[j] = e[1 + j - 1]
          BY <4>1, <4>2, SubSeqProperties
      <4> HIDE DEF x, k
      <4>4. k \in Int /\ m + 1 \in 1 .. k /\ 1 <= k
          BY <4>1 DEF k
      <4>5. Len(x) = k /\ x[m + 1] = e[m + 1]
          BY <2>3, <4>3, <4>4
      <4>6. DOMAIN x = 1 .. k
          BY <4>3, <4>5, LenProperties
      <4>7. Has(x, ":")
          BY <2>4, <4>4, <4>5, <4>6 DEF Has
      <4> QED
          BY <2>7, <4>7 DEF x, k
    <3> QED
        BY <2>3, <3>1, <3>2, <3>3
  <2> DEFINE c == CHOOSE i \in DOMAIN e : First(i)
  <2>8. c = m + 1
      BY <2>4, <2>6, <2>7
  <2>9. Has(e, ":")
      BY <2>4 DEF Has
  <2>10. HostOf(e) = SubSeq(e, 1, c - 1)
      BY <2>9 DEF HostOf
  <2> HIDE DEF c, First
  <2>11. c - 1 = m
      BY <2>3, <2>8
  <2>12. HostOf(e) = h
      BY <2>5, <2>10, <2>11
  <2> QED
      BY <2>12 DEF e, h
<1> QED
    BY <1>3, <1>4, <1>5

LEMMA HasHead ==
    ASSUME NEW T, NEW p \in Seq(T), p # <<>>
    PROVE  Has(p, p[1])
<1>1. 1 \in DOMAIN p
  <2>1. Len(p) \in Nat \ {0} /\ DOMAIN p = 1 .. Len(p)
      BY EmptySeq, LenProperties
  <2> QED
      BY <2>1
<1> QED
    BY <1>1 DEF Has

LEMMA HasTail ==
    ASSUME NEW T, NEW p \in Seq(T), p # <<>>, NEW x, Has(p, x), p[1] # x
    PROVE  Has(Tail(p), x)
<1> DEFINE a == p[1]
           q == Tail(p)
<1>1. a \in T /\ q \in Seq(T) /\ p = <<a>> \o q
    BY HeadAndTail
<1>2. ~Has(<<a>>, x)
    BY DEF Has
<1> HIDE DEF a, q
<1>3. <<a>> \in Seq(T)
    BY <1>1
<1>4. Has(<<a>> \o q, x) <=> Has(<<a>>, x) \/ Has(q, x)
  <2>1. q \in Seq(T)
      BY <1>1
  <2> QED
      BY <1>3, <2>1, HasOfConcat
<1>5. Has(q, x)
    BY <1>1, <1>2, <1>4
<1> QED
    BY <1>5 DEF q

LEMMA EndsInItself ==
    ASSUME NEW T, NEW s \in Seq(T)
    PROVE  EndsIn(s, s)
<1>1. Len(s) \in Nat /\ 0 \in 0 .. Len(s)
    BY LenProperties
<1>2. SubSeq(s, 1, 0) = <<>>
    BY SubSeqEmpty
<1>3. <<>> \o s = s
    BY ConcatEmptySeq
<1> QED
    BY <1>1, <1>2, <1>3 DEF EndsIn

LEMMA Wild ==
    ASSUME NEW T, NEW p \in Seq(T), "*" \in T, "." \in T, IsPrefix(<<"*", ".">>, p)
    PROVE  /\ p # <<>> /\ p[1] = "*"
           /\ Tail(p) # <<>> /\ Tail(p)[1] = "."
<1> DEFINE w == <<"*", ".">>
<1>1. w \in Seq(T) /\ Len(w) = 2 /\ w[1] = "*" /\ w[2] = "."
    OBVIOUS
<1>2. 2 <= Len(p) /\ SubSeq(w, 1, 2) = SubSeq(p, 1, 2)
    BY <1>1 DEF IsPrefix
<1> HIDE DEF w
<1>3. SubSeq(w, 1, 2) = w
    BY <1>1, SubSeqFull
<1>4. Len(p) \in Nat /\ \A i \in 1 .. Len(p) : p[i] \in T
    BY LenProperties, ElementOfSeq
<1>5. SubSeq(p, 1, 2)[1] = p[1] /\ SubSeq(p, 1, 2)[2] = p[2]
  <2>1. \A i \in 1 .. 2 : p[i] \in T
      BY <1>2, <1>4
  <2>2. \A i \in 1 .. 2 - 1 + 1 : SubSeq(p, 1, 2)[i] = p[1 + i - 1]
      BY <2>1, SubSeqProperties
  <2>3. 1 \in 1 .. 2 - 1 + 1 /\ 2 \in 1 .. 2 - 1 + 1
      OBVIOUS
  <2> QED
      BY <2>2, <2>3
<1>6. p[1] = "*" /\ p[2] = "." /\ p # <<>>
  <2>1. p # <<>>
      BY <1>2
  <2> QED
      BY <1>1, <1>2, <1>3, <1>5, <2>1
<1>7. /\ Len(Tail(p)) = Len(p) - 1 /\ Tail(p) \in Seq(T)
      /\ \A i \in 1 .. Len(Tail(p)) : Tail(p)[i] = p[i + 1]
    BY <1>6, HeadTailProperties
<1> DEFINE q == Tail(p)
<1>8. Len(q) = Len(p) - 1 /\ \A i \in 1 .. Len(q) : q[i] = p[i + 1]
    BY <1>7
<1> HIDE DEF q
<1>9. 1 \in 1 .. Len(q) /\ Len(q) # 0
    BY <1>2, <1>4, <1>8
<1>10. q[1] = "."
    BY <1>6, <1>8, <1>9
<1>11. q # <<>>
    BY <1>9
<1> QED
    BY <1>6, <1>10, <1>11 DEF q

\* Being a subdomain is ending in the pattern.
LEMMA UnderMeans ==
    ASSUME NEW T, NEW p \in Seq(T), p # <<>>, p[1] = ".", NEW h \in Seq(T)
    PROVE  Under(h, Tail(p)) <=> IsSuffix(p, h)
<1>1. p = <<".">> \o Tail(p)
    BY HeadAndTail
<1>2. IsSuffix(p, h) <=> EndsIn(h, p)
    BY SuffixMeans
<1> QED
    BY <1>1, <1>2 DEF Under

\* shouldUseProxy excludes what its comments say, for a documented pattern.
LEMMA ExcludesMeans ==
    ASSUME Documented, NEW b \in Blocks, Dialled(b), NEW p \in DOMAIN Stands
    PROVE  Excludes(p, Endpoint(b)) <=> Names(p, b)
<1>0. PICK S : /\ b.host \in Seq(S) /\ PortOf(b) \in Seq(S)
               /\ {":", "//", "3306", b.scheme, b.port} \subseteq S
    BY HostType
<1> DEFINE T == S \cup {p[i] : i \in DOMAIN p} \cup {"*", "."}
           h == b.host
           e == Endpoint(b)
<1>1. "*" \in T /\ "." \in T
    OBVIOUS
<1>2. p \in Seq(T) /\ p # <<>> /\ h \in Seq(T) /\ PortOf(b) \in Seq(T)
  <2> DEFINE P == {p[i] : i \in DOMAIN p}
  <2>1. p \in Seq(P) /\ p # <<>>
      BY DEF Documented
  <2>2. P \subseteq T /\ S \subseteq T
      OBVIOUS
  <2>3. b.host \in Seq(S) /\ PortOf(b) \in Seq(S)
      BY <1>0
  <2> HIDE DEF P, T
  <2> QED
      BY <2>1, <2>2, <2>3, Widen
<1> HIDE DEF T
<1>3. ~Has(h, ":") /\ ~Has(h, "/") /\ ~Has(h, "*") /\ b.port # "/"
    BY DEF Documented
<1>4. ~Has(e, "/")
  <2>1. e = h \o PortOf(b)
      BY <1>0, RestType DEF Rest, Dialled
  <2>2. ~Has(PortOf(b), "/")
    <3>1. b.port # "/"
        BY <1>3
    <3>2. CASE b.port = ""
      <4>1. PortOf(b) = <<>>
          BY <3>2 DEF PortOf
      <4>2. ~Has(<<>>, "/")
          BY DEF Has
      <4> QED
          BY <4>1, <4>2
    <3>3. CASE b.port # ""
      <4>1. PortOf(b) = <<":", b.port>>
          BY <3>3 DEF PortOf
      <4>2. ~Has(<<":", b.port>>, "/")
          BY <3>1 DEF Has
      <4> QED
          BY <4>1, <4>2
    <3> QED
        BY <3>2, <3>3
  <2> DEFINE q == PortOf(b)
  <2>3. h \in Seq(T) /\ q \in Seq(T)
      BY <1>2
  <2> HIDE DEF q, h
  <2>4. Has(h \o q, "/") <=> Has(h, "/") \/ Has(q, "/")
      BY <2>3, HasOfConcat
  <2> QED
      BY <1>3, <2>1, <2>2, <2>4 DEF q
<1>5. HostOf(e) = h
    BY HostOfEndpoint
<1>6. Has(p, "*") => p = <<"*">> \/ Has(p, "/") \/ Has(p, ":") \/ IsPrefix(<<"*", ".">>, p)
    BY DEF Documented
<1>7. Excludes(p, e) <=>
          IF p = <<"*">> THEN TRUE
          ELSE IF Has(p, "/") THEN h \in Network[p]
          ELSE IF Has(p, ":") THEN e = p
          ELSE IF p[1] = "." THEN h = Tail(p) \/ IsSuffix(p, h)
          ELSE IF IsPrefix(<<"*", ".">>, p) THEN IsSuffix(Tail(p), h)
          ELSE IF Has(p, "*") THEN Wildcard(p, h)
          ELSE h = p
    BY <1>5 DEF Excludes
<1>8. Names(p, b) <=>
          \/ p = <<"*">>
          \/ Has(p, "/") /\ h \in Network[p]
          \/ Has(p, ":") /\ p = e
          \/ p[1] = "." /\ (h = Tail(p) \/ Under(h, Tail(p)))
          \/ IsPrefix(<<"*", ".">>, p) /\ Under(h, Tail(Tail(p)))
          \/ p = h
    BY DEF Names
<1> HIDE DEF h, e
\* What a domain pattern means
<1>9. ASSUME p[1] = "." PROVE Under(h, Tail(p)) <=> IsSuffix(p, h)
    BY <1>2, <1>9, UnderMeans
<1>10. ASSUME IsPrefix(<<"*", ".">>, p)
       PROVE  /\ p[1] = "*" /\ Has(p, "*") /\ Tail(p) \in Seq(T)
              /\ Under(h, Tail(Tail(p))) <=> IsSuffix(Tail(p), h)
  <2>1. p[1] = "*" /\ Tail(p) # <<>> /\ Tail(p)[1] = "."
      BY <1>1, <1>2, <1>10, Wild
  <2>2. Tail(p) \in Seq(T)
      BY <1>2, HeadAndTail
  <2>3. Has(p, "*")
      BY <1>2, <2>1, HasHead
  <2>4. Under(h, Tail(Tail(p))) <=> IsSuffix(Tail(p), h)
      BY <1>2, <2>1, <2>2, UnderMeans
  <2> QED
      BY <2>1, <2>2, <2>3, <2>4
\* A network or an endpoint is no domain.
<1>11. ASSUME NEW x \in {"/", ":"}, Has(p, x)
       PROVE  /\ p # h
              /\ p[1] = "." => h # Tail(p) /\ ~Under(h, Tail(p))
              /\ IsPrefix(<<"*", ".">>, p) => ~Under(h, Tail(Tail(p)))
  <2>1. ~Has(h, x)
      BY <1>3
  <2>2. ASSUME NEW s \in Seq(T), Has(s, x) PROVE ~IsSuffix(s, h)
      BY <1>2, <2>1, <2>2, SuffixMeans, EndsInHas
  <2>3. ASSUME p[1] # x PROVE Has(Tail(p), x)
      BY <1>2, <1>11, <2>3, HasTail
  <2>4. ~IsSuffix(p, h)
      BY <1>2, <1>11, <2>2
  <2>5. ASSUME p[1] = "." PROVE h # Tail(p) /\ ~Under(h, Tail(p))
      BY <1>9, <2>1, <2>3, <2>4, <2>5
  <2>6. ASSUME IsPrefix(<<"*", ".">>, p) PROVE ~Under(h, Tail(Tail(p)))
      BY <1>10, <2>2, <2>3, <2>6
  <2> QED
      BY <1>11, <2>1, <2>5, <2>6
<1>12. CASE p = <<"*">>
    BY <1>7, <1>8, <1>12 DEF e
<1>13. CASE p # <<"*">> /\ Has(p, "/")
    BY <1>4, <1>7, <1>8, <1>11, <1>13 DEF e
<1>14. CASE p # <<"*">> /\ ~Has(p, "/") /\ Has(p, ":")
    BY <1>7, <1>8, <1>11, <1>14 DEF e
<1>15. CASE p # <<"*">> /\ ~Has(p, "/") /\ ~Has(p, ":") /\ p[1] = "."
  <2>1. p = h => IsSuffix(p, h)
      BY <1>2, EndsInItself, SuffixMeans
  <2> QED
      BY <1>7, <1>8, <1>9, <1>10, <1>15, <2>1 DEF e
<1>16. CASE p # <<"*">> /\ ~Has(p, "/") /\ ~Has(p, ":") /\ p[1] # "." /\ IsPrefix(<<"*", ".">>, p)
  <2>1. p # h
      BY <1>3, <1>10, <1>16
  <2> QED
      BY <1>7, <1>8, <1>10, <1>16, <2>1 DEF e
<1>17. CASE p # <<"*">> /\ ~Has(p, "/") /\ ~Has(p, ":") /\ p[1] # "." /\ ~IsPrefix(<<"*", ".">>, p)
    BY <1>6, <1>7, <1>8, <1>17 DEF e
<1> QED
    BY <1>12, <1>13, <1>14, <1>15, <1>16, <1>17 DEF e

\* The way of a connection is the one of the block, also when the pool makes it again.
ViaIs == pc \in {"tunnel", "handshake", "open"} /\ conf.net # "api" => via = Route(block, env)

LEMMA StepKeepsVia == ViaIs /\ [Next]_vars => ViaIs'
<1> SUFFICES ASSUME ViaIs, [Next]_vars PROVE ViaIs'
    OBVIOUS
<1>1. ASSUME UNCHANGED <<block, env, conf, via>>,
             pc' \in {"tunnel", "handshake", "open"} => pc \in {"tunnel", "handshake", "open"}
      PROVE  ViaIs'
  <2>1. Route(block, env)' = Route(block, env)
      BY <1>1
  <2> QED
      BY <1>1, <2>1 DEF ViaIs
<1>2. CASE Dial
  <2>1. via' = Route(block, env) /\ UNCHANGED <<block, env>>
      BY <1>2 DEF Dial
  <2>2. Route(block, env)' = Route(block, env)
      BY <2>1
  <2> QED
      BY <2>1, <2>2 DEF ViaIs
<1>3. CASE CallApi
  <2>1. conf' = conf /\ conf.net = "api"
      BY <1>3 DEF CallApi
  <2> QED
      BY <2>1 DEF ViaIs
<1>4. CASE Configure \/ NewRun \/ Kill
  <2>1. pc' \in {"idle", "start"}
      BY <1>4 DEF Configure, Goto, NewRun, Kill, NewProcess
  <2> QED
      BY <2>1 DEF ViaIs
<1>5. CASE ConfigureTlsFails \/ CredentialsFail \/ Call \/ Reconnect
    BY <1>1, <1>5 DEF ConfigureTlsFails, CredentialsFail, Call, Reconnect, Goto
<1>6. CASE Expire \/ Reply \/ Greet
    BY <1>1, <1>6 DEF Expire, Reply, Greet
<1>7. CASE ReadReply \/ Login
    BY <1>1, <1>7 DEF ReadReply, Login, Goto
<1>8. CASE DialFails \/ Refuse \/ Close \/ Timeout \/ Cancel
    BY <1>1, <1>8 DEF DialFails, Refuse, Close, Timeout, Cancel, Abandon, Retry
<1>9. CASE UNCHANGED vars
    BY <1>1, <1>9 DEF vars
<1> QED
    BY <1>2, <1>3, <1>4, <1>5, <1>6, <1>7, <1>8, <1>9 DEF Next, Step

\* The route of a block is the one that the argument, no_proxy and the environment mean.
LEMMA RouteMeans ==
    ASSUME Documented, NEW b \in Blocks, NEW e, Dialled(b), e.all # "socks5",
           NoProxyArg(b, e) \subseteq DOMAIN Stands
    PROVE  Route(b, e) =
               IF ProxyArg(b, e) # "" /\ ~\E p \in NoProxyArg(b, e) : Endpoint(b) \in Stands[p]
               THEN ProxyArg(b, e) ELSE "direct"
<1>1. ASSUME NEW p \in NoProxyArg(b, e)
      PROVE  Excludes(p, Endpoint(b)) <=> Endpoint(b) \in Stands[p]
  <2>1. p \in DOMAIN Stands
      OBVIOUS
  <2>2. Endpoint(b) \in Stands[p] <=> Names(p, b)
      BY <2>1 DEF Documented
  <2> QED
      BY <2>1, <2>2, ExcludesMeans
<1>2. ShouldUseProxy(b, e) <=> ~\E p \in NoProxyArg(b, e) : Endpoint(b) \in Stands[p]
    BY <1>1 DEF ShouldUseProxy
<1>3. FromEnvironment(e, HostOf(Address(b))) = "direct"
    BY DEF FromEnvironment
<1> QED
    BY <1>2, <1>3 DEF Route, Dialled

\* A host that no_proxy names is dialed directly and any other one through the proxy, in
\* every connection of every process, if the patterns are of the documented forms: what
\* shouldUseProxy computes from prefixes, suffixes and colons is what its comments say.
THEOREM RouteMeant == Documented => (Safe => []RouteIsMeant)
<1> SUFFICES ASSUME Documented PROVE Safe => []RouteIsMeant
    OBVIOUS
<1>1. Init => ConfInv /\ ViaIs
    BY DEF Init, ConfInv, ViaIs
<1>2. ConfInv /\ [Next]_vars => ConfInv'
    BY ConfStep
<1>3. ViaIs /\ [Next]_vars => ViaIs'
    BY StepKeepsVia
<1>4. ConfInv /\ ViaIs => RouteIsMeant
  <2> SUFFICES ASSUME ConfInv, ViaIs, pc \in {"handshake", "open"}, conf.net = "tcp",
                      block.scheme = "", env.all # "socks5",
                      NoProxyArg(block, env) \subseteq DOMAIN Stands
               PROVE  via = IF ProxyArg(block, env) # ""
                               /\ ~\E p \in NoProxyArg(block, env) : Endpoint(block) \in Stands[p]
                            THEN ProxyArg(block, env) ELSE "direct"
      BY DEF RouteIsMeant
  <2>1. block \in Blocks /\ conf = ConfOf(block)
      BY DEF ConfInv
  <2>2. Dialled(block)
      BY <2>1 DEF ConfOf, Dialled
  <2>3. via = Route(block, env)
      BY DEF ViaIs
  <2> QED
      BY <2>1, <2>2, <2>3, RouteMeans
<1> QED
    BY <1>1, <1>2, <1>3, <1>4, PTL DEF Safe
===============================================================================
