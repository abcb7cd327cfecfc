----------------------------- MODULE UsersProofs -----------------------------
(* Proofs about Users, for any accounts, passwords, blocks, versions, failures *)
(* and bounds.                                                                 *)
EXTENDS Users, TLAPS

\* What a handler works with is there: its block, its state, and the account that the
\* first statement of a Create has made.
HandlerInv ==
    /\ \A u \in User :
          /\ pc[u] \in Steps \cup {"create", "create_limits", "create_tls"} => cfg[u] # Nil
          /\ pc[u] \in Steps => st[u] # Nil /\ pc[u] \in Due(u)
          /\ pc[u] \in {"create_limits", "create_tls"} => account[u] # Nil
          /\ pc[u] = "drop" /\ plan[u] = "replace" => cfg[u] # Nil
    /\ \A w \in Pass : pc[w] = "set" => cfg[w] # Nil
    /\ st = [r \in Res |-> st[r]]

TypeInv == TypeOK /\ HandlerInv

\* On servers that set everything in CREATE USER, and while they only refuse: an account
\* is there if and only if the state has it, but for an AAD user between the two
\* statements of its Create.
BothInv ==
    LimitsWithCreate /\ faults \subseteq {"rejected"} =>
        \A u \in User : /\ pc[u] # "create_tls" => (account[u] = Nil <=> st[u] = Nil)
                        /\ pc[u] # "create_limits"

------------------------------------------------------------------------------
(* The operators of the model *)

LEMMA Limits == MaxEdits \in Nat
BY UsersAssumption

LEMMA NilIsNone == Nil \notin Account /\ Nil \notin State
BY UsersAssumption

LEMMA HasFirst ==
    ASSUME NEW S \in SUBSET Steps, S # {}
    PROVE  \E s \in S : \A t \in S : Order[s] <= Order[t]
<1>1. S \subseteq {"auth", "discard", "password", "tls", "limits"}
    BY DEF Steps
<1>2. \A s \in S : Order[s] = IF s = "auth" THEN 1 ELSE IF s = "discard" THEN 2
                              ELSE IF s = "password" THEN 3 ELSE IF s = "tls" THEN 4 ELSE 5
    BY <1>1 DEF Order
<1>3. CASE "auth" \in S
    BY <1>1, <1>2, <1>3
<1>4. CASE "auth" \notin S /\ "discard" \in S
    BY <1>1, <1>2, <1>4
<1>5. CASE "auth" \notin S /\ "discard" \notin S /\ "password" \in S
    BY <1>1, <1>2, <1>5
<1>6. CASE "auth" \notin S /\ "discard" \notin S /\ "password" \notin S /\ "tls" \in S
    BY <1>1, <1>2, <1>6
<1>7. CASE "auth" \notin S /\ "discard" \notin S /\ "password" \notin S /\ "tls" \notin S
  <2>1. \A s \in S : s = "limits"
      BY <1>1, <1>7
  <2> QED
      BY <2>1, <1>2
<1> QED
    BY <1>3, <1>4, <1>5, <1>6, <1>7

LEMMA FirstType ==
    ASSUME NEW S \in SUBSET Steps
    PROVE  (S = {} /\ FirstOf(S) = "done") \/ FirstOf(S) \in S
<1>1. CASE S = {}
    BY <1>1 DEF FirstOf
<1>2. CASE S # {}
    BY <1>2, HasFirst DEF FirstOf
<1> QED
    BY <1>1, <1>2

LEMMA AfterType == ASSUME NEW u \in User, NEW s PROVE After(u, s) \in Due(u) \cup {"done"}
<1>1. {t \in Due(u) : Order[t] > Order[s]} \in SUBSET Steps
    BY DEF Due
<1> QED
    BY <1>1, FirstType DEF After

LEMMA BlockType ==
    ASSUME TypeOK, NEW u \in User, cfg[u] # Nil
    PROVE  cfg[u] \in Block
BY UsersAssumption DEF TypeOK

LEMMA AuthType ==
    ASSUME TypeOK, NEW u \in User, cfg[u] # Nil
    PROVE  AuthPlanned(u) \in [Form -> Secret]
<1> DEFINE old == IF st[u] # Nil THEN st[u].auth ELSE NoAuth
<1>1. cfg[u].hash \in Secret
    BY BlockType DEF Block
<1>2. FormOf(cfg[u]) \in Form
    BY DEF FormOf, Form
<1>3. NoAuth \in [Form -> Secret]
    BY UsersAssumption DEF NoAuth
<1>4. st[u] # Nil => st[u] \in State
    BY DEF TypeOK
<1>5. old \in [Form -> Secret]
    BY <1>3, <1>4 DEF State
<1>6. AuthPlanned(u) = IF cfg[u].hash = NoPassword THEN old
                       ELSE [old EXCEPT ![FormOf(cfg[u])] = cfg[u].hash]
    BY DEF AuthPlanned
<1> HIDE DEF old
<1> QED
    BY <1>1, <1>2, <1>5, <1>6

LEMMA SavedType ==
    ASSUME TypeOK, NEW u \in User, cfg[u] # Nil
    PROVE  Saved(u) \in State
<1>1. cfg[u] \in Block
    BY BlockType
<1>2. AuthPlanned(u) \in [Form -> Secret]
    BY AuthType
<1> QED
    BY <1>1, <1>2 DEF Saved, Block, State

LEMMA AuthStringType ==
    ASSUME TypeOK, NEW u \in User, cfg[u] # Nil
    PROVE  AuthString(u) \in Secret
BY AuthType DEF AuthString, Form

LEMMA NewAccountType ==
    ASSUME TypeOK, NEW u \in User, cfg[u] # Nil
    PROVE  NewAccount(u) \in Account
<1>1. cfg[u] \in Block
    BY BlockType
<1>2. Declared(u) \in Secret /\ NoPassword \in Secret
    BY <1>1, UsersAssumption DEF Declared, Block
<1>3. cfg[u].aad \in BOOLEAN /\ cfg[u].tls \in Tls /\ cfg[u].limit \in Nat
    BY <1>1 DEF Block
<1>4. (IF ReadsAccount /\ ~cfg[u].aad THEN cfg[u].tls ELSE "NONE") \in Tls
    BY <1>3, UsersAssumption
<1>5. (IF LimitsWithCreate /\ ~cfg[u].aad THEN cfg[u].limit ELSE 0) \in Nat
    BY <1>3
<1> QED
    BY <1>2, <1>3, <1>4, <1>5 DEF NewAccount, Account

LEMMA SetPasswordType ==
    ASSUME NEW a \in Account, NEW p \in Secret, NEW retain
    PROVE  SetPassword(a, p, retain) \in Account
BY DEF SetPassword, Account

LEMMA AlteredType ==
    ASSUME TypeOK, NEW u \in User, cfg[u] # Nil, account[u] # Nil, NEW s \in Steps,
           s \in Due(u), ~Refused(u, s)
    PROVE  Altered(u, s) \in Account
<1>1. cfg[u] \in Block /\ account[u] \in Account
    BY BlockType DEF TypeOK
<1>2. s = "auth" => Altered(u, s) \in Account
    BY <1>1, AuthStringType DEF Altered, Account, Block
<1>3. s = "discard" => Altered(u, s) \in Account
    BY <1>1, UsersAssumption DEF Altered, Account
<1>4. s = "password" => Altered(u, s) \in Account
  <2>1. NewPassword(u) \in Secret \cup {Nil}
      BY <1>1 DEF NewPassword, Block
  <2>2. s = "password" => NewPassword(u) # Nil
      BY DEF Due, Refused, CanSetPassword
  <2> QED
      BY <1>1, <2>1, <2>2, SetPasswordType DEF Altered
<1>5. s \in {"tls", "limits"} => Altered(u, s) \in Account
    BY <1>1 DEF Altered, Account, Block
<1> QED
    BY <1>2, <1>3, <1>4, <1>5 DEF Steps

LEMMA RefreshedType ==
    ASSUME TypeOK, NEW u \in User, account[u] # Nil, NEW s \in State, NEW f \in Forms
    PROVE  Refreshed(u, s, f) \in State
<1> DEFINE auth == IF account[u].aad THEN s.auth ELSE AuthRead(s, f, account[u].pw)
           limit == IF s.limit # 0 /\ account[u].limit # 0 THEN account[u].limit ELSE s.limit
<1>1. account[u] \in Account
    BY DEF TypeOK
<1>2. account[u].pw \in Secret /\ account[u].tls \in Tls /\ account[u].limit \in Nat
    BY <1>1 DEF Account
<1>3. NoAuth \in [Form -> Secret]
    BY UsersAssumption DEF NoAuth
<1>4. AuthRead(s, f, account[u].pw) \in [Form -> Secret]
    BY <1>2, <1>3 DEF AuthRead
<1>5. s.auth \in [Form -> Secret] /\ s.limit \in Nat
    BY DEF State
<1>6. auth \in [Form -> Secret] /\ limit \in Nat
    BY <1>2, <1>4, <1>5
<1>7. Refreshed(u, s, f) = [s EXCEPT !.auth = auth, !.tls = account[u].tls, !.limit = limit]
    BY DEF Refreshed
<1> HIDE DEF auth, limit
<1> QED
    BY <1>2, <1>6, <1>7 DEF State

LEMMA ReadUserType ==
    ASSUME TypeOK, NEW u \in User, NEW s \in State, NEW f \in Forms
    PROVE  ReadUser(u, s, f) \in State \cup {Nil}
BY RefreshedType DEF ReadUser

LEMMA ImportedType == ASSUME TypeOK, NEW u \in User PROVE Imported(u) \in State
<1>1. NoAuth \in [Form -> Secret] /\ NoPassword \in Secret /\ "" \in Tls
    BY UsersAssumption DEF NoAuth
<1>2. account[u] # Nil => account[u].aad \in BOOLEAN
    BY DEF TypeOK, Account
<1> DEFINE aad == ReadsAccount /\ account[u] # Nil /\ account[u].aad
<1>3. aad \in BOOLEAN
    BY Zenon
<1>5. \A b \in BOOLEAN : [aad |-> b, pw |-> NoPassword, wov |-> 0, auth |-> NoAuth, tls |-> "",
                          limit |-> 0, retain |-> FALSE, discard |-> FALSE, tainted |-> FALSE]
                         \in State
    BY <1>1 DEF State
<1>4. Imported(u) = [aad |-> aad, pw |-> NoPassword, wov |-> 0, auth |-> NoAuth, tls |-> "",
                     limit |-> 0, retain |-> FALSE, discard |-> FALSE, tainted |-> FALSE]
    BY Zenon DEF Imported
<1> HIDE DEF aad
<1> QED
    BY <1>3, <1>4, <1>5, Zenon

LEMMA FaultType == ASSUME TypeOK, NEW kind, Fault(kind) PROVE faults' \in SUBSET Faults
BY DEF TypeOK, Fault

\* A statement about the account of u, which may fail
LEMMA FailsType ==
    ASSUME TypeOK, NEW u \in User, NEW refused \in BOOLEAN, NEW new,
           ~refused => new \in Account \cup {Nil}, Fails(u, refused, new)
    PROVE  /\ faults' \in SUBSET Faults
           /\ account' \in [User -> Account \cup {Nil}]
           /\ \A v \in User \ {u} : account'[v] = account[v]
           /\ account'[u] = account[u] \/ (~refused /\ account'[u] = new)
<1>1. faults' \in SUBSET Faults
  <2>1. faults' = faults \/ \E kind : Fault(kind)
      BY DEF Fails
  <2> QED
      BY <2>1, FaultType DEF TypeOK
<1>2. account' = account \/ (~refused /\ account' = [account EXCEPT ![u] = new])
    BY DEF Fails
<1>3. account \in [User -> Account \cup {Nil}]
    BY DEF TypeOK
<1>4. CASE account' = account
    BY <1>1, <1>3, <1>4
<1>5. CASE ~refused /\ account' = [account EXCEPT ![u] = new]
    BY <1>1, <1>3, <1>5
<1> QED
    BY <1>2, <1>4, <1>5

LEMMA DueSame ==
    ASSUME NEW v \in User, cfg'[v] = cfg[v], st'[v] = st[v], UNCHANGED version
    PROVE  Due(v)' = Due(v)
<1>1. /\ AuthPlugin(v)' <=> AuthPlugin(v)
      /\ TlsChanged(v)' <=> TlsChanged(v)
      /\ AuthChanged(v)' <=> AuthChanged(v)
      /\ ReadsAccount' <=> ReadsAccount
      /\ DualPasswords' <=> DualPasswords
      /\ NewPassword(v)' = NewPassword(v)
    BY DEF AuthPlugin, TlsChanged, AuthChanged, ReadsAccount, DualPasswords, NewPassword
<1>2. ASSUME NEW s \in Steps PROVE s \in Due(v)' <=> s \in Due(v)
    BY <1>1 DEF Due, Steps
<1> QED
    BY <1>2 DEF Due

\* What one handler does to its own resource keeps the invariant when it stays in the
\* types and has what it needs.
LEMMA OneUser ==
    ASSUME TypeInv, NEW u \in User, NEW to \in PC, pc' = [pc EXCEPT ![u] = to],
           UNCHANGED <<version, cfg, plan, edits>>, faults' \in SUBSET Faults,
           account' \in [User -> Account \cup {Nil}],
           \A v \in User \ {u} : account'[v] = account[v],
           NEW new \in State \cup {Nil}, st' = [st EXCEPT ![u] = new],
           to # "set",
           to \in Steps \cup {"create", "create_limits", "create_tls"} => cfg[u] # Nil,
           to \in Steps => new = st[u] /\ new # Nil /\ to \in Due(u),
           to \in {"create_limits", "create_tls"} => account'[u] # Nil,
           to = "drop" /\ plan[u] = "replace" => cfg[u] # Nil
    PROVE  TypeInv'
<1>0. /\ pc \in [Res -> PC] /\ u \in Res /\ st = [r \in Res |-> st[r]] /\ User \cap Pass = {}
      /\ User \subseteq Res /\ Pass \subseteq Res
    BY UsersAssumption DEF TypeInv, HandlerInv, TypeOK, Res
<1>1. /\ pc'[u] = to /\ st'[u] = new /\ st' = [r \in Res |-> st'[r]]
      /\ \A r \in Res \ {u} : pc'[r] = pc[r] /\ st'[r] = st[r]
    BY <1>0
<1>2. TypeOK'
    BY <1>0, <1>1 DEF TypeInv, TypeOK
<1>3. ASSUME NEW v \in User \ {u} PROVE Due(v)' = Due(v)
    BY <1>0, <1>1, <1>3, DueSame
<1>4. to \in Steps => Due(u)' = Due(u)
    BY <1>0, <1>1, DueSame
<1>5. ASSUME NEW v \in User
      PROVE  /\ pc'[v] \in Steps \cup {"create", "create_limits", "create_tls"} => cfg'[v] # Nil
             /\ pc'[v] \in Steps => st'[v] # Nil /\ pc'[v] \in Due(v)'
             /\ pc'[v] \in {"create_limits", "create_tls"} => account'[v] # Nil
             /\ pc'[v] = "drop" /\ plan'[v] = "replace" => cfg'[v] # Nil
  <2>1. CASE v = u
      BY <1>1, <1>4, <2>1
  <2>2. CASE v # u
      BY <1>0, <1>1, <1>3, <2>2 DEF TypeInv, HandlerInv
  <2> QED
      BY <2>1, <2>2
<1>6. \A w \in Pass : pc'[w] = "set" => cfg'[w] # Nil
    BY <1>0, <1>1 DEF TypeInv, HandlerInv
<1> QED
    BY <1>1, <1>2, <1>5, <1>6 DEF TypeInv, HandlerInv

\* The same for a handler that leaves the state alone
LEMMA OneUserQuiet ==
    ASSUME TypeInv, NEW u \in User, NEW to \in PC, pc' = [pc EXCEPT ![u] = to],
           UNCHANGED <<version, cfg, st, plan, edits>>, faults' \in SUBSET Faults,
           account' \in [User -> Account \cup {Nil}],
           \A v \in User \ {u} : account'[v] = account[v],
           to \in {"done", "failed", "planned"}
    PROVE  TypeInv'
<1> DEFINE new == st[u]
<1>1. new \in State \cup {Nil} /\ st' = [st EXCEPT ![u] = new]
    BY DEF TypeInv, TypeOK, HandlerInv
<1> HIDE DEF new
<1> QED
    BY <1>1, OneUser DEF Steps

------------------------------------------------------------------------------
(* The type invariant: one lemma for each handler *)

LEMMA InitType == Init => TypeInv
<1> SUFFICES ASSUME Init PROVE TypeInv
    OBVIOUS
<1>1. /\ \A u \in User : cfg[u] \in Configs[u] \cup {Nil}
      /\ \A w \in Pass : cfg[w] \in PassConfigs \cup {Nil}
    BY DEF Init, ValidConfig
<1>2. \A r \in Res : st[r] = Nil /\ pc[r] = "refresh" /\ plan[r] = "none"
    BY DEF Init
<1>3. /\ pc \in [Res -> PC]
      /\ plan \in [Res -> {"none", "create", "update", "delete", "replace"}]
      /\ account \in [User -> Account \cup {Nil}] /\ st = [r \in Res |-> st[r]]
      /\ version \in Versions
    BY DEF Init, PC
<1>4. edits \in 0 .. MaxEdits /\ faults \in SUBSET Faults
    BY Limits DEF Init
<1>5. TypeOK
    BY <1>1, <1>2, <1>3, <1>4 DEF TypeOK, Res
<1>6. HandlerInv
    BY <1>2, <1>3 DEF HandlerInv, Steps, Res
<1> QED
    BY <1>5, <1>6 DEF TypeInv

LEMMA CreateKeepsType ==
    ASSUME TypeInv, NEW u \in User, CreateUser(u) \/ CreateUserFails(u)
    PROVE  TypeInv'
<1>0. TypeOK /\ {"create_limits", "create_tls", "done", "failed"} \subseteq PC
    BY DEF TypeInv, PC
<1>1. pc[u] = "create" /\ cfg[u] # Nil
  <2>1. pc[u] = "create"
      BY DEF CreateUser, CreateUserFails, Goto
  <2> QED
      BY <2>1 DEF TypeInv, HandlerInv
<1>2. NewAccount(u) \in Account /\ NewAccount(u) # Nil /\ Saved(u) \in State
    BY <1>0, <1>1, NewAccountType, SavedType, NilIsNone
<1>3. CASE CreateUser(u)
  <2> DEFINE to == AfterCreate(u)
             new == IF AfterCreate(u) = "done" THEN Saved(u) ELSE Nil
  <2>1. to \in {"create_limits", "create_tls", "done"}
      BY DEF AfterCreate
  <2>2. pc' = [pc EXCEPT ![u] = to] /\ st' = [st EXCEPT ![u] = new] /\ new \in State \cup {Nil}
      BY <1>2, <1>3 DEF CreateUser, Goto
  <2>3. /\ account' \in [User -> Account \cup {Nil}] /\ account'[u] # Nil
        /\ \A v \in User \ {u} : account'[v] = account[v]
      BY <1>0, <1>2, <1>3 DEF CreateUser, TypeOK
  <2>4. UNCHANGED <<version, cfg, plan, edits>> /\ faults' \in SUBSET Faults
      BY <1>0, <1>3 DEF CreateUser, TypeOK
  <2> HIDE DEF to, new
  <2> QED
      BY <1>0, <1>1, <2>1, <2>2, <2>3, <2>4, OneUser DEF Steps
<1>4. CASE CreateUserFails(u)
  <2>1. pc' = [pc EXCEPT ![u] = "failed"] /\ UNCHANGED <<version, cfg, st, plan, edits>>
      BY <1>4 DEF CreateUserFails, Goto
  <2>2. /\ faults' \in SUBSET Faults /\ account' \in [User -> Account \cup {Nil}]
        /\ \A v \in User \ {u} : account'[v] = account[v]
      BY <1>0, <1>2, <1>4, FailsType DEF CreateUserFails
  <2> QED
      BY <1>0, <2>1, <2>2, OneUserQuiet DEF Steps
<1> QED
    BY <1>3, <1>4

\* The second statement of a Create
LEMMA SecondKeepsType ==
    ASSUME TypeInv, NEW u \in User,
           CreateLimits(u) \/ CreateLimitsFails(u) \/ CreateTls(u) \/ CreateTlsFails(u)
    PROVE  TypeInv'
<1>0. TypeOK /\ {"done", "failed"} \subseteq PC
    BY DEF TypeInv, PC
<1>1. cfg[u] # Nil /\ account[u] # Nil
  <2>1. pc[u] \in {"create_limits", "create_tls"}
      BY DEF CreateLimits, CreateLimitsFails, CreateTls, CreateTlsFails, Goto
  <2> QED
      BY <2>1 DEF TypeInv, HandlerInv
<1>2. cfg[u] \in Block /\ account[u] \in Account /\ Saved(u) \in State
    BY <1>0, <1>1, BlockType, SavedType DEF TypeOK
<1>3. /\ [account[u] EXCEPT !.limit = cfg[u].limit] \in Account
      /\ [account[u] EXCEPT !.tls = cfg[u].tls] \in Account
    BY <1>2 DEF Account, Block
<1>4. CASE CreateLimits(u) \/ CreateTls(u)
  <2>1. PICK new \in Account : account' = [account EXCEPT ![u] = new]
      BY <1>0, <1>3, <1>4 DEF CreateLimits, CreateTls, TypeOK
  <2>2. /\ account' \in [User -> Account \cup {Nil}]
        /\ \A v \in User \ {u} : account'[v] = account[v]
      BY <1>0, <2>1 DEF TypeOK
  <2>3. /\ pc' = [pc EXCEPT ![u] = "done"] /\ st' = [st EXCEPT ![u] = Saved(u)]
        /\ UNCHANGED <<version, cfg, plan, edits>> /\ faults' \in SUBSET Faults
      BY <1>0, <1>4 DEF CreateLimits, CreateTls, Goto, TypeOK
  <2> QED
      BY <1>0, <1>2, <2>2, <2>3, OneUser DEF Steps
<1>5. CASE CreateLimitsFails(u)
  <2>1. pc' = [pc EXCEPT ![u] = "failed"] /\ UNCHANGED <<version, cfg, st, plan, edits>>
      BY <1>5 DEF CreateLimitsFails, Goto
  <2>2. /\ faults' \in SUBSET Faults /\ account' \in [User -> Account \cup {Nil}]
        /\ \A v \in User \ {u} : account'[v] = account[v]
      BY <1>0, <1>3, <1>5, FailsType DEF CreateLimitsFails
  <2> QED
      BY <1>0, <2>1, <2>2, OneUserQuiet
<1>6. CASE CreateTlsFails(u)
  <2> DEFINE new == [Saved(u) EXCEPT !.tls = "", !.tainted = TRUE]
  <2>1. /\ pc' = [pc EXCEPT ![u] = "failed"] /\ st' = [st EXCEPT ![u] = new]
        /\ UNCHANGED <<version, cfg, plan, edits>>
      BY <1>6 DEF CreateTlsFails, Goto
  <2>2. /\ faults' \in SUBSET Faults /\ account' \in [User -> Account \cup {Nil}]
        /\ \A v \in User \ {u} : account'[v] = account[v]
      BY <1>0, <1>3, <1>6, FailsType DEF CreateTlsFails
  <2>3. new \in State
    <3>1. "" \in Tls
        BY UsersAssumption
    <3> QED
        BY <1>2, <3>1 DEF State
  <2> HIDE DEF new
  <2> QED
      BY <1>0, <2>1, <2>2, <2>3, OneUser DEF Steps
<1> QED
    BY <1>4, <1>5, <1>6

LEMMA UpdateKeepsType ==
    ASSUME TypeInv, NEW u \in User, UpdateUser(u) \/ UpdateUserFails(u)
    PROVE  TypeInv'
<1>0. TypeOK /\ Steps \subseteq PC /\ {"done", "failed"} \subseteq PC
    BY DEF TypeInv, PC
<1>1. pc[u] \in Steps /\ cfg[u] # Nil /\ st[u] # Nil /\ pc[u] \in Due(u)
  <2>1. pc[u] \in Steps
      BY DEF UpdateUser, UpdateUserFails
  <2> QED
      BY <2>1 DEF TypeInv, HandlerInv
<1>2. Saved(u) \in State
    BY <1>0, <1>1, SavedType
<1>3. ~Refused(u, pc[u]) => Altered(u, pc[u]) \in Account
  <2>1. ~Refused(u, pc[u]) => account[u] # Nil
      BY DEF Refused
  <2> QED
      BY <1>0, <1>1, <2>1, AlteredType
<1>4. CASE UpdateUser(u)
  <2> DEFINE to == After(u, pc[u])
             new == IF After(u, pc[u]) = "done" THEN Saved(u) ELSE st[u]
  <2>1. to \in Due(u) \cup {"done"} /\ Due(u) \subseteq Steps
      BY AfterType DEF Due
  <2>2. /\ account' \in [User -> Account \cup {Nil}]
        /\ \A v \in User \ {u} : account'[v] = account[v]
      BY <1>0, <1>3, <1>4 DEF UpdateUser, TypeOK
  <2>3. pc' = [pc EXCEPT ![u] = to] /\ UNCHANGED <<version, cfg, plan, edits, faults>>
      BY <1>4 DEF UpdateUser
  <2>4. new \in State \cup {Nil} /\ (to # "done" => new = st[u])
      BY <1>0, <1>2 DEF TypeOK
  <2>5. st' = [st EXCEPT ![u] = new]
      BY <1>4 DEF UpdateUser, TypeInv, HandlerInv
  <2>6. to \in PC /\ faults' \in SUBSET Faults
      BY <1>0, <2>1, <2>3 DEF TypeOK
  <2> HIDE DEF to, new
  <2> QED
      BY <1>0, <1>1, <2>1, <2>2, <2>3, <2>4, <2>5, <2>6, OneUser DEF Steps
<1>5. CASE UpdateUserFails(u)
  <2>0. Refused(u, pc[u]) \in BOOLEAN
      BY DEF Refused
  <2>1. /\ pc' = [pc EXCEPT ![u] = "failed"] /\ st' = [st EXCEPT ![u] = Saved(u)]
        /\ UNCHANGED <<version, cfg, plan, edits>>
      BY <1>5 DEF UpdateUserFails
  <2>2. /\ faults' \in SUBSET Faults /\ account' \in [User -> Account \cup {Nil}]
        /\ \A v \in User \ {u} : account'[v] = account[v]
      BY <1>0, <1>3, <1>5, <2>0, FailsType DEF UpdateUserFails
  <2> QED
      BY <1>0, <1>2, <2>1, <2>2, OneUser DEF Steps
<1> QED
    BY <1>4, <1>5

LEMMA DeleteKeepsType ==
    ASSUME TypeInv, NEW u \in User, DeleteUser(u) \/ DeleteUserFails(u)
    PROVE  TypeInv'
<1>0. TypeOK /\ {"create", "done", "failed"} \subseteq PC
    BY DEF TypeInv, PC
<1>1. CASE DeleteUser(u)
  <2> DEFINE to == IF plan[u] = "replace" THEN "create" ELSE "done"
  <2>1. pc[u] = "drop" /\ pc' = [pc EXCEPT ![u] = to] /\ to \in {"create", "done"}
      BY <1>1 DEF DeleteUser, Goto
  <2>2. to = "create" => cfg[u] # Nil
      BY <2>1 DEF TypeInv, HandlerInv
  <2>3. /\ account' \in [User -> Account \cup {Nil}]
        /\ \A v \in User \ {u} : account'[v] = account[v]
        /\ st' = [st EXCEPT ![u] = Nil] /\ UNCHANGED <<version, cfg, plan, edits>>
        /\ faults' \in SUBSET Faults
      BY <1>0, <1>1 DEF DeleteUser, TypeOK
  <2> HIDE DEF to
  <2> QED
      BY <1>0, <2>1, <2>2, <2>3, OneUser DEF Steps
<1>2. CASE DeleteUserFails(u)
  <2>1. pc' = [pc EXCEPT ![u] = "failed"] /\ UNCHANGED <<version, cfg, st, plan, edits>>
      BY <1>2 DEF DeleteUserFails, Goto
  <2>2. /\ faults' \in SUBSET Faults /\ account' \in [User -> Account \cup {Nil}]
        /\ \A v \in User \ {u} : account'[v] = account[v]
      BY <1>0, <1>2, FailsType DEF DeleteUserFails
  <2> QED
      BY <1>0, <2>1, <2>2, OneUserQuiet
<1> QED
    BY <1>1, <1>2

\* A handler of a mysql_user_password changes an account, but neither makes nor drops it.
LEMMA OnePassword ==
    ASSUME TypeInv, NEW w \in Pass, NEW to \in {"planned", "done", "failed"},
           pc' = [pc EXCEPT ![w] = to],
           UNCHANGED <<version, cfg, plan, edits>>, faults' \in SUBSET Faults,
           account' \in [User -> Account \cup {Nil}],
           \A u \in User : account'[u] = Nil <=> account[u] = Nil,
           NEW new \in PassBlock \cup {Nil}, st' = [st EXCEPT ![w] = new]
    PROVE  TypeInv'
<1>0. /\ pc \in [Res -> PC] /\ w \in Res /\ st = [r \in Res |-> st[r]] /\ User \cap Pass = {}
      /\ User \subseteq Res /\ Pass \subseteq Res /\ to \in PC
    BY UsersAssumption DEF TypeInv, HandlerInv, TypeOK, Res, PC
<1>1. /\ pc'[w] = to /\ st'[w] = new /\ st' = [r \in Res |-> st'[r]]
      /\ \A r \in Res \ {w} : pc'[r] = pc[r] /\ st'[r] = st[r]
    BY <1>0
<1>2. TypeOK'
    BY <1>0, <1>1 DEF TypeInv, TypeOK
<1>3. ASSUME NEW v \in User
      PROVE  /\ pc'[v] \in Steps \cup {"create", "create_limits", "create_tls"} => cfg'[v] # Nil
             /\ pc'[v] \in Steps => st'[v] # Nil /\ pc'[v] \in Due(v)'
             /\ pc'[v] \in {"create_limits", "create_tls"} => account'[v] # Nil
             /\ pc'[v] = "drop" /\ plan'[v] = "replace" => cfg'[v] # Nil
  <2>1. pc'[v] = pc[v] /\ st'[v] = st[v]
      BY <1>0, <1>1
  <2>2. Due(v)' = Due(v)
      BY <2>1, DueSame
  <2> QED
      BY <2>1, <2>2 DEF TypeInv, HandlerInv
<1>4. \A x \in Pass : pc'[x] = "set" => cfg'[x] # Nil
    BY <1>0, <1>1 DEF TypeInv, HandlerInv
<1> QED
    BY <1>1, <1>2, <1>3, <1>4 DEF TypeInv, HandlerInv

LEMMA PasswordKeepsType ==
    ASSUME TypeInv, NEW w \in Pass, PassStep(w)
    PROVE  TypeInv'
<1> DEFINE u == Target[w]
<1>0. TypeOK /\ u \in User
    BY UsersAssumption DEF TypeInv
<1>1. /\ pc[w] = "set" => cfg[w] \in PassBlock
      /\ \A p \in Secret : pc[w] = "set" => PassSaved(w, p) \in PassBlock
  <2>1. pc[w] = "set" => cfg[w] \in PassBlock
      BY <1>0, UsersAssumption DEF TypeInv, HandlerInv, TypeOK
  <2> QED
      BY <2>1 DEF PassSaved, PassBlock
<1>2. ASSUME NEW p \in Secret, CanSetPassword(account[u], p, cfg[w].retain)
      PROVE  /\ SetPassword(account[u], p, cfg[w].retain) \in Account
             /\ SetPassword(account[u], p, cfg[w].retain) # Nil /\ account[u] # Nil
  <2>1. account[u] # Nil /\ account[u] \in Account
      BY <1>0, <1>2 DEF CanSetPassword, TypeOK
  <2> QED
      BY <2>1, SetPasswordType, NilIsNone
<1>3. account \in [User -> Account \cup {Nil}]
    BY <1>0 DEF TypeOK
<1> HIDE DEF u
<1>4. CASE SetUserPassword(w)
  <2>1. PICK p \in Secret :
            /\ CanSetPassword(account[u], p, cfg[w].retain)
            /\ account' = [account EXCEPT ![u] = SetPassword(account[u], p, cfg[w].retain)]
            /\ st' = [st EXCEPT ![w] = PassSaved(w, p)]
      BY <1>4 DEF SetUserPassword, u
  <2>2. /\ account' \in [User -> Account \cup {Nil}]
        /\ \A v \in User : account'[v] = Nil <=> account[v] = Nil
      BY <1>0, <1>2, <1>3, <2>1
  <2>3. /\ pc[w] = "set" /\ pc' = [pc EXCEPT ![w] = "done"]
        /\ UNCHANGED <<version, cfg, plan, edits, faults>>
      BY <1>4 DEF SetUserPassword, Goto
  <2>4. faults' \in SUBSET Faults /\ PassSaved(w, p) \in PassBlock
      BY <1>0, <1>1, <2>3 DEF TypeOK
  <2> QED
      BY <2>1, <2>2, <2>3, <2>4, OnePassword
<1>5. CASE SetUserPasswordFails(w)
  <2>1. PICK p \in Secret :
            /\ Fails(u, ~CanSetPassword(account[u], p, cfg[w].retain),
                     SetPassword(account[u], p, cfg[w].retain))
            /\ st' = [st EXCEPT ![w] = IF plan[w] = "update" THEN PassSaved(w, p) ELSE Nil]
      BY <1>5 DEF SetUserPasswordFails, u
  <2>2. /\ pc[w] = "set" /\ pc' = [pc EXCEPT ![w] = "failed"]
        /\ UNCHANGED <<version, cfg, plan, edits>>
      BY <1>5 DEF SetUserPasswordFails, Goto
  <2> DEFINE refused == ~CanSetPassword(account[u], p, cfg[w].retain)
             hash == SetPassword(account[u], p, cfg[w].retain)
  <2>3. refused \in BOOLEAN /\ (~refused => hash \in Account \cup {Nil})
      BY <1>2
  <2>4. Fails(u, refused, hash)
      BY <2>1
  <2>5. ~refused => hash # Nil /\ account[u] # Nil
      BY <1>2
  <2> HIDE DEF refused, hash
  <2>6. /\ faults' \in SUBSET Faults /\ account' \in [User -> Account \cup {Nil}]
        /\ \A v \in User \ {u} : account'[v] = account[v]
        /\ account'[u] = account[u] \/ (~refused /\ account'[u] = hash)
      BY <1>0, <2>3, <2>4, FailsType
  <2>7. \A v \in User : account'[v] = Nil <=> account[v] = Nil
      BY <2>5, <2>6
  <2>8. (IF plan[w] = "update" THEN PassSaved(w, p) ELSE Nil) \in PassBlock \cup {Nil}
      BY <1>1, <2>2
  <2> QED
      BY <2>1, <2>2, <2>6, <2>7, <2>8, OnePassword
<1>6. CASE Skip(w)
  <2>1. /\ pc' = [pc EXCEPT ![w] = "failed"]
        /\ UNCHANGED <<version, account, cfg, st, plan, edits, faults>>
      BY <1>6 DEF Skip, Goto
  <2>2. st[w] \in PassBlock \cup {Nil} /\ st' = [st EXCEPT ![w] = st[w]]
      BY <2>1 DEF TypeInv, TypeOK, HandlerInv
  <2> DEFINE new == st[w]
  <2>3. new \in PassBlock \cup {Nil} /\ st' = [st EXCEPT ![w] = new]
      BY <2>2
  <2> HIDE DEF new
  <2>4. faults' \in SUBSET Faults /\ account' \in [User -> Account \cup {Nil}]
      BY <1>0, <1>3, <2>1 DEF TypeOK
  <2> QED
      BY <2>1, <2>3, <2>4, OnePassword
<1>7. CASE DeleteUserPassword(w)
  <2>1. /\ pc' = [pc EXCEPT ![w] = "done"] /\ st' = [st EXCEPT ![w] = Nil]
        /\ UNCHANGED <<version, account, cfg, plan, edits, faults>>
      BY <1>7 DEF DeleteUserPassword, Goto
  <2>2. faults' \in SUBSET Faults /\ account' \in [User -> Account \cup {Nil}]
      BY <1>0, <1>3, <2>1 DEF TypeOK
  <2> QED
      BY <2>1, <2>2, OnePassword
<1> QED
    BY <1>4, <1>5, <1>6, <1>7 DEF PassStep

LEMMA RefreshKeepsType ==
    ASSUME TypeInv, NEW r \in Res, Refresh(r)
    PROVE  TypeInv'
<1>0. TypeOK /\ "planned" \in PC /\ r \in User \cup Pass
    BY DEF TypeInv, PC, Res
<1>1. PICK f \in Forms : st' = [st EXCEPT ![r] = IF @ = Nil THEN Nil ELSE Read(r, @, f)]
    BY DEF Refresh
<1> DEFINE new == IF st[r] = Nil THEN Nil ELSE Read(r, st[r], f)
<1>2. st' = [st EXCEPT ![r] = new]
    BY <1>1 DEF TypeInv, HandlerInv
<1>3. /\ pc' = [pc EXCEPT ![r] = "planned"]
      /\ UNCHANGED <<version, account, cfg, plan, edits, faults>>
    BY DEF Refresh, Goto
<1>4. faults' \in SUBSET Faults /\ account' \in [User -> Account \cup {Nil}]
    BY <1>0, <1>3 DEF TypeOK
<1>5. CASE r \in User
  <2>1. new \in State \cup {Nil}
      BY <1>0, <1>5, ReadUserType DEF Read, TypeOK
  <2> HIDE DEF new
  <2> QED
      BY <1>0, <1>2, <1>3, <1>4, <1>5, <2>1, OneUser DEF Steps
<1>6. CASE r \in Pass
  <2>1. new \in PassBlock \cup {Nil}
      BY <1>0, <1>6, UsersAssumption DEF Read, ReadUserPassword, TypeOK
  <2> HIDE DEF new
  <2> QED
      BY <1>2, <1>3, <1>4, <1>6, <2>1, OnePassword
<1> QED
    BY <1>0, <1>5, <1>6

LEMMA ApplyKeepsType == ASSUME TypeInv, StartApply PROVE TypeInv'
<1>0. TypeOK /\ User \subseteq Res /\ Pass \subseteq Res /\ User \cap Pass = {}
    BY UsersAssumption DEF TypeInv, Res
<1>1. UNCHANGED <<version, account, cfg, edits, faults>>
    BY DEF StartApply
<1>2. ASSUME NEW r \in Res
      PROVE  /\ PlanOf(r) \in {"none", "create", "update", "delete", "replace"}
             /\ PlanOf(r) \in {"create", "update", "replace"} => cfg[r] # Nil
             /\ PlanOf(r) \in {"update", "delete", "replace"} => st[r] # Nil
             /\ r \in Pass => PlanOf(r) # "replace"
    BY DEF PlanOf
<1>3. ASSUME NEW u \in User
      PROVE  /\ FirstOf(Due(u)) \in Due(u) \cup {"done"}
             /\ Due(u) \subseteq Steps
             /\ Due(u) = {} => FirstOf(Due(u)) = "done"
    BY FirstType DEF Due, FirstOf
<1> DEFINE first(r) == CASE PlanOf(r) = "none" -> "done"
                         [] r \in User /\ PlanOf(r) = "create" -> "create"
                         [] r \in User /\ PlanOf(r) = "update" -> FirstOf(Due(r))
                         [] r \in User /\ PlanOf(r) \in {"delete", "replace"} -> "drop"
                         [] r \in Pass /\ PlanOf(r) \in {"create", "update"} -> "set"
                         [] r \in Pass /\ PlanOf(r) = "delete" -> "forget"
           saved(r) == IF r \in User /\ PlanOf(r) = "update" /\ Due(r) = {} THEN Saved(r) ELSE st[r]
<1>4. /\ pc' = [r \in Res |-> first(r)]
      /\ st' = [r \in Res |-> saved(r)]
      /\ plan' = [r \in Res |-> PlanOf(r)]
    BY DEF StartApply
<1>5. ASSUME NEW u \in User
      PROVE  /\ PlanOf(u) = "none" => first(u) = "done"
             /\ PlanOf(u) = "create" => first(u) = "create"
             /\ PlanOf(u) = "update" => first(u) = FirstOf(Due(u))
             /\ PlanOf(u) \in {"delete", "replace"} => first(u) = "drop"
    BY <1>0, <1>2
<1>6. ASSUME NEW w \in Pass
      PROVE  /\ PlanOf(w) = "none" => first(w) = "done"
             /\ PlanOf(w) \in {"create", "update"} => first(w) = "set"
             /\ PlanOf(w) = "delete" => first(w) = "forget"
    BY <1>0, <1>2
<1> HIDE DEF first
<1>7. ASSUME NEW u \in User PROVE first(u) \in PC
    BY <1>0, <1>2, <1>3, <1>5 DEF PC
<1>8. ASSUME NEW w \in Pass PROVE first(w) \in PC
    BY <1>0, <1>2, <1>6 DEF PC
<1>9. pc' \in [Res -> PC]
    BY <1>4, <1>7, <1>8 DEF Res
<1>10. plan' \in [Res -> {"none", "create", "update", "delete", "replace"}]
    BY <1>2, <1>4
<1>11. ASSUME NEW u \in User PROVE st'[u] \in State \cup {Nil}
  <2>1. PlanOf(u) = "update" => Saved(u) \in State
      BY <1>0, <1>2, SavedType
  <2> QED
      BY <1>0, <1>4, <2>1 DEF TypeOK
<1>12. ASSUME NEW w \in Pass PROVE st'[w] \in PassBlock \cup {Nil}
    BY <1>0, <1>4 DEF TypeOK
<1>13. TypeOK'
    BY <1>0, <1>1, <1>9, <1>10, <1>11, <1>12 DEF TypeOK
<1>14. ASSUME NEW u \in User
       PROVE  /\ pc'[u] \in Steps \cup {"create", "create_limits", "create_tls"} => cfg'[u] # Nil
              /\ pc'[u] \in Steps => st'[u] # Nil /\ pc'[u] \in Due(u)'
              /\ pc'[u] \in {"create_limits", "create_tls"} => account'[u] # Nil
              /\ pc'[u] = "drop" /\ plan'[u] = "replace" => cfg'[u] # Nil
  <2>1. pc'[u] = first(u) /\ plan'[u] = PlanOf(u) /\ st'[u] = saved(u) /\ cfg'[u] = cfg[u]
      BY <1>0, <1>1, <1>4
  <2>2. CASE PlanOf(u) \in {"none", "create", "delete", "replace"}
      BY <1>0, <1>2, <1>5, <2>1, <2>2 DEF Steps
  <2>3. CASE PlanOf(u) = "update"
    <3>1. pc'[u] \in Steps => Due(u) # {} /\ pc'[u] \in Due(u)
        BY <1>3, <1>5, <2>1, <2>3 DEF Steps
    <3>2. pc'[u] \in Steps => st'[u] = st[u]
        BY <2>1, <3>1
    <3>3. pc'[u] \in Steps => Due(u)' = Due(u)
        BY <1>1, <3>2, DueSame
    <3>4. pc'[u] \in Steps \cup {"done"}
        BY <1>3, <1>5, <2>1, <2>3
    <3> QED
        BY <1>0, <1>1, <1>2, <2>3, <3>1, <3>2, <3>3, <3>4 DEF Steps
  <2> QED
      BY <1>0, <1>2, <2>2, <2>3
<1>15. ASSUME NEW w \in Pass PROVE pc'[w] = "set" => cfg'[w] # Nil
  <2>1. pc'[w] = first(w) /\ cfg'[w] = cfg[w]
      BY <1>0, <1>1, <1>4
  <2> QED
      BY <1>0, <1>2, <1>6, <2>1
<1>16. st' = [r \in Res |-> st'[r]]
    BY <1>4
<1> QED
    BY <1>13, <1>14, <1>15, <1>16 DEF TypeInv, HandlerInv

LEMMA BetweenKeepsType ==
    ASSUME TypeInv, Crash \/ NewRun \/ \E u \in User : ImportUser(u)
    PROVE  TypeInv'
<1>0. TypeOK /\ User \subseteq Res /\ Pass \subseteq Res /\ st = [r \in Res |-> st[r]]
    BY DEF TypeInv, HandlerInv, Res
<1>1. ASSUME NEW r \in Res PROVE pc'[r] \in {"refresh", "failed", "done"}
    BY <1>1 DEF Crash, NewRun, ImportUser, RunEnded
<1>2. pc' \in [Res -> PC]
  <2>1. pc' = pc \/ \E to : pc' = [r \in Res |-> to]
      BY DEF Crash, NewRun, ImportUser
  <2> QED
      BY <1>0, <1>1, <2>1 DEF PC, TypeOK
<1>3. /\ UNCHANGED <<version, account>> /\ faults' \in SUBSET Faults
      /\ plan' \in [Res -> {"none", "create", "update", "delete", "replace"}]
      /\ edits' \in 0 .. MaxEdits
  <2>1. faults' = faults \/ \E kind : Fault(kind)
      BY DEF Crash, NewRun, ImportUser
  <2>2. faults' \in SUBSET Faults
      BY <1>0, <2>1, FaultType DEF TypeOK
  <2>3. plan' = plan \/ plan' = [r \in Res |-> "none"]
      BY DEF Crash, NewRun, ImportUser
  <2>4. edits' = edits \/ (edits < MaxEdits /\ edits' = edits + 1)
      BY DEF Crash, NewRun, ImportUser
  <2>5. edits' \in 0 .. MaxEdits
      BY <1>0, <2>4, Limits DEF TypeOK
  <2>6. UNCHANGED <<version, account>>
      BY DEF Crash, NewRun, ImportUser
  <2> QED
      BY <1>0, <2>2, <2>3, <2>5, <2>6 DEF TypeOK
<1>4. /\ \A u \in User : cfg'[u] \in Configs[u] \cup {Nil}
      /\ \A w \in Pass : cfg'[w] \in PassConfigs \cup {Nil}
  <2>1. cfg' = cfg \/ ValidConfig(cfg')
      BY DEF Crash, NewRun, ImportUser
  <2> QED
      BY <1>0, <2>1 DEF ValidConfig, TypeOK
<1>5. /\ \A u \in User : st'[u] \in State \cup {Nil}
      /\ \A w \in Pass : st'[w] \in PassBlock \cup {Nil}
      /\ st' = [r \in Res |-> st'[r]]
  <2>1. CASE st' = st
      BY <1>0, <2>1 DEF TypeOK
  <2>2. CASE \E u \in User : ImportUser(u)
    <3>1. PICK u \in User : ImportUser(u)
        BY <2>2
    <3>2. PICK f \in Forms : st' = [st EXCEPT ![u] = Read(u, Imported(u), f)]
        BY <3>1 DEF ImportUser
    <3>3. Read(u, Imported(u), f) \in State \cup {Nil}
        BY <1>0, ReadUserType, ImportedType DEF Read
    <3>4. User \cap Pass = {}
        BY UsersAssumption
    <3> QED
        BY <1>0, <3>2, <3>3, <3>4 DEF TypeOK
  <2> QED
      BY <2>1, <2>2 DEF Crash, NewRun
<1>6. TypeOK'
    BY <1>0, <1>2, <1>3, <1>4, <1>5 DEF TypeOK
<1>7. HandlerInv'
    BY <1>0, <1>1, <1>5 DEF HandlerInv, Steps
<1> QED
    BY <1>6, <1>7 DEF TypeInv

LEMMA NextKeepsType == TypeInv /\ [Next]_vars => TypeInv'
<1> SUFFICES ASSUME TypeInv, [Next]_vars PROVE TypeInv'
    OBVIOUS
<1>1. ASSUME NEW u \in User, UserStep(u) PROVE TypeInv'
    BY <1>1, CreateKeepsType, SecondKeepsType, UpdateKeepsType, DeleteKeepsType DEF UserStep
<1>2. CASE UNCHANGED vars
  <2>1. \A u \in User : Due(u)' = Due(u)
      BY <1>2, DueSame DEF vars
  <2> QED
      BY <1>2, <2>1 DEF TypeInv, TypeOK, HandlerInv, vars
<1> QED
    BY <1>1, <1>2, ApplyKeepsType, BetweenKeepsType, RefreshKeepsType, PasswordKeepsType DEF Next

\* The variables keep their types: no handler works with a block, a state or an account
\* that is not there, and every statement that getSetPasswordStatement makes has a
\* password, whatever fails and whatever is imported.
THEOREM TypeCorrect == Safe => []TypeOK
<1>1. TypeInv /\ [Next]_vars => TypeInv'
    BY NextKeepsType
<1>2. TypeInv => TypeOK
    BY DEF TypeInv
<1> QED
    BY InitType, <1>1, <1>2, PTL DEF Safe

------------------------------------------------------------------------------
(* Accounts and state *)

Quiet == LimitsWithCreate /\ faults \subseteq {"rejected"}

Both(u) == /\ pc[u] # "create_tls" => (account[u] = Nil <=> st[u] = Nil)
           /\ pc[u] # "create_limits"

\* Failures are not taken back, and the version stays.
LEMMA QuietBefore ==
    ASSUME [Next]_vars, Quiet'
    PROVE  Quiet
<1>1. UNCHANGED version
    BY DEF Next, vars, StartApply, NewRun, Crash, Refresh, UserStep, ImportUser, PassStep,
           CreateUser, CreateUserFails, CreateLimits, CreateLimitsFails, CreateTls,
           CreateTlsFails, UpdateUser, UpdateUserFails, DeleteUser, DeleteUserFails,
           SetUserPassword, SetUserPasswordFails, Skip, DeleteUserPassword
<1>2. faults' = faults \/ \E kind : faults' = faults \cup {kind}
    BY DEF Next, vars, StartApply, NewRun, Crash, Refresh, UserStep, ImportUser, PassStep,
           CreateUser, CreateUserFails, CreateLimits, CreateLimitsFails, CreateTls,
           CreateTlsFails, UpdateUser, UpdateUserFails, DeleteUser, DeleteUserFails,
           SetUserPassword, SetUserPasswordFails, Skip, DeleteUserPassword, Fails, Fault
<1>3. faults' \subseteq {"rejected"} /\ LimitsWithCreate'
    BY DEF Quiet
<1>4. faults \subseteq {"rejected"}
    BY <1>2, <1>3
<1>5. LimitsWithCreate
    BY <1>1, <1>3 DEF LimitsWithCreate
<1> QED
    BY <1>4, <1>5 DEF Quiet

\* A reply that is not lost: the server has done nothing.
LEMMA NothingDone ==
    ASSUME Quiet', NEW u, NEW refused, NEW new, Fails(u, refused, new)
    PROVE  account' = account
BY DEF Fails, Fault, Quiet

LEMMA HandlerKeepsBoth ==
    ASSUME TypeInv, BothInv, Quiet, Quiet', NEW u \in User, UserStep(u)
    PROVE  Both(u)'
<1>0. /\ TypeOK /\ u \in Res /\ pc \in [Res -> PC] /\ account \in [User -> Account \cup {Nil}]
      /\ st = [r \in Res |-> st[r]] /\ Both(u)
    BY DEF TypeInv, HandlerInv, TypeOK, Res, BothInv, Quiet, Both
<1>1. cfg[u] # Nil => NewAccount(u) # Nil /\ Saved(u) # Nil
    BY <1>0, NewAccountType, SavedType, NilIsNone
<1>2. LimitsWithCreate
    BY DEF Quiet
<1>3. pc[u] # "create_limits"
    BY <1>0 DEF Both
<1>4. CASE CreateUser(u)
  <2>1. pc[u] = "create" /\ pc'[u] = AfterCreate(u) /\ account'[u] = NewAccount(u)
      BY <1>0, <1>4 DEF CreateUser, Goto
  <2>2. AfterCreate(u) \in {"create_tls", "done"}
      BY <1>2 DEF AfterCreate
  <2>3. AfterCreate(u) = "done" => st'[u] = Saved(u)
      BY <1>0, <1>4 DEF CreateUser
  <2>4. cfg[u] # Nil
      BY <2>1 DEF TypeInv, HandlerInv
  <2> QED
      BY <1>1, <2>1, <2>2, <2>3, <2>4 DEF Both
<1>5. CASE CreateUserFails(u) \/ DeleteUserFails(u)
  <2>1. /\ pc[u] \in {"create", "drop"} /\ pc'[u] = "failed" /\ st' = st
        /\ account' = account
      BY <1>0, <1>5, NothingDone DEF CreateUserFails, DeleteUserFails, Goto
  <2> QED
      BY <1>0, <2>1 DEF Both
<1>6. CASE CreateLimits(u) \/ CreateLimitsFails(u)
    BY <1>3, <1>6 DEF CreateLimits, CreateLimitsFails, Goto
<1>7. CASE CreateTls(u)
  <2>1. /\ pc[u] = "create_tls" /\ pc'[u] = "done" /\ st'[u] = Saved(u)
        /\ account'[u] = [account[u] EXCEPT !.tls = cfg[u].tls]
      BY <1>0, <1>7 DEF CreateTls, Goto
  <2>2. cfg[u] # Nil /\ account[u] # Nil
      BY <2>1 DEF TypeInv, HandlerInv
  <2>3. account[u] \in Account /\ cfg[u] \in Block
      BY <1>0, <2>2, BlockType
  <2>4. account'[u] \in Account
      BY <2>1, <2>3 DEF Account, Block
  <2> QED
      BY <1>1, <2>1, <2>2, <2>4, NilIsNone DEF Both
\* The id is set before the second statement.
<1>8. CASE CreateTlsFails(u)
  <2>1. /\ pc[u] = "create_tls" /\ pc'[u] = "failed" /\ account' = account
        /\ st'[u] = [Saved(u) EXCEPT !.tls = "", !.tainted = TRUE]
      BY <1>0, <1>8, NothingDone DEF CreateTlsFails, Goto
  <2>2. cfg[u] # Nil /\ account[u] # Nil
      BY <2>1 DEF TypeInv, HandlerInv
  <2>3. Saved(u) \in State /\ "" \in Tls
      BY <1>0, <2>2, SavedType, UsersAssumption
  <2>4. st'[u] \in State
      BY <2>1, <2>3 DEF State
  <2> QED
      BY <2>1, <2>2, <2>4, NilIsNone DEF Both
<1>9. CASE UpdateUser(u)
  <2>1. pc[u] \in Steps /\ cfg[u] # Nil /\ st[u] # Nil /\ pc[u] \in Due(u)
    <3>1. pc[u] \in Steps
        BY <1>9 DEF UpdateUser
    <3> QED
        BY <3>1 DEF TypeInv, HandlerInv
  <2>2. account[u] # Nil /\ Altered(u, pc[u]) \in Account
    <3>1. ~Refused(u, pc[u]) /\ account[u] # Nil
        BY <1>9 DEF UpdateUser, Refused
    <3> QED
        BY <1>0, <2>1, <3>1, AlteredType
  <2>3. account'[u] = Altered(u, pc[u]) /\ pc'[u] = After(u, pc[u])
      BY <1>0, <1>9 DEF UpdateUser
  <2>4. st'[u] = Saved(u) \/ st'[u] = st[u]
      BY <1>0, <1>9 DEF UpdateUser
  <2>5. pc'[u] \in Steps \cup {"done"}
      BY <2>3, AfterType DEF Due
  <2> QED
      BY <1>1, <2>1, <2>2, <2>3, <2>4, <2>5, NilIsNone DEF Both, Steps
<1>10. CASE UpdateUserFails(u)
  <2>1. /\ pc[u] \in Steps /\ pc'[u] = "failed" /\ st'[u] = Saved(u) /\ account' = account
      BY <1>0, <1>10, NothingDone DEF UpdateUserFails
  <2>2. cfg[u] # Nil /\ st[u] # Nil
      BY <2>1 DEF TypeInv, HandlerInv
  <2>3. account[u] # Nil
      BY <1>0, <2>1, <2>2 DEF Both, Steps
  <2> QED
      BY <1>1, <2>1, <2>2, <2>3 DEF Both
<1>11. CASE DeleteUser(u)
  <2>1. account'[u] = Nil /\ st'[u] = Nil /\ pc'[u] \in {"create", "done"}
      BY <1>0, <1>11 DEF DeleteUser, Goto
  <2> QED
      BY <2>1 DEF Both
<1> QED
    BY <1>4, <1>5, <1>6, <1>7, <1>8, <1>9, <1>10, <1>11 DEF UserStep

\* What a handler of another account leaves alone
LEMMA UserFrame ==
    ASSUME TypeInv, NEW u \in User, UserStep(u), NEW v \in User, v # u
    PROVE  account'[v] = account[v] /\ st'[v] = st[v] /\ pc'[v] = pc[v]
<1>0. /\ pc \in [Res -> PC] /\ account \in [User -> Account \cup {Nil}]
      /\ st = [r \in Res |-> st[r]] /\ u \in Res /\ v \in Res
    BY DEF TypeInv, HandlerInv, TypeOK, Res
<1>1. account' = account \/ \E new : account' = [account EXCEPT ![u] = new]
    BY DEF UserStep, CreateUser, CreateUserFails, CreateLimits, CreateLimitsFails, CreateTls,
           CreateTlsFails, UpdateUser, UpdateUserFails, DeleteUser, DeleteUserFails, Fails
<1>2. st' = st \/ \E new : st' = [st EXCEPT ![u] = new]
    BY DEF UserStep, CreateUser, CreateUserFails, CreateLimits, CreateLimitsFails, CreateTls,
           CreateTlsFails, UpdateUser, UpdateUserFails, DeleteUser, DeleteUserFails
<1>3. \E to : pc' = [pc EXCEPT ![u] = to]
    BY DEF UserStep, CreateUser, CreateUserFails, CreateLimits, CreateLimitsFails, CreateTls,
           CreateTlsFails, UpdateUser, UpdateUserFails, DeleteUser, DeleteUserFails, Goto
<1> QED
    BY <1>0, <1>1, <1>2, <1>3

LEMMA PasswordKeepsBoth ==
    ASSUME TypeInv, BothInv, Quiet, Quiet', NEW w \in Pass, PassStep(w), NEW u \in User
    PROVE  Both(u)'
<1>0. /\ pc \in [Res -> PC] /\ account \in [User -> Account \cup {Nil}]
      /\ st = [r \in Res |-> st[r]] /\ u \in Res /\ w \in Res /\ Both(u)
    BY DEF TypeInv, HandlerInv, TypeOK, Res, BothInv, Quiet, Both
<1>3. u # w
    BY UsersAssumption
<1>1. st'[u] = st[u] /\ pc'[u] = pc[u]
  <2>1. st' = st \/ \E new : st' = [st EXCEPT ![w] = new]
      BY DEF PassStep, SetUserPassword, SetUserPasswordFails, Skip, DeleteUserPassword
  <2>2. \E to : pc' = [pc EXCEPT ![w] = to]
      BY DEF PassStep, SetUserPassword, SetUserPasswordFails, Skip, DeleteUserPassword, Goto
  <2> QED
      BY <1>0, <1>3, <2>1, <2>2
<1>2. account'[u] = Nil <=> account[u] = Nil
  <2>1. CASE SetUserPassword(w)
    <3>1. PICK p \in Secret :
              /\ CanSetPassword(account[Target[w]], p, cfg[w].retain)
              /\ account' = [account EXCEPT ![Target[w]] =
                                SetPassword(account[Target[w]], p, cfg[w].retain)]
        BY <2>1 DEF SetUserPassword
    <3>2. Target[w] \in User /\ account[Target[w]] # Nil
        BY <3>1, UsersAssumption DEF CanSetPassword
    <3>3. SetPassword(account[Target[w]], p, cfg[w].retain) \in Account
        BY <1>0, <3>2, SetPasswordType
    <3> QED
        BY <1>0, <3>1, <3>2, <3>3, NilIsNone
  <2>2. CASE SetUserPasswordFails(w) \/ Skip(w) \/ DeleteUserPassword(w)
    <3>1. account' = account
        BY <2>2, NothingDone DEF SetUserPasswordFails, Skip, DeleteUserPassword
    <3> QED
        BY <3>1
  <2> QED
      BY <2>1, <2>2 DEF PassStep
<1> QED
    BY <1>0, <1>1, <1>2 DEF Both

\* A refresh takes an account for gone when it is gone: ReadUser looks for name and host.
LEMMA ReadIsTrue ==
    ASSUME TypeInv, LimitsWithCreate, NEW u \in User, NEW s \in State, NEW f \in Forms
    PROVE  ReadUser(u, s, f) = Nil <=> account[u] = Nil
<1>1. ReadsAccount
  <2>1. version \in Nat
      BY UsersAssumption DEF TypeInv, TypeOK
  <2> QED
      BY <2>1 DEF LimitsWithCreate, ReadsAccount
<1>2. account[u] # Nil => ReadUser(u, s, f) # Nil
  <2>1. CASE account[u] # Nil
    <3>1. ReadUser(u, s, f) = Refreshed(u, s, f)
        BY <1>1, <2>1 DEF ReadUser
    <3>2. Refreshed(u, s, f) \in State
        BY <2>1, RefreshedType DEF TypeInv
    <3> QED
        BY <3>1, <3>2, NilIsNone
  <2> QED
      BY <2>1
<1> QED
    BY <1>1, <1>2 DEF ReadUser

LEMMA NextKeepsBoth == TypeInv /\ BothInv /\ [Next]_vars => BothInv'
<1> SUFFICES ASSUME TypeInv, BothInv, [Next]_vars, Quiet', NEW u \in User
             PROVE  Both(u)'
    BY DEF BothInv, Quiet, Both, LimitsWithCreate
<1>0. /\ pc \in [Res -> PC] /\ account \in [User -> Account \cup {Nil}]
      /\ st = [r \in Res |-> st[r]] /\ u \in Res /\ User \subseteq Res /\ TypeOK
    BY DEF TypeInv, HandlerInv, TypeOK, Res
<1>1. Quiet /\ LimitsWithCreate /\ Both(u)
    BY QuietBefore DEF BothInv, Quiet, Both
<1>2. ASSUME NEW v \in User, UserStep(v) PROVE Both(u)'
  <2>1. CASE v = u
      BY <1>1, <1>2, <2>1, HandlerKeepsBoth
  <2>2. CASE v # u
      BY <1>1, <1>2, <2>2, UserFrame DEF Both
  <2> QED
      BY <2>1, <2>2
<1>3. ASSUME NEW w \in Pass, PassStep(w) PROVE Both(u)'
    BY <1>1, <1>3, PasswordKeepsBoth
<1>4. ASSUME NEW r \in Res, Refresh(r) PROVE Both(u)'
  <2>1. UNCHANGED account /\ pc[r] = "refresh" /\ pc' = [pc EXCEPT ![r] = "planned"]
      BY <1>4 DEF Refresh, Goto
  <2>2. PICK f \in Forms : st' = [st EXCEPT ![r] = IF @ = Nil THEN Nil ELSE Read(r, @, f)]
      BY <1>4 DEF Refresh
  <2>3. CASE r # u
      BY <1>0, <1>1, <2>1, <2>2, <2>3 DEF Both
  <2>4. CASE r = u
    <3>1. st'[u] = (IF st[u] = Nil THEN Nil ELSE ReadUser(u, st[u], f)) /\ pc'[u] = "planned"
        BY <1>0, <2>1, <2>2, <2>4 DEF Read
    <3>2. account[u] = Nil <=> st[u] = Nil
        BY <1>1, <2>1, <2>4 DEF Both
    <3>3. st[u] # Nil => (ReadUser(u, st[u], f) = Nil <=> account[u] = Nil)
        BY <1>0, <1>1, ReadIsTrue DEF TypeOK
    <3> QED
        BY <2>1, <3>1, <3>2, <3>3 DEF Both
  <2> QED
      BY <2>3, <2>4
<1>5. CASE StartApply
  <2>1. UNCHANGED account /\ pc[u] = "planned"
      BY <1>0, <1>5 DEF StartApply
  <2>2. PlanOf(u) = "update" => Saved(u) # Nil /\ st[u] # Nil
    <3>1. PlanOf(u) = "update" => cfg[u] # Nil /\ st[u] # Nil
        BY DEF PlanOf
    <3> QED
        BY <1>0, <3>1, SavedType, NilIsNone
  <2>3. st'[u] = Nil <=> st[u] = Nil
    <3>1. st'[u] = IF u \in User /\ PlanOf(u) = "update" /\ Due(u) = {} THEN Saved(u) ELSE st[u]
        BY <1>0, <1>5 DEF StartApply
    <3> QED
        BY <2>2, <3>1
  <2>4. pc'[u] \in Steps \cup {"done", "create", "drop"}
    <3>1. PlanOf(u) \in {"none", "create", "update", "delete", "replace"}
        BY DEF PlanOf
    <3>2. FirstOf(Due(u)) \in Steps \cup {"done"}
        BY FirstType DEF Due
    <3>0. u \notin Pass
        BY UsersAssumption
    <3>7. pc'[u] = CASE PlanOf(u) = "none" -> "done"
                      [] u \in User /\ PlanOf(u) = "create" -> "create"
                      [] u \in User /\ PlanOf(u) = "update" -> FirstOf(Due(u))
                      [] u \in User /\ PlanOf(u) \in {"delete", "replace"} -> "drop"
                      [] u \in Pass /\ PlanOf(u) \in {"create", "update"} -> "set"
                      [] u \in Pass /\ PlanOf(u) = "delete" -> "forget"
        BY <1>0, <1>5 DEF StartApply
    <3>3. PlanOf(u) = "none" => pc'[u] = "done"
        BY <3>0, <3>7
    <3>4. PlanOf(u) = "create" => pc'[u] = "create"
        BY <3>0, <3>7
    <3>5. PlanOf(u) = "update" => pc'[u] = FirstOf(Due(u))
        BY <3>0, <3>7
    <3>6. PlanOf(u) \in {"delete", "replace"} => pc'[u] = "drop"
        BY <3>0, <3>7
    <3> QED
        BY <3>1, <3>2, <3>3, <3>4, <3>5, <3>6
  <2> QED
      BY <1>1, <2>1, <2>3, <2>4 DEF Both, Steps
<1>6. CASE NewRun
  <2>1. UNCHANGED <<account, st>> /\ pc[u] \in {"done", "failed"} /\ pc'[u] = "refresh"
      BY <1>0, <1>6 DEF NewRun, RunEnded
  <2> QED
      BY <1>1, <2>1 DEF Both
\* A crash is not among the failures of Quiet.
<1>7. CASE Crash
    BY <1>7 DEF Crash, Fault, Quiet
<1>8. ASSUME NEW v \in User, ImportUser(v) PROVE Both(u)'
  <2>1. UNCHANGED <<account, pc>> /\ pc[u] \in {"done", "failed"} /\ st[v] = Nil
      BY <1>0, <1>8 DEF ImportUser, RunEnded
  <2>2. PICK f \in Forms : /\ Read(v, Imported(v), f) # Nil
                           /\ st' = [st EXCEPT ![v] = Read(v, Imported(v), f)]
      BY <1>8 DEF ImportUser
  <2>3. account[v] # Nil
      BY <1>0, <1>1, <2>2, ReadIsTrue, ImportedType DEF Read
  <2> QED
      BY <1>0, <1>1, <2>1, <2>2, <2>3 DEF Both
<1>9. CASE UNCHANGED vars
    BY <1>1, <1>9 DEF Both, vars
<1> QED
    BY <1>2, <1>3, <1>4, <1>5, <1>6, <1>7, <1>8, <1>9 DEF Next

\* From 5.7.6 on, and while the server only refuses statements, a run leaves no account
\* that terraform's state does not know and no state without an account: of the two
\* statements that make an AAD user the second may fail, and the id is set before it.
THEOREM AccountsAndState == Safe => []NoOrphan
<1>1. Init => BothInv
    BY DEF Init, BothInv, Res
<1>2. TypeInv /\ [Next]_vars => TypeInv'
    BY NextKeepsType
<1>3. TypeInv /\ BothInv /\ [Next]_vars => BothInv'
    BY NextKeepsBoth
<1>4. BothInv => NoOrphan
    BY DEF BothInv, NoOrphan, RunEnded, Res
<1> QED
    BY InitType, <1>1, <1>2, <1>3, <1>4, PTL DEF Safe

------------------------------------------------------------------------------
(* The authentication string *)

\* Nobody sets the password of u while u is at work: what sets it waits, or is not there.
Undisturbed(u) == Depends \/ ~SetElsewhere(u)

\* The strings of the state are what the refresh read until a password is set; an AAD user
\* has none, and the state knows who is one.
Auth(u) ==
    /\ st[u] # Nil /\ st[u].aad => st[u].auth = NoAuth
    /\ ReadsAccount /\ st[u] # Nil /\ account[u] # Nil => st[u].aad = account[u].aad
    /\ pc[u] \in {"create", "create_limits", "create_tls"} => st[u] = Nil
    /\ pc[u] \in {"create_limits", "create_tls"} => account[u].aad = cfg[u].aad
    /\ pc[u] \in Steps => st[u].aad = cfg[u].aad
    /\ ReadsAccount /\ st[u] # Nil /\ account[u] # Nil /\ pc[u] \in {"planned", "auth"}
       /\ Undisturbed(u) =>
          \A f \in Form : st[u].auth[f] \in {NoPassword, account[u].pw}

AuthInv == \A u \in User : Auth(u)

LEMMA SavedAuth ==
    ASSUME TypeOK, NEW u \in User, cfg[u] # Nil, Auth(u),
           st[u] = Nil \/ st[u].aad = cfg[u].aad
    PROVE  Saved(u).aad = cfg[u].aad /\ (cfg[u].aad => Saved(u).auth = NoAuth)
<1>1. cfg[u].aad => cfg[u].hash = NoPassword
    BY UsersAssumption DEF TypeOK, Consistent
<1>2. cfg[u].hash = NoPassword => AuthPlanned(u) = IF st[u] # Nil THEN st[u].auth ELSE NoAuth
    BY DEF AuthPlanned
<1>3. cfg[u].aad => AuthPlanned(u) = NoAuth
    BY <1>1, <1>2 DEF Auth
<1> QED
    BY <1>3 DEF Saved

LEMMA AlteredAad ==
    ASSUME NEW u \in User, account[u] \in Account, NEW s \in Steps
    PROVE  Altered(u, s).aad = account[u].aad
<1>1. CASE s = "auth"
    BY <1>1 DEF Altered, Account
<1>2. CASE s = "discard"
    BY <1>2 DEF Altered, Account
<1>3. CASE s = "password"
    BY <1>3 DEF Altered, Account, SetPassword
<1>4. CASE s = "tls"
    BY <1>4 DEF Altered, Account
<1>5. CASE s = "limits"
    BY <1>5 DEF Altered, Account
<1> QED
    BY <1>1, <1>2, <1>3, <1>4, <1>5 DEF Steps

LEMMA AfterNotAuth ==
    ASSUME NEW u \in User, NEW s \in Steps
    PROVE  After(u, s) \in (Steps \ {"auth"}) \cup {"done"}
<1> DEFINE S == {t \in Due(u) : Order[t] > Order[s]}
<1>1. S \in SUBSET Steps
    BY DEF Due
<1>2. "auth" \notin S
  <2>1. Order["auth"] = 1 /\ Order[s] \in 1 .. 5
      BY DEF Order, Steps
  <2> QED
      BY <2>1
<1>3. After(u, s) = FirstOf(S)
    BY DEF After
<1> HIDE DEF S
<1> QED
    BY <1>1, <1>2, <1>3, FirstType

LEMMA HandlerKeepsAuth ==
    ASSUME TypeInv, NEW u \in User, Auth(u), UserStep(u)
    PROVE  Auth(u)'
<1>0. /\ TypeOK /\ u \in Res /\ pc \in [Res -> PC] /\ account \in [User -> Account \cup {Nil}]
      /\ st = [r \in Res |-> st[r]]
      /\ account[u] # Nil => account[u] \in Account
    BY DEF TypeInv, HandlerInv, TypeOK, Res
<1>1. UNCHANGED <<version, cfg>> /\ (ReadsAccount' <=> ReadsAccount)
  <2>1. UNCHANGED <<version, cfg>>
      BY DEF UserStep, CreateUser, CreateUserFails, CreateLimits, CreateLimitsFails, CreateTls,
             CreateTlsFails, UpdateUser, UpdateUserFails, DeleteUser, DeleteUserFails
  <2> QED
      BY <2>1 DEF ReadsAccount
\* A handler that ends with what it saves
<1>2. ASSUME cfg[u] # Nil, st[u] = Nil \/ st[u].aad = cfg[u].aad, pc'[u] \in {"done", "failed"},
             st'[u].aad = Saved(u).aad, st'[u].auth = Saved(u).auth,
             ReadsAccount /\ account'[u] # Nil => account'[u].aad = cfg[u].aad
      PROVE  Auth(u)'
  <2>1. st'[u].aad = cfg[u].aad /\ (cfg[u].aad => st'[u].auth = NoAuth)
      BY <1>0, <1>2, SavedAuth
  <2> QED
      BY <1>1, <1>2, <2>1 DEF Auth, Undisturbed, SetElsewhere, Steps
<1>3. ASSUME pc'[u] \in {"done", "failed", "create"}, st'[u] = Nil
      PROVE  Auth(u)'
    BY <1>3 DEF Auth, Undisturbed, SetElsewhere, Steps
<1>4. CASE CreateUser(u)
  <2>1. /\ pc[u] = "create" /\ pc'[u] = AfterCreate(u) /\ account'[u] = NewAccount(u)
        /\ st'[u] = IF AfterCreate(u) = "done" THEN Saved(u) ELSE Nil
      BY <1>0, <1>4 DEF CreateUser, Goto
  <2>2. cfg[u] # Nil /\ st[u] = Nil /\ account'[u].aad = cfg[u].aad
      BY <2>1 DEF TypeInv, HandlerInv, Auth, NewAccount
  <2>3. CASE AfterCreate(u) = "done"
      BY <1>2, <2>1, <2>2, <2>3
  <2>4. CASE AfterCreate(u) # "done"
    <3>1. pc'[u] \in {"create_limits", "create_tls"} /\ st'[u] = Nil
        BY <2>1, <2>4 DEF AfterCreate
    <3> QED
        BY <1>1, <2>2, <3>1 DEF Auth, Undisturbed, SetElsewhere, Steps
  <2> QED
      BY <2>3, <2>4
<1>5. CASE CreateUserFails(u) \/ CreateLimitsFails(u)
  <2>1. /\ pc[u] \in {"create", "create_limits"} /\ pc'[u] = "failed" /\ st' = st
      BY <1>0, <1>5 DEF CreateUserFails, CreateLimitsFails, Goto
  <2> QED
      BY <1>3, <2>1 DEF Auth
<1>6. CASE CreateLimits(u) \/ CreateTls(u)
  <2>1. /\ pc[u] \in {"create_limits", "create_tls"} /\ pc'[u] = "done" /\ st'[u] = Saved(u)
        /\ \/ account'[u] = [account[u] EXCEPT !.limit = cfg[u].limit]
           \/ account'[u] = [account[u] EXCEPT !.tls = cfg[u].tls]
      BY <1>0, <1>6 DEF CreateLimits, CreateTls, Goto
  <2>2. /\ cfg[u] # Nil /\ account[u] \in Account /\ account[u].aad = cfg[u].aad /\ st[u] = Nil
      BY <1>0, <2>1 DEF TypeInv, HandlerInv, Auth
  <2>3. account'[u].aad = cfg[u].aad
      BY <2>1, <2>2 DEF Account
  <2> QED
      BY <1>2, <2>1, <2>2, <2>3
<1>7. CASE CreateTlsFails(u)
  <2>1. /\ pc[u] = "create_tls" /\ pc'[u] = "failed"
        /\ st'[u] = [Saved(u) EXCEPT !.tls = "", !.tainted = TRUE]
        /\ Fails(u, FALSE, [account[u] EXCEPT !.tls = cfg[u].tls])
      BY <1>0, <1>7 DEF CreateTlsFails, Goto
  <2>2. /\ cfg[u] # Nil /\ account[u] \in Account /\ account[u].aad = cfg[u].aad /\ st[u] = Nil
      BY <1>0, <2>1 DEF TypeInv, HandlerInv, Auth
  <2>3. account'[u] = account[u] \/ account'[u] = [account[u] EXCEPT !.tls = cfg[u].tls]
      BY <1>0, <2>1 DEF Fails
  <2>4. account'[u].aad = cfg[u].aad
      BY <2>2, <2>3 DEF Account
  <2>5. st'[u].aad = Saved(u).aad /\ st'[u].auth = Saved(u).auth
      BY <2>1 DEF Saved
  <2> QED
      BY <1>2, <2>1, <2>2, <2>4, <2>5
<1>8. CASE UpdateUser(u)
  <2>1. /\ pc[u] \in Steps /\ account'[u] = Altered(u, pc[u]) /\ pc'[u] = After(u, pc[u])
        /\ st'[u] = (IF After(u, pc[u]) = "done" THEN Saved(u) ELSE st[u])
        /\ account[u] # Nil
      BY <1>0, <1>8 DEF UpdateUser, Refused
  <2>2. cfg[u] # Nil /\ st[u] # Nil /\ st[u].aad = cfg[u].aad
      BY <2>1 DEF TypeInv, HandlerInv, Auth
  <2>3. account'[u].aad = account[u].aad
      BY <1>0, <2>1, AlteredAad
  <2>4. ReadsAccount => account'[u].aad = cfg[u].aad
      BY <2>1, <2>2, <2>3 DEF Auth
  <2>5. CASE After(u, pc[u]) = "done"
      BY <1>2, <2>1, <2>2, <2>4, <2>5
  <2>6. CASE After(u, pc[u]) # "done"
    <3>1. pc'[u] \in Steps \ {"auth"} /\ st'[u] = st[u]
        BY <2>1, <2>6, AfterNotAuth
    <3> QED
        BY <1>1, <2>2, <2>4, <3>1 DEF Auth, Undisturbed, SetElsewhere, Steps
  <2> QED
      BY <2>5, <2>6
<1>9. CASE UpdateUserFails(u)
  <2>1. /\ pc[u] \in Steps /\ pc'[u] = "failed" /\ st'[u] = Saved(u)
        /\ Fails(u, Refused(u, pc[u]), Altered(u, pc[u]))
      BY <1>0, <1>9 DEF UpdateUserFails
  <2>2. cfg[u] # Nil /\ st[u] # Nil /\ st[u].aad = cfg[u].aad
      BY <2>1 DEF TypeInv, HandlerInv, Auth
  <2>3. account'[u] = account[u] \/ (account[u] # Nil /\ account'[u] = Altered(u, pc[u]))
      BY <1>0, <2>1 DEF Fails, Refused
  <2>4. ReadsAccount /\ account'[u] # Nil => account'[u].aad = cfg[u].aad
      BY <1>0, <2>1, <2>2, <2>3, AlteredAad DEF Auth
  <2> QED
      BY <1>2, <2>1, <2>2, <2>4
<1>10. CASE DeleteUser(u)
  <2>1. st'[u] = Nil /\ pc'[u] \in {"create", "done"}
      BY <1>0, <1>10 DEF DeleteUser, Goto
  <2> QED
      BY <1>3, <2>1
<1>11. CASE DeleteUserFails(u)
  <2>1. /\ pc'[u] = "failed" /\ st' = st /\ (account'[u] = account[u] \/ account'[u] = Nil)
      BY <1>0, <1>11 DEF DeleteUserFails, Fails, Goto
  <2> QED
      BY <1>1, <2>1 DEF Auth, Undisturbed, SetElsewhere, Steps
<1> QED
    BY <1>4, <1>5, <1>6, <1>7, <1>8, <1>9, <1>10, <1>11 DEF UserStep

\* A mysql_user_password whose block refers to its user's finds that one done, and touches
\* the passwords of the account alone.
LEMMA PasswordFrame ==
    ASSUME TypeInv, NEW w \in Pass, PassStep(w), NEW u \in User
    PROVE  /\ st'[u] = st[u] /\ pc'[u] = pc[u] /\ UNCHANGED <<version, cfg, plan>>
           /\ \/ account'[u] = account[u]
              \/ /\ SetElsewhere(u) /\ (Depends => pc[u] = "done")
                 /\ account[u] # Nil /\ account'[u] # Nil /\ account'[u].aad = account[u].aad
<1>0. /\ pc \in [Res -> PC] /\ account \in [User -> Account \cup {Nil}]
      /\ st = [r \in Res |-> st[r]] /\ u \in Res /\ w \in Res /\ u # w /\ Target[w] \in User
  <2>1. pc \in [Res -> PC] /\ account \in [User -> Account \cup {Nil}]
      BY DEF TypeInv, TypeOK
  <2>2. st = [r \in Res |-> st[r]]
      BY DEF TypeInv, HandlerInv
  <2>3. u \in Res /\ w \in Res /\ u # w
      BY UsersAssumption DEF Res
  <2>4. Target[w] \in User
      BY UsersAssumption
  <2> QED
      BY <2>1, <2>2, <2>3, <2>4
<1>1. st'[u] = st[u] /\ pc'[u] = pc[u] /\ UNCHANGED <<version, cfg, plan>>
  <2>1. st' = st \/ \E new : st' = [st EXCEPT ![w] = new]
      BY DEF PassStep, SetUserPassword, SetUserPasswordFails, Skip, DeleteUserPassword
  <2>2. \E to : pc' = [pc EXCEPT ![w] = to]
      BY DEF PassStep, SetUserPassword, SetUserPasswordFails, Skip, DeleteUserPassword, Goto
  <2>3. UNCHANGED <<version, cfg, plan>>
      BY DEF PassStep, SetUserPassword, SetUserPasswordFails, Skip, DeleteUserPassword
  <2> QED
      BY <1>0, <2>1, <2>2, <2>3
<1>2. CASE account' = account
    BY <1>1, <1>2
<1>3. CASE account' # account
  <2>1. SetUserPassword(w) \/ SetUserPasswordFails(w)
      BY <1>3 DEF PassStep, Skip, DeleteUserPassword
  <2>2. (Depends => pc[Target[w]] = "done") /\ SetElsewhere(Target[w])
    <3>1. pc[w] = "set"
        BY <2>1 DEF SetUserPassword, SetUserPasswordFails, Goto
    <3>2. SetElsewhere(Target[w])
        BY <3>1 DEF TypeInv, HandlerInv, SetElsewhere
    <3> QED
        BY <2>1, <3>2 DEF SetUserPassword, SetUserPasswordFails, MayStart
  <2>3. \E p \in Secret :
            /\ CanSetPassword(account[Target[w]], p, cfg[w].retain)
            /\ account' = [account EXCEPT ![Target[w]] =
                              SetPassword(account[Target[w]], p, cfg[w].retain)]
    <3>1. CASE SetUserPassword(w)
        BY <3>1 DEF SetUserPassword
    <3>2. CASE SetUserPasswordFails(w)
        BY <1>3, <3>2 DEF SetUserPasswordFails, Fails
    <3> QED
        BY <2>1, <3>1, <3>2
  <2>4. PICK p \in Secret :
            /\ CanSetPassword(account[Target[w]], p, cfg[w].retain)
            /\ account' = [account EXCEPT ![Target[w]] =
                              SetPassword(account[Target[w]], p, cfg[w].retain)]
      BY <2>3
  <2>5. CASE Target[w] # u
      BY <1>0, <1>1, <2>4, <2>5
  <2>6. CASE Target[w] = u
    <3>1. account[u] # Nil /\ account[u] \in Account
        BY <1>0, <2>4, <2>6 DEF CanSetPassword
    <3>2. account'[u] = SetPassword(account[u], p, cfg[w].retain)
        BY <1>0, <2>4, <2>6
    <3>3. account'[u].aad = account[u].aad
        BY <3>1, <3>2 DEF SetPassword, Account
    <3>4. account'[u] # Nil
        BY <3>1, <3>2, SetPasswordType, NilIsNone
    <3> QED
        BY <1>1, <2>2, <2>6, <3>1, <3>3, <3>4
  <2> QED
      BY <2>5, <2>6
<1> QED
    BY <1>2, <1>3

\* A refresh finds out the string, and an import who is an AAD user.
LEMMA ReadAuth ==
    ASSUME TypeOK, NEW u \in User, NEW s \in State, NEW f \in Forms, s.aad => s.auth = NoAuth,
           ReadsAccount /\ account[u] # Nil => s.aad = account[u].aad,
           ReadUser(u, s, f) # Nil
    PROVE  /\ ReadUser(u, s, f).aad = s.aad /\ (s.aad => ReadUser(u, s, f).auth = NoAuth)
           /\ ReadsAccount => /\ account[u] # Nil
                              /\ \A g \in Form :
                                    ReadUser(u, s, f).auth[g] \in {NoPassword, account[u].pw}
<1>1. CASE ReadsAccount
  <2>1. account[u] # Nil /\ ReadUser(u, s, f) = Refreshed(u, s, f)
      BY <1>1 DEF ReadUser
  <2>2. Refreshed(u, s, f).aad = s.aad
      BY DEF Refreshed, State
  <2>3. Refreshed(u, s, f).auth = IF account[u].aad THEN s.auth ELSE AuthRead(s, f, account[u].pw)
      BY DEF Refreshed, State
  <2>4. \A g \in Form : NoAuth[g] = NoPassword /\ AuthRead(s, f, account[u].pw)[g] \in {NoPassword, account[u].pw}
      BY DEF NoAuth, AuthRead
  <2>5. account[u].aad => s.aad
      BY <1>1, <2>1
  <2>6. s.aad => account[u].aad
      BY <1>1, <2>1
  <2> QED
      BY <2>1, <2>2, <2>3, <2>4, <2>5, <2>6
<1>2. CASE ~ReadsAccount
    BY <1>2 DEF ReadUser
<1> QED
    BY <1>1, <1>2

LEMMA NextKeepsAuth ==
    ASSUME TypeInv, AuthInv, [Next]_vars
    PROVE  AuthInv'
<1> SUFFICES ASSUME NEW u \in User
             PROVE  Auth(u)'
    BY DEF AuthInv
<1>0. /\ pc \in [Res -> PC] /\ account \in [User -> Account \cup {Nil}]
      /\ st = [r \in Res |-> st[r]] /\ u \in Res /\ User \subseteq Res /\ TypeOK /\ Auth(u) /\ u \notin Pass
      /\ st[u] \in State \cup {Nil}
    BY UsersAssumption DEF TypeInv, HandlerInv, TypeOK, Res, AuthInv
<1>1. ASSUME NEW v \in User, UserStep(v) PROVE Auth(u)'
  <2>1. CASE v = u
      BY <1>0, <1>1, <2>1, HandlerKeepsAuth
  <2>2. CASE v # u
    <3>1. account'[u] = account[u] /\ st'[u] = st[u] /\ pc'[u] = pc[u]
        BY <1>1, <2>2, UserFrame
    <3>2. UNCHANGED <<version, cfg>>
        BY <1>1 DEF UserStep, CreateUser, CreateUserFails, CreateLimits, CreateLimitsFails, CreateTls,
             CreateTlsFails, UpdateUser, UpdateUserFails, DeleteUser, DeleteUserFails
    <3> QED
        BY <1>0, <3>1, <3>2 DEF Auth, Undisturbed, SetElsewhere, ReadsAccount
  <2> QED
      BY <2>1, <2>2
<1>2. ASSUME NEW w \in Pass, PassStep(w) PROVE Auth(u)'
  <2>1. /\ st'[u] = st[u] /\ pc'[u] = pc[u] /\ UNCHANGED <<version, cfg>>
        /\ \/ account'[u] = account[u]
           \/ /\ SetElsewhere(u) /\ (Depends => pc[u] = "done")
              /\ account[u] # Nil /\ account'[u].aad = account[u].aad
      BY <1>2, PasswordFrame
  <2>2. CASE account'[u] = account[u]
      BY <1>0, <2>1, <2>2 DEF Auth, Undisturbed, SetElsewhere, ReadsAccount
  <2>3. CASE /\ SetElsewhere(u) /\ (Depends => pc[u] = "done")
             /\ account[u] # Nil /\ account'[u].aad = account[u].aad
      BY <1>0, <2>1, <2>3 DEF Auth, Undisturbed, SetElsewhere, ReadsAccount, Steps
  <2> QED
      BY <2>1, <2>2, <2>3
<1>3. ASSUME NEW r \in Res, Refresh(r) PROVE Auth(u)'
  <2>1. /\ UNCHANGED <<account, version, cfg>> /\ pc[r] = "refresh" /\ pc' = [pc EXCEPT ![r] = "planned"]
      BY <1>3 DEF Refresh, Goto
  <2>2. PICK f \in Forms : st' = [st EXCEPT ![r] = IF @ = Nil THEN Nil ELSE Read(r, @, f)]
      BY <1>3 DEF Refresh
  <2>3. CASE r # u
    <3>1. st'[u] = st[u] /\ pc'[u] = pc[u]
        BY <1>0, <2>1, <2>2, <2>3
    <3> QED
        BY <1>0, <2>1, <3>1 DEF Auth, Undisturbed, SetElsewhere, ReadsAccount
  <2>4. CASE r = u
    <3>1. st'[u] = (IF st[u] = Nil THEN Nil ELSE ReadUser(u, st[u], f)) /\ pc'[u] = "planned"
        BY <1>0, <2>1, <2>2, <2>4 DEF Read
    <3>2. CASE st'[u] = Nil
        BY <3>1, <3>2 DEF Auth, Steps
    <3>3. CASE st'[u] # Nil
      <4>1. st[u] \in State /\ st'[u] = ReadUser(u, st[u], f)
          BY <1>0, <3>1, <3>3
      <4>2. /\ st[u].aad => st[u].auth = NoAuth
            /\ ReadsAccount /\ account[u] # Nil => st[u].aad = account[u].aad
          BY <1>0, <3>1, <3>3 DEF Auth
      <4>3. /\ st'[u].aad = st[u].aad /\ (st[u].aad => st'[u].auth = NoAuth)
            /\ ReadsAccount => /\ account[u] # Nil
                               /\ \A g \in Form : st'[u].auth[g] \in {NoPassword, account[u].pw}
          BY <1>0, <3>3, <4>1, <4>2, ReadAuth
      <4> QED
          BY <2>1, <3>1, <4>2, <4>3 DEF Auth, Undisturbed, SetElsewhere, ReadsAccount, Steps
    <3> QED
        BY <3>2, <3>3
  <2> QED
      BY <2>3, <2>4
<1>4. CASE StartApply
  <2>1. UNCHANGED <<account, version, cfg>> /\ pc[u] = "planned"
        /\ st'[u] = IF PlanOf(u) = "update" /\ Due(u) = {} THEN Saved(u) ELSE st[u]
      BY <1>0, <1>4 DEF StartApply
  <2>2. pc'[u] = CASE PlanOf(u) = "none" -> "done"
                    [] u \in User /\ PlanOf(u) = "create" -> "create"
                    [] u \in User /\ PlanOf(u) = "update" -> FirstOf(Due(u))
                    [] u \in User /\ PlanOf(u) \in {"delete", "replace"} -> "drop"
                    [] u \in Pass /\ PlanOf(u) \in {"create", "update"} -> "set"
                    [] u \in Pass /\ PlanOf(u) = "delete" -> "forget"
      BY <1>0, <1>4 DEF StartApply
  <2>3. PlanOf(u) \in {"none", "create", "update", "delete", "replace"}
      BY DEF PlanOf
  <2>4. CASE PlanOf(u) = "update"
    <3>1. cfg[u] # Nil /\ st[u] # Nil /\ st[u].aad = cfg[u].aad
        BY <1>0, <2>4 DEF PlanOf
    <3>2. pc'[u] = FirstOf(Due(u)) /\ Due(u) \in SUBSET Steps
      <4>1. Due(u) \in SUBSET Steps
          BY DEF Due
      <4>2. u \notin Pass
          BY UsersAssumption
      <4>3. pc'[u] = FirstOf(Due(u))
          BY <2>2, <2>4, <4>2
      <4> QED
          BY <4>1, <4>3
    <3>3. CASE Due(u) = {}
      <4>1. pc'[u] = "done" /\ st'[u] = Saved(u)
          BY <2>1, <2>4, <3>2, <3>3, FirstType
      <4>2. Saved(u).aad = cfg[u].aad /\ (cfg[u].aad => Saved(u).auth = NoAuth)
          BY <1>0, <3>1, SavedAuth
      <4> QED
          BY <1>0, <2>1, <3>1, <4>1, <4>2 DEF Auth, Undisturbed, SetElsewhere, ReadsAccount, Steps
    <3>4. CASE Due(u) # {}
      <4>1. pc'[u] \in Steps /\ st'[u] = st[u]
          BY <2>1, <3>2, <3>4, FirstType
      <4> QED
          BY <1>0, <2>1, <3>1, <4>1 DEF Auth, Undisturbed, SetElsewhere, ReadsAccount, Steps
    <3> QED
        BY <3>3, <3>4
  <2>5. CASE PlanOf(u) = "create"
    <3>1. st[u] = Nil /\ st'[u] = Nil /\ pc'[u] = "create"
        BY <1>0, <2>1, <2>2, <2>5 DEF PlanOf
    <3> QED
        BY <3>1 DEF Auth, Steps
  <2>6. CASE PlanOf(u) \in {"none", "delete", "replace"}
    <3>1. st'[u] = st[u] /\ pc'[u] \in {"done", "drop"}
        BY <1>0, <2>1, <2>2, <2>6
    <3> QED
        BY <1>0, <2>1, <3>1 DEF Auth, Undisturbed, SetElsewhere, ReadsAccount, Steps
  <2> QED
      BY <2>3, <2>4, <2>5, <2>6
<1>5. CASE NewRun
  <2>1. UNCHANGED <<account, st, version>> /\ pc'[u] = "refresh"
      BY <1>0, <1>5 DEF NewRun
  <2> QED
      BY <1>0, <2>1 DEF Auth, Undisturbed, SetElsewhere, ReadsAccount, Steps
<1>6. CASE Crash
  <2>1. UNCHANGED <<account, st, version>> /\ pc'[u] = "failed"
      BY <1>0, <1>6 DEF Crash
  <2> QED
      BY <1>0, <2>1 DEF Auth, Undisturbed, SetElsewhere, ReadsAccount, Steps
<1>7. ASSUME NEW v \in User, ImportUser(v) PROVE Auth(u)'
  <2>1. UNCHANGED <<account, pc, version, cfg>> /\ pc[u] \in {"done", "failed"}
      BY <1>0, <1>7 DEF ImportUser, RunEnded
  <2>2. PICK f \in Forms : /\ Read(v, Imported(v), f) # Nil
                           /\ st' = [st EXCEPT ![v] = Read(v, Imported(v), f)]
      BY <1>7 DEF ImportUser
  <2>3. CASE v # u
    <3>1. st'[u] = st[u]
        BY <1>0, <2>2, <2>3
    <3> QED
        BY <1>0, <2>1, <3>1 DEF Auth, Undisturbed, SetElsewhere, ReadsAccount, Steps
  <2>4. CASE v = u
    <3>1. st'[u] = ReadUser(u, Imported(u), f) /\ ReadUser(u, Imported(u), f) # Nil
        BY <1>0, <2>2, <2>4 DEF Read
    <3>2. Imported(u) \in State /\ Imported(u).auth = NoAuth
          /\ Imported(u).aad = (ReadsAccount /\ account[u] # Nil /\ account[u].aad)
        BY <1>0, ImportedType DEF Imported
    <3>3. ReadsAccount /\ account[u] # Nil => Imported(u).aad = account[u].aad
      <4>1. account[u] # Nil => account[u].aad \in BOOLEAN
          BY <1>0 DEF Account
      <4> QED
          BY <3>2, <4>1
    <3>4. st'[u].aad = Imported(u).aad /\ (Imported(u).aad => st'[u].auth = NoAuth)
        BY <1>0, <3>1, <3>2, <3>3, ReadAuth
    <3> QED
        BY <2>1, <3>3, <3>4 DEF Auth, Undisturbed, SetElsewhere, ReadsAccount, Steps
  <2> QED
      BY <2>3, <2>4
<1>8. CASE UNCHANGED vars
    BY <1>0, <1>8 DEF Auth, Undisturbed, SetElsewhere, ReadsAccount, vars
<1> QED
    BY <1>1, <1>2, <1>3, <1>4, <1>5, <1>6, <1>7, <1>8 DEF Next

\* A statement of an update that is not about the password
LEMMA PasswordKept ==
    ASSUME Depends, TypeInv, AuthInv, NEW u \in User, pc[u] \in Steps, NewPassword(u) = Nil,
           cfg[u].hash = NoPassword, account[u] # Nil, ~Refused(u, pc[u])
    PROVE  Altered(u, pc[u]).pw = account[u].pw
<1>0. /\ account[u] \in Account /\ Auth(u) /\ st[u] # Nil /\ st[u].aad = cfg[u].aad /\ pc[u] \in Due(u)
    BY DEF TypeInv, HandlerInv, TypeOK, AuthInv, Auth
<1>1. CASE pc[u] = "auth"
  <2>1. AuthPlanned(u) = st[u].auth
      BY <1>0 DEF AuthPlanned
  <2>2. ReadsAccount \/ st[u].aad
      BY <1>0, <1>1 DEF Due, AuthPlugin
  <2>3. \A f \in Form : st[u].auth[f] \in {NoPassword, account[u].pw}
    <3>1. CASE ReadsAccount
        BY <1>0, <1>1, <3>1 DEF Auth, Undisturbed
    <3>2. CASE st[u].aad
        BY <1>0, <3>2 DEF Auth, NoAuth
    <3> QED
        BY <2>2, <3>1, <3>2
  <2>4. AuthString(u) \in {NoPassword, account[u].pw}
      BY <2>1, <2>3 DEF AuthString, Form
  <2> QED
      BY <1>0, <1>1, <2>4 DEF Altered, Account
<1>2. CASE pc[u] = "discard"
    BY <1>0, <1>2 DEF Altered, Account
<1>3. CASE pc[u] = "password"
  <2>1. cfg[u].retain /\ ~DualPasswords
      BY <1>0, <1>3 DEF Due
  <2> QED
      BY <1>3, <2>1 DEF Refused, CanSetPassword
<1>4. CASE pc[u] = "tls"
    BY <1>0, <1>4 DEF Altered, Account
<1>5. CASE pc[u] = "limits"
    BY <1>0, <1>5 DEF Altered, Account
<1> QED
    BY <1>1, <1>2, <1>3, <1>4, <1>5 DEF Steps

\* No step of an update that is not about the password changes the password, whatever failed
\* before and whoever else is at work: the authentication string that ALTER USER repeats is
\* what this run's refresh has read, in whichever of the two forms, and nobody sets a password
\* between the two if every mysql_user_password refers to its user.
THEOREM PasswordLeftAlone == Depends => (Safe => PasswordStays)
<1> SUFFICES ASSUME Depends PROVE Safe => PasswordStays
    OBVIOUS
<1>1. Init => AuthInv
    BY DEF Init, AuthInv, Auth, Res, Steps
<1>2. TypeInv /\ [Next]_vars => TypeInv'
    BY NextKeepsType
<1>3. TypeInv /\ AuthInv /\ [Next]_vars => AuthInv'
    BY NextKeepsAuth
<1>4. TypeInv /\ AuthInv /\ [Next]_vars =>
        [\A u \in User :
            pc[u] \in Steps /\ pc'[u] # pc[u] /\ NewPassword(u) = Nil /\ cfg[u].hash = NoPassword
            /\ account[u] # Nil =>
                account'[u].pw = account[u].pw]_vars
  <2> SUFFICES ASSUME TypeInv, AuthInv, Next, NEW u \in User, pc[u] \in Steps, pc'[u] # pc[u],
                      NewPassword(u) = Nil, cfg[u].hash = NoPassword, account[u] # Nil
               PROVE  account'[u].pw = account[u].pw
      OBVIOUS
  <2>0. /\ pc \in [Res -> PC] /\ account \in [User -> Account \cup {Nil}] /\ u \in Res
      BY DEF TypeInv, TypeOK, Res
  <2>1. ASSUME NEW v \in User, UserStep(v)
        PROVE  account'[u].pw = account[u].pw
    <3>1. v = u
        BY <2>1, UserFrame
    <3>2. UpdateUser(u) \/ UpdateUserFails(u)
        BY <2>1, <3>1 DEF UserStep, CreateUser, CreateUserFails, CreateLimits, CreateLimitsFails,
            CreateTls, CreateTlsFails, DeleteUser, DeleteUserFails, Goto, Steps
    <3>3. account'[u] = account[u] \/ (~Refused(u, pc[u]) /\ account'[u] = Altered(u, pc[u]))
        BY <2>0, <3>2 DEF UpdateUser, UpdateUserFails, Fails
    <3> QED
        BY <3>3, PasswordKept
  <2>2. ASSUME NEW w \in Pass, PassStep(w)
        PROVE  account'[u].pw = account[u].pw
      BY <2>0, <2>2, PasswordFrame DEF Steps
  <2>3. ASSUME NEW r \in Res, Refresh(r)
        PROVE  FALSE
      BY <2>0, <2>3 DEF Refresh, Goto, Steps
  <2>4. CASE StartApply \/ NewRun
      BY <2>0, <2>4 DEF StartApply, NewRun, RunEnded, Steps
  <2>5. CASE Crash
      BY <2>5 DEF Crash
  <2>6. ASSUME NEW v \in User, ImportUser(v)
        PROVE  FALSE
      BY <2>6 DEF ImportUser
  <2> QED
      BY <2>1, <2>2, <2>3, <2>4, <2>5, <2>6 DEF Next
<1> QED
    BY InitType, <1>1, <1>2, <1>3, <1>4, PTL DEF Safe, PasswordStays


------------------------------------------------------------------------------
(* The old password of an update that retains it *)

\* A block that retains the old password has the new one as a password: an authentication
\* string is set by ALTER USER ... AS, which retains nothing.
RetainsPassword == \A u \in User : \A c \in Configs[u] : c.retain => c.hash = NoPassword

OldValid(u) == AuthString(u) \in {account[u].pw, account[u].old, NoPassword}

OldCurrent(u) == AuthString(u) \in {account[u].pw, NoPassword}

\* Until the statement that sets the password is past, the string that was read is the
\* password; that statement makes it the old one, and what follows touches neither.
Retained(u) ==
    /\ pc[u] = "planned" /\ ReadsAccount /\ st[u] # Nil => account[u] # Nil
    /\ plan[u] = "update" =>
          /\ pc[u] \in Steps \cup {"done", "failed"} /\ cfg[u] # Nil /\ st[u] # Nil
          /\ ReadsAccount => account[u] # Nil
          /\ DualPasswords /\ cfg[u].retain /\ ~SetElsewhere(u) =>
                /\ OldValid(u)
                /\ pc[u] \in {"auth", "discard", "password"} => OldCurrent(u)

RetainInv == \A u \in User : Retained(u)

\* Nothing that Retained(u) is about has changed but, maybe, pc[u].
LEMMA RetainedStays ==
    ASSUME NEW u \in User, Retained(u), account'[u] = account[u], st'[u] = st[u],
           UNCHANGED <<version, cfg>>, plan'[u] = plan[u],
           pc'[u] = pc[u] \/ (pc[u] \in Steps \cup {"done", "failed"} /\ pc'[u] = "failed")
    PROVE  Retained(u)'
<1>1. /\ (ReadsAccount' <=> ReadsAccount) /\ (DualPasswords' <=> DualPasswords)
      /\ (SetElsewhere(u)' <=> SetElsewhere(u))
    BY DEF ReadsAccount, DualPasswords, SetElsewhere
<1>2. AuthString(u)' = AuthString(u)
    BY DEF AuthString, AuthPlanned
<1> QED
    BY <1>1, <1>2 DEF Retained, OldValid, OldCurrent, Steps

LEMMA SavedString ==
    ASSUME NEW u \in User, cfg[u].hash = NoPassword, st[u] # Nil, UNCHANGED cfg,
           st'[u] = Saved(u) \/ st'[u] = st[u], st'[u] # Nil
    PROVE  AuthString(u)' = AuthString(u)
<1>1. AuthPlanned(u) = st[u].auth
    BY DEF AuthPlanned
<1>2. st'[u].auth = st[u].auth
    BY <1>1 DEF Saved
<1>3. AuthPlanned(u)' = st'[u].auth
    BY DEF AuthPlanned
<1> QED
    BY <1>1, <1>2, <1>3 DEF AuthString

\* The statements of an update: only the one that sets the password makes an old one of it.
LEMMA AlteredOld ==
    ASSUME TypeOK, NEW u \in User, account[u] \in Account, NEW s \in Steps, ~Refused(u, s),
           cfg[u].retain, OldValid(u), s \in {"auth", "discard", "password"} => OldCurrent(u)
    PROVE  /\ AuthString(u) \in {Altered(u, s).pw, Altered(u, s).old, NoPassword}
           /\ s \in {"auth", "discard"} => AuthString(u) \in {Altered(u, s).pw, NoPassword}
<1>1. CASE s = "auth"
    BY <1>1 DEF Altered, Account, OldCurrent
<1>2. CASE s = "discard"
    BY <1>2 DEF Altered, Account, OldCurrent
<1>3. CASE s = "password"
    BY <1>3 DEF Altered, Account, OldCurrent, SetPassword
<1>4. CASE s = "tls"
    BY <1>4 DEF Altered, Account, OldValid
<1>5. CASE s = "limits"
    BY <1>5 DEF Altered, Account, OldValid
<1> QED
    BY <1>1, <1>2, <1>3, <1>4, <1>5 DEF Steps

LEMMA AfterLater ==
    ASSUME NEW u \in User, NEW s \in Steps
    PROVE  /\ After(u, s) \in Steps \cup {"done"}
           /\ s \in {"password", "tls", "limits"} =>
                  After(u, s) \notin {"auth", "discard", "password"}
<1> DEFINE S == {t \in Due(u) : Order[t] > Order[s]}
<1>1. S \in SUBSET Steps
    BY DEF Due
<1>2. s \in {"password", "tls", "limits"} => S \cap {"auth", "discard", "password"} = {}
  <2>1. /\ Order["auth"] = 1 /\ Order["discard"] = 2 /\ Order["password"] = 3
        /\ Order["tls"] = 4 /\ Order["limits"] = 5
      BY DEF Order
  <2> QED
      BY <2>1
<1>3. After(u, s) = FirstOf(S)
    BY DEF After
<1> HIDE DEF S
<1> QED
    BY <1>1, <1>2, <1>3, FirstType

LEMMA UpdateKeepsOld ==
    ASSUME RetainsPassword, TypeInv, NEW u \in User, Retained(u), plan[u] = "update",
           UpdateUser(u) \/ UpdateUserFails(u)
    PROVE  Retained(u)'
<1>0. /\ TypeOK /\ u \in Res /\ pc \in [Res -> PC] /\ account \in [User -> Account \cup {Nil}]
      /\ st = [r \in Res |-> st[r]] /\ UNCHANGED <<version, cfg, plan>>
      /\ pc[u] \in Steps /\ cfg[u] \in Configs[u] /\ st[u] \in State
  <2>1. UNCHANGED <<version, cfg, plan>> /\ pc[u] \in Steps
      BY DEF UpdateUser, UpdateUserFails
  <2> QED
      BY <2>1 DEF TypeInv, HandlerInv, TypeOK, Res
<1>1. /\ (ReadsAccount' <=> ReadsAccount) /\ (DualPasswords' <=> DualPasswords)
      /\ (SetElsewhere(u)' <=> SetElsewhere(u))
    BY <1>0 DEF ReadsAccount, DualPasswords, SetElsewhere
<1>2. /\ pc'[u] \in {After(u, pc[u]), "failed"}
      /\ st'[u] = Saved(u) \/ st'[u] = st[u]
      /\ \/ account'[u] = account[u] /\ pc'[u] = "failed"
         \/ ~Refused(u, pc[u]) /\ account'[u] = Altered(u, pc[u])
    BY <1>0 DEF UpdateUser, UpdateUserFails, Fails
<1>3. Saved(u) \in State
    BY <1>0, SavedType, UsersAssumption
<1>4. st'[u] # Nil /\ pc'[u] \in Steps \cup {"done", "failed"} /\ pc'[u] # "planned"
    BY <1>0, <1>2, <1>3, NilIsNone, AfterLater DEF Steps
<1>5. ~Refused(u, pc[u]) => account[u] \in Account
    BY <1>0 DEF Refused
<1>6. ~Refused(u, pc[u]) => Altered(u, pc[u]) \in Account
  <2>1. pc[u] \in Due(u) /\ cfg[u] # Nil
      BY <1>0 DEF TypeInv, HandlerInv
  <2>2. ~Refused(u, pc[u]) => account[u] # Nil
      BY DEF Refused
  <2> QED
      BY <1>0, <2>1, <2>2, AlteredType
<1>7. ReadsAccount => account'[u] # Nil
    BY <1>2, <1>6, NilIsNone DEF Retained
<1>8. ASSUME DualPasswords, cfg[u].retain, ~SetElsewhere(u)
      PROVE  OldValid(u)' /\ (pc'[u] \in {"auth", "discard", "password"} => OldCurrent(u)')
  <2>1. /\ OldValid(u) /\ (pc[u] \in {"auth", "discard", "password"} => OldCurrent(u))
        /\ cfg[u].hash = NoPassword
      BY <1>0, <1>8 DEF Retained, RetainsPassword
  <2>2. AuthString(u)' = AuthString(u)
      BY <1>0, <1>2, <1>4, <2>1, SavedString, NilIsNone
  <2>3. CASE account'[u] = account[u] /\ pc'[u] = "failed"
      BY <2>1, <2>2, <2>3 DEF OldValid
  <2>4. CASE ~Refused(u, pc[u]) /\ account'[u] = Altered(u, pc[u])
    <3>1. /\ AuthString(u) \in {account'[u].pw, account'[u].old, NoPassword}
          /\ pc[u] \in {"auth", "discard"} => AuthString(u) \in {account'[u].pw, NoPassword}
        BY <1>0, <1>5, <1>8, <2>1, <2>4, AlteredOld
    <3>2. pc'[u] \in {"auth", "discard", "password"} => pc[u] \in {"auth", "discard"}
        BY <1>0, <1>2, AfterLater DEF Steps
    <3> QED
        BY <2>2, <3>1, <3>2 DEF OldValid, OldCurrent
  <2> QED
      BY <1>2, <2>3, <2>4
<1> QED
    BY <1>0, <1>1, <1>4, <1>7, <1>8 DEF Retained

LEMMA UserKeepsOld ==
    ASSUME RetainsPassword, TypeInv, NEW u \in User, Retained(u), UserStep(u)
    PROVE  Retained(u)'
<1>0. u \in Res /\ pc \in [Res -> PC]
    BY DEF TypeInv, TypeOK, Res
<1>1. CASE UpdateUser(u) \/ UpdateUserFails(u)
  <2>1. CASE plan[u] = "update"
      BY <1>1, <2>1, UpdateKeepsOld
  <2>2. CASE plan[u] # "update"
    <3>1. plan' = plan /\ pc'[u] \in Steps \cup {"done", "failed"}
      <4>1. plan' = plan /\ pc[u] \in Steps /\ pc'[u] \in {After(u, pc[u]), "failed"}
          BY <1>0, <1>1 DEF UpdateUser, UpdateUserFails
      <4> QED
          BY <4>1, AfterLater
    <3> QED
        BY <2>2, <3>1 DEF Retained, Steps
  <2> QED
      BY <2>1, <2>2
<1>2. CASE ~UpdateUser(u) /\ ~UpdateUserFails(u)
  <2>1. /\ pc[u] \in {"create", "create_limits", "create_tls", "drop"} /\ plan' = plan
        /\ \E to \in {"create", "create_limits", "create_tls", "done", "failed"} :
              pc' = [pc EXCEPT ![u] = to]
      BY <1>2 DEF UserStep, CreateUser, CreateUserFails, CreateLimits, CreateLimitsFails, CreateTls,
          CreateTlsFails, DeleteUser, DeleteUserFails, Goto, AfterCreate
  <2>2. plan[u] # "update"
      BY <2>1 DEF Retained, Steps
  <2> QED
      BY <1>0, <2>1, <2>2 DEF Retained
<1> QED
    BY <1>1, <1>2

LEMMA ApplyKeepsOld ==
    ASSUME RetainsPassword, TypeInv, NEW u \in User, Auth(u), Retained(u), StartApply
    PROVE  Retained(u)'
<1>0. /\ TypeOK /\ u \in Res /\ st = [r \in Res |-> st[r]] /\ u \notin Pass
      /\ cfg[u] # Nil => cfg[u] \in Configs[u]
      /\ st[u] # Nil => st[u] \in State
      /\ version \in Nat
    BY UsersAssumption DEF TypeInv, HandlerInv, TypeOK, Res
<1>1. /\ UNCHANGED <<account, version, cfg>> /\ pc[u] = "planned" /\ plan'[u] = PlanOf(u)
      /\ st'[u] = IF PlanOf(u) = "update" /\ Due(u) = {} THEN Saved(u) ELSE st[u]
    BY <1>0 DEF StartApply
<1>2. /\ (ReadsAccount' <=> ReadsAccount) /\ (DualPasswords' <=> DualPasswords)
      /\ (SetElsewhere(u)' <=> SetElsewhere(u)) /\ (DualPasswords => ReadsAccount)
    BY <1>0, <1>1 DEF ReadsAccount, DualPasswords, SetElsewhere
<1>3. pc'[u] = CASE PlanOf(u) = "none" -> "done"
                  [] u \in User /\ PlanOf(u) = "create" -> "create"
                  [] u \in User /\ PlanOf(u) = "update" -> FirstOf(Due(u))
                  [] u \in User /\ PlanOf(u) \in {"delete", "replace"} -> "drop"
                  [] u \in Pass /\ PlanOf(u) \in {"create", "update"} -> "set"
                  [] u \in Pass /\ PlanOf(u) = "delete" -> "forget"
    BY <1>0 DEF StartApply
<1>4. PlanOf(u) \in {"none", "create", "update", "delete", "replace"}
    BY DEF PlanOf
<1>5. CASE PlanOf(u) # "update"
  <2>1. pc'[u] # "planned"
      BY <1>0, <1>3, <1>4, <1>5
  <2> QED
      BY <1>1, <1>5, <2>1 DEF Retained
<1>6. CASE PlanOf(u) = "update"
  <2>1. cfg[u] # Nil /\ st[u] # Nil
      BY <1>6 DEF PlanOf
  <2>2. pc'[u] \in Steps \cup {"done"} /\ pc'[u] # "planned"
    <3>1. pc'[u] = FirstOf(Due(u))
        BY <1>0, <1>3, <1>6
    <3>2. Due(u) \in SUBSET Steps
        BY DEF Due
    <3> QED
        BY <3>1, <3>2, FirstType DEF Steps
  <2>3. Saved(u) \in State
      BY <1>0, <2>1, SavedType, UsersAssumption
  <2>4. st'[u] # Nil /\ (ReadsAccount => account[u] # Nil)
      BY <1>1, <2>1, <2>3, NilIsNone DEF Retained
  <2>5. ASSUME DualPasswords, cfg[u].retain, ~SetElsewhere(u) PROVE OldCurrent(u)'
    <3>1. cfg[u].hash = NoPassword
        BY <1>0, <2>1, <2>5 DEF RetainsPassword
    <3>2. \A f \in Form : st[u].auth[f] \in {NoPassword, account[u].pw}
        BY <1>1, <1>2, <2>1, <2>4, <2>5 DEF Auth, Undisturbed
    <3>3. AuthPlanned(u) = st[u].auth
        BY <2>1, <3>1 DEF AuthPlanned
    <3>4. AuthString(u) \in {NoPassword, account[u].pw}
        BY <3>2, <3>3 DEF AuthString, Form
    <3>5. AuthString(u)' = AuthString(u)
        BY <1>1, <2>1, <2>4, <3>1, SavedString
    <3> QED
        BY <1>1, <3>4, <3>5 DEF OldCurrent
  <2>6. OldCurrent(u)' => OldValid(u)'
      BY DEF OldCurrent, OldValid
  <2> QED
      BY <1>1, <1>2, <2>1, <2>2, <2>4, <2>5, <2>6 DEF Retained
<1> QED
    BY <1>5, <1>6

LEMMA NextKeepsOld ==
    ASSUME RetainsPassword, TypeInv, AuthInv, RetainInv, [Next]_vars
    PROVE  RetainInv'
<1> SUFFICES ASSUME NEW u \in User PROVE Retained(u)'
    BY DEF RetainInv
<1>0. /\ TypeOK /\ u \in Res /\ User \subseteq Res /\ u \notin Pass /\ pc \in [Res -> PC]
      /\ st = [r \in Res |-> st[r]] /\ Retained(u) /\ Auth(u)
    BY UsersAssumption DEF TypeInv, HandlerInv, TypeOK, Res, RetainInv, AuthInv
<1>1. ASSUME NEW v \in User, UserStep(v) PROVE Retained(u)'
  <2>1. CASE v = u
      BY <1>0, <1>1, <2>1, UserKeepsOld
  <2>2. CASE v # u
    <3>1. account'[u] = account[u] /\ st'[u] = st[u] /\ pc'[u] = pc[u]
        BY <1>1, <2>2, UserFrame
    <3>2. UNCHANGED <<version, cfg, plan>>
        BY <1>1 DEF UserStep, CreateUser, CreateUserFails, CreateLimits, CreateLimitsFails, CreateTls,
             CreateTlsFails, UpdateUser, UpdateUserFails, DeleteUser, DeleteUserFails
    <3> QED
        BY <1>0, <3>1, <3>2, RetainedStays
  <2> QED
      BY <2>1, <2>2
<1>2. ASSUME NEW w \in Pass, PassStep(w) PROVE Retained(u)'
  <2>1. /\ st'[u] = st[u] /\ pc'[u] = pc[u] /\ UNCHANGED <<version, cfg, plan>>
        /\ account'[u] = account[u] \/ (SetElsewhere(u) /\ account'[u] # Nil)
      BY <1>2, PasswordFrame
  <2>2. CASE account'[u] = account[u]
      BY <1>0, <2>1, <2>2, RetainedStays
  <2>3. CASE SetElsewhere(u) /\ account'[u] # Nil
      BY <1>0, <2>1, <2>3 DEF Retained, SetElsewhere, ReadsAccount, DualPasswords
  <2> QED
      BY <2>1, <2>2, <2>3
<1>3. ASSUME NEW r \in Res, Refresh(r) PROVE Retained(u)'
  <2>1. /\ UNCHANGED <<account, version, cfg, plan>> /\ pc[r] = "refresh"
        /\ pc' = [pc EXCEPT ![r] = "planned"]
      BY <1>3 DEF Refresh, Goto
  <2>2. PICK f \in Forms : st' = [st EXCEPT ![r] = IF @ = Nil THEN Nil ELSE Read(r, @, f)]
      BY <1>3 DEF Refresh
  <2>3. CASE r # u
    <3>1. st'[u] = st[u] /\ pc'[u] = pc[u]
        BY <1>0, <2>1, <2>2, <2>3
    <3> QED
        BY <1>0, <2>1, <3>1, RetainedStays
  <2>4. CASE r = u
    <3>1. plan'[u] # "update"
        BY <1>0, <2>1, <2>4 DEF Retained, Steps
    <3>2. st'[u] # Nil => st[u] # Nil /\ st'[u] = ReadUser(u, st[u], f)
        BY <1>0, <2>2, <2>4 DEF Read
    <3>3. ReadsAccount /\ st'[u] # Nil => account[u] # Nil
        BY <3>2 DEF ReadUser
    <3> QED
        BY <2>1, <3>1, <3>3 DEF Retained, ReadsAccount
  <2> QED
      BY <2>3, <2>4
<1>4. CASE StartApply
    BY <1>0, <1>4, ApplyKeepsOld
<1>5. CASE NewRun
  <2>1. pc'[u] = "refresh" /\ plan'[u] = "none"
      BY <1>0, <1>5 DEF NewRun
  <2> QED
      BY <2>1 DEF Retained
<1>6. CASE Crash
  <2>1. UNCHANGED <<version, account, cfg, st, plan>> /\ pc'[u] = "failed"
      BY <1>0, <1>6 DEF Crash
  <2>2. CASE plan[u] = "update"
    <3>1. pc[u] \in Steps \cup {"done", "failed"}
        BY <1>0, <2>2 DEF Retained
    <3> QED
        BY <1>0, <2>1, <3>1, RetainedStays
  <2>3. CASE plan[u] # "update"
      BY <2>1, <2>3 DEF Retained
  <2> QED
      BY <2>2, <2>3
<1>7. ASSUME NEW v \in User, ImportUser(v) PROVE Retained(u)'
  <2>1. /\ UNCHANGED <<version, account, cfg, plan, pc>> /\ pc[u] \in {"done", "failed"}
        /\ st[v] = Nil /\ \E new : st' = [st EXCEPT ![v] = new]
      BY <1>0, <1>7 DEF ImportUser, RunEnded
  <2>2. CASE v # u
    <3>1. st'[u] = st[u]
        BY <1>0, <2>1, <2>2
    <3> QED
        BY <1>0, <2>1, <3>1, RetainedStays
  <2>3. CASE v = u
    <3>1. plan'[u] # "update" /\ pc'[u] # "planned"
        BY <1>0, <2>1, <2>3 DEF Retained
    <3> QED
        BY <3>1 DEF Retained
  <2> QED
      BY <2>2, <2>3
<1>8. CASE UNCHANGED vars
    BY <1>0, <1>8, RetainedStays DEF vars
<1> QED
    BY <1>1, <1>2, <1>3, <1>4, <1>5, <1>6, <1>7, <1>8 DEF Next

\* With retain_old_password, the password that was valid when an update began is valid
\* after it, whichever statement is refused, or loses its reply, or is not reached for a
\* crash, if the block has the new password and not its hash, and no other resource sets it.
THEOREM OldPasswordKept == RetainsPassword => (Safe => []OldPasswordWorks)
<1> SUFFICES ASSUME RetainsPassword PROVE Safe => []OldPasswordWorks
    OBVIOUS
<1>1. Init => AuthInv /\ RetainInv
    BY DEF Init, AuthInv, Auth, RetainInv, Retained, Res, Steps
<1>2. TypeInv /\ [Next]_vars => TypeInv'
    BY NextKeepsType
<1>3. TypeInv /\ AuthInv /\ [Next]_vars => AuthInv'
    BY NextKeepsAuth
<1>4. TypeInv /\ AuthInv /\ RetainInv /\ [Next]_vars => RetainInv'
    BY NextKeepsOld
<1>5. RetainInv => OldPasswordWorks
    BY DEF RetainInv, Retained, OldValid, OldPasswordWorks
<1> QED
    BY InitType, <1>1, <1>2, <1>3, <1>4, <1>5, PTL DEF Safe
==============================================================================
