-------------------------------- MODULE Users --------------------------------
(***************************************************************************)
(* The resources mysql_user (mysql/resource_user.go) and                   *)
(* mysql_user_password (mysql/resource_user_password.go): the statements   *)
(* of their handlers, in order, what terraform saves when one of them      *)
(* fails, and what the next refresh reads back from the server.            *)
(*                                                                         *)
(* Every mysql_user is an account of its own; accounts may have one name   *)
(* and differ by the host.  A MySQL server: SHOW CREATE USER has the form  *)
(* ReadUser knows, and there is no MAX_STATEMENT_TIME.  The deprecated     *)
(* password is not modelled.  Authentication strings are the passwords     *)
(* they are hashes of; a block and SHOW CREATE USER have them in one of    *)
(* two forms, as text or in hexadecimal.                                   *)
(***************************************************************************)
EXTENDS Naturals, FiniteSets

CONSTANTS
    User,         \* mysql_user resources, each with an account of the server
    Pass,         \* mysql_user_password resources
    Name,         \* Name[u]: the account's name without its host
    Target,       \* Target[w]: the account whose password w sets
    Secret,       \* passwords, the empty one included
    Generated,    \* passwords that uuid.NewV4 may make
    Tls,          \* tls_option, "" included, which stands for none read
    Configs,      \* Configs[u]: the blocks u may have
    PassConfigs,  \* the blocks of a mysql_user_password
    Casts,        \* sets of resources: a configuration has blocks for those of one of them
    Depends,      \* TRUE: a password's block refers to its user's block
    Versions,     \* 10000 * major + 100 * minor + patch
    Faults,       \* the kinds of failure that may happen, each once
    MaxFaults, MaxEdits,
    Nil

NoPassword == ""

Block == [aad : BOOLEAN, pw : Secret, wo : Secret, wov : Nat, hash : Secret, hex : BOOLEAN,
          tls : Tls, limit : Nat, retain : BOOLEAN, discard : BOOLEAN]

Account == [aad : BOOLEAN, pw : Secret, old : Secret, tls : Tls, limit : Nat]

\* auth: auth_string_hashed and auth_string_hex; pw: the SHA-256 sum of plaintext_password
Form == {"text", "hex"}
State == [aad : BOOLEAN, pw : Secret, wov : Nat, auth : [Form -> Secret], tls : Tls,
          limit : Nat, retain : BOOLEAN, discard : BOOLEAN, tainted : BOOLEAN]

NoAuth == [f \in Form |-> NoPassword]

\* Mutant: another attribute keeps what an earlier refresh read.
AuthKeeps(s, f, p) == [s.auth EXCEPT ![f] = p]

\* ReadUser sets the attribute of the form in which SHOW CREATE USER has the string,
\* and empties the other one.
AuthRead(s, f, p) == [NoAuth EXCEPT ![f] = p]

PassBlock == [pw : Secret, retain : BOOLEAN]

\* What the schema lets a block combine, and what an AAD user is made of.
Consistent(c) ==
    /\ Cardinality({f \in {"pw", "wo", "hash"} : c[f] # NoPassword}) <= 1
    /\ (c.wo # NoPassword) = (c.wov # 0)
    /\ c.aad => c.pw = NoPassword /\ c.wo = NoPassword /\ c.hash = NoPassword /\ c.limit = 0
    /\ c.tls # ""

ASSUME UsersAssumption ==
    /\ User \cap Pass = {} /\ Nil \notin User \cup Pass
    /\ NoPassword \in Secret /\ Generated \subseteq Secret \ {NoPassword}
    /\ {"", "NONE"} \subseteq Tls
    /\ Target \in [Pass -> User]
    /\ \A u \in User : Configs[u] \subseteq Block /\ \A c \in Configs[u] : Consistent(c)
    /\ PassConfigs \subseteq PassBlock
    /\ Nil \notin Block \cup State \cup Account \cup PassBlock \cup Secret
    /\ Casts \subseteq SUBSET (User \cup Pass)
    /\ Versions \subseteq Nat /\ MaxFaults \in Nat /\ MaxEdits \in Nat
    /\ Depends \in BOOLEAN

Res == User \cup Pass

VARIABLES
    version,  \* the server's
    account,  \* account[u]: the account of u on the server, Nil when there is none
    cfg,      \* cfg[r]: the configuration's block for r, or Nil
    st,       \* st[r]: terraform's state of r, or Nil
    plan, pc, \* of every resource, in the current run of terraform
    edits, faults

vars == <<version, account, cfg, st, plan, pc, edits, faults>>

------------------------------------------------------------------------------
(* What depends on the version *)

ReadsAccount == version > 50700          \* ReadUser, and tls_option of Create and Update
LimitsWithCreate == version >= 50706
PasswordUnread == version >= 80000       \* canReadPassword
DualPasswords == version >= 80014        \* checkRetainCurrentPasswordSupport, checkDiscard...

\* print_identified_with_as_hex came with 8.0.17.  ReadUser sets it on one connection of
\* the pool; SHOW CREATE USER may run on another one, and a string that is printable stays text.
Forms == IF version >= 80017 THEN Form ELSE {"text"}

------------------------------------------------------------------------------
(* ReadUser and ReadUserPassword, of a resource in the state *)

\* Mutant: tls_option is not read.
RefreshedNoTls(u, s, f) ==
    [s EXCEPT !.auth = IF account[u].aad THEN @ ELSE AuthRead(s, f, account[u].pw),
              !.limit = IF @ # 0 /\ account[u].limit # 0 THEN account[u].limit ELSE @]

\* A limit is read only if the state has one and SHOW CREATE USER prints one,
\* which it does of limits other than 0.
Refreshed(u, s, f) ==
    [s EXCEPT !.auth = IF account[u].aad THEN @ ELSE AuthRead(s, f, account[u].pw),
              !.tls = account[u].tls,
              !.limit = IF @ # 0 /\ account[u].limit # 0 THEN account[u].limit ELSE @]

\* Before 5.7.1 only the name is looked for, with any host.
ReadUser(u, s, f) ==
    IF ReadsAccount
    THEN IF account[u] = Nil THEN Nil ELSE Refreshed(u, s, f)
    ELSE IF \E v \in User : Name[v] = Name[u] /\ account[v] # Nil THEN s ELSE Nil

\* The columns are scanned into each other's variables: whatever the comparison of
\* the passwords gave, it is no "mysql_native_password", and the password is fine.
ReadUserPassword(w, s) ==
    IF ~PasswordUnread /\ account[Target[w]] = Nil THEN Nil ELSE s

Read(r, s, f) == IF r \in User THEN ReadUser(r, s, f) ELSE ReadUserPassword(r, s)

------------------------------------------------------------------------------
(* The statement that sets a password: getSetPasswordStatement *)

\* Two passwords need a server that has them, and neither may be empty.
CanSetPassword(a, new, retain) ==
    a # Nil /\ (retain => DualPasswords /\ new # NoPassword /\ a.pw # NoPassword)

SetPassword(a, new, retain) ==
    [a EXCEPT !.pw = new, !.old = IF retain THEN a.pw ELSE @]

------------------------------------------------------------------------------
(* UpdateUser: what is due, and what the statements do *)

TlsChanged(u) == cfg[u].tls # st[u].tls

\* The form of the block's authentication string
FormOf(c) == IF c.hex THEN "hex" ELSE "text"

\* An empty auth_string_hashed or auth_string_hex of the block is no change: DiffSuppressFunc.
AuthChanged(u) == cfg[u].hash # NoPassword /\ cfg[u].hash # st[u].auth[FormOf(cfg[u])]

\* The planned values of both attributes
AuthPlanned(u) ==
    LET old == IF st[u] # Nil THEN st[u].auth ELSE NoAuth
    IN IF cfg[u].hash = NoPassword THEN old ELSE [old EXCEPT ![FormOf(cfg[u])] = cfg[u].hash]

\* auth_string_hashed comes first, be it the block's or the state's.
AuthString(u) == IF AuthPlanned(u)["text"] # NoPassword THEN AuthPlanned(u)["text"]
                 ELSE AuthPlanned(u)["hex"]

\* auth_plugin is in the block, or ReadUser has put it in the state.
AuthPlugin(u) == ReadsAccount \/ cfg[u].aad \/ cfg[u].hash # NoPassword

\* Mutant: d.GetChange's values are mixed up.
NewPasswordOld(u) ==
    IF cfg[u].wov # st[u].wov THEN cfg[u].wo
    ELSE IF cfg[u].pw # st[u].pw THEN st[u].pw ELSE Nil

\* newpw: a changed password_wo_version comes last, and takes password_wo
\* whether the block has one or not.
NewPassword(u) ==
    IF cfg[u].wov # st[u].wov THEN cfg[u].wo
    ELSE IF cfg[u].pw # st[u].pw THEN cfg[u].pw ELSE Nil

Steps == {"auth", "discard", "password", "tls", "limits"}

\* Mutant: the old password is discarded after the password was changed.
OrderDiscardLast == [auth |-> 1, password |-> 2, discard |-> 3, tls |-> 4, limits |-> 5]

Order == [auth |-> 1, discard |-> 2, password |-> 3, tls |-> 4, limits |-> 5]

\* Mutant: newpw is not compared with nil.
DuePassword(u) ==
    {s \in Steps :
        CASE s = "auth"     -> AuthPlugin(u) /\ (TlsChanged(u) \/ AuthChanged(u))
          [] s = "discard"  -> cfg[u].discard
          [] s = "password" -> TRUE
          [] s = "tls"      -> TlsChanged(u) /\ ReadsAccount
          [] s = "limits"   -> cfg[u].limit # st[u].limit}

\* retain_old_password is checked even if the password stays.
Due(u) ==
    {s \in Steps :
        CASE s = "auth"     -> AuthPlugin(u) /\ (TlsChanged(u) \/ AuthChanged(u))
          [] s = "discard"  -> cfg[u].discard
          [] s = "password" -> NewPassword(u) # Nil \/ (cfg[u].retain /\ ~DualPasswords)
          [] s = "tls"      -> TlsChanged(u) /\ ReadsAccount
          [] s = "limits"   -> cfg[u].limit # st[u].limit}

FirstOf(S) == IF S = {} THEN "done" ELSE CHOOSE s \in S : \A t \in S : Order[s] <= Order[t]

After(u, s) == FirstOf({t \in Due(u) : Order[t] > Order[s]})

\* The server has no such account, or no two passwords; or the check fails.
Refused(u, s) ==
    \/ account[u] = Nil
    \/ s = "discard" /\ ~DualPasswords
    \/ s = "password" /\ ~CanSetPassword(account[u], NewPassword(u), cfg[u].retain)

\* "ALTER USER ... IDENTIFIED WITH ... AS ... REQUIRE ..." repeats the authentication
\* string of the state when the block has none.
Altered(u, s) ==
    CASE s = "auth"     -> [account[u] EXCEPT
                              !.tls = cfg[u].tls,
                              !.pw = IF AuthString(u) # NoPassword THEN AuthString(u) ELSE @]
      [] s = "discard"  -> [account[u] EXCEPT !.old = NoPassword]
      [] s = "password" -> SetPassword(account[u], NewPassword(u), cfg[u].retain)
      [] s = "tls"      -> [account[u] EXCEPT !.tls = cfg[u].tls]
      [] s = "limits"   -> [account[u] EXCEPT !.limit = cfg[u].limit]

\* What the state has after a handler that set or kept the id, failed or not.
Saved(u) ==
    [aad |-> cfg[u].aad, pw |-> cfg[u].pw, wov |-> cfg[u].wov,
     auth |-> AuthPlanned(u),
     tls |-> cfg[u].tls, limit |-> cfg[u].limit,
     retain |-> cfg[u].retain, discard |-> cfg[u].discard, tainted |-> FALSE]

------------------------------------------------------------------------------
PC == Steps \cup {"refresh", "planned", "create", "create_limits", "create_tls", "drop",
                  "set", "forget", "done", "failed"}

TypeOK ==
    /\ version \in Versions
    /\ account \in [User -> Account \cup {Nil}]
    /\ \A u \in User : cfg[u] \in Configs[u] \cup {Nil} /\ st[u] \in State \cup {Nil}
    /\ \A w \in Pass : cfg[w] \in PassConfigs \cup {Nil} /\ st[w] \in PassBlock \cup {Nil}
    /\ plan \in [Res -> {"none", "create", "update", "delete", "replace"}]
    /\ pc \in [Res -> PC]
    /\ edits \in 0 .. MaxEdits
    /\ faults \in SUBSET Faults

\* A block that refers to another block needs it.
ValidConfig(c) ==
    /\ \A u \in User : c[u] \in Configs[u] \cup {Nil}
    /\ \A w \in Pass : c[w] \in PassConfigs \cup {Nil}
    /\ \E cast \in Casts : \A r \in Res \ cast : c[r] = Nil
    /\ Depends => \A w \in Pass : c[w] # Nil => c[Target[w]] # Nil

Init ==
    /\ version \in Versions
    /\ account = [u \in User |-> Nil]
    /\ cfg \in {c \in [Res -> UNION {Configs[u] : u \in User} \cup PassConfigs \cup {Nil}] :
                    ValidConfig(c)}
    /\ st = [r \in Res |-> Nil]
    /\ plan = [r \in Res |-> "none"]
    /\ pc = [r \in Res |-> "refresh"]
    /\ edits = 0
    /\ faults = {}

Fault(kind) == /\ kind \in Faults \ faults
               /\ Cardinality(faults) < MaxFaults
               /\ faults' = faults \cup {kind}

Goto(r, from, to) == pc[r] = from /\ pc' = [pc EXCEPT ![r] = to]

\* A statement that the server refuses for no reason of its own, or that it runs
\* although its reply does not arrive.
Fails(u, refused, new) ==
    \/ refused /\ UNCHANGED <<account, faults>>
    \/ Fault("rejected") /\ UNCHANGED account
    \/ ~refused /\ Fault("lost") /\ account' = [account EXCEPT ![u] = new]

------------------------------------------------------------------------------
(* Refresh and plan *)

Refresh(r) ==
    /\ Goto(r, "refresh", "planned")
    /\ \E f \in Forms : st' = [st EXCEPT ![r] = IF @ = Nil THEN Nil ELSE Read(r, @, f)]
    /\ UNCHANGED <<version, account, cfg, plan, edits, faults>>

\* aad_identity is ForceNew.
Changed(u) ==
    \/ cfg[u].pw # st[u].pw \/ cfg[u].wov # st[u].wov \/ AuthChanged(u) \/ TlsChanged(u)
    \/ cfg[u].limit # st[u].limit \/ cfg[u].retain # st[u].retain
    \/ cfg[u].discard # st[u].discard

PlanOf(r) ==
    IF cfg[r] = Nil THEN IF st[r] = Nil THEN "none" ELSE "delete"
    ELSE IF st[r] = Nil THEN "create"
    ELSE IF r \in Pass THEN IF cfg[r] # st[r] THEN "update" ELSE "none"
    ELSE IF st[r].tainted \/ st[r].aad # cfg[r].aad THEN "replace"
    ELSE IF Changed(r) THEN "update" ELSE "none"

\* An update in which nothing is due saves the planned values at once.
StartApply ==
    /\ \A r \in Res : pc[r] = "planned"
    /\ plan' = [r \in Res |-> PlanOf(r)]
    /\ pc' = [r \in Res |->
                CASE PlanOf(r) = "none" -> "done"
                  [] r \in User /\ PlanOf(r) = "create" -> "create"
                  [] r \in User /\ PlanOf(r) = "update" -> FirstOf(Due(r))
                  [] r \in User /\ PlanOf(r) \in {"delete", "replace"} -> "drop"
                  [] r \in Pass /\ PlanOf(r) \in {"create", "update"} -> "set"
                  [] r \in Pass /\ PlanOf(r) = "delete" -> "forget"]
    /\ st' = [r \in Res |-> IF r \in User /\ PlanOf(r) = "update" /\ Due(r) = {}
                            THEN Saved(r) ELSE st[r]]
    /\ UNCHANGED <<version, account, cfg, edits, faults>>

------------------------------------------------------------------------------
(* CreateUser *)

\* password_wo, or the authentication string, or plaintext_password
Declared(u) == IF cfg[u].wo # NoPassword THEN cfg[u].wo
               ELSE IF cfg[u].hash # NoPassword THEN cfg[u].hash ELSE cfg[u].pw

NewAccount(u) ==
    [aad   |-> cfg[u].aad,
     pw    |-> Declared(u),
     old   |-> NoPassword,
     tls   |-> IF ReadsAccount /\ ~cfg[u].aad THEN cfg[u].tls ELSE "NONE",
     limit |-> IF LimitsWithCreate /\ ~cfg[u].aad THEN cfg[u].limit ELSE 0]

AfterCreate(u) ==
    IF ~cfg[u].aad /\ cfg[u].limit # 0 /\ ~LimitsWithCreate THEN "create_limits"
    ELSE IF cfg[u].aad /\ ReadsAccount THEN "create_tls" ELSE "done"

CreateUser(u) ==
    /\ Goto(u, "create", AfterCreate(u))
    /\ account[u] = Nil
    /\ account' = [account EXCEPT ![u] = NewAccount(u)]
    /\ st' = [st EXCEPT ![u] = IF AfterCreate(u) = "done" THEN Saved(u) ELSE Nil]
    /\ UNCHANGED <<version, cfg, plan, edits, faults>>

\* The server has the account already, or the statement fails.
CreateUserFails(u) ==
    /\ Goto(u, "create", "failed")
    /\ Fails(u, account[u] # Nil, NewAccount(u))
    /\ UNCHANGED <<version, cfg, st, plan, edits>>

\* GRANT USAGE ... WITH, before 5.7.6; the id is set after it.
CreateLimits(u) ==
    /\ Goto(u, "create_limits", "done")
    /\ account' = [account EXCEPT ![u].limit = cfg[u].limit]
    /\ st' = [st EXCEPT ![u] = Saved(u)]
    /\ UNCHANGED <<version, cfg, plan, edits, faults>>

CreateLimitsFails(u) ==
    /\ Goto(u, "create_limits", "failed")
    /\ Fails(u, FALSE, [account[u] EXCEPT !.limit = cfg[u].limit])
    /\ UNCHANGED <<version, cfg, st, plan, edits>>

\* ALTER USER ... REQUIRE of an AAD user; the id is set before it.
CreateTls(u) ==
    /\ Goto(u, "create_tls", "done")
    /\ account' = [account EXCEPT ![u].tls = cfg[u].tls]
    /\ st' = [st EXCEPT ![u] = Saved(u)]
    /\ UNCHANGED <<version, cfg, plan, edits, faults>>

\* Mutant: the id is set after the second statement.
CreateTlsFailsNoId(u) ==
    /\ Goto(u, "create_tls", "failed")
    /\ Fails(u, FALSE, [account[u] EXCEPT !.tls = cfg[u].tls])
    /\ UNCHANGED <<version, cfg, st, plan, edits>>

CreateTlsFails(u) ==
    /\ Goto(u, "create_tls", "failed")
    /\ Fails(u, FALSE, [account[u] EXCEPT !.tls = cfg[u].tls])
    /\ st' = [st EXCEPT ![u] = [Saved(u) EXCEPT !.tls = "", !.tainted = TRUE]]
    /\ UNCHANGED <<version, cfg, plan, edits>>

------------------------------------------------------------------------------
(* UpdateUser and DeleteUser *)

UpdateUser(u) ==
    /\ pc[u] \in Steps
    /\ ~Refused(u, pc[u])
    /\ account' = [account EXCEPT ![u] = Altered(u, pc[u])]
    /\ pc' = [pc EXCEPT ![u] = After(u, pc[u])]
    /\ st' = IF After(u, pc[u]) = "done" THEN [st EXCEPT ![u] = Saved(u)] ELSE st
    /\ UNCHANGED <<version, cfg, plan, edits, faults>>

\* The SDK saves the planned values although the handler returns an error.
UpdateUserFails(u) ==
    /\ pc[u] \in Steps
    /\ Fails(u, Refused(u, pc[u]), Altered(u, pc[u]))
    /\ pc' = [pc EXCEPT ![u] = "failed"]
    /\ st' = [st EXCEPT ![u] = Saved(u)]
    /\ UNCHANGED <<version, cfg, plan, edits>>

DeleteUser(u) ==
    /\ Goto(u, "drop", IF plan[u] = "replace" THEN "create" ELSE "done")
    /\ account[u] # Nil
    /\ account' = [account EXCEPT ![u] = Nil]
    /\ st' = [st EXCEPT ![u] = Nil]
    /\ UNCHANGED <<version, cfg, plan, edits, faults>>

\* DROP USER of an account that is gone is an error.
DeleteUserFails(u) ==
    /\ Goto(u, "drop", "failed")
    /\ Fails(u, account[u] = Nil, Nil)
    /\ UNCHANGED <<version, cfg, st, plan, edits>>

------------------------------------------------------------------------------
(* SetUserPassword, of Create and Update, and DeleteUserPassword *)

\* A block that refers to its user waits until that user is done.
MayStart(w) == Depends => pc[Target[w]] = "done"

\* Without a password in the block a new one is made, and goes to the state.
PasswordOf(w, p) == IF cfg[w].pw # NoPassword THEN p = cfg[w].pw ELSE p \in Generated

PassSaved(w, p) == [cfg[w] EXCEPT !.pw = p]

SetUserPassword(w) ==
    LET u == Target[w] IN
    /\ Goto(w, "set", "done")
    /\ MayStart(w)
    /\ \E p \in Secret :
          /\ PasswordOf(w, p)
          /\ CanSetPassword(account[u], p, cfg[w].retain)
          /\ account' = [account EXCEPT ![u] = SetPassword(account[u], p, cfg[w].retain)]
          /\ st' = [st EXCEPT ![w] = PassSaved(w, p)]
    /\ UNCHANGED <<version, cfg, plan, edits, faults>>

\* An update that fails saves the password, a create that fails has no id.
SetUserPasswordFails(w) ==
    LET u == Target[w] IN
    /\ Goto(w, "set", "failed")
    /\ MayStart(w)
    /\ \E p \in Secret :
          /\ PasswordOf(w, p)
          /\ Fails(u, ~CanSetPassword(account[u], p, cfg[w].retain),
                   SetPassword(account[u], p, cfg[w].retain))
          /\ st' = [st EXCEPT ![w] = IF plan[w] = "update" THEN PassSaved(w, p) ELSE Nil]
    /\ UNCHANGED <<version, cfg, plan, edits>>

\* Terraform does not start what depends on a resource that failed.
Skip(w) ==
    /\ Goto(w, "set", "failed")
    /\ Depends /\ pc[Target[w]] = "failed"
    /\ UNCHANGED <<version, account, cfg, st, plan, edits, faults>>

DeleteUserPassword(w) ==
    /\ Goto(w, "forget", "done")
    /\ st' = [st EXCEPT ![w] = Nil]
    /\ UNCHANGED <<version, account, cfg, plan, edits, faults>>

------------------------------------------------------------------------------
RunEnded == \A r \in Res : pc[r] \in {"done", "failed"}

\* The provider's process dies; the state keeps what it had of the resources at work.
Crash ==
    /\ ~RunEnded /\ \A r \in Res : pc[r] \notin {"refresh", "planned"}
    /\ Fault("crash")
    /\ pc' = [r \in Res |-> "failed"]
    /\ UNCHANGED <<version, account, cfg, st, plan, edits>>

NewRun ==
    /\ RunEnded
    /\ pc' = [r \in Res |-> "refresh"]
    /\ plan' = [r \in Res |-> "none"]
    /\ \/ UNCHANGED <<cfg, edits>>
       \/ /\ edits < MaxEdits
          /\ edits' = edits + 1
          /\ \E r \in Res : \E c \in (IF r \in User THEN Configs[r] ELSE PassConfigs) \cup {Nil} :
                /\ cfg' = [cfg EXCEPT ![r] = c]
                /\ ValidConfig(cfg')
    /\ UNCHANGED <<version, account, st, faults>>

\* What ImportUser makes for ReadUser, which finds aad_identity in the account
Imported(u) == [aad |-> ReadsAccount /\ account[u] # Nil /\ account[u].aad, pw |-> NoPassword,
                wov |-> 0, auth |-> NoAuth, tls |-> "", limit |-> 0, retain |-> FALSE,
                discard |-> FALSE, tainted |-> FALSE]

\* terraform import of an account that a block describes
ImportUser(u) ==
    /\ RunEnded
    /\ cfg[u] # Nil /\ st[u] = Nil
    /\ edits < MaxEdits /\ edits' = edits + 1
    /\ \E f \in Forms : /\ Read(u, Imported(u), f) # Nil
                        /\ st' = [st EXCEPT ![u] = Read(u, Imported(u), f)]
    /\ UNCHANGED <<version, account, cfg, plan, pc, faults>>

UserStep(u) == \/ CreateUser(u) \/ CreateUserFails(u) \/ CreateLimits(u) \/ CreateLimitsFails(u)
               \/ CreateTls(u) \/ CreateTlsFails(u) \/ UpdateUser(u) \/ UpdateUserFails(u)
               \/ DeleteUser(u) \/ DeleteUserFails(u)

PassStep(w) == SetUserPassword(w) \/ SetUserPasswordFails(w) \/ Skip(w) \/ DeleteUserPassword(w)

Next == \/ StartApply \/ NewRun \/ Crash
        \/ \E r \in Res : Refresh(r)
        \/ \E u \in User : UserStep(u) \/ ImportUser(u)
        \/ \E w \in Pass : PassStep(w)

Safe == Init /\ [][Next]_vars

\* Statements end, and terraform goes on and is run again.
Spec == Safe /\ WF_vars(StartApply) /\ WF_vars(NewRun)
             /\ \A r \in Res : WF_vars(Refresh(r))
             /\ \A u \in User : WF_vars(UserStep(u))
             /\ \A w \in Pass : WF_vars(PassStep(w))

------------------------------------------------------------------------------
(* Properties *)

SetElsewhere(u) == \E w \in Pass : Target[w] = u /\ cfg[w] # Nil

\* The block has an auth_string_hex and the last refresh has found text, which wins.
Overridden(u) == cfg[u].hex /\ st[u].auth["text"] # NoPassword

\* On servers with two passwords, and while nothing fails, an account has after a run
\* the password that its block declares, or the password that the state of its
\* mysql_user_password has: nothing that UpdateUser does on the way undoes it.  But an
\* auth_string_hex is not applied to an account that SHOW CREATE USER has printed as text.
PasswordIsDeclared ==
    RunEnded /\ faults = {} /\ DualPasswords =>
        /\ \A u \in User : st[u] # Nil /\ cfg[u] # Nil /\ ~SetElsewhere(u) =>
               Declared(u) = NoPassword \/ Overridden(u) \/ account[u].pw = Declared(u)
        /\ \A w \in Pass : st[w] # Nil /\ account[Target[w]] # Nil =>
                                account[Target[w]].pw = st[w].pw

\* With retain_old_password the password that was valid when the run began (it was
\* read then) is valid after it, whatever else the update does, whichever step fails.
OldPasswordWorks ==
    \A u \in User :
        RunEnded /\ plan[u] = "update" /\ DualPasswords /\ cfg[u].retain /\ ~SetElsewhere(u) =>
            AuthString(u) \in {account[u].pw, account[u].old, NoPassword}

\* An update that is not about the password leaves the password as it is on the
\* server, although it writes the authentication string that the refresh had read.
PasswordStays ==
    [][\A u \in User :
          pc[u] \in Steps /\ pc'[u] # pc[u] /\ NewPassword(u) = Nil /\ cfg[u].hash = NoPassword
          /\ account[u] # Nil =>
              account'[u].pw = account[u].pw]_vars

\* From 5.7.6 on, statements that the server refuses never leave an account of which
\* the state knows nothing, nor a state without an account.
NoOrphan ==
    RunEnded /\ LimitsWithCreate /\ faults \subseteq {"rejected"} =>
        \A u \in User : account[u] = Nil <=> st[u] = Nil

Applied(u) ==
    IF cfg[u] = Nil THEN account[u] = Nil /\ st[u] = Nil
    ELSE account[u] # Nil /\ st[u] # Nil /\ account[u].tls = cfg[u].tls

\* From 5.7.6 on, after statements were refused, repeated runs of terraform make the
\* accounts exist or not, and require of clients, what the configuration says.
TlsConverges ==
    <>[](LimitsWithCreate /\ faults \subseteq {"rejected"} => \A u \in User : Applied(u))
==============================================================================
