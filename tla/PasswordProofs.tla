---------------------------- MODULE PasswordProofs ----------------------------
(* A proof about Users: which password an account has after a run, on servers   *)
(* with two passwords and while nothing fails, for any accounts, passwords,     *)
(* versions and numbers of runs and edits.                                      *)
EXTENDS UsersProofs, FiniteSetTheorems

Targeted(u) == \E w \in Pass : Target[w] = u

Declares(c) == c.pw # NoPassword \/ c.wo # NoPassword \/ c.hash # NoPassword

\* The blocks that one resource may have declare the password in ways that can follow one
\* another: a version stands for one password; password_wo is not given up for another
\* attribute, nor plaintext_password for auth_string_hashed, since UpdateUser then takes
\* the attribute that is gone for the new password; and with retain_old_password there is
\* always a password.
OneWay ==
    \A u \in User : \A c, d \in Configs[u] :
        /\ c.wov = d.wov => c.wo = d.wo
        /\ c.pw # NoPassword \/ c.hash # NoPassword => d.wov = 0
        /\ c.hash # NoPassword => d.pw = NoPassword
        /\ d.retain => Declares(c) \/ Targeted(u)

\* A mysql_user_password is the only one of its account, refers to the account's block,
\* and that block neither declares a password nor becomes one of an AAD user.
PassAlone ==
    /\ Depends
    /\ \A w, x \in Pass : Target[w] = Target[x] => w = x
    /\ \A w \in Pass : \A c, d \in Configs[Target[w]] : ~Declares(c) /\ c.aad = d.aad

Undamaged == DualPasswords /\ faults = {}

------------------------------------------------------------------------------
(* What a block, a state and a password have to do with one another *)

\* The state s of u knows of the password that it is p.
Remembers(u, s, p) ==
    /\ s.wov # 0 => \E d \in Configs[u] : d.wov = s.wov /\ p = d.wo
    /\ s.pw # NoPassword => p = s.pw /\ \E d \in Configs[u] : d.pw = s.pw

\* The authentication string of the block c is p, but for one that SHOW CREATE USER has
\* printed in the other form.
HashMet(c, s, p) == c.hash # NoPassword => (c.hex /\ s.auth["text"] # NoPassword) \/ p = c.hash

Meets(c, s, p) == /\ c.wo # NoPassword => p = c.wo
                  /\ c.pw # NoPassword => p = c.pw
                  /\ HashMet(c, s, p)

\* An account that only its mysql_user sets the password of: the state remembers the
\* password until the statement that sets it, and it is the block's from then on.
Own(u) ==
    /\ st[u] # Nil /\ pc[u] \notin {"tls", "limits"} => Remembers(u, st[u], account[u].pw)
    /\ pc[u] \in Steps \ {"auth"} => HashMet(cfg[u], st[u], account[u].pw)
    /\ pc[u] \in {"tls", "limits"} => Meets(cfg[u], st[u], account[u].pw)
    /\ pc[u] \in {"done", "failed"} /\ cfg[u] # Nil /\ st[u] # Nil =>
          Meets(cfg[u], st[u], account[u].pw)
    /\ pc[u] = "create_tls" => cfg[u].aad
    /\ (\E c \in Configs[u] : c.retain) /\ account[u] # Nil => account[u].pw # NoPassword

\* The state of a user has nothing that its handlers would make a password of.
Bare(u) ==
    st[u] # Nil => /\ st[u].pw = NoPassword /\ st[u].wov = 0 /\ ~st[u].tainted
                   /\ \A c \in Configs[u] : c.aad = st[u].aad

\* An account whose password w sets: it goes away only with w, and comes without it.
Set(w) ==
    /\ Bare(Target[w])
    /\ cfg[w] # Nil => cfg[Target[w]] # Nil
    /\ st[w] # Nil => st[w].pw # NoPassword
    /\ st[w] # Nil /\ account[Target[w]] # Nil => account[Target[w]].pw = st[w].pw
    /\ account[Target[w]] = Nil => st[w] = Nil \/ pc[w] = "forget"
    /\ pc[Target[w]] = "drop" => plan[Target[w]] = "delete" /\ (st[w] = Nil \/ pc[w] = "forget")
    /\ pc[Target[w]] = "create" => st[w] = Nil
    /\ pc[w] = "set" /\ plan[w] = "update" => st[w] # Nil

PassInv ==
    Undamaged => /\ \A u \in User : ~Targeted(u) => Own(u)
                 /\ \A w \in Pass : Set(w)

------------------------------------------------------------------------------
(* Blocks *)

LEMMA Pair ==
    ASSUME NEW a, NEW b, a # b
    PROVE  IsFiniteSet({a, b}) /\ Cardinality({a, b}) = 2
<1>1. IsFiniteSet({}) /\ Cardinality({}) = 0
    BY FS_EmptySet
<1>2. IsFiniteSet({} \cup {a}) /\ Cardinality({} \cup {a}) = 1
    BY <1>1, FS_AddElement
<1>3. {} \cup {a} = {a} /\ {a} \cup {b} = {a, b}
    OBVIOUS
<1>4. IsFiniteSet({a} \cup {b}) /\ Cardinality({a} \cup {b}) = 2
    BY <1>2, <1>3, FS_AddElement
<1> QED
    BY <1>3, <1>4

LEMMA Consistency ==
    ASSUME NEW u \in User, NEW c \in Configs[u]
    PROVE  /\ c \in Block
           /\ c.wo # NoPassword => c.pw = NoPassword /\ c.hash = NoPassword
           /\ c.pw # NoPassword => c.hash = NoPassword
           /\ c.wo # NoPassword <=> c.wov # 0
           /\ c.aad => ~Declares(c)
<1>1. c \in Block /\ Consistent(c)
    BY UsersAssumption
<1>2. (c.wo # NoPassword <=> c.wov # 0) /\ (c.aad => ~Declares(c))
    BY <1>1 DEF Consistent, Declares
<1> DEFINE S == {f \in {"pw", "wo", "hash"} : c[f] # NoPassword}
<1>3. Cardinality(S) <= 1 /\ IsFiniteSet(S)
  <2>1. IsFiniteSet({"pw", "wo", "hash"})
    <3>1. IsFiniteSet({"pw", "wo"} \cup {"hash"})
        BY Pair, FS_AddElement
    <3>2. {"pw", "wo"} \cup {"hash"} = {"pw", "wo", "hash"}
        OBVIOUS
    <3> QED
        BY <3>1, <3>2
  <2> QED
      BY <1>1, <2>1, FS_Subset DEF Consistent
<1>4. \A f, g \in S : f = g
  <2> SUFFICES ASSUME NEW f \in S, NEW g \in S, f # g PROVE FALSE
      OBVIOUS
  <2> HIDE DEF S
  <2>1. {f, g} \subseteq S
      OBVIOUS
  <2>2. Cardinality({f, g}) <= Cardinality(S) /\ Cardinality(S) \in Nat
      BY <1>3, <2>1, FS_Subset, FS_CardinalityType
  <2>3. Cardinality({f, g}) = 2
      BY Pair
  <2> QED
      BY <1>3, <2>2, <2>3
<1>5. /\ c.wo # NoPassword => "wo" \in S
      /\ c.pw # NoPassword => "pw" \in S
      /\ c.hash # NoPassword => "hash" \in S
    OBVIOUS
<1> HIDE DEF S
<1> QED
    BY <1>1, <1>2, <1>4, <1>5

------------------------------------------------------------------------------
(* The statements of an update *)

LEMMA FirstLeast ==
    ASSUME NEW S \in SUBSET Steps, NEW x \in S
    PROVE  FirstOf(S) \in S /\ Order[FirstOf(S)] <= Order[x]
<1>1. \E s \in S : \A t \in S : Order[s] <= Order[t]
    BY HasFirst
<1>2. FirstOf(S) = CHOOSE s \in S : \A t \in S : Order[s] <= Order[t]
    BY DEF FirstOf
<1> QED
    BY <1>1, <1>2

\* Nothing that is due is passed over.
LEMMA PassedOver ==
    ASSUME NEW u \in User
    PROVE  /\ FirstOf(Due(u)) # "auth" => "auth" \notin Due(u)
           /\ FirstOf(Due(u)) \in {"tls", "limits", "done"} => "password" \notin Due(u)
           /\ \A s \in {"auth", "discard"} :
                 After(u, s) \in {"tls", "limits", "done"} => "password" \notin Due(u)
<1>0. /\ Order["auth"] = 1 /\ Order["discard"] = 2 /\ Order["password"] = 3
      /\ Order["tls"] = 4 /\ Order["limits"] = 5
      /\ \A s \in Steps : Order[s] \in 1 .. 5 /\ (Order[s] = 1 => s = "auth") /\ s # "done"
    BY DEF Order, Steps
<1>1. Due(u) \in SUBSET Steps
    BY DEF Due
<1>2. ASSUME "auth" \in Due(u) PROVE FirstOf(Due(u)) = "auth"
  <2>1. FirstOf(Due(u)) \in Steps /\ Order[FirstOf(Due(u))] <= 1
      BY <1>0, <1>1, <1>2, FirstLeast
  <2> QED
      BY <1>0, <2>1
<1>3. ASSUME "password" \in Due(u) PROVE FirstOf(Due(u)) \notin {"tls", "limits", "done"}
  <2>1. FirstOf(Due(u)) \in Steps /\ Order[FirstOf(Due(u))] <= 3
      BY <1>0, <1>1, <1>3, FirstLeast
  <2> QED
      BY <1>0, <2>1
<1>4. ASSUME "password" \in Due(u), NEW s \in {"auth", "discard"}
      PROVE  After(u, s) \notin {"tls", "limits", "done"}
  <2> DEFINE S == {t \in Due(u) : Order[t] > Order[s]}
  <2>1. S \in SUBSET Steps /\ "password" \in S
      BY <1>0, <1>1, <1>4
  <2>2. After(u, s) = FirstOf(S)
      BY DEF After
  <2> HIDE DEF S
  <2>3. After(u, s) \in Steps /\ Order[After(u, s)] <= 3
      BY <1>0, <2>1, <2>2, FirstLeast
  <2> QED
      BY <1>0, <2>3
<1> QED
    BY <1>2, <1>3, <1>4

LEMMA BlockHas ==
    ASSUME TypeOK, NEW u \in User, cfg[u] # Nil
    PROVE  /\ cfg[u] \in Configs[u] /\ cfg[u].wo # Nil /\ cfg[u].pw # Nil
           /\ cfg[u].wo \in Secret /\ cfg[u].pw \in Secret /\ cfg[u].hash \in Secret
<1>1. cfg[u] \in Configs[u] /\ cfg[u] \in Block
    BY BlockType DEF TypeOK
<1>2. cfg[u].wo \in Secret /\ cfg[u].pw \in Secret /\ cfg[u].hash \in Secret
    BY <1>1 DEF Block
<1>3. Nil \notin Secret
    BY UsersAssumption
<1> QED
    BY <1>1, <1>2, <1>3

\* The new password of an update is the one that the block declares.
LEMMA NewIsDeclared ==
    ASSUME OneWay, TypeOK, NEW u \in User, cfg[u] # Nil, NewPassword(u) # Nil,
           NEW p, Remembers(u, st[u], p)
    PROVE  /\ cfg[u].wo # NoPassword => NewPassword(u) = cfg[u].wo
           /\ cfg[u].pw # NoPassword => NewPassword(u) = cfg[u].pw
           /\ cfg[u].hash = NoPassword
           /\ Declares(cfg[u]) => NewPassword(u) # NoPassword
           /\ NewPassword(u) \in Secret
<1> DEFINE c == cfg[u]
           s == st[u]
<1>1. /\ c \in Configs[u]
      /\ c.wo # NoPassword => c.pw = NoPassword /\ c.hash = NoPassword
      /\ c.pw # NoPassword => c.hash = NoPassword
      /\ c.wo # NoPassword <=> c.wov # 0
      /\ c.wo \in Secret /\ c.pw \in Secret
  <2>1. c \in Configs[u]
      BY BlockHas
  <2> HIDE DEF c
  <2> QED
      BY <2>1, BlockHas, Consistency DEF c
<1>2. /\ s.wov # 0 => \E d \in Configs[u] : d.wov = s.wov
      /\ s.pw # NoPassword => \E d \in Configs[u] : d.pw = s.pw
    BY DEF Remembers
<1>3. \/ c.wov # s.wov /\ NewPassword(u) = c.wo
      \/ c.wov = s.wov /\ c.pw # s.pw /\ NewPassword(u) = c.pw
    BY DEF NewPassword
<1>4. \A d, e \in Configs[u] : /\ d.pw # NoPassword \/ d.hash # NoPassword => e.wov = 0
                               /\ d.hash # NoPassword => e.pw = NoPassword
    BY DEF OneWay
<1>5. Declares(c) <=> c.pw # NoPassword \/ c.wo # NoPassword \/ c.hash # NoPassword
    BY DEF Declares
<1> HIDE DEF c, s
<1>6. CASE c.wov # s.wov /\ NewPassword(u) = c.wo
  <2>1. c.wov = 0 => c.pw = NoPassword /\ c.hash = NoPassword
      BY <1>1, <1>2, <1>4, <1>6
  <2>2. c.wov # 0 => c.wo # NoPassword /\ c.pw = NoPassword /\ c.hash = NoPassword
      BY <1>1
  <2> QED
      BY <1>1, <1>5, <1>6, <2>1, <2>2 DEF c
<1>7. CASE c.wov = s.wov /\ c.pw # s.pw /\ NewPassword(u) = c.pw
  <2>1. c.pw = NoPassword => c.wov = 0 /\ c.hash = NoPassword
      BY <1>1, <1>2, <1>4, <1>7
  <2>2. c.pw # NoPassword => c.wo = NoPassword /\ c.hash = NoPassword
      BY <1>1
  <2> QED
      BY <1>1, <1>5, <1>7, <2>1, <2>2 DEF c
<1> QED
    BY <1>3, <1>6, <1>7

\* Without a new password the password is the one that the block declares already.
LEMMA SameIsMet ==
    ASSUME OneWay, TypeOK, NEW u \in User, cfg[u] # Nil, NewPassword(u) = Nil,
           NEW p, Remembers(u, st[u], p), HashMet(cfg[u], st[u], p)
    PROVE  Meets(cfg[u], st[u], p)
<1>1. cfg[u] \in Configs[u] /\ cfg[u].wov = st[u].wov /\ cfg[u].pw = st[u].pw
    BY BlockHas DEF NewPassword
<1>2. cfg[u].wo # NoPassword <=> cfg[u].wov # 0
    BY <1>1, Consistency
<1>3. cfg[u].wo # NoPassword => p = cfg[u].wo
    BY <1>1, <1>2 DEF Remembers, OneWay
<1> QED
    BY <1>1, <1>3 DEF Meets, Remembers

\* What is saved of a block whose password the account has
LEMMA SavedRemembers ==
    ASSUME TypeOK, NEW u \in User, cfg[u] # Nil, NEW p, Meets(cfg[u], Saved(u), p)
    PROVE  Remembers(u, Saved(u), p)
<1>1. cfg[u] \in Configs[u] /\ Saved(u).wov = cfg[u].wov /\ Saved(u).pw = cfg[u].pw
    BY BlockHas DEF Saved
<1>2. cfg[u].wo # NoPassword <=> cfg[u].wov # 0
    BY <1>1, Consistency
<1> QED
    BY <1>1, <1>2 DEF Meets, Remembers

LEMMA SavedMeets ==
    ASSUME TypeOK, NEW u \in User, cfg[u] # Nil, st[u] # Nil, NEW p, Meets(cfg[u], st[u], p)
    PROVE  Meets(cfg[u], Saved(u), p) /\ Remembers(u, Saved(u), p)
<1>1. cfg[u].hex /\ cfg[u].hash # NoPassword => Saved(u).auth["text"] = st[u].auth["text"]
  <2>1. st[u].auth \in [Form -> Secret] /\ "text" \in Form /\ "hex" \in Form
      BY DEF TypeOK, State, Form
  <2>2. Saved(u).auth = AuthPlanned(u)
      BY DEF Saved
  <2>3. cfg[u].hex /\ cfg[u].hash # NoPassword =>
            AuthPlanned(u) = [st[u].auth EXCEPT !["hex"] = cfg[u].hash]
      BY DEF AuthPlanned, FormOf
  <2> QED
      BY <2>1, <2>2, <2>3
<1>2. HashMet(cfg[u], Saved(u), p)
    BY <1>1 DEF Meets, HashMet
<1>3. Meets(cfg[u], Saved(u), p)
    BY <1>2 DEF Meets
<1> QED
    BY <1>3, SavedRemembers

------------------------------------------------------------------------------
(* Steps without a failure *)

LEMMA UndamagedBefore ==
    ASSUME [Next]_vars, Undamaged'
    PROVE  Undamaged /\ UNCHANGED version
<1>1. UNCHANGED version
    BY DEF Next, vars, StartApply, NewRun, Crash, Refresh, UserStep, ImportUser, PassStep,
           CreateUser, CreateUserFails, CreateLimits, CreateLimitsFails, CreateTls,
           CreateTlsFails, UpdateUser, UpdateUserFails, DeleteUser, DeleteUserFails,
           SetUserPassword, SetUserPasswordFails, Skip, DeleteUserPassword
<1>2. faults' = faults \/ \E kind : faults' = faults \cup {kind}
    BY DEF Next, vars, StartApply, NewRun, Crash, Refresh, UserStep, ImportUser, PassStep,
           CreateUser, CreateUserFails, CreateLimits, CreateLimitsFails, CreateTls,
           CreateTlsFails, UpdateUser, UpdateUserFails, DeleteUser, DeleteUserFails,
           SetUserPassword, SetUserPasswordFails, Skip, DeleteUserPassword, Fails, Fault
<1>3. faults' = {} /\ DualPasswords'
    BY DEF Undamaged
<1>4. DualPasswords
    BY <1>1, <1>3 DEF DualPasswords
<1> QED
    BY <1>1, <1>2, <1>3, <1>4 DEF Undamaged

LEMMA NoFault == ASSUME Undamaged', NEW kind, Fault(kind) PROVE FALSE
BY DEF Fault, Undamaged

\* What fails has been refused, and has done nothing.
LEMMA OnlyRefused ==
    ASSUME Undamaged', NEW u, NEW refused, NEW new, Fails(u, refused, new)
    PROVE  refused /\ account' = account
BY NoFault DEF Fails

LEMMA NewServer ==
    ASSUME TypeOK, Undamaged
    PROVE  Quiet /\ ReadsAccount /\ PasswordUnread /\ LimitsWithCreate
<1>1. version \in Nat
    BY UsersAssumption DEF TypeOK
<1> QED
    BY <1>1 DEF Undamaged, Quiet, ReadsAccount, PasswordUnread, LimitsWithCreate, DualPasswords

LEMMA UserFrameRest ==
    ASSUME NEW u \in User, UserStep(u)
    PROVE  UNCHANGED <<version, cfg, plan>>
BY DEF UserStep, CreateUser, CreateUserFails, CreateLimits, CreateLimitsFails, CreateTls,
       CreateTlsFails, UpdateUser, UpdateUserFails, DeleteUser, DeleteUserFails

------------------------------------------------------------------------------
(* An account that only its mysql_user sets the password of *)

\* Nothing that Own(u) is about has changed.
LEMMA OwnStays ==
    ASSUME NEW u \in User, Own(u), account'[u] = account[u], st'[u] = st[u],
           pc'[u] = pc[u], UNCHANGED cfg
    PROVE  Own(u)'
BY DEF Own, Remembers, HashMet, Meets

\* A block whose authentication string is no change has it from the account.
LEMMA HashHeld ==
    ASSUME TypeInv, Undamaged, NEW u \in User, Auth(u), ~Targeted(u), cfg[u] # Nil,
           st[u] # Nil, account[u] # Nil, pc[u] = "planned", ~AuthChanged(u)
    PROVE  HashMet(cfg[u], st[u], account[u].pw)
<1>1. ReadsAccount /\ Undisturbed(u)
    BY NewServer DEF TypeInv, Undisturbed, SetElsewhere, Targeted
<1>2. \A f \in Form : st[u].auth[f] \in {NoPassword, account[u].pw}
    BY <1>1 DEF Auth
<1>3. FormOf(cfg[u]) \in Form
    BY DEF FormOf, Form
<1> QED
    BY <1>2, <1>3 DEF AuthChanged, HashMet

\* ALTER USER ... AS sets the block's string, but for one that the text of the state
\* overrides, or repeats the string that the refresh has read.
LEMMA StringSet ==
    ASSUME OneWay, TypeInv, Undamaged, NEW u \in User, Auth(u), ~Targeted(u), pc[u] = "auth",
           account[u] # Nil, Remembers(u, st[u], account[u].pw)
    PROVE  /\ Remembers(u, st[u], Altered(u, "auth").pw)
           /\ HashMet(cfg[u], st[u], Altered(u, "auth").pw)
           /\ Altered(u, "auth").pw # NoPassword \/ account[u].pw = NoPassword
<1>0. /\ TypeOK /\ cfg[u] # Nil /\ st[u] # Nil /\ account[u] \in Account
      /\ st[u].auth \in [Form -> Secret]
    BY DEF TypeInv, HandlerInv, TypeOK, Steps, State
<1>1. ReadsAccount /\ Undisturbed(u)
    BY NewServer DEF TypeInv, Undisturbed, SetElsewhere, Targeted
<1>2. \A f \in Form : st[u].auth[f] \in {NoPassword, account[u].pw}
    BY <1>0, <1>1 DEF Auth
<1>3. Altered(u, "auth").pw = IF AuthString(u) # NoPassword THEN AuthString(u) ELSE account[u].pw
    BY <1>0 DEF Altered, Account
<1>4. CASE cfg[u].hash = NoPassword
  <2>1. AuthPlanned(u) = st[u].auth
      BY <1>0, <1>4 DEF AuthPlanned
  <2>2. AuthString(u) \in {NoPassword, account[u].pw}
      BY <1>2, <2>1 DEF AuthString, Form
  <2>3. Altered(u, "auth").pw = account[u].pw
      BY <1>3, <2>2
  <2> QED
      BY <1>4, <2>3 DEF HashMet
<1>5. CASE cfg[u].hash # NoPassword
  <2>1. cfg[u] \in Configs[u]
      BY <1>0, BlockHas
  <2>2. st[u].wov = 0 /\ st[u].pw = NoPassword
      BY <1>5, <2>1 DEF Remembers, OneWay
  <2>3. Remembers(u, st[u], Altered(u, "auth").pw)
      BY <2>2 DEF Remembers
  <2>4. /\ AuthPlanned(u) = [st[u].auth EXCEPT ![FormOf(cfg[u])] = cfg[u].hash]
        /\ "text" \in Form /\ "hex" \in Form
      BY <1>0, <1>5 DEF AuthPlanned, Form
  <2>5. cfg[u].hex \/ AuthString(u) = cfg[u].hash
      BY <1>0, <1>5, <2>4 DEF AuthString, FormOf
  <2>6. cfg[u].hex /\ st[u].auth["text"] = NoPassword => AuthString(u) = cfg[u].hash
      BY <1>0, <1>5, <2>4 DEF AuthString, FormOf
  <2>7. HashMet(cfg[u], st[u], Altered(u, "auth").pw)
      BY <1>3, <1>5, <2>5, <2>6 DEF HashMet
  <2> QED
      BY <1>3, <2>3, <2>7
<1> QED
    BY <1>4, <1>5

\* While nothing fails, no statement of an update is refused either.
LEMMA NotRefused ==
    ASSUME OneWay, TypeInv, Undamaged, NEW u \in User, ~Targeted(u), Own(u), account[u] # Nil,
           pc[u] \in Steps
    PROVE  ~Refused(u, pc[u])
<1>0. TypeOK /\ cfg[u] # Nil /\ st[u] # Nil /\ pc[u] \in Due(u) /\ DualPasswords
    BY DEF TypeInv, HandlerInv, Undamaged
<1>1. CASE pc[u] = "password"
  <2>1. NewPassword(u) # Nil /\ Remembers(u, st[u], account[u].pw)
      BY <1>0, <1>1 DEF Due, Own
  <2>2. cfg[u] \in Configs[u] /\ cfg[u].retain \in BOOLEAN
      BY <1>0, BlockHas, BlockType DEF Block
  <2>3. cfg[u].retain => Declares(cfg[u]) /\ account[u].pw # NoPassword
      BY <1>0, <2>2 DEF OneWay, Own
  <2>4. cfg[u].retain => NewPassword(u) # NoPassword
      BY <1>0, <2>1, <2>3, NewIsDeclared
  <2> QED
      BY <1>0, <1>1, <2>3, <2>4 DEF Refused, CanSetPassword
<1>2. CASE pc[u] # "password"
    BY <1>0, <1>2 DEF Refused
<1> QED
    BY <1>1, <1>2

\* The password after a statement of an update
LEMMA AlteredPassword ==
    ASSUME NEW u \in User, account[u] \in Account, NEW s \in Steps
    PROVE  /\ s = "password" => Altered(u, s).pw = NewPassword(u)
           /\ s \in {"discard", "tls", "limits"} => Altered(u, s).pw = account[u].pw
<1>1. CASE s = "password"
    BY <1>1 DEF Altered, Account, SetPassword
<1>2. CASE s = "discard"
    BY <1>2 DEF Altered, Account
<1>3. CASE s = "tls"
    BY <1>3 DEF Altered, Account
<1>4. CASE s = "limits"
    BY <1>4 DEF Altered, Account
<1> QED
    BY <1>1, <1>2, <1>3, <1>4

\* What the state and the block have to do with the password p once the statement s of an
\* update has made it the account's.
Reached(u, s, p) ==
    /\ s = "discard" \/ s = "password" => Remembers(u, st[u], p) /\ HashMet(cfg[u], st[u], p)
    /\ s \in {"tls", "limits", "done"} => Meets(cfg[u], st[u], p)

\* Before the statement that sets the password, p is the one that the state remembers.
LEMMA Continues ==
    ASSUME OneWay, TypeInv, DualPasswords, NEW u \in User, cfg[u] # Nil, st[u] # Nil, NEW p,
           Remembers(u, st[u], p), HashMet(cfg[u], st[u], p), NEW s,
           s \in {"tls", "limits", "done"} => "password" \notin Due(u)
    PROVE  Reached(u, s, p)
<1>1. s \in {"tls", "limits", "done"} => NewPassword(u) = Nil
    BY DEF Due, Steps
<1> QED
    BY <1>1, SameIsMet DEF Reached, TypeInv

LEMMA AlteredReaches ==
    ASSUME OneWay, TypeInv, Undamaged, NEW u \in User, Auth(u), ~Targeted(u), Own(u),
           account[u] # Nil, pc[u] \in Steps
    PROVE  /\ Reached(u, After(u, pc[u]), Altered(u, pc[u]).pw)
           /\ (\E c \in Configs[u] : c.retain) => Altered(u, pc[u]).pw # NoPassword
<1>0. /\ TypeOK /\ cfg[u] # Nil /\ st[u] # Nil /\ pc[u] \in Due(u) /\ DualPasswords
      /\ account[u] \in Account /\ cfg[u] \in Configs[u]
    BY BlockHas DEF TypeInv, HandlerInv, Undamaged, TypeOK
<1>1. (\E c \in Configs[u] : c.retain) => account[u].pw # NoPassword /\ Declares(cfg[u])
    BY <1>0 DEF Own, OneWay
<1>2. CASE pc[u] = "auth"
  <2>1. Remembers(u, st[u], account[u].pw)
      BY <1>0, <1>2 DEF Own
  <2>2. /\ Remembers(u, st[u], Altered(u, pc[u]).pw) /\ HashMet(cfg[u], st[u], Altered(u, pc[u]).pw)
        /\ Altered(u, pc[u]).pw # NoPassword \/ account[u].pw = NoPassword
      BY <1>0, <1>2, <2>1, StringSet
  <2>3. After(u, pc[u]) \in {"tls", "limits", "done"} => "password" \notin Due(u)
      BY <1>2, PassedOver
  <2> QED
      BY <1>0, <1>1, <2>2, <2>3, Continues
<1>3. CASE pc[u] = "discard"
  <2>1. Remembers(u, st[u], account[u].pw) /\ HashMet(cfg[u], st[u], account[u].pw)
      BY <1>0, <1>3 DEF Own, Steps
  <2>2. Altered(u, pc[u]).pw = account[u].pw
      BY <1>0, <1>3, AlteredPassword DEF Steps
  <2>3. After(u, pc[u]) \in {"tls", "limits", "done"} => "password" \notin Due(u)
      BY <1>3, PassedOver
  <2> QED
      BY <1>0, <1>1, <2>1, <2>2, <2>3, Continues
<1>4. CASE pc[u] = "password"
  <2>1. Remembers(u, st[u], account[u].pw) /\ NewPassword(u) # Nil
      BY <1>0, <1>4 DEF Own, Due
  <2>2. Altered(u, pc[u]).pw = NewPassword(u)
      BY <1>0, <1>4, AlteredPassword DEF Steps
  <2>3. After(u, pc[u]) \notin {"discard", "password"}
      BY <1>4, AfterLater DEF Steps
  <2>4. /\ cfg[u].wo # NoPassword => NewPassword(u) = cfg[u].wo
        /\ cfg[u].pw # NoPassword => NewPassword(u) = cfg[u].pw
        /\ cfg[u].hash = NoPassword
        /\ Declares(cfg[u]) => NewPassword(u) # NoPassword
      BY <1>0, <2>1, NewIsDeclared
  <2>5. Meets(cfg[u], st[u], NewPassword(u))
      BY <2>4 DEF Meets, HashMet
  <2> QED
      BY <1>1, <2>2, <2>3, <2>4, <2>5 DEF Reached
<1>5. CASE pc[u] \in {"tls", "limits"}
  <2>1. Meets(cfg[u], st[u], account[u].pw)
      BY <1>5 DEF Own
  <2>2. Altered(u, pc[u]).pw = account[u].pw
      BY <1>0, <1>5, AlteredPassword DEF Steps
  <2>3. After(u, pc[u]) \notin {"discard", "password"}
      BY <1>5, AfterLater DEF Steps
  <2> QED
      BY <1>1, <2>1, <2>2, <2>3 DEF Reached
<1> QED
    BY <1>2, <1>3, <1>4, <1>5 DEF Steps

\* A step to s that keeps the state until the end
LEMMA OwnReached ==
    ASSUME TypeOK, NEW u \in User, cfg[u] # Nil, st[u] # Nil, UNCHANGED cfg,
           NEW s \in (Steps \ {"auth"}) \cup {"done"}, pc'[u] = s,
           st'[u] = IF s = "done" THEN Saved(u) ELSE st[u],
           Reached(u, s, account'[u].pw),
           (\E c \in Configs[u] : c.retain) => account'[u].pw # NoPassword
    PROVE  Own(u)'
<1>1. CASE s = "done"
  <2>1. Meets(cfg[u], st[u], account'[u].pw)
      BY <1>1 DEF Reached
  <2>2. Meets(cfg[u], Saved(u), account'[u].pw) /\ Remembers(u, Saved(u), account'[u].pw)
      BY <2>1, SavedMeets
  <2>3. Meets(cfg[u], st[u], account[u].pw)' /\ Remembers(u, st[u], account[u].pw)'
      BY <1>1, <2>2 DEF Meets, HashMet, Remembers
  <2> QED
      BY <1>1, <2>3 DEF Own, Steps
<1>2. CASE s \in {"discard", "password"}
  <2>1. Remembers(u, st[u], account[u].pw)' /\ HashMet(cfg[u], st[u], account[u].pw)'
      BY <1>2 DEF Reached, HashMet, Remembers
  <2> QED
      BY <1>2, <2>1 DEF Own, Steps
<1>3. CASE s \in {"tls", "limits"}
  <2>1. Meets(cfg[u], st[u], account[u].pw)'
      BY <1>3 DEF Reached, HashMet, Meets
  <2>2. HashMet(cfg[u], st[u], account[u].pw)'
      BY <2>1 DEF Meets
  <2> QED
      BY <1>3, <2>1, <2>2 DEF Own, Steps
<1> QED
    BY <1>1, <1>2, <1>3 DEF Steps

LEMMA UserKeepsOwn ==
    ASSUME OneWay, TypeInv, Undamaged, Undamaged', NEW u \in User, Both(u), Auth(u),
           ~Targeted(u), Own(u), UserStep(u)
    PROVE  Own(u)'
<1>0. /\ TypeOK /\ u \in Res /\ pc \in [Res -> PC] /\ account \in [User -> Account \cup {Nil}]
      /\ st = [r \in Res |-> st[r]] /\ LimitsWithCreate /\ UNCHANGED cfg
    BY NewServer, UserFrameRest DEF TypeInv, HandlerInv, TypeOK, Res
<1>1. CASE UpdateUser(u)
  <2>1. /\ pc[u] \in Steps /\ account'[u] = Altered(u, pc[u]) /\ pc'[u] = After(u, pc[u])
        /\ st'[u] = (IF After(u, pc[u]) = "done" THEN Saved(u) ELSE st[u])
        /\ account[u] # Nil
      BY <1>0, <1>1 DEF UpdateUser, Refused
  <2>2. cfg[u] # Nil /\ st[u] # Nil
      BY <2>1 DEF TypeInv, HandlerInv
  <2>3. /\ Reached(u, After(u, pc[u]), Altered(u, pc[u]).pw)
        /\ (\E c \in Configs[u] : c.retain) => Altered(u, pc[u]).pw # NoPassword
      BY <2>1, AlteredReaches
  <2>4. After(u, pc[u]) \in (Steps \ {"auth"}) \cup {"done"}
      BY <2>1, AfterNotAuth
  <2> QED
      BY <1>0, <2>1, <2>2, <2>3, <2>4, OwnReached
<1>2. CASE UpdateUserFails(u)
  <2>1. pc[u] \in Steps /\ Refused(u, pc[u])
      BY <1>2, OnlyRefused DEF UpdateUserFails
  <2>2. account[u] # Nil
      BY <2>1 DEF TypeInv, HandlerInv, Both, Steps
  <2> QED
      BY <2>1, <2>2, NotRefused
<1>3. CASE CreateUser(u)
  <2>1. /\ pc[u] = "create" /\ pc'[u] = AfterCreate(u) /\ account'[u] = NewAccount(u)
        /\ st'[u] = IF AfterCreate(u) = "done" THEN Saved(u) ELSE Nil
      BY <1>0, <1>3 DEF CreateUser, Goto
  <2>2. cfg[u] # Nil /\ cfg[u] \in Configs[u] /\ account'[u].pw = Declared(u)
      BY <1>0, <2>1, BlockHas DEF TypeInv, HandlerInv, NewAccount
  <2>3. AfterCreate(u) = "done" \/ (AfterCreate(u) = "create_tls" /\ cfg[u].aad)
      BY <1>0 DEF AfterCreate
  <2>4. /\ cfg[u].wo # NoPassword => cfg[u].pw = NoPassword /\ cfg[u].hash = NoPassword
        /\ cfg[u].pw # NoPassword => cfg[u].hash = NoPassword
      BY <2>2, Consistency
  <2>5. Meets(cfg[u], Saved(u), Declared(u))
      BY <2>4 DEF Meets, HashMet, Declared
  <2>6. Remembers(u, Saved(u), Declared(u))
      BY <1>0, <2>2, <2>5, SavedRemembers
  <2>7. (\E c \in Configs[u] : c.retain) => Declared(u) # NoPassword
      BY <2>2 DEF OneWay, Declares, Declared
  <2>8. CASE AfterCreate(u) = "done"
    <3>1. Meets(cfg[u], st[u], account[u].pw)' /\ Remembers(u, st[u], account[u].pw)'
        BY <1>0, <2>1, <2>2, <2>5, <2>6, <2>8 DEF Meets, HashMet, Remembers
    <3> QED
        BY <2>1, <2>2, <2>7, <2>8, <3>1 DEF Own, Steps
  <2>9. CASE AfterCreate(u) = "create_tls" /\ cfg[u].aad
      BY <1>0, <2>1, <2>2, <2>7, <2>9 DEF Own, Steps
  <2> QED
      BY <2>3, <2>8, <2>9
<1>4. CASE CreateUserFails(u)
  <2>1. pc[u] = "create" /\ pc'[u] = "failed" /\ st' = st /\ account' = account
      BY <1>0, <1>4, OnlyRefused DEF CreateUserFails, Goto
  <2>2. st[u] = Nil
      BY <2>1 DEF Auth
  <2> QED
      BY <2>1, <2>2 DEF Own, Steps
<1>5. CASE CreateLimits(u) \/ CreateLimitsFails(u)
    BY <1>5 DEF Both, CreateLimits, CreateLimitsFails, Goto
<1>6. CASE CreateTls(u)
  <2>1. /\ pc[u] = "create_tls" /\ pc'[u] = "done" /\ st'[u] = Saved(u)
        /\ account'[u] = [account[u] EXCEPT !.tls = cfg[u].tls]
      BY <1>0, <1>6 DEF CreateTls, Goto
  <2>2. cfg[u] # Nil /\ account[u] # Nil /\ account[u] \in Account /\ cfg[u].aad
      BY <1>0, <2>1 DEF TypeInv, HandlerInv, Own
  <2>3. cfg[u] \in Configs[u]
      BY <1>0, <2>2, BlockHas
  <2>4. ~Declares(cfg[u])
      BY <2>2, <2>3, Consistency
  <2>5. account'[u].pw = account[u].pw
      BY <2>1, <2>2 DEF Account
  <2>6. Meets(cfg[u], Saved(u), account[u].pw)
      BY <2>4 DEF Meets, HashMet, Declares
  <2>7. Remembers(u, Saved(u), account[u].pw)
      BY <1>0, <2>2, <2>6, SavedRemembers
  <2>8. Meets(cfg[u], st[u], account[u].pw)' /\ Remembers(u, st[u], account[u].pw)'
      BY <1>0, <2>1, <2>5, <2>6, <2>7 DEF Meets, HashMet, Remembers
  <2> QED
      BY <2>1, <2>2, <2>5, <2>8 DEF Own, Steps
<1>7. CASE CreateTlsFails(u)
    BY <1>7, OnlyRefused DEF CreateTlsFails
<1>8. CASE DeleteUser(u)
  <2>1. account'[u] = Nil /\ st'[u] = Nil /\ pc'[u] \in {"create", "done"}
      BY <1>0, <1>8 DEF DeleteUser, Goto
  <2> QED
      BY <2>1 DEF Own, Steps
<1>9. CASE DeleteUserFails(u)
  <2>1. pc[u] = "drop" /\ pc'[u] = "failed" /\ st' = st /\ account' = account /\ account[u] = Nil
      BY <1>0, <1>9, OnlyRefused DEF DeleteUserFails, Goto
  <2>2. st[u] = Nil
      BY <2>1 DEF Both
  <2> QED
      BY <2>1, <2>2 DEF Own, Steps
<1> QED
    BY <1>1, <1>2, <1>3, <1>4, <1>5, <1>6, <1>7, <1>8, <1>9 DEF UserStep

\* What a run does with a user, by its plan
LEMMA Planned ==
    ASSUME TypeInv, NEW u \in User, StartApply
    PROVE  /\ pc[u] = "planned" /\ UNCHANGED <<version, account, cfg>> /\ plan'[u] = PlanOf(u)
           /\ st'[u] = IF PlanOf(u) = "update" /\ Due(u) = {} THEN Saved(u) ELSE st[u]
           /\ PlanOf(u) \in {"none", "create", "update", "delete", "replace"}
           /\ PlanOf(u) = "none" => pc'[u] = "done"
           /\ PlanOf(u) = "create" => pc'[u] = "create"
           /\ PlanOf(u) = "update" => pc'[u] = FirstOf(Due(u))
           /\ PlanOf(u) \in {"delete", "replace"} => pc'[u] = "drop"
<1>1. u \in Res /\ u \notin Pass
    BY UsersAssumption DEF Res
<1>2. pc'[u] = CASE PlanOf(u) = "none" -> "done"
                  [] u \in User /\ PlanOf(u) = "create" -> "create"
                  [] u \in User /\ PlanOf(u) = "update" -> FirstOf(Due(u))
                  [] u \in User /\ PlanOf(u) \in {"delete", "replace"} -> "drop"
                  [] u \in Pass /\ PlanOf(u) \in {"create", "update"} -> "set"
                  [] u \in Pass /\ PlanOf(u) = "delete" -> "forget"
    BY <1>1 DEF StartApply
<1>3. PlanOf(u) \in {"none", "create", "update", "delete", "replace"}
    BY DEF PlanOf
<1>4. PlanOf(u) = "none" => pc'[u] = "done"
    BY <1>1, <1>2
<1>5. PlanOf(u) = "create" => pc'[u] = "create"
    BY <1>1, <1>2
<1>6. PlanOf(u) = "update" => pc'[u] = FirstOf(Due(u))
    BY <1>1, <1>2
<1>7. PlanOf(u) \in {"delete", "replace"} => pc'[u] = "drop"
    BY <1>1, <1>2
<1>8. /\ pc[u] = "planned" /\ UNCHANGED <<version, account, cfg>> /\ plan'[u] = PlanOf(u)
      /\ st'[u] = IF PlanOf(u) = "update" /\ Due(u) = {} THEN Saved(u) ELSE st[u]
    BY <1>1 DEF StartApply
<1> QED
    BY <1>3, <1>4, <1>5, <1>6, <1>7, <1>8

LEMMA ApplyKeepsOwn ==
    ASSUME OneWay, TypeInv, Undamaged, NEW u \in User, Both(u), Auth(u), ~Targeted(u), Own(u),
           StartApply
    PROVE  Own(u)'
<1>0. /\ pc[u] = "planned" /\ UNCHANGED <<version, account, cfg>>
      /\ st'[u] = IF PlanOf(u) = "update" /\ Due(u) = {} THEN Saved(u) ELSE st[u]
      /\ PlanOf(u) \in {"none", "create", "update", "delete", "replace"}
      /\ PlanOf(u) = "none" => pc'[u] = "done"
      /\ PlanOf(u) = "create" => pc'[u] = "create"
      /\ PlanOf(u) = "update" => pc'[u] = FirstOf(Due(u))
      /\ PlanOf(u) \in {"delete", "replace"} => pc'[u] = "drop"
    BY Planned
<1>1. /\ st[u] # Nil => Remembers(u, st[u], account[u].pw) /\ account[u] # Nil
      /\ (\E c \in Configs[u] : c.retain) /\ account[u] # Nil => account[u].pw # NoPassword
    BY <1>0 DEF Own, Both
<1>2. CASE PlanOf(u) = "update"
  <2>1. cfg[u] # Nil /\ st[u] # Nil
      BY <1>2 DEF PlanOf
  <2>2. Due(u) \in SUBSET Steps
      BY DEF Due
  <2>3. (Due(u) = {} /\ FirstOf(Due(u)) = "done") \/ FirstOf(Due(u)) \in Due(u)
      BY <2>2, FirstType
  <2>4. CASE FirstOf(Due(u)) = "auth"
    <3>1. pc'[u] = "auth" /\ st'[u] = st[u]
        BY <1>0, <1>2, <2>3, <2>4 DEF Steps
    <3>2. Remembers(u, st[u], account[u].pw)'
        BY <1>0, <1>1, <2>1, <3>1 DEF Remembers
    <3> QED
        BY <1>0, <1>1, <2>1, <3>1, <3>2 DEF Own, Steps
  <2>5. CASE FirstOf(Due(u)) # "auth"
    <3>1. "auth" \notin Due(u)
        BY <2>5, PassedOver
    <3>2. ~AuthChanged(u)
        BY <3>1, NewServer DEF Due, AuthPlugin, Steps, TypeInv
    <3>3. HashMet(cfg[u], st[u], account[u].pw)
        BY <1>0, <1>1, <2>1, <3>2, HashHeld
    <3>4. FirstOf(Due(u)) \in {"tls", "limits", "done"} => "password" \notin Due(u)
        BY PassedOver
    <3>5. Reached(u, FirstOf(Due(u)), account[u].pw)
        BY <1>1, <2>1, <3>3, <3>4, Continues DEF Undamaged
    <3>6. FirstOf(Due(u)) \in (Steps \ {"auth"}) \cup {"done"}
        BY <2>2, <2>3, <2>5
    <3>7. st'[u] = IF FirstOf(Due(u)) = "done" THEN Saved(u) ELSE st[u]
        BY <1>0, <1>2, <2>2, <2>3 DEF Steps
    <3>8. Reached(u, FirstOf(Due(u)), account'[u].pw)
        BY <1>0, <3>5
    <3> QED
        BY <1>0, <1>1, <1>2, <2>1, <3>6, <3>7, <3>8, OwnReached DEF TypeInv
  <2> QED
      BY <2>4, <2>5
<1>3. CASE PlanOf(u) = "none"
  <2>1. pc'[u] = "done" /\ st'[u] = st[u]
      BY <1>0, <1>3
  <2>2. CASE st[u] # Nil /\ cfg[u] # Nil
    <3>1. ~Changed(u)
        BY <1>3, <2>2, UsersAssumption DEF PlanOf
    <3>2. NewPassword(u) = Nil /\ ~AuthChanged(u)
        BY <3>1 DEF Changed, NewPassword
    <3>3. Meets(cfg[u], st[u], account[u].pw)
        BY <1>0, <1>1, <2>2, <3>2, HashHeld, SameIsMet DEF TypeInv
    <3>4. Meets(cfg[u], st[u], account[u].pw)' /\ Remembers(u, st[u], account[u].pw)'
        BY <1>0, <1>1, <2>1, <2>2, <3>3 DEF Meets, HashMet, Remembers
    <3> QED
        BY <1>0, <1>1, <2>1, <3>4 DEF Own, Steps
  <2>3. CASE st[u] = Nil \/ cfg[u] = Nil
    <3>1. st'[u] # Nil => Remembers(u, st[u], account[u].pw)'
        BY <1>0, <1>1, <2>1 DEF Remembers
    <3> QED
        BY <1>0, <1>1, <2>1, <2>3, <3>1 DEF Own, Steps
  <2> QED
      BY <2>2, <2>3
<1>4. CASE PlanOf(u) \in {"create", "delete", "replace"}
  <2>1. pc'[u] \in {"create", "drop"} /\ st'[u] = st[u]
      BY <1>0, <1>4
  <2>2. st'[u] # Nil => Remembers(u, st[u], account[u].pw)'
      BY <1>0, <1>1, <2>1 DEF Remembers
  <2> QED
      BY <1>0, <1>1, <2>1, <2>2 DEF Own, Steps
<1> QED
    BY <1>0, <1>2, <1>3, <1>4

\* An import finds every account in the state already.
LEMMA NoImport ==
    ASSUME TypeInv, Undamaged, NEW u \in User, Both(u), ImportUser(u)
    PROVE  FALSE
<1>1. u \in Res /\ RunEnded /\ st[u] = Nil
    BY DEF ImportUser, Res
<1>2. account[u] = Nil
    BY <1>1 DEF Both, RunEnded
<1>3. PICK f \in Forms : ReadUser(u, Imported(u), f) # Nil
    BY DEF ImportUser, Read
<1>4. ReadUser(u, Imported(u), f) = Nil
    BY <1>2, ReadIsTrue, ImportedType, NewServer DEF TypeInv
<1> QED
    BY <1>3, <1>4

\* A refresh keeps what a state has of passwords and who is an AAD user.
LEMMA ReadKeeps ==
    ASSUME TypeInv, NEW u \in User, st[u] # Nil, NEW f \in Forms, ReadUser(u, st[u], f) # Nil
    PROVE  LET s == ReadUser(u, st[u], f)
           IN s.pw = st[u].pw /\ s.wov = st[u].wov /\ s.aad = st[u].aad /\ s.tainted = st[u].tainted
<1>1. st[u] \in State
    BY DEF TypeInv, TypeOK
<1>2. ReadUser(u, st[u], f) \in {st[u], Refreshed(u, st[u], f)}
    BY DEF ReadUser
<1> QED
    BY <1>1, <1>2 DEF Refreshed, State

LEMMA NextKeepsOwn ==
    ASSUME OneWay, TypeInv, Undamaged, Undamaged', NEW u \in User, \A v \in User : Both(v),
           Auth(u), ~Targeted(u), Own(u), [Next]_vars
    PROVE  Own(u)'
<1>0. /\ TypeOK /\ u \in Res /\ User \subseteq Res /\ u \notin Pass /\ pc \in [Res -> PC]
      /\ st = [r \in Res |-> st[r]]
    BY UsersAssumption DEF TypeInv, HandlerInv, TypeOK, Res
<1>1. ASSUME NEW v \in User, UserStep(v) PROVE Own(u)'
  <2>1. CASE v = u
      BY <1>1, <2>1, UserKeepsOwn
  <2>2. CASE v # u
      BY <1>1, <2>2, UserFrame, UserFrameRest, OwnStays
  <2> QED
      BY <2>1, <2>2
<1>2. ASSUME NEW w \in Pass, PassStep(w) PROVE Own(u)'
  <2>1. ~SetElsewhere(u)
      BY DEF SetElsewhere, Targeted
  <2>2. st'[u] = st[u] /\ pc'[u] = pc[u] /\ UNCHANGED cfg /\ account'[u] = account[u]
      BY <1>2, <2>1, PasswordFrame
  <2> QED
      BY <2>2, OwnStays
<1>3. ASSUME NEW r \in Res, Refresh(r) PROVE Own(u)'
  <2>1. /\ UNCHANGED <<account, cfg>> /\ pc[r] = "refresh" /\ pc' = [pc EXCEPT ![r] = "planned"]
      BY <1>3 DEF Refresh, Goto
  <2>2. PICK f \in Forms : st' = [st EXCEPT ![r] = IF @ = Nil THEN Nil ELSE Read(r, @, f)]
      BY <1>3 DEF Refresh
  <2>3. CASE r # u
    <3>1. st'[u] = st[u] /\ pc'[u] = pc[u]
        BY <1>0, <2>1, <2>2, <2>3
    <3> QED
        BY <2>1, <3>1, OwnStays
  <2>4. CASE r = u
    <3>1. st'[u] = (IF st[u] = Nil THEN Nil ELSE ReadUser(u, st[u], f)) /\ pc'[u] = "planned"
        BY <1>0, <2>1, <2>2, <2>4 DEF Read
    <3>2. CASE st'[u] = Nil
        BY <2>1, <3>1, <3>2 DEF Own, Steps
    <3>3. CASE st'[u] # Nil
      <4>1. st[u] # Nil /\ st'[u].pw = st[u].pw /\ st'[u].wov = st[u].wov
          BY <3>1, <3>3, ReadKeeps
      <4>2. Remembers(u, st[u], account[u].pw)
          BY <2>1, <2>4, <4>1 DEF Own
      <4>3. Remembers(u, st[u], account[u].pw)'
          BY <2>1, <4>1, <4>2 DEF Remembers
      <4> QED
          BY <2>1, <3>1, <4>3 DEF Own, Steps
    <3> QED
        BY <3>2, <3>3
  <2> QED
      BY <2>3, <2>4
<1>4. CASE StartApply
    BY <1>4, ApplyKeepsOwn
<1>5. CASE NewRun
  <2>1. UNCHANGED <<account, st>> /\ pc'[u] = "refresh" /\ pc[u] \in {"done", "failed"}
      BY <1>0, <1>5 DEF NewRun, RunEnded
  <2>2. st[u] # Nil => Remembers(u, st[u], account[u].pw)
      BY <2>1 DEF Own
  <2>3. st'[u] # Nil => Remembers(u, st[u], account[u].pw)'
      BY <2>1, <2>2 DEF Remembers
  <2> QED
      BY <2>1, <2>3 DEF Own, Steps
<1>6. CASE Crash
    BY <1>6, NoFault DEF Crash
<1>7. ASSUME NEW v \in User, ImportUser(v) PROVE FALSE
    BY <1>7, NoImport
<1>8. CASE UNCHANGED vars
    BY <1>8, OwnStays DEF vars
<1> QED
    BY <1>1, <1>2, <1>3, <1>4, <1>5, <1>6, <1>7, <1>8 DEF Next

------------------------------------------------------------------------------
(* An account whose password a mysql_user_password sets *)

\* Its block has no password, and its state has none to forget.
LEMMA NothingNew ==
    ASSUME PassAlone, TypeOK, NEW w \in Pass, Bare(Target[w]), cfg[Target[w]] # Nil
    PROVE  LET u == Target[w]
           IN /\ u \in User /\ ~Declares(cfg[u]) /\ cfg[u].hash = NoPassword
              /\ st[u] # Nil => NewPassword(u) = Nil /\ st[u].aad = cfg[u].aad
              /\ Saved(u).pw = NoPassword /\ Saved(u).wov = 0 /\ ~Saved(u).tainted
              /\ \A c \in Configs[u] : c.aad = Saved(u).aad
<1> DEFINE u == Target[w]
<1>1. u \in User
    BY UsersAssumption
<1>2. cfg[u] \in Configs[u]
    BY <1>1, BlockHas
<1>3. ~Declares(cfg[u]) /\ \A c \in Configs[u] : c.aad = cfg[u].aad
    BY <1>2 DEF PassAlone
<1>4. cfg[u].wo # NoPassword <=> cfg[u].wov # 0
    BY <1>1, <1>2, Consistency
<1>5. cfg[u].pw = NoPassword /\ cfg[u].wo = NoPassword /\ cfg[u].hash = NoPassword /\ cfg[u].wov = 0
    BY <1>3, <1>4 DEF Declares
<1>6. st[u] # Nil => NewPassword(u) = Nil /\ st[u].aad = cfg[u].aad
    BY <1>2, <1>5 DEF NewPassword, Bare
<1>7. Saved(u).pw = NoPassword /\ Saved(u).wov = 0 /\ ~Saved(u).tainted /\ Saved(u).aad = cfg[u].aad
    BY <1>5 DEF Saved
<1> QED
    BY <1>1, <1>3, <1>5, <1>6, <1>7

\* Nothing that Set(w) is about has changed.
LEMMA SetStays ==
    ASSUME NEW w \in Pass, Set(w), UNCHANGED <<cfg, plan>>,
           account'[Target[w]] = account[Target[w]], st'[Target[w]] = st[Target[w]],
           pc'[Target[w]] = pc[Target[w]], st'[w] = st[w], pc'[w] = pc[w]
    PROVE  Set(w)'
BY DEF Set, Bare

\* What a handler of a user leaves alone of a mysql_user_password
LEMMA UserLeavesPass ==
    ASSUME TypeInv, NEW u \in User, UserStep(u), NEW w \in Pass
    PROVE  st'[w] = st[w] /\ pc'[w] = pc[w]
<1>0. pc \in [Res -> PC] /\ st = [r \in Res |-> st[r]] /\ u \in Res /\ w \in Res /\ u # w
  <2>1. pc \in [Res -> PC] /\ st = [r \in Res |-> st[r]]
      BY DEF TypeInv, HandlerInv, TypeOK
  <2>2. u \in Res /\ w \in Res /\ u # w
      BY UsersAssumption DEF Res
  <2> QED
      BY <2>1, <2>2
<1>1. st' = st \/ \E new : st' = [st EXCEPT ![u] = new]
    BY DEF UserStep, CreateUser, CreateUserFails, CreateLimits, CreateLimitsFails, CreateTls,
           CreateTlsFails, UpdateUser, UpdateUserFails, DeleteUser, DeleteUserFails
<1>2. \E to : pc' = [pc EXCEPT ![u] = to]
    BY DEF UserStep, CreateUser, CreateUserFails, CreateLimits, CreateLimitsFails, CreateTls,
           CreateTlsFails, UpdateUser, UpdateUserFails, DeleteUser, DeleteUserFails, Goto
<1> QED
    BY <1>0, <1>1, <1>2

LEMMA UserKeepsSet ==
    ASSUME PassAlone, TypeInv, AuthInv, Undamaged, Undamaged', NEW w \in Pass, Set(w),
           Both(Target[w]), UserStep(Target[w])
    PROVE  Set(w)'
<1> DEFINE u == Target[w]
<1>0. /\ u \in User /\ TypeOK /\ u \in Res /\ pc \in [Res -> PC]
      /\ account \in [User -> Account \cup {Nil}]
      /\ st = [r \in Res |-> st[r]] /\ LimitsWithCreate
    BY UsersAssumption, NewServer DEF TypeInv, HandlerInv, TypeOK, Res
<1>1. /\ UNCHANGED <<cfg, plan>> /\ st'[w] = st[w] /\ pc'[w] = pc[w]
    BY <1>0, UserFrameRest, UserLeavesPass
\* A step that neither makes nor drops the account, nor changes the password
<1>2. ASSUME account[u] = Nil <=> account'[u] = Nil,
             account[u] # Nil => account'[u].pw = account[u].pw,
             pc'[u] \notin {"create", "drop"},
             st'[u] \in {Nil, st[u]} \/ (st'[u] = Saved(u) /\ cfg[u] # Nil)
      PROVE  Set(w)'
  <2>1. Bare(u)'
      BY <1>0, <1>2, NothingNew DEF Bare, Set
  <2> QED
      BY <1>1, <1>2, <2>1 DEF Set
<1>3. CASE UpdateUser(u)
  <2>1. /\ pc[u] \in Steps /\ account'[u] = Altered(u, pc[u]) /\ pc'[u] = After(u, pc[u])
        /\ st'[u] \in {Saved(u), st[u]} /\ account[u] # Nil /\ ~Refused(u, pc[u])
      BY <1>0, <1>3 DEF UpdateUser, Refused
  <2>2. cfg[u] # Nil /\ st[u] # Nil /\ pc[u] \in Due(u)
      BY <1>0, <2>1 DEF TypeInv, HandlerInv
  <2>3. NewPassword(u) = Nil /\ cfg[u].hash = NoPassword
      BY <1>0, <2>2, NothingNew DEF Set
  <2>4. account'[u].pw = account[u].pw
      BY <1>0, <2>1, <2>3, PasswordKept DEF PassAlone
  <2>5. account'[u] # Nil
      BY <1>0, <2>1, <2>2, AlteredType, NilIsNone
  <2>6. pc'[u] \notin {"create", "drop"}
      BY <1>0, <2>1, AfterLater DEF Steps
  <2> QED
      BY <1>2, <2>1, <2>2, <2>4, <2>5, <2>6
<1>4. CASE UpdateUserFails(u) \/ CreateUserFails(u) \/ DeleteUserFails(u)
  <2>1. account' = account /\ pc'[u] = "failed"
      BY <1>0, <1>4, OnlyRefused DEF UpdateUserFails, CreateUserFails, DeleteUserFails, Goto
  <2>2. st'[u] = st[u] \/ (st'[u] = Saved(u) /\ pc[u] \in Steps)
      BY <1>0, <1>4 DEF UpdateUserFails, CreateUserFails, DeleteUserFails
  <2>3. st'[u] = st[u] \/ (st'[u] = Saved(u) /\ cfg[u] # Nil)
      BY <1>0, <2>2 DEF TypeInv, HandlerInv
  <2> QED
      BY <1>2, <2>1, <2>3
<1>5. CASE CreateUser(u)
  <2>1. /\ pc[u] = "create" /\ pc'[u] = AfterCreate(u) /\ st'[u] \in {Saved(u), Nil}
      BY <1>0, <1>5 DEF CreateUser, Goto
  <2>2. cfg[u] # Nil /\ st[w] = Nil /\ account'[u] = NewAccount(u)
      BY <1>0, <1>5, <2>1 DEF TypeInv, HandlerInv, Set, CreateUser
  <2>3. Bare(u)'
      BY <1>0, <2>1, <2>2, NothingNew DEF Bare, Set
  <2>4. pc'[u] \notin {"create", "drop"}
      BY <2>1 DEF AfterCreate
  <2> QED
      BY <1>1, <2>2, <2>3, <2>4 DEF Set
<1>6. CASE CreateTls(u)
  <2>1. /\ pc[u] = "create_tls" /\ pc'[u] = "done" /\ st'[u] = Saved(u)
        /\ account'[u] = [account[u] EXCEPT !.tls = cfg[u].tls]
      BY <1>0, <1>6 DEF CreateTls, Goto
  <2>2. cfg[u] # Nil /\ account[u] # Nil /\ account[u] \in Account
      BY <1>0, <2>1 DEF TypeInv, HandlerInv
  <2>3. cfg[u] \in Block
      BY <1>0, <2>2, BlockType
  <2>4. account'[u].pw = account[u].pw /\ account'[u] \in Account
      BY <2>1, <2>2, <2>3 DEF Account, Block
  <2> QED
      BY <1>2, <2>1, <2>2, <2>4, NilIsNone
<1>7. CASE CreateLimits(u) \/ CreateLimitsFails(u)
    BY <1>7 DEF Both, CreateLimits, CreateLimitsFails, Goto
<1>8. CASE CreateTlsFails(u)
    BY <1>8, OnlyRefused DEF CreateTlsFails
<1>9. CASE DeleteUser(u)
  <2>1. /\ pc[u] = "drop" /\ pc'[u] = (IF plan[u] = "replace" THEN "create" ELSE "done")
        /\ account'[u] = Nil /\ st'[u] = Nil
      BY <1>0, <1>9 DEF DeleteUser, Goto
  <2>2. plan[u] = "delete" /\ (st[w] = Nil \/ pc[w] = "forget")
      BY <2>1 DEF Set
  <2> QED
      BY <1>1, <2>1, <2>2 DEF Set, Bare
<1> QED
    BY <1>3, <1>4, <1>5, <1>6, <1>7, <1>8, <1>9 DEF UserStep

\* The statement of w sets both passwords, or is refused where there is no account.
LEMMA PassKeepsSet ==
    ASSUME PassAlone, TypeInv, Undamaged, Undamaged', NEW w \in Pass, Set(w), PassStep(w)
    PROVE  Set(w)'
<1> DEFINE u == Target[w]
<1>0. /\ u \in User /\ TypeOK /\ u \in Res /\ w \in Res /\ pc \in [Res -> PC]
      /\ account \in [User -> Account \cup {Nil}] /\ st = [r \in Res |-> st[r]]
  <2>1. u \in User /\ u \in Res /\ w \in Res
      BY UsersAssumption DEF Res
  <2> QED
      BY <2>1 DEF TypeInv, HandlerInv, TypeOK
<1>1. st'[u] = st[u] /\ pc'[u] = pc[u] /\ UNCHANGED <<cfg, plan>>
  <2>1. UNCHANGED cfg
      BY DEF PassStep, SetUserPassword, SetUserPasswordFails, Skip, DeleteUserPassword
  <2> QED
      BY <1>0, <2>1, PasswordFrame
<1>2. \A p : PasswordOf(w, p) => p # NoPassword
    BY UsersAssumption DEF PasswordOf
<1>3. Bare(u)'
    BY <1>1 DEF Bare, Set
<1>4. CASE SetUserPassword(w)
  <2>1. pc[w] = "set" /\ pc'[w] = "done" /\ pc[u] = "done" /\ cfg[w] # Nil
      BY <1>0, <1>4 DEF SetUserPassword, Goto, MayStart, PassAlone, TypeInv, HandlerInv
  <2>2. PICK p \in Secret :
            /\ PasswordOf(w, p)
            /\ CanSetPassword(account[u], p, cfg[w].retain)
            /\ account' = [account EXCEPT ![u] = SetPassword(account[u], p, cfg[w].retain)]
            /\ st' = [st EXCEPT ![w] = PassSaved(w, p)]
      BY <1>4 DEF SetUserPassword
  <2>3. account[u] # Nil /\ account[u] \in Account
      BY <1>0, <2>2 DEF CanSetPassword
  <2>4. /\ account'[u] = SetPassword(account[u], p, cfg[w].retain)
        /\ account'[u].pw = p /\ account'[u] # Nil
      BY <1>0, <2>2, <2>3, SetPasswordType, NilIsNone DEF SetPassword, Account
  <2>5. st'[w].pw = p
    <3>1. cfg[w] \in PassBlock
        BY <1>0, <2>1, UsersAssumption DEF TypeOK
    <3> QED
        BY <1>0, <2>2, <3>1 DEF PassSaved, PassBlock
  <2> QED
      BY <1>1, <1>2, <1>3, <2>1, <2>2, <2>4, <2>5 DEF Set
<1>5. CASE SetUserPasswordFails(w)
  <2>1. pc[w] = "set" /\ pc'[w] = "failed" /\ pc[u] = "done"
      BY <1>0, <1>5 DEF SetUserPasswordFails, Goto, MayStart, PassAlone
  <2>2. PICK p \in Secret :
            /\ PasswordOf(w, p)
            /\ Fails(u, ~CanSetPassword(account[u], p, cfg[w].retain),
                     SetPassword(account[u], p, cfg[w].retain))
            /\ st' = [st EXCEPT ![w] = IF plan[w] = "update" THEN PassSaved(w, p) ELSE Nil]
      BY <1>5 DEF SetUserPasswordFails
  <2>3. ~CanSetPassword(account[u], p, cfg[w].retain) /\ account' = account
      BY <2>2, OnlyRefused
  <2>4. plan[w] # "update"
    <3>1. SUFFICES ASSUME plan[w] = "update" PROVE FALSE
        OBVIOUS
    <3>2. st[w] # Nil /\ st[w].pw # NoPassword /\ account[u] # Nil /\ account[u].pw = st[w].pw
        BY <2>1, <3>1 DEF Set
    <3>3. p # NoPassword
        BY <1>2, <2>2
    <3> QED
        BY <2>3, <3>2, <3>3 DEF CanSetPassword, Undamaged
  <2>5. st'[w] = Nil
      BY <1>0, <2>2, <2>4
  <2> QED
      BY <1>1, <1>3, <2>1, <2>3, <2>4, <2>5 DEF Set
<1>6. CASE Skip(w)
  <2>1. pc[w] = "set" /\ pc'[w] = "failed" /\ account' = account /\ st' = st
      BY <1>0, <1>6 DEF Skip, Goto
  <2> QED
      BY <1>1, <1>3, <2>1 DEF Set
<1>7. CASE DeleteUserPassword(w)
  <2>1. pc'[w] = "done" /\ account' = account /\ st'[w] = Nil
      BY <1>0, <1>7 DEF DeleteUserPassword, Goto
  <2> QED
      BY <1>1, <1>3, <2>1 DEF Set
<1> QED
    BY <1>4, <1>5, <1>6, <1>7 DEF PassStep

\* Another mysql_user_password sets another account's password.
LEMMA OtherKeepsSet ==
    ASSUME PassAlone, TypeInv, NEW w \in Pass, Set(w), NEW x \in Pass, x # w, PassStep(x)
    PROVE  Set(w)'
<1> DEFINE u == Target[w]
<1>0. /\ u \in User /\ Target[x] \in User /\ Target[x] # u /\ w \in Res /\ x \in Res
    BY UsersAssumption DEF PassAlone, Res
<1>1. /\ pc \in [Res -> PC] /\ account \in [User -> Account \cup {Nil}]
      /\ st = [r \in Res |-> st[r]]
    BY DEF TypeInv, HandlerInv, TypeOK
<1>2. st'[u] = st[u] /\ pc'[u] = pc[u] /\ UNCHANGED <<cfg, plan>>
  <2>1. UNCHANGED cfg
      BY DEF PassStep, SetUserPassword, SetUserPasswordFails, Skip, DeleteUserPassword
  <2> QED
      BY <1>0, <2>1, PasswordFrame
<1>3. st'[w] = st[w] /\ pc'[w] = pc[w]
  <2>1. st' = st \/ \E new : st' = [st EXCEPT ![x] = new]
      BY DEF PassStep, SetUserPassword, SetUserPasswordFails, Skip, DeleteUserPassword
  <2>2. \E to : pc' = [pc EXCEPT ![x] = to]
      BY DEF PassStep, SetUserPassword, SetUserPasswordFails, Skip, DeleteUserPassword, Goto
  <2> QED
      BY <1>0, <1>1, <2>1, <2>2
<1>4. account'[u] = account[u]
  <2>1. account' = account \/ \E new : account' = [account EXCEPT ![Target[x]] = new]
      BY DEF PassStep, SetUserPassword, SetUserPasswordFails, Skip, DeleteUserPassword, Fails
  <2> QED
      BY <1>0, <1>1, <2>1
<1> QED
    BY <1>2, <1>3, <1>4, SetStays

LEMMA RefreshKeepsSet ==
    ASSUME TypeInv, Undamaged, NEW w \in Pass, Set(w), NEW r \in Res, Refresh(r)
    PROVE  Set(w)'
<1> DEFINE u == Target[w]
<1>0. /\ u \in User /\ u \in Res /\ w \in Res /\ w # u /\ w \notin User
    BY UsersAssumption DEF Res
<1>1. pc \in [Res -> PC] /\ st = [q \in Res |-> st[q]]
    BY DEF TypeInv, HandlerInv, TypeOK
<1>2. /\ UNCHANGED <<account, cfg, plan>> /\ pc[r] = "refresh"
      /\ pc' = [pc EXCEPT ![r] = "planned"]
    BY DEF Refresh, Goto
<1>3. PICK f \in Forms : st' = [st EXCEPT ![r] = IF @ = Nil THEN Nil ELSE Read(r, @, f)]
    BY DEF Refresh
<1>4. CASE r # u /\ r # w
    BY <1>0, <1>1, <1>2, <1>3, <1>4, SetStays
\* On a server whose passwords are not read, the state stays.
<1>5. CASE r = w
  <2>1. st'[w] = st[w]
    <3>1. st'[w] = IF st[w] = Nil THEN Nil ELSE ReadUserPassword(w, st[w])
        BY <1>0, <1>1, <1>3, <1>5 DEF Read
    <3>2. ReadUserPassword(w, st[w]) = st[w]
        BY NewServer DEF ReadUserPassword, TypeInv
    <3> QED
        BY <3>1, <3>2
  <2>2. pc[w] = "refresh" /\ pc'[w] = "planned" /\ pc'[u] = pc[u] /\ st'[u] = st[u]
      BY <1>0, <1>1, <1>2, <1>3, <1>5
  <2> QED
      BY <1>2, <2>1, <2>2 DEF Set, Bare
<1>6. CASE r = u
  <2>1. /\ st'[u] = (IF st[u] = Nil THEN Nil ELSE ReadUser(u, st[u], f)) /\ pc'[u] = "planned"
        /\ st'[w] = st[w] /\ pc'[w] = pc[w]
      BY <1>0, <1>1, <1>2, <1>3, <1>6 DEF Read
  <2>2. Bare(u)'
    <3>1. CASE st'[u] = Nil
        BY <3>1 DEF Bare
    <3>2. CASE st'[u] # Nil
      <4>1. st[u] # Nil /\ ReadUser(u, st[u], f) # Nil /\ st'[u] = ReadUser(u, st[u], f)
          BY <2>1, <3>2
      <4>2. /\ st'[u].pw = st[u].pw /\ st'[u].wov = st[u].wov
            /\ st'[u].aad = st[u].aad /\ st'[u].tainted = st[u].tainted
          BY <1>0, <4>1, ReadKeeps
      <4> QED
          BY <4>1, <4>2 DEF Bare, Set
    <3> QED
        BY <3>1, <3>2
  <2> QED
      BY <1>2, <2>1, <2>2 DEF Set
<1> QED
    BY <1>4, <1>5, <1>6

LEMMA ApplyKeepsSet ==
    ASSUME PassAlone, TypeInv, NEW w \in Pass, Set(w), Both(Target[w]), StartApply
    PROVE  Set(w)'
<1> DEFINE u == Target[w]
<1>0. /\ u \in User /\ u \in Res /\ w \in Res /\ w \in Pass /\ w \notin User /\ u \notin Pass
    BY UsersAssumption DEF Res
<1>1. /\ pc[u] = "planned" /\ UNCHANGED <<account, cfg>> /\ plan'[u] = PlanOf(u)
      /\ st'[u] = IF PlanOf(u) = "update" /\ Due(u) = {} THEN Saved(u) ELSE st[u]
      /\ PlanOf(u) \in {"none", "create", "update", "delete", "replace"}
      /\ PlanOf(u) = "none" => pc'[u] = "done"
      /\ PlanOf(u) = "create" => pc'[u] = "create"
      /\ PlanOf(u) = "update" => pc'[u] = FirstOf(Due(u))
      /\ PlanOf(u) \in {"delete", "replace"} => pc'[u] = "drop"
    BY <1>0, Planned
<1>2. st'[w] = st[w] /\ pc[w] = "planned" /\ plan'[w] = PlanOf(w)
    BY <1>0 DEF StartApply
<1>3. PlanOf(w) = "delete" => pc'[w] = "forget"
  <2>1. pc'[w] = CASE PlanOf(w) = "none" -> "done"
                    [] w \in User /\ PlanOf(w) = "create" -> "create"
                    [] w \in User /\ PlanOf(w) = "update" -> FirstOf(Due(w))
                    [] w \in User /\ PlanOf(w) \in {"delete", "replace"} -> "drop"
                    [] w \in Pass /\ PlanOf(w) \in {"create", "update"} -> "set"
                    [] w \in Pass /\ PlanOf(w) = "delete" -> "forget"
      BY <1>0 DEF StartApply
  <2> QED
      BY <1>0, <2>1
<1>4. Bare(u)'
  <2>1. PlanOf(u) = "update" => cfg[u] # Nil
      BY DEF PlanOf
  <2> QED
      BY <1>1, <2>1, NothingNew DEF Set, Bare, TypeInv
<1>5. account[u] = Nil => st[w] = Nil
    BY <1>2 DEF Set
<1>6. pc'[u] = "drop" => plan'[u] = "delete" /\ (st[w] = Nil \/ pc'[w] = "forget")
  <2>1. ASSUME pc'[u] = "drop" PROVE PlanOf(u) \in {"delete", "replace"}
    <3>1. PlanOf(u) = "update" => FirstOf(Due(u)) \in Steps \cup {"done"}
        BY FirstType DEF Due
    <3> QED
        BY <1>1, <2>1, <3>1 DEF Steps
  <2>2. PlanOf(u) # "replace"
    <3>1. cfg[u] # Nil /\ st[u] # Nil => ~st[u].tainted /\ st[u].aad = cfg[u].aad
        BY <1>0, NothingNew DEF Set, Bare, TypeInv
    <3> QED
        BY <1>0, <3>1 DEF PlanOf
  <2>3. PlanOf(u) = "delete" => cfg[u] = Nil
      BY <1>0 DEF PlanOf
  <2>4. cfg[u] = Nil => PlanOf(w) = "delete" \/ st[w] = Nil
      BY DEF Set, PlanOf
  <2> QED
      BY <1>1, <1>3, <2>1, <2>2, <2>3, <2>4
<1>7. pc'[u] = "create" => st[w] = Nil
  <2>1. ASSUME pc'[u] = "create" PROVE PlanOf(u) = "create"
    <3>1. PlanOf(u) = "update" => FirstOf(Due(u)) \in Steps \cup {"done"}
        BY FirstType DEF Due
    <3> QED
        BY <1>1, <2>1, <3>1 DEF Steps
  <2>2. PlanOf(u) = "create" => st[u] = Nil
      BY DEF PlanOf
  <2>3. st[u] = Nil => account[u] = Nil
      BY <1>1 DEF Both
  <2> QED
      BY <1>5, <2>1, <2>2, <2>3
<1>8. PlanOf(w) = "update" => st[w] # Nil
    BY DEF PlanOf
<1> QED
    BY <1>1, <1>2, <1>4, <1>5, <1>6, <1>7, <1>8 DEF Set

LEMMA NextKeepsSet ==
    ASSUME PassAlone, TypeInv, AuthInv, Undamaged, Undamaged', NEW w \in Pass,
           \A v \in User : Both(v), Set(w), [Next]_vars
    PROVE  Set(w)'
<1> DEFINE u == Target[w]
<1>0. u \in User /\ u \in Res /\ w \in Res
    BY UsersAssumption DEF Res
<1>1. ASSUME NEW v \in User, UserStep(v) PROVE Set(w)'
  <2>1. CASE v = u
      BY <1>0, <1>1, <2>1, UserKeepsSet
  <2>2. CASE v # u
      BY <1>0, <1>1, <2>2, UserFrame, UserFrameRest, UserLeavesPass, SetStays
  <2> QED
      BY <2>1, <2>2
<1>2. ASSUME NEW x \in Pass, PassStep(x) PROVE Set(w)'
    BY <1>2, PassKeepsSet, OtherKeepsSet
<1>3. ASSUME NEW r \in Res, Refresh(r) PROVE Set(w)'
    BY <1>3, RefreshKeepsSet
<1>4. CASE StartApply
    BY <1>0, <1>4, ApplyKeepsSet
<1>5. CASE NewRun
  <2>1. /\ UNCHANGED <<account, st>> /\ pc'[u] = "refresh" /\ pc'[w] = "refresh"
        /\ pc[w] \in {"done", "failed"}
      BY <1>0, <1>5 DEF NewRun, RunEnded
  <2>2. cfg'[w] # Nil => cfg'[u] # Nil
      BY <1>5 DEF NewRun, ValidConfig, PassAlone, Set
  <2> QED
      BY <2>1, <2>2 DEF Set, Bare
<1>6. CASE Crash
    BY <1>6, NoFault DEF Crash
<1>7. ASSUME NEW v \in User, ImportUser(v) PROVE FALSE
    BY <1>7, NoImport
<1>8. CASE UNCHANGED vars
    BY <1>8, SetStays DEF vars
<1> QED
    BY <1>1, <1>2, <1>3, <1>4, <1>5, <1>6, <1>7, <1>8 DEF Next

------------------------------------------------------------------------------
LEMMA InitPass == PassAlone /\ Init => PassInv
<1> SUFFICES ASSUME PassAlone, Init PROVE PassInv
    OBVIOUS
<1>1. \A r \in Res : st[r] = Nil /\ pc[r] = "refresh" /\ plan[r] = "none"
    BY DEF Init
<1>2. \A u \in User : account[u] = Nil
    BY DEF Init
<1>3. \A w \in Pass : cfg[w] # Nil => cfg[Target[w]] # Nil
    BY DEF Init, ValidConfig, PassAlone
<1>4. ASSUME NEW u \in User PROVE Own(u)
    BY <1>1, <1>2 DEF Own, Res, Steps
<1>5. ASSUME NEW w \in Pass PROVE Set(w)
  <2>1. w \in Res /\ Target[w] \in User /\ Target[w] \in Res
      BY UsersAssumption DEF Res
  <2> QED
      BY <1>1, <1>2, <1>3, <2>1 DEF Set, Bare
<1> QED
    BY <1>4, <1>5 DEF PassInv

LEMMA NextKeepsPass ==
    ASSUME OneWay, PassAlone, TypeInv, BothInv, AuthInv, PassInv, [Next]_vars
    PROVE  PassInv'
<1> SUFFICES ASSUME Undamaged'
             PROVE  /\ \A u \in User : ~Targeted(u) => Own(u)'
                    /\ \A w \in Pass : Set(w)'
    BY DEF PassInv, Targeted
<1>1. Undamaged
    BY UndamagedBefore
<1>2. /\ \A u \in User : ~Targeted(u) => Own(u)
      /\ \A w \in Pass : Set(w)
    BY <1>1 DEF PassInv
<1>3. \A v \in User : Both(v)
    BY <1>1, NewServer DEF BothInv, Both, Quiet, TypeInv
<1>4. \A v \in User : Auth(v)
    BY DEF AuthInv
<1>5. ASSUME NEW u \in User, ~Targeted(u) PROVE Own(u)'
    BY <1>1, <1>2, <1>3, <1>4, <1>5, NextKeepsOwn
<1>6. ASSUME NEW w \in Pass PROVE Set(w)'
    BY <1>1, <1>2, <1>3, NextKeepsSet
<1> QED
    BY <1>5, <1>6

LEMMA PassImplies == ASSUME PassAlone, TypeInv, BothInv, PassInv PROVE PasswordIsDeclared
<1> SUFFICES ASSUME RunEnded, Undamaged
             PROVE  /\ \A u \in User : st[u] # Nil /\ cfg[u] # Nil /\ ~SetElsewhere(u) =>
                          Declared(u) = NoPassword \/ Overridden(u) \/ account[u].pw = Declared(u)
                    /\ \A w \in Pass : st[w] # Nil /\ account[Target[w]] # Nil =>
                                           account[Target[w]].pw = st[w].pw
    BY DEF PasswordIsDeclared, Undamaged
<1>1. \A w \in Pass : st[w] # Nil /\ account[Target[w]] # Nil => account[Target[w]].pw = st[w].pw
    BY DEF PassInv, Set
<1>2. ASSUME NEW u \in User, st[u] # Nil, cfg[u] # Nil
      PROVE  Declared(u) = NoPassword \/ Overridden(u) \/ account[u].pw = Declared(u)
  <2>1. cfg[u] \in Configs[u]
      BY <1>2, BlockHas DEF TypeInv
  <2>2. CASE Targeted(u)
    <3>1. ~Declares(cfg[u])
        BY <2>1, <2>2 DEF Targeted, PassAlone
    <3> QED
        BY <3>1 DEF Declares, Declared
  <2>3. CASE ~Targeted(u)
    <3>1. pc[u] \in {"done", "failed"}
        BY DEF RunEnded, Res
    <3>2. Meets(cfg[u], st[u], account[u].pw)
        BY <1>2, <2>3, <3>1 DEF PassInv, Own
    <3> QED
        BY <3>2 DEF Meets, HashMet, Declared, Overridden
  <2> QED
      BY <2>2, <2>3
<1> QED
    BY <1>1, <1>2

\* On servers with two passwords, and while nothing fails, what UpdateUser does on the way
\* undoes no password: after any number of runs and edits an account has the password that
\* its block declares, or the one in the state of its mysql_user_password.  It holds of
\* configurations that change what declares a password only in the ways of OneWay, and
\* that leave an account of a mysql_user_password to it.
THEOREM PasswordDeclared == OneWay /\ PassAlone => (Safe => []PasswordIsDeclared)
<1> SUFFICES ASSUME OneWay, PassAlone PROVE Safe => []PasswordIsDeclared
    OBVIOUS
<1>1. Init => BothInv /\ AuthInv
    BY DEF Init, BothInv, AuthInv, Auth, Res, Steps
<1>2. Init => PassInv
    BY InitPass
<1>3. TypeInv /\ [Next]_vars => TypeInv'
    BY NextKeepsType
<1>4. TypeInv /\ BothInv /\ [Next]_vars => BothInv'
    BY NextKeepsBoth
<1>5. TypeInv /\ AuthInv /\ [Next]_vars => AuthInv'
    BY NextKeepsAuth
<1>6. TypeInv /\ BothInv /\ AuthInv /\ PassInv /\ [Next]_vars => PassInv'
    BY NextKeepsPass
<1>7. TypeInv /\ BothInv /\ PassInv => PasswordIsDeclared
    BY PassImplies
<1> QED
    BY InitType, <1>1, <1>2, <1>3, <1>4, <1>5, <1>6, <1>7, PTL DEF Safe
===============================================================================
