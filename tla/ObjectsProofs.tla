---------------------------- MODULE ObjectsProofs ----------------------------
(* Proofs about Objects, for any blocks, configurations, names, collations and  *)
(* bounds.                                                                      *)
EXTENDS Objects, FiniteSetTheorems, TLAPS

\* What r works with, at each place of its handler
At(r) ==
    /\ pc[r] = "create" => cfg[r] # Nil /\ st[r] = Nil
    /\ pc[r] \in {"readback", "alter"} =>
          /\ cfg[r] # Nil
          /\ st[r] # Nil => st[r].name = cfg[r].name
    /\ pc[r] = "readback" => ReadsBack(r)
    /\ pc[r] = "alter" => st[r] # Nil /\ plan[r] = "update" /\ Kind[r] \in {"database", "defaults"}
    /\ pc[r] = "drop" =>
          /\ st[r] # Nil
          /\ \/ plan[r] = "delete" /\ cfg[r] = Nil
             \/ plan[r] = "replace" /\ cfg[r] # Nil /\ Replaces(r, st[r])

HandlerInv ==
    /\ st = [r \in Res |-> st[r]]
    /\ pc \in [Res -> PC] /\ plan \in [Res -> Plans]
    /\ IsFiniteSet(faults)
    /\ \A r \in Res : At(r)

TypeInv == TypeOK /\ HandlerInv

------------------------------------------------------------------------------
(* The operators of the model *)

LEMMA KindType == \A r \in Res : Kind[r] \in Kinds
BY ObjectsAssumption

LEMMA BlockType ==
    ASSUME TypeOK, NEW r \in Res
    PROVE  cfg[r] \in Block(r) \cup {Nil}
BY ObjectsAssumption DEF TypeOK

LEMMA Limits == MaxFaults \in Nat /\ MaxEdits \in Nat
BY ObjectsAssumption

LEMMA NilIsNone == Nil \notin Collation /\ Nil \notin Account /\ \A r \in Res : Nil \notin State(r)
BY NilAssumption

LEMMA PlannedType ==
    ASSUME TypeOK, NEW r \in Res, cfg[r] # Nil, NEW b \in BOOLEAN
    PROVE  /\ Planned(r, b) \in State(r) /\ Planned(r, b) # Nil
           /\ Planned(r, b).name = cfg[r].name /\ Planned(r, b).tainted = b
<1>1. cfg[r] \in [name : Names(r), val : Values(r)]
    BY BlockType DEF Block
<1>2. Planned(r, b) \in State(r) /\ Planned(r, b).name = cfg[r].name /\ Planned(r, b).tainted = b
    BY <1>1 DEF Planned, State
<1> QED
    BY <1>2, NilIsNone

\* A statement makes nothing that is not of the server's types.
LEMMA MadeType ==
    ASSUME TypeOK, NEW r \in Res, cfg[r] # Nil,
           \/ CanMake(r, cfg[r])
           \/ Kind[r] \in {"database", "defaults"} /\ CanAlter(r, cfg[r])
    PROVE  Made(r, cfg[r]) \in Server
<1> DEFINE c == cfg[r]
<1>1. c \in [name : Names(r), val : Values(r)] /\ server \in Server
    BY BlockType DEF Block, TypeOK
<1> HIDE DEF c
<1>2. CanMake(r, c) \/ (Kind[r] \in {"database", "defaults"} /\ CanAlter(r, c))
    BY DEF c
<1>3. CASE Kind[r] = "database"
  <2>1. c.val \in Collation
      BY <1>2, <1>3 DEF CanMake, CanAlter
  <2> QED
      BY <1>1, <1>3, <2>1 DEF Made, Server, c
<1>4. CASE Kind[r] = "role"
    BY <1>1, <1>4 DEF Made, Server, Names, c
<1>5. CASE Kind[r] = "account"
    BY <1>1, <1>5 DEF Made, Server, NewAccount, Account, c
<1>6. CASE Kind[r] = "grant"
  <2>1. server.account \in Account /\ c.val \in SUBSET Role
      BY <1>1, <1>2, <1>6 DEF CanMake, HasAccount, Server, Values
  <2>2. [server.account EXCEPT !.granted = @ \cup c.val] \in Account
      BY <2>1 DEF Account
  <2>3. Made(r, c) = [server EXCEPT !.account = [server.account EXCEPT !.granted = @ \cup c.val]]
      BY <1>1, <1>6 DEF Made, Server
  <2> QED
      BY <1>1, <2>2, <2>3 DEF Server, c
<1>7. CASE Kind[r] = "defaults"
  <2>1. server.account \in Account /\ c.val \in SUBSET Role
      BY <1>1, <1>2, <1>7 DEF CanMake, CanAlter, HasAccount, Server, Values
  <2>2. [server.account EXCEPT !.defaults = c.val] \in Account
      BY <2>1 DEF Account
  <2>3. Made(r, c) = [server EXCEPT !.account = [server.account EXCEPT !.defaults = c.val]]
      BY <1>1, <1>7 DEF Made, Server
  <2> QED
      BY <1>1, <2>2, <2>3 DEF Server, c
<1>8. CASE Kind[r] = "sql"
    BY <1>1, <1>8 DEF Made, Server, Names, c
<1> QED
    BY <1>3, <1>4, <1>5, <1>6, <1>7, <1>8, KindType DEF Kinds

LEMMA UnmadeType ==
    ASSUME TypeOK, NEW r \in Res, NEW s \in State(r), CanDrop(r, s)
    PROVE  Unmade(r, s) \subseteq Server
<1>1. server \in Server
    BY DEF TypeOK
<1>2. s.name \in Names(r) /\ s.val \in Values(r)
    BY DEF State
<1>3. CASE Kind[r] = "database"
    BY <1>1, <1>3 DEF Unmade, Server
<1>4. CASE Kind[r] = "role"
  <2> DEFINE rest == IF server.account = Nil THEN Nil
                     ELSE [granted |-> server.account.granted \ {s.name},
                           defaults |-> server.account.defaults \ {s.name}]
  <2>1. rest \in Account \cup {Nil}
      BY <1>1 DEF Server, Account
  <2>2. Unmade(r, s) = {[server EXCEPT !.role = @ \ {s.name}, !.account = rest]}
      BY <1>1, <1>4 DEF Unmade, Server
  <2> HIDE DEF rest
  <2> QED
      BY <1>1, <2>1, <2>2 DEF Server
<1>5. CASE Kind[r] = "account"
    BY <1>1, <1>5 DEF Unmade, Server
<1>6. CASE Kind[r] = "grant"
  <2>1. server.account \in Account
      BY <1>1, <1>6 DEF CanDrop, HasAccount, Server
  <2>2. ASSUME NEW gone
        PROVE  [server EXCEPT !.account.granted = @ \ s.val, !.account.defaults = @ \ gone] \in Server
    <3> DEFINE rest == [server.account EXCEPT !.granted = @ \ s.val, !.defaults = @ \ gone]
    <3>1. rest \in Account
        BY <2>1 DEF Account
    <3>2. [server EXCEPT !.account.granted = @ \ s.val, !.account.defaults = @ \ gone]
            = [server EXCEPT !.account = rest]
        BY <1>1, <2>1 DEF Server, Account
    <3> HIDE DEF rest
    <3> QED
        BY <1>1, <3>1, <3>2 DEF Server
  <2> QED
      BY <1>6, <2>2 DEF Unmade
<1>7. CASE Kind[r] = "defaults"
  <2>1. server.account \in Account
      BY <1>1, <1>7 DEF CanDrop, HasAccount, Server
  <2>2. [server.account EXCEPT !.defaults = {}] \in Account
      BY <2>1 DEF Account
  <2>3. Unmade(r, s) = {[server EXCEPT !.account = [server.account EXCEPT !.defaults = {}]]}
      BY <1>1, <1>7 DEF Unmade, Server
  <2> QED
      BY <1>1, <2>2, <2>3 DEF Server
<1>8. CASE Kind[r] = "sql"
    BY <1>1, <1>8 DEF Unmade, Server
<1> QED
    BY <1>3, <1>4, <1>5, <1>6, <1>7, <1>8, KindType DEF Kinds

\* A read keeps what a resource is called, or takes it for gone.
LEMMA ReadType ==
    ASSUME TypeOK, NEW r \in Res, NEW s \in State(r)
    PROVE  \/ Read(r, s) = Nil /\ (Kind[r] = "database" => server.database[s.name] = Nil)
           \/ /\ Read(r, s) \in State(r)
              /\ Read(r, s).name = s.name /\ Read(r, s).tainted = s.tainted
              /\ Kind[r] \in {"role", "account", "sql"} => Read(r, s).val = s.val
<1>1. server \in Server
    BY DEF TypeOK
<1>2. CASE Kind[r] = "database"
  <2>1. CASE server.database[s.name] = Nil
      BY <1>2, <2>1 DEF Read, ReadDatabase
  <2>2. CASE server.database[s.name] # Nil
    <3> DEFINE has == server.database[s.name]
    <3>1. s.name \in DbName
        BY <1>2 DEF State, Names
    <3>2. has \in Collation
        BY <1>1, <2>2, <3>1 DEF Server
    <3>3. Default[has.charset] \in {c.collation : c \in Collation} /\ has.charset \in DOMAIN Default
      <4>1. [charset |-> has.charset, collation |-> Default[has.charset]] \in Collation
          BY <3>2, ObjectsAssumption
      <4>2. [charset |-> has.charset, collation |-> Default[has.charset]].collation = Default[has.charset]
          OBVIOUS
      <4> QED
          BY <3>2, <4>1, <4>2, ObjectsAssumption
    <3>4. Shown(has) # "" => Shown(has) \in {c.collation : c \in Collation}
        BY <3>2 DEF Shown
    <3> DEFINE v == [charset |-> has.charset,
                     collation |-> IF Shown(has) = "" THEN Default[has.charset] ELSE Shown(has)]
    <3>5. v \in Values(r)
        BY <1>2, <3>3, <3>4 DEF Values
    <3>6. Read(r, s) = [s EXCEPT !.val = v]
        BY <1>2, <2>2 DEF Read, ReadDatabase
    <3> HIDE DEF v
    <3> QED
        BY <1>2, <3>5, <3>6 DEF State
  <2> QED
      BY <2>1, <2>2
<1>3. CASE Kind[r] = "role"
    BY <1>3 DEF Read, ReadRole
<1>4. CASE Kind[r] = "account"
    BY <1>4 DEF Read, ReadUser
<1>5. CASE Kind[r] = "grant"
  <2>1. HasAccount => server.account.granted \in Values(r)
      BY <1>1, <1>5 DEF HasAccount, Server, Account, Values
  <2>2. Read(r, s) = Nil \/ (HasAccount /\ Read(r, s) = [s EXCEPT !.val = server.account.granted])
      BY <1>5 DEF Read, ReadGrant
  <2> QED
      BY <1>5, <2>1, <2>2 DEF State
<1>6. CASE Kind[r] = "defaults"
  <2> DEFINE v == IF HasAccount THEN server.account.defaults ELSE {}
  <2>1. v \in Values(r)
      BY <1>1, <1>6 DEF HasAccount, Server, Account, Values
  <2>2. Read(r, s) = [s EXCEPT !.val = v]
      BY <1>6 DEF Read, ReadDefaultRoles
  <2> HIDE DEF v
  <2> QED
      BY <1>6, <2>1, <2>2 DEF State
<1>7. CASE Kind[r] = "sql"
    BY <1>7 DEF Read, ReadSql
<1> QED
    BY <1>2, <1>3, <1>4, <1>5, <1>6, <1>7, KindType DEF Kinds

------------------------------------------------------------------------------
(* Types *)

LEMMA FaultType ==
    ASSUME TypeInv, NEW kind, Fault(kind)
    PROVE  faults' \subseteq Faults /\ IsFiniteSet(faults') /\ Cardinality(faults') <= MaxFaults
<1>1. IsFiniteSet(faults) /\ faults \subseteq Faults /\ kind \in Faults \ faults
      /\ Cardinality(faults) < MaxFaults /\ faults' = faults \cup {kind}
    BY DEF TypeInv, TypeOK, HandlerInv, Fault
<1>2. IsFiniteSet(faults') /\ Cardinality(faults') = Cardinality(faults) + 1
    BY <1>1, FS_AddElement
<1>3. Cardinality(faults) \in Nat
    BY <1>1, FS_CardinalityType
<1> QED
    BY <1>1, <1>2, <1>3, Limits

\* What an Init or a new run starts with
LEMMA InitType == Init => TypeInv
<1> SUFFICES ASSUME Init PROVE TypeInv
    OBVIOUS
<1>1. server \in Server
    BY DEF Init, Server
<1>2. IsFiniteSet(faults) /\ Cardinality(faults) = 0
    BY FS_EmptySet DEF Init
<1>3. /\ world \in Worlds /\ cfg \in Configurations[world]
      /\ edits \in 0 .. MaxEdits
      /\ faults \subseteq Faults /\ Cardinality(faults) <= MaxFaults
    BY <1>2, Limits DEF Init
<1>4. \A r \in Res : st[r] \in State(r) \cup {Nil} /\ pc[r] \in PC /\ plan[r] \in Plans
    BY DEF Init, PC, Plans
<1>5. HandlerInv
    BY <1>2 DEF Init, HandlerInv, At, PC, Plans
<1> QED
    BY <1>1, <1>3, <1>4, <1>5 DEF TypeInv, TypeOK

\* A step of one handler disturbs no other.
LEMMA OneHandler ==
    ASSUME TypeInv, NEW r \in Res, NEW to \in PC, pc' = [pc EXCEPT ![r] = to],
           NEW s \in State(r) \cup {Nil}, st' = [st EXCEPT ![r] = s],
           UNCHANGED <<world, cfg, plan, edits>>, server' \in Server,
           UNCHANGED faults \/ \E kind : Fault(kind),
           At(r)'
    PROVE  TypeInv'
<1>1. /\ st = [u \in Res |-> st[u]] /\ pc \in [Res -> PC] /\ plan \in [Res -> Plans] /\ TypeOK
      /\ \A u \in Res : At(u)
    BY DEF TypeInv, HandlerInv
<1>2. faults' \subseteq Faults /\ IsFiniteSet(faults') /\ Cardinality(faults') <= MaxFaults
    BY FaultType DEF TypeInv, TypeOK, HandlerInv
<1>3. \A u \in Res \ {r} : st'[u] = st[u] /\ pc'[u] = pc[u] /\ plan'[u] = plan[u] /\ cfg'[u] = cfg[u]
    BY <1>1
<1>4. st'[r] = s /\ pc'[r] = to /\ plan' \in [Res -> Plans] /\ pc' \in [Res -> PC]
    BY <1>1
<1>5. st' = [u \in Res |-> st'[u]]
    BY <1>1
<1>6. \A u \in Res : st'[u] \in State(u) \cup {Nil} /\ pc'[u] \in PC /\ plan'[u] \in Plans
    BY <1>1, <1>3, <1>4 DEF TypeOK
<1>7. ASSUME NEW u \in Res \ {r} PROVE At(u)'
    BY <1>1, <1>3 DEF At, Replaces, ReadsBack
<1>8. TypeOK'
    BY <1>1, <1>2, <1>6 DEF TypeOK
<1>9. \A u \in Res : At(u)'
    BY <1>7
<1>10. HandlerInv'
    BY <1>2, <1>4, <1>5, <1>9 DEF HandlerInv
<1> QED
    BY <1>8, <1>10 DEF TypeInv

\* A step that ends a handler, or a run, leaves nothing to be done.
LEMMA Unchanged == ASSUME TypeInv, NEW r \in Res PROVE st = [st EXCEPT ![r] = st[r]]
BY DEF TypeInv, HandlerInv

LEMMA HandlerKeepsType ==
    ASSUME TypeInv, NEW r \in Res, Handler(r)
    PROVE  TypeInv'
<1>0. /\ TypeOK /\ At(r) /\ pc \in [Res -> PC] /\ st = [u \in Res |-> st[u]]
      /\ server \in Server /\ st[r] \in State(r) \cup {Nil}
      /\ st = [st EXCEPT ![r] = st[r]]
    BY Unchanged DEF TypeInv, HandlerInv, TypeOK
<1>1. CASE Create(r)
  <2>1. cfg[r] # Nil /\ CanMake(r, cfg[r]) /\ server' = Made(r, cfg[r])
      BY <1>0, <1>1 DEF Create, Goto, At
  <2>2. server' \in Server
      BY <1>0, <2>1, MadeType
  <2>3. CASE ReadsBack(r)
    <3>1. /\ pc' = [pc EXCEPT ![r] = "readback"] /\ pc[r] = "create"
          /\ st' = [st EXCEPT ![r] = st[r]]
          /\ UNCHANGED <<world, cfg, plan, edits, faults, st>>
        BY <1>0, <1>1, <2>3 DEF Create, Goto
    <3>2. At(r)'
        BY <1>0, <3>1, <2>1, <2>3 DEF At, ReadsBack
    <3>3. "readback" \in PC
        BY DEF PC
    <3> QED
        BY <1>0, <2>2, <3>1, <3>2, <3>3, OneHandler
  <2>4. CASE ~ReadsBack(r)
    <3>1. /\ pc' = [pc EXCEPT ![r] = "done"]
          /\ st' = [st EXCEPT ![r] = Planned(r, FALSE)]
          /\ UNCHANGED <<world, cfg, plan, edits, faults>>
        BY <1>1, <2>4 DEF Create, Goto, Save
    <3>2. At(r)'
        BY <1>0, <3>1 DEF At
    <3>3. "done" \in PC /\ Planned(r, FALSE) \in State(r)
        BY <1>0, <2>1, PlannedType DEF PC
    <3> QED
        BY <2>2, <3>1, <3>2, <3>3, OneHandler
  <2> QED
      BY <2>3, <2>4
<1>2. CASE CreateFails(r)
  <2>1. /\ pc' = [pc EXCEPT ![r] = "failed"] /\ st' = [st EXCEPT ![r] = st[r]]
        /\ UNCHANGED <<world, cfg, plan, edits>>
        /\ UNCHANGED faults \/ \E kind : Fault(kind)
        /\ cfg[r] # Nil
      BY <1>0, <1>2 DEF CreateFails, Goto, At
  <2>2. server' \in Server
      BY <1>0, <1>2, <2>1, MadeType DEF CreateFails
  <2>3. At(r)' /\ "failed" \in PC
      BY <1>0, <2>1 DEF At, PC
  <2> QED
      BY <1>0, <2>1, <2>2, <2>3, OneHandler
<1>3. CASE ReadBack(r)
  <2>1. cfg[r] # Nil
      BY <1>0, <1>3 DEF ReadBack, Goto, At
  <2> DEFINE read == Read(r, Planned(r, FALSE))
             to == IF read = Nil THEN "failed" ELSE "done"
  <2>2. read \in State(r) \cup {Nil}
      BY <1>0, <2>1, PlannedType, ReadType
  <2>3. to \in PC /\ to \in {"done", "failed"}
      BY DEF PC
  <2>4. /\ pc' = [pc EXCEPT ![r] = to] /\ st' = [st EXCEPT ![r] = read]
        /\ UNCHANGED <<world, server, cfg, plan, edits, faults>>
      BY <1>3 DEF ReadBack, Goto, Save
  <2> HIDE DEF read, to
  <2>5. At(r)'
      BY <1>0, <2>3, <2>4 DEF At
  <2> QED
      BY <1>0, <2>2, <2>3, <2>4, <2>5, OneHandler
<1>4. CASE ReadBackFails(r)
  <2>1. cfg[r] # Nil
      BY <1>0, <1>4 DEF ReadBackFails, Goto, At
  <2> DEFINE s == Planned(r, plan[r] # "update")
  <2>2. s \in State(r)
      BY <1>0, <2>1, PlannedType
  <2>3. /\ pc' = [pc EXCEPT ![r] = "failed"] /\ st' = [st EXCEPT ![r] = s]
        /\ Fault("readback")
        /\ UNCHANGED <<world, server, cfg, plan, edits>>
      BY <1>4 DEF ReadBackFails, Goto, Save
  <2> HIDE DEF s
  <2>4. At(r)' /\ "failed" \in PC
      BY <1>0, <2>3 DEF At, PC
  <2> QED
      BY <1>0, <2>2, <2>3, <2>4, OneHandler
<1>5. CASE Update(r)
  <2>1. /\ cfg[r] # Nil /\ Kind[r] \in {"database", "defaults"} /\ CanAlter(r, cfg[r])
        /\ server' = Made(r, cfg[r])
      BY <1>0, <1>5 DEF Update, Goto, At
  <2>2. server' \in Server
      BY <1>0, <2>1, MadeType
  <2>3. CASE ReadsBack(r)
    <3>1. /\ pc' = [pc EXCEPT ![r] = "readback"] /\ pc[r] = "alter"
          /\ st' = [st EXCEPT ![r] = st[r]]
          /\ UNCHANGED <<world, cfg, plan, edits, faults, st>>
        BY <1>0, <1>5, <2>3 DEF Update, Goto
    <3>2. At(r)'
        BY <1>0, <3>1, <2>1, <2>3 DEF At, ReadsBack
    <3>3. "readback" \in PC
        BY DEF PC
    <3> QED
        BY <1>0, <2>2, <3>1, <3>2, <3>3, OneHandler
  <2>4. CASE ~ReadsBack(r)
    <3>1. /\ pc' = [pc EXCEPT ![r] = "done"]
          /\ st' = [st EXCEPT ![r] = Planned(r, FALSE)]
          /\ UNCHANGED <<world, cfg, plan, edits, faults>>
        BY <1>5, <2>4 DEF Update, Goto, Save
    <3>2. At(r)'
        BY <1>0, <3>1 DEF At
    <3>3. "done" \in PC /\ Planned(r, FALSE) \in State(r)
        BY <1>0, <2>1, PlannedType DEF PC
    <3> QED
        BY <2>2, <3>1, <3>2, <3>3, OneHandler
  <2> QED
      BY <2>3, <2>4
<1>6. CASE UpdateFails(r)
  <2>1. cfg[r] # Nil /\ Kind[r] \in {"database", "defaults"}
      BY <1>0, <1>6 DEF UpdateFails, Goto, At
  <2>2. /\ pc' = [pc EXCEPT ![r] = "failed"] /\ st' = [st EXCEPT ![r] = Planned(r, FALSE)]
        /\ UNCHANGED <<world, cfg, plan, edits>>
        /\ UNCHANGED faults \/ \E kind : Fault(kind)
      BY <1>6 DEF UpdateFails, Goto, Save
  <2>3. server' \in Server
      BY <1>0, <1>6, <2>1, MadeType DEF UpdateFails
  <2>4. At(r)' /\ "failed" \in PC /\ Planned(r, FALSE) \in State(r)
      BY <1>0, <2>1, <2>2, PlannedType DEF At, PC
  <2> QED
      BY <2>2, <2>3, <2>4, OneHandler
<1>7. CASE Delete(r)
  <2>1. st[r] \in State(r) /\ (plan[r] = "replace" => cfg[r] # Nil)
      BY <1>0, <1>7 DEF Delete, Goto, At
  <2>2. server' \in Server
      BY <1>0, <1>7, <2>1, UnmadeType DEF Delete
  <2> DEFINE to == IF plan[r] = "replace" THEN "create" ELSE "done"
  <2>3. to \in PC /\ (to = "create" => plan[r] = "replace") /\ to \in {"create", "done"}
      BY DEF PC
  <2>4. /\ pc' = [pc EXCEPT ![r] = to] /\ st' = [st EXCEPT ![r] = Nil]
        /\ UNCHANGED <<world, cfg, plan, edits, faults>>
      BY <1>7 DEF Delete, Goto, Save
  <2> HIDE DEF to
  <2>5. pc'[r] = to /\ st'[r] = Nil
      BY <1>0, <2>4
  <2>6. At(r)'
      BY <2>1, <2>3, <2>4, <2>5 DEF At
  <2> QED
      BY <2>2, <2>3, <2>4, <2>6, OneHandler
<1>8. CASE DeleteFails(r)
  <2>1. /\ pc' = [pc EXCEPT ![r] = "failed"] /\ st' = [st EXCEPT ![r] = st[r]]
        /\ UNCHANGED <<world, cfg, plan, edits>>
        /\ UNCHANGED faults \/ \E kind : Fault(kind)
        /\ st[r] \in State(r)
      BY <1>0, <1>8 DEF DeleteFails, Goto, At
  <2>2. server' \in Server
      BY <1>0, <1>8, <2>1, UnmadeType DEF DeleteFails
  <2>3. At(r)' /\ "failed" \in PC
      BY <1>0, <2>1 DEF At, PC
  <2> QED
      BY <1>0, <2>1, <2>2, <2>3, OneHandler
<1>9. CASE Skip(r)
  <2>1. /\ pc' = [pc EXCEPT ![r] = "failed"] /\ st' = [st EXCEPT ![r] = st[r]]
        /\ UNCHANGED <<world, server, cfg, plan, edits, faults>>
      BY <1>0, <1>9 DEF Skip
  <2>2. At(r)' /\ "failed" \in PC
      BY <1>0, <2>1 DEF At, PC
  <2> QED
      BY <1>0, <2>1, <2>2, OneHandler
<1> QED
    BY <1>1, <1>2, <1>3, <1>4, <1>5, <1>6, <1>7, <1>8, <1>9 DEF Handler

\* What a plan starts a handler with is there; an update changes no name and is of a
\* database or of default roles.
LEMMA PlanType ==
    ASSUME TypeOK, NEW r \in Res, NEW s \in State(r) \cup {Nil}
    PROVE  LET p == PlanOf(r, s) IN
           /\ p \in Plans /\ FirstStep(p) \in {"done", "create", "alter", "drop"}
           /\ FirstStep(p) = "create" => cfg[r] # Nil /\ s = Nil
           /\ FirstStep(p) = "alter" => /\ cfg[r] # Nil /\ s # Nil /\ p = "update"
                                        /\ s.name = cfg[r].name
                                        /\ Kind[r] \in {"database", "defaults"}
           /\ FirstStep(p) = "drop" => /\ s # Nil
                                       /\ \/ p = "delete" /\ cfg[r] = Nil
                                          \/ p = "replace" /\ cfg[r] # Nil /\ Replaces(r, s)
<1> DEFINE p == PlanOf(r, s)
<1>1. p \in Plans
    BY DEF PlanOf, Plans
<1>2. CASE cfg[r] = Nil
  <2>1. p = IF s = Nil THEN "none" ELSE "delete"
      BY <1>2 DEF PlanOf
  <2> QED
      BY <1>1, <1>2, <2>1 DEF FirstStep
<1>3. CASE cfg[r] # Nil /\ s = Nil
  <2>1. p = "create"
      BY <1>3 DEF PlanOf
  <2> QED
      BY <1>1, <1>3, <2>1 DEF FirstStep
<1>4. CASE cfg[r] # Nil /\ s # Nil /\ Replaces(r, s)
  <2>1. p = "replace"
      BY <1>4 DEF PlanOf
  <2> QED
      BY <1>1, <1>4, <2>1 DEF FirstStep
<1>5. CASE cfg[r] # Nil /\ s # Nil /\ ~Replaces(r, s)
  <2>1. p = IF s.val # cfg[r].val THEN "update" ELSE "none"
      BY <1>5 DEF PlanOf
  <2>2. s.val \in Values(r) /\ cfg[r].val \in Values(r)
      BY <1>5, BlockType DEF State, Block
  <2>3. Kind[r] \in {"role", "sql"} => s.val = cfg[r].val
      BY <2>2 DEF Values
  <2>4. s.name = cfg[r].name /\ (Kind[r] \in {"account", "grant"} => s.val = cfg[r].val)
      BY <1>5 DEF Replaces
  <2>5. s.val # cfg[r].val => Kind[r] \in {"database", "defaults"}
      BY <2>3, <2>4, KindType DEF Kinds
  <2> QED
      BY <1>1, <1>5, <2>1, <2>4, <2>5 DEF FirstStep
<1> QED
    BY <1>2, <1>3, <1>4, <1>5

LEMMA SeenType ==
    ASSUME TypeOK, NEW r \in Res
    PROVE  Refreshed(r) \in State(r) \cup {Nil}
BY ReadType DEF TypeOK, Refreshed

\* A refresh plans by what it has seen, or takes one role for gone.
LEMMA RefreshSees ==
    ASSUME TypeOK, Refresh
    PROVE  \E seen : /\ seen = [r \in Res |-> seen[r]]
                     /\ \A r \in Res : \/ seen[r] = Refreshed(r)
                                       \/ Kind[r] = "role" /\ seen[r] = Nil /\ "unread" \in faults'
                     /\ StartApply(seen)
                     /\ UNCHANGED faults \/ \E kind : Fault(kind)
<1> DEFINE seen == [r \in Res |-> Refreshed(r)]
<1>1. CASE StartApply(seen) /\ UNCHANGED faults
  <2>1. seen = [r \in Res |-> seen[r]] /\ \A r \in Res : seen[r] = Refreshed(r)
      OBVIOUS
  <2> HIDE DEF seen
  <2> QED
      BY <1>1, <2>1
<1>2. ASSUME NEW r \in Res, Kind[r] = "role", StartApply([seen EXCEPT ![r] = Nil]), Fault("unread")
      PROVE  \E s : /\ s = [u \in Res |-> s[u]]
                    /\ \A u \in Res : \/ s[u] = Refreshed(u)
                                      \/ Kind[u] = "role" /\ s[u] = Nil /\ "unread" \in faults'
                    /\ StartApply(s)
                    /\ UNCHANGED faults \/ \E kind : Fault(kind)
  <2> DEFINE s == [seen EXCEPT ![r] = Nil]
  <2>1. s = [u \in Res |-> s[u]] /\ s[r] = Nil /\ \A u \in Res \ {r} : s[u] = Refreshed(u)
      OBVIOUS
  <2>2. "unread" \in faults'
      BY <1>2 DEF Fault
  <2> HIDE DEF s
  <2>3. StartApply(s)
      BY <1>2 DEF s
  <2>4. \A u \in Res : s[u] = Refreshed(u) \/ (Kind[u] = "role" /\ s[u] = Nil /\ "unread" \in faults')
      BY <1>2, <2>1, <2>2
  <2> QED
      BY <1>2, <2>1, <2>3, <2>4
<1> HIDE DEF seen
<1>3. \/ StartApply(seen) /\ UNCHANGED faults
      \/ \E r \in Res : /\ Kind[r] = "role" /\ st[r] # Nil
                         /\ StartApply([seen EXCEPT ![r] = Nil]) /\ Fault("unread")
    BY DEF Refresh, seen
<1> QED
    BY <1>1, <1>2, <1>3

LEMMA RefreshKeepsType ==
    ASSUME TypeInv, Refresh
    PROVE  TypeInv'
<1>0. TypeOK /\ UNCHANGED <<world, server, cfg, edits>>
    BY DEF TypeInv, Refresh
<1>1. PICK seen : /\ seen = [r \in Res |-> seen[r]]
                  /\ \A r \in Res : \/ seen[r] = Refreshed(r)
                                    \/ Kind[r] = "role" /\ seen[r] = Nil /\ "unread" \in faults'
                  /\ StartApply(seen)
                  /\ UNCHANGED faults \/ \E kind : Fault(kind)
    BY <1>0, RefreshSees
<1>2. /\ st' = seen
      /\ plan' = [r \in Res |-> PlanOf(r, seen[r])]
      /\ pc' = [r \in Res |-> FirstStep(PlanOf(r, seen[r]))]
    BY <1>1 DEF StartApply
<1>3. faults' \subseteq Faults /\ IsFiniteSet(faults') /\ Cardinality(faults') <= MaxFaults
    BY <1>1, FaultType DEF TypeInv, TypeOK, HandlerInv
<1>4. ASSUME NEW r \in Res
      PROVE  st'[r] \in State(r) \cup {Nil} /\ pc'[r] \in PC /\ plan'[r] \in Plans /\ At(r)'
  <2>1. seen[r] \in State(r) \cup {Nil}
      BY <1>0, <1>1, SeenType
  <2>2. st'[r] = seen[r] /\ plan'[r] = PlanOf(r, seen[r]) /\ pc'[r] = FirstStep(PlanOf(r, seen[r]))
        /\ cfg'[r] = cfg[r]
      BY <1>0, <1>2
  <2>3. Replaces(r, st[r])' <=> Replaces(r, seen[r])
      BY <1>0, <2>2 DEF Replaces
  <2> QED
      BY <1>0, <2>1, <2>2, <2>3, PlanType DEF At, PC
<1>5. st' = [r \in Res |-> st'[r]]
    BY <1>1, <1>2
<1>6. pc' \in [Res -> PC] /\ plan' \in [Res -> Plans]
  <2>1. pc' = [r \in Res |-> pc'[r]] /\ plan' = [r \in Res |-> plan'[r]]
      BY <1>2
  <2> QED
      BY <1>4, <2>1
<1>7. TypeOK'
    BY <1>0, <1>3, <1>4 DEF TypeOK
<1>8. HandlerInv'
    BY <1>3, <1>4, <1>5, <1>6 DEF HandlerInv
<1> QED
    BY <1>7, <1>8 DEF TypeInv

LEMMA CrashIsTyped ==
    ASSUME TypeInv, NEW r \in Res, Crash(r)
    PROVE  server' \in Server
<1>0. TypeOK /\ At(r) /\ server \in Server /\ st[r] \in State(r) \cup {Nil}
    BY DEF TypeInv, HandlerInv, TypeOK
<1>1. CASE pc[r] = "create" /\ CanMake(r, cfg[r]) /\ server' = Made(r, cfg[r])
    BY <1>0, <1>1, MadeType DEF At
<1>2. CASE pc[r] = "alter" /\ CanAlter(r, cfg[r]) /\ server' = Made(r, cfg[r])
    BY <1>0, <1>2, MadeType DEF At
<1>3. CASE pc[r] = "drop" /\ CanDrop(r, st[r]) /\ server' \in Unmade(r, st[r])
    BY <1>0, <1>3, UnmadeType DEF At
<1>4. CASE UNCHANGED server
    BY <1>0, <1>4
<1> QED
    BY <1>1, <1>2, <1>3, <1>4 DEF Crash

LEMMA NextKeepsType ==
    ASSUME TypeInv, [Next]_vars
    PROVE  TypeInv'
<1>0. /\ st = [u \in Res |-> st[u]] /\ pc \in [Res -> PC] /\ plan \in [Res -> Plans] /\ TypeOK
      /\ \A u \in Res : At(u) /\ st[u] \in State(u) \cup {Nil}
      /\ IsFiniteSet(faults) /\ server \in Server
    BY DEF TypeInv, HandlerInv, TypeOK
<1>1. CASE Refresh
    BY <1>1, RefreshKeepsType
<1>2. CASE RefreshFails
  <2>1. /\ UNCHANGED <<world, server, cfg, st, plan, edits>> /\ pc' = [r \in Res |-> "failed"]
        /\ Fault("rejected")
      BY <1>2 DEF RefreshFails
  <2> QED
      BY <1>0, <2>1, FaultType DEF TypeInv, TypeOK, HandlerInv, At, PC
<1>3. CASE NewRun
  <2>1. /\ UNCHANGED <<world, server, st, faults>>
        /\ pc' = [r \in Res |-> "refresh"] /\ plan' = [r \in Res |-> "none"]
        /\ cfg' \in Configurations[world] /\ edits' \in 0 .. MaxEdits
      BY <1>0, <1>3, Limits DEF NewRun, TypeOK
  <2> QED
      BY <1>0, <2>1 DEF TypeInv, TypeOK, HandlerInv, At, PC, Plans
<1>4. ASSUME NEW r \in Res, Handler(r) PROVE TypeInv'
    BY <1>4, HandlerKeepsType
<1>5. ASSUME NEW r \in Res, Crash(r) PROVE TypeInv'
  <2>1. /\ UNCHANGED <<world, cfg, st, plan, edits>> /\ pc' = [u \in Res |-> "failed"]
        /\ Fault("crash")
      BY <1>5 DEF Crash
  <2>2. server' \in Server
      BY <1>5, CrashIsTyped
  <2> QED
      BY <1>0, <2>1, <2>2, FaultType DEF TypeInv, TypeOK, HandlerInv, At, PC
<1>6. ASSUME NEW r \in Res, Outside(r) PROVE TypeInv'
  <2>1. /\ UNCHANGED <<world, cfg, st, plan, pc, edits>> /\ Fault("outside")
        /\ st[r] \in State(r) /\ CanDrop(r, st[r]) /\ server' \in Unmade(r, st[r])
      BY <1>0, <1>6 DEF Outside
  <2>2. server' \in Server
      BY <1>0, <2>1, UnmadeType
  <2>3. \A u \in Res : At(u)'
      BY <1>0, <2>1 DEF At, Replaces, ReadsBack
  <2> QED
      BY <1>0, <2>1, <2>2, <2>3, FaultType DEF TypeInv, TypeOK, HandlerInv
<1>7. ASSUME NEW r \in Res, Import(r) PROVE TypeInv'
  <2> DEFINE read == Read(r, Planned(r, FALSE))
  <2>1. /\ UNCHANGED <<world, server, cfg, plan, pc, edits, faults>>
        /\ \A u \in Res : pc[u] \in {"done", "failed"}
        /\ cfg[r] # Nil /\ st' = [st EXCEPT ![r] = read]
      BY <1>7 DEF Import, RunEnded, Ended, Save
  <2>2. read \in State(r) \cup {Nil}
      BY <1>0, <2>1, PlannedType, ReadType
  <2> HIDE DEF read
  <2>3. \A u \in Res : st'[u] \in State(u) \cup {Nil}
      BY <1>0, <2>1, <2>2
  <2> QED
      BY <1>0, <2>1, <2>3 DEF TypeInv, TypeOK, HandlerInv, At
<1>8. CASE UNCHANGED vars
    BY <1>0, <1>8 DEF TypeInv, TypeOK, HandlerInv, At, Replaces, ReadsBack, vars
<1> QED
    BY <1>1, <1>2, <1>3, <1>4, <1>5, <1>6, <1>7, <1>8 DEF Next

\* Every handler works with a block or a state that is there, and every statement leaves
\* the server with what its types say: no role is granted to an account that is gone, no
\* database has a collation that is not of its character set, and a read puts only
\* collations there are into the state.
THEOREM TypeCorrect == Safe => []TypeOK
<1>1. TypeInv => TypeOK
    BY DEF TypeInv
<1> QED
    BY InitType, NextKeepsType, <1>1, PTL DEF Safe

------------------------------------------------------------------------------
(* Who has what of the server.  A thing is known by its kind and its name.      *)

Things == {"database", "role", "account", "sql"}

NamesOf(k) ==
    CASE k = "database" -> DbName
      [] k = "role" -> Role
      [] k = "sql" -> Script
      [] k = "account" -> {"account"}

On(k, n) ==
    CASE k = "database" -> server.database[n] # Nil
      [] k = "role" -> n \in server.role
      [] k = "sql" -> n \in server.made
      [] k = "account" -> HasAccount

\* r has n in its state, or is about to.
Holds(r, n) == \/ st[r] # Nil /\ st[r].name = n
               \/ pc[r] = "readback" /\ cfg[r].name = n

\* No reply was lost, no process died and no role was taken for gone.
Quiet == faults \cap {"lost", "crash", "unread"} = {}

\* A resource is there if its state says so, or was when it was last read.
Sure(k) == "drop_lost" \notin faults /\ (k = "sql" => "crash" \notin faults)

Working == \E r \in Res : pc[r] \in {"create", "readback", "alter", "drop"}

\* What is on the server has a resource.
KnownInv ==
    Quiet => \A k \in Things : \A n \in NamesOf(k) :
                 On(k, n) => \E r \in Res : Kind[r] = k /\ Holds(r, n)

\* What a resource has is on the server, from the refresh to the end of the run; what a
\* mysql_sql has, always.
TrueInv ==
    \A r \in Res : Kind[r] \in Things /\ Sure(Kind[r]) /\ (Working \/ Kind[r] = "sql") =>
        \A n \in NamesOf(Kind[r]) : Holds(r, n) => On(Kind[r], n)

\* No two resources have the same thing.
UniqueInv ==
    \A r, s \in Res : r # s /\ Kind[r] = Kind[s] /\ Kind[r] \in Things /\ Sure(Kind[r]) =>
        \A n \in NamesOf(Kind[r]) : ~(Holds(r, n) /\ Holds(s, n))

HoldInv == KnownInv /\ TrueInv /\ UniqueInv

\* What a step does to the server
Grows(r) == \A k \in Things : \A n \in NamesOf(k) :
                On(k, n)' <=> On(k, n) \/ (k = Kind[r] /\ n = cfg[r].name)

Shrinks(r) == \A k \in Things : \A n \in NamesOf(k) :
                On(k, n)' <=> On(k, n) /\ ~(k = Kind[r] /\ n = st[r].name)

Same == \A k \in Things : \A n \in NamesOf(k) : On(k, n)' <=> On(k, n)

LEMMA NamesAre ==
    ASSUME NEW r \in Res, Kind[r] \in Things
    PROVE  NamesOf(Kind[r]) = Names(r)
BY DEF Things, NamesOf, Names

LEMMA SameServer == ASSUME UNCHANGED server PROVE Same
BY DEF Same, On, HasAccount

LEMMA MadeGrows ==
    ASSUME TypeOK, NEW r \in Res, cfg[r] # Nil, server' = Made(r, cfg[r]),
           \/ CanMake(r, cfg[r])
           \/ Kind[r] \in {"database", "defaults"} /\ CanAlter(r, cfg[r])
    PROVE  Grows(r)
<1> DEFINE c == cfg[r]
<1>1. c \in [name : Names(r), val : Values(r)] /\ server \in Server
    BY BlockType DEF Block, TypeOK
<1> HIDE DEF c
<1>2. /\ CanMake(r, c) \/ (Kind[r] \in {"database", "defaults"} /\ CanAlter(r, c))
      /\ server' = Made(r, c)
    BY DEF c
<1> SUFFICES ASSUME NEW k \in Things, NEW n \in NamesOf(k)
             PROVE  On(k, n)' <=> On(k, n) \/ (k = Kind[r] /\ n = c.name)
    BY DEF Grows, c
<1>3. CASE Kind[r] = "database"
  <2>1. c.val # Nil
      BY <1>2, <1>3, NilIsNone DEF CanMake, CanAlter
  <2>2. server' = [server EXCEPT !.database[c.name] = c.val]
      BY <1>2, <1>3 DEF Made
  <2>3. k = "database" => (On(k, n)' <=> On(k, n) \/ n = c.name)
      BY <1>1, <1>3, <2>1, <2>2 DEF On, Server, NamesOf, Names
  <2>4. k # "database" => (On(k, n)' <=> On(k, n))
      BY <1>1, <2>2 DEF On, Server, Things, HasAccount
  <2> QED
      BY <1>3, <2>3, <2>4
<1>4. CASE Kind[r] = "role"
  <2>1. server' = [server EXCEPT !.role = @ \cup {c.name}]
      BY <1>2, <1>4 DEF Made
  <2>2. k = "role" => (On(k, n)' <=> On(k, n) \/ n = c.name)
      BY <1>1, <2>1 DEF On, Server
  <2>3. k # "role" => (On(k, n)' <=> On(k, n))
      BY <1>1, <2>1 DEF On, Server, Things, HasAccount
  <2> QED
      BY <1>4, <2>2, <2>3
<1>5. CASE Kind[r] = "account"
  <2>1. server' = [server EXCEPT !.account = NewAccount]
      BY <1>2, <1>5 DEF Made
  <2>2. NewAccount # Nil
      BY NilIsNone DEF NewAccount, Account
  <2>3. c.name = "account"
      BY <1>1, <1>5 DEF Names
  <2> QED
      BY <1>1, <1>5, <2>1, <2>2, <2>3 DEF On, Server, Things, HasAccount, NamesOf
<1>6. CASE Kind[r] \in {"grant", "defaults"}
  <2>1. HasAccount
      BY <1>2, <1>6 DEF CanMake, CanAlter
  <2>2. server' \in Server
      BY <1>2, MadeType DEF c
  <2>3. server.account \in Account
      BY <1>1, <2>1 DEF Server, HasAccount
  <2>4. /\ server'.database = server.database /\ server'.role = server.role /\ server'.made = server.made
        /\ server'.account # Nil
    <3>1. CASE Kind[r] = "grant"
      <4> DEFINE a == [server.account EXCEPT !.granted = @ \cup c.val]
      <4>1. a \in Account
          BY <1>1, <1>6, <2>3, <3>1 DEF Account, Values
      <4>2. server' = [server EXCEPT !.account = a]
          BY <1>1, <1>2, <3>1 DEF Made, Server
      <4> HIDE DEF a
      <4> QED
          BY <1>1, <4>1, <4>2, NilIsNone DEF Server
    <3>2. CASE Kind[r] = "defaults"
      <4> DEFINE a == [server.account EXCEPT !.defaults = c.val]
      <4>1. a \in Account
          BY <1>1, <1>6, <2>3, <3>2 DEF Account, Values
      <4>2. server' = [server EXCEPT !.account = a]
          BY <1>1, <1>2, <3>2 DEF Made, Server
      <4> HIDE DEF a
      <4> QED
          BY <1>1, <4>1, <4>2, NilIsNone DEF Server
    <3> QED
        BY <1>6, <3>1, <3>2
  <2> QED
      BY <1>6, <2>1, <2>4 DEF On, Things, HasAccount
<1>7. CASE Kind[r] = "sql"
  <2>1. server' = [server EXCEPT !.made = @ \cup {c.name}]
      BY <1>2, <1>7 DEF Made
  <2> QED
      BY <1>1, <1>7, <2>1 DEF On, Server, Things, HasAccount
<1> QED
    BY <1>3, <1>4, <1>5, <1>6, <1>7, KindType DEF Kinds

LEMMA UnmadeShrinks ==
    ASSUME TypeOK, NEW r \in Res, st[r] # Nil, CanDrop(r, st[r]), server' \in Unmade(r, st[r])
    PROVE  Shrinks(r)
<1> DEFINE s == st[r]
<1>1. s \in [name : Names(r), val : Values(r), tainted : BOOLEAN] /\ server \in Server
    BY DEF State, TypeOK
<1> HIDE DEF s
<1>2. CanDrop(r, s) /\ server' \in Unmade(r, s)
    BY DEF s
<1> SUFFICES ASSUME NEW k \in Things, NEW n \in NamesOf(k)
             PROVE  On(k, n)' <=> On(k, n) /\ ~(k = Kind[r] /\ n = s.name)
    BY DEF Shrinks, s
<1>3. CASE Kind[r] = "database"
  <2>2. server' = [server EXCEPT !.database[s.name] = Nil]
      BY <1>2, <1>3 DEF Unmade
  <2>3. k = "database" => (On(k, n)' <=> On(k, n) /\ n # s.name)
      BY <1>1, <1>3, <2>2 DEF On, Server, NamesOf, Names
  <2>4. k # "database" => (On(k, n)' <=> On(k, n))
      BY <1>1, <2>2 DEF On, Server, Things, HasAccount
  <2> QED
      BY <1>3, <2>3, <2>4
<1>4. CASE Kind[r] = "role"
  <2> DEFINE rest == IF server.account = Nil THEN Nil
                     ELSE [granted |-> server.account.granted \ {s.name},
                           defaults |-> server.account.defaults \ {s.name}]
  <2>1. rest = Nil <=> server.account = Nil
    <3>1. server.account # Nil => rest \in Account
        BY <1>1 DEF Server, Account
    <3> QED
        BY <3>1, NilIsNone
  <2>2. server' = [server EXCEPT !.role = @ \ {s.name}, !.account = rest]
      BY <1>1, <1>2, <1>4 DEF Unmade, Server
  <2> HIDE DEF rest
  <2> QED
      BY <1>1, <1>4, <2>1, <2>2 DEF On, Server, Things, HasAccount
<1>5. CASE Kind[r] = "account"
  <2>1. server' = [server EXCEPT !.account = Nil]
      BY <1>2, <1>5 DEF Unmade
  <2>2. s.name = "account"
      BY <1>1, <1>5 DEF Names
  <2> QED
      BY <1>1, <1>5, <2>1, <2>2 DEF On, Server, Things, HasAccount, NamesOf
<1>6. CASE Kind[r] \in {"grant", "defaults"}
  <2>1. HasAccount
      BY <1>2, <1>6 DEF CanDrop
  <2>2. server.account \in Account
      BY <1>1, <2>1 DEF Server, HasAccount
  <2>3. /\ server'.database = server.database /\ server'.role = server.role /\ server'.made = server.made
        /\ server'.account # Nil
    <3>1. CASE Kind[r] = "grant"
      <4>1. PICK gone : server' = [server EXCEPT !.account.granted = @ \ s.val, !.account.defaults = @ \ gone]
          BY <1>2, <3>1 DEF Unmade
      <4> DEFINE a == [server.account EXCEPT !.granted = @ \ s.val, !.defaults = @ \ gone]
      <4>2. a \in Account
          BY <2>2 DEF Account
      <4>3. server' = [server EXCEPT !.account = a]
          BY <1>1, <2>2, <4>1 DEF Server, Account
      <4> HIDE DEF a
      <4> QED
          BY <1>1, <4>2, <4>3, NilIsNone DEF Server
    <3>2. CASE Kind[r] = "defaults"
      <4> DEFINE a == [server.account EXCEPT !.defaults = {}]
      <4>1. a \in Account
          BY <2>2 DEF Account
      <4>2. server' = [server EXCEPT !.account = a]
          BY <1>1, <1>2, <3>2 DEF Unmade, Server
      <4> HIDE DEF a
      <4> QED
          BY <1>1, <4>1, <4>2, NilIsNone DEF Server
    <3> QED
        BY <1>6, <3>1, <3>2
  <2> QED
      BY <1>6, <2>1, <2>3 DEF On, Things, HasAccount
<1>7. CASE Kind[r] = "sql"
  <2>1. server' = [server EXCEPT !.made = @ \ {s.name}]
      BY <1>2, <1>7 DEF Unmade
  <2> QED
      BY <1>1, <1>7, <2>1 DEF On, Server, Things, HasAccount
<1> QED
    BY <1>3, <1>4, <1>5, <1>6, <1>7, KindType DEF Kinds

\* The server refuses to make what it has.
LEMMA MakeIsNew ==
    ASSUME NEW r \in Res, Kind[r] \in Things, NEW c, CanMake(r, c)
    PROVE  ~On(Kind[r], c.name)
BY DEF Things, CanMake, On, IsFree

\* A read finds what is on the server, and all but a mysql_sql nothing else.
LEMMA ReadIsTrue ==
    ASSUME TypeOK, NEW r \in Res, Kind[r] \in Things, NEW s \in State(r)
    PROVE  /\ On(Kind[r], s.name) => Read(r, s) # Nil
           /\ Kind[r] # "sql" /\ Read(r, s) # Nil => On(Kind[r], s.name)
<1>1. CASE Kind[r] = "database"
    BY <1>1, ReadType, NilIsNone DEF Read, ReadDatabase, On
<1>2. CASE Kind[r] # "database"
    BY <1>2, NilIsNone DEF Read, ReadRole, ReadUser, ReadSql, On, Things
<1> QED
    BY <1>1, <1>2

------------------------------------------------------------------------------
(* What a handler's step does to the server and to what its resource has        *)

Makes(r) == /\ pc[r] = "create" /\ CanMake(r, cfg[r]) /\ Grows(r)
            /\ Kind[r] \in Things => \A n \in NamesOf(Kind[r]) : Holds(r, n)' <=> n = cfg[r].name

LosesMade(r) == /\ pc[r] = "create" /\ Grows(r) /\ "lost" \in faults'
                /\ \A n : ~Holds(r, n)'

Keeps(r) == /\ Same
            /\ Kind[r] \in Things => \A n \in NamesOf(Kind[r]) :
                  /\ Holds(r, n)' => Holds(r, n)
                  /\ Holds(r, n) /\ On(Kind[r], n) => Holds(r, n)'

Unmakes(r) == pc[r] = "drop" /\ Shrinks(r) /\ \A n : ~Holds(r, n)'

LosesUnmade(r) == /\ pc[r] = "drop" /\ Shrinks(r) /\ "drop_lost" \in faults'
                  /\ \A n : Holds(r, n)' <=> Holds(r, n)

Moves(r) == Makes(r) \/ LosesMade(r) \/ Keeps(r) \/ Unmakes(r) \/ LosesUnmade(r)

LEMMA AlterKeepsServer ==
    ASSUME TypeOK, NEW r \in Res, cfg[r] # Nil, server' = Made(r, cfg[r]),
           Kind[r] \in {"database", "defaults"}, CanAlter(r, cfg[r])
    PROVE  Same
<1>1. Grows(r)
    BY MadeGrows
<1>2. Kind[r] \in Things => On(Kind[r], cfg[r].name)
    BY DEF Things, CanAlter, On
<1> QED
    BY <1>1, <1>2 DEF Grows, Same

LEMMA FaultsStay == ASSUME NEW kind, Fault(kind) PROVE faults \subseteq faults' /\ kind \in faults'
BY DEF Fault

LEMMA MovesInv ==
    ASSUME TypeInv, NEW r \in Res
    PROVE  /\ TypeOK /\ At(r) /\ pc \in [Res -> PC] /\ st = [u \in Res |-> st[u]]
           /\ server \in Server /\ st[r] \in State(r) \cup {Nil}
BY DEF TypeInv, HandlerInv, TypeOK

LEMMA CreateMoves ==
    ASSUME TypeInv, NEW r \in Res, Create(r)
    PROVE  Makes(r)
<1>0. /\ TypeOK /\ At(r) /\ pc \in [Res -> PC] /\ st = [u \in Res |-> st[u]]
    BY MovesInv
<1>1. /\ pc[r] = "create" /\ cfg[r] # Nil /\ st[r] = Nil /\ CanMake(r, cfg[r])
      /\ server' = Made(r, cfg[r]) /\ UNCHANGED cfg
    BY <1>0 DEF Create, Goto, At
<1>2. Grows(r)
    BY <1>0, <1>1, MadeGrows
<1>3. CASE ReadsBack(r)
  <2>1. pc'[r] = "readback" /\ st'[r] = Nil
      BY <1>0, <1>1, <1>3 DEF Create, Goto
  <2> QED
      BY <1>1, <1>2, <2>1 DEF Makes, Holds
<1>4. CASE ~ReadsBack(r)
  <2>1. pc'[r] = "done" /\ st'[r] = Planned(r, FALSE)
      BY <1>0, <1>4 DEF Create, Goto, Save
  <2>2. st'[r] # Nil /\ st'[r].name = cfg[r].name
      BY <1>0, <1>1, <2>1, PlannedType
  <2> QED
      BY <1>1, <1>2, <2>1, <2>2 DEF Makes, Holds
<1> QED
    BY <1>3, <1>4

LEMMA CreateFailsMoves ==
    ASSUME TypeInv, NEW r \in Res, CreateFails(r)
    PROVE  Keeps(r) \/ LosesMade(r)
<1>0. /\ TypeOK /\ At(r) /\ pc \in [Res -> PC] /\ st = [u \in Res |-> st[u]]
    BY MovesInv
<1>1. /\ pc[r] = "create" /\ cfg[r] # Nil /\ st[r] = Nil
      /\ pc'[r] = "failed" /\ UNCHANGED <<st, cfg>>
    BY <1>0 DEF CreateFails, Goto, At
<1>2. \A n : ~Holds(r, n) /\ ~Holds(r, n)'
    BY <1>1 DEF Holds
<1>3. CASE UNCHANGED server
    BY <1>2, <1>3, SameServer DEF Keeps
<1>4. CASE CanMake(r, cfg[r]) /\ Fault("lost") /\ server' = Made(r, cfg[r])
  <2>1. Grows(r) /\ "lost" \in faults'
      BY <1>0, <1>1, <1>4, MadeGrows, FaultsStay
  <2> QED
      BY <1>1, <1>2, <2>1 DEF LosesMade
<1> QED
    BY <1>3, <1>4 DEF CreateFails

LEMMA ReadBackMoves ==
    ASSUME TypeInv, NEW r \in Res, ReadBack(r) \/ ReadBackFails(r)
    PROVE  Keeps(r)
<1>0. /\ TypeOK /\ At(r) /\ pc \in [Res -> PC] /\ st = [u \in Res |-> st[u]]
    BY MovesInv
<1>1. /\ pc[r] = "readback" /\ cfg[r] # Nil /\ (st[r] # Nil => st[r].name = cfg[r].name)
      /\ UNCHANGED <<server, cfg>>
    BY <1>0 DEF ReadBack, ReadBackFails, Goto, At
<1>2. Same
    BY <1>1, SameServer
<1>3. \A n : Holds(r, n) <=> n = cfg[r].name
    BY <1>1 DEF Holds
<1>4. CASE ReadBack(r)
  <2> DEFINE read == Read(r, Planned(r, FALSE))
  <2>1. Planned(r, FALSE) \in State(r) /\ Planned(r, FALSE).name = cfg[r].name
      BY <1>0, <1>1, PlannedType
  <2>2. st'[r] = read /\ pc'[r] \in {"done", "failed"}
      BY <1>0, <1>4 DEF ReadBack, Goto, Save
  <2>3. read # Nil => read.name = cfg[r].name
      BY <1>0, <2>1, ReadType
  <2>4. Kind[r] \in Things /\ On(Kind[r], cfg[r].name) => read # Nil
      BY <1>0, <2>1, ReadIsTrue
  <2> HIDE DEF read
  <2>5. \A n : Holds(r, n)' <=> read # Nil /\ n = cfg[r].name
      BY <1>1, <2>2, <2>3 DEF Holds
  <2> QED
      BY <1>2, <1>3, <2>4, <2>5 DEF Keeps
<1>5. CASE ReadBackFails(r)
  <2>1. st'[r] = Planned(r, plan[r] # "update") /\ pc'[r] = "failed"
      BY <1>0, <1>5 DEF ReadBackFails, Goto, Save
  <2>2. st'[r] # Nil /\ st'[r].name = cfg[r].name
      BY <1>0, <1>1, <2>1, PlannedType
  <2>3. \A n : Holds(r, n)' <=> n = cfg[r].name
      BY <2>1, <2>2 DEF Holds
  <2> QED
      BY <1>2, <1>3, <2>3 DEF Keeps
<1> QED
    BY <1>4, <1>5

LEMMA UpdateMoves ==
    ASSUME TypeInv, NEW r \in Res, Update(r) \/ UpdateFails(r)
    PROVE  Keeps(r)
<1>0. /\ TypeOK /\ At(r) /\ pc \in [Res -> PC] /\ st = [u \in Res |-> st[u]]
    BY MovesInv
<1>1. /\ pc[r] = "alter" /\ cfg[r] # Nil /\ st[r] # Nil /\ st[r].name = cfg[r].name
      /\ Kind[r] \in {"database", "defaults"}
      /\ UNCHANGED cfg
    BY <1>0 DEF Update, UpdateFails, Goto, At
<1>2. Same
  <2>1. CASE UNCHANGED server
      BY <2>1, SameServer
  <2>2. CASE CanAlter(r, cfg[r]) /\ server' = Made(r, cfg[r])
      BY <1>0, <1>1, <2>2, AlterKeepsServer
  <2> QED
      BY <2>1, <2>2 DEF Update, UpdateFails
<1>3. \A n : Holds(r, n) <=> n = cfg[r].name
    BY <1>1 DEF Holds
<1>4. CASE Update(r) /\ ReadsBack(r)
  <2>1. st'[r] = st[r] /\ pc'[r] = "readback"
      BY <1>0, <1>4 DEF Update, Goto
  <2>2. \A n : Holds(r, n)' <=> n = cfg[r].name
      BY <1>1, <2>1 DEF Holds
  <2> QED
      BY <1>2, <1>3, <2>2 DEF Keeps
<1>5. CASE UpdateFails(r) \/ ~ReadsBack(r)
  <2>1. st'[r] = Planned(r, FALSE) /\ pc'[r] \in {"done", "failed"}
      BY <1>0, <1>5 DEF Update, UpdateFails, Goto, Save
  <2>2. st'[r] # Nil /\ st'[r].name = cfg[r].name
      BY <1>0, <1>1, <2>1, PlannedType
  <2>3. \A n : Holds(r, n)' <=> n = cfg[r].name
      BY <2>1, <2>2 DEF Holds
  <2> QED
      BY <1>2, <1>3, <2>3 DEF Keeps
<1> QED
    BY <1>4, <1>5

LEMMA DeleteMoves ==
    ASSUME TypeInv, NEW r \in Res, Delete(r)
    PROVE  Unmakes(r)
<1>0. /\ TypeOK /\ At(r) /\ pc \in [Res -> PC] /\ st = [u \in Res |-> st[u]]
    BY MovesInv
<1>1. /\ pc[r] = "drop" /\ st[r] # Nil /\ CanDrop(r, st[r]) /\ server' \in Unmade(r, st[r])
      /\ st'[r] = Nil /\ pc'[r] \in {"create", "done"}
    BY <1>0 DEF Delete, Goto, At, Save
<1>2. Shrinks(r)
    BY <1>0, <1>1, UnmadeShrinks
<1> QED
    BY <1>1, <1>2 DEF Unmakes, Holds

LEMMA DeleteFailsMoves ==
    ASSUME TypeInv, NEW r \in Res, DeleteFails(r) \/ Skip(r)
    PROVE  Keeps(r) \/ LosesUnmade(r)
<1>0. /\ TypeOK /\ At(r) /\ pc \in [Res -> PC] /\ st = [u \in Res |-> st[u]]
    BY MovesInv
<1>1. pc[r] # "readback" /\ pc'[r] = "failed" /\ UNCHANGED <<st, cfg>>
    BY <1>0 DEF DeleteFails, Skip, Goto
<1>2. \A n : Holds(r, n) <=> Holds(r, n)'
    BY <1>1 DEF Holds
<1>3. CASE UNCHANGED server
    BY <1>2, <1>3, SameServer DEF Keeps
<1>4. CASE DeleteFails(r) /\ CanDrop(r, st[r]) /\ Fault("drop_lost") /\ server' \in Unmade(r, st[r])
  <2>1. pc[r] = "drop" /\ st[r] # Nil
      BY <1>0, <1>4 DEF DeleteFails, Goto, At
  <2>2. Shrinks(r) /\ "drop_lost" \in faults'
      BY <1>0, <1>4, <2>1, UnmadeShrinks, FaultsStay
  <2> QED
      BY <1>2, <2>1, <2>2 DEF LosesUnmade
<1> QED
    BY <1>3, <1>4 DEF DeleteFails, Skip

LEMMA HandlerMoves ==
    ASSUME TypeInv, NEW r \in Res, Handler(r)
    PROVE  /\ Moves(r)
           /\ pc[r] \in {"create", "readback", "alter", "drop"}
           /\ faults \subseteq faults'
           /\ \A u \in Res \ {r} : \A n : Holds(u, n)' <=> Holds(u, n)
<1>0. /\ TypeOK /\ At(r) /\ pc \in [Res -> PC] /\ st = [u \in Res |-> st[u]]
    BY MovesInv
<1>1. Moves(r)
    BY CreateMoves, CreateFailsMoves, ReadBackMoves, UpdateMoves, DeleteMoves, DeleteFailsMoves
    DEF Handler, Moves
<1>2. pc[r] \in {"create", "readback", "alter", "drop"}
    BY DEF Handler, Create, CreateFails, ReadBack, ReadBackFails, Update, UpdateFails, Delete,
           DeleteFails, Skip, Goto
<1>3. faults \subseteq faults'
    BY FaultsStay DEF Handler, Create, CreateFails, ReadBack, ReadBackFails, Update, UpdateFails,
                      Delete, DeleteFails, Skip
<1>4. UNCHANGED cfg /\ \A u \in Res \ {r} : st'[u] = st[u] /\ pc'[u] = pc[u]
    BY <1>0 DEF Handler, Create, CreateFails, ReadBack, ReadBackFails, Update, UpdateFails, Delete,
           DeleteFails, Skip, Goto, Save
<1> QED
    BY <1>1, <1>2, <1>3, <1>4 DEF Holds

------------------------------------------------------------------------------
(* Nothing on the server is forgotten, and nothing is held twice                *)

LEMMA SureBefore ==
    ASSUME faults \subseteq faults', NEW k
    PROVE  (Sure(k)' => Sure(k)) /\ (Quiet' => Quiet)
BY DEF Sure, Quiet

\* A step from "create" finds r with nothing, and one from "drop" with what is dropped.
LEMMA HoldsBefore ==
    ASSUME TypeInv, NEW r \in Res
    PROVE  /\ pc[r] = "create" => \A n : ~Holds(r, n)
           /\ pc[r] = "drop" => \A n : Holds(r, n) <=> n = st[r].name
BY MovesInv DEF At, Holds

LEMMA HandlerKeepsHold ==
    ASSUME TypeInv, HoldInv, NEW r \in Res, Handler(r)
    PROVE  HoldInv'
<1>0. /\ Moves(r) /\ faults \subseteq faults' /\ Working
      /\ \A u \in Res \ {r} : \A n : Holds(u, n)' <=> Holds(u, n)
    BY HandlerMoves DEF Working
<1>1. /\ pc[r] = "create" => \A n : ~Holds(r, n)
      /\ pc[r] = "drop" => \A n : Holds(r, n) <=> n = st[r].name
    BY HoldsBefore
<1>2. ASSUME Quiet', NEW k \in Things, NEW n \in NamesOf(k), On(k, n)'
      PROVE  \E u \in Res : Kind[u] = k /\ Holds(u, n)'
  <2>1. On(k, n) => \E u \in Res : Kind[u] = k /\ Holds(u, n)
      BY <1>0, <1>2, SureBefore DEF HoldInv, KnownInv
  <2>2. CASE Makes(r)
    <3>1. CASE On(k, n)
        BY <1>0, <1>1, <2>1, <2>2, <3>1 DEF Makes
    <3>2. CASE ~On(k, n)
      <4>1. k = Kind[r] /\ n = cfg[r].name
          BY <1>2, <2>2, <3>2 DEF Makes, Grows
      <4> QED
          BY <1>2, <2>2, <4>1 DEF Makes
    <3> QED
        BY <3>1, <3>2
  <2>3. CASE LosesMade(r)
      BY <1>2, <2>3 DEF LosesMade, Quiet
  <2>4. CASE Keeps(r)
    <3>1. On(k, n)
        BY <1>2, <2>4 DEF Keeps, Same
    <3>2. PICK u \in Res : Kind[u] = k /\ Holds(u, n)
        BY <2>1, <3>1
    <3> QED
        BY <1>0, <2>4, <3>1, <3>2 DEF Keeps
  <2>5. CASE Unmakes(r) \/ LosesUnmade(r)
    <3>1. On(k, n) /\ ~(k = Kind[r] /\ n = st[r].name) /\ pc[r] = "drop"
        BY <1>2, <2>5 DEF Unmakes, LosesUnmade, Shrinks
    <3>2. PICK u \in Res : Kind[u] = k /\ Holds(u, n)
        BY <2>1, <3>1
    <3>3. u # r
        BY <1>1, <3>1, <3>2
    <3> QED
        BY <1>0, <3>2, <3>3
  <2> QED
      BY <1>0, <2>2, <2>3, <2>4, <2>5 DEF Moves
<1>3. ASSUME NEW u \in Res, Kind[u] \in Things, Sure(Kind[u])',
             NEW n \in NamesOf(Kind[u]), Holds(u, n)'
      PROVE  On(Kind[u], n)'
  <2>1. Sure(Kind[u])
      BY <1>0, <1>3, SureBefore
  <2>2. Holds(u, n) => On(Kind[u], n)
      BY <1>0, <1>3, <2>1 DEF HoldInv, TrueInv
  <2>3. CASE Makes(r)
    <3>1. CASE u = r
        BY <1>3, <2>3, <3>1 DEF Makes, Grows
    <3>2. CASE u # r
        BY <1>0, <1>3, <2>2, <2>3, <3>2 DEF Makes, Grows
    <3> QED
        BY <3>1, <3>2
  <2>4. CASE LosesMade(r)
    <3>1. u # r
        BY <1>3, <2>4 DEF LosesMade
    <3> QED
        BY <1>0, <1>3, <2>2, <2>4, <3>1 DEF LosesMade, Grows
  <2>5. CASE Keeps(r)
      BY <1>0, <1>3, <2>2, <2>5 DEF Keeps, Same
  <2>6. CASE Unmakes(r)
    <3>1. u # r /\ Holds(u, n) /\ On(Kind[u], n)
        BY <1>0, <1>3, <2>2, <2>6 DEF Unmakes
    <3>2. ~(Kind[u] = Kind[r] /\ n = st[r].name)
        BY <1>1, <1>3, <2>1, <2>6, <3>1 DEF Unmakes, HoldInv, UniqueInv
    <3> QED
        BY <1>3, <2>6, <3>1, <3>2 DEF Unmakes, Shrinks
  <2>7. CASE LosesUnmade(r)
      BY <1>3, <2>7 DEF LosesUnmade, Sure
  <2> QED
      BY <1>0, <2>3, <2>4, <2>5, <2>6, <2>7 DEF Moves
<1>4. ASSUME NEW u \in Res, NEW v \in Res, u # v, Kind[u] = Kind[v], Kind[u] \in Things,
             Sure(Kind[u])', NEW n \in NamesOf(Kind[u]), Holds(u, n)', Holds(v, n)'
      PROVE  FALSE
  <2>1. Sure(Kind[u])
      BY <1>0, <1>4, SureBefore
  <2>2. ~(Holds(u, n) /\ Holds(v, n))
      BY <1>4, <2>1 DEF HoldInv, UniqueInv
  <2>3. /\ Holds(u, n) => On(Kind[u], n)
        /\ Holds(v, n) => On(Kind[u], n)
      BY <1>0, <1>4, <2>1 DEF HoldInv, TrueInv
  <2>4. CASE Makes(r)
    <3>1. Kind[r] = Kind[u] => ~On(Kind[u], cfg[r].name)
        BY <1>4, <2>4, MakeIsNew DEF Makes
    <3>2. CASE u = r
      <4>1. n = cfg[r].name /\ Holds(v, n)
          BY <1>0, <1>4, <2>4, <3>2 DEF Makes
      <4> QED
          BY <2>3, <3>1, <3>2, <4>1
    <3>3. CASE v = r
      <4>1. n = cfg[r].name /\ Holds(u, n)
          BY <1>0, <1>4, <2>4, <3>3 DEF Makes
      <4> QED
          BY <1>4, <2>3, <3>1, <3>3, <4>1
    <3> QED
        BY <1>0, <1>4, <2>2, <3>2, <3>3
  <2>5. CASE ~Makes(r)
    <3>1. ASSUME NEW w \in Res, Kind[w] = Kind[u], Holds(w, n)' PROVE Holds(w, n)
        BY <1>0, <1>4, <2>5, <3>1 DEF Moves, LosesMade, Keeps, Unmakes, LosesUnmade
    <3> QED
        BY <1>4, <2>2, <3>1
  <2> QED
      BY <2>4, <2>5
<1>5. KnownInv'
    BY <1>2 DEF KnownInv
<1>6. TrueInv'
    BY <1>3 DEF TrueInv
<1>7. UniqueInv'
    BY <1>4 DEF UniqueInv
<1> QED
    BY <1>5, <1>6, <1>7 DEF HoldInv

LEMMA RefreshKeepsHold ==
    ASSUME TypeInv, HoldInv, Refresh
    PROVE  HoldInv'
<1>0. /\ TypeOK /\ UNCHANGED <<server, cfg>> /\ Same
      /\ \A r \in Res : pc[r] = "refresh" /\ st[r] \in State(r) \cup {Nil}
    BY SameServer DEF TypeInv, TypeOK, Refresh
<1>1. PICK seen : /\ seen = [r \in Res |-> seen[r]]
                  /\ \A r \in Res : \/ seen[r] = Refreshed(r)
                                    \/ Kind[r] = "role" /\ seen[r] = Nil /\ "unread" \in faults'
                  /\ StartApply(seen)
                  /\ UNCHANGED faults \/ \E kind : Fault(kind)
    BY <1>0, RefreshSees
<1>2. faults \subseteq faults'
    BY <1>1, FaultsStay
<1>3. ASSUME NEW r \in Res
      PROVE  st'[r] = seen[r] /\ pc'[r] # "readback"
  <2>1. seen[r] \in State(r) \cup {Nil}
      BY <1>0, <1>1, SeenType
  <2> QED
      BY <1>0, <1>1, <2>1, PlanType DEF StartApply
<1>5. ASSUME NEW r \in Res, seen[r] # Nil
      PROVE  /\ st[r] # Nil /\ st[r].name = seen[r].name
             /\ Kind[r] \in Things /\ Kind[r] # "sql" => On(Kind[r], seen[r].name)
  <2>1. st[r] \in State(r) /\ st[r] # Nil /\ seen[r] = Read(r, st[r])
      BY <1>0, <1>1, <1>5 DEF Refreshed
  <2> QED
      BY <1>0, <1>5, <2>1, ReadType, ReadIsTrue
<1>6. ASSUME Quiet', NEW k \in Things, NEW n \in NamesOf(k), On(k, n)'
      PROVE  \E r \in Res : Kind[r] = k /\ Holds(r, n)'
  <2>1. On(k, n)
      BY <1>0, <1>6 DEF Same
  <2>2. PICK r \in Res : Kind[r] = k /\ Holds(r, n)
      BY <1>2, <1>6, <2>1, SureBefore DEF HoldInv, KnownInv
  <2>3. st[r] \in State(r) /\ st[r] # Nil /\ st[r].name = n
      BY <1>0, <2>2 DEF Holds
  <2>4. Read(r, st[r]) # Nil /\ Read(r, st[r]).name = n
      BY <1>0, <1>6, <2>1, <2>2, <2>3, ReadType, ReadIsTrue
  <2>5. seen[r] = Read(r, st[r])
      BY <1>1, <1>6, <2>3 DEF Refreshed, Quiet
  <2> QED
      BY <1>3, <2>2, <2>4, <2>5 DEF Holds
<1>7. ASSUME NEW r \in Res, Kind[r] \in Things, Sure(Kind[r])', NEW n \in NamesOf(Kind[r]), Holds(r, n)'
      PROVE  On(Kind[r], n)'
  <2>1. seen[r] # Nil /\ seen[r].name = n
      BY <1>3, <1>7 DEF Holds
  <2>2. Holds(r, n)
      BY <1>5, <2>1 DEF Holds
  <2>3. On(Kind[r], n)
    <3>1. CASE Kind[r] = "sql"
        BY <1>2, <1>7, <2>2, <3>1, SureBefore DEF HoldInv, TrueInv
    <3>2. CASE Kind[r] # "sql"
        BY <1>5, <1>7, <2>1, <3>2
    <3> QED
        BY <3>1, <3>2
  <2> QED
      BY <1>0, <1>7, <2>3 DEF Same
<1>8. \A r \in Res : \A n : Holds(r, n)' => Holds(r, n)
    BY <1>3, <1>5 DEF Holds
<1>9. KnownInv'
    BY <1>6 DEF KnownInv
<1>10. TrueInv'
    BY <1>7 DEF TrueInv
<1>11. UniqueInv'
    BY <1>2, <1>8, SureBefore DEF HoldInv, UniqueInv
<1> QED
    BY <1>9, <1>10, <1>11 DEF HoldInv

\* Steps after which no handler is at work, and that change neither server nor state
LEMMA StillHolds ==
    ASSUME HoldInv, UNCHANGED <<server, st>>, faults \subseteq faults',
           \A r \in Res : pc'[r] \in {"refresh", "done", "failed"},
           \/ \A r \in Res : pc[r] # "readback"
           \/ "crash" \in faults'
    PROVE  HoldInv'
<1>1. Same
    BY SameServer
<1>2. \A r \in Res : \A n : Holds(r, n)' => Holds(r, n)
    BY DEF Holds
<1>3. ~Working'
    BY DEF Working
<1>4. KnownInv'
  <2>1. CASE "crash" \in faults'
      BY <2>1 DEF KnownInv, Quiet
  <2>2. CASE \A r \in Res : pc[r] # "readback"
    <3>1. \A r \in Res : \A n : Holds(r, n)' <=> Holds(r, n)
        BY <2>2 DEF Holds
    <3> QED
        BY <1>1, <3>1, SureBefore DEF HoldInv, KnownInv, Same
  <2> QED
      BY <2>1, <2>2
<1>5. TrueInv'
  <2> SUFFICES ASSUME NEW r \in Res, Kind[r] = "sql", Sure(Kind[r])', Kind[r] \in Things,
                      NEW n \in NamesOf(Kind[r]), Holds(r, n)'
               PROVE  On(Kind[r], n)'
      BY <1>3 DEF TrueInv
  <2>1. Holds(r, n) /\ Sure(Kind[r])
      BY <1>2, SureBefore
  <2>2. On(Kind[r], n)
      BY <2>1 DEF HoldInv, TrueInv
  <2> QED
      BY <1>1, <2>2 DEF Same
<1>6. UniqueInv'
    BY <1>2, SureBefore DEF HoldInv, UniqueInv
<1> QED
    BY <1>4, <1>5, <1>6 DEF HoldInv

\* Without the reply of the dying process a CREATE that the server has run leaves what
\* nobody holds.
LEMMA CrashKeepsHold ==
    ASSUME TypeInv, HoldInv, NEW r \in Res, Crash(r)
    PROVE  HoldInv'
<1>1. /\ UNCHANGED <<st, cfg>> /\ "crash" \in faults' /\ faults \subseteq faults'
      /\ \A u \in Res : pc'[u] = "failed"
    BY FaultsStay DEF Crash
<1>2. KnownInv'
    BY <1>1 DEF KnownInv, Quiet
<1>3. TrueInv'
  <2>1. ~Working' /\ ~Sure("sql")'
      BY <1>1 DEF Working, Sure
  <2> QED
      BY <2>1 DEF TrueInv
<1>4. UniqueInv'
  <2>1. \A u \in Res : \A n : Holds(u, n)' => Holds(u, n)
      BY <1>1 DEF Holds
  <2> QED
      BY <1>1, <2>1, SureBefore DEF HoldInv, UniqueInv
<1> QED
    BY <1>2, <1>3, <1>4 DEF HoldInv

\* Who drops something by hand leaves a state that is no longer true.
LEMMA OutsideKeepsHold ==
    ASSUME TypeInv, HoldInv, NEW r \in Res, Outside(r)
    PROVE  HoldInv'
<1>1. /\ UNCHANGED <<st, cfg, pc>> /\ faults \subseteq faults' /\ Kind[r] # "sql"
      /\ \A u \in Res : pc[u] \in {"done", "failed"}
      /\ st[r] # Nil /\ CanDrop(r, st[r]) /\ server' \in Unmade(r, st[r])
    BY FaultsStay DEF Outside, RunEnded, Ended
<1>2. Shrinks(r)
    BY <1>1, UnmadeShrinks DEF TypeInv
<1>3. \A u \in Res : \A n : Holds(u, n)' <=> Holds(u, n)
    BY <1>1 DEF Holds
<1>4. ~Working'
    BY <1>1 DEF Working
<1>5. ASSUME Quiet', NEW k \in Things, NEW n \in NamesOf(k), On(k, n)'
      PROVE  \E u \in Res : Kind[u] = k /\ Holds(u, n)'
    BY <1>1, <1>2, <1>3, <1>5, SureBefore DEF HoldInv, KnownInv, Shrinks
<1>6. ASSUME NEW u \in Res, Kind[u] = "sql", Kind[u] \in Things, Sure(Kind[u])',
             NEW n \in NamesOf(Kind[u]), Holds(u, n)'
      PROVE  On(Kind[u], n)'
  <2>1. On(Kind[u], n)
      BY <1>1, <1>3, <1>6, SureBefore DEF HoldInv, TrueInv
  <2> QED
      BY <1>1, <1>2, <1>6, <2>1 DEF Shrinks
<1>7. UniqueInv'
    BY <1>1, <1>3, SureBefore DEF HoldInv, UniqueInv
<1>8. KnownInv' /\ TrueInv'
    BY <1>4, <1>5, <1>6 DEF KnownInv, TrueInv
<1> QED
    BY <1>7, <1>8 DEF HoldInv

\* What a block imports no other block has.
LEMMA ImportKeepsHold ==
    ASSUME TypeInv, HoldInv, NEW r \in Res, Import(r)
    PROVE  HoldInv'
<1> DEFINE read == Read(r, Planned(r, FALSE))
<1>1. /\ UNCHANGED <<server, cfg, pc, faults>> /\ Kind[r] \in {"database", "defaults"}
      /\ \A u \in Res : pc[u] \in {"done", "failed"}
      /\ st[r] = Nil /\ cfg[r] # Nil /\ read # Nil /\ st' = [st EXCEPT ![r] = read]
      /\ \A u \in Res : st[u] # Nil /\ Kind[u] = Kind[r] => st[u].name # cfg[r].name
    BY DEF Import, RunEnded, Ended, Save
<1>2. read.name = cfg[r].name
  <2>1. Planned(r, FALSE) \in State(r) /\ Planned(r, FALSE).name = cfg[r].name
      BY <1>1, PlannedType DEF TypeInv
  <2> QED
      BY <1>1, <2>1, ReadType DEF TypeInv
<1> HIDE DEF read
<1>3. st'[r] = read /\ \A u \in Res \ {r} : st'[u] = st[u]
    BY <1>1 DEF TypeInv, HandlerInv
<1>4. /\ \A u \in Res \ {r} : \A n : Holds(u, n)' <=> Holds(u, n)
      /\ \A n : ~Holds(r, n) /\ (Holds(r, n)' <=> n = cfg[r].name)
      /\ \A u \in Res : Kind[u] = Kind[r] => ~Holds(u, cfg[r].name)
    BY <1>1, <1>2, <1>3 DEF Holds
<1>5. Same /\ ~Working'
    BY <1>1, SameServer DEF Working
<1>6. \A k : (Sure(k)' <=> Sure(k)) /\ (Quiet' <=> Quiet)
    BY <1>1 DEF Sure, Quiet
<1>7. ASSUME Quiet', NEW k \in Things, NEW n \in NamesOf(k), On(k, n)'
      PROVE  \E u \in Res : Kind[u] = k /\ Holds(u, n)'
  <2>1. PICK u \in Res : Kind[u] = k /\ Holds(u, n)
      BY <1>5, <1>6, <1>7 DEF HoldInv, KnownInv, Same
  <2> QED
      BY <1>4, <2>1
<1>8. ASSUME NEW u \in Res, Kind[u] = "sql", Kind[u] \in Things, Sure(Kind[u])',
             NEW n \in NamesOf(Kind[u]), Holds(u, n)'
      PROVE  On(Kind[u], n)'
  <2>1. Holds(u, n)
      BY <1>1, <1>4, <1>8
  <2>2. On(Kind[u], n)
      BY <1>6, <1>8, <2>1 DEF HoldInv, TrueInv
  <2> QED
      BY <1>5, <1>8, <2>2 DEF Same
<1>9. ASSUME NEW u \in Res, NEW v \in Res, u # v, Kind[u] = Kind[v], Kind[u] \in Things,
             Sure(Kind[u])', NEW n \in NamesOf(Kind[u]), Holds(u, n)', Holds(v, n)'
      PROVE  FALSE
  <2>1. ~(Holds(u, n) /\ Holds(v, n))
      BY <1>6, <1>9 DEF HoldInv, UniqueInv
  <2> QED
      BY <1>4, <1>9, <2>1
<1>10. KnownInv' /\ TrueInv' /\ UniqueInv'
    BY <1>5, <1>7, <1>8, <1>9 DEF KnownInv, TrueInv, UniqueInv
<1> QED
    BY <1>10 DEF HoldInv

LEMMA InitHold == Init => HoldInv
<1> SUFFICES ASSUME Init PROVE HoldInv
    OBVIOUS
<1>1. \A r \in Res : \A n : ~Holds(r, n)
    BY DEF Init, Holds
<1>2. \A k \in Things : \A n \in NamesOf(k) : ~On(k, n)
    BY DEF Init, On, Things, NamesOf, HasAccount
<1> QED
    BY <1>1, <1>2 DEF HoldInv, KnownInv, TrueInv, UniqueInv

LEMMA NextKeepsHold ==
    ASSUME TypeInv, HoldInv, [Next]_vars
    PROVE  HoldInv'
<1>1. CASE RefreshFails
  <2>1. /\ UNCHANGED <<server, st>> /\ faults \subseteq faults'
        /\ \A r \in Res : pc[r] = "refresh" /\ pc'[r] = "failed"
      BY <1>1, FaultsStay DEF RefreshFails
  <2> QED
      BY <2>1, StillHolds
<1>2. CASE NewRun
  <2>1. /\ UNCHANGED <<server, st, faults>>
        /\ \A r \in Res : pc[r] \in {"done", "failed"} /\ pc'[r] = "refresh"
      BY <1>2 DEF NewRun, RunEnded, Ended
  <2> QED
      BY <2>1, StillHolds
<1>3. CASE UNCHANGED vars
  <2>1. /\ \A r, n : Holds(r, n)' <=> Holds(r, n)
        /\ \A k, n : On(k, n)' <=> On(k, n)
        /\ \A k : Sure(k)' <=> Sure(k)
        /\ (Quiet' <=> Quiet) /\ (Working' <=> Working)
      BY <1>3 DEF vars, Quiet, Sure, Working, Holds, On, HasAccount
  <2>2. KnownInv'
      BY <2>1 DEF HoldInv, KnownInv
  <2>3. TrueInv'
      BY <2>1 DEF HoldInv, TrueInv
  <2>4. UniqueInv'
      BY <2>1 DEF HoldInv, UniqueInv
  <2> QED
      BY <2>2, <2>3, <2>4 DEF HoldInv
<1> QED
    BY <1>1, <1>2, <1>3, RefreshKeepsHold, HandlerKeepsHold, CrashKeepsHold, OutsideKeepsHold,
       ImportKeepsHold DEF Next

LEMMA KnownIsNoOrphan == ASSUME TypeInv, KnownInv PROVE NoOrphan
<1> SUFFICES ASSUME RunEnded, Quiet PROVE NoOrphan
    BY DEF NoOrphan, Quiet
<1>1. ASSUME NEW k \in Things, NEW n \in NamesOf(k), On(k, n)
      PROVE  \E r \in Res : Kind[r] = k /\ st[r] # Nil /\ st[r].name = n
  <2>1. PICK r \in Res : Kind[r] = k /\ Holds(r, n)
      BY <1>1 DEF KnownInv
  <2> QED
      BY <2>1 DEF Holds, RunEnded, Ended
<1>2. server \in Server
    BY DEF TypeInv, TypeOK
<1>3. \A n \in DbName : server.database[n] # Nil =>
           \E r \in Res : Kind[r] = "database" /\ st[r] # Nil /\ st[r].name = n
    BY <1>1 DEF Things, NamesOf, On
<1>4. \A n \in server.role : \E r \in Res : Kind[r] = "role" /\ st[r] # Nil /\ st[r].name = n
    BY <1>1, <1>2 DEF Things, NamesOf, On, Server
<1>5. \A n \in server.made : \E r \in Res : Kind[r] = "sql" /\ st[r] # Nil /\ st[r].name = n
    BY <1>1, <1>2 DEF Things, NamesOf, On, Server
<1>6. HasAccount => \E r \in Res : Kind[r] = "account" /\ st[r] # Nil
    BY <1>1 DEF Things, NamesOf, On
<1> QED
    BY <1>3, <1>4, <1>5, <1>6 DEF NoOrphan

\* What the server has at the end of a run is in terraform's state, unless a reply was
\* lost, a process died or a role was taken for gone: a failed read after CREATE DATABASE
\* or a refused DROP forgets nothing, however many blocks, names and runs there are.
THEOREM NothingForgotten == Safe => []NoOrphan
<1>1. TypeInv /\ HoldInv => NoOrphan
    BY KnownIsNoOrphan DEF HoldInv
<1> QED
    BY InitType, InitHold, NextKeepsType, NextKeepsHold, <1>1, PTL DEF Safe

------------------------------------------------------------------------------
(* What is declared is not dropped                                              *)

\* What a step does to the things on the server
LEMMA ServerMoves ==
    ASSUME TypeInv, [Next]_vars
    PROVE  \/ Same
           \/ \E s \in Res : Grows(s)
           \/ \E s \in Res : pc[s] = "drop" /\ Shrinks(s)
           \/ "outside" \in faults' /\ "outside" \notin faults
<1>1. CASE UNCHANGED server
    BY <1>1, SameServer
<1>2. ASSUME NEW s \in Res, Handler(s)
      PROVE  Same \/ Grows(s) \/ (pc[s] = "drop" /\ Shrinks(s))
    BY <1>2, HandlerMoves DEF Moves, Makes, LosesMade, Keeps, Unmakes, LosesUnmade
<1>3. ASSUME NEW s \in Res, Crash(s)
      PROVE  Same \/ Grows(s) \/ (pc[s] = "drop" /\ Shrinks(s))
  <2>0. TypeOK /\ At(s)
      BY MovesInv
  <2>1. CASE pc[s] = "create" /\ CanMake(s, cfg[s]) /\ server' = Made(s, cfg[s])
      BY <2>0, <2>1, MadeGrows DEF At
  <2>2. CASE pc[s] = "alter" /\ CanAlter(s, cfg[s]) /\ server' = Made(s, cfg[s])
      BY <2>0, <2>2, MadeGrows DEF At
  <2>3. CASE pc[s] = "drop" /\ CanDrop(s, st[s]) /\ server' \in Unmade(s, st[s])
      BY <2>0, <2>3, UnmadeShrinks DEF At
  <2>4. CASE UNCHANGED server
      BY <2>4, SameServer
  <2> QED
      BY <1>3, <2>1, <2>2, <2>3, <2>4 DEF Crash
<1>4. ASSUME NEW s \in Res, Outside(s) PROVE "outside" \in faults' /\ "outside" \notin faults
    BY <1>4 DEF Outside, Fault
<1>5. Refresh \/ RefreshFails \/ NewRun \/ (\E s \in Res : Import(s)) \/ UNCHANGED vars => UNCHANGED server
    BY DEF Refresh, RefreshFails, NewRun, Import, vars
<1> QED
    BY <1>1, <1>2, <1>3, <1>4, <1>5 DEF Next

\* Present says of a block what On says of its kind and name.
LEMMA PresentIsOn ==
    ASSUME NEW r \in Res, Kind[r] \in Things, NEW s
    PROVE  (Present(r, s) <=> On(Kind[r], s.name)) /\ (Present(r, s)' <=> On(Kind[r], s.name)')
BY DEF Present, On, Things

LEMMA StandsOn ==
    ASSUME TypeInv, HoldInv, [Next]_vars, NEW r \in Res, Stands(r), cfg'[r] = cfg[r],
           "drop_lost" \notin faults, Kind[r] = "sql" => "crash" \notin faults,
           "outside" \in faults' => "outside" \in faults
    PROVE  Present(r, cfg[r])'
<1>0. PICK n : n = cfg[r].name
    OBVIOUS
<1>1. /\ Kind[r] \in Things /\ st[r] \in State(r) /\ st[r] # Nil /\ st[r].name = n
      /\ On(Kind[r], n) /\ Sure(Kind[r])
    BY <1>0, MovesInv, PresentIsOn DEF Stands, Things, Sure
<1>2. n \in NamesOf(Kind[r]) /\ Holds(r, n)
    BY <1>1, NamesAre DEF State, Holds
<1>3. ASSUME NEW s \in Res, pc[s] = "drop" PROVE ~(Kind[r] = Kind[s] /\ n = st[s].name)
  <2> SUFFICES ASSUME Kind[r] = Kind[s], n = st[s].name PROVE FALSE
      OBVIOUS
  <2>1. Holds(s, n)
      BY <1>3, HoldsBefore
  <2>2. r = s
      BY <1>1, <1>2, <2>1 DEF HoldInv, UniqueInv
  <2>3. cfg[r] # Nil /\ ~Replaces(r, st[r])
    <3>1. Kind[r] # "grant"
        BY <1>1 DEF Things
    <3> QED
        BY <3>1 DEF Stands, Replaces
  <2> QED
      BY <1>3, <2>2, <2>3, MovesInv DEF At
<1>4. On(Kind[r], n)'
  <2>1. CASE Same
      BY <1>1, <1>2, <2>1 DEF Same
  <2>2. ASSUME NEW s \in Res, Grows(s) PROVE On(Kind[r], n)'
      BY <1>1, <1>2, <2>2 DEF Grows
  <2>3. ASSUME NEW s \in Res, pc[s] = "drop", Shrinks(s) PROVE On(Kind[r], n)'
      BY <1>1, <1>2, <1>3, <2>3 DEF Shrinks
  <2> QED
      BY <2>1, <2>2, <2>3, ServerMoves
<1>5. Present(r, cfg[r])' <=> On(Kind[r], n)'
    BY <1>0, <1>1 DEF Present, On, Things, HasAccount
<1> QED
    BY <1>4, <1>5

\* No step of the provider drops what a block declares and terraform's state has, be it
\* the block's own step or that of another block, for any blocks, names and runs, while no
\* reply of a DROP is lost: for two blocks never have one thing.
THEOREM Survives == Safe => DeclaredSurvives
<1>1. ASSUME TypeInv, HoldInv, [Next]_vars
      PROVE  [\A r \in Res :
                 /\ Stands(r) /\ cfg'[r] = cfg[r]
                 /\ "drop_lost" \notin faults /\ (Kind[r] = "sql" => "crash" \notin faults)
                 /\ "outside" \in faults' => "outside" \in faults
                 => Present(r, cfg[r])']_vars
    BY <1>1, StandsOn
<1> QED
    BY InitType, InitHold, NextKeepsType, NextKeepsHold, <1>1, PTL DEF Safe, DeclaredSurvives
==============================================================================
