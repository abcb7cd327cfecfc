---------------------------- MODULE GrantsProofs -----------------------------
(* Proofs about Grants, for any resources, users, objects, privileges,        *)
(* configurations, failures and bounds.                                       *)
EXTENDS Grants, TLAPS

\* What a handler works with is there: the plan was made from it, and neither the
\* user nor another handler takes it away in the middle of a run.
PlanInv ==
    \A r \in Res :
        /\ pc[r] \in {"create_lock", "check", "grant", "readback", "revoke", "regrant"} =>
               cfg[r] # Nil
        /\ pc[r] \in {"revoke", "regrant", "delete_lock", "drop"} => st[r] # Nil
        /\ pc[r] \in {"delete_lock", "drop", "dropped"} /\ plan[r] = "replace" => cfg[r] # Nil
        /\ pc[r] \in {"revoke", "regrant"} => plan[r] = "update"

TypeInv == TypeOK /\ PlanInv

\* The handler that is past its Lock holds the key of its resource.
LockInv == \A r \in Res : pc[r] \in {"check", "grant", "readback", "drop", "dropped"} =>
                              holder[KeyOf(r)] = r

------------------------------------------------------------------------------
(* The operators of the model *)

LEMMA SlotType == ASSUME NEW r \in Res PROVE Slot(r) \in Slots
BY ResAssumption DEF Slot, Slots, Accounts

LEMMA MeaningType == ASSUME NEW P \in SUBSET Raw PROVE Meaning(P) \in SUBSET Priv
BY PrivAssumption DEF Meaning

LEMMA NamesType == ASSUME NEW S PROVE Names(S) \in SUBSET Raw
BY PrivAssumption DEF Names

LEMMA PlannedType ==
    ASSUME NEW r \in Res, TypeOK, cfg[r] # Nil, NEW t \in BOOLEAN
    PROVE  Planned(r, t) \in State
<1>1. cfg[r] \in Configs
    BY DEF TypeOK
<1>2. cfg[r].privs \in SUBSET Raw /\ cfg[r].grant \in BOOLEAN
    BY <1>1, ConfigAssumption
<1> QED
    BY <1>2 DEF Planned, State

LEMMA RefreshedType ==
    ASSUME NEW r \in Res, NEW old \in State
    PROVE  Refreshed(r, old) \in State
<1> DEFINE privs == Names(UNION {server[s] : s \in Matching(r)})
           found == \E s \in Matching(r) : GrantOption \in server[s]
<1>1. privs \in SUBSET Raw
    BY NamesType
<1>2. old.privs \in SUBSET Raw /\ old.tainted \in BOOLEAN
    BY DEF State
<1>3. found \in BOOLEAN
    OBVIOUS
<1>4. Refreshed(r, old) = [privs   |-> IF SamePrivileges(old.privs, privs) THEN old.privs
                                       ELSE privs,
                           grant   |-> found,
                           tainted |-> old.tainted]
    BY DEF Refreshed
<1> HIDE DEF privs, found
<1> QED
    BY <1>1, <1>2, <1>3, <1>4 DEF State

LEMMA ReadType ==
    ASSUME NEW r \in Res, NEW old \in State
    PROVE  ReadGrant(r, old) \in State \cup {Nil}
BY RefreshedType DEF ReadGrant

\* The slot of a resource is among those its own check looks at.
LEMMA SlotMatches ==
    ASSUME NEW r \in Res, Matching(r) = {}
    PROVE  server[Slot(r)] \cap Priv = {}
<1>1. Who[r] \in [name : STRING, host : STRING]
    BY ResAssumption
<1>2. Slot(r) \in ShowGrants(Who[r])
    BY SlotType DEF ShowGrants, Slot
<1>3. Equals(Account(Who[r]), Who[r])
    BY <1>1 DEF Equals, Account
<1>4. Slot(r)[1] = Account(Who[r]) /\ Slot(r)[2] = Obj[r]
    BY DEF Slot
<1> QED
    BY <1>2, <1>3, <1>4 DEF Matching

\* A GRANT or a REVOKE in the slot of a resource.
LEMMA GrantType ==
    ASSUME TypeOK, NEW r \in Res, cfg[r] # Nil
    PROVE  GrantSQL(Slot(r), cfg[r]) \in [Slots -> SUBSET (Priv \cup {GrantOption})]
<1>1. cfg[r] \in Configs
    BY DEF TypeOK
<1>2. cfg[r].privs \in SUBSET Raw
    BY <1>1, ConfigAssumption
<1>3. Meaning(cfg[r].privs) \in SUBSET Priv
    BY <1>2, MeaningType
<1> QED
    BY <1>3, SlotType DEF GrantSQL, TypeOK

LEMMA RevokeType ==
    ASSUME TypeOK, NEW r \in Res, NEW S
    PROVE  RevokeSQL(Slot(r), S) \in [Slots -> SUBSET (Priv \cup {GrantOption})]
BY SlotType DEF RevokeSQL, TypeOK

------------------------------------------------------------------------------
(* The type invariant and what plans guarantee *)

LEMMA InitType == Init => TypeInv
<1> SUFFICES ASSUME Init PROVE TypeInv
    OBVIOUS
<1> USE DEF Init
<1>1. TypeOK
    BY LimitAssumption DEF TypeOK, Plans, PC
<1>2. PlanInv
    BY DEF PlanInv
<1> QED
    BY <1>1, <1>2 DEF TypeInv

\* What one handler does to its own resource keeps the invariant when it stays in
\* the types and needs no more than it has.
LEMMA OneHandler ==
    ASSUME TypeInv, NEW r \in Res, NEW to \in PC, pc' = [pc EXCEPT ![r] = to],
           server' \in [Slots -> SUBSET (Priv \cup {GrantOption})],
           holder' = holder \/ (\E k : holder' = [holder EXCEPT ![k] = r])
                            \/ (\E k : holder' = [holder EXCEPT ![k] = Nil]),
           UNCHANGED <<cfg, plan, edits>>,
           NEW new \in State \cup {Nil}, st' = [st EXCEPT ![r] = new],
           faults' \in 0 .. MaxFaults,
           to \in {"create_lock", "check", "grant", "readback", "revoke", "regrant"} =>
               cfg[r] # Nil,
           to \in {"revoke", "regrant", "delete_lock", "drop"} => new # Nil,
           to \in {"delete_lock", "drop", "dropped"} /\ plan[r] = "replace" => cfg[r] # Nil,
           to \in {"revoke", "regrant"} => plan[r] = "update"
    PROVE  TypeInv'
<1>1. TypeOK'
    BY DEF TypeInv, TypeOK, Goto
<1>2. PlanInv'
  <2> SUFFICES ASSUME NEW s \in Res
               PROVE  /\ pc'[s] \in {"create_lock", "check", "grant", "readback", "revoke",
                                     "regrant"} => cfg[s] # Nil
                      /\ pc'[s] \in {"revoke", "regrant", "delete_lock", "drop"} =>
                             st'[s] # Nil
                      /\ pc'[s] \in {"delete_lock", "drop", "dropped"} /\ plan[s] = "replace" =>
                             cfg[s] # Nil
                      /\ pc'[s] \in {"revoke", "regrant"} => plan[s] = "update"
      BY DEF PlanInv
  <2>1. pc'[s] = (IF s = r THEN to ELSE pc[s]) /\ st'[s] = (IF s = r THEN new ELSE st[s])
      BY DEF TypeInv, TypeOK, Goto
  <2> QED
      BY <2>1 DEF TypeInv, PlanInv
<1> QED
    BY <1>1, <1>2 DEF TypeInv

LEMMA FaultType == ASSUME TypeOK, NEW kind, Fault(kind) PROVE faults' \in 0 .. MaxFaults
BY LimitAssumption DEF TypeOK, Fault

\* The same for a handler that leaves the state alone.
LEMMA OneQuietHandler ==
    ASSUME TypeInv, NEW r \in Res, NEW to \in PC, pc' = [pc EXCEPT ![r] = to],
           server' \in [Slots -> SUBSET (Priv \cup {GrantOption})],
           holder' = holder \/ (\E k : holder' = [holder EXCEPT ![k] = r])
                            \/ (\E k : holder' = [holder EXCEPT ![k] = Nil]),
           UNCHANGED <<cfg, st, plan, edits>>,
           faults' \in 0 .. MaxFaults,
           to \in {"create_lock", "check", "grant", "readback", "revoke", "regrant"} =>
               cfg[r] # Nil,
           to \in {"revoke", "regrant", "delete_lock", "drop"} => st[r] # Nil,
           to \in {"delete_lock", "drop", "dropped"} /\ plan[r] = "replace" => cfg[r] # Nil,
           to \in {"revoke", "regrant"} => plan[r] = "update"
    PROVE  TypeInv'
<1> DEFINE new == st[r]
<1>1. new \in State \cup {Nil} /\ st' = [st EXCEPT ![r] = new]
    BY DEF TypeInv, TypeOK
<1>2. to \in {"revoke", "regrant", "delete_lock", "drop"} => new # Nil
    OBVIOUS
<1> HIDE DEF new
<1> QED
    BY <1>1, <1>2, OneHandler

LEMMA CreateKeepsType ==
    ASSUME TypeInv, NEW r \in Res, Create(r)
    PROVE  TypeInv'
<1>1. TypeOK /\ {"check", "grant", "readback", "done"} \subseteq PC
    BY DEF TypeInv, PC
<1>2. pc[r] \in {"create_lock", "check", "grant", "readback"} => cfg[r] # Nil
    BY DEF TypeInv, PlanInv
<1>3. CASE CreateLock(r)
  <2>1. pc[r] = "create_lock" /\ pc' = [pc EXCEPT ![r] = "check"] /\ st' = st
      BY <1>3 DEF CreateLock, Goto
  <2> QED
      BY <1>1, <1>2, <1>3, <2>1, OneQuietHandler DEF CreateLock, Lock, TypeOK
<1>4. CASE Check(r)
  <2> DEFINE to == IF Matching(r) = {} THEN "grant" ELSE "done"
  <2>1. pc[r] = "check" /\ pc' = [pc EXCEPT ![r] = to] /\ to \in {"grant", "done"} /\ st' = st
      BY <1>4 DEF Check, Goto
  <2>2. holder' = holder \/ (\E k : holder' = [holder EXCEPT ![k] = Nil])
      BY <1>4 DEF Check, Unlock
  <2>3. UNCHANGED <<server, cfg, plan, edits, faults>>
      BY <1>4 DEF Check
  <2> HIDE DEF to
  <2> QED
      BY <1>1, <1>2, <2>1, <2>2, <2>3, OneQuietHandler DEF TypeOK
<1>5. CASE GivesUp(r)
  <2>1. pc' = [pc EXCEPT ![r] = "done"]
      BY <1>5 DEF GivesUp, Goto
  <2>2. st' = st /\ faults' \in 0 .. MaxFaults
      BY <1>1, <1>5, FaultType DEF GivesUp
  <2> QED
      BY <1>1, <1>5, <2>1, <2>2, OneQuietHandler DEF GivesUp, Unlock, TypeOK
<1>6. CASE Grant(r)
  <2>1. pc[r] = "grant" /\ pc' = [pc EXCEPT ![r] = "readback"] /\ st' = st
      BY <1>6 DEF Grant, Goto
  <2>2. server' \in [Slots -> SUBSET (Priv \cup {GrantOption})]
      BY <1>1, <1>2, <1>6, <2>1, GrantType DEF Grant
  <2>3. UNCHANGED <<holder, cfg, plan, edits, faults>>
      BY <1>6 DEF Grant
  <2> QED
      BY <1>1, <1>2, <2>1, <2>2, <2>3, OneQuietHandler DEF TypeOK
<1>7. CASE GrantFails(r)
  <2>1. pc[r] = "grant" /\ pc' = [pc EXCEPT ![r] = "done"] /\ st' = st
      BY <1>7 DEF GrantFails, Goto
  <2>2. server' \in [Slots -> SUBSET (Priv \cup {GrantOption})]
      BY <1>1, <1>2, <1>7, <2>1, GrantType DEF GrantFails, TypeOK
  <2>3. faults' \in 0 .. MaxFaults
      BY <1>1, <1>7, FaultType DEF GrantFails
  <2>4. UNCHANGED <<cfg, plan, edits>> /\ (\E k : holder' = [holder EXCEPT ![k] = Nil])
      BY <1>7 DEF GrantFails, Unlock
  <2> QED
      BY <1>1, <2>1, <2>2, <2>3, <2>4, OneQuietHandler
<1>8. CASE ReadBack(r)
  <2>1. pc[r] = "readback" /\ pc' = [pc EXCEPT ![r] = "done"]
      BY <1>8 DEF ReadBack, Goto
  <2>2. Planned(r, FALSE) \in State /\ Planned(r, TRUE) \in State
      BY <1>1, <1>2, <2>1, PlannedType
  <2>3. PICK new \in State \cup {Nil} : st' = [st EXCEPT ![r] = new]
      BY <1>8, <2>2, ReadType DEF ReadBack
  <2>4. faults' \in 0 .. MaxFaults
      BY <1>1, <1>8, FaultType DEF ReadBack, TypeOK
  <2>5. UNCHANGED <<server, cfg, plan, edits>>
      BY <1>8 DEF ReadBack
  <2>6. \E k : holder' = [holder EXCEPT ![k] = Nil]
      BY <1>8 DEF ReadBack, Unlock
  <2> QED
      BY <1>1, <2>1, <2>3, <2>4, <2>5, <2>6, OneHandler DEF TypeOK
<1> QED
    BY <1>3, <1>4, <1>5, <1>6, <1>7, <1>8 DEF Create

LEMMA UpdateKeepsType ==
    ASSUME TypeInv, NEW r \in Res, Update(r)
    PROVE  TypeInv'
<1>1. TypeOK /\ {"regrant", "done"} \subseteq PC
    BY DEF TypeInv, PC
<1>2. pc[r] \in {"revoke", "regrant"} => cfg[r] # Nil /\ st[r] # Nil /\ plan[r] = "update"
    BY DEF TypeInv, PlanInv
<1>3. cfg[r] # Nil => Planned(r, FALSE) \in State
    BY <1>1, PlannedType
<1>4. CASE Revoke(r)
  <2> DEFINE to == IF ToGrant(r) = {} THEN "done" ELSE "regrant"
             new == IF ToGrant(r) = {} THEN Planned(r, FALSE) ELSE st[r]
  <2>1. pc[r] = "revoke" /\ pc' = [pc EXCEPT ![r] = to] /\ to \in {"done", "regrant"}
      BY <1>4 DEF Revoke, Goto
  <2>2. server' \in [Slots -> SUBSET (Priv \cup {GrantOption})]
      BY <1>1, <1>4, RevokeType DEF Revoke
  <2>3. new \in State \cup {Nil} /\ st' = [st EXCEPT ![r] = new]
      BY <1>1, <1>2, <1>3, <1>4, <2>1 DEF Revoke, Save, TypeOK
  <2>4. new # Nil
      BY <1>2, <1>3, <2>1, ConfigAssumption
  <2>5. UNCHANGED <<holder, cfg, plan, edits, faults>>
      BY <1>4 DEF Revoke
  <2> HIDE DEF to, new
  <2> QED
      BY <1>1, <1>2, <2>1, <2>2, <2>3, <2>4, <2>5, OneHandler DEF TypeOK
<1>5. CASE RevokeFails(r)
  <2>1. pc[r] = "revoke" /\ pc' = [pc EXCEPT ![r] = "done"]
      BY <1>5 DEF RevokeFails, Goto
  <2>2. server' \in [Slots -> SUBSET (Priv \cup {GrantOption})]
      BY <1>1, <1>5, RevokeType DEF RevokeFails, TypeOK
  <2>3. faults' \in 0 .. MaxFaults
      BY <1>1, <1>5, FaultType DEF RevokeFails, TypeOK
  <2>4. UNCHANGED <<holder, cfg, plan, edits>> /\ st' = [st EXCEPT ![r] = Planned(r, FALSE)]
      BY <1>5 DEF RevokeFails, Save
  <2> QED
      BY <1>1, <1>2, <1>3, <2>1, <2>2, <2>3, <2>4, OneHandler
<1>6. CASE Regrant(r)
  <2>1. pc[r] = "regrant" /\ pc' = [pc EXCEPT ![r] = "done"]
      BY <1>6 DEF Regrant, Goto
  <2>2. server' \in [Slots -> SUBSET (Priv \cup {GrantOption})]
      BY <1>1, <1>2, <1>6, <2>1, GrantType DEF Regrant, TypeOK
  <2>3. faults' \in 0 .. MaxFaults
      BY <1>1, <1>6, FaultType DEF Regrant, TypeOK
  <2>4. UNCHANGED <<holder, cfg, plan, edits>> /\ st' = [st EXCEPT ![r] = Planned(r, FALSE)]
      BY <1>6 DEF Regrant, Save
  <2> QED
      BY <1>1, <1>2, <1>3, <2>1, <2>2, <2>3, <2>4, OneHandler
<1> QED
    BY <1>4, <1>5, <1>6 DEF Update

LEMMA DeleteKeepsType ==
    ASSUME TypeInv, NEW r \in Res, Delete(r)
    PROVE  TypeInv'
<1>1. TypeOK /\ {"create_lock", "drop", "dropped", "done"} \subseteq PC
    BY DEF TypeInv, PC
<1>2. /\ pc[r] \in {"delete_lock", "drop"} => st[r] # Nil
      /\ pc[r] \in {"delete_lock", "drop", "dropped"} /\ plan[r] = "replace" => cfg[r] # Nil
    BY DEF TypeInv, PlanInv
<1>3. CASE DeleteLock(r)
  <2>1. pc[r] = "delete_lock" /\ pc' = [pc EXCEPT ![r] = "drop"] /\ st' = st
      BY <1>3 DEF DeleteLock, Goto
  <2>2. \E k : holder' = [holder EXCEPT ![k] = r]
      BY <1>3 DEF DeleteLock, Lock
  <2>3. UNCHANGED <<server, cfg, plan, edits, faults>>
      BY <1>3 DEF DeleteLock
  <2> QED
      BY <1>1, <1>2, <2>1, <2>2, <2>3, OneQuietHandler DEF TypeOK
<1>4. CASE Drop(r)
  <2>1. pc[r] = "drop" /\ pc' = [pc EXCEPT ![r] = "dropped"] /\ st' = st
      BY <1>4 DEF Drop, Goto
  <2>2. server' \in [Slots -> SUBSET (Priv \cup {GrantOption})]
      BY <1>1, <1>4, RevokeType DEF Drop
  <2>3. UNCHANGED <<holder, cfg, plan, edits, faults>>
      BY <1>4 DEF Drop
  <2> QED
      BY <1>1, <1>2, <2>1, <2>2, <2>3, OneQuietHandler DEF TypeOK
<1>5. CASE Dropped(r)
  <2> DEFINE to == IF plan[r] = "replace" THEN "create_lock" ELSE "done"
  <2>1. pc[r] = "dropped" /\ pc' = [pc EXCEPT ![r] = to] /\ to \in {"create_lock", "done"}
      BY <1>5 DEF Dropped, Goto
  <2>2. to = "create_lock" => cfg[r] # Nil
      BY <1>2, <2>1
  <2>3. st' = [st EXCEPT ![r] = Nil] /\ (\E k : holder' = [holder EXCEPT ![k] = Nil])
      BY <1>5 DEF Dropped, Unlock
  <2>4. UNCHANGED <<server, cfg, plan, edits, faults>>
      BY <1>5 DEF Dropped
  <2> HIDE DEF to
  <2> QED
      BY <1>1, <2>1, <2>2, <2>3, <2>4, OneHandler DEF TypeOK
<1>6. CASE DropFails(r)
  <2>1. pc[r] = "drop" /\ pc' = [pc EXCEPT ![r] = "done"] /\ st' = st
      BY <1>6 DEF DropFails, Goto
  <2>2. server' \in [Slots -> SUBSET (Priv \cup {GrantOption})]
      BY <1>1, <1>6, RevokeType DEF DropFails, TypeOK
  <2>3. faults' \in 0 .. MaxFaults
      BY <1>1, <1>6, FaultType DEF DropFails
  <2>4. UNCHANGED <<cfg, plan, edits>> /\ (\E k : holder' = [holder EXCEPT ![k] = Nil])
      BY <1>6 DEF DropFails, Unlock
  <2> QED
      BY <1>1, <2>1, <2>2, <2>3, <2>4, OneQuietHandler
<1> QED
    BY <1>3, <1>4, <1>5, <1>6 DEF Delete

LEMMA RefreshKeepsType ==
    ASSUME TypeInv, NEW r \in Res, Refresh(r)
    PROVE  TypeInv'
<1>1. TypeOK /\ "planned" \in PC
    BY DEF TypeInv, PC
<1>2. pc' = [pc EXCEPT ![r] = "planned"]
    BY DEF Refresh, Goto
<1>3. PICK new \in State \cup {Nil} : st' = [st EXCEPT ![r] = new]
  <2>1. st[r] \in State \cup {Nil}
      BY <1>1 DEF TypeOK
  <2>2. (IF st[r] = Nil THEN Nil ELSE ReadGrant(r, st[r])) \in State \cup {Nil}
      BY <2>1, ReadType
  <2> QED
      BY <2>2 DEF Refresh
<1>4. UNCHANGED <<server, holder, cfg, plan, edits, faults>>
    BY DEF Refresh
<1> QED
    BY <1>1, <1>2, <1>3, <1>4, OneHandler DEF TypeOK

LEMMA ImportKeepsType ==
    ASSUME TypeInv, NEW r \in Res, ImportGrant(r)
    PROVE  TypeInv'
<1>1. TypeOK /\ Blank \in State
    BY DEF TypeInv, Blank, State
<1>2. \A s \in Res : pc'[s] = "done"
    BY DEF ImportGrant
<1>3. ReadGrant(r, Blank) \in State \cup {Nil} /\ st' = [st EXCEPT ![r] = ReadGrant(r, Blank)]
    BY <1>1, ReadType DEF ImportGrant
<1>4. UNCHANGED <<server, holder, cfg, plan, pc, edits, faults>>
    BY DEF ImportGrant
<1>5. TypeOK'
    BY <1>1, <1>3, <1>4 DEF TypeOK
<1>6. PlanInv'
    BY <1>2 DEF PlanInv
<1> QED
    BY <1>5, <1>6 DEF TypeInv

\* A run that starts, or ends for all at once.
LEMMA AllAtOnce ==
    ASSUME TypeInv, \/ NewRun \/ Crash \/ (\E r \in Res : RefreshFails(r))
    PROVE  TypeInv'
<1>1. PICK to \in {"refresh", "done"} : pc' = [r \in Res |-> to]
    BY DEF NewRun, Crash, RefreshFails
<1>2. UNCHANGED <<server, st, plan>>
    BY DEF NewRun, Crash, RefreshFails
<1>3. holder' = holder \/ holder' = [k \in DOMAIN holder |-> Nil]
    BY DEF NewRun, Crash, RefreshFails
<1>4. cfg' \in [Res -> Configs \cup {Nil}]
    BY DEF NewRun, Crash, RefreshFails, TypeInv, TypeOK
<1>5. edits' \in 0 .. MaxEdits /\ faults' \in 0 .. MaxFaults
    BY LimitAssumption DEF NewRun, Crash, RefreshFails, Fault, TypeInv, TypeOK
<1>6. TypeOK'
    BY <1>1, <1>2, <1>3, <1>4, <1>5 DEF TypeInv, TypeOK, PC
<1>7. PlanInv'
    BY <1>1 DEF PlanInv
<1> QED
    BY <1>6, <1>7 DEF TypeInv

LEMMA ApplyKeepsType == ASSUME TypeInv, StartApply PROVE TypeInv'
<1>1. TypeOK
    BY DEF TypeInv
<1>2. ASSUME NEW r \in Res
      PROVE  /\ PlanOf(r) \in Plans
             /\ PlanOf(r) \in {"create", "update", "replace"} => cfg[r] # Nil
             /\ PlanOf(r) \in {"update", "delete", "replace"} => st[r] # Nil
    BY DEF PlanOf, Plans
<1>3. ASSUME NEW r \in Res
      PROVE  /\ plan'[r] = PlanOf(r)
             /\ PlanOf(r) = "none" => pc'[r] = "done"
             /\ PlanOf(r) = "create" => pc'[r] = "create_lock"
             /\ PlanOf(r) = "update" => pc'[r] \in {"revoke", "regrant"}
             /\ PlanOf(r) \in {"delete", "replace"} => pc'[r] = "delete_lock"
    BY <1>2 DEF StartApply, Plans
<1>4. DOMAIN pc' = Res /\ pc' = [r \in Res |-> pc'[r]]
  <2> DEFINE first(r) ==
          CASE PlanOf(r) = "none" -> "done"
            [] PlanOf(r) = "create" -> "create_lock"
            [] PlanOf(r) = "update" -> IF ToRevoke(r) # {} THEN "revoke" ELSE "regrant"
            [] PlanOf(r) \in {"delete", "replace"} -> "delete_lock"
  <2>1. pc' = [r \in Res |-> first(r)]
      BY DEF StartApply
  <2> HIDE DEF first
  <2> QED
      BY <2>1
<1>5. DOMAIN plan' = Res /\ plan' = [r \in Res |-> plan'[r]]
    BY DEF StartApply
<1>6. pc' \in [Res -> PC] /\ plan' \in [Res -> Plans]
    BY <1>2, <1>3, <1>4, <1>5 DEF Plans, PC
<1>7. UNCHANGED <<server, holder, cfg, st, edits, faults>>
    BY DEF StartApply
<1>8. TypeOK'
    BY <1>1, <1>6, <1>7 DEF TypeOK
<1>9. PlanInv'
    BY <1>2, <1>3, <1>7 DEF PlanInv, Plans
<1> QED
    BY <1>8, <1>9 DEF TypeInv

LEMMA NextKeepsType == TypeInv /\ [Next]_vars => TypeInv'
<1> SUFFICES ASSUME TypeInv, [Next]_vars PROVE TypeInv'
    OBVIOUS
<1>1. CASE StartApply
    BY <1>1, ApplyKeepsType
<1>2. CASE NewRun \/ Crash \/ \E r \in Res : RefreshFails(r)
    BY <1>2, AllAtOnce
<1>3. ASSUME NEW r \in Res, Refresh(r) \/ Create(r) \/ Update(r) \/ Delete(r)
      PROVE  TypeInv'
    BY <1>3, RefreshKeepsType, CreateKeepsType, UpdateKeepsType, DeleteKeepsType
<1>4. CASE UNCHANGED vars
    BY <1>4 DEF TypeInv, TypeOK, PlanInv, vars
<1> QED
    BY <1>1, <1>2, <1>3, <1>4, ImportKeepsType DEF Next, Handler

\* The variables keep their types: no handler works with a configuration or a state
\* that is not there, whatever fails, and no lock is held by anything but a resource.
THEOREM TypeCorrect == Safe => []TypeOK
<1>1. Init => TypeInv
    BY InitType
<1>2. TypeInv /\ [Next]_vars => TypeInv'
    BY NextKeepsType
<1>3. TypeInv => TypeOK
    BY DEF TypeInv
<1> QED
    BY <1>1, <1>2, <1>3, PTL DEF Safe

------------------------------------------------------------------------------
(* The lock of the user *)

LEMMA NextKeepsLock == TypeInv /\ LockInv /\ [Next]_vars => LockInv'
<1> SUFFICES ASSUME TypeInv, LockInv, [Next]_vars PROVE LockInv'
    OBVIOUS
<1>0. /\ pc \in [Res -> PC]
      /\ holder \in [{KeyOf(r) : r \in Res} -> Res \cup {Nil}]
      /\ plan \in [Res -> Plans]
    BY DEF TypeInv, TypeOK
<1>1. CASE StartApply
  <2>1. ASSUME NEW r \in Res
        PROVE  pc'[r] \in {"done", "create_lock", "revoke", "regrant", "delete_lock"}
      BY <1>1 DEF StartApply, PlanOf
  <2> QED
      BY <2>1 DEF LockInv
<1>2. CASE NewRun \/ Crash \/ \E r \in Res : RefreshFails(r)
    BY <1>2 DEF NewRun, Crash, RefreshFails, LockInv
\* A handler that holds no key, and takes none
<1>3. ASSUME NEW r \in Res, Refresh(r) \/ Update(r) PROVE LockInv'
  <2>1. /\ holder' = holder
        /\ \E to \in {"planned", "done", "regrant"} : pc' = [pc EXCEPT ![r] = to]
      BY <1>3 DEF Refresh, Update, Revoke, RevokeFails, Regrant, Goto
  <2> QED
      BY <1>0, <2>1 DEF LockInv
<1>4. ASSUME NEW r \in Res, Create(r) \/ Delete(r) PROVE LockInv'
  \* The key was free, and is taken,
  <2>1. CASE CreateLock(r) \/ DeleteLock(r)
    <3>1. /\ holder[KeyOf(r)] = Nil /\ holder' = [holder EXCEPT ![KeyOf(r)] = r]
          /\ \E to \in {"check", "drop"} : pc' = [pc EXCEPT ![r] = to]
        BY <2>1 DEF CreateLock, DeleteLock, Lock, Goto
    <3> QED
        BY <1>0, <3>1, ConfigAssumption DEF LockInv
  \* or the handler keeps what it holds,
  <2>2. CASE Grant(r) \/ Drop(r) \/ (Check(r) /\ Matching(r) = {})
    <3>1. /\ holder' = holder
          /\ pc[r] \in {"grant", "drop", "check"}
          /\ \E to \in {"readback", "dropped", "grant"} : pc' = [pc EXCEPT ![r] = to]
        BY <2>2 DEF Grant, Drop, Check, Goto
    <3> QED
        BY <1>0, <3>1 DEF LockInv
  \* or gives it back, when it is the one that holds it.
  <2>3. CASE \/ GivesUp(r) \/ GrantFails(r) \/ ReadBack(r) \/ Dropped(r) \/ DropFails(r)
             \/ Check(r) /\ Matching(r) # {}
    <3>1. \E to \in {"done", "create_lock"} : pc' = [pc EXCEPT ![r] = to]
        BY <2>3 DEF GivesUp, GrantFails, ReadBack, Dropped, DropFails, Check, Goto
    <3>2. \/ holder' = holder
          \/ /\ pc[r] \in {"check", "grant", "readback", "drop", "dropped"}
             /\ holder' = [holder EXCEPT ![KeyOf(r)] = Nil]
        BY <2>3 DEF GivesUp, GrantFails, ReadBack, Dropped, DropFails, Check, Goto, Unlock
    <3> QED
        BY <1>0, <3>1, <3>2 DEF LockInv
  <2> QED
      BY <1>4, <2>1, <2>2, <2>3 DEF Create, Delete
<1>5. CASE UNCHANGED vars \/ \E r \in Res : ImportGrant(r)
    BY <1>5 DEF LockInv, ImportGrant, vars
<1> QED
    BY <1>1, <1>2, <1>3, <1>4, <1>5 DEF Next, Handler

\* Two resources of one slot, of which one is at its GRANT, do not both hold the key.
LEMMA OneHolder ==
    ASSUME KeyAgreement, LockInv, NEW r \in Res, NEW s \in Res, SameSlot(r, s),
           pc[r] = "grant"
    PROVE  pc[s] \notin {"check", "grant", "readback", "drop", "dropped"}
BY DEF KeyAgreement, LockInv, SameSlot

\* A step after which nothing is about to GRANT but what was before, and which
\* leaves the slots of those alone.
LEMMA NoInterference ==
    ASSUME OnlyUpdatesInterfere, UNCHANGED plan,
           \A r \in Res : pc'[r] = "grant" => pc[r] = "grant" /\ server'[Slot(r)] = server[Slot(r)]
    PROVE  OnlyUpdatesInterfere'
BY DEF OnlyUpdatesInterfere

LEMMA NextInterferes ==
    KeyAgreement /\ TypeInv /\ LockInv /\ OnlyUpdatesInterfere /\ [Next]_vars
        => OnlyUpdatesInterfere'
<1> SUFFICES ASSUME KeyAgreement, TypeInv, LockInv, OnlyUpdatesInterfere, [Next]_vars
             PROVE  OnlyUpdatesInterfere'
    OBVIOUS
<1>0. pc \in [Res -> PC] /\ server \in [Slots -> SUBSET (Priv \cup {GrantOption})]
    BY DEF TypeInv, TypeOK
<1>1. CASE StartApply
  <2>1. ASSUME NEW r \in Res PROVE pc'[r] # "grant"
      BY <1>1 DEF StartApply, PlanOf
  <2> QED
      BY <2>1 DEF OnlyUpdatesInterfere
<1>2. CASE NewRun \/ Crash \/ \E r \in Res : RefreshFails(r)
    BY <1>2 DEF NewRun, Crash, RefreshFails, OnlyUpdatesInterfere
\* The check found the slot of r empty.
<1>3. ASSUME NEW r \in Res, Check(r) PROVE OnlyUpdatesInterfere'
  <2>1. UNCHANGED <<server, plan>> /\ \A s \in Res \ {r} : pc'[s] = pc[s]
      BY <1>0, <1>3 DEF Check, Goto
  <2>2. pc'[r] = "grant" => server[Slot(r)] \cap Priv = {}
      BY <1>0, <1>3, SlotMatches DEF Check, Goto
  <2> QED
      BY <2>1, <2>2 DEF OnlyUpdatesInterfere
\* A GRANT or a REVOKE under the key
<1>4. ASSUME NEW s \in Res, Grant(s) \/ GrantFails(s) \/ Drop(s) \/ DropFails(s)
      PROVE  OnlyUpdatesInterfere'
  <2>1. /\ pc[s] \in {"grant", "drop"}
        /\ \E to \in {"readback", "dropped", "done"} : pc' = [pc EXCEPT ![s] = to]
        /\ UNCHANGED plan
      BY <1>4 DEF Grant, GrantFails, Drop, DropFails, Goto
  <2>2. \A slot \in Slots : slot # Slot(s) => server'[slot] = server[slot]
      BY <1>0, <1>4 DEF Grant, GrantFails, Drop, DropFails, GrantSQL, RevokeSQL
  <2>3. ASSUME NEW r \in Res, pc'[r] = "grant"
        PROVE  pc[r] = "grant" /\ server'[Slot(r)] = server[Slot(r)]
    <3>1. pc[r] = "grant" /\ r # s
        BY <1>0, <2>1, <2>3
    <3>2. Slot(r) # Slot(s)
        BY <2>1, <3>1, OneHolder DEF SameSlot
    <3> QED
        BY <2>2, <3>1, <3>2, SlotType
  <2> QED
      BY <2>1, <2>3, NoInterference
\* A GRANT or a REVOKE of an update, which is the exception OnlyUpdatesInterfere makes
<1>5. ASSUME NEW s \in Res, Update(s) PROVE OnlyUpdatesInterfere'
  <2>1. /\ pc[s] \in {"revoke", "regrant"}
        /\ \E to \in {"regrant", "done"} : pc' = [pc EXCEPT ![s] = to]
        /\ UNCHANGED plan
      BY <1>5 DEF Update, Revoke, RevokeFails, Regrant, Goto
  <2>2. plan[s] = "update"
      BY <2>1 DEF TypeInv, PlanInv
  <2>3. \A slot \in Slots : slot # Slot(s) => server'[slot] = server[slot]
      BY <1>0, <1>5 DEF Update, Revoke, RevokeFails, Regrant, GrantSQL, RevokeSQL
  <2>4. ASSUME NEW r \in Res, pc'[r] = "grant", server'[Slot(r)] \cap Priv # {}
        PROVE  \E t \in Res : SameSlot(r, t) /\ plan'[t] = "update"
    <3>1. pc[r] = "grant" /\ r # s
        BY <1>0, <2>1, <2>4
    <3>2. CASE Slot(r) = Slot(s)
        BY <2>1, <2>2, <3>1, <3>2 DEF SameSlot
    <3>3. CASE Slot(r) # Slot(s)
      <4>1. server[Slot(r)] \cap Priv # {}
          BY <2>3, <2>4, <3>3, SlotType
      <4> QED
          BY <2>1, <3>1, <4>1 DEF OnlyUpdatesInterfere
    <3> QED
        BY <3>2, <3>3
  <2> QED
      BY <2>4 DEF OnlyUpdatesInterfere
\* Every other step of a handler leaves server and plan alone.
<1>6. ASSUME NEW s \in Res, \/ Refresh(s) \/ CreateLock(s) \/ GivesUp(s) \/ ReadBack(s)
                            \/ DeleteLock(s) \/ Dropped(s)
      PROVE  OnlyUpdatesInterfere'
  <2>1. /\ UNCHANGED <<server, plan>>
        /\ \E to \in {"planned", "check", "done", "drop", "create_lock"} :
               pc' = [pc EXCEPT ![s] = to]
      BY <1>6 DEF Refresh, CreateLock, GivesUp, ReadBack, DeleteLock, Dropped, Goto
  <2> QED
      BY <1>0, <2>1, NoInterference
<1>7. CASE UNCHANGED vars \/ \E r \in Res : ImportGrant(r)
    BY <1>7 DEF OnlyUpdatesInterfere, ImportGrant, vars
<1> QED
    BY <1>1, <1>2, <1>3, <1>4, <1>5, <1>6, <1>7 DEF Next, Handler, Create, Delete

\* The check of CreateGrant and its GRANT are atomic but for updates, for any number
\* of resources, failures, crashes and runs: while a Create that found no privileges
\* has not granted its own, privileges appear in its slot only through UpdateGrant.
THEOREM Interference == KeyAgreement => (Safe => []OnlyUpdatesInterfere)
<1>1. Init => TypeInv /\ LockInv /\ OnlyUpdatesInterfere
    BY InitType DEF Init, LockInv, OnlyUpdatesInterfere
<1>2. TypeInv /\ [Next]_vars => TypeInv'
    BY NextKeepsType
<1>3. TypeInv /\ LockInv /\ [Next]_vars => LockInv'
    BY NextKeepsLock
<1> SUFFICES ASSUME KeyAgreement PROVE Safe => []OnlyUpdatesInterfere
    OBVIOUS
<1>4. TypeInv /\ LockInv /\ OnlyUpdatesInterfere /\ [Next]_vars => OnlyUpdatesInterfere'
    BY NextInterferes
<1> QED
    BY <1>1, <1>2, <1>3, <1>4, PTL DEF Safe

------------------------------------------------------------------------------
(* The second owner of a row, where at most two blocks are for one row and no  *)
(* reply to a REVOKE is lost                                                   *)

TwoPerSlot == \A r, s, t \in Res : SameSlot(r, s) /\ SameSlot(r, t) => s = t

Kept == "drop_lost" \notin Faults

\* The row of s has privileges.
Owned(s) == server[Slot(s)] \cap Priv # {}

\* A run reads all, then works on all.
Phase == \/ \A r \in Res : pc[r] \in {"refresh", "planned"}
         \/ \A r \in Res : pc[r] \notin {"refresh", "planned"}

ReadInv == \A s \in Res : pc[s] = "planned" /\ st[s] # Nil => Owned(s)

Waiting(r) == plan[r] = "create" /\ pc[r] \in {"create_lock", "check"}

\* While r is on its way to its check, another resource that is in the state, or about
\* to be, keeps the row from being empty, but for an update or when its REVOKE is done;
\* so if r finds the row empty, no other resource is in the state.
OwnInv ==
    \A r, s \in Res : SameSlot(r, s) /\ plan[s] # "update" =>
        /\ Waiting(r) /\ st[s] # Nil /\ pc[s] # "dropped" => Owned(s)
        /\ Waiting(r) /\ pc[s] = "readback" => Owned(s)
        /\ plan[r] = "create" /\ pc[r] \in {"grant", "readback"} => st[s] = Nil

RowInv == TypeInv /\ LockInv /\ Phase /\ ReadInv /\ OwnInv

\* What the handler of r reads is the row of r.
LEMMA MatchingIsSlot ==
    ASSUME NEW r \in Res, Matching(r) # {}
    PROVE  Owned(r)
<1>1. PICK m \in Matching(r) : TRUE
    OBVIOUS
<1>2. m \in Slots /\ server[m] \cap Priv # {} /\ Equals(m[1], Who[r]) /\ m[2] = Obj[r]
    BY <1>1 DEF Matching, ShowGrants
<1>3. m[1] = Account(Who[r]) \/ m[1] = [Who[r] EXCEPT !.host = "%"]
    BY <1>1 DEF Matching, ShowGrants
<1>4. Who[r] \in [name : STRING, host : STRING]
    BY ResAssumption
<1>5. m[1] = Account(Who[r])
    BY <1>2, <1>3, <1>4 DEF Equals, Account
<1>6. m = Slot(r)
    BY <1>2, <1>5 DEF Slot, Slots
<1> QED
    BY <1>2, <1>6 DEF Owned

LEMMA GrantOwns ==
    ASSUME TypeOK, NEW r \in Res, cfg[r] # Nil, server' = GrantSQL(Slot(r), cfg[r])
    PROVE  Owned(r)'
<1>0. cfg[r] \in Configs
    BY DEF TypeOK
<1>7. cfg[r].privs \in (SUBSET Raw) \ {{}}
    BY <1>0, ConfigAssumption
<1>1. cfg[r].privs \in SUBSET Raw /\ cfg[r].privs # {}
    BY <1>7
<1>2. PICK p \in cfg[r].privs : p \in Raw
    BY <1>1
<1>3. Canon[p] \in Priv \cup {All}
    BY <1>2, PrivAssumption
<1>4. (IF Canon[p] = All THEN Priv ELSE {Canon[p]}) \subseteq Meaning(cfg[r].privs)
    BY <1>2 DEF Meaning
<1>5. Meaning(cfg[r].privs) \cap Priv # {}
    BY <1>3, <1>4, PrivAssumption
<1>6. server'[Slot(r)] = server[Slot(r)] \cup Meaning(cfg[r].privs)
                         \cup (IF cfg[r].grant THEN {GrantOption} ELSE {})
    BY SlotType DEF GrantSQL, TypeOK
<1> QED
    BY <1>5, <1>6 DEF Owned

LEMMA GrantKeepsOwned ==
    ASSUME TypeOK, NEW r \in Res, NEW s \in Res, server' = GrantSQL(Slot(r), cfg[r]), Owned(s)
    PROVE  Owned(s)'
BY SlotType DEF GrantSQL, TypeOK, Owned

\* What a step of a handler leaves alone
LEMMA HandlerFrame ==
    ASSUME TypeInv, NEW t \in Res, Create(t) \/ Update(t) \/ Delete(t)
    PROVE  /\ UNCHANGED plan
           /\ pc[t] \notin {"refresh", "planned", "done"} /\ pc'[t] \notin {"refresh", "planned"}
           /\ \A x \in Res \ {t} : pc'[x] = pc[x] /\ st'[x] = st[x]
           /\ \A slot \in Slots : slot # Slot(t) => server'[slot] = server[slot]
<1>0. /\ pc \in [Res -> PC] /\ st \in [Res -> State \cup {Nil}]
      /\ server \in [Slots -> SUBSET (Priv \cup {GrantOption})]
    BY DEF TypeInv, TypeOK
<1>1. CASE Create(t)
  <2>1. UNCHANGED plan
      BY <1>1 DEF Create, CreateLock, Check, GivesUp, Grant, GrantFails, ReadBack
  <2>2. /\ pc[t] \in {"create_lock", "check", "grant", "readback"}
        /\ \E to \in {"check", "grant", "readback", "done"} : pc' = [pc EXCEPT ![t] = to]
      BY <1>1 DEF Create, CreateLock, Check, GivesUp, Grant, GrantFails, ReadBack, Goto
  <2>3. st' = st \/ \E new : st' = [st EXCEPT ![t] = new]
      BY <1>1 DEF Create, CreateLock, Check, GivesUp, Grant, GrantFails, ReadBack
  <2>4. server' = server \/ server' = GrantSQL(Slot(t), cfg[t])
      BY <1>1 DEF Create, CreateLock, Check, GivesUp, Grant, GrantFails, ReadBack
  <2> QED
      BY <1>0, <2>1, <2>2, <2>3, <2>4 DEF GrantSQL
<1>2. CASE Update(t)
  <2>1. UNCHANGED plan
      BY <1>2 DEF Update, Revoke, RevokeFails, Regrant
  <2>2. /\ pc[t] \in {"revoke", "regrant"}
        /\ \E to \in {"regrant", "done"} : pc' = [pc EXCEPT ![t] = to]
      BY <1>2 DEF Update, Revoke, RevokeFails, Regrant, Goto
  <2>3. st' = st \/ \E new : st' = [st EXCEPT ![t] = new]
      BY <1>2 DEF Update, Revoke, RevokeFails, Regrant, Save
  <2>4. \/ server' = server \/ server' = GrantSQL(Slot(t), cfg[t])
        \/ server' = RevokeSQL(Slot(t), Meaning(ToRevoke(t)))
      BY <1>2 DEF Update, Revoke, RevokeFails, Regrant
  <2> QED
      BY <1>0, <2>1, <2>2, <2>3, <2>4 DEF GrantSQL, RevokeSQL
<1>3. CASE Delete(t)
  <2>1. UNCHANGED plan
      BY <1>3 DEF Delete, DeleteLock, Drop, Dropped, DropFails
  <2>2. /\ pc[t] \in {"delete_lock", "drop", "dropped"}
        /\ \E to \in {"drop", "dropped", "create_lock", "done"} : pc' = [pc EXCEPT ![t] = to]
      BY <1>3 DEF Delete, DeleteLock, Drop, Dropped, DropFails, Goto
  <2>3. st' = st \/ \E new : st' = [st EXCEPT ![t] = new]
      BY <1>3 DEF Delete, DeleteLock, Drop, Dropped, DropFails
  <2>4. server' = server \/ server' = RevokeSQL(Slot(t), RevokeStatement(st[t]))
      BY <1>3 DEF Delete, DeleteLock, Drop, Dropped, DropFails
  <2> QED
      BY <1>0, <2>1, <2>2, <2>3, <2>4 DEF RevokeSQL
<1> QED
    BY <1>1, <1>2, <1>3

\* A step of the resource that creates
LEMMA CreatorKeepsOwn ==
    ASSUME KeyAgreement, RowInv, NEW r \in Res, NEW s \in Res, SameSlot(r, s),
           plan[s] # "update", Create(r) \/ Update(r) \/ Delete(r)
    PROVE  /\ Waiting(r)' /\ st'[s] # Nil /\ pc'[s] # "dropped" => Owned(s)'
           /\ Waiting(r)' /\ pc'[s] = "readback" => Owned(s)'
           /\ plan'[r] = "create" /\ pc'[r] \in {"grant", "readback"} => st'[s] = Nil
<1>0. pc \in [Res -> PC] /\ r # s /\ Slot(r) = Slot(s) /\ KeyOf(r) = KeyOf(s)
    BY DEF RowInv, TypeInv, TypeOK, SameSlot, KeyAgreement
<1>1. UNCHANGED plan /\ pc'[s] = pc[s] /\ st'[s] = st[s]
    BY <1>0, HandlerFrame DEF RowInv
<1>2. /\ Waiting(r) /\ st[s] # Nil /\ pc[s] # "dropped" => Owned(s)
      /\ Waiting(r) /\ pc[s] = "readback" => Owned(s)
      /\ plan[r] = "create" /\ pc[r] \in {"grant", "readback"} => st[s] = Nil
    BY DEF RowInv, OwnInv
<1>3. CASE CreateLock(r)
  <2>1. pc[r] = "create_lock" /\ pc'[r] = "check" /\ UNCHANGED server
      BY <1>0, <1>3 DEF CreateLock, Goto
  <2> QED
      BY <1>1, <1>2, <2>1 DEF Waiting, Owned
\* The check finds the row empty only if nothing is in the state.
<1>4. CASE Check(r)
  <2>1. pc[r] = "check" /\ pc'[r] \in {"grant", "done"} /\ (pc'[r] = "grant" => Matching(r) = {})
      BY <1>0, <1>4 DEF Check, Goto
  <2>2. pc'[r] = "grant" => ~Owned(s)
      BY <1>0, <2>1, SlotMatches DEF Owned
  <2>3. pc[s] # "dropped"
      BY <1>0, <2>1 DEF RowInv, LockInv
  <2> QED
      BY <1>1, <1>2, <2>1, <2>2, <2>3 DEF Waiting
<1>5. CASE Grant(r)
  <2>1. pc[r] = "grant" /\ pc'[r] = "readback"
      BY <1>0, <1>5 DEF Grant, Goto
  <2> QED
      BY <1>1, <1>2, <2>1 DEF Waiting
<1>6. CASE GivesUp(r) \/ GrantFails(r) \/ ReadBack(r) \/ Delete(r)
  <2>1. \/ pc'[r] \in {"done", "drop", "dropped"}
        \/ pc'[r] = "create_lock" /\ plan[r] = "replace"
      BY <1>0, <1>6 DEF GivesUp, GrantFails, ReadBack, Delete, DeleteLock, Drop, Dropped,
                        DropFails, Goto
  <2> QED
      BY <1>1, <2>1 DEF Waiting
<1>7. CASE Update(r)
  <2>1. pc[r] \in {"revoke", "regrant"}
      BY <1>7 DEF Update, Revoke, RevokeFails, Regrant, Goto
  <2>2. plan[r] = "update"
      BY <2>1 DEF RowInv, TypeInv, PlanInv
  <2> QED
      BY <1>1, <2>2 DEF Waiting
<1> QED
    BY <1>3, <1>4, <1>5, <1>6, <1>7 DEF Create

\* A step of the other resource of the row
LEMMA OtherKeepsOwn ==
    ASSUME KeyAgreement, Kept, RowInv, NEW r \in Res, NEW s \in Res, SameSlot(r, s),
           plan[s] # "update", Create(s) \/ Update(s) \/ Delete(s)
    PROVE  /\ Waiting(r)' /\ st'[s] # Nil /\ pc'[s] # "dropped" => Owned(s)'
           /\ Waiting(r)' /\ pc'[s] = "readback" => Owned(s)'
           /\ plan'[r] = "create" /\ pc'[r] \in {"grant", "readback"} => st'[s] = Nil
<1>0. /\ pc \in [Res -> PC] /\ st \in [Res -> State \cup {Nil}] /\ TypeOK
      /\ r # s /\ KeyOf(r) = KeyOf(s)
    BY DEF RowInv, TypeInv, TypeOK, SameSlot, KeyAgreement
<1>1. UNCHANGED plan /\ pc'[r] = pc[r]
    BY <1>0, HandlerFrame DEF RowInv
<1>2. /\ Waiting(r) /\ st[s] # Nil /\ pc[s] # "dropped" => Owned(s)
      /\ Waiting(r) /\ pc[s] = "readback" => Owned(s)
      /\ plan[r] = "create" /\ pc[r] \in {"grant", "readback"} => st[s] = Nil
    BY DEF RowInv, OwnInv
<1>3. pc[r] \in {"grant", "readback"} =>
          pc[s] \notin {"check", "grant", "readback", "drop", "dropped"}
    BY <1>0 DEF RowInv, LockInv
<1>4. ~Update(s)
  <2>1. SUFFICES ASSUME Update(s) PROVE FALSE
      OBVIOUS
  <2>2. pc[s] \in {"revoke", "regrant"}
      BY <2>1 DEF Update, Revoke, RevokeFails, Regrant, Goto
  <2> QED
      BY <2>2 DEF RowInv, TypeInv, PlanInv
<1>5. CASE CreateLock(s) \/ Check(s) \/ GivesUp(s) \/ DeleteLock(s)
  <2>1. /\ UNCHANGED <<server, st>>
        /\ pc[s] # "dropped" /\ pc'[s] # "readback"
      BY <1>0, <1>5 DEF CreateLock, Check, GivesUp, DeleteLock, Goto
  <2> QED
      BY <1>1, <1>2, <2>1 DEF Waiting, Owned
<1>6. CASE Grant(s)
  <2>1. UNCHANGED st /\ pc[s] = "grant" /\ server' = GrantSQL(Slot(s), cfg[s])
      BY <1>6 DEF Grant, Goto
  <2>2. Owned(s)'
      BY <1>0, <2>1, GrantOwns DEF RowInv, TypeInv, PlanInv
  <2> QED
      BY <1>1, <1>2, <2>1, <2>2
<1>7. CASE GrantFails(s)
  <2>1. /\ UNCHANGED st /\ pc[s] = "grant" /\ pc'[s] = "done"
        /\ server' = server \/ server' = GrantSQL(Slot(s), cfg[s])
      BY <1>0, <1>7 DEF GrantFails, Goto
  <2>2. Owned(s) => Owned(s)'
      BY <1>0, <2>1, GrantKeepsOwned DEF Owned
  <2> QED
      BY <1>1, <1>2, <2>1, <2>2 DEF Waiting
<1>8. CASE ReadBack(s)
  <2>1. UNCHANGED server /\ pc[s] = "readback" /\ pc'[s] = "done"
      BY <1>0, <1>8 DEF ReadBack, Goto
  <2> QED
      BY <1>1, <1>2, <1>3, <2>1 DEF Waiting, Owned
<1>9. CASE Drop(s)
  <2>1. UNCHANGED st /\ pc[s] = "drop" /\ pc'[s] = "dropped"
      BY <1>0, <1>9 DEF Drop, Goto
  <2> QED
      BY <1>1, <1>2, <2>1
<1>10. CASE Dropped(s)
  <2>1. st'[s] = Nil /\ pc'[s] \in {"create_lock", "done"}
      BY <1>0, <1>10 DEF Dropped, Goto
  <2> QED
      BY <2>1
\* Without a lost reply the row is what it was.
<1>11. CASE DropFails(s)
  <2>1. UNCHANGED <<server, st>> /\ pc[s] = "drop" /\ pc'[s] = "done"
      BY <1>0, <1>11 DEF DropFails, Fault, Kept, Goto
  <2> QED
      BY <1>1, <1>2, <2>1 DEF Waiting, Owned
<1> QED
    BY <1>4, <1>5, <1>6, <1>7, <1>8, <1>9, <1>10, <1>11 DEF Create, Delete

LEMMA HandlerKeepsRow ==
    ASSUME KeyAgreement, TwoPerSlot, Kept, RowInv,
           NEW t \in Res, Create(t) \/ Update(t) \/ Delete(t)
    PROVE  Phase' /\ ReadInv' /\ OwnInv'
<1>1. /\ UNCHANGED plan
      /\ pc[t] \notin {"refresh", "planned", "done"} /\ pc'[t] \notin {"refresh", "planned"}
      /\ \A x \in Res \ {t} : pc'[x] = pc[x] /\ st'[x] = st[x]
      /\ \A slot \in Slots : slot # Slot(t) => server'[slot] = server[slot]
    BY HandlerFrame DEF RowInv
<1>2. \A x \in Res : pc'[x] \notin {"refresh", "planned"}
    BY <1>1 DEF RowInv, Phase
<1>3. Phase' /\ ReadInv'
    BY <1>2 DEF Phase, ReadInv
<1>4. ASSUME NEW r \in Res, NEW s \in Res, SameSlot(r, s), plan'[s] # "update"
      PROVE  /\ Waiting(r)' /\ st'[s] # Nil /\ pc'[s] # "dropped" => Owned(s)'
             /\ Waiting(r)' /\ pc'[s] = "readback" => Owned(s)'
             /\ plan'[r] = "create" /\ pc'[r] \in {"grant", "readback"} => st'[s] = Nil
  <2>1. plan[s] # "update"
      BY <1>1, <1>4
  <2>2. CASE t = r
      BY <1>4, <2>1, <2>2, CreatorKeepsOwn
  <2>3. CASE t = s
      BY <1>4, <2>1, <2>3, OtherKeepsOwn
  <2>4. CASE t # r /\ t # s
    <3>1. Slot(t) # Slot(s)
        BY <1>4, <2>4 DEF TwoPerSlot, SameSlot
    <3>2. Owned(s)' <=> Owned(s)
        BY <1>1, <3>1, SlotType DEF Owned
    <3>3. pc'[r] = pc[r] /\ pc'[s] = pc[s] /\ st'[s] = st[s]
        BY <1>1, <2>4
    <3> QED
        BY <1>1, <1>4, <2>1, <3>2, <3>3 DEF RowInv, OwnInv, Waiting
  <2> QED
      BY <2>2, <2>3, <2>4
<1>5. OwnInv'
    BY <1>4 DEF OwnInv, SameSlot, Slot
<1> QED
    BY <1>3, <1>5

LEMMA NextKeepsRow ==
    KeyAgreement /\ TwoPerSlot /\ Kept /\ RowInv /\ [Next]_vars => RowInv'
<1> SUFFICES ASSUME KeyAgreement, TwoPerSlot, Kept, RowInv, [Next]_vars
             PROVE  Phase' /\ ReadInv' /\ OwnInv'
    BY NextKeepsType, NextKeepsLock DEF RowInv
<1>0. pc \in [Res -> PC] /\ st \in [Res -> State \cup {Nil}]
    BY DEF RowInv, TypeInv, TypeOK
\* The run begins: what was read and is in the state has its row.
<1>1. CASE StartApply
  <2>1. ASSUME NEW r \in Res
        PROVE  /\ pc'[r] \in {"done", "create_lock", "revoke", "regrant", "delete_lock"}
               /\ pc[r] = "planned"
      BY <1>1 DEF StartApply, PlanOf
  <2>2. Phase' /\ ReadInv'
      BY <2>1 DEF Phase, ReadInv
  <2>3. UNCHANGED <<server, st>>
      BY <1>1 DEF StartApply
  <2>4. ASSUME NEW s \in Res, st'[s] # Nil PROVE Owned(s)'
      BY <2>1, <2>3, <2>4 DEF RowInv, ReadInv, Owned
  <2> QED
      BY <2>1, <2>2, <2>4 DEF OwnInv
<1>2. CASE NewRun \/ Crash \/ \E r \in Res : RefreshFails(r)
  <2>1. \E to \in {"refresh", "done"} : pc' = [r \in Res |-> to]
      BY <1>2 DEF NewRun, Crash, RefreshFails
  <2> QED
      BY <2>1 DEF Phase, ReadInv, OwnInv, Waiting
<1>3. ASSUME NEW t \in Res, Refresh(t) PROVE Phase' /\ ReadInv' /\ OwnInv'
  <2>1. /\ pc[t] = "refresh" /\ pc' = [pc EXCEPT ![t] = "planned"] /\ UNCHANGED <<server, plan>>
        /\ st' = [st EXCEPT ![t] = IF @ = Nil THEN Nil ELSE ReadGrant(t, @)]
      BY <1>3 DEF Refresh, Goto
  <2>2. \A r \in Res : pc'[r] \in {"refresh", "planned"}
      BY <1>0, <2>1 DEF RowInv, Phase
  <2>3. st'[t] # Nil => Owned(t)
      BY <1>0, <2>1, MatchingIsSlot DEF ReadGrant
  <2>4. ReadInv'
      BY <1>0, <2>1, <2>3 DEF RowInv, ReadInv, Owned
  <2> QED
      BY <2>2, <2>4 DEF Phase, OwnInv, Waiting
<1>4. CASE \E t \in Res : ImportGrant(t)
  <2>1. \A r \in Res : pc'[r] = "done"
      BY <1>4 DEF ImportGrant
  <2> QED
      BY <2>1 DEF Phase, ReadInv, OwnInv, Waiting
<1>5. CASE UNCHANGED vars
    BY <1>5 DEF RowInv, Phase, ReadInv, OwnInv, Waiting, Owned, vars
<1> QED
    BY <1>1, <1>2, <1>3, <1>4, <1>5, HandlerKeepsRow DEF Next, Handler

\* The second owner of a row is let in by an update and by nothing else: no crash,
\* rejected statement, lost GRANT, failed read, replacement, deletion or import does
\* it, for any blocks of which at most two are for one row and lock one key, any lists
\* and any number of runs, as long as no reply to a REVOKE is lost.
THEOREM SecondOwner == KeyAgreement /\ TwoPerSlot /\ Kept => (Safe => SecondOwnerByUpdate)
<1> SUFFICES ASSUME KeyAgreement, TwoPerSlot, Kept PROVE Safe => SecondOwnerByUpdate
    OBVIOUS
<1>1. Init => RowInv
    BY InitType DEF Init, RowInv, LockInv, Phase, ReadInv, OwnInv, Waiting
<1>2. RowInv /\ [Next]_vars => RowInv'
    BY NextKeepsRow
<1>3. RowInv /\ [Next]_vars =>
        [\A r, s \in Res :
            /\ SameSlot(r, s) /\ plan[r] = "create"
            /\ st[r] = Nil /\ st'[r] # Nil /\ st[s] # Nil
            => plan[s] = "update"]_vars
  <2> SUFFICES ASSUME RowInv, Next, NEW r \in Res, NEW s \in Res, SameSlot(r, s),
                      plan[r] = "create", st[r] = Nil, st'[r] # Nil, st[s] # Nil,
                      plan[s] # "update"
               PROVE  FALSE
      OBVIOUS
  <2>0. st \in [Res -> State \cup {Nil}]
      BY DEF RowInv, TypeInv, TypeOK
  <2>1. CASE StartApply \/ NewRun \/ Crash \/ \E t \in Res : RefreshFails(t)
      BY <2>1 DEF StartApply, NewRun, Crash, RefreshFails
  <2>2. ASSUME NEW t \in Res, Refresh(t) PROVE FALSE
      BY <2>0, <2>2 DEF Refresh
  <2>3. ASSUME NEW t \in Res, ImportGrant(t) PROVE FALSE
    <3>1. t = r
        BY <2>0, <2>3 DEF ImportGrant
    <3> QED
        BY <2>3, <3>1 DEF ImportGrant, SameSlot
  <2>4. ASSUME NEW t \in Res, Create(t) \/ Update(t) \/ Delete(t) PROVE FALSE
    <3>1. t = r
        BY <2>4, HandlerFrame DEF RowInv
    <3>2. ~Update(r)
        BY DEF RowInv, TypeInv, PlanInv, Update, Revoke, RevokeFails, Regrant, Goto
    <3>3. ReadBack(r)
        BY <2>0, <2>4, <3>1, <3>2 DEF Create, CreateLock, Check, GivesUp, Grant, GrantFails,
            Delete, DeleteLock, Drop, Dropped, DropFails
    <3>4. pc[r] = "readback"
        BY <3>3 DEF ReadBack, Goto
    <3> QED
        BY <3>4 DEF RowInv, OwnInv
  <2> QED
      BY <2>1, <2>2, <2>3, <2>4 DEF Next, Handler
<1> QED
    BY <1>1, <1>2, <1>3, PTL DEF Safe, SecondOwnerByUpdate

------------------------------------------------------------------------------
(* The server and the state after a run without failures, where every row has  *)
(* one block                                                                    *)

Alone == \A r, s \in Res : Slot(r) = Slot(s) => r = s

\* No list with GRANT OPTION names all privileges: REVOKE ALL PRIVILEGES, which is what
\* ReadGrant makes of it, would leave the option behind.
Revocable == \A c \in Configs : c.grant => Meaning(c.privs) # Priv

\* Data that DeleteGrant revokes without a rest
Sound(s) == s.privs # {} /\ (s.grant => Meaning(s.privs) # Priv)

\* No privilege is named twice, and all of them only alone.
Once(P) == \A p, q \in P : Canon[p] = Canon[q] \/ Canon[p] = All => p = q

\* What the row of r has at each place of the handlers of r.
Exact(r) ==
    /\ st[r] # Nil => Sound(st[r])
    /\ pc[r] \in {"refresh", "planned", "done", "create_lock", "check", "delete_lock", "drop",
                  "revoke"} => server[Slot(r)] = IF st[r] = Nil THEN {} ELSE Declared(st[r])
    /\ pc[r] \in {"create_lock", "check", "grant", "readback"} => st[r] = Nil
    /\ pc[r] \in {"grant", "dropped"} => server[Slot(r)] = {}
    /\ pc[r] = "readback" => server[Slot(r)] = Declared(cfg[r])
    /\ pc[r] = "regrant" => server[Slot(r)] \subseteq Declared(cfg[r])
    /\ pc[r] = "revoke" => st[r].grant = cfg[r].grant
    /\ pc[r] \in {"planned", "revoke"} /\ st[r] # Nil => Once(st[r].privs)

ExactInv == faults = 0 => \A r \in Res : Exact(r)

LEMMA MeaningMember ==
    ASSUME NEW P, NEW x
    PROVE  x \in Meaning(P) <=> \E p \in P : x \in (IF Canon[p] = All THEN Priv ELSE {Canon[p]})
BY DEF Meaning

LEMMA MeansSomething ==
    ASSUME NEW P \in SUBSET Raw, P # {}
    PROVE  Meaning(P) # {}
<1>1. PICK p \in P : p \in Raw
    OBVIOUS
<1>2. Canon[p] \in Priv \cup {All}
    BY <1>1, PrivAssumption
<1>3. PICK x : x \in IF Canon[p] = All THEN Priv ELSE {Canon[p]}
    BY <1>2, PrivAssumption
<1> QED
    BY <1>1, <1>3, MeaningMember

\* Lists of the same names mean the same.
LEMMA MeaningOfNames ==
    ASSUME NEW P \in SUBSET Raw, NEW Q \in SUBSET Raw, {Canon[p] : p \in P} = {Canon[q] : q \in Q}
    PROVE  Meaning(P) = Meaning(Q)
<1>1. ASSUME NEW A \in SUBSET Raw, NEW B \in SUBSET Raw,
             {Canon[p] : p \in A} = {Canon[q] : q \in B}, NEW x \in Meaning(A)
      PROVE  x \in Meaning(B)
  <2>1. PICK p \in A : x \in (IF Canon[p] = All THEN Priv ELSE {Canon[p]})
      BY <1>1, MeaningMember
  <2>2. PICK q \in B : Canon[q] = Canon[p]
      BY <1>1
  <2> QED
      BY <2>1, <2>2, MeaningMember
<1>2. Meaning(P) \subseteq Meaning(Q)
    BY <1>1
<1>3. Meaning(Q) \subseteq Meaning(P)
    BY <1>1
<1> QED
    BY <1>2, <1>3

\* SHOW GRANTS names what there is.
LEMMA MeaningNames == ASSUME NEW S PROVE Meaning(Names(S)) = S \cap Priv /\ Once(Names(S))
<1>1. CASE Priv \subseteq S
  <2>1. Names(S) = {All} /\ Canon[All] = All
      BY <1>1, PrivAssumption DEF Names
  <2>2. ASSUME NEW x PROVE x \in Meaning({All}) <=> x \in Priv
      BY <2>1, MeaningMember
  <2> QED
      BY <1>1, <2>1, <2>2 DEF Once
<1>2. CASE ~(Priv \subseteq S)
  <2>1. Names(S) = S \cap Priv
      BY <1>2 DEF Names
  <2>2. \A p \in Priv : Canon[p] = p /\ p # All
      BY PrivAssumption
  <2>3. ASSUME NEW x PROVE x \in Meaning(S \cap Priv) <=> x \in S \cap Priv
      BY <2>2, MeaningMember
  <2> QED
      BY <2>1, <2>2, <2>3 DEF Once
<1> QED
    BY <1>1, <1>2

\* A list that arePrivilegesSetsEqual finds equal to what SHOW GRANTS names has no
\* name twice.
LEMMA SameIsOnce ==
    ASSUME NEW P \in SUBSET Raw, NEW S, SamePrivileges(P, Names(S))
    PROVE  Once(P) /\ Meaning(P) = S \cap Priv
<1> DEFINE N == Names(S)
<1>1. N \in SUBSET Raw /\ \A p \in N : Canon[p] = p
    BY PrivAssumption, NamesType DEF Names
<1>2. PICK pair \in Bijection(P, N) : \A p \in P : Canon[pair[p]] = Canon[p]
    BY DEF SamePrivileges
<1>3. /\ pair \in [P -> N] /\ \A p, q \in P : pair[p] = pair[q] => p = q
      /\ \A n \in N : \E p \in P : pair[p] = n
    BY <1>2 DEF Bijection, Injection, Surjection, IsInjective
<1>4. \A p \in P : pair[p] = Canon[p]
    BY <1>1, <1>2, <1>3
<1>5. {Canon[p] : p \in P} = N /\ {Canon[q] : q \in N} = N
    BY <1>1, <1>3, <1>4
<1>6. \A p, q \in P : Canon[p] = Canon[q] => p = q
    BY <1>3, <1>4
<1>7. \A p, q \in P : Canon[p] = All => p = q
  <2> SUFFICES ASSUME NEW p \in P, NEW q \in P, Canon[p] = All PROVE p = q
      OBVIOUS
  <2>1. All \in N /\ Canon[q] \in N
      BY <1>5
  <2>2. N = {All}
      BY <2>1, PrivAssumption DEF Names
  <2> QED
      BY <1>6, <2>1, <2>2
<1>8. Meaning(P) = Meaning(N)
    BY <1>1, <1>5, MeaningOfNames
<1> QED
    BY <1>6, <1>7, <1>8, MeaningNames DEF Once

LEMMA MatchingRow ==
    ASSUME NEW r \in Res
    PROVE  Matching(r) = IF Owned(r) THEN {Slot(r)} ELSE {}
<1>1. Who[r] \in [name : STRING, host : STRING]
    BY ResAssumption
<1>2. Slot(r) \in ShowGrants(Who[r])
    BY SlotType DEF ShowGrants, Slot
<1>3. Equals(Account(Who[r]), Who[r])
    BY <1>1 DEF Equals, Account
<1>4. Owned(r) => Slot(r) \in Matching(r)
    BY <1>2, <1>3 DEF Matching, Owned, Slot
<1>5. ASSUME NEW m \in Matching(r) PROVE m = Slot(r)
  <2>1. m \in Slots /\ Equals(m[1], Who[r]) /\ m[2] = Obj[r]
      BY <1>5 DEF Matching, ShowGrants
  <2>2. m[1] = Account(Who[r]) \/ m[1] = [Who[r] EXCEPT !.host = "%"]
      BY <1>5 DEF Matching, ShowGrants
  <2>3. m[1] = Account(Who[r])
      BY <1>1, <2>1, <2>2 DEF Equals, Account
  <2> QED
      BY <2>1, <2>3 DEF Slot, Slots
<1>6. Matching(r) # {} => Owned(r)
    BY MatchingIsSlot
<1> QED
    BY <1>4, <1>5, <1>6

\* What ReadGrant puts in the state means what the row has.
LEMMA ReadMeaning ==
    ASSUME TypeOK, NEW r \in Res, Owned(r), NEW old \in State
    PROVE  /\ ReadGrant(r, old) \in State /\ ReadGrant(r, old) # Nil
           /\ Declared(ReadGrant(r, old)) = server[Slot(r)]
           /\ Meaning(ReadGrant(r, old).privs) = server[Slot(r)] \cap Priv
           /\ (ReadGrant(r, old).grant <=> GrantOption \in server[Slot(r)])
           /\ ReadGrant(r, old).privs # {}
           /\ Once(ReadGrant(r, old).privs)
<1> DEFINE S == UNION {server[s] : s \in Matching(r)}
           new == Refreshed(r, old)
<1>1. Matching(r) = {Slot(r)}
    BY MatchingRow
<1>2. S = server[Slot(r)]
    BY <1>1
<1>3. ReadGrant(r, old) = new
    BY <1>1 DEF ReadGrant
<1>4. new \in State /\ new # Nil
    BY RefreshedType, ConfigAssumption
<1>5. new.privs = IF SamePrivileges(old.privs, Names(S)) THEN old.privs ELSE Names(S)
    BY DEF Refreshed
<1>6. new.grant <=> GrantOption \in server[Slot(r)]
  <2>1. new.grant <=> \E s \in Matching(r) : GrantOption \in server[s]
      BY DEF Refreshed
  <2>2. (\E s \in Matching(r) : GrantOption \in server[s]) <=> GrantOption \in server[Slot(r)]
      BY <1>1
  <2> HIDE DEF new
  <2> QED
      BY <2>1, <2>2
<1>7. old.privs \in SUBSET Raw
    BY DEF State
<1> HIDE DEF S, new
<1>8. Meaning(new.privs) = S \cap Priv /\ Once(new.privs)
    BY <1>5, <1>7, SameIsOnce, MeaningNames
<1>9. new.privs # {}
  <2>1. S \cap Priv # {}
      BY <1>2 DEF Owned
  <2> QED
      BY <1>8, <2>1, MeaningMember
<1>10. Declared(new) = server[Slot(r)]
  <2>1. server[Slot(r)] \subseteq Priv \cup {GrantOption}
      BY SlotType DEF TypeOK
  <2> QED
      BY <1>2, <1>6, <1>8, <2>1 DEF Declared
<1> QED
    BY <1>2, <1>3, <1>4, <1>6, <1>8, <1>9, <1>10

\* What the REVOKE of an update leaves is part of what the block declares, and all of it
\* if nothing is to be granted after it.
LEMMA UpdateMeaning ==
    ASSUME NEW old \in State, NEW new \in Configs, old.grant = new.grant, Once(old.privs)
    PROVE  /\ Declared(old) \ Meaning(old.privs \ new.privs) \subseteq Declared(new)
           /\ new.privs \subseteq old.privs =>
                  Declared(old) \ Meaning(old.privs \ new.privs) = Declared(new)
<1> DEFINE Named(p) == IF Canon[p] = All THEN Priv ELSE {Canon[p]}
           gone == old.privs \ new.privs
<1>0. \A P, x : x \in Meaning(P) <=> \E p \in P : x \in Named(p)
    BY MeaningMember
<1>1. old.privs \in SUBSET Raw /\ new.privs \in SUBSET Raw
    BY ConfigAssumption DEF State
<1>2. GrantOption \notin Meaning(gone)
    BY <1>1, MeaningType, PrivAssumption
<1>3. Meaning(old.privs) \ Meaning(gone) \subseteq Meaning(new.privs)
  <2> HIDE DEF Named
  <2> QED
      BY <1>0
<1>4. ASSUME new.privs \subseteq old.privs, NEW x \in Meaning(new.privs)
      PROVE  x \in Meaning(old.privs) \ Meaning(gone)
  <2>1. PICK p \in new.privs : x \in Named(p)
      BY <1>0, <1>4
  <2>2. x \in Meaning(old.privs)
      BY <1>0, <1>4, <2>1
  <2>3. ASSUME NEW q \in gone, x \in Named(q) PROVE FALSE
    <3>1. q # p /\ p \in old.privs /\ q \in old.privs
        BY <1>4, <2>1, <2>3
    <3>2. Canon[p] # All /\ Canon[q] # All /\ Canon[p] # Canon[q]
        BY <3>1 DEF Once
    <3> QED
        BY <2>1, <2>3, <3>2
  <2> HIDE DEF Named, gone
  <2> QED
      BY <1>0, <2>2, <2>3
<1> HIDE DEF gone
<1>5. /\ Declared(old) = Meaning(old.privs) \cup (IF new.grant THEN {GrantOption} ELSE {})
      /\ Declared(new) = Meaning(new.privs) \cup (IF new.grant THEN {GrantOption} ELSE {})
    BY DEF Declared
<1>6. Declared(old) \ Meaning(gone) \subseteq Declared(new)
    BY <1>3, <1>5
<1>7. new.privs \subseteq old.privs => Declared(old) \ Meaning(gone) = Declared(new)
    BY <1>2, <1>3, <1>4, <1>5
<1> QED
    BY <1>6, <1>7 DEF gone

\* The REVOKE of DeleteGrant leaves nothing of a row that has what the state says.
LEMMA DropMeaning ==
    ASSUME NEW s \in State, Sound(s)
    PROVE  Declared(s) \ RevokeStatement(s) = {}
<1>1. s.privs \in SUBSET Raw
    BY DEF State
<1>2. ASSUME s.grant, ContainsAllPrivilege(s.privs) PROVE FALSE
  <2>1. PICK p \in s.privs : Canon[p] = All
      BY <1>2 DEF ContainsAllPrivilege
  <2>2. \A x \in Priv : x \in Meaning(s.privs)
      BY <2>1, MeaningMember
  <2>3. Meaning(s.privs) = Priv
      BY <1>1, <2>2, MeaningType
  <2> QED
      BY <1>2, <2>3 DEF Sound
<1> QED
    BY <1>2 DEF Declared, RevokeStatement

\* A block says something that the server keeps.
LEMMA ConfigSound ==
    ASSUME Revocable, NEW c \in Configs
    PROVE  /\ c.privs # {} /\ c.privs \in SUBSET Raw /\ c.grant \in BOOLEAN
           /\ Meaning(c.privs) # {} /\ Meaning(c.privs) \subseteq Priv
           /\ c.grant => Meaning(c.privs) # Priv
<1>1. c.privs \in (SUBSET Raw) \ {{}} /\ c.grant \in BOOLEAN
    BY ConfigAssumption
<1>2. c.privs \in SUBSET Raw /\ c.privs # {}
    BY <1>1
<1> QED
    BY <1>1, <1>2, MeaningType, MeansSomething DEF Revocable

LEMMA NoFault == ASSUME TypeOK, faults' = 0, NEW kind PROVE ~Fault(kind)
BY LimitAssumption DEF TypeOK, Fault

LEMMA OthersStayExact ==
    ASSUME TypeInv, Alone, NEW t \in Res, Create(t) \/ Update(t) \/ Delete(t),
           NEW x \in Res \ {t}, Exact(x)
    PROVE  Exact(x)'
<1>1. pc'[x] = pc[x] /\ st'[x] = st[x] /\ server'[Slot(x)] = server[Slot(x)]
  <2>1. Slot(x) # Slot(t)
      BY DEF Alone
  <2> QED
      BY <2>1, HandlerFrame, SlotType
<1>2. UNCHANGED cfg
    BY DEF Create, CreateLock, Check, GivesUp, Grant, GrantFails, ReadBack, Update, Revoke,
        RevokeFails, Regrant, Delete, DeleteLock, Drop, Dropped, DropFails
<1>3. Slot(x)' = Slot(x) /\ Declared(st[x])' = Declared(st'[x]) /\ Declared(cfg[x])' = Declared(cfg'[x])
    BY DEF Slot, Declared, Meaning
<1> QED
    BY <1>1, <1>2, <1>3 DEF Exact, Sound, Once

LEMMA CreateExact ==
    ASSUME TypeInv, Revocable, NEW r \in Res, Exact(r), Create(r), faults' = 0
    PROVE  Exact(r)'
<1>0. /\ TypeOK /\ pc \in [Res -> PC] /\ st \in [Res -> State \cup {Nil}]
      /\ server \in [Slots -> SUBSET (Priv \cup {GrantOption})]
      /\ cfg[r] \in Configs \cup {Nil} /\ UNCHANGED cfg /\ Slot(r) \in Slots
    BY SlotType DEF TypeInv, TypeOK, Create, CreateLock, Check, GivesUp, Grant, GrantFails, ReadBack
<1>1. CASE CreateLock(r)
  <2>1. pc[r] = "create_lock" /\ pc'[r] = "check" /\ UNCHANGED <<server, st>>
      BY <1>0, <1>1 DEF CreateLock, Goto
  <2> QED
      BY <2>1 DEF Exact, Slot
<1>2. CASE Check(r)
  <2>1. pc[r] = "check" /\ pc'[r] \in {"grant", "done"} /\ UNCHANGED <<server, st>>
      BY <1>0, <1>2 DEF Check, Goto
  <2> QED
      BY <2>1 DEF Exact, Slot
<1>3. ~GivesUp(r) /\ ~GrantFails(r)
    BY <1>0, NoFault DEF GivesUp, GrantFails
<1>4. CASE Grant(r)
  <2>1. pc[r] = "grant" /\ pc'[r] = "readback" /\ UNCHANGED st
      BY <1>0, <1>4 DEF Grant, Goto
  <2>2. server'[Slot(r)] = server[Slot(r)] \cup Declared(cfg[r])
      BY <1>0, <1>4 DEF Grant, GrantSQL, Declared
  <2>3. server[Slot(r)] = {} /\ st[r] = Nil
      BY <2>1 DEF Exact
  <2> QED
      BY <1>0, <2>1, <2>2, <2>3 DEF Exact, Slot
<1>5. CASE ReadBack(r)
  <2>1. pc[r] = "readback" /\ pc'[r] = "done" /\ UNCHANGED server
      BY <1>0, <1>5 DEF ReadBack, Goto
  <2>2. st'[r] = ReadGrant(r, Planned(r, FALSE))
      BY <1>0, <1>5, NoFault DEF ReadBack
  <2>3. cfg[r] \in Configs /\ server[Slot(r)] = Declared(cfg[r])
      BY <1>0, <2>1 DEF TypeInv, PlanInv, Exact
  <2>4. Planned(r, FALSE) \in State
      BY <1>0, <2>3, ConfigAssumption, PlannedType
  <2>5. Meaning(cfg[r].privs) # {} /\ Meaning(cfg[r].privs) \subseteq Priv
        /\ (cfg[r].grant => Meaning(cfg[r].privs) # Priv)
      BY <2>3, ConfigSound
  <2>6. server[Slot(r)] \cap Priv = Meaning(cfg[r].privs) /\ (GrantOption \in server[Slot(r)] => cfg[r].grant)
      BY <2>3, <2>5, PrivAssumption DEF Declared
  <2>7. Owned(r)
      BY <2>5, <2>6 DEF Owned
  <2>8. st'[r] # Nil /\ Sound(st'[r]) /\ Declared(st'[r]) = server[Slot(r)]
      BY <1>0, <2>2, <2>4, <2>5, <2>6, <2>7, ReadMeaning DEF Sound
  <2> QED
      BY <2>1, <2>8 DEF Exact, Slot
<1> QED
    BY <1>1, <1>2, <1>3, <1>4, <1>5 DEF Create

\* What an update saves is sound.
LEMMA PlannedSound ==
    ASSUME Revocable, NEW r \in Res, cfg[r] \in Configs
    PROVE  /\ Planned(r, FALSE) # Nil /\ Sound(Planned(r, FALSE))
           /\ Declared(Planned(r, FALSE)) = Declared(cfg[r])
<1>1. Planned(r, FALSE) \in State
  <2>1. cfg[r].privs \in SUBSET Raw /\ cfg[r].grant \in BOOLEAN
      BY ConfigSound
  <2> QED
      BY <2>1 DEF Planned, State
<1> QED
    BY <1>1, ConfigSound, ConfigAssumption DEF Planned, Sound, Declared

LEMMA UpdateExact ==
    ASSUME TypeInv, Revocable, NEW r \in Res, Exact(r), Update(r), faults' = 0
    PROVE  Exact(r)'
<1>0. /\ TypeOK /\ pc \in [Res -> PC] /\ st \in [Res -> State \cup {Nil}]
      /\ server \in [Slots -> SUBSET (Priv \cup {GrantOption})]
      /\ UNCHANGED cfg /\ Slot(r) \in Slots /\ pc[r] \in {"revoke", "regrant"}
    BY SlotType DEF TypeInv, TypeOK, Update, Revoke, RevokeFails, Regrant, Goto
<1>1. cfg[r] \in Configs /\ st[r] \in State /\ st[r] # Nil
    BY <1>0 DEF TypeInv, TypeOK, PlanInv
<1>2. Sound(st[r])
    BY <1>1 DEF Exact
<1>3. ASSUME pc'[r] = "done", st'[r] = Planned(r, FALSE), server'[Slot(r)] = Declared(cfg[r])
      PROVE  Exact(r)'
    BY <1>1, <1>3, PlannedSound DEF Exact, Slot
<1>4. pc[r] = "revoke" =>
          /\ server[Slot(r)] = Declared(st[r]) /\ st[r].grant = cfg[r].grant /\ Once(st[r].privs)
          /\ server[Slot(r)] # {}
  <2>1. Meaning(st[r].privs) # {}
    <3>1. st[r].privs \in SUBSET Raw /\ st[r].privs # {}
        BY <1>1, <1>2 DEF Sound, State
    <3> QED
        BY <3>1, MeansSomething
  <2> QED
      BY <1>1, <2>1 DEF Exact, Declared
<1>5. CASE Revoke(r)
  <2>1. /\ pc[r] = "revoke" /\ pc'[r] = (IF ToGrant(r) = {} THEN "done" ELSE "regrant")
        /\ st'[r] = IF ToGrant(r) = {} THEN Planned(r, FALSE) ELSE st[r]
      BY <1>0, <1>5 DEF Revoke, Goto, Save
  <2>2. server'[Slot(r)] = Declared(st[r]) \ Meaning(st[r].privs \ cfg[r].privs)
      BY <1>0, <1>4, <1>5, <2>1 DEF Revoke, RevokeSQL, ToRevoke
  <2>3. CASE ToGrant(r) = {}
    <3>1. cfg[r].privs \subseteq st[r].privs
        BY <2>3 DEF ToGrant
    <3> QED
        BY <1>1, <1>3, <1>4, <2>1, <2>2, <2>3, <3>1, UpdateMeaning
  <2>4. CASE ToGrant(r) # {}
    <3>1. server'[Slot(r)] \subseteq Declared(cfg[r])
        BY <1>1, <1>4, <2>1, <2>2, UpdateMeaning
    <3> QED
        BY <1>0, <1>2, <2>1, <2>4, <3>1 DEF Exact, Slot
  <2> QED
      BY <2>3, <2>4
<1>6. ~RevokeFails(r)
    BY <1>0, <1>4, NoFault DEF RevokeFails, Goto
<1>7. CASE Regrant(r)
  <2>1. pc[r] = "regrant" /\ pc'[r] = "done" /\ st'[r] = Planned(r, FALSE)
      BY <1>0, <1>7 DEF Regrant, Goto, Save
  <2>2. server'[Slot(r)] = server[Slot(r)] \cup Declared(cfg[r])
      BY <1>0, <1>7, NoFault DEF Regrant, GrantSQL, Declared
  <2>3. server[Slot(r)] \subseteq Declared(cfg[r])
      BY <2>1 DEF Exact
  <2> QED
      BY <1>3, <2>1, <2>2, <2>3
<1> QED
    BY <1>5, <1>6, <1>7 DEF Update

LEMMA DeleteExact ==
    ASSUME TypeInv, NEW r \in Res, Exact(r), Delete(r), faults' = 0
    PROVE  Exact(r)'
<1>0. /\ TypeOK /\ pc \in [Res -> PC] /\ st \in [Res -> State \cup {Nil}]
      /\ server \in [Slots -> SUBSET (Priv \cup {GrantOption})] /\ Slot(r) \in Slots
    BY SlotType DEF TypeInv, TypeOK
<1>1. CASE DeleteLock(r)
  <2>1. pc[r] = "delete_lock" /\ pc'[r] = "drop" /\ UNCHANGED <<server, st>>
      BY <1>0, <1>1 DEF DeleteLock, Goto
  <2> QED
      BY <2>1 DEF Exact, Slot
<1>2. CASE Drop(r)
  <2>1. pc[r] = "drop" /\ pc'[r] = "dropped" /\ UNCHANGED st
      BY <1>0, <1>2 DEF Drop, Goto
  <2>2. server'[Slot(r)] = server[Slot(r)] \ RevokeStatement(st[r])
      BY <1>0, <1>2 DEF Drop, RevokeSQL
  <2>3. st[r] \in State /\ Sound(st[r]) /\ server[Slot(r)] = Declared(st[r])
      BY <1>0, <2>1 DEF TypeInv, PlanInv, Exact
  <2>4. server'[Slot(r)] = {}
      BY <2>2, <2>3, DropMeaning
  <2> QED
      BY <2>1, <2>3, <2>4 DEF Exact, Slot
<1>3. CASE Dropped(r)
  <2>1. pc[r] = "dropped" /\ pc'[r] \in {"create_lock", "done"} /\ UNCHANGED server /\ st'[r] = Nil
      BY <1>0, <1>3 DEF Dropped, Goto
  <2> QED
      BY <2>1 DEF Exact, Slot
<1>4. ~DropFails(r)
    BY <1>0, NoFault DEF DropFails
<1> QED
    BY <1>1, <1>2, <1>3, <1>4 DEF Delete

LEMMA RefreshExact ==
    ASSUME TypeInv, NEW r \in Res, Refresh(r), NEW x \in Res, Exact(x)
    PROVE  Exact(x)'
<1>0. /\ TypeOK /\ pc \in [Res -> PC] /\ st \in [Res -> State \cup {Nil}]
      /\ pc[r] = "refresh" /\ pc' = [pc EXCEPT ![r] = "planned"] /\ UNCHANGED <<server, cfg>>
      /\ st' = [st EXCEPT ![r] = IF @ = Nil THEN Nil ELSE ReadGrant(r, @)]
    BY DEF TypeInv, TypeOK, Refresh, Goto
<1>1. CASE x # r
  <2>1. pc'[x] = pc[x] /\ st'[x] = st[x]
      BY <1>0, <1>1
  <2> QED
      BY <1>0, <2>1 DEF Exact, Slot
<1>2. CASE x = r /\ st[r] = Nil
  <2>1. pc'[r] = "planned" /\ st'[r] = Nil
      BY <1>0, <1>2
  <2> QED
      BY <1>0, <1>2, <2>1 DEF Exact, Slot
<1>3. CASE x = r /\ st[r] # Nil
  <2>1. st[r] \in State /\ Sound(st[r]) /\ server[Slot(r)] = Declared(st[r])
      BY <1>0, <1>3 DEF Exact
  <2>2. pc'[r] = "planned" /\ st'[r] = ReadGrant(r, st[r])
      BY <1>0, <1>3
  <2>3. st[r].privs \in SUBSET Raw /\ st[r].privs # {}
      BY <2>1 DEF State, Sound
  <2>4. Meaning(st[r].privs) \subseteq Priv /\ Meaning(st[r].privs) # {}
      BY <2>3, MeaningType, MeansSomething
  <2>5. server[Slot(r)] \cap Priv = Meaning(st[r].privs) /\ (GrantOption \in server[Slot(r)] => st[r].grant)
      BY <2>1, <2>4, PrivAssumption DEF Declared
  <2>6. Owned(r)
      BY <2>4, <2>5 DEF Owned
  <2>7. /\ st'[r] # Nil /\ Sound(st'[r]) /\ Declared(st'[r]) = server[Slot(r)] /\ Once(st'[r].privs)
      BY <1>0, <2>1, <2>2, <2>5, <2>6, ReadMeaning DEF Sound
  <2> QED
      BY <1>0, <1>3, <2>2, <2>7 DEF Exact, Slot
<1> QED
    BY <1>1, <1>2, <1>3

LEMMA ApplyExact ==
    ASSUME TypeInv, StartApply, NEW r \in Res, Exact(r)
    PROVE  Exact(r)'
<1>1. pc[r] = "planned" /\ UNCHANGED <<server, cfg, st>>
    BY DEF StartApply
<1>2. Slot(r)' = Slot(r)
    BY DEF Slot
<1>3. /\ pc'[r] \in {"done", "create_lock", "revoke", "regrant", "delete_lock"}
      /\ pc'[r] = "create_lock" => st[r] = Nil
      /\ pc'[r] \in {"revoke", "regrant"} => /\ st[r] # Nil /\ st[r].grant = cfg[r].grant
                                             /\ pc'[r] = "regrant" => ToRevoke(r) = {}
  <2>1. PlanOf(r) \in Plans
      BY DEF PlanOf, Plans
  <2>2. /\ PlanOf(r) = "create" => st[r] = Nil
        /\ PlanOf(r) = "update" => st[r] # Nil /\ st[r].grant = cfg[r].grant
      BY DEF PlanOf
  <2> QED
      BY <2>1, <2>2 DEF StartApply, Plans
<1>4. pc'[r] = "regrant" => Declared(st[r]) \subseteq Declared(cfg[r])
  <2> SUFFICES ASSUME pc'[r] = "regrant" PROVE Declared(st[r]) \subseteq Declared(cfg[r])
      OBVIOUS
  <2>1. st[r].privs \subseteq cfg[r].privs /\ st[r].grant = cfg[r].grant
      BY <1>3 DEF ToRevoke
  <2>2. Meaning(st[r].privs) \subseteq Meaning(cfg[r].privs)
      BY <2>1, MeaningMember
  <2> QED
      BY <2>1, <2>2 DEF Declared
<1> QED
    BY <1>1, <1>2, <1>3, <1>4 DEF Exact

LEMMA NextKeepsExact ==
    Alone /\ Revocable /\ TypeInv /\ ExactInv /\ [Next]_vars => ExactInv'
<1> SUFFICES ASSUME Alone, Revocable, TypeInv, ExactInv, [Next]_vars, faults' = 0,
                    NEW x \in Res
             PROVE  Exact(x)'
    BY DEF ExactInv
<1>0. faults \in Nat /\ \A kind : ~Fault(kind)
    BY NoFault, LimitAssumption DEF TypeInv, TypeOK
<1>1. faults = 0
  <2>1. UNCHANGED faults
    <3>1. ASSUME NEW r \in Res, Create(r) \/ Update(r) \/ Delete(r) PROVE UNCHANGED faults
        BY <1>0, <3>1 DEF Create, CreateLock, Check, GivesUp, Grant, GrantFails, ReadBack, Update,
            Revoke, RevokeFails, Regrant, Delete, DeleteLock, Drop, Dropped, DropFails
    <3> QED
        BY <1>0, <3>1 DEF Next, Handler, StartApply, NewRun, Crash, Refresh, RefreshFails,
            ImportGrant, vars
  <2> QED
      BY <2>1
<1>2. \A r \in Res : Exact(r)
    BY <1>1 DEF ExactInv
<1>3. CASE StartApply
    BY <1>2, <1>3, ApplyExact
<1>4. CASE NewRun
  <2>1. pc[x] = "done" /\ pc'[x] = "refresh" /\ UNCHANGED <<server, st>>
      BY <1>4 DEF NewRun
  <2> QED
      BY <1>2, <2>1 DEF Exact, Slot
<1>5. ~Crash /\ \A r \in Res : ~RefreshFails(r)
    BY <1>0 DEF Crash, RefreshFails
<1>6. ASSUME NEW r \in Res, Refresh(r) PROVE Exact(x)'
    BY <1>2, <1>6, RefreshExact
<1>7. ASSUME NEW r \in Res, Create(r) \/ Update(r) \/ Delete(r) PROVE Exact(x)'
    BY <1>2, <1>7, OthersStayExact, CreateExact, UpdateExact, DeleteExact
\* A row that no resource has in the state is empty.
<1>8. ASSUME NEW r \in Res, ImportGrant(r) PROVE FALSE
  <2>1. pc[r] = "done" /\ st[r] = Nil /\ Matching(r) # {}
      BY <1>8 DEF ImportGrant
  <2>2. server[Slot(r)] = {}
      BY <1>2, <2>1 DEF Exact
  <2> QED
      BY <2>1, <2>2, MatchingIsSlot DEF Owned
<1>9. CASE UNCHANGED vars
    BY <1>2, <1>9 DEF Exact, Slot, vars
<1> QED
    BY <1>3, <1>4, <1>5, <1>6, <1>7, <1>8, <1>9 DEF Next, Handler

LEMMA ExactAlways == Alone /\ Revocable => (Safe => []ExactInv)
<1> SUFFICES ASSUME Alone, Revocable PROVE Safe => []ExactInv
    OBVIOUS
<1>1. Init => TypeInv /\ ExactInv
  <2> SUFFICES ASSUME Init PROVE ExactInv
      BY InitType
  <2> QED
      BY SlotType DEF Init, ExactInv, Exact
<1>2. TypeInv /\ [Next]_vars => TypeInv'
    BY NextKeepsType
<1>3. TypeInv /\ ExactInv /\ [Next]_vars => ExactInv'
    BY NextKeepsExact
<1> QED
    BY <1>1, <1>2, <1>3, PTL DEF Safe

\* After a run without failures the server has what the state says, neither more nor less,
\* through any number of creations, updates, replacements and edits of the lists, in
\* whatever spelling and however often a list names a privilege, if every row has one block
\* and no list with GRANT OPTION names all privileges.
THEOREM StateTrue == Alone /\ Revocable => (Safe => []StateIsTrue)
<1> SUFFICES ASSUME Alone, Revocable PROVE Safe => []StateIsTrue
    OBVIOUS
<1>1. ExactInv => StateIsTrue
    BY DEF ExactInv, Exact, StateIsTrue, RunEnded
<1> QED
    BY <1>1, ExactAlways, PTL

\* And it has nothing left of what is no longer in the state, under the same assumptions.
THEOREM NothingLeft == Alone /\ Revocable => (Safe => []DestroyLeavesNothing)
<1> SUFFICES ASSUME Alone, Revocable PROVE Safe => []DestroyLeavesNothing
    OBVIOUS
<1>1. ExactInv => DestroyLeavesNothing
    BY DEF ExactInv, Exact, DestroyLeavesNothing, RunEnded
<1> QED
    BY <1>1, ExactAlways, PTL

------------------------------------------------------------------------------
(* One owner of a row, where all lists share a privilege                       *)

\* No other name of a list is, or includes, the privilege p.
Plain(P, p) == \A q \in P : Canon[q] # All /\ (Canon[q] = p => q = p)

Granted == UNION {Meaning(c.privs) : c \in Configs}

\* Every list has p in so many words, and not even all of them together are everything,
\* which SHOW GRANTS would call by another name.
Common(p) == /\ p \in Priv /\ Granted # Priv
             /\ \A c \in Configs : p \in c.privs /\ Plain(c.privs, p)

\* r is in the state, or has found its row empty and is about to be.
Holds(r) == st[r] # Nil \/ pc[r] \in {"grant", "readback"}

AtMostOne == \A r, s \in Res : SameSlot(r, s) => ~Holds(r) \/ ~Holds(s)

\* A row with privileges has p, which no update takes away, so that none empties the row.
RowHas(r, p) ==
    /\ Owned(r) => p \in server[Slot(r)]
    /\ server[Slot(r)] \subseteq Granted \cup {GrantOption}

\* What is in the state has a row, unless a crash or a failed refresh has ended the run,
\* and until the row is read again; what is about to be deleted is what was read.
HeldHas(r, p) ==
    /\ st[r] # Nil => Plain(st[r].privs, p)
    /\ st[r] # Nil /\ pc[r] \notin {"refresh", "dropped"} /\ ~RunEnded => Owned(r)
    /\ pc[r] = "readback" => Owned(r)
    /\ pc[r] = "grant" => ~Owned(r)
    /\ pc[r] \in {"planned", "delete_lock", "drop"} /\ st[r] # Nil =>
           Meaning(st[r].privs) = server[Slot(r)] \cap Priv

OwnedInv(p) == \A r \in Res : RowHas(r, p) /\ HeldHas(r, p)

OwnerInv(p) == TypeInv /\ LockInv /\ Phase /\ AtMostOne /\ OwnedInv(p)

LEMMA ReadNames ==
    ASSUME NEW r \in Res, NEW old, Owned(r)
    PROVE  ReadGrant(r, old).privs \in {old.privs, Names(server[Slot(r)])}
<1>1. Matching(r) = {Slot(r)}
    BY MatchingRow
<1> DEFINE S == UNION {server[s] : s \in Matching(r)}
<1>2. S = server[Slot(r)]
    BY <1>1
<1>3. ReadGrant(r, old) = Refreshed(r, old)
    BY <1>1 DEF ReadGrant
<1>4. Refreshed(r, old).privs = IF SamePrivileges(old.privs, Names(S)) THEN old.privs ELSE Names(S)
    BY DEF Refreshed
<1> HIDE DEF S
<1> QED
    BY <1>2, <1>3, <1>4

LEMMA ReadPlain ==
    ASSUME NEW p, Common(p), NEW r \in Res, NEW old, Plain(old.privs, p), Owned(r),
           server[Slot(r)] \subseteq Granted \cup {GrantOption}
    PROVE  Plain(ReadGrant(r, old).privs, p)
<1>1. Names(server[Slot(r)]) = server[Slot(r)] \cap Priv
  <2>1. \A c \in Configs : c.privs \in SUBSET Raw
      <3>1. \A c \in Configs : c.privs \in (SUBSET Raw) \ {{}}
          BY ConfigAssumption
      <3> QED
          BY <3>1
  <2>2. Granted \subseteq Priv
      BY <2>1, MeaningType DEF Granted
  <2>3. ~(Priv \subseteq server[Slot(r)])
      BY <2>2, PrivAssumption DEF Common
  <2> QED
      BY <2>3 DEF Names
<1>2. Plain(server[Slot(r)] \cap Priv, p)
    BY PrivAssumption DEF Plain
<1> QED
    BY <1>1, <1>2, ReadNames

\* The statements of the handler of t, whose row nobody else holds
LEMMA GrantRow ==
    ASSUME NEW p, Common(p), TypeOK, NEW t \in Res, cfg[t] \in Configs,
           server' = GrantSQL(Slot(t), cfg[t]), server[Slot(t)] \subseteq Granted \cup {GrantOption}
    PROVE  /\ Owned(t)' /\ p \in server'[Slot(t)]
           /\ server'[Slot(t)] \subseteq Granted \cup {GrantOption}
<1>1. server'[Slot(t)] = server[Slot(t)] \cup Meaning(cfg[t].privs)
                         \cup (IF cfg[t].grant THEN {GrantOption} ELSE {})
    BY SlotType DEF GrantSQL, TypeOK
<1>2. p \in Meaning(cfg[t].privs)
    BY PrivAssumption, MeaningMember DEF Common
<1>3. Meaning(cfg[t].privs) \subseteq Granted
    BY DEF Granted
<1>4. Slot(t)' = Slot(t) /\ p \in Priv
    BY DEF Slot, Common
<1> QED
    BY <1>1, <1>2, <1>3, <1>4 DEF Owned

LEMMA RevokeRow ==
    ASSUME NEW p, Common(p), TypeOK, NEW t \in Res, cfg[t] \in Configs, Plain(st[t].privs, p),
           server' = RevokeSQL(Slot(t), Meaning(ToRevoke(t))), p \in server[Slot(t)]
    PROVE  Owned(t)' /\ p \in server'[Slot(t)] /\ server'[Slot(t)] \subseteq server[Slot(t)]
<1>1. server'[Slot(t)] = server[Slot(t)] \ Meaning(ToRevoke(t))
    BY SlotType DEF RevokeSQL, TypeOK
<1>2. p \notin Meaning(ToRevoke(t))
    BY MeaningMember DEF Common, Plain, ToRevoke
<1>3. Slot(t)' = Slot(t) /\ p \in Priv
    BY DEF Slot, Common
<1> QED
    BY <1>1, <1>2, <1>3 DEF Owned

\* What a step of its own handler makes of a resource and its row
LEMMA CreateOwns ==
    ASSUME NEW p, Common(p), TypeInv, NEW t \in Res, RowHas(t, p), HeldHas(t, p), Create(t)
    PROVE  RowHas(t, p)' /\ HeldHas(t, p)'
<1>0. /\ TypeOK /\ pc \in [Res -> PC] /\ st \in [Res -> State \cup {Nil}] /\ Slot(t)' = Slot(t)
      /\ cfg[t] \in Configs /\ ~RunEnded
  <2>1. pc[t] \in {"create_lock", "check", "grant", "readback"}
      BY DEF Create, CreateLock, Check, GivesUp, Grant, GrantFails, ReadBack, Goto
  <2> QED
      BY <2>1 DEF TypeInv, TypeOK, PlanInv, Slot, RunEnded
<1>1. CASE CreateLock(t) \/ GivesUp(t)
  <2>1. pc[t] \in {"create_lock", "check"} /\ pc'[t] \in {"check", "done"} /\ UNCHANGED <<server, st>>
      BY <1>0, <1>1 DEF CreateLock, GivesUp, Goto
  <2> QED
      BY <1>0, <2>1 DEF RowHas, HeldHas, Owned
<1>2. CASE Check(t)
  <2>1. /\ pc[t] = "check" /\ UNCHANGED <<server, st>>
        /\ pc'[t] = "done" \/ (pc'[t] = "grant" /\ ~Owned(t))
      BY <1>0, <1>2, MatchingRow DEF Check, Goto
  <2> QED
      BY <1>0, <2>1 DEF RowHas, HeldHas, Owned
<1>3. CASE Grant(t) \/ (GrantFails(t) /\ server' # server)
  <2>1. /\ pc'[t] \in {"readback", "done"} /\ UNCHANGED st /\ server' = GrantSQL(Slot(t), cfg[t])
      BY <1>0, <1>3 DEF Grant, GrantFails, Goto
  <2>2. /\ Owned(t)' /\ p \in server'[Slot(t)]
        /\ server'[Slot(t)] \subseteq Granted \cup {GrantOption}
      BY <1>0, <2>1, GrantRow DEF RowHas
  <2> QED
      BY <1>0, <2>1, <2>2 DEF RowHas, HeldHas
<1>4. CASE GrantFails(t) /\ server' = server
  <2>1. pc[t] = "grant" /\ pc'[t] = "done" /\ UNCHANGED <<server, st>>
      BY <1>0, <1>4 DEF GrantFails, Goto
  <2> QED
      BY <1>0, <2>1 DEF RowHas, HeldHas, Owned
<1>5. CASE ReadBack(t)
  <2>1. /\ pc[t] = "readback" /\ pc'[t] = "done" /\ UNCHANGED server
        /\ st'[t] \in {ReadGrant(t, Planned(t, FALSE)), Planned(t, TRUE)}
      BY <1>0, <1>5 DEF ReadBack, Goto
  <2>2. Plain(cfg[t].privs, p) /\ Owned(t)
      BY <1>0, <2>1 DEF Common, HeldHas
  <2>3. Planned(t, FALSE).privs = cfg[t].privs /\ Planned(t, TRUE).privs = cfg[t].privs
      BY DEF Planned
  <2>4. Plain(st'[t].privs, p)
      BY <2>1, <2>2, <2>3, ReadPlain DEF RowHas
  <2> QED
      BY <1>0, <2>1, <2>2, <2>4 DEF RowHas, HeldHas, Owned
<1> QED
    BY <1>1, <1>2, <1>3, <1>4, <1>5 DEF Create

LEMMA UpdateOwns ==
    ASSUME NEW p, Common(p), TypeInv, NEW t \in Res, RowHas(t, p), HeldHas(t, p), Update(t)
    PROVE  RowHas(t, p)' /\ HeldHas(t, p)'
<1>0. /\ TypeOK /\ pc \in [Res -> PC] /\ st \in [Res -> State \cup {Nil}] /\ Slot(t)' = Slot(t)
      /\ cfg[t] \in Configs /\ st[t] # Nil /\ ~RunEnded /\ pc[t] \in {"revoke", "regrant"}
      /\ pc'[t] \in {"regrant", "done"}
  <2>1. /\ pc[t] \in {"revoke", "regrant"}
        /\ \E to \in {"regrant", "done"} : pc' = [pc EXCEPT ![t] = to]
      BY DEF Update, Revoke, RevokeFails, Regrant, Goto
  <2> QED
      BY <2>1 DEF TypeInv, TypeOK, PlanInv, Slot, RunEnded
<1>1. Owned(t) /\ p \in server[Slot(t)] /\ Plain(st[t].privs, p)
    BY <1>0 DEF RowHas, HeldHas
<1>2. Plain(st'[t].privs, p)
  <2>1. Plain(cfg[t].privs, p) /\ Planned(t, FALSE).privs = cfg[t].privs
      BY <1>0 DEF Common, Planned
  <2>2. st'[t] \in {st[t], Planned(t, FALSE)}
      BY <1>0 DEF Update, Revoke, RevokeFails, Regrant, Save
  <2> QED
      BY <1>1, <2>1, <2>2
<1>3. /\ Owned(t)' /\ p \in server'[Slot(t)]
      /\ server'[Slot(t)] \subseteq Granted \cup {GrantOption}
  <2>1. \/ server' = server \/ server' = GrantSQL(Slot(t), cfg[t])
        \/ server' = RevokeSQL(Slot(t), Meaning(ToRevoke(t)))
      BY DEF Update, Revoke, RevokeFails, Regrant
  <2>2. server' = server => Owned(t)'
      BY <1>0, <1>1 DEF Owned
  <2> QED
      BY <1>0, <1>1, <2>1, <2>2, GrantRow, RevokeRow DEF RowHas
<1> QED
    BY <1>0, <1>2, <1>3 DEF RowHas, HeldHas

LEMMA DeleteOwns ==
    ASSUME NEW p, Common(p), Kept, TypeInv, NEW t \in Res, RowHas(t, p), HeldHas(t, p), Delete(t)
    PROVE  RowHas(t, p)' /\ HeldHas(t, p)'
<1>0. /\ TypeOK /\ pc \in [Res -> PC] /\ st \in [Res -> State \cup {Nil}] /\ Slot(t)' = Slot(t)
      /\ ~RunEnded
  <2>1. pc[t] \in {"delete_lock", "drop", "dropped"}
      BY DEF Delete, DeleteLock, Drop, Dropped, DropFails, Goto
  <2> QED
      BY <2>1 DEF TypeInv, TypeOK, Slot, RunEnded
<1>1. CASE DeleteLock(t) \/ DropFails(t)
  <2>1. /\ pc[t] \in {"delete_lock", "drop"} /\ pc'[t] \in {"drop", "done"}
        /\ UNCHANGED <<server, st>>
      BY <1>0, <1>1 DEF DeleteLock, DropFails, Goto, Fault, Kept
  <2> QED
      BY <1>0, <2>1 DEF RowHas, HeldHas, Owned
<1>2. CASE Drop(t)
  <2>1. pc[t] = "drop" /\ pc'[t] = "dropped" /\ UNCHANGED st
      BY <1>0, <1>2 DEF Drop, Goto
  <2>2. st[t] # Nil
      BY <2>1 DEF TypeInv, PlanInv
  <2>3. server'[Slot(t)] = server[Slot(t)] \ RevokeStatement(st[t])
      BY <1>0, <1>2, SlotType DEF Drop, RevokeSQL, TypeOK
  <2>4. Meaning(st[t].privs) = server[Slot(t)] \cap Priv
      BY <2>1, <2>2 DEF HeldHas
  <2>5. ~Owned(t)' /\ server'[Slot(t)] \subseteq server[Slot(t)]
      BY <1>0, <2>3, <2>4 DEF Owned, RevokeStatement
  <2> QED
      BY <1>0, <2>1, <2>5 DEF RowHas, HeldHas
<1>3. CASE Dropped(t)
  <2>1. pc'[t] \in {"create_lock", "done"} /\ UNCHANGED server /\ st'[t] = Nil
      BY <1>0, <1>3 DEF Dropped, Goto
  <2> QED
      BY <1>0, <2>1 DEF RowHas, HeldHas, Owned
<1> QED
    BY <1>1, <1>2, <1>3 DEF Delete

\* A statement of a handler is about a row that the handler holds.
LEMMA HeldWhenWritten ==
    ASSUME TypeInv, NEW t \in Res, Create(t) \/ Update(t) \/ Delete(t), server' # server
    PROVE  Holds(t)
<1>1. CASE Create(t)
  <2>1. pc[t] = "grant"
      BY <1>1 DEF Create, CreateLock, Check, GivesUp, Grant, GrantFails, ReadBack, Goto
  <2> QED
      BY <2>1 DEF Holds
<1>2. CASE Update(t) \/ Delete(t)
  <2>1. pc[t] \in {"revoke", "regrant", "drop"}
      BY <1>2 DEF Update, Revoke, RevokeFails, Regrant, Delete, DeleteLock, Drop, Dropped,
          DropFails, Goto
  <2> QED
      BY <2>1 DEF TypeInv, PlanInv, Holds
<1> QED
    BY <1>1, <1>2

LEMMA OtherOwns ==
    ASSUME NEW p, OwnerInv(p), NEW t \in Res, Create(t) \/ Update(t) \/ Delete(t),
           RowHas(t, p)', NEW x \in Res \ {t}
    PROVE  RowHas(x, p)' /\ HeldHas(x, p)'
<1>1. /\ pc[t] # "done" /\ pc'[x] = pc[x] /\ st'[x] = st[x]
      /\ Slot(x) # Slot(t) => server'[Slot(x)] = server[Slot(x)]
    BY HandlerFrame, SlotType DEF OwnerInv
<1>2. Slot(x)' = Slot(x) /\ Slot(t)' = Slot(t) /\ ~RunEnded
    BY <1>1 DEF Slot, RunEnded
<1>3. TypeInv /\ RowHas(x, p) /\ HeldHas(x, p)
    BY DEF OwnerInv, OwnedInv
<1>4. CASE server'[Slot(x)] = server[Slot(x)]
    BY <1>1, <1>2, <1>3, <1>4 DEF RowHas, HeldHas, Owned
<1>5. CASE server'[Slot(x)] # server[Slot(x)]
  <2>1. SameSlot(x, t) /\ Holds(t)
      BY <1>1, <1>3, <1>5, HeldWhenWritten DEF SameSlot
  <2>2. st[x] = Nil /\ pc[x] \notin {"grant", "readback"}
      BY <2>1 DEF OwnerInv, AtMostOne, Holds
  <2>3. RowHas(x, p)'
      BY <1>2, <2>1 DEF RowHas, Owned, SameSlot
  <2> QED
      BY <1>1, <2>2, <2>3 DEF HeldHas
<1> QED
    BY <1>4, <1>5

\* A handler holds a row from the check that finds it empty.
LEMMA HoldsFromCheck ==
    ASSUME TypeInv, NEW t \in Res, Create(t) \/ Update(t) \/ Delete(t), Holds(t)', ~Holds(t)
    PROVE  pc[t] = "check" /\ ~Owned(t)
<1>0. pc \in [Res -> PC] /\ st \in [Res -> State \cup {Nil}]
    BY DEF TypeInv, TypeOK
<1>1. st[t] = Nil /\ pc[t] \notin {"grant", "readback", "revoke", "regrant", "delete_lock", "drop"}
    BY DEF Holds, TypeInv, PlanInv
<1>2. ~Update(t) /\ ~DeleteLock(t) /\ ~Drop(t) /\ ~DropFails(t) /\ ~Grant(t) /\ ~GrantFails(t) /\ ~ReadBack(t)
    BY <1>1 DEF Update, Revoke, RevokeFails, Regrant, DeleteLock, Drop, DropFails, Grant,
        GrantFails, ReadBack, Goto
<1>3. ~Dropped(t) /\ ~CreateLock(t) /\ ~GivesUp(t)
    BY <1>0, <1>1 DEF Dropped, CreateLock, GivesUp, Goto, Holds
<1>4. Check(t)
    BY <1>2, <1>3 DEF Create, Delete
<1>5. pc[t] = "check" /\ Matching(t) = {}
    BY <1>0, <1>1, <1>4 DEF Check, Goto, Holds
<1> QED
    BY <1>5, MatchingRow

LEMMA HandlerKeepsOne ==
    ASSUME KeyAgreement, NEW p, OwnerInv(p), NEW t \in Res, Create(t) \/ Update(t) \/ Delete(t)
    PROVE  AtMostOne'
<1>0. TypeInv
    BY DEF OwnerInv
<1>1. ASSUME NEW x \in Res, SameSlot(x, t), Holds(t)' PROVE ~Holds(x)
  <2>1. CASE Holds(t)
      BY <1>1, <2>1 DEF OwnerInv, AtMostOne
  <2>2. CASE ~Holds(t)
    <3>1. pc[t] = "check" /\ ~Owned(t)
        BY <1>0, <1>1, <2>2, HoldsFromCheck
    <3>2. Slot(x) = Slot(t) /\ KeyOf(x) = KeyOf(t) /\ x # t
        BY <1>1 DEF SameSlot, KeyAgreement
    <3>3. pc[x] \notin {"grant", "readback", "dropped"}
        BY <3>1, <3>2 DEF OwnerInv, LockInv
    <3>4. pc[x] # "refresh" /\ ~RunEnded
        BY <3>1 DEF OwnerInv, Phase, RunEnded
    <3>5. ~Owned(x)
        BY <3>1, <3>2 DEF Owned
    <3>6. st[x] = Nil
        BY <3>3, <3>4, <3>5 DEF OwnerInv, OwnedInv, HeldHas
    <3> QED
        BY <3>3, <3>6 DEF Holds
  <2> QED
      BY <2>1, <2>2
<1>2. ASSUME NEW x \in Res \ {t} PROVE Holds(x)' <=> Holds(x)
    BY <1>0, HandlerFrame DEF Holds
<1>3. ASSUME NEW r \in Res, NEW s \in Res, SameSlot(r, s) PROVE ~Holds(r)' \/ ~Holds(s)'
  <2>1. SameSlot(s, r) /\ r # s /\ (~Holds(r) \/ ~Holds(s))
      BY <1>3 DEF SameSlot, OwnerInv, AtMostOne
  <2> QED
      BY <1>1, <1>2, <1>3, <2>1
<1> QED
    BY <1>3 DEF AtMostOne, SameSlot, Slot

LEMMA HandlerKeepsOwner ==
    ASSUME KeyAgreement, Kept, NEW p, Common(p), OwnerInv(p),
           NEW t \in Res, Create(t) \/ Update(t) \/ Delete(t)
    PROVE  Phase' /\ AtMostOne' /\ OwnedInv(p)'
<1>1. \A x \in Res : pc'[x] \notin {"refresh", "planned"}
    BY HandlerFrame DEF OwnerInv, Phase
<1>2. RowHas(t, p)' /\ HeldHas(t, p)'
    BY CreateOwns, UpdateOwns, DeleteOwns DEF OwnerInv, OwnedInv
<1>3. OwnedInv(p)'
    BY <1>2, OtherOwns DEF OwnedInv
<1> QED
    BY <1>1, <1>3, HandlerKeepsOne DEF Phase

LEMMA RefreshKeepsOwner ==
    ASSUME NEW p, Common(p), OwnerInv(p), NEW t \in Res, Refresh(t)
    PROVE  Phase' /\ AtMostOne' /\ OwnedInv(p)'
<1>0. /\ pc \in [Res -> PC] /\ st \in [Res -> State \cup {Nil}]
      /\ pc[t] = "refresh" /\ pc' = [pc EXCEPT ![t] = "planned"] /\ UNCHANGED server
      /\ st' = [st EXCEPT ![t] = IF @ = Nil THEN Nil ELSE ReadGrant(t, @)]
    BY DEF OwnerInv, TypeInv, TypeOK, Refresh, Goto
<1>1. \A x \in Res : pc'[x] \in {"refresh", "planned"}
    BY <1>0 DEF OwnerInv, Phase
<1>2. \A x \in Res : Holds(x)' => Holds(x)
    BY <1>0, <1>1 DEF Holds
<1>3. AtMostOne'
    BY <1>2 DEF OwnerInv, AtMostOne, SameSlot, Slot
<1>4. ASSUME NEW x \in Res PROVE RowHas(x, p)'
    BY <1>0 DEF OwnerInv, OwnedInv, RowHas, Owned, Slot
<1>5. ASSUME NEW x \in Res \ {t} PROVE HeldHas(x, p)'
  <2>1. pc'[x] = pc[x] /\ st'[x] = st[x] /\ pc[x] \in {"refresh", "planned"} /\ ~RunEnded
      BY <1>0, <1>1 DEF RunEnded
  <2> QED
      BY <1>0, <2>1 DEF OwnerInv, OwnedInv, HeldHas, Owned, Slot
<1>6. HeldHas(t, p)'
  <2>1. CASE st'[t] = Nil
      BY <1>0, <2>1 DEF HeldHas
  <2>2. CASE st'[t] # Nil
    <3>1. pc'[t] = "planned" /\ st[t] # Nil /\ st'[t] = ReadGrant(t, st[t]) /\ Owned(t)
        BY <1>0, <2>2, MatchingIsSlot DEF ReadGrant
    <3>2. Plain(st[t].privs, p) /\ RowHas(t, p)
        BY <3>1 DEF OwnerInv, OwnedInv, HeldHas
    <3>3. Plain(ReadGrant(t, st[t]).privs, p)
        BY <3>1, <3>2, ReadPlain DEF RowHas
    <3>4. Meaning(ReadGrant(t, st[t]).privs) = server[Slot(t)] \cap Priv
      <4>1. TypeOK /\ st[t] \in State
          BY <1>0, <3>1 DEF OwnerInv, TypeInv
      <4> QED
          BY <3>1, <4>1, ReadMeaning
    <3> QED
        BY <1>0, <3>1, <3>3, <3>4 DEF HeldHas, Owned, Slot
  <2> QED
      BY <2>1, <2>2
<1> QED
    BY <1>1, <1>3, <1>4, <1>5, <1>6 DEF Phase, OwnedInv

LEMMA ImportKeepsOwner ==
    ASSUME NEW p, Common(p), OwnerInv(p), NEW t \in Res, ImportGrant(t)
    PROVE  Phase' /\ AtMostOne' /\ OwnedInv(p)'
<1>0. /\ st \in [Res -> State \cup {Nil}] /\ UNCHANGED <<server, pc>>
      /\ \A x \in Res : pc[x] = "done"
      /\ \A x \in Res : Slot(x) = Slot(t) => st[x] = Nil
      /\ st' = [st EXCEPT ![t] = ReadGrant(t, Blank)] /\ Owned(t)
    BY MatchingIsSlot DEF OwnerInv, TypeInv, TypeOK, ImportGrant
<1>1. Phase' /\ RunEnded'
    BY <1>0 DEF Phase, RunEnded
<1>2. AtMostOne'
    BY <1>0 DEF OwnerInv, AtMostOne, SameSlot, Holds, Slot
<1>3. ASSUME NEW x \in Res PROVE RowHas(x, p)'
    BY <1>0 DEF OwnerInv, OwnedInv, RowHas, Owned, Slot
<1>4. ASSUME NEW x \in Res PROVE st'[x] # Nil => Plain(st'[x].privs, p)
  <2>1. Plain(Blank.privs, p)
      BY DEF Plain, Blank
  <2>2. Plain(ReadGrant(t, Blank).privs, p)
      BY <1>0, <2>1, ReadPlain DEF OwnerInv, OwnedInv, RowHas
  <2> QED
      BY <1>0, <2>2 DEF OwnerInv, OwnedInv, HeldHas
<1> QED
    BY <1>0, <1>1, <1>2, <1>3, <1>4 DEF OwnedInv, HeldHas

LEMMA NextKeepsOwner ==
    ASSUME KeyAgreement, Kept, NEW p, Common(p), OwnerInv(p), [Next]_vars
    PROVE  OwnerInv(p)'
<1> SUFFICES Phase' /\ AtMostOne' /\ OwnedInv(p)'
    BY NextKeepsType, NextKeepsLock DEF OwnerInv
<1>1. CASE StartApply
  <2>1. ASSUME NEW r \in Res
        PROVE  /\ pc'[r] \in {"done", "create_lock", "revoke", "regrant", "delete_lock"}
               /\ pc[r] = "planned"
      BY <1>1 DEF StartApply, PlanOf
  <2>2. Phase'
      BY <2>1 DEF Phase
  <2>3. UNCHANGED <<server, st>>
      BY <1>1 DEF StartApply
  <2>4. AtMostOne'
      BY <2>1, <2>3 DEF OwnerInv, AtMostOne, Holds, SameSlot, Slot
  <2>5. ASSUME NEW x \in Res PROVE RowHas(x, p)' /\ HeldHas(x, p)'
    <3>1. pc[x] = "planned" /\ pc'[x] \notin {"grant", "readback", "planned"} /\ ~RunEnded
        BY <2>1 DEF RunEnded
    <3> QED
        BY <2>3, <3>1 DEF OwnerInv, OwnedInv, RowHas, HeldHas, Owned, Slot
  <2> QED
      BY <2>2, <2>4, <2>5 DEF OwnedInv
<1>2. CASE NewRun \/ Crash \/ \E r \in Res : RefreshFails(r)
  <2>1. PICK to \in {"refresh", "done"} : pc' = [r \in Res |-> to]
      BY <1>2 DEF NewRun, Crash, RefreshFails
  <2>2. UNCHANGED <<server, st>>
      BY <1>2 DEF NewRun, Crash, RefreshFails
  <2>3. Phase'
      BY <2>1 DEF Phase
  <2>4. AtMostOne'
      BY <2>1, <2>2 DEF OwnerInv, AtMostOne, Holds, SameSlot, Slot
  <2>5. ASSUME NEW x \in Res PROVE RowHas(x, p)' /\ HeldHas(x, p)'
    <3>1. pc'[x] = "refresh" \/ RunEnded'
        BY <2>1 DEF RunEnded
    <3>2. pc'[x] \in {"refresh", "done"}
        BY <2>1
    <3> QED
        BY <2>2, <3>1, <3>2 DEF OwnerInv, OwnedInv, RowHas, HeldHas, Owned, Slot
  <2> QED
      BY <2>3, <2>4, <2>5 DEF OwnedInv
<1>3. ASSUME NEW t \in Res, Refresh(t) PROVE Phase' /\ AtMostOne' /\ OwnedInv(p)'
    BY <1>3, RefreshKeepsOwner
<1>4. ASSUME NEW t \in Res, ImportGrant(t) PROVE Phase' /\ AtMostOne' /\ OwnedInv(p)'
    BY <1>4, ImportKeepsOwner
<1>5. ASSUME NEW t \in Res, Create(t) \/ Update(t) \/ Delete(t)
      PROVE  Phase' /\ AtMostOne' /\ OwnedInv(p)'
    BY <1>5, HandlerKeepsOwner
<1>6. CASE UNCHANGED vars
  <2>1. UNCHANGED <<server, st, pc>>
      BY <1>6 DEF vars
  <2>2. Phase' /\ AtMostOne'
      BY <2>1 DEF OwnerInv, Phase, AtMostOne, Holds, SameSlot, Slot
  <2>3. ASSUME NEW x \in Res PROVE RowHas(x, p)' /\ HeldHas(x, p)'
      BY <2>1 DEF OwnerInv, OwnedInv, RowHas, HeldHas, Owned, Slot, RunEnded
  <2> QED
      BY <2>2, <2>3 DEF OwnedInv
<1> QED
    BY <1>1, <1>2, <1>3, <1>4, <1>5, <1>6 DEF Next, Handler

LEMMA OwnerAlways ==
    ASSUME KeyAgreement, Kept, NEW p, Common(p)
    PROVE  Safe => []OwnerInv(p)
<1>1. Init => OwnerInv(p)
  <2> SUFFICES ASSUME Init PROVE OwnerInv(p)
      OBVIOUS
  <2>1. \A r \in Res : pc[r] = "refresh" /\ st[r] = Nil /\ server[Slot(r)] = {}
      BY SlotType DEF Init
  <2>2. LockInv /\ Phase /\ AtMostOne
      BY <2>1 DEF LockInv, Phase, AtMostOne, Holds
  <2>3. OwnedInv(p)
      BY <2>1 DEF OwnedInv, RowHas, HeldHas, Owned
  <2> QED
      BY <2>2, <2>3, InitType DEF OwnerInv
<1>2. OwnerInv(p) /\ [Next]_vars => OwnerInv(p)'
    BY NextKeepsOwner
<1> QED
    BY <1>1, <1>2, PTL DEF Safe

\* Two blocks of one row are never both in the state, through the gaps of updates too, if
\* the lists share a privilege no update takes away: a row is then never empty between the
\* REVOKE and the GRANT of an update, and the check of a Create sees it.  With any number
\* of blocks for one row, any failures but the lost reply to a REVOKE, and crashes.
THEOREM OneOwner ==
    KeyAgreement /\ Kept /\ (\E p \in Priv : Common(p)) => (Safe => []SingleOwner)
<1> SUFFICES ASSUME KeyAgreement, Kept, NEW p \in Priv, Common(p) PROVE Safe => []SingleOwner
    OBVIOUS
<1>1. OwnerInv(p) => SingleOwner
    BY DEF OwnerInv, AtMostOne, Holds, SingleOwner
<1>2. Safe => []OwnerInv(p)
    BY OwnerAlways
<1> QED
    BY <1>1, <1>2, PTL

\* Then what the check of a Create found also holds when its GRANT is sent.
THEOREM CheckStands ==
    KeyAgreement /\ Kept /\ (\E p \in Priv : Common(p)) => (Safe => []CheckHolds)
<1> SUFFICES ASSUME KeyAgreement, Kept, NEW p \in Priv, Common(p) PROVE Safe => []CheckHolds
    OBVIOUS
<1>1. OwnerInv(p) => CheckHolds
    BY DEF OwnerInv, OwnedInv, HeldHas, Owned, CheckHolds
<1>2. Safe => []OwnerInv(p)
    BY OwnerAlways
<1> QED
    BY <1>1, <1>2, PTL
==============================================================================
