------------------------------- MODULE Grants --------------------------------
(***************************************************************************)
(* The mysql_grant resource (mysql/resource_grant.go): its Create, Read,   *)
(* Update and Delete handlers, run concurrently by terraform, against the  *)
(* grant tables of the server and the state terraform keeps.               *)
(*                                                                         *)
(* A run of terraform refreshes every resource it has in its state, plans  *)
(* from state and configuration, and applies the plans, all resources      *)
(* concurrently; runs follow one another and the user edits the            *)
(* configuration between them.  A handler's steps are its SQL statements   *)
(* and the locking of the key of its user or role, which Grants takes from *)
(* KeyLock: the map and mutexes below it are the subject of KeyedMutex.    *)
(*                                                                         *)
(* Privileges of tables, databases and procedures are modelled; what they  *)
(* are granted on is an opaque Object, which is all ConflictsWithGrant     *)
(* compares.  Role grants (roles) are not.                                 *)
(***************************************************************************)
EXTENDS Naturals, Functions

CONSTANTS
    Res,          \* the mysql_grant resources of the configuration
    Who,          \* Who[r]: user (name and host) or role (name, host "") of r
    Object,       \* what privileges are granted on
    Obj,          \* Obj[r]: the database and table, or the procedure, of r
    Raw,          \* the privilege strings a configuration may write
    Canon,        \* Canon[p]: p as normalizePerms writes it, up to letter case
    Place,        \* Place[p]: where sort.Strings puts what normalizePerms writes, capitals first
    Priv,         \* the privileges the server knows, in canonical form
    All,          \* "ALL PRIVILEGES", a canonical string but not a privilege
    GrantOption,  \* the server keeps GRANT OPTION beside the privileges
    Configs,      \* what a resource block may declare: [privs, grant]
    Percona,      \* TRUE: SHOW GRANTS for a host also prints the rows of host %
    Faults,       \* the kinds of failure that may happen
    MaxFaults, MaxEdits,
    Nil

ASSUME PrivAssumption ==
    /\ Priv # {} /\ Priv \subseteq Raw /\ All \in Raw \ Priv /\ GrantOption \notin Raw
    /\ Canon \in [Raw -> Priv \cup {All}]
    /\ \A p \in Priv \cup {All} : Canon[p] = p
    /\ Place \in [Raw -> Nat]
    /\ \A p, q \in Raw : Place[p] = Place[q] => Canon[p] = Canon[q]

State == [privs : SUBSET Raw, grant : BOOLEAN, tainted : BOOLEAN]

\* A list of ALL PRIVILEGES and another privilege is a syntax error for the server.
ASSUME ConfigAssumption ==
    /\ Configs \subseteq [privs : (SUBSET Raw) \ {{}}, grant : BOOLEAN]
    /\ \A c \in Configs : \A p \in c.privs : Canon[p] = All => c.privs = {p}
    /\ Nil \notin Configs /\ Nil \notin Res
    /\ Nil \notin State

ASSUME LimitAssumption == MaxFaults \in Nat /\ MaxEdits \in Nat

ASSUME ResAssumption ==
    /\ Who \in [Res -> [name : STRING, host : STRING]]
    /\ Obj \in [Res -> Object]

VARIABLES
    server,  \* server[s]: the privileges, GRANT OPTION included, in slot s
    holder,  \* holder[k]: the resource whose handler holds key k of grantCreateMutex
    cfg,     \* cfg[r]: the configuration's block for r, Nil when there is none
    st,      \* st[r]: terraform's state of r, Nil when there is none
    plan,    \* plan[r]: what the current run does with r
    pc,      \* pc[r]: where r stands in the current run
    edits, faults

vars == <<server, holder, cfg, st, plan, pc, edits, faults>>

------------------------------------------------------------------------------
(* UserOrRole *)

IDString(u) == IF u.host = "" THEN <<u.name>> ELSE <<u.name, u.host>>

\* Mutant: the host is not compared.
EqualsName(u, v) == u.name = v.name

Equals(u, v) == /\ u.name = v.name
                /\ {u.host, v.host} \subseteq {"", "%"} \/ u.host = v.host

\* The account that 'name' or 'name'@'host' is for the server.
Account(u) == [u EXCEPT !.host = IF u.host = "" THEN "%" ELSE u.host]

Accounts == {Account(Who[r]) : r \in Res}

Slots == Accounts \X Object

Slot(r) == <<Account(Who[r]), Obj[r]>>

KeyOf(r) == IDString(Who[r])

------------------------------------------------------------------------------
(* Privilege lists *)

\* What GRANT and REVOKE make of a list of privileges.
Meaning(P) == UNION {IF Canon[p] = All THEN Priv ELSE {Canon[p]} : p \in P}

\* How SHOW GRANTS names a set of privileges.
Names(S) == IF Priv \subseteq S THEN {All} ELSE S \cap Priv

ContainsAllPrivilege(P) == \E p \in P : Canon[p] = All

\* Mutant: privileges are compared as sets.
SameNames(P, Q) == {Canon[p] : p \in P} = {Canon[q] : q \in Q}

\* arePrivilegesSetsEqual: both lists are sorted with regard to case, then compared in
\* pairs without.  A name that is twice in P is not in Q, and one in other letters may
\* stand at another place.
SamePrivileges(P, Q) ==
    \E pair \in Bijection(P, Q) : \A p, q \in P :
        /\ Canon[pair[p]] = Canon[p]
        /\ Place[p] < Place[q] => Place[pair[p]] <= Place[pair[q]]

------------------------------------------------------------------------------
(* The server's statements (external) *)

GrantSQL(s, c) ==
    [server EXCEPT ![s] = @ \cup Meaning(c.privs) \cup (IF c.grant THEN {GrantOption} ELSE {})]

RevokeSQL(s, S) == [server EXCEPT ![s] = @ \ S]

\* Mutant: the REVOKE does not name GRANT OPTION.
RevokeOnlyPrivileges(c) == Meaning(c.privs)

\* The privileges and GRANT OPTION that SQLRevokeStatement names.
\* REVOKE ALL PRIVILEGES does not take GRANT OPTION away.
RevokeStatement(c) ==
    Meaning(c.privs) \cup
    (IF c.grant /\ ~ContainsAllPrivilege(c.privs) THEN {GrantOption} ELSE {})

------------------------------------------------------------------------------
(* getMatchingGrant: the rows of SHOW GRANTS that grant a privilege (a row that *)
(* says only USAGE is skipped), are about the very user or role and conflict    *)

ShowGrants(u) ==
    {s \in Slots : s[1] = Account(u) \/ (Percona /\ s[1] = [u EXCEPT !.host = "%"])}

Matching(r) ==
    {s \in ShowGrants(Who[r]) : /\ server[s] \cap Priv # {}
                                /\ Equals(s[1], Who[r])
                                /\ s[2] = Obj[r]}

\* Mutant: the GRANT OPTION of a row is taken for a privilege.
RefreshedOption(r, old) ==
    [old EXCEPT !.privs = UNION {server[s] : s \in Matching(r)}]

\* setDataFromGrant: the raw privileges stay when they are the server's.
Refreshed(r, old) ==
    LET privs == Names(UNION {server[s] : s \in Matching(r)}) IN
    [privs   |-> IF SamePrivileges(old.privs, privs) THEN old.privs ELSE privs,
     grant   |-> \E s \in Matching(r) : GrantOption \in server[s],
     tainted |-> old.tainted]

\* ReadGrant, of a resource with the data old
ReadGrant(r, old) == IF Matching(r) = {} THEN Nil ELSE Refreshed(r, old)

Planned(r, tainted) == [privs |-> cfg[r].privs, grant |-> cfg[r].grant, tainted |-> tainted]

------------------------------------------------------------------------------
PC == {"refresh", "planned", "create_lock", "check", "grant", "readback",
       "revoke", "regrant", "delete_lock", "drop", "dropped", "done"}

Plans == {"none", "create", "update", "delete", "replace"}

TypeOK ==
    /\ server \in [Slots -> SUBSET (Priv \cup {GrantOption})]
    /\ holder \in [{KeyOf(r) : r \in Res} -> Res \cup {Nil}]
    /\ cfg \in [Res -> Configs \cup {Nil}]
    /\ st \in [Res -> State \cup {Nil}]
    /\ plan \in [Res -> Plans]
    /\ pc \in [Res -> PC]
    /\ edits \in 0 .. MaxEdits
    /\ faults \in 0 .. MaxFaults

Init ==
    /\ server = [s \in Slots |-> {}]
    /\ holder = [k \in {KeyOf(r) : r \in Res} |-> Nil]
    /\ cfg \in [Res -> Configs \cup {Nil}]
    /\ st = [r \in Res |-> Nil]
    /\ plan = [r \in Res |-> "none"]
    /\ pc = [r \in Res |-> "refresh"]
    /\ edits = 0
    /\ faults = 0

Fault(kind) == /\ kind \in Faults
               /\ faults < MaxFaults
               /\ faults' = faults + 1

Goto(r, from, to) == pc[r] = from /\ pc' = [pc EXCEPT ![r] = to]

\* Mutant: grantCreateMutex does not exclude.
LockUnguarded(r) == holder' = [holder EXCEPT ![KeyOf(r)] = r]

Lock(r) == /\ holder[KeyOf(r)] = Nil
           /\ holder' = [holder EXCEPT ![KeyOf(r)] = r]

\* defer grantCreateMutex.Unlock(...)
Unlock(r) == holder' = [holder EXCEPT ![KeyOf(r)] = Nil]

------------------------------------------------------------------------------
(* Refresh and plan *)

Refresh(r) ==
    /\ Goto(r, "refresh", "planned")
    /\ st' = [st EXCEPT ![r] = IF @ = Nil THEN Nil ELSE ReadGrant(r, @)]
    /\ UNCHANGED <<server, holder, cfg, plan, edits, faults>>

\* A resource that cannot be read ends the run before anything is applied.
RefreshFails(r) ==
    /\ pc[r] = "refresh"
    /\ Fault("rejected")
    /\ pc' = [s \in Res |-> "done"]
    /\ UNCHANGED <<server, holder, cfg, st, plan, edits>>

\* Every attribute but privileges is ForceNew; a tainted resource is replaced.
PlanOf(r) ==
    CASE cfg[r] = Nil -> IF st[r] = Nil THEN "none" ELSE "delete"
      [] cfg[r] # Nil /\ st[r] = Nil -> "create"
      [] cfg[r] # Nil /\ st[r] # Nil ->
            IF st[r].tainted \/ st[r].grant # cfg[r].grant THEN "replace"
            ELSE IF st[r].privs # cfg[r].privs THEN "update" ELSE "none"

ToRevoke(r) == st[r].privs \ cfg[r].privs

ToGrant(r) == cfg[r].privs \ st[r].privs

StartApply ==
    /\ \A r \in Res : pc[r] = "planned"
    /\ plan' = [r \in Res |-> PlanOf(r)]
    /\ pc' = [r \in Res |->
                CASE PlanOf(r) = "none" -> "done"
                  [] PlanOf(r) = "create" -> "create_lock"
                  [] PlanOf(r) = "update" -> IF ToRevoke(r) # {} THEN "revoke" ELSE "regrant"
                  [] PlanOf(r) \in {"delete", "replace"} -> "delete_lock"]
    /\ UNCHANGED <<server, holder, cfg, st, edits, faults>>

------------------------------------------------------------------------------
(* CreateGrant *)

CreateLock(r) ==
    /\ Goto(r, "create_lock", "check")
    /\ Lock(r)
    /\ UNCHANGED <<server, cfg, st, plan, edits, faults>>

\* Mutant: what the check finds is not looked at.
CheckPasses(r) ==
    /\ Goto(r, "check", "grant")
    /\ UNCHANGED <<server, holder, cfg, st, plan, edits, faults>>

\* Mutant: the key is unlocked after the check.
CheckUnlocks(r) ==
    /\ Goto(r, "check", IF Matching(r) = {} THEN "grant" ELSE "done")
    /\ Unlock(r)
    /\ UNCHANGED <<server, cfg, st, plan, edits, faults>>

\* SHOW GRANTS and the check; "user/role already has grant" ends the handler
Check(r) ==
    /\ Goto(r, "check", IF Matching(r) = {} THEN "grant" ELSE "done")
    /\ IF Matching(r) = {} THEN UNCHANGED holder ELSE Unlock(r)
    /\ UNCHANGED <<server, cfg, st, plan, edits, faults>>

\* No connection, before the lock, or SHOW GRANTS fails
GivesUp(r) ==
    /\ \/ Goto(r, "create_lock", "done") /\ UNCHANGED holder
       \/ Goto(r, "check", "done") /\ Unlock(r)
    /\ Fault("rejected")
    /\ UNCHANGED <<server, cfg, st, plan, edits>>

Grant(r) ==
    /\ Goto(r, "grant", "readback")
    /\ server' = GrantSQL(Slot(r), cfg[r])
    /\ UNCHANGED <<holder, cfg, st, plan, edits, faults>>

\* Mutant: the error return of the GRANT does not unlock.
GrantFailsLocked(r) ==
    /\ Goto(r, "grant", "done")
    /\ \/ Fault("rejected") /\ UNCHANGED server
       \/ Fault("lost") /\ server' = GrantSQL(Slot(r), cfg[r])
    /\ UNCHANGED <<holder, cfg, st, plan, edits>>

\* Exec returned an error; "lost" when the server had run the statement.
GrantFails(r) ==
    /\ Goto(r, "grant", "done")
    /\ \/ Fault("rejected") /\ UNCHANGED server
       \/ Fault("lost") /\ server' = GrantSQL(Slot(r), cfg[r])
    /\ Unlock(r)
    /\ UNCHANGED <<cfg, st, plan, edits>>

\* The id is set: what ReadGrant finds goes to the state, and after an error of
\* ReadGrant the planned values do, tainted.
ReadBack(r) ==
    /\ Goto(r, "readback", "done")
    /\ \/ st' = [st EXCEPT ![r] = ReadGrant(r, Planned(r, FALSE))] /\ UNCHANGED faults
       \/ st' = [st EXCEPT ![r] = Planned(r, TRUE)] /\ Fault("readback")
    /\ Unlock(r)
    /\ UNCHANGED <<server, cfg, plan, edits>>

------------------------------------------------------------------------------
(* UpdateGrant, which takes no lock.  The SDK saves the planned values whether *)
(* the handler returns an error or not.                                       *)

Save(r) == st' = [st EXCEPT ![r] = Planned(r, FALSE)]

Revoke(r) ==
    /\ Goto(r, "revoke", IF ToGrant(r) = {} THEN "done" ELSE "regrant")
    /\ server[Slot(r)] # {}
    /\ server' = RevokeSQL(Slot(r), Meaning(ToRevoke(r)))
    /\ IF ToGrant(r) = {} THEN Save(r) ELSE UNCHANGED st
    /\ UNCHANGED <<holder, cfg, plan, edits, faults>>

\* The server also refuses to revoke in a slot in which it has nothing.
RevokeFails(r) ==
    /\ Goto(r, "revoke", "done")
    /\ \/ server[Slot(r)] = {} /\ UNCHANGED <<server, faults>>
       \/ Fault("rejected") /\ UNCHANGED server
       \/ Fault("lost") /\ server' = RevokeSQL(Slot(r), Meaning(ToRevoke(r)))
    /\ Save(r)
    /\ UNCHANGED <<holder, cfg, plan, edits>>

Regrant(r) ==
    /\ Goto(r, "regrant", "done")
    /\ \/ server' = GrantSQL(Slot(r), cfg[r]) /\ UNCHANGED faults
       \/ server' = GrantSQL(Slot(r), cfg[r]) /\ Fault("lost")
       \/ UNCHANGED server /\ Fault("rejected")
    /\ Save(r)
    /\ UNCHANGED <<holder, cfg, plan, edits>>

------------------------------------------------------------------------------
(* DeleteGrant; a replacement goes on with CreateGrant *)

DeleteLock(r) ==
    /\ Goto(r, "delete_lock", "drop")
    /\ Lock(r)
    /\ UNCHANGED <<server, cfg, st, plan, edits, faults>>

\* That the server has no such grant is no error here.
Drop(r) ==
    /\ Goto(r, "drop", "dropped")
    /\ server' = RevokeSQL(Slot(r), RevokeStatement(st[r]))
    /\ UNCHANGED <<holder, cfg, st, plan, edits, faults>>

Dropped(r) ==
    /\ Goto(r, "dropped", IF plan[r] = "replace" THEN "create_lock" ELSE "done")
    /\ st' = [st EXCEPT ![r] = Nil]
    /\ Unlock(r)
    /\ UNCHANGED <<server, cfg, plan, edits, faults>>

\* "drop_lost": the server ran the REVOKE, and the state keeps the resource.
DropFails(r) ==
    /\ Goto(r, "drop", "done")
    /\ \/ Fault("rejected") /\ UNCHANGED server
       \/ Fault("drop_lost") /\ server' = RevokeSQL(Slot(r), RevokeStatement(st[r]))
    /\ Unlock(r)
    /\ UNCHANGED <<cfg, st, plan, edits>>

------------------------------------------------------------------------------
Applying == \E r \in Res : pc[r] \notin {"refresh", "planned", "done"}

\* The provider's process dies: no lock outlives it, and terraform keeps the
\* prior state of every resource that was being worked on.
Crash ==
    /\ Applying
    /\ Fault("crash")
    /\ pc' = [r \in Res |-> "done"]
    /\ holder' = [k \in DOMAIN holder |-> Nil]
    /\ UNCHANGED <<server, cfg, st, plan, edits>>

\* The next run, with the same configuration or an edited one.
NewRun ==
    /\ \A r \in Res : pc[r] = "done"
    /\ pc' = [r \in Res |-> "refresh"]
    /\ \/ UNCHANGED <<cfg, edits>>
       \/ /\ edits < MaxEdits
          /\ edits' = edits + 1
          /\ \E r \in Res, c \in Configs \cup {Nil} : cfg' = [cfg EXCEPT ![r] = c]
    /\ UNCHANGED <<server, holder, st, plan, faults>>

\* The data of an import before it is read, without privileges
Blank == [privs |-> {}, grant |-> FALSE, tainted |-> FALSE]

\* terraform import, between runs, of a row that no resource has in the state: what a
\* crash or the lost reply of a GRANT has left, and no CreateGrant accepts.  (A procedure
\* cannot be imported: ImportGrant looks for a table or a database.)
ImportGrant(r) ==
    /\ \A s \in Res : pc[s] = "done"
    /\ cfg[r] # Nil
    /\ \A s \in Res : Slot(s) = Slot(r) => st[s] = Nil
    /\ Matching(r) # {}
    /\ st' = [st EXCEPT ![r] = ReadGrant(r, Blank)]
    /\ UNCHANGED <<server, holder, cfg, plan, pc, edits, faults>>

Create(r) == \/ CreateLock(r) \/ Check(r) \/ GivesUp(r)
             \/ Grant(r) \/ GrantFails(r) \/ ReadBack(r)

Update(r) == Revoke(r) \/ RevokeFails(r) \/ Regrant(r)

Delete(r) == DeleteLock(r) \/ Drop(r) \/ Dropped(r) \/ DropFails(r)

Handler(r) == Refresh(r) \/ RefreshFails(r) \/ Create(r) \/ Update(r) \/ Delete(r)

Next == \/ StartApply \/ NewRun \/ Crash
        \/ \E r \in Res : Handler(r) \/ ImportGrant(r)

Safe == Init /\ [][Next]_vars

\* Handlers that can take a step take it: statements end, at the latest with
\* their context; terraform goes on from refresh to apply, and is run again.
Spec == Safe /\ WF_vars(StartApply) /\ WF_vars(NewRun) /\ \A r \in Res : WF_vars(Handler(r))

------------------------------------------------------------------------------
(* Properties *)

SameSlot(r, s) == r # s /\ Slot(r) = Slot(s)

\* Between the check of CreateGrant and its GRANT nothing appears in the row that
\* the check found empty, so a Create never clobbers privileges it did not make.
CheckHolds == \A r \in Res : pc[r] = "grant" => server[Slot(r)] \cap Priv = {}

\* The check and the GRANT are one step for every other CreateGrant and DeleteGrant,
\* whatever fails: what appears in between can only come from an UpdateGrant of the
\* same slot.  It needs resources of one slot to lock one key.
KeyAgreement == \A r, s \in Res : Slot(r) = Slot(s) => KeyOf(r) = KeyOf(s)

OnlyUpdatesInterfere ==
    \A r \in Res : pc[r] = "grant" /\ server[Slot(r)] \cap Priv # {} =>
        \E s \in Res : SameSlot(r, s) /\ plan[s] = "update"

\* Two resources that declare privileges of the same user on the same object are
\* never both in terraform's state: the second to be created is refused, in every
\* interleaving with the creation, update, replacement or deletion of the first.
SingleOwner == \A r, s \in Res : SameSlot(r, s) => st[r] = Nil \/ st[s] = Nil

\* Of two resources of one slot the one that is new enters the state beside the other
\* only through the gap of an update: no crash, lost reply or failed read-back of a Create, and no
\* replacement or deletion that runs beside it, gives a row a second owner.
SecondOwnerByUpdate ==
    [][\A r, s \in Res :
        /\ SameSlot(r, s) /\ plan[r] = "create"
        /\ st[r] = Nil /\ st'[r] # Nil /\ st[s] # Nil
        => plan[s] = "update"]_vars

Declared(c) == Meaning(c.privs) \cup (IF c.grant THEN {GrantOption} ELSE {})

RunEnded == \A r \in Res : pc[r] = "done"

\* After a run without failures the server has, for a resource in the state, exactly
\* the privileges and the grant option of the state: the difference of raw privilege
\* strings that UpdateGrant revokes and grants never strips one that stays declared.
StateIsTrue ==
    RunEnded /\ faults = 0 =>
        \A r \in Res : st[r] # Nil => server[Slot(r)] = Declared(st[r])

\* After a run without failures the server has nothing left of a resource that is
\* no longer in the state, GRANT OPTION included.
DestroyLeavesNothing ==
    RunEnded /\ faults = 0 =>
        \A r \in Res : (\A s \in Res : Slot(s) = Slot(r) => st[s] = Nil) => server[Slot(r)] = {}

\* Every operation ends, with success or an error, and the key of its user or role
\* is free for the next one: no error path keeps grantCreateMutex locked.
OperationsEnd == \A r \in Res : pc[r] # "done" ~> pc[r] = "done"

Applied(r) == IF cfg[r] = Nil THEN st[r] = Nil /\ server[Slot(r)] = {}
              ELSE st[r] # Nil /\ server[Slot(r)] = Declared(cfg[r])

\* A list that SHOW GRANTS gives back with another spelling of a privilege: each run
\* revokes that one, and grants the list again.
Respelled(c) == LET shown == Names(Meaning(c.privs))
                IN  ~SamePrivileges(c.privs, shown) /\ shown \ c.privs # {}

\* Once the user stops editing and the server stops failing, running terraform again
\* brings the server to the configuration for good, whatever earlier failures left; a
\* list that is given back in another spelling is there at the end of each run.  The state
\* need not settle: of a list that doubles a name SHOW GRANTS gives another one back.
Converges ==
    <>[](\A r \in Res : \/ Applied(r)
                        \/ cfg[r] # Nil /\ Respelled(cfg[r]) /\ ~RunEnded)
==============================================================================
