------------------------------- MODULE Objects -------------------------------
(***************************************************************************)
(* The resources that are made by one statement and unmade by another:     *)
(* mysql_database, mysql_role, mysql_default_roles, mysql_sql, with the    *)
(* account (mysql_user) and the grant of roles (mysql_grant) that default  *)
(* roles stand on.                                                         *)
(*                                                                         *)
(* Runs of terraform follow one another as in Grants: refresh, plan, apply *)
(* with the resources concurrent except for the order that references      *)
(* between blocks impose.  The step of a handler is a statement with what  *)
(* the SDK saves after it, as no other handler looks at the state of this  *)
(* one; the read after CREATE or ALTER DATABASE is a step of its own.      *)
(*                                                                         *)
(* Each behaviour is about the blocks of one of the Worlds, as databases   *)
(* and accounts have nothing to do with each other.  There is one account. *)
(***************************************************************************)
EXTENDS Naturals, FiniteSets

CONSTANTS
    Res,               \* the blocks
    Kind,              \* Kind[r]: database, role, account, grant, defaults or sql
    Worlds,            \* what behaviours are about
    Configurations,    \* Configurations[w]: the configurations of world w
    DbName, Role, Script,
    Plugin,            \* an account with another auth_plugin is another account
    Collation,         \* what a database may have, [charset, collation]
    Default,           \* Default[charset]: its default collation on this server
    Omitted,           \* the character sets whose default collation SHOW CREATE leaves out
    Faults, MaxFaults, MaxEdits,
    Nil

Kinds == {"database", "role", "account", "grant", "defaults", "sql"}

Names(r) ==
    CASE Kind[r] = "database" -> DbName
      [] Kind[r] = "role" -> Role
      [] Kind[r] = "sql" -> Script
      [] Kind[r] \in {"account", "grant", "defaults"} -> {"account"}

\* A database is also declared with a collation that is not of its character set.
Values(r) ==
    CASE Kind[r] = "database" -> [charset : DOMAIN Default, collation : {c.collation : c \in Collation}]
      [] Kind[r] \in {"grant", "defaults"} -> SUBSET Role
      [] Kind[r] = "account" -> Plugin
      [] Kind[r] \in {"role", "sql"} -> {Nil}

\* References name blocks that are there; default roles are of those that are granted.
Consistent(f) ==
    \A r \in Res : f[r] # Nil =>
        /\ Kind[r] \in {"grant", "defaults"} => \E s \in Res : Kind[s] = "account" /\ f[s] # Nil
        /\ Kind[r] = "grant" => \A x \in f[r].val : \E s \in Res :
                                    Kind[s] = "role" /\ f[s] # Nil /\ f[s].name = x
        /\ Kind[r] = "defaults" => \E s \in Res : /\ Kind[s] = "grant" /\ f[s] # Nil
                                                  /\ f[r].val \subseteq f[s].val

Block(r) == [name : Names(r), val : Values(r)]

State(r) == [name : Names(r), val : Values(r), tainted : BOOLEAN]

Account == [granted : SUBSET Role, defaults : SUBSET Role]

\* A character set has a default collation, which is one of its own.
ASSUME ObjectsAssumption ==
    /\ Kind \in [Res -> Kinds]
    /\ \A w \in Worlds : \A f \in Configurations[w] :
          Consistent(f) /\ \A r \in Res : f[r] \in Block(r) \cup {Nil}
    /\ \A c \in Collation : /\ c.charset \in DOMAIN Default
                             /\ c = [charset |-> c.charset, collation |-> c.collation]
    /\ \A x \in DOMAIN Default : [charset |-> x, collation |-> Default[x]] \in Collation
    /\ Omitted \subseteq DOMAIN Default
    /\ MaxFaults \in Nat /\ MaxEdits \in Nat

ASSUME NilAssumption ==
    /\ Nil \notin Collation \cup Account
    /\ \A r \in Res : Nil \notin Block(r) \cup State(r)

VARIABLES
    world,   \* what this behaviour is about
    server,  \* what the server has: database, role, account, made
    cfg,     \* cfg[r]: the configuration's block r, Nil when there is none
    st,      \* st[r]: terraform's state of r, Nil when there is none
    plan,    \* plan[r]: what the current run does with r
    pc,      \* pc[r]: where r stands in the current run
    edits,
    faults   \* the kinds of failure that have happened

vars == <<world, server, cfg, st, plan, pc, edits, faults>>

NewAccount == [granted |-> {}, defaults |-> {}]

HasAccount == server.account # Nil

------------------------------------------------------------------------------
(* The server's statements (external).  c is the block the statement is about. *)

\* Mutant: CREATE DATABASE IF NOT EXISTS.
IsFreeAlways(n) == TRUE

IsFree(n) == server.database[n] = Nil

\* CREATE fails for what exists; CreateGrant refuses an account that has roles.
CanMake(r, c) ==
    CASE Kind[r] = "database" -> IsFree(c.name) /\ c.val \in Collation
      [] Kind[r] = "role"     -> c.name \notin server.role
      [] Kind[r] = "account"  -> ~HasAccount
      [] Kind[r] = "grant"    -> HasAccount /\ server.account.granted = {} /\ c.val \subseteq server.role
      [] Kind[r] = "defaults" -> HasAccount /\ c.val \subseteq server.account.granted
      [] Kind[r] = "sql"      -> c.name \notin server.made

\* What the server has after the statement of a Create, or of an Update.
Made(r, c) ==
    CASE Kind[r] = "database" -> [server EXCEPT !.database[c.name] = c.val]
      [] Kind[r] = "role"     -> [server EXCEPT !.role = @ \cup {c.name}]
      [] Kind[r] = "account"  -> [server EXCEPT !.account = NewAccount]
      [] Kind[r] = "grant"    -> [server EXCEPT !.account.granted = @ \cup c.val]
      [] Kind[r] = "defaults" -> [server EXCEPT !.account.defaults = c.val]
      [] Kind[r] = "sql"      -> [server EXCEPT !.made = @ \cup {c.name}]

\* ALTER DATABASE, ALTER USER ... DEFAULT ROLE
CanAlter(r, c) ==
    CASE Kind[r] = "database" -> server.database[c.name] # Nil /\ c.val \in Collation
      [] Kind[r] = "defaults" -> HasAccount /\ c.val \subseteq server.account.granted

CanDrop(r, c) ==
    CASE Kind[r] = "database" -> server.database[c.name] # Nil
      [] Kind[r] = "role"     -> c.name \in server.role
      [] Kind[r] = "grant"    -> HasAccount /\ c.val \subseteq server.role
      [] Kind[r] \in {"account", "defaults"} -> HasAccount
      [] Kind[r] = "sql"      -> c.name \in server.made

\* What a revoked role leaves of the default roles is up to the server.
Unmade(r, c) ==
    CASE Kind[r] = "database" -> {[server EXCEPT !.database[c.name] = Nil]}
      [] Kind[r] = "role"     -> {[server EXCEPT
                !.role = @ \ {c.name},
                !.account = IF @ = Nil THEN Nil
                            ELSE [granted |-> @.granted \ {c.name},
                                  defaults |-> @.defaults \ {c.name}]]}
      [] Kind[r] = "account"  -> {[server EXCEPT !.account = Nil]}
      [] Kind[r] = "grant"    -> {[server EXCEPT !.account.granted = @ \ c.val,
                                                 !.account.defaults = @ \ gone] : gone \in {{}, c.val}}
      [] Kind[r] = "defaults" -> {[server EXCEPT !.account.defaults = {}]}
      [] Kind[r] = "sql"      -> {[server EXCEPT !.made = @ \ {c.name}]}

------------------------------------------------------------------------------
(* The Read handlers, of a resource with the state s *)

\* The collation that SHOW CREATE DATABASE prints, "" when it prints none
Shown(c) == IF c.charset \in Omitted /\ c.collation = Default[c.charset] THEN "" ELSE c.collation

\* Mutant: no second query for the default collation.
ReadDatabaseShown(s) ==
    IF server.database[s.name] = Nil THEN Nil
    ELSE LET has == server.database[s.name] IN
         [s EXCEPT !.val = [charset |-> has.charset, collation |-> Shown(has)]]

ReadDatabase(s) ==
    IF server.database[s.name] = Nil THEN Nil
    ELSE LET has == server.database[s.name] IN
         [s EXCEPT !.val = [charset   |-> has.charset,
                            collation |-> IF Shown(has) = "" THEN Default[has.charset] ELSE Shown(has)]]

ReadRole(s) == IF s.name \in server.role THEN s ELSE Nil

ReadUser(s) == IF HasAccount THEN s ELSE Nil

ReadGrant(s) == IF HasAccount /\ server.account.granted # {}
                THEN [s EXCEPT !.val = server.account.granted] ELSE Nil

\* Mutant: the default roles are not read.
ReadDefaultRolesKeeps(s) == s

\* No row is no default role: the resource is never taken for gone.
ReadDefaultRoles(s) == [s EXCEPT !.val = IF HasAccount THEN server.account.defaults ELSE {}]

ReadSql(s) == s

Read(r, s) ==
    CASE Kind[r] = "database" -> ReadDatabase(s)
      [] Kind[r] = "role"     -> ReadRole(s)
      [] Kind[r] = "account"  -> ReadUser(s)
      [] Kind[r] = "grant"    -> ReadGrant(s)
      [] Kind[r] = "defaults" -> ReadDefaultRoles(s)
      [] Kind[r] = "sql"      -> ReadSql(s)

------------------------------------------------------------------------------
PC == {"refresh", "create", "readback", "alter", "drop", "done", "failed"}

Plans == {"none", "create", "update", "delete", "replace"}

Server == [database : [DbName -> Collation \cup {Nil}], role : SUBSET Role,
           account : Account \cup {Nil}, made : SUBSET Script]

TypeOK ==
    /\ world \in Worlds
    /\ server \in Server
    /\ cfg \in Configurations[world]
    /\ \A r \in Res : /\ st[r] \in State(r) \cup {Nil}
                      /\ pc[r] \in PC /\ plan[r] \in Plans
    /\ edits \in 0 .. MaxEdits
    /\ faults \subseteq Faults /\ Cardinality(faults) <= MaxFaults

Init ==
    /\ world \in Worlds
    /\ server = [database |-> [n \in DbName |-> Nil], role |-> {}, account |-> Nil, made |-> {}]
    /\ cfg \in Configurations[world]
    /\ st = [r \in Res |-> Nil]
    /\ plan = [r \in Res |-> "none"]
    /\ pc = [r \in Res |-> "refresh"]
    /\ edits = 0
    /\ faults = {}

Fault(kind) == /\ kind \in Faults \ faults
               /\ Cardinality(faults) < MaxFaults
               /\ faults' = faults \cup {kind}

Goto(r, from, to) == pc[r] = from /\ pc' = [pc EXCEPT ![r] = to]

Planned(r, tainted) == [name |-> cfg[r].name, val |-> cfg[r].val, tainted |-> tainted]

Save(r, s) == st' = [st EXCEPT ![r] = s]

\* The blocks that a block b of r refers to
RefersTo(r, b) ==
    CASE Kind[r] = "grant" -> {s \in Res : Kind[s] = "account" \/
              (Kind[s] = "role" /\ \E c \in {cfg[s], st[s]} \ {Nil} : c.name \in b.val)}
      [] Kind[r] = "defaults" -> {s \in Res : Kind[s] \in {"account", "grant"}}
      [] OTHER -> {}

------------------------------------------------------------------------------
(* Refresh and plan *)

Refreshed(r) == IF st[r] = Nil THEN Nil ELSE Read(r, st[r])

\* ForceNew attributes and a tainted resource make a replacement.
Replaces(r, s) == \/ s.tainted
                  \/ s.name # cfg[r].name
                  \/ Kind[r] \in {"account", "grant"} /\ s.val # cfg[r].val

PlanOf(r, s) ==
    CASE cfg[r] = Nil -> IF s = Nil THEN "none" ELSE "delete"
      [] cfg[r] # Nil /\ s = Nil -> "create"
      [] cfg[r] # Nil /\ s # Nil -> IF Replaces(r, s) THEN "replace"
                                    ELSE IF s.val # cfg[r].val THEN "update" ELSE "none"

FirstStep(p) == CASE p = "none" -> "done"
                  [] p = "create" -> "create"
                  [] p = "update" -> "alter"
                  [] p \in {"delete", "replace"} -> "drop"

StartApply(seen) ==
    /\ st' = seen
    /\ plan' = [r \in Res |-> PlanOf(r, seen[r])]
    /\ pc' = [r \in Res |-> FirstStep(PlanOf(r, seen[r]))]

\* Nothing changes between the reads of a refresh, so it is one step.
\* Any error of a role's SHOW GRANTS takes the role for gone.
Refresh ==
    /\ \A r \in Res : pc[r] = "refresh"
    /\ LET seen == [r \in Res |-> Refreshed(r)] IN
       \/ StartApply(seen) /\ UNCHANGED faults
       \/ \E r \in Res : /\ Kind[r] = "role" /\ st[r] # Nil
                         /\ StartApply([seen EXCEPT ![r] = Nil])
                         /\ Fault("unread")
    /\ UNCHANGED <<world, server, cfg, edits>>

\* Other reads return the error, and nothing is applied in this run.
RefreshFails ==
    /\ \A r \in Res : pc[r] = "refresh"
    /\ \E r \in Res : Kind[r] \notin {"role", "sql"} /\ st[r] # Nil
    /\ Fault("rejected")
    /\ pc' = [r \in Res |-> "failed"]
    /\ UNCHANGED <<world, server, cfg, st, plan, edits>>

------------------------------------------------------------------------------
(* The order of references: a block is made after those it refers to, and      *)
(* unmade after those that refer to it.  What waits for a failure is skipped.  *)

Ready(r) == \A s \in RefersTo(r, cfg[r]) : pc[s] = "done"

Leaving(s) == st[s] # Nil /\ plan[s] \in {"delete", "replace"}

Released(r) == \A s \in Res : Leaving(s) => r \notin RefersTo(s, st[s])

Skip(r) ==
    /\ \/ /\ pc[r] \in {"create", "alter"}
          /\ \E s \in RefersTo(r, cfg[r]) : pc[s] = "failed"
       \/ /\ pc[r] = "drop"
          /\ \E s \in Res : Leaving(s) /\ pc[s] = "failed" /\ r \in RefersTo(s, st[s])
    /\ pc' = [pc EXCEPT ![r] = "failed"]
    /\ UNCHANGED <<world, server, cfg, st, plan, edits, faults>>

------------------------------------------------------------------------------
(* The handlers *)

ReadsBack(r) == Kind[r] \in {"database", "grant"}

Create(r) ==
    /\ Goto(r, "create", IF ReadsBack(r) THEN "readback" ELSE "done")
    /\ Ready(r) /\ CanMake(r, cfg[r])
    /\ server' = Made(r, cfg[r])
    /\ IF ReadsBack(r) THEN UNCHANGED st ELSE Save(r, Planned(r, FALSE))
    /\ UNCHANGED <<world, cfg, plan, edits, faults>>

\* No id is set: the state has nothing, whatever the server did ("lost").
CreateFails(r) ==
    /\ Goto(r, "create", "failed")
    /\ Ready(r)
    /\ \/ ~CanMake(r, cfg[r]) /\ UNCHANGED <<server, faults>>
       \/ Fault("rejected") /\ UNCHANGED server
       \/ CanMake(r, cfg[r]) /\ Fault("lost") /\ server' = Made(r, cfg[r])
    /\ UNCHANGED <<world, cfg, st, plan, edits>>

ReadBack(r) ==
    LET read == Read(r, Planned(r, FALSE)) IN
    /\ Goto(r, "readback", IF read = Nil THEN "failed" ELSE "done")
    /\ Save(r, read)
    /\ UNCHANGED <<world, server, cfg, plan, edits, faults>>

\* Mutant: the id is set after the read.
ReadBackFailsNoId(r) ==
    /\ Goto(r, "readback", "failed")
    /\ Fault("readback")
    /\ Save(r, IF plan[r] = "update" THEN Planned(r, FALSE) ELSE Nil)
    /\ UNCHANGED <<world, server, cfg, plan, edits>>

\* The id is set: a resource just made is saved, tainted.
ReadBackFails(r) ==
    /\ Goto(r, "readback", "failed")
    /\ Fault("readback")
    /\ Save(r, Planned(r, plan[r] # "update"))
    /\ UNCHANGED <<world, server, cfg, plan, edits>>

\* ALTER DATABASE, or ALTER USER ... DEFAULT ROLE
Update(r) ==
    /\ Goto(r, "alter", IF ReadsBack(r) THEN "readback" ELSE "done")
    /\ Ready(r) /\ CanAlter(r, cfg[r])
    /\ server' = Made(r, cfg[r])
    /\ IF ReadsBack(r) THEN UNCHANGED st ELSE Save(r, Planned(r, FALSE))
    /\ UNCHANGED <<world, cfg, plan, edits, faults>>

\* The SDK saves the planned values.
UpdateFails(r) ==
    /\ Goto(r, "alter", "failed")
    /\ Ready(r)
    /\ \/ ~CanAlter(r, cfg[r]) /\ UNCHANGED <<server, faults>>
       \/ Fault("rejected") /\ UNCHANGED server
       \/ CanAlter(r, cfg[r]) /\ Fault("lost") /\ server' = Made(r, cfg[r])
    /\ Save(r, Planned(r, FALSE))
    /\ UNCHANGED <<world, cfg, plan, edits>>

Delete(r) ==
    /\ Goto(r, "drop", IF plan[r] = "replace" THEN "create" ELSE "done")
    /\ Released(r) /\ CanDrop(r, st[r])
    /\ server' \in Unmade(r, st[r])
    /\ Save(r, Nil)
    /\ UNCHANGED <<world, cfg, plan, edits, faults>>

DeleteFails(r) ==
    /\ Goto(r, "drop", "failed")
    /\ Released(r)
    /\ \/ ~CanDrop(r, st[r]) /\ UNCHANGED <<server, faults>>
       \/ Fault("rejected") /\ UNCHANGED server
       \/ CanDrop(r, st[r]) /\ Fault("drop_lost") /\ server' \in Unmade(r, st[r])
    /\ UNCHANGED <<world, cfg, st, plan, edits>>

------------------------------------------------------------------------------
Ended(r) == pc[r] \in {"done", "failed"}

RunEnded == \A r \in Res : Ended(r)

\* The provider's process dies, after a statement of r or before it.
Crash(r) ==
    /\ Fault("crash")
    /\ \/ pc[r] = "create" /\ Ready(r) /\ CanMake(r, cfg[r]) /\ server' = Made(r, cfg[r])
       \/ pc[r] = "alter" /\ Ready(r) /\ CanAlter(r, cfg[r]) /\ server' = Made(r, cfg[r])
       \/ pc[r] = "drop" /\ Released(r) /\ CanDrop(r, st[r]) /\ server' \in Unmade(r, st[r])
       \/ pc[r] \in {"create", "alter", "drop", "readback"} /\ UNCHANGED server
    /\ pc' = [s \in Res |-> "failed"]
    /\ UNCHANGED <<world, cfg, st, plan, edits>>

\* Between two runs somebody drops what terraform has made.
Outside(r) ==
    /\ RunEnded
    /\ Fault("outside")
    /\ Kind[r] \in {"database", "role", "account"}
    /\ st[r] # Nil /\ CanDrop(r, st[r])
    /\ server' \in Unmade(r, st[r])
    /\ UNCHANGED <<world, cfg, st, plan, pc, edits>>

\* terraform import of what no block has, by its name
Import(r) ==
    /\ RunEnded
    /\ Kind[r] \in {"database", "defaults"}
    /\ st[r] = Nil /\ cfg[r] # Nil
    /\ Kind[r] = "defaults" => HasAccount
    /\ \A s \in Res : st[s] # Nil /\ Kind[s] = Kind[r] => st[s].name # cfg[r].name
    /\ LET read == Read(r, Planned(r, FALSE)) IN read # Nil /\ Save(r, read)
    /\ UNCHANGED <<world, server, cfg, plan, pc, edits, faults>>

\* The next run, with the same configuration or an edited one
NewRun ==
    /\ RunEnded
    /\ pc' = [r \in Res |-> "refresh"]
    /\ \/ UNCHANGED <<cfg, edits>>
       \/ /\ edits < MaxEdits
          /\ edits' = edits + 1
          /\ cfg' \in Configurations[world] \ {cfg}
    /\ plan' = [r \in Res |-> "none"]
    /\ UNCHANGED <<world, server, st, faults>>

Handler(r) == \/ Create(r) \/ CreateFails(r) \/ ReadBack(r) \/ ReadBackFails(r)
              \/ Update(r) \/ UpdateFails(r) \/ Delete(r) \/ DeleteFails(r) \/ Skip(r)

Next == \/ Refresh \/ RefreshFails \/ NewRun
        \/ \E r \in Res : Handler(r) \/ Crash(r) \/ Outside(r) \/ Import(r)

Safe == Init /\ [][Next]_vars

\* Statements end, with a result or an error; terraform is run again.
Spec == /\ Safe
        /\ WF_vars(Refresh) /\ WF_vars(NewRun) /\ \A r \in Res : WF_vars(Handler(r))

------------------------------------------------------------------------------
(* Properties *)

Present(r, s) ==
    CASE Kind[r] = "database" -> server.database[s.name] # Nil
      [] Kind[r] = "role" -> s.name \in server.role
      [] Kind[r] = "sql" -> s.name \in server.made
      [] OTHER -> HasAccount

Stands(r) == /\ Kind[r] \in {"database", "role", "account", "sql"}
             /\ cfg[r] # Nil /\ st[r] # Nil
             /\ cfg[r].name = st[r].name /\ ~st[r].tainted
             /\ Kind[r] = "account" => cfg[r].val = st[r].val
             /\ Present(r, st[r])

\* What a block declares and terraform's state has is not dropped by a step of the
\* provider, its own or that of another block: not by a change of collation, nor by
\* the removal of a second block that was refused the same name.  A lost reply of a
\* DROP lets a second block in; a mysql_sql, which is never read, a crash does too.
DeclaredSurvives ==
    [][\A r \in Res :
          /\ Stands(r) /\ cfg'[r] = cfg[r]
          /\ "drop_lost" \notin faults /\ (Kind[r] = "sql" => "crash" \notin faults)
          /\ "outside" \in faults' => "outside" \in faults
          => Present(r, cfg[r])']_vars

\* What the server has at the end of a run is in terraform's state, when no reply was
\* lost, no process died and no role was taken for gone: the error of a read after
\* CREATE does not lose the object.
NoOrphan ==
    RunEnded /\ faults \cap {"lost", "crash", "unread"} = {} =>
        /\ \A n \in DbName : server.database[n] # Nil =>
              \E r \in Res : Kind[r] = "database" /\ st[r] # Nil /\ st[r].name = n
        /\ \A n \in server.role : \E r \in Res : Kind[r] = "role" /\ st[r] # Nil /\ st[r].name = n
        /\ \A n \in server.made : \E r \in Res : Kind[r] = "sql" /\ st[r] # Nil /\ st[r].name = n
        /\ HasAccount => \E r \in Res : Kind[r] = "account" /\ st[r] # Nil

Has(r) ==
    CASE Kind[r] = "database" -> server.database[cfg[r].name] = cfg[r].val
      [] Kind[r] = "grant"    -> HasAccount /\ server.account.granted = cfg[r].val
      [] Kind[r] = "defaults" -> HasAccount /\ server.account.defaults = cfg[r].val
      [] OTHER                -> Present(r, cfg[r])

\* What no run can apply: a collation that is not of the declared character set, and a
\* name that two blocks declare.
Invalid(r) ==
    /\ Kind[r] \in {"database", "sql"} /\ cfg[r] # Nil
    /\ \/ Kind[r] = "database" /\ cfg[r].val \notin Collation
       \/ \E s \in Res \ {r} : Kind[s] = Kind[r] /\ cfg[s] # Nil /\ cfg[s].name = cfg[r].name

Applied(r) == IF cfg[r] = Nil THEN st[r] = Nil ELSE st[r] = Planned(r, FALSE) /\ Has(r)

\* A Delete that the server refuses in every run, since no read takes the resource for
\* gone: a mysql_sql that is unmade, the default roles of an account that is gone.
Undeletable(r) == Kind[r] \in {"defaults", "sql"} /\ st[r] # Nil /\ ~CanDrop(r, st[r])

\* Once the user stops editing and the server stops failing, running terraform again
\* brings state and server to the configuration: after refused statements, failed
\* reads of a database, objects dropped by hand, and an account that was replaced
\* and lost its roles and default roles with it.  After a lost reply of a CREATE, a
\* crash or a failed read of a role the next CREATE may be refused for ever.
Converges ==
    \/ <>(faults \cap {"lost", "crash", "unread"} # {})
    \/ <>[](\A r \in Res : Applied(r) \/ Undeletable(r) \/ Invalid(r))
==============================================================================
