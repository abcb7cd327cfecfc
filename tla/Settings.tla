------------------------------- MODULE Settings -------------------------------
(***************************************************************************)
(* The resources that set values of the server and reset them when they    *)
(* are deleted: mysql_global_variable, mysql_rds_config and                *)
(* mysql_ti_config, over runs of terraform as in Grants.                   *)
(*                                                                         *)
(* A statement is two steps, taking a connection of the provider's pool    *)
(* and running the statement, since mysql_ti_config asks the server for    *)
(* warnings in a statement of its own, which may run on another connection *)
(* or after another handler's statement on the same one.                   *)
(*                                                                         *)
(* A setting of TiKV or PD has a value on each instance of a cluster.  A    *)
(* mysql_ti_config is about one instance or about all; instances leave the *)
(* cluster, and new ones join it.                                          *)
(*                                                                         *)
(* Settings exist and differ between resources.                            *)
(***************************************************************************)
EXTENDS Naturals, Sequences, FiniteSets

CONSTANTS
    Res,        \* the resources
    Kind,       \* Kind[r]: "global", "rds" or "ti"
    Of,         \* Of[r]: the settings of r, in the order of its statements
    Setting,
    Value,
    Stored,     \* Stored[v]: how the server shows the value v
    Default,    \* Default[s]: the value before anything is set, and after a reset
    Kept,       \* the settings whose default value says IGNOREONDESTROY
    Untabled,   \* the settings of which the provider does not know the default value
    Product,    \* the servers that behaviours are about
    Cluster,    \* Cluster[p]: the instances of p, in the order of SHOW CONFIG
    On,         \* On[r]: the products that have the settings of r
    Configs,    \* Configs[r]: the blocks of r
    Conn,       \* connections that the pool may open
    Faults,     \* the kinds of failure that may happen, each once
    MaxFaults, MaxEdits,
    Nil

Settings(r) == {Of[r][i] : i \in DOMAIN Of[r]}

Instance == UNION {{Cluster[p][i] : i \in DOMAIN Cluster[p]} : p \in Product}

\* A block has a value for each setting, for the instance at, or for all of them.
Block(r) == [val : [DOMAIN Of[r] -> Value], at : Instance \cup {Nil}]

ASSUME SettingsAssumption ==
    /\ Kind \in [Res -> {"global", "rds", "ti"}]
    /\ \A r \in Res : Of[r] \in Seq(Setting) /\ Of[r] # <<>>
    /\ \A r, t \in Res : r # t => Settings(r) \cap Settings(t) = {}
    /\ Stored \in [Value -> Value] /\ Default \in [Setting -> Value]
    /\ Kept \cap Untabled = {}
    /\ \A p \in Product : Cluster[p] \in Seq(Instance) /\ Cluster[p] # <<>>
    /\ \A r \in Res : On[r] \subseteq Product
    /\ \A r \in Res : Configs[r] \subseteq Block(r)
    /\ \A r \in Res : \A c \in Configs[r] : c.at # Nil => Kind[r] = "ti"
    /\ Nil \notin Conn /\ Nil \notin Instance
    /\ MaxFaults \in Nat /\ MaxEdits \in Nat

\* database/sql keeps two idle connections and closes what is given back beyond them.
ASSUME IdleAssumption == Cardinality(Conn) \in {1, 2}

VARIABLES
    product,  \* what this behaviour is about
    value,    \* value[s][n]: the value of setting s on the instance n
    up,       \* the instances of the cluster
    cfg, st,  \* configuration and state of the resources, Nil when there is none
    tainted,  \* the resources to be replaced, since their creation ended in an error
    plan, pc,
    pos,      \* pos[r]: which statement of its handler r is at
    conn,     \* conn[r]: the connection r has taken, or Nil
    free,     \* the idle connections of the pool, the one used last at the end
    opened,   \* the connections of the pool
    warned,   \* the connections whose last statement left a warning or an error
    edits, faults

vars == <<product, value, up, cfg, st, tainted, plan, pc, pos, conn, free, opened, warned, edits, faults>>

Pool == <<conn, free, opened, warned>>

\* TiDB has no RDS configuration, Amazon's MySQL no TiKV.
Blocks(r) == {c \in Configs[r] : product \in On[r]}

\* The state of a resource: the last part of the id is the instance of the last success.
State(r) == [val : [DOMAIN Of[r] -> Value], at : Instance \cup {Nil}, id : Instance \cup {Nil}]

\* What ReadConfigVariable makes of an instance without a row: all attributes are empty.
Blank(n) == [val |-> <<>>, at |-> Nil, id |-> n]

ASSUME NilAssumption ==
    /\ \A r \in Res : Nil \notin Block(r) \cup State(r)
    /\ \A n \in Instance : Blank(n) # Nil

\* The instances that a statement sets, and the one whose row is read
Where(n) == IF n = Nil THEN up ELSE {n} \cap up

First == LET Has(i) == Cluster[product][i] \in up
         IN Cluster[product][CHOOSE i \in DOMAIN Cluster[product] :
                                Has(i) /\ \A j \in 1 .. i - 1 : ~Has(j)]

Shown(n) == IF n = Nil THEN First ELSE n

TypeOK ==
    /\ product \in Product
    /\ value \in [Setting -> [Instance -> Value]]
    /\ up \subseteq Instance /\ up # {}
    /\ \A r \in Res : cfg[r] \in Blocks(r) \cup {Nil}
    /\ \A r \in Res : st[r] \in State(r) \cup {Blank(n) : n \in Instance} \cup {Nil}
    /\ tainted \subseteq Res
    /\ plan \in [Res -> {"none", "create", "update", "delete", "stuck"}]
    /\ pc \in [Res -> {"refresh", "planned", "take", "run", "deleted", "done"}]
    /\ \A r \in Res : pos[r] \in 1 .. Len(Of[r]) + 1
    /\ conn \in [Res -> Conn \cup {Nil}]
    /\ \A r, t \in Res : conn[r] = conn[t] /\ conn[r] # Nil => r = t
    /\ \A r \in Res : pc[r] = "run" <=> conn[r] # Nil
    /\ free \in Seq(opened) /\ opened \subseteq Conn /\ warned \subseteq opened
    /\ edits \in 0 .. MaxEdits
    /\ faults \subseteq Faults

Init ==
    /\ product \in Product
    /\ value = [s \in Setting |-> [n \in Instance |-> Default[s]]]
    /\ up = {Cluster[product][i] : i \in DOMAIN Cluster[product]}
    /\ cfg \in {c \in [Res -> UNION {Configs[r] : r \in Res} \cup {Nil}] :
                    \A r \in Res : c[r] \in Blocks(r) \cup {Nil}}
    /\ st = [r \in Res |-> Nil]
    /\ tainted = {}
    /\ plan = [r \in Res |-> "none"]
    /\ pc = [r \in Res |-> "planned"]
    /\ pos = [r \in Res |-> 1]
    /\ conn = [r \in Res |-> Nil]
    /\ free = <<>> /\ opened = {} /\ warned = {}
    /\ edits = 0
    /\ faults = {}

Fault(kind) == /\ kind \in Faults \ faults
               /\ Cardinality(faults) < MaxFaults
               /\ faults' = faults \cup {kind}

------------------------------------------------------------------------------
(* Refresh and plan *)

\* Mutant: Read does not set the value.
ReadKeeps(r, old) == old

\* ReadGlobalVariable, ReadRDSConfig, ReadConfigVariable, of which the last looks at the id
Read(r, old) ==
    IF old.id # Nil /\ old.id \notin up THEN Blank(old.id)
    ELSE [val |-> [i \in DOMAIN Of[r] |-> value[Of[r][i]][Shown(old.id)]],
          at  |-> IF old.id = Nil THEN old.at ELSE old.id,
          id  |-> old.id]

Refresh(r) ==
    /\ pc[r] = "refresh"
    /\ pc' = [pc EXCEPT ![r] = "planned"]
    /\ st' = [st EXCEPT ![r] = Read(r, @)]
    /\ UNCHANGED <<product, value, up, cfg, tainted, plan, pos, Pool, edits, faults>>

\* A resource that cannot be read ends the run.
RefreshFails(r) ==
    /\ pc[r] = "refresh"
    /\ Fault("rejected")
    /\ pc' = [t \in Res |-> "done"]
    /\ UNCHANGED <<product, value, up, cfg, st, tainted, plan, pos, Pool, edits>>

IsBlank(r) == st[r] # Nil /\ st[r].val = <<>>

\* An empty name or type is replaced, but DeleteConfigVariable refuses an empty type.
\* What is tainted is deleted, and created again when it is declared.
PlanOf(r) ==
    CASE st[r] = Nil -> IF cfg[r] = Nil THEN "none" ELSE "create"
      [] st[r] # Nil /\ IsBlank(r) -> "stuck"
      [] st[r] # Nil /\ ~IsBlank(r) /\ (cfg[r] = Nil \/ r \in tainted) -> "delete"
      [] st[r] # Nil /\ ~IsBlank(r) /\ cfg[r] # Nil /\ r \notin tainted ->
            IF st[r].val # cfg[r].val \/ st[r].at # cfg[r].at THEN "update" ELSE "none"

\* Mutant: no default value is restored.
RunsNothingOnDelete(r) == PlanOf(r) \in {"none", "stuck"} \/ (PlanOf(r) = "delete" /\ Kind[r] = "ti")

\* DeleteConfigVariable runs no statement for a setting without a default value.
RunsNothing(r) ==
    \/ PlanOf(r) \in {"none", "stuck"}
    \/ PlanOf(r) = "delete" /\ Kind[r] = "ti" /\ Settings(r) \subseteq Kept

\* Applying is a new process of the provider, with no connections.
StartApply ==
    /\ \A r \in Res : pc[r] = "planned"
    /\ plan' = [r \in Res |-> PlanOf(r)]
    /\ pc' = [r \in Res |-> IF RunsNothing(r) THEN "done" ELSE "take"]
    /\ pos' = [r \in Res |-> 1]
    /\ st' = [r \in Res |-> IF RunsNothing(r) /\ PlanOf(r) = "delete" THEN Nil ELSE st[r]]
    /\ conn' = [r \in Res |-> Nil]
    /\ free' = <<>> /\ opened' = {} /\ warned' = {}
    /\ UNCHANGED <<product, value, up, cfg, tainted, edits, faults>>

------------------------------------------------------------------------------
(* The pool of database/sql *)

\* The idle connection that was used last, or a new one while there may be more.
Take(r) ==
    /\ pc[r] = "take"
    /\ \/ /\ free # <<>>
          /\ conn' = [conn EXCEPT ![r] = free[Len(free)]]
          /\ free' = SubSeq(free, 1, Len(free) - 1)
          /\ UNCHANGED opened
       \/ /\ free = <<>>
          /\ \E c \in Conn \ opened : /\ conn' = [conn EXCEPT ![r] = c]
                                      /\ opened' = opened \cup {c}
          /\ UNCHANGED free
    /\ pc' = [pc EXCEPT ![r] = "run"]
    /\ UNCHANGED <<product, value, up, cfg, st, tainted, plan, pos, warned, edits, faults>>

GiveBack(r) == /\ conn' = [conn EXCEPT ![r] = Nil]
               /\ free' = Append(free, conn[r])
               /\ UNCHANGED opened

\* The connection is broken.
Close(r) == /\ conn' = [conn EXCEPT ![r] = Nil]
            /\ opened' = opened \ {conn[r]}
            /\ warned' = warned \ {conn[r]}
            /\ UNCHANGED free

------------------------------------------------------------------------------
(* The statements of the handlers *)

\* How a handler ends: what goes to the state.  A replacement goes on when what was
\* tainted is gone.
End(r, s) ==
    /\ pc' = [pc EXCEPT ![r] = IF s = Nil /\ r \in tainted /\ cfg[r] # Nil THEN "deleted" ELSE "done"]
    /\ st' = [st EXCEPT ![r] = s]
    /\ tainted' = IF s = Nil THEN tainted \ {r} ELSE tainted
    /\ UNCHANGED pos

Planned(r, id) == [val |-> cfg[r].val, at |-> cfg[r].at, id |-> id]

Success(r) == IF plan[r] = "delete" THEN Nil ELSE Planned(r, cfg[r].at)

\* The SDK saves the planned values of an update that failed, with the old id; terraform keeps a
\* resource whose deletion failed.
Failure(r) ==
    CASE plan[r] = "create" -> Nil
      [] plan[r] = "update" -> Planned(r, st[r].id)
      [] plan[r] = "delete" -> st[r]

\* DeleteGlobalVariable returns no error of its statement.
StatementFailure(r) == IF plan[r] = "delete" /\ Kind[r] = "global" THEN Nil ELSE Failure(r)

\* SHOW WARNINGS, or the read of CreateOrUpdateGlobalVariable, comes last.
Statements(r) ==
    Len(Of[r]) + (IF Kind[r] = "ti" \/ (Kind[r] = "global" /\ plan[r] # "delete") THEN 1 ELSE 0)

SettingAt(r) == Of[r][pos[r]]

Target(r) == IF plan[r] = "delete" THEN Default[SettingAt(r)] ELSE Stored[cfg[r].val[pos[r]]]

\* The instances that the statement is for
Targets(r) == Where(IF plan[r] = "delete" THEN st[r].at ELSE cfg[r].at)

Sets(r) == pc[r] = "run" /\ pos[r] <= Len(Of[r])

Put(r, S) == value' = [value EXCEPT ![SettingAt(r)] = [n \in Instance |-> IF n \in S THEN Target(r) ELSE @[n]]]

\* The default value that is not in the table is read as an empty one.
SetsEmpty(r) == plan[r] = "delete" /\ SettingAt(r) \in Untabled

\* On to the next statement.
Advance(r) == IF pos[r] < Statements(r)
              THEN /\ pos' = [pos EXCEPT ![r] = @ + 1]
                   /\ pc' = [pc EXCEPT ![r] = "take"]
                   /\ UNCHANGED <<st, tainted>>
              ELSE End(r, Success(r))

Set(r) ==
    /\ Sets(r) /\ Targets(r) # {} /\ ~SetsEmpty(r)
    /\ Put(r, Targets(r))
    /\ warned' = warned \ {conn[r]}
    /\ GiveBack(r)
    /\ Advance(r)
    /\ UNCHANGED <<product, up, cfg, plan, edits, faults>>

\* SET CONFIG succeeds with a warning when an instance does not take the value.  No
\* instance takes an empty one.
SetWarns(r) ==
    /\ Sets(r) /\ Kind[r] = "ti" /\ Targets(r) # {}
    /\ IF SetsEmpty(r) THEN UNCHANGED <<value, faults>>
       ELSE Fault("refused") /\ \E S \in SUBSET Targets(r) \ {Targets(r)} : Put(r, S)
    /\ warned' = warned \cup {conn[r]}
    /\ GiveBack(r)
    /\ Advance(r)
    /\ UNCHANGED <<product, up, cfg, plan, edits>>

\* An error, after which SHOW WARNINGS would print it, as of an instance that is gone;
\* or the reply is lost.
SetFails(r) ==
    /\ Sets(r)
    /\ \/ /\ IF Targets(r) = {} THEN UNCHANGED faults ELSE Fault("rejected")
          /\ warned' = warned \cup {conn[r]}
          /\ GiveBack(r)
          /\ UNCHANGED value
       \/ /\ ~SetsEmpty(r) /\ Fault("lost")
          /\ Put(r, Targets(r))
          /\ Close(r)
    /\ End(r, StatementFailure(r))
    /\ UNCHANGED <<product, up, cfg, plan, edits>>

\* The connection's last statement may be another handler's, and that of this one
\* may have run on another connection.  An error of SHOW WARNINGS is ignored.
ShowWarnings(r) ==
    /\ pc[r] = "run" /\ pos[r] > Len(Of[r]) /\ Kind[r] = "ti"
    /\ \/ /\ End(r, IF conn[r] \in warned THEN Failure(r) ELSE Success(r))
          /\ GiveBack(r)
          /\ UNCHANGED <<warned, faults>>
       \/ /\ End(r, Success(r))
          /\ Fault("lost")
          /\ Close(r)
    /\ UNCHANGED <<product, value, up, cfg, plan, edits>>

\* Mutant: the row is not scanned, which would close it, and keeps its connection.
ReadBackUnscanned(r) ==
    /\ pc[r] = "run" /\ pos[r] > Len(Of[r]) /\ Kind[r] = "global"
    /\ End(r, Success(r))
    /\ UNCHANGED <<product, value, up, cfg, plan, Pool, edits, faults>>

\* An error that keeps the id is returned with the planned values, and taints what is new.
EndUnread(r) ==
    /\ pc' = [pc EXCEPT ![r] = "done"]
    /\ st' = [st EXCEPT ![r] = Success(r)]
    /\ tainted' = IF plan[r] = "create" THEN tainted \cup {r} ELSE tainted
    /\ UNCHANGED pos

\* An error of ReadGlobalVariable's query clears the id, one of Prepare does not.
ReadBack(r) ==
    /\ pc[r] = "run" /\ pos[r] > Len(Of[r]) /\ Kind[r] = "global"
    /\ \/ End(r, Read(r, Success(r))) /\ GiveBack(r) /\ warned' = warned \ {conn[r]} /\ UNCHANGED faults
       \/ (End(r, Nil) \/ EndUnread(r)) /\ Close(r) /\ Fault("lost")
    /\ UNCHANGED <<product, value, up, cfg, plan, edits>>

\* getDatabaseFromMeta fails when a handler starts, or ReadGlobalVariable behind it.
NoDatabase(r) ==
    /\ pc[r] = "take"
    /\ \/ pos[r] = 1 /\ End(r, Failure(r))
       \/ pos[r] > Len(Of[r]) /\ Kind[r] = "global" /\ EndUnread(r)
    /\ Fault("lost")
    /\ UNCHANGED <<product, value, up, cfg, plan, Pool, edits>>

\* terraform creates what it has deleted in order to replace it.
Replace(r) ==
    /\ pc[r] = "deleted"
    /\ plan' = [plan EXCEPT ![r] = "create"]
    /\ pc' = [pc EXCEPT ![r] = "take"]
    /\ pos' = [pos EXCEPT ![r] = 1]
    /\ UNCHANGED <<product, value, up, cfg, st, tainted, Pool, edits, faults>>

------------------------------------------------------------------------------
(* The cluster (external) *)

Leave(n) ==
    /\ n \in up /\ up # {n}
    /\ Fault("left")
    /\ up' = up \ {n}
    /\ UNCHANGED <<product, value, cfg, st, tainted, plan, pc, pos, Pool, edits>>

\* An instance comes back, or another one with its address
Join(n) ==
    /\ n \in {Cluster[product][i] : i \in DOMAIN Cluster[product]} \ up
    /\ Fault("joined")
    /\ up' = up \cup {n}
    /\ value' \in {value, [s \in Setting |-> [value[s] EXCEPT ![n] = Default[s]]]}
    /\ UNCHANGED <<product, cfg, st, tainted, plan, pc, pos, Pool, edits>>

------------------------------------------------------------------------------
RunEnded == \A r \in Res : pc[r] = "done"

Crash ==
    /\ ~RunEnded /\ \A r \in Res : pc[r] \notin {"refresh", "planned"}
    /\ Fault("crash")
    /\ pc' = [r \in Res |-> "done"]
    /\ conn' = [r \in Res |-> Nil]
    /\ free' = <<>> /\ opened' = {} /\ warned' = {}
    /\ UNCHANGED <<product, value, up, cfg, st, tainted, plan, pos, edits>>

\* What is in the state is read again.
NewRun ==
    /\ RunEnded
    /\ pc' = [r \in Res |-> IF st[r] = Nil THEN "planned" ELSE "refresh"]
    /\ plan' = [r \in Res |-> "none"]
    /\ \/ UNCHANGED <<cfg, edits>>
       \/ /\ edits < MaxEdits
          /\ edits' = edits + 1
          /\ \E r \in Res : \E c \in Blocks(r) \cup {Nil} : cfg' = [cfg EXCEPT ![r] = c]
    /\ UNCHANGED <<product, value, up, st, tainted, pos, Pool, faults>>

\* ImportStatePassthroughContext and the read that follows it
Import(r) ==
    /\ RunEnded
    /\ cfg[r] # Nil /\ st[r] = Nil
    /\ edits < MaxEdits /\ edits' = edits + 1
    /\ st' = [st EXCEPT ![r] = Read(r, Planned(r, cfg[r].at))]
    /\ UNCHANGED <<product, value, up, cfg, tainted, plan, pc, pos, Pool, faults>>

Handler(r) == \/ Refresh(r) \/ RefreshFails(r) \/ Take(r) \/ Set(r) \/ SetWarns(r)
              \/ SetFails(r) \/ ShowWarnings(r) \/ ReadBack(r) \/ NoDatabase(r) \/ Replace(r)

Next == \/ StartApply \/ NewRun \/ Crash
        \/ \E r \in Res : Handler(r) \/ Import(r)
        \/ \E n \in Instance : Leave(n) \/ Join(n)

Safe == Init /\ [][Next]_vars

\* Statements end, and terraform goes on and is run again.  A handler that waits for
\* a connection waits for finitely many statements.
Spec == Safe /\ WF_vars(StartApply) /\ WF_vars(NewRun) /\ \A r \in Res : WF_vars(Handler(r))

------------------------------------------------------------------------------
(* Properties *)

\* Changing the instance of a block leaves the old one as it is.
Moves(r) == \E c, d \in Configs[r] : c.at # d.at

\* After runs without failures a resource that was removed has left nothing behind, in
\* the state or on an instance, but what has no default value to go back to, and what
\* the provider knows none of.
DestroyResets ==
    RunEnded /\ faults = {} =>
        \A r \in Res : cfg[r] = Nil /\ Settings(r) \cap Untabled = {} =>
            /\ st[r] = Nil
            /\ ~Moves(r) => \A s \in Settings(r) \ Kept, n \in up : value[s][n] = Default[s]

\* A refresh of r looks at another instance than n: the first one, when all are to be
\* set, or when changing the block to one instance has failed and left the id.
Unseen(r, n) == st[r] # Nil /\ n # Shown(st[r].id)

\* A block that fails in every run: its instance is gone, or its value cannot be reset.
Fails(r) == IF cfg[r] # Nil THEN Where(cfg[r].at) = {}
            ELSE st[r] # Nil /\ (Settings(r) \cap Untabled # {} \/ Where(st[r].at) = {})

\* Whatever was refused, lost, blamed on the wrong handler or interrupted: repeated
\* runs bring every declared value to the instances and removed resources out of the
\* state, although the SDK takes the planned values of a failed update for applied.
\* What a failure left on an instance that is not read stays, as does a resource whose
\* instance is gone, which can be neither deleted nor replaced; and a block that always
\* fails may be the blame of every other one.
Converges ==
    <>[](\A r \in Res :
            \/ IsBlank(r)
            \/ \E t \in Res : Fails(t)
            \/ cfg[r] = Nil /\ st[r] = Nil
            \/ cfg[r] # Nil /\ \A i \in DOMAIN Of[r], n \in Where(cfg[r].at) :
                  \/ value[Of[r][i]][n] = Stored[cfg[r].val[i]]
                  \/ faults # {} /\ Unseen(r, n))
===============================================================================
