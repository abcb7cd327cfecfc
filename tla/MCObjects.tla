------------------------------ MODULE MCObjects ------------------------------
(* An instance of Objects.  Two blocks for databases of which each may take     *)
(* either name; an account with a grant of roles and default roles; two         *)
(* mysql_sql.                                                                   *)
EXTENDS Objects, TLC

CONSTANTS db1, db2, account, roleA, roleB, grant, defaults, sql1, sql2

MCKind == (db1 :> "database") @@ (db2 :> "database") @@ (account :> "account")
          @@ (roleA :> "role") @@ (roleB :> "role") @@ (grant :> "grant")
          @@ (defaults :> "defaults") @@ (sql1 :> "sql") @@ (sql2 :> "sql")

Pair(charset, collation) == [charset |-> charset, collation |-> collation]

MCCollation == {Pair("utf8mb4", "utf8mb4_general_ci"), Pair("utf8mb4", "utf8mb4_0900_ai_ci"),
                Pair("latin1", "latin1_swedish_ci")}

MCDefault == [utf8mb4 |-> "utf8mb4_0900_ai_ci", latin1 |-> "latin1_swedish_ci"]

Absent == [r \in Res |-> Nil]

Named(n, v) == [name |-> n, val |-> v]

\* A default collation that SHOW CREATE DATABASE leaves out, and one that is printed
DatabaseBlocks ==
    {Nil} \cup {Named(n, v) : n \in {"x", "y"},
                v \in {Pair("utf8mb4", "utf8mb4_general_ci"), Pair("latin1", "latin1_swedish_ci")}}

\* One block is changed to a character set without its collation.
Databases ==
    {(db1 :> b) @@ (db2 :> c) @@ Absent :
        b \in DatabaseBlocks, c \in DatabaseBlocks \cup {Named("y", Pair("latin1", "utf8mb4_general_ci"))}}

AccountOf(plugin, granted, default) ==
    (account :> Named("account", plugin)) @@ (roleA :> Named("a", Nil)) @@ (roleB :> Named("b", Nil))
    @@ (grant :> Named("account", granted)) @@ (defaults :> Named("account", default)) @@ Absent

Without(f, S) == [r \in Res |-> IF r \in S THEN Nil ELSE f[r]]

Accounts ==
    {Absent, AccountOf("native", {"a"}, {"a"}), AccountOf("native", {"b"}, {"b"}),
     AccountOf("native", {"a", "b"}, {"b"}), AccountOf("sha2", {"a"}, {"a"}),
     Without(AccountOf("native", {"a"}, {"a"}), {roleB}),
     Without(AccountOf("native", {"b"}, {"b"}), {roleA}),
     Without(AccountOf("native", {"b"}, {"b"}), {defaults}),
     Without(AccountOf("native", {"b"}, {"b"}), {defaults, grant})}

Scripts == {(sql1 :> b) @@ (sql2 :> c) @@ Absent :
               b \in {Nil, Named("v1", Nil), Named("v2", Nil)},
               c \in {Nil, Named("v1", Nil), Named("v2", Nil)}}

MCConfigurations == [databases |-> Databases, accounts |-> Accounts, scripts |-> Scripts]
==============================================================================
