------------------------------ MODULE MCGrants -------------------------------
(* Instances of Grants.  Three privileges, of which no list names all: only    *)
(* ALL PRIVILEGES stands for them; "select" is SELECT.                          *)
EXTENDS GrantsProofs, TLC

CONSTANTS r1, r2, r3, o1, o2

MCPriv == {"SELECT", "UPDATE", "DELETE"}
MCAll == "ALL PRIVILEGES"
MCRaw == MCPriv \cup {MCAll, "select"}
MCCanon == [p \in MCRaw |-> IF p = "select" THEN "SELECT" ELSE p]

\* Small letters come after capitals.
MCPlace == (MCAll :> 1) @@ ("DELETE" :> 2) @@ ("SELECT" :> 3) @@ ("UPDATE" :> 4) @@ ("select" :> 5)

AnyHost == [name |-> "u", host |-> "%"]
Localhost == [name |-> "u", host |-> "localhost"]
RoleU == [name |-> "u", host |-> ""]

\* r1 and r2 declare privileges of the same user on the same table, r3 on another.
Duplicate == (r1 :> AnyHost) @@ (r2 :> AnyHost) @@ (r3 :> AnyHost)
DuplicateObj == (r1 :> o1) @@ (r2 :> o1) @@ (r3 :> o2)

\* Two blocks for one slot.
Pair == (r1 :> AnyHost) @@ (r2 :> AnyHost)
PairObj == (r1 :> o1) @@ (r2 :> o1)

\* Two slots that differ by the host.
Hosts == (r1 :> AnyHost) @@ (r2 :> Localhost)

\* The role u is the account u@% of the server.
RoleAndUser == (r1 :> AnyHost) @@ (r2 :> RoleU)

Declare(P, g) == [privs |-> P, grant |-> g]

\* Every two of them share a privilege: an update never empties the row.
Overlapping == {Declare({"SELECT"}, FALSE), Declare({"SELECT", "UPDATE"}, FALSE),
                Declare({"SELECT", "UPDATE"}, TRUE)}

\* A list that names a privilege twice and one that small letters put in another order
\* included, ALL PRIVILEGES WITH GRANT OPTION not.
Varied == {Declare({"SELECT"}, FALSE), Declare({"UPDATE"}, FALSE), Declare({"select"}, TRUE),
           Declare({MCAll}, FALSE), Declare({"select", "SELECT", "UPDATE"}, FALSE),
           Declare({"select", "UPDATE"}, FALSE)}

\* Lists that share a privilege and lists that share none.
Mixed == {Declare({"SELECT"}, FALSE), Declare({"SELECT", "UPDATE"}, TRUE),
          Declare({"UPDATE"}, FALSE)}

Disjoint == {Declare({"SELECT"}, FALSE), Declare({"UPDATE"}, FALSE)}

AllWithGrantOption == {Declare({MCAll}, TRUE)}

\* What the theorems StateTrue, NothingLeft, OneOwner and CheckStands ask of the constants
ASSUME Hypotheses ==
    /\ Alone <=> Who = Hosts
    /\ Revocable <=> Configs # AllWithGrantOption
    /\ (\E p \in Priv : Common(p)) <=> Configs = Overlapping
    /\ KeyAgreement <=> Who # RoleAndUser
    /\ Kept <=> Who # Hosts
==============================================================================
