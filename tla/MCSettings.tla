------------------------------ MODULE MCSettings ------------------------------
(* Two TiKV settings, one of them without a default value, a global variable   *)
(* that may be written in a form the server does not show; the two RDS         *)
(* settings; and, on clusters of two instances, a setting for all of them or   *)
(* for one, and one of which the provider does not know the default value.     *)
EXTENDS Settings, TLC

CONSTANTS t1, t2, g, d, c1, c2

MCKind == (t1 :> "ti") @@ (t2 :> "ti") @@ (g :> "global") @@ (d :> "rds")
          @@ (c1 :> "ti") @@ (c2 :> "ti")
MCOf == (t1 :> <<"split">>) @@ (t2 :> <<"level">>) @@ (g :> <<"autocommit">>)
        @@ (d :> <<"hours", "delay">>) @@ (c1 :> <<"qps">>) @@ (c2 :> <<"quota">>)
MCSetting == {"split", "level", "autocommit", "hours", "delay", "qps", "quota"}
MCValue == {"0", "1", "on"}
MCStored == [v \in MCValue |-> IF v = "on" THEN "1" ELSE v]
MCDefault == [s \in MCSetting |-> "0"]
MCKept == {"level"}
MCCluster == [tidb |-> <<"a">>, rds |-> <<"a">>, cluster |-> <<"a", "b">>, untabled |-> <<"a", "b">>]
MCOn == (t1 :> {"tidb"}) @@ (t2 :> {"tidb"}) @@ (g :> {"tidb"}) @@ (d :> {"rds"})
        @@ (c1 :> {"cluster"}) @@ (c2 :> {"untabled"})
All(v) == [val |-> v, at |-> Nil]
One(v, n) == [val |-> v, at |-> n]
MCConfigs == (t1 :> {All(<<"1">>)}) @@ (t2 :> {All(<<"1">>)}) @@ (g :> {All(<<"on">>)})
             @@ (d :> {All(<<"1", "0">>), All(<<"1", "1">>)})
             @@ (c1 :> {All(<<"1">>), One(<<"1">>, "b"), One(<<"0">>, "b")})
             @@ (c2 :> {One(<<"1">>, "b")})
===============================================================================
