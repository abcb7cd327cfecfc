------------------------------- MODULE MCUsers -------------------------------
(* Instances of Users: u1's password is set by w1, u2 declares its own, both   *)
(* accounts have one name; u3 has an authentication string in either form, or  *)
(* is an AAD user.                                                              *)
EXTENDS PasswordProofs, TLC

CONSTANTS u1, u2, u3, w1

MCName == (u1 :> "app") @@ (u2 :> "app") @@ (u3 :> "other")
MCCasts == {{u1, w1}, {u1, u2}, {u3}}
MCTarget == w1 :> u1
MCSecret == {"", "p1", "p2", "g1", "g2"}
MCGenerated == {"g1", "g2"}

MCTls == {"", "NONE", "SSL"}

\* One version for every combination of what depends on it.
MCVersions == {50624, 50705, 50744, 80036}

Plain == [aad |-> FALSE, pw |-> "", wo |-> "", wov |-> 0, hash |-> "", hex |-> FALSE,
          tls |-> "NONE", limit |-> 0, retain |-> FALSE, discard |-> FALSE]

MCConfigs ==
    (u1 :> {Plain, [Plain EXCEPT !.tls = "SSL"]}) @@
    (u2 :> {[Plain EXCEPT !.pw = "p1", !.limit = 1],
            [Plain EXCEPT !.pw = "p2", !.tls = "SSL", !.retain = TRUE, !.discard = TRUE]}) @@
    (u3 :> {[Plain EXCEPT !.hash = "p1"],
            [Plain EXCEPT !.hash = "p1", !.hex = TRUE, !.limit = 1],
            [Plain EXCEPT !.hash = "p2", !.hex = TRUE, !.tls = "SSL"],
            [Plain EXCEPT !.aad = TRUE, !.tls = "SSL"]})

MCPassConfigs == {[pw |-> "", retain |-> FALSE], [pw |-> "p1", retain |-> TRUE]}

\* password_wo is replaced by plaintext_password.
WriteOnly ==
    (u1 :> {Plain}) @@
    (u2 :> {[Plain EXCEPT !.wo = "p1", !.wov = 1], [Plain EXCEPT !.pw = "p2"]}) @@ (u3 :> {})

\* What PasswordDeclared asks of the constants is what tells the two instances apart.
ASSUME Hypotheses ==
    PassAlone /\ RetainsPassword /\ (OneWay <=> Configs # WriteOnly)
==============================================================================
