----------------------------- MODULE MCDsmDaemon -----------------------------
(***************************************************************************)
(* Instances of DsmDaemon for TLC: two sessions in one bucket.             *)
(***************************************************************************)
EXTENDS DsmDaemon, TLC

CONSTANTS c1, c2, x, y

SameBucket == (x :> 0) @@ (y :> 0)
OneClient  == {(c1 :> x)}
OneSession == {(c1 :> x) @@ (c2 :> x)}

(* Two clients meet in one session, or each asks for its own.              *)
TwoClients == {(c1 :> x) @@ (c2 :> s) : s \in {x, y}}
=============================================================================
