------------------------------ MODULE MCServer ------------------------------
(* Two admins with a session each, a user, an id for a new account; two
   strategies, one of them with a start later than the first snapshots. *)
EXTENDS Server, TLC

CONSTANTS ann, bob, carl, dora, k1, k2, k3, fr, ia

TheUsers == ann :> "admin" @@ bob :> "admin" @@ carl :> "user" @@ dora :> None
TheSessions == k1 :> ann @@ k2 :> bob @@ k3 :> None
TheStart == fr :> 1 @@ ia :> 2
TheMarkets == fr :> {"margin", "usdt_futures"} @@ ia :> {"spot", "linear"}
ThePriced == {<<fr, 1>>, <<fr, 2>>, <<ia, 1>>, <<ia, 3>>}

Symmetric == Permutations(Tasks)
=============================================================================
